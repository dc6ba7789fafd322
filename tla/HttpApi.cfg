\* Two requests at a time over the last slot of one backend, whose status may
\* make WriteHeader panic.
SPECIFICATION ApiFairSpec
CONSTANTS
  b1 = b1
  Backends = {b1}
  Requests = {r1, r2}
  Names = {"chat", "other"}
  AliasRoutes <- MCRoutes
  MaxInflight <- MCMaxInflight
  Statuses = {99, 503}
  HasMetrics = FALSE
  AuthEnabled = TRUE
INVARIANTS
  ApiTypeOK
  ServedAuthorized
PROPERTIES
  CountedAsAnswered
  EventuallyCounted
