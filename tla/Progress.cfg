\* Liveness: two handlers, the last slot of one backend, metrics on, and an
\* upstream whose status may make WriteHeader panic.
SPECIFICATION FairSpec
CONSTANTS
  b1 = b1
  b2 = b2
  Backends = {b1}
  Requests = {r1, r2}
  Names = {"chat"}
  AliasRoutes <- OneBackend
  MaxInflight <- Single
  Statuses = {99, 200, 503}
  HasMetrics = TRUE
INVARIANTS
  CapacityRespected
  ReservationsCovered
PROPERTIES
  EventuallyAnswered
  EventuallyRestored
  EventuallyReady
  HealthGaugeCorrected
