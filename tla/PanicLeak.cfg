\* An upstream status below 100: the reservation is never given back.
SPECIFICATION Spec
CONSTANTS
  b1 = b1
  b2 = b2
  Backends = {b1}
  Requests = {r1}
  Names = {"chat"}
  AliasRoutes <- OneBackend
  MaxInflight <- Single
  Statuses = {99, 200}
  HasMetrics = FALSE
INVARIANT ReservationsAccounted
