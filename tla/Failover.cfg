\* Two handlers, two interchangeable backends: every path of Serve.
SPECIFICATION Spec
CONSTANTS
  b1 = b1
  b2 = b2
  Backends = {b1, b2}
  Requests = {r1, r2}
  Names = {"chat", "other"}
  AliasRoutes <- TwoBackends
  MaxInflight <- OneEach
  Statuses = {200, 503}
  HasMetrics = FALSE
SYMMETRY Symmetry
INVARIANTS
  TypeOK
  NoAttemptAfterCommit
  FinishedRequestAccounted
  ReservationsAccounted
  ExchangesBounded
  AttemptsBounded
PROPERTIES
  QuarantineJustified
  ImplementsSlots
