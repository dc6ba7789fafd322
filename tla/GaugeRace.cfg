\* Two handlers with metrics: the in-flight gauge can settle on a stale count.
SPECIFICATION Spec
CONSTANTS
  b1 = b1
  b2 = b2
  Backends = {b1}
  Requests = {r1, r2}
  Names = {"chat"}
  AliasRoutes <- OneBackend
  MaxInflight <- Double
  Statuses = {200, 503}
  HasMetrics = TRUE
INVARIANT InflightGaugeSettled
