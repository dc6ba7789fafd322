\* A probe answered before a transport failure restores the backend after it.
SPECIFICATION HistorySpec
CONSTANTS
  b1 = b1
  b2 = b2
  Backends = {b1}
  Requests = {r1}
  Names = {"chat"}
  AliasRoutes <- OneBackend
  MaxInflight <- Single
  Statuses = {200, 503}
  HasMetrics = FALSE
PROPERTY RestoredByLaterProbe
