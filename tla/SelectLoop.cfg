\* The selection loop against its declarative definition, all small inputs.
SPECIFICATION SelectSpec
CONSTANTS
  Backends = {b1, b2}
  Requests = {r1}
  Names <- Lists
  AliasRoutes <- ListAliases
  MaxInflight <- TwoSlots
  HasMetrics = FALSE
  Loads = {0, 1, 2}
  MaxRoutes = 3
  Priorities = {0, 1}
INVARIANTS
  LoopSelects
CHECK_DEADLOCK FALSE
