\* Two health loops and two connections, signals at any time, clients that may
\* hold their requests for ever.  The process really ends.
SPECIFICATION LifecycleFairSpec
CONSTANTS
  Backends = {b1, b2}
  Conns = {c1, c2}
INVARIANTS
  LifecycleTypeOK
  ServeStopsEverything
  DrainComplete
  ExitCodeTruthful
PROPERTY ServeTerminates
CHECK_DEADLOCK FALSE
