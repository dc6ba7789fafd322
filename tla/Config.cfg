SPECIFICATION ConfigSpec
CONSTANTS
  MaxConfigBytes = 2
  MaxFileBytes = 4
  Documents <- MCDocuments
INVARIANTS
  ConfigTypeOK
  ValidatesExactly
  StateAsConfigured
PROPERTIES
  WholeFileDecoded
CHECK_DEADLOCK FALSE
