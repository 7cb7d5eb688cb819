CONSTANTS
  AppModes = {"remote"}
  MaxHeight = 2
  NTxs = 1
  MaxCrashes = 1
SPECIFICATION Spec
CHECK_DEADLOCK FALSE
INVARIANT AppCallOrder
