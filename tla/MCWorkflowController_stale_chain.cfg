SPECIFICATION Spec
CONSTANTS
  Managers = {"m1"}
  Specs = {"julia", "julia2"}
  Runtime <- MCRuntime
  Julia = {"julia", "julia2"}
  Remote = {}
  Sealed = {}
  NoSpec = NoSpec
  MaxTurns = 1
INVARIANT ReportsItsSpec
CHECK_DEADLOCK FALSE
