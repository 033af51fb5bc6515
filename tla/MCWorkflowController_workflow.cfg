\* A Workflow of each runtime, created twice, edited, deleted and retried.
SPECIFICATION FairSpec
CONSTANTS
  Managers = {"m1", "m2"}
  Specs = {"here", "volcano", "kruise", "julia"}
  Runtime <- MCRuntime
  Julia = {"julia"}
  Remote = {"kruise"}
  Sealed = {"here", "volcano", "julia"}
  NoSpec = NoSpec
  MaxTurns = 2
INVARIANTS TypeOK CompletedIsCurrent ReplayMatches ChainRan
PROPERTY SettledStays Converges
CHECK_DEADLOCK FALSE
