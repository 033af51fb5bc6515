SPECIFICATION FairSpec
CONSTANTS
  Workflows = {"a", "b", "c"}
  Rows <- MCRows
  Source <- MCSource
  SnapshotRows = {"sealed", "empty"}
  SourceSnapshot = "sealed"
  Exported <- MCExported
  Mode <- MCMode
  Transport <- MCTransport
  Channels = {"bus", "p1", "p2"}
  Bus = "bus"
  Group <- OwnGroup
  Absent = Absent
  MaxFaults = 1
INVARIANTS NoOrphans ReadyMeansComplete DirectFaithful
PROPERTIES TargetRefinement ReplicaConverges
CHECK_DEADLOCK FALSE
