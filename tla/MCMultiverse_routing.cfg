SPECIFICATION Spec
CHECK_DEADLOCK FALSE
CONSTANTS
  Multiverses <- OneMultiverse
  Specs <- SpecsOverlap
  Events <- ThreeEvents
  Universes <- MCUniverses
  NoRoute = NoRoute
  None = None
  RoutedCap = 2
  MaxCreations = 2
  MaxEdits = 1
  MaxReruns = 1
  MaxFaults = 1
INVARIANTS RecordedOnce ReplicasRecorded
PROPERTY AuditTrail
