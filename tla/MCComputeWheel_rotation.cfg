\* The wheel is edited once; Workflows and calls fail now and then.
CONSTANTS
  r1 = r1
  r2 = r2
  Reconcilers = {r1, r2}
  Contexts <- TwoContexts
  Interval = 5
  Start = 0
  MaxRotations = {1, 2}
  PreProvisionNext = TRUE
  MaxSlots = 6
  MaxEdits = 1
  MaxFaults = 1
SPECIFICATION FairSpec
INVARIANTS ScheduleFollowed ProcessedCompleted OneSlotAhead
PROPERTIES RefinesSchedule WheelCompletes
CHECK_DEADLOCK FALSE
