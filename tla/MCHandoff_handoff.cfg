\* The three container layouts, with faults and a rewritten source.
SPECIFICATION FairSpec
CONSTANTS
  Contents = {c1, c2}
  Torn = Torn
  Absent = Absent
  Layouts = {"init", "volcano", "kruise"}
  Plans <- MCPlans
  Lenient = {"identity", "coarsen"}
  Julia = {"julia"}
  Contract = {"shell"}
  Earlier <- MCEarlier
  MaxEvents = 3
INVARIANTS TypeOK HandoffFaithful CompletedRan
PROPERTY ChainSettles
CHECK_DEADLOCK FALSE
