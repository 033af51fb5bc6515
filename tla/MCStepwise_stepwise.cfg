\* Two managers run two dominos, one on the output of the other.
SPECIFICATION FairSpec
CONSTANTS
  m1 = m1  m2 = m2  c1 = c1  c2 = c2  j1 = j1  j2 = j2  k1 = k1  cut = cut  o1 = o1  o2 = o2
  Times = {t1}
  Contents = {c1, c2}
  Bytes = {j1, j2, k1, cut}
  JSON = {j1, j2, k1}
  Parse <- MCParse
  Marshal <- MCMarshal
  Prefixes <- MCPrefixes
  Absent = Absent
  Managers = {m1, m2}
  Steady <- MCSteady
  Takes <- MCTakes
  Dominos = {"a", "b"}
  Commands = {"pure", "other", "impure", "julia"}
  Julia = {"julia"}
  Command <- MCCommand
  DependsOn <- MCDependsOn
  InputsOf <- MCInputsOf
  OutputValues = {o1, o2}
  Produces <- MCProduces
  Time = t1
  InitSource = j1
  SourceWrites <- MCSourceWrites
  CommandEdits = {"other", "julia"}
  MaxSealEvents = 2
  MaxRunEvents = 1
  MaxStray = 1
INVARIANTS TypeOK SealedIsComplete ReportedRecorded CompletedByCommand InputsFromSpine SpineLinked
PROPERTIES FileStoreRefinement DominosSettle
CHECK_DEADLOCK FALSE
