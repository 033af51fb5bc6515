\* Failed runs are started again until they complete.
SPECIFICATION FairSpec
CONSTANTS
  c1 = c1  c2 = c2  c3 = c3  j1 = j1  j1s = j1s  j2 = j2  x3 = x3  w3 = w3
  o1 = o1  o2 = o2  r1 = r1  r2 = r2  s1 = s1  t1 = t1
  Contents <- MCContents
  Bytes <- MCBytes
  JSON <- MCJSON
  Parse <- MCParse
  Marshal <- MCMarshal
  Absent = Absent
  Snaps = {s1}
  InitSource <- MCInitSource
  Dominos <- MCDominos
  Commands <- MCCommands
  Contract = {"impure"}
  OutputValues = {o1, o2}
  Produces <- MCProduces
  WF <- MCWorkflowDefs
  Times = {t1, t2}
  Runs = {r1, r2}
  Workflows = {"impureRef", "impureInline"}
  SourceWrites = {}
  SpecEdits <- MCTimeEdits
  MaxEdits = 1
  MaxFaults = 1
  MaxAttempts = 0
PROPERTY RetriesConverge
CHECK_DEADLOCK FALSE
