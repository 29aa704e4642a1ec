\* Every fault, dry run, statistics rendered for a human.
SPECIFICATION FairSpec
CONSTANTS
  i1 = i1
  d1 = d1
  d2 = d2
  p1 = p1
  c1 = c1
  c2 = c2
  Absent = Absent
  NoOwner = NoOwner
  Item = {i1}
  Diag = {d1, d2}
  Path = {p1}
  Contents = {c1, c2}
  Owner <- MCOwner
  DryRun = TRUE
  Stats = TRUE
  Human = TRUE
  PipeCapacity = 2
  MaxDiags = 2
  MaxTalk = 1
  MaxDebug = 1
  Faults = {"version", "exception", "garbage", "kill", "client"}
INVARIANTS TypeOK VerdictFaithful FilesDelivered StatsExact ConversationOK
PROPERTIES EveryProcessEnds ImplementsExtraction
