\* F*, full definitions, no fault, --stats for a human.
SPECIFICATION FairSpec
CONSTANTS
  i1 = i1
  d1 = d1
  d2 = d2
  p1 = p1
  c1 = c1
  Absent = Absent
  NoOwner = NoOwner
  Item = {i1}
  Diag = {d2}
  Path = {p1}
  Contents = {c1}
  Owner <- MCOwner
  DryRun = FALSE
  Stats = TRUE
  Human = TRUE
  PipeCapacity = 1
  Plans <- FStarPlan
  MaxDiags = 1
  MaxTalk = 1
  MaxDebug = 1
  Faults = {}
INVARIANTS StatsPrinted

