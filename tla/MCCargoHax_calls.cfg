\* Two calls with --deps and every fault, and edits, a change of backend or an upgrade of hax between them.
SPECIFICATION FairSpec
CONSTANTS
  DependsOn <- MCDependsOn
  a = a
  b = b
  fstar = fstar
  lean = lean
  v1 = v1
  v2 = v2
  Crate = {a, b}
  BuildScript = {}
  Option <- BackendsAndUpgrade
  Forcing = {TRUE, FALSE}
  Deps = TRUE
  Primaries <- Either
  Commands = {"into", "json", "serialize"}
  MaxCalls = 2
  MaxEdits = 1
  Faults = {"kill", "killCargo", "disk", "engine"}
INVARIANTS TypeOK ExitCodeFaithful ReadsCurrentHaxmeta
PROPERTIES CallEnds
