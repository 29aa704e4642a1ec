\* The user selects one package, then the other.
SPECIFICATION FairSpec
CONSTANTS
  DependsOn <- MCDependsOn
  a = a
  b = b
  fstar = fstar
  lean = lean
  v1 = v1
  v2 = v2
  Crate = {a, b}
  BuildScript = {}
  Option <- Backends
  Forcing = {FALSE}
  Deps = FALSE
  Primaries <- Either
  Commands = {"into"}
  MaxCalls = 2
  MaxEdits = 0
  Faults = {}
INVARIANTS AppliedToPrimary
