\* Two calls with --promote-directives on every world, two jobs at a time.
SPECIFICATION FairSpec
CONSTANTS
  fstar = fstar
  coq = coq
  t1 = t1
  t2 = t2
  None = none
  none = none
  Backend = {fstar, coq}
  Verifiable = {fstar}
  Test = {t1, t2}
  Inside <- MCInside
  World <- Worlds
  Jobs = 2
  Promote = TRUE
  MaxCalls = 2
  Faults = {"serialize", "disk", "interrupt"}
INVARIANTS GreenMeansMatched MixUpSurfaces JobsOK PromotionSettles
PROPERTIES CallEnds
