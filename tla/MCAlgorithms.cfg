\* The algorithms of core-models, trait resolution, the monadic phase, dependency analysis and the imperative phases.
SPECIFICATION AlgSpec
CONSTANTS
  Narrow <- N
  Wide <- W
  Usize = 4
  Iterators <- MCIterators
  Calls = {"fold", "all", "any", "find", "find_map", "position", "count", "nth", "last", "reduce", "min", "max"}
  Usages = {0, 1, 2}
  Elem = {1, 2, 3}
  Rank <- MCRank
  MaxLen = 4
  Traits <- MCTraits
  Assocs = {"A", "B", "Item"}
  Worlds <- MCWorlds
  OwnerOf <- MCOwnerOf
  MaxLookups = 3
  Programs <- MCPrograms
  Inputs <- MCInputs
  Bodies <- MCBodies
  Arguments <- MCArguments
INVARIANTS ArithmeticExact MethodsAgree AnswersAreProofs CandidatesSuffice ExtractionRefines
INVARIANTS SelectionFollowsClauses BundlesAreClosed DependencyOrder MeaningPreserved ExitsInExitPosition
PROPERTIES NextIsOneStep PriorityQueue SearchEnds
CHECK_DEADLOCK FALSE
