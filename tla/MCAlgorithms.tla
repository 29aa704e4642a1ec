---------------------------- MODULE MCAlgorithms ----------------------------
(***************************************************************************)
(* The parts of the code that are one algorithm with its own data, checked *)
(* one at a time: subject says which, and the variables of the others keep *)
(* one idle value.                                                         *)
(***************************************************************************)
EXTENDS CoreIter, CoreHeap, MCTraitWorlds, MCMonadicPrograms, MCDependencyWorlds, MCFunctionalPrograms

VARIABLE subject

N == {1, 2, 4}
W == {8, 16}

Lists == UNION {[1..n -> 0..2] : n \in 0..3}
Numbers == {Iter(s) : s \in Lists} \cup {RangeTo(n) : n \in 0..3}
Once(S) ==
  {Map(i) : i \in S} \cup {Filter(i) : i \in S} \cup {FlatMap(i) : i \in S} \cup {StepBy(i, 1) : i \in S}
    \cup {Take(i, n) : i \in S, n \in 1..2} \cup {Skip(i, n) : i \in S, n \in 1..2}
    \cup {Chain(i, RangeTo(2)) : i \in S} \cup {Chain(RangeTo(2), i) : i \in S}
Slices(S) == {Chunks(s, n) : s \in S, n \in 1..2} \cup {ChunksExact(s, n) : s \in S, n \in 1..2}
  \cup {Windows(s, n) : s \in S, n \in 1..2}
Few == {Iter(<<>>), Iter(<<1, 2>>), Iter(<<2, 0, 3>>), RangeTo(3)}
OfNumbers == Numbers \cup Once(Numbers) \cup Once(Once(Few)) \cup {Flatten(i) : i \in Slices(Lists)}
OfOthers == Slices(Lists) \cup {Enumerate(i) : i \in Few \cup Once(Few)}
  \cup {Zip(i, j) : i \in Few, j \in Once(Few)} \cup {Zip(i, j) : i \in Once(Few), j \in Few}
  \cup {Skip(Enumerate(i), 1) : i \in Few} \cup {Take(Zip(i, RangeTo(2)), 1) : i \in Few}
MCIterators == OfNumbers \cup OfOthers

IntIdle == /\ signed = FALSE /\ half = 1 /\ start = 0 /\ end = 0
IterIdle == /\ iter = RangeTo(0) /\ call = "count" /\ skips = 0 /\ acc = 0 /\ result = Some(0)
            /\ items = <<>>
\* Only these methods take the items that are not numbers.
Typed == iter \in OfOthers => call \in {"fold", "count", "nth", "last"}

MCRank == [v \in 1..3 |-> IF v = 3 THEN 1 ELSE 0]
HeapIdle == HeapInit

SearchIdle ==
  /\ world = World(NestedDecl, <<>>, <<>>, {})
  /\ ready = FALSE /\ candidates = [s \in Searchers |-> {}] /\ env = [s \in Searchers |-> {}]
  /\ queue = <<>> /\ on = "item" /\ goals = <<>> /\ found = None /\ asked = None
  /\ cache = {} /\ answers = {} /\ lookups = 0

MonadicIdle == program = VarX /\ argument = FALSE /\ extracted = None
DepIdle == crate = <<>> /\ clauses = <<>> /\ stage = "parsed" /\ arranged = <<>> /\ printed = <<>>
PhasesIdle == imported = Unit /\ inputs = <<>> /\ reached = "import" /\ code = Unit

AlgInit ==
  \/ subject = "int" /\ Init /\ IterIdle /\ HeapIdle /\ SearchIdle /\ MonadicIdle /\ DepIdle /\ PhasesIdle
  \/ subject = "iter" /\ IntIdle /\ IterInit /\ Typed /\ HeapIdle /\ SearchIdle /\ MonadicIdle /\ DepIdle /\ PhasesIdle
  \/ subject = "heap" /\ IntIdle /\ IterIdle /\ HeapInit /\ SearchIdle /\ MonadicIdle /\ DepIdle /\ PhasesIdle
  \/ subject = "traits" /\ IntIdle /\ IterIdle /\ HeapIdle /\ SearchInit /\ MonadicIdle /\ DepIdle /\ PhasesIdle
  \/ subject = "monadic" /\ IntIdle /\ IterIdle /\ HeapIdle /\ SearchIdle /\ MonadicInit /\ DepIdle /\ PhasesIdle
  \/ subject = "dependencies" /\ IntIdle /\ IterIdle /\ HeapIdle /\ SearchIdle /\ MonadicIdle /\ DepInit /\ PhasesIdle
  \/ subject = "phases" /\ IntIdle /\ IterIdle /\ HeapIdle /\ SearchIdle /\ MonadicIdle /\ DepIdle /\ PhasesInit

AlgNext ==
  \/ subject = "int" /\ Next /\ UNCHANGED <<subject, iterVars, heapVars, searchVars, monadicVars, depVars, phaseVars>>
  \/ subject = "iter" /\ IterationStep /\ UNCHANGED <<subject, vars, heapVars, searchVars, monadicVars, depVars, phaseVars>>
  \/ subject = "heap" /\ HeapNext /\ UNCHANGED <<subject, vars, iterVars, searchVars, monadicVars, depVars, phaseVars>>
  \/ subject = "traits" /\ SearchNext /\ UNCHANGED <<subject, vars, iterVars, heapVars, monadicVars, depVars, phaseVars>>
  \/ subject = "monadic" /\ ApplyPhase /\ UNCHANGED <<subject, vars, iterVars, heapVars, searchVars, depVars, phaseVars>>
  \/ subject = "dependencies" /\ DepNext /\ UNCHANGED <<subject, vars, iterVars, heapVars, searchVars, monadicVars, phaseVars>>
  \/ subject = "phases" /\ PhasesNext /\ UNCHANGED <<subject, vars, iterVars, heapVars, searchVars, monadicVars, depVars>>

allVars == <<subject, vars, iterVars, heapVars, searchVars, monadicVars, depVars, phaseVars>>
AlgSpec ==
  /\ AlgInit /\ [][AlgNext]_allVars
  /\ WF_allVars(subject = "traits" /\ Search /\ UNCHANGED <<subject, vars, iterVars, heapVars, monadicVars, depVars, phaseVars>>)
=============================================================================
