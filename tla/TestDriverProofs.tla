--------------------------- MODULE TestDriverProofs ---------------------------
(***************************************************************************)
(* Proofs about the test driver, for every set of backends and tests, all  *)
(* worlds, any number of jobs and of calls, and every fault.               *)
(***************************************************************************)
EXTENDS TestDriver, FiniteSetTheorems, FunctionTheorems, WellFoundedInduction, TLAPS

(***************************************************************************)
(* The shape of a state: which task can be where, and what a call that has *)
(* not started, or that has ended, has in memory.                          *)
(***************************************************************************)
BackendState == {"unspawned", "serialize", "compiling", "writing", "serialized", "testing", "ok", "err"}
TestState == Ended \cup {"unspawned", "queued", "extracting", "promoting", "extracted", "verifying"}
Haxmeta == {None} \cup [by : Backend \cup {None}, whole : BOOLEAN]

Shapes ==
  /\ main \in {"resolving", "running", "saving", "exited"}
  /\ backend \in [Backend -> BackendState]
  /\ test \in [Backend -> [Test -> TestState]]
  /\ slot \in Haxmeta /\ cached \in [Backend -> Haxmeta]
  /\ DOMAIN outcome = Backend /\ \A b \in Backend : DOMAIN outcome[b] = Test
  /\ DOMAIN snapshots = Backend /\ \A b \in Backend : DOMAIN snapshots[b] = File
  /\ counts \in [total : Nat, completed : Nat]

NothingSpawned == \A b \in Backend : backend[b] = "unspawned" /\ \A t \in Test : test[b][t] = "unspawned"

AtRest == main \in {"resolving", "exited"} => NothingSpawned /\ counts = Quiet

\* A test runs only once its backend has spawned it.
SpawnedInOrder ==
  \A b \in Backend : \A t \in Test :
    test[b][t] # "unspawned" => t \in Tests(b) /\ backend[b] \in {"testing", "ok", "err"}

Shape == world \in World /\ Shapes /\ AtRest /\ SpawnedInOrder

-----------------------------------------------------------------------------
(***************************************************************************)
(* What a step of each kind of task leaves alone.                          *)
(***************************************************************************)
LEMMA Steps ==
  ASSUME [Next]_vars
  PROVE  \/ UNCHANGED vars
         \/ ResolveTests \/ JoinBackends \/ (\E p \in Paths : SaveFile(p)) \/ CallAgain
         \/ \E status \in {"ok", "err"} : ProcessEnds(status) /\ (status = "ok" => Exit)
         \/ \E b \in Backend : BackendStep(b)
         \/ \E b \in Backend : \E t \in Test : TestStep(b, t)
BY DEF Next, MainStep, Interrupt, Over, ResolveFails, SaveFails, Exit

LEMMA MemoryFacts ==
  /\ Memory.backend = [b \in Backend |-> "unspawned"]
  /\ Memory.test = [b \in Backend |-> [t \in Test |-> "unspawned"]]
  /\ Memory.outcome = [b \in Backend |-> [t \in Test |-> None]]
BY DEF Memory

LEMMA BackendFrame ==
  ASSUME NEW b \in Backend, BackendStep(b)
  PROVE  /\ UNCHANGED <<world, calls, main, exit, expected, outcome, dirs, snapshots>>
         /\ SpawnBackend(b) \/ counts' = counts
         /\ RenameHaxmeta(b) \/ test' = test
BY DEF BackendStep, SpawnBackend, StartSerialize, CreateHaxmeta, EndSerialize, SerializeFails, RenameHaxmeta, JoinTests

LEMMA TestFrame ==
  ASSUME NEW b \in Backend, NEW t \in Test, TestStep(b, t)
  PROVE  UNCHANGED <<world, calls, main, exit, slot, cached, backend, expected>>
BY DEF TestStep, StartTest, EngineEnds, EngineFails, ReportResults, MoveToSnapshots, RunVerification, PromoteDiagnostic

LEMMA MainFrame ==
  ASSUME ResolveTests \/ JoinBackends \/ (\E p \in Paths : SaveFile(p)) \/ CallAgain
  PROVE  /\ UNCHANGED <<world, cached, backend, test, outcome, dirs, snapshots, counts>>
         /\ main = "resolving" \/ UNCHANGED <<slot, expected>>
         /\ main \in {"resolving", "exited"} \/ (main \in {"running", "saving"} /\ main' = "saving")
         /\ main' \in {"resolving", "running", "saving"}
         /\ main' = "resolving" => main = "exited"
BY DEF ResolveTests, JoinBackends, SaveFile, CallAgain

\* The definitions below speak of the world, the sources' expectations and nothing else that moves in a call.
LEMMA SameExpectations ==
  ASSUME UNCHANGED <<world, expected>>
  PROVE  /\ \A b : Tests(b)' = Tests(b)
         /\ \A b, t, kind : ExpectedDiagnostics(b, t, kind)' = ExpectedDiagnostics(b, t, kind)
         /\ \A b, t : NeedsVerification(b, t)' = NeedsVerification(b, t)
         /\ File' = File
BY DEF Tests, ExpectedDiagnostics, NeedsVerification, File

\* Where a step takes the task of a backend, and that of a test.
BackendGoes(b, from, to) == backend[b] = from /\ backend' = [backend EXCEPT ![b] = to]

LEMMA BackendPath ==
  ASSUME NEW b \in Backend, BackendStep(b)
  PROVE  \/ SpawnBackend(b) /\ BackendGoes(b, "unspawned", "serialize") /\ main = "running" /\ UNCHANGED <<slot, cached>>
         \/ BackendGoes(b, "serialize", "compiling") /\ UNCHANGED <<slot, cached>>
         \/ BackendGoes(b, "compiling", "writing") /\ slot' = [by |-> b, whole |-> FALSE] /\ cached' = cached
         \/ EndSerialize(b) /\ BackendGoes(b, "writing", "serialized")
         \/ BackendGoes(b, "compiling", "err") /\ UNCHANGED <<slot, cached>>
         \/ RenameHaxmeta(b) /\ slot = None /\ BackendGoes(b, "serialized", "err") /\ UNCHANGED <<slot, cached, test>>
         \/ /\ RenameHaxmeta(b) /\ slot # None /\ BackendGoes(b, "serialized", "testing")
            /\ slot' = None /\ cached' = [cached EXCEPT ![b] = slot]
            /\ test' = [test EXCEPT ![b] = [t \in Test |-> IF t \in Tests(b) THEN "queued" ELSE @[t]]]
         \/ BackendGoes(b, "testing", "err") /\ UNCHANGED <<slot, cached>>
         \/ /\ BackendGoes(b, "testing", "ok") /\ UNCHANGED <<slot, cached>>
            /\ \A t \in Tests(b) : test[b][t] = "ok"
<1>1. CASE SpawnBackend(b) \/ StartSerialize(b) \/ CreateHaxmeta(b) \/ EndSerialize(b) \/ SerializeFails(b)
  BY <1>1 DEF SpawnBackend, StartSerialize, CreateHaxmeta, EndSerialize, SerializeFails, BackendGoes
<1>2. CASE RenameHaxmeta(b)
  BY <1>2 DEF RenameHaxmeta, BackendGoes
<1>3. CASE JoinTests(b)
  <2>1. UNCHANGED <<slot, cached>> /\ backend[b] = "testing"
    BY <1>3 DEF JoinTests
  <2>2. \/ backend' = [backend EXCEPT ![b] = "err"]
        \/ backend' = [backend EXCEPT ![b] = "ok"] /\ \A t \in Tests(b) : test[b][t] = "ok"
    BY <1>3 DEF JoinTests
  <2> QED  BY <2>1, <2>2 DEF BackendGoes
<1> QED
  BY <1>1, <1>2, <1>3 DEF BackendStep

TestGoes(b, t, from, to) == test[b][t] = from /\ test' = [test EXCEPT ![b][t] = to]

LEMMA TestPath ==
  ASSUME NEW b \in Backend, NEW t \in Test, TestStep(b, t)
  PROVE  \/ TestGoes(b, t, "queued", "extracting") /\ UNCHANGED <<counts, outcome, dirs, snapshots>>
         \/ EngineEnds(b, t) /\ TestGoes(b, t, "extracting", "promoting") /\ UNCHANGED <<counts, dirs, snapshots>>
         \/ TestGoes(b, t, "extracting", "err") /\ JobEnds /\ UNCHANGED <<outcome, dirs, snapshots>>
         \/ UNCHANGED <<test, counts, outcome, dirs, snapshots>>
         \/ TestGoes(b, t, "promoting", "err") /\ JobEnds /\ UNCHANGED <<outcome, dirs, snapshots>>
         \/ /\ TestGoes(b, t, "promoting", "extracted") /\ JobEnds /\ UNCHANGED <<outcome, dirs, snapshots>>
            /\ outcome[b][t].unexpected = {} /\ outcome[b][t].missing = {}
         \/ TestGoes(b, t, "extracted", "panicked") /\ UNCHANGED <<counts, outcome, dirs, snapshots>>
         \/ /\ TestGoes(b, t, "extracted", IF NeedsVerification(b, t) THEN "verifying" ELSE "ok")
            /\ <<b, world.file[t]>> \notin dirs /\ dirs' = dirs \cup {<<b, world.file[t]>>}
            /\ snapshots' = [snapshots EXCEPT ![b][world.file[t]] = <<t, calls>>]
            /\ UNCHANGED <<counts, outcome>>
         \/ TestGoes(b, t, "verifying", "err") /\ JobEnds /\ UNCHANGED <<outcome, dirs, snapshots>>
         \/ /\ TestGoes(b, t, "verifying", "ok") /\ JobEnds /\ UNCHANGED <<outcome, dirs, snapshots>>
            /\ <<b, t>> \notin world.untypable
<1>1. CASE StartTest(b, t) \/ EngineEnds(b, t) \/ EngineFails(b, t) \/ (\E d \in todo[b][t] : PromoteDiagnostic(b, t, d))
  BY <1>1 DEF StartTest, EngineEnds, EngineFails, PromoteDiagnostic, TestGoes, At, Goto
<1>2. CASE ReportResults(b, t)
  BY <1>2 DEF ReportResults, TestGoes, At, Goto
<1>3. CASE MoveToSnapshots(b, t)
  <2>1. CASE <<b, world.file[t]>> \in dirs
    BY <1>3, <2>1 DEF MoveToSnapshots, TestGoes, At, Goto
  <2>2. CASE <<b, world.file[t]>> \notin dirs
    BY <1>3, <2>2 DEF MoveToSnapshots, TestGoes, At, Goto
  <2> QED  BY <2>1, <2>2
<1>4. CASE RunVerification(b, t)
  <2>1. CASE <<b, t>> \in world.untypable
    BY <1>4, <2>1 DEF RunVerification, TestGoes, At, Goto
  <2>2. CASE <<b, t>> \notin world.untypable
    BY <1>4, <2>2 DEF RunVerification, TestGoes, At, Goto
  <2> QED  BY <2>1, <2>2
<1> QED
  BY <1>1, <1>2, <1>3, <1>4 DEF TestStep

\* What moves when the test of a backend goes somewhere.
LEMMA TestMoves ==
  ASSUME Shapes, NEW b \in Backend, NEW t \in Test, NEW from, NEW to \in TestState, TestGoes(b, t, from, to)
  PROVE  /\ test' \in [Backend -> [Test -> TestState]]
         /\ test[b][t] = from /\ test'[b][t] = to
         /\ \A c \in Backend, u \in Test : c # b \/ u # t => test'[c][u] = test[c][u]
BY DEF Shapes, TestGoes

LEMMA BackendMoves ==
  ASSUME Shapes, NEW b \in Backend, NEW from, NEW to \in BackendState, BackendGoes(b, from, to)
  PROVE  /\ backend' \in [Backend -> BackendState]
         /\ backend[b] = from /\ backend'[b] = to
         /\ \A c \in Backend : c # b => backend'[c] = backend[c]
BY DEF Shapes, BackendGoes

\* The file of a backend is whole once its serialization ends, wherever it is.
Finish(m, b) == IF m # None /\ m.by = b THEN [m EXCEPT !.whole = TRUE] ELSE m

LEMMA FinishFacts ==
  ASSUME Shapes, NEW b \in Backend, EndSerialize(b)
  PROVE  /\ slot' = Finish(slot, b)
         /\ cached' = [c \in Backend |-> Finish(cached[c], b)]
         /\ \A m \in Haxmeta : /\ Finish(m, b) \in Haxmeta
                               /\ Finish(m, b) = None <=> m = None
                               /\ m # None => Finish(m, b).by = m.by /\ (m.whole => Finish(m, b).whole)
                               /\ m # None /\ m.by = b => Finish(m, b).whole
<1>1. slot' = Finish(slot, b) /\ cached' = [c \in Backend |-> Finish(cached[c], b)]
  BY DEF EndSerialize, Finish
<1>2. ASSUME NEW m \in Haxmeta
      PROVE  /\ Finish(m, b) \in Haxmeta
             /\ m # None => Finish(m, b).by = m.by /\ (m.whole => Finish(m, b).whole)
             /\ m # None /\ m.by = b => Finish(m, b).whole
  BY DEF Haxmeta, Finish
<1>3. ASSUME NEW m \in Haxmeta
      PROVE  Finish(m, b) = None <=> m = None
  BY DriverAssumption DEF Haxmeta, Finish
<1> QED
  BY <1>1, <1>2, <1>3

\* A task moves only while the main task waits for it.
LEMMA Alive ==
  ASSUME Shape, NEW b \in Backend, BackendStep(b) \/ \E t \in Test : TestStep(b, t)
  PROVE  main \in {"running", "saving"}
<1>1. CASE BackendStep(b)
  BY <1>1, BackendPath DEF Shape, Shapes, AtRest, NothingSpawned, BackendGoes
<1>2. ASSUME NEW t \in Test, TestStep(b, t)
      PROVE  main \in {"running", "saving"}
  <2>1. test[b][t] # "unspawned"
    BY <1>2 DEF TestStep, StartTest, EngineEnds, EngineFails, ReportResults, MoveToSnapshots,
                RunVerification, PromoteDiagnostic, At
  <2> QED  BY <2>1 DEF Shape, Shapes, AtRest, NothingSpawned
<1> QED
  BY <1>1, <1>2

-----------------------------------------------------------------------------
(***************************************************************************)
(* The shape is kept.                                                      *)
(***************************************************************************)
LEMMA EndShape ==
  ASSUME Shape, NEW status \in {"ok", "err"}, ProcessEnds(status)
  PROVE  Shape' /\ NothingSpawned' /\ main' = "exited" /\ counts' = Quiet
<1>1. /\ main' = "exited" /\ counts' = Quiet /\ UNCHANGED <<world, slot, cached, snapshots>>
      /\ backend' = [b \in Backend |-> "unspawned"]
      /\ test' = [b \in Backend |-> [t \in Test |-> "unspawned"]]
      /\ outcome' = [b \in Backend |-> [t \in Test |-> None]]
  BY MemoryFacts DEF ProcessEnds
<1>2. NothingSpawned'
  BY <1>1 DEF NothingSpawned
<1>3. Shapes'
  <2>1. backend' \in [Backend -> BackendState] /\ test' \in [Backend -> [Test -> TestState]]
    BY <1>1 DEF BackendState, TestState, Ended
  <2>2. DOMAIN outcome' = Backend /\ \A b \in Backend : DOMAIN outcome'[b] = Test
    BY <1>1
  <2>3. counts' \in [total : Nat, completed : Nat]
    BY <1>1 DEF Quiet
  <2>4. File' = File
    BY <1>1 DEF File
  <2> QED  BY <1>1, <2>1, <2>2, <2>3, <2>4 DEF Shape, Shapes
<1>4. SpawnedInOrder'
  BY <1>2 DEF NothingSpawned, SpawnedInOrder
<1> QED
  BY <1>1, <1>2, <1>3, <1>4 DEF Shape, AtRest

LEMMA MainShape ==
  ASSUME Shape, ResolveTests \/ JoinBackends \/ (\E p \in Paths : SaveFile(p)) \/ CallAgain
  PROVE  Shape'
<1>1. /\ UNCHANGED <<world, cached, backend, test, outcome, snapshots, counts>>
      /\ main' \in {"resolving", "running", "saving"} /\ (main' = "resolving" => main = "exited")
  BY MainFrame
<1>2. slot' \in Haxmeta
  <2>1. slot' = slot \/ slot' = [by |-> None, whole |-> TRUE]
    BY DEF ResolveTests, JoinBackends, SaveFile, CallAgain
  <2>2. slot \in Haxmeta
    BY DEF Shape, Shapes
  <2>3. [by |-> None, whole |-> TRUE] \in Haxmeta
    BY DEF Haxmeta
  <2> QED  BY <2>1, <2>2, <2>3
<1>3. Shapes'
  BY <1>1, <1>2 DEF Shape, Shapes, File
<1>4. AtRest'
  BY <1>1 DEF Shape, AtRest, NothingSpawned
<1>5. SpawnedInOrder'
  BY <1>1 DEF Shape, SpawnedInOrder, Tests
<1> QED
  BY <1>1, <1>3, <1>4, <1>5 DEF Shape

LEMMA BackendShape ==
  ASSUME Shape, NEW b \in Backend, BackendStep(b)
  PROVE  Shape'
<1>0. /\ Shapes /\ UNCHANGED <<world, main, outcome, snapshots, expected>>
  BY BackendFrame DEF Shape
<1>1. slot' \in Haxmeta /\ cached' \in [Backend -> Haxmeta]
  <2>1. CASE EndSerialize(b)
    BY <1>0, <2>1, FinishFacts DEF Shapes
  <2>2. CASE UNCHANGED <<slot, cached>>
    BY <1>0, <2>2 DEF Shapes
  <2>3. CASE slot' = [by |-> b, whole |-> FALSE] /\ cached' = cached
    BY <1>0, <2>3 DEF Shapes, Haxmeta
  <2>4. CASE slot' = None /\ cached' = [cached EXCEPT ![b] = slot]
    BY <1>0, <2>4 DEF Shapes, Haxmeta
  <2> QED  BY <2>1, <2>2, <2>3, <2>4, BackendPath
<1>2. counts' \in [total : Nat, completed : Nat]
  <2>1. CASE SpawnBackend(b)
    <3>1. Cardinality(Tests(b)) \in Nat /\ Cardinality({t \in Tests(b) : NeedsVerification(b, t)}) \in Nat
      <4>1. IsFiniteSet(Tests(b)) /\ IsFiniteSet({t \in Tests(b) : NeedsVerification(b, t)})
        <5>1. Tests(b) \subseteq Test /\ {t \in Tests(b) : NeedsVerification(b, t)} \subseteq Test
          BY DEF Tests
        <5> QED  BY <5>1, DriverAssumption, FS_Subset
      <4> QED  BY <4>1, FS_CardinalityType
    <3> QED  BY <1>0, <2>1, <3>1 DEF SpawnBackend, Shapes
  <2> QED  BY <1>0, <2>1, BackendFrame DEF Shapes
<1>3. PICK from \in BackendState, to \in BackendState : BackendGoes(b, from, to) /\ to # "unspawned"
                                                        /\ (from \in {"testing", "ok", "err"} => to \in {"ok", "err"})
  BY BackendPath DEF BackendState
<1>4. backend' \in [Backend -> BackendState] /\ backend[b] = from /\ backend'[b] = to
      /\ \A c \in Backend : c # b => backend'[c] = backend[c]
  BY <1>0, <1>3, BackendMoves
<1>5. test' \in [Backend -> [Test -> TestState]]
      /\ \A c \in Backend, t \in Test : test'[c][t] = test[c][t] \/ (c = b /\ t \in Tests(b) /\ backend'[b] = "testing")
  <2>1. CASE test' = test
    BY <1>0, <2>1 DEF Shapes
  <2>2. CASE /\ BackendGoes(b, "serialized", "testing")
             /\ test' = [test EXCEPT ![b] = [t \in Test |-> IF t \in Tests(b) THEN "queued" ELSE @[t]]]
    <3>1. backend'[b] = "testing"
      BY <1>0, <2>2, BackendMoves DEF BackendState
    <3>2. [t \in Test |-> IF t \in Tests(b) THEN "queued" ELSE test[b][t]] \in [Test -> TestState]
      BY <1>0 DEF Shapes, TestState
    <3>3. test' \in [Backend -> [Test -> TestState]]
      BY <1>0, <2>2, <3>2 DEF Shapes
    <3>4. \A t \in Test : test'[b][t] = IF t \in Tests(b) THEN "queued" ELSE test[b][t]
      BY <1>0, <2>2 DEF Shapes
    <3>5. \A c \in Backend : c # b => test'[c] = test[c]
      BY <1>0, <2>2 DEF Shapes
    <3> QED  BY <3>1, <3>3, <3>4, <3>5
  <2>3. CASE RenameHaxmeta(b) /\ slot # None
    BY <2>2, <2>3 DEF RenameHaxmeta, BackendGoes
  <2>4. test' = test \/ (RenameHaxmeta(b) /\ slot # None)
    BY BackendFrame DEF RenameHaxmeta
  <2> QED  BY <2>1, <2>3, <2>4
<1>6. Shapes'
  BY <1>0, <1>1, <1>2, <1>4, <1>5 DEF Shapes, File
<1>7. AtRest'
  BY <1>0, Alive DEF AtRest
<1>8. SpawnedInOrder'
  <2> SUFFICES ASSUME NEW c \in Backend, NEW t \in Test, test'[c][t] # "unspawned"
               PROVE  t \in Tests(c) /\ backend'[c] \in {"testing", "ok", "err"}
    BY <1>0 DEF SpawnedInOrder, Tests
  <2>1. CASE test'[c][t] = test[c][t]
    BY <1>3, <1>4, <2>1 DEF Shape, SpawnedInOrder
  <2> QED  BY <1>5, <2>1
<1> QED
  BY <1>0, <1>6, <1>7, <1>8 DEF Shape

LEMMA TestShape ==
  ASSUME Shape, NEW b \in Backend, NEW t \in Test, TestStep(b, t)
  PROVE  Shape'
<1>0. Shapes /\ UNCHANGED <<world, main, slot, cached, backend>>
  BY TestFrame DEF Shape
<1>1. test' = test \/ \E from, to \in TestState \ {"unspawned"} : TestGoes(b, t, from, to)
  BY TestPath DEF TestState, Ended
<1>2. /\ test' \in [Backend -> [Test -> TestState]]
      /\ \A c \in Backend, u \in Test : test'[c][u] = test[c][u] \/ (test[c][u] # "unspawned")
  <2>1. CASE test' = test
    BY <1>0, <2>1 DEF Shapes
  <2>2. CASE \E from, to \in TestState \ {"unspawned"} : TestGoes(b, t, from, to)
    BY <1>0, <2>2, TestMoves
  <2> QED  BY <1>1, <2>1, <2>2
<1>3. DOMAIN outcome' = Backend /\ \A c \in Backend : DOMAIN outcome'[c] = Test
  BY <1>0, TestPath DEF EngineEnds, Shapes
<1>4. DOMAIN snapshots' = Backend /\ \A c \in Backend : DOMAIN snapshots'[c] = File
  BY <1>0, TestPath DEF Shapes
<1>5. counts' \in [total : Nat, completed : Nat]
  <2>1. counts' = counts \/ counts' = [counts EXCEPT !.completed = @ + 1]
    BY TestPath DEF JobEnds
  <2>2. counts \in [total : Nat, completed : Nat]
    BY <1>0 DEF Shapes
  <2> QED  BY <2>1, <2>2
<1>6. Shapes'
  BY <1>0, <1>2, <1>3, <1>4, <1>5 DEF Shapes, File
<1>7. AtRest'
  <2>1. test[b][t] # "unspawned" \/ (test' = test /\ counts' = counts)
    BY TestPath DEF TestGoes
  <2> QED  BY <1>0, <2>1 DEF Shape, AtRest, NothingSpawned
<1>8. SpawnedInOrder'
  BY <1>0, <1>2 DEF Shape, SpawnedInOrder, Tests
<1> QED
  BY <1>0, <1>6, <1>7, <1>8 DEF Shape

LEMMA ShapeInit ==
  ASSUME Init
  PROVE  Shape
<1>1. NothingSpawned /\ backend \in [Backend -> BackendState] /\ test \in [Backend -> [Test -> TestState]]
  BY MemoryFacts DEF Init, NothingSpawned, BackendState, TestState, Ended
<1>2. /\ world \in World /\ main = "resolving" /\ slot = None /\ cached = [b \in Backend |-> None]
      /\ outcome = [b \in Backend |-> [t \in Test |-> None]]
      /\ snapshots = [b \in Backend |-> [f \in File |-> None]] /\ counts = Quiet
  BY MemoryFacts DEF Init
<1> QED
  BY <1>1, <1>2 DEF Shape, Shapes, AtRest, SpawnedInOrder, NothingSpawned, Haxmeta, Quiet

LEMMA ShapeStep ==
  ASSUME Shape, [Next]_vars
  PROVE  Shape'
<1>1. CASE UNCHANGED vars
  BY <1>1 DEF vars, Shape, Shapes, AtRest, SpawnedInOrder, NothingSpawned, Tests, File
<1> QED
  BY <1>1, Steps, EndShape, MainShape, BackendShape, TestShape

-----------------------------------------------------------------------------
(***************************************************************************)
(* Haxmeta files that change hands: what a backend took from another is    *)
(* missed by a third one, until one of them finds no file and fails.       *)
(***************************************************************************)
Pending == {b \in Backend : backend[b] \in {"writing", "serialized"}}

\* There are, or will be, fewer files than backends that want one.
Deficit ==
  \/ \E b \in Backend : backend[b] = "err"
  \/ slot = None /\ Pending # {}
  \/ \E x, y \in Pending : x # y

InCache(b) ==
  /\ cached[b] # None
  /\ cached[b].by = b => cached[b].whole
  /\ cached[b].by # b => Deficit

FilesInPlace ==
  /\ Pending # {} /\ slot # None => slot.by \in Pending
  /\ \A b \in Backend : backend[b] = "serialized" /\ slot # None /\ slot.by = b => slot.whole
  /\ \A b \in Backend : backend[b] \in {"testing", "ok"} => InCache(b)

\* What each step of a backend does to those that want a file.
LEMMA PendingMoves ==
  ASSUME Shape, NEW b \in Backend, BackendStep(b)
  PROVE  \/ UNCHANGED <<slot, cached>> /\ Pending' = Pending
         \/ slot' = [by |-> b, whole |-> FALSE] /\ cached' = cached /\ b \notin Pending /\ Pending' = Pending \cup {b}
         \/ EndSerialize(b) /\ b \in Pending /\ Pending' = Pending
         \/ slot = None /\ UNCHANGED <<slot, cached>> /\ backend'[b] = "err" /\ Pending' = Pending \ {b}
         \/ /\ slot # None /\ slot' = None /\ cached' = [cached EXCEPT ![b] = slot] /\ b \in Pending
            /\ Pending' = Pending \ {b} /\ backend[b] = "serialized"
<1>0. Shapes
  BY DEF Shape
<1>1. PICK from \in BackendState, to \in BackendState :
        /\ BackendGoes(b, from, to)
        /\ \/ UNCHANGED <<slot, cached>> /\ from \notin {"writing", "serialized"} /\ to \notin {"writing", "serialized"}
           \/ slot' = [by |-> b, whole |-> FALSE] /\ cached' = cached /\ from = "compiling" /\ to = "writing"
           \/ EndSerialize(b) /\ from = "writing" /\ to = "serialized"
           \/ slot = None /\ UNCHANGED <<slot, cached>> /\ from = "serialized" /\ to = "err"
           \/ slot # None /\ slot' = None /\ cached' = [cached EXCEPT ![b] = slot] /\ from = "serialized" /\ to = "testing"
  BY BackendPath DEF BackendState
<1>2. backend[b] = from /\ backend'[b] = to /\ \A c \in Backend : c # b => backend'[c] = backend[c]
  BY <1>0, <1>1, BackendMoves
<1>3. (b \in Pending <=> from \in {"writing", "serialized"}) /\ (b \in Pending' <=> to \in {"writing", "serialized"})
      /\ (\A c \in Backend : c # b => (c \in Pending' <=> c \in Pending)) /\ Pending \subseteq Backend /\ Pending' \subseteq Backend
  BY <1>2 DEF Pending
<1> QED
  BY <1>1, <1>2, <1>3

\* Those that failed stay so.
LEMMA FailuresStay ==
  ASSUME Shape, NEW b \in Backend, BackendStep(b), NEW c \in Backend, backend[c] = "err"
  PROVE  backend'[c] = "err"
<1>1. PICK from \in BackendState, to \in BackendState : BackendGoes(b, from, to) /\ from # "err"
  BY BackendPath DEF BackendState
<1> QED
  BY <1>1, BackendMoves DEF Shape

LEMMA DeficitStays ==
  ASSUME Shape, NEW b \in Backend, BackendStep(b), Deficit
  PROVE  Deficit'
<1>1. CASE \E c \in Backend : backend[c] = "err"
  BY <1>1, FailuresStay DEF Deficit
<1>2. CASE (slot = None /\ Pending # {}) \/ \E x, y \in Pending : x # y
  <2>1. CASE UNCHANGED slot /\ Pending' = Pending
    BY <1>2, <2>1 DEF Deficit
  <2>2. CASE b \notin Pending /\ Pending' = Pending \cup {b}
    BY <1>2, <2>2 DEF Deficit
  <2>3. CASE EndSerialize(b) /\ Pending' = Pending
    <3>1. slot = None => slot' = None
      BY <2>3, FinishFacts DEF Shape, Shapes, Finish
    <3> QED  BY <1>2, <2>3, <3>1 DEF Deficit
  <2>4. CASE backend'[b] = "err"
    BY <2>4 DEF Deficit
  <2>5. CASE slot # None /\ slot' = None /\ Pending' = Pending \ {b}
    BY <1>2, <2>5 DEF Deficit
  <2> QED  BY <2>1, <2>2, <2>3, <2>4, <2>5, PendingMoves
<1> QED
  BY <1>1, <1>2 DEF Deficit

LEMMA BackendKeepsFiles ==
  ASSUME Shape, FilesInPlace, NEW b \in Backend, BackendStep(b)
  PROVE  FilesInPlace'
<1>0. Shapes /\ slot \in Haxmeta /\ cached \in [Backend -> Haxmeta]
  BY DEF Shape, Shapes
<1>1. PICK from \in BackendState, to \in BackendState :
        /\ BackendGoes(b, from, to)
        /\ to = "serialized" => EndSerialize(b)
        /\ to \in {"testing", "ok"} => from = "testing" \/ (slot # None /\ slot' = None /\ cached'[b] = slot /\ from = "serialized")
  <2>1. ASSUME cached' = [cached EXCEPT ![b] = slot]  PROVE cached'[b] = slot
    BY <1>0, <2>1
  <2> QED  BY <2>1, BackendPath DEF BackendState
<1>2. backend[b] = from /\ backend'[b] = to /\ \A c \in Backend : c # b => backend'[c] = backend[c]
  BY <1>0, <1>1, BackendMoves
<1>3. (Pending # {} /\ slot # None => slot.by \in Pending)'
  <2>1. CASE UNCHANGED slot /\ Pending' = Pending
    BY <2>1 DEF FilesInPlace
  <2>2. CASE slot' = [by |-> b, whole |-> FALSE] /\ Pending' = Pending \cup {b}
    BY <2>2
  <2>3. CASE EndSerialize(b) /\ Pending' = Pending
    <3>1. slot' = Finish(slot, b) /\ (slot' = None <=> slot = None) /\ (slot # None => slot'.by = slot.by)
      BY <1>0, <2>3, FinishFacts
    <3> QED  BY <2>3, <3>1 DEF FilesInPlace
  <2>4. CASE slot' = None
    BY <2>4
  <2> QED  BY <2>1, <2>2, <2>3, <2>4, PendingMoves
<1>4. ASSUME NEW c \in Backend, backend'[c] = "serialized", slot' # None, slot'.by = c
      PROVE  slot'.whole
  <2>1. CASE EndSerialize(b)
    <3>1. /\ slot' = Finish(slot, b) /\ slot # None /\ slot'.by = slot.by /\ (slot.whole => slot'.whole)
          /\ slot.by = b => slot'.whole
      BY <1>0, <1>4, <2>1, FinishFacts
    <3> QED  BY <1>2, <1>4, <3>1 DEF FilesInPlace
  <2>2. CASE ~EndSerialize(b)
    <3>1. c # b /\ backend[c] = "serialized"
      BY <1>1, <1>2, <1>4, <2>2
    <3>2. slot' = slot \/ slot' = [by |-> b, whole |-> FALSE]
      BY <1>4, <2>2, PendingMoves
    <3>3. slot' = slot
      BY <1>4, <3>1, <3>2
    <3> QED  BY <1>4, <3>1, <3>3 DEF FilesInPlace
  <2> QED  BY <2>1, <2>2
<1>5. ASSUME NEW c \in Backend, backend'[c] \in {"testing", "ok"}, backend[c] \in {"testing", "ok"}
      PROVE  InCache(c)'
  <2>1. InCache(c)
    BY <1>5 DEF FilesInPlace
  <2>2. c = b => from # "serialized"
    BY <1>2, <1>5
  <2>3. cached'[c] = cached[c] \/ (EndSerialize(b) /\ cached'[c] = Finish(cached[c], b))
        \/ (cached' = [cached EXCEPT ![b] = slot] /\ from = "serialized")
    BY <1>0, <1>2, PendingMoves, FinishFacts
  <2>4. cached'[c] = cached[c] \/ (EndSerialize(b) /\ cached'[c] = Finish(cached[c], b))
    BY <1>0, <2>2, <2>3
  <2>5. cached'[c] # None /\ cached'[c].by = cached[c].by /\ (cached[c].whole => cached'[c].whole)
    BY <1>0, <2>1, <2>4, FinishFacts DEF InCache
  <2>6. Deficit => Deficit'
    BY DeficitStays
  <2> QED  BY <2>1, <2>5, <2>6 DEF InCache
<1>6. ASSUME NEW c \in Backend, backend'[c] \in {"testing", "ok"}, backend[c] \notin {"testing", "ok"}
      PROVE  InCache(c)'
  <2>1. c = b /\ slot # None /\ slot' = None /\ cached'[b] = slot /\ from = "serialized"
    BY <1>1, <1>2, <1>6
  <2>2. slot.by = b => slot.whole
    BY <1>2, <2>1 DEF FilesInPlace
  <2>3. ASSUME slot.by # b  PROVE Deficit'
    <3>1. b \in Pending
      BY <1>2, <2>1 DEF Pending
    <3>2. slot.by \in Pending
      BY <2>1, <3>1 DEF FilesInPlace
    <3>3. slot.by \in Pending'
      BY <1>2, <2>3, <3>2 DEF Pending
    <3> QED  BY <2>1, <3>3 DEF Deficit
  <2> QED  BY <2>1, <2>2, <2>3 DEF InCache
<1> QED
  BY <1>3, <1>4, <1>5, <1>6 DEF FilesInPlace

\* Nobody works on a file before the tasks are spawned or after they are gone.
LEMMA NothingWanted ==
  ASSUME NothingSpawned
  PROVE  FilesInPlace
BY DEF NothingSpawned, FilesInPlace, Pending

\* A call that ended well keeps what it promises until the next one.
Resting == exit = "ok" => main = "exited"
FilesInv == Shape /\ FilesInPlace /\ Resting /\ MixUpSurfaces

THEOREM FilesInvariance == Spec => []FilesInv
<1>1. Init => FilesInv
  <2> SUFFICES ASSUME Init  PROVE FilesInv
    OBVIOUS
  <2>1. Shape
    BY ShapeInit
  <2>2. NothingSpawned
    BY MemoryFacts DEF Init, NothingSpawned
  <2>3. exit # "ok"
    BY DriverAssumption DEF Init
  <2> QED  BY <2>1, <2>2, <2>3, NothingWanted DEF FilesInv, Resting, MixUpSurfaces
<1>2. FilesInv /\ [Next]_vars => FilesInv'
  <2> SUFFICES ASSUME FilesInv, [Next]_vars  PROVE FilesInv'
    OBVIOUS
  <2>0. Shape /\ FilesInPlace /\ Resting /\ MixUpSurfaces /\ Shape'
    BY ShapeStep DEF FilesInv
  <2>1. CASE UNCHANGED vars
    BY <2>0, <2>1 DEF vars, FilesInv, FilesInPlace, InCache, Deficit, Pending, Resting, MixUpSurfaces
  <2>2. CASE ResolveTests \/ JoinBackends \/ (\E p \in Paths : SaveFile(p)) \/ CallAgain
    <3>1. UNCHANGED <<cached, backend, test>> /\ (main \in {"resolving", "exited"} \/ UNCHANGED slot)
      BY <2>2, MainFrame
    <3>2. FilesInPlace'
      <4>1. CASE main \in {"resolving", "exited"}
        <5>1. NothingSpawned'
          BY <2>0, <3>1, <4>1 DEF Shape, AtRest, NothingSpawned
        <5> QED  BY <5>1, NothingWanted, PTL
      <4>2. CASE UNCHANGED slot
        BY <2>0, <3>1, <4>2 DEF FilesInPlace, InCache, Deficit, Pending
      <4> QED  BY <3>1, <4>1, <4>2
    <3>3. exit' # "ok"
      <4>1. exit' = None \/ (exit' = exit /\ main # "exited")
        BY <2>2 DEF ResolveTests, JoinBackends, SaveFile, CallAgain
      <4> QED  BY <2>0, <4>1, DriverAssumption DEF Resting
    <3> QED  BY <2>0, <3>2, <3>3 DEF FilesInv, Resting, MixUpSurfaces
  <2>3. ASSUME NEW status \in {"ok", "err"}, ProcessEnds(status), status = "ok" => Exit
        PROVE  FilesInv'
    <3>1. NothingSpawned' /\ main' = "exited"
      BY <2>0, <2>3, EndShape
    <3>2. FilesInPlace'
      BY <3>1, NothingWanted, PTL
    <3>3. exit' = status /\ cached' = cached
      BY <2>3 DEF ProcessEnds
    <3>4. ASSUME status = "ok"  PROVE \A b \in Backend : cached[b] = [by |-> b, whole |-> TRUE]
      <4>1. \A b \in Backend : backend[b] = "ok"
        BY <2>3, <3>3, <3>4 DEF Exit, ProcessEnds
      <4>2. ~Deficit
        BY <4>1 DEF Deficit, Pending
      <4> SUFFICES ASSUME NEW b \in Backend  PROVE cached[b] = [by |-> b, whole |-> TRUE]
        OBVIOUS
      <4>3. cached[b] # None /\ cached[b].by = b /\ cached[b].whole /\ cached[b] \in Haxmeta
        BY <2>0, <4>1, <4>2 DEF FilesInPlace, InCache, Shape, Shapes
      <4> QED  BY <4>3 DEF Haxmeta
    <3> QED  BY <2>0, <3>1, <3>2, <3>3, <3>4 DEF FilesInv, Resting, MixUpSurfaces
  <2>4. ASSUME NEW b \in Backend, BackendStep(b)  PROVE FilesInv'
    <3>1. main # "exited" /\ main' = main /\ exit' = exit
      BY <2>0, <2>4, Alive, BackendFrame
    <3> QED  BY <2>0, <2>4, <3>1, BackendKeepsFiles DEF FilesInv, Resting, MixUpSurfaces
  <2>5. ASSUME NEW b \in Backend, NEW t \in Test, TestStep(b, t)  PROVE FilesInv'
    <3>1. main # "exited" /\ UNCHANGED <<main, exit, slot, cached, backend>>
      BY <2>0, <2>5, Alive, TestFrame
    <3> QED  BY <2>0, <3>1 DEF FilesInv, FilesInPlace, InCache, Deficit, Pending, Resting, MixUpSurfaces
  <2> QED  BY <2>1, <2>2, <2>3, <2>4, <2>5, Steps
<1> QED
  BY <1>1, <1>2, PTL DEF Spec

(***************************************************************************)
(* MixUpSurfaces: a call ends well only when every backend tested the      *)
(* whole file it serialized itself.                                        *)
(***************************************************************************)
THEOREM NoMixUp == Spec => []MixUpSurfaces
<1>1. FilesInv => MixUpSurfaces
  BY DEF FilesInv
<1> QED
  BY <1>1, FilesInvariance, PTL

-----------------------------------------------------------------------------
(***************************************************************************)
(* Verdicts.  What Diagnostics::remove leaves says whether the diagnostics *)
(* and the expectations can be paired.                                     *)
(***************************************************************************)
Paired(exp, diags) ==
  /\ Cardinality(exp) = Cardinality(diags)
  /\ \A d \in diags : \E e \in exp : Fits(e, d)

LEMMA MatchingFacts ==
  ASSUME NEW exp, NEW diags, NEW m \in Matchings(exp, diags)
  PROVE  /\ m \subseteq exp \X diags
         /\ \A p \in m : Fits(p[1], p[2])
         /\ \A p, q \in m : (p[1] = q[1]) <=> (p[2] = q[2])
BY DEF Matchings, Fits

LEMMA NothingLeft ==
  ASSUME NEW exp, NEW diags, IsFiniteSet(diags), NEW m \in Matchings(exp, diags),
         exp \ {p[1] : p \in m} = {}, diags \ {p[2] : p \in m} = {}
  PROVE  Paired(exp, diags)
<1>0. /\ m \subseteq exp \X diags /\ \A p \in m : Fits(p[1], p[2])
      /\ \A p, q \in m : (p[1] = q[1]) <=> (p[2] = q[2])
  BY MatchingFacts
<1>1. \A d \in diags : \E p \in m : p[2] = d
  OBVIOUS
<1>2. \A e \in exp : \E p \in m : p[1] = e
  OBVIOUS
<1>3. \A d \in diags : \E e \in exp : Fits(e, d)
  BY <1>0, <1>1
<1>4. Cardinality(exp) = Cardinality(diags)
  <2> DEFINE of(d) == CHOOSE p \in m : p[2] = d
             f == [d \in diags |-> of(d)[1]]
  <2>1. \A d \in diags : of(d) \in m /\ of(d)[2] = d
    BY <1>1
  <2>2. f \in [diags -> exp]
    BY <1>0, <2>1
  <2>3. \A c, d \in diags : f[c] = f[d] => c = d
    BY <1>0, <2>1
  <2>4. \A e \in exp : \E d \in diags : f[d] = e
    <3> SUFFICES ASSUME NEW e \in exp  PROVE \E d \in diags : f[d] = e
      OBVIOUS
    <3>1. PICK p \in m : p[1] = e
      BY <1>2
    <3>2. p[2] \in diags
      BY <1>0
    <3>3. of(p[2])[1] = e
      BY <1>0, <2>1, <3>1, <3>2
    <3> QED  BY <3>2, <3>3
  <2>5. ExistsBijection(diags, exp)
    <3> HIDE DEF f
    <3>1. f \in Bijection(diags, exp)
      BY <2>2, <2>3, <2>4, Fun_IsBij
    <3> QED  BY <3>1, Fun_ExistsBij
  <2> QED  BY <2>5, FS_Bijection
<1> QED
  BY <1>3, <1>4 DEF Paired

\* The expectations and the answers of the extraction of a test.
Exp(b, t) == ExpectedDiagnostics(b, t, "extraction")
Diags(b, t) == world.output[b][t]

\* What a test found is what one matching left.
Reported(b, t) ==
  \E m \in Matchings(Exp(b, t), Diags(b, t)) :
    outcome[b][t] = [unexpected |-> Diags(b, t) \ {p[2] : p \in m}, missing |-> Exp(b, t) \ {p[1] : p \in m}]

\* The output of a test is in the snapshot of its file, and no other test of this call can
\* write there any more.
Stored(b, t) == <<b, world.file[t]>> \in dirs /\ snapshots[b][world.file[t]] = <<t, calls>>

\* What a test has shown when it gets as far as pc.
Shown(b, t, pc) ==
  /\ pc = "promoting" => Reported(b, t)
  /\ pc \in {"extracted", "verifying", "ok"} => Paired(Exp(b, t), Diags(b, t))
  /\ pc \in {"verifying", "ok"} => Stored(b, t)
  /\ pc = "verifying" => NeedsVerification(b, t)
  /\ pc = "ok" /\ <<b, t>> \in world.untypable => ~NeedsVerification(b, t)

TestsHonest == \A b \in Backend : \A t \in Test : Shown(b, t, test[b][t])
BackendsHonest == \A b \in Backend : backend[b] = "ok" => \A t \in Tests(b) : test[b][t] = "ok"

\* The code of report_results: nothing unmatched means that everything could be paired.
LEMMA WellReported ==
  ASSUME Shape, NEW b \in Backend, NEW t \in Test, Reported(b, t),
         outcome[b][t].unexpected = {}, outcome[b][t].missing = {}
  PROVE  Paired(Exp(b, t), Diags(b, t))
<1>1. IsFiniteSet(Diags(b, t))
  BY WorldAssumption DEF Shape, Diags
<1>2. PICK m \in Matchings(Exp(b, t), Diags(b, t)) :
        outcome[b][t] = [unexpected |-> Diags(b, t) \ {p[2] : p \in m}, missing |-> Exp(b, t) \ {p[1] : p \in m}]
  BY DEF Reported
<1>3. Diags(b, t) \ {p[2] : p \in m} = {} /\ Exp(b, t) \ {p[1] : p \in m} = {}
  BY <1>2
<1> QED
  BY <1>1, <1>3, NothingLeft

\* What a test has shown lasts while the sources are not read again, its outcome stays and
\* its snapshot is not written.
LEMMA ShownLasts ==
  ASSUME UNCHANGED <<world, calls, expected>>, NEW b \in Backend, NEW t \in Test, NEW pc,
         pc = "promoting" => outcome'[b][t] = outcome[b][t], Stored(b, t) => Stored(b, t)', Shown(b, t, pc)
  PROVE  Shown(b, t, pc)'
<1>1. Exp(b, t)' = Exp(b, t) /\ Diags(b, t)' = Diags(b, t) /\ NeedsVerification(b, t)' = NeedsVerification(b, t)
  BY SameExpectations DEF Exp, Diags
<1>2. Paired(Exp(b, t), Diags(b, t))' = Paired(Exp(b, t), Diags(b, t))
  BY <1>1 DEF Paired, Fits, IsForItem
<1>3. pc = "promoting" /\ Reported(b, t) => Reported(b, t)'
  <2>1. Matchings(Exp(b, t), Diags(b, t))' = Matchings(Exp(b, t), Diags(b, t))
    BY <1>1 DEF Matchings, IsForItem
  <2> QED  BY <1>1, <2>1 DEF Reported
<1> QED
  BY <1>1, <1>2, <1>3 DEF Shown

\* A test that runs keeps out of the others' way.
LEMMA OthersKept ==
  ASSUME Shape, NEW b \in Backend, NEW t \in Test, TestStep(b, t)
  PROVE  /\ \A c \in Backend, u \in Test : c # b \/ u # t => test'[c][u] = test[c][u] /\ outcome'[c][u] = outcome[c][u]
         /\ outcome' # outcome => EngineEnds(b, t)
         /\ \A c \in Backend, u \in Test : Stored(c, u) => Stored(c, u)'
<1>0. Shapes /\ UNCHANGED <<world, calls>>
  BY TestFrame DEF Shape
<1>1. test' = test \/ \E from, to \in TestState : TestGoes(b, t, from, to)
  BY TestPath DEF TestState, Ended
<1>2. outcome' = outcome \/ (EngineEnds(b, t) /\ \E v : outcome' = [outcome EXCEPT ![b][t] = v])
  BY TestPath DEF EngineEnds
<1>3. \A c \in Backend, u \in Test : c # b \/ u # t => test'[c][u] = test[c][u]
  BY <1>0, <1>1, TestMoves
<1>4. \A c \in Backend, u \in Test : c # b \/ u # t => outcome'[c][u] = outcome[c][u]
  BY <1>0, <1>2 DEF Shapes
<1>5. ASSUME NEW c \in Backend, NEW u \in Test, Stored(c, u)
      PROVE  Stored(c, u)'
  <2>1. CASE UNCHANGED <<dirs, snapshots>>
    BY <1>0, <1>5, <2>1 DEF Stored
  <2>2. CASE /\ <<b, world.file[t]>> \notin dirs /\ dirs' = dirs \cup {<<b, world.file[t]>>}
             /\ snapshots' = [snapshots EXCEPT ![b][world.file[t]] = <<t, calls>>]
    <3>1. b # c \/ world.file[t] # world.file[u]
      BY <1>5, <2>2 DEF Stored
    <3>2. world.file[t] \in File /\ world.file[u] \in File
      BY DEF File
    <3>3. snapshots'[c][world.file[u]] = snapshots[c][world.file[u]]
      BY <1>0, <2>2, <3>1, <3>2 DEF Shapes
    <3> QED  BY <1>0, <1>5, <2>2, <3>3 DEF Stored
  <2> QED  BY <2>1, <2>2, TestPath
<1> QED
  BY <1>2, <1>3, <1>4, <1>5

LEMMA TestKeepsHonest ==
  ASSUME Shape, TestsHonest, BackendsHonest, NEW b \in Backend, NEW t \in Test, TestStep(b, t)
  PROVE  TestsHonest' /\ BackendsHonest'
<1>0. Shapes /\ UNCHANGED <<world, calls, expected, backend>>
  BY TestFrame DEF Shape
<1>1. ASSUME NEW c \in Backend, NEW u \in Test, c # b \/ u # t
      PROVE  Shown(c, u, test[c][u])'
  <2>1. test'[c][u] = test[c][u] /\ outcome'[c][u] = outcome[c][u] /\ (Stored(c, u) => Stored(c, u)')
    BY <1>1, OthersKept
  <2>2. PICK pc : pc = test[c][u]
    OBVIOUS
  <2>3. Shown(c, u, pc)
    BY <2>2 DEF TestsHonest
  <2>4. Shown(c, u, pc)'
    BY <1>0, <2>1, <2>3, ShownLasts
  <2> QED  BY <2>1, <2>2, <2>4 DEF Shown
<1>2. Shown(b, t, test[b][t])'
  <2>0. /\ Exp(b, t)' = Exp(b, t) /\ Diags(b, t)' = Diags(b, t)
        /\ NeedsVerification(b, t)' = NeedsVerification(b, t)
    BY <1>0, SameExpectations DEF Exp, Diags
  <2>1. (Stored(b, t) => Stored(b, t)') /\ (outcome' # outcome => EngineEnds(b, t))
    BY OthersKept
  <2>2. Paired(Exp(b, t), Diags(b, t))' = Paired(Exp(b, t), Diags(b, t))
    BY <2>0 DEF Paired, Fits, IsForItem
  <2>3. CASE test' = test /\ outcome' = outcome
    <3>1. PICK pc : pc = test[b][t]
      OBVIOUS
    <3>2. Shown(b, t, pc)'
      BY <1>0, <2>1, <2>3, <3>1, ShownLasts DEF TestsHonest
    <3> QED  BY <2>3, <3>1, <3>2 DEF Shown
  <2>4. CASE \E from, to \in {"queued", "extracting", "err", "panicked"} \cup {"promoting", "extracted", "verifying"} :
               to \in {"extracting", "err", "panicked"} /\ TestGoes(b, t, from, to)
    <3>1. test'[b][t] \in {"extracting", "err", "panicked"}
      BY <1>0, <2>4, TestMoves DEF TestState, Ended
    <3> QED  BY <3>1 DEF Shown
  <2>5. CASE EngineEnds(b, t) /\ TestGoes(b, t, "extracting", "promoting")
    <3>1. test'[b][t] = "promoting"
      BY <1>0, <2>5, TestMoves DEF TestState
    <3>2. PICK m \in Matchings(Exp(b, t), Diags(b, t)) :
            outcome' = [outcome EXCEPT ![b][t] = [unexpected |-> Diags(b, t) \ {p[2] : p \in m},
                                                  missing |-> Exp(b, t) \ {p[1] : p \in m}]]
      BY <2>5 DEF EngineEnds, Exp, Diags
    <3>3. outcome'[b][t] = [unexpected |-> Diags(b, t) \ {p[2] : p \in m}, missing |-> Exp(b, t) \ {p[1] : p \in m}]
      BY <1>0, <3>2 DEF Shapes
    <3>4. Matchings(Exp(b, t), Diags(b, t))' = Matchings(Exp(b, t), Diags(b, t))
      BY <2>0 DEF Matchings, IsForItem
    <3>5. Reported(b, t)'
      BY <2>0, <3>3, <3>4 DEF Reported
    <3> QED  BY <3>1, <3>5 DEF Shown
  <2>6. CASE /\ TestGoes(b, t, "promoting", "extracted")
             /\ outcome[b][t].unexpected = {} /\ outcome[b][t].missing = {}
    <3>1. test[b][t] = "promoting" /\ test'[b][t] = "extracted"
      BY <1>0, <2>6, TestMoves DEF TestState
    <3>2. Paired(Exp(b, t), Diags(b, t))
      BY <2>6, <3>1, WellReported DEF TestsHonest, Shown
    <3> QED  BY <2>2, <3>1, <3>2 DEF Shown
  <2>7. CASE /\ TestGoes(b, t, "extracted", IF NeedsVerification(b, t) THEN "verifying" ELSE "ok")
             /\ dirs' = dirs \cup {<<b, world.file[t]>>}
             /\ snapshots' = [snapshots EXCEPT ![b][world.file[t]] = <<t, calls>>]
    <3>1. test[b][t] = "extracted" /\ test'[b][t] = IF NeedsVerification(b, t) THEN "verifying" ELSE "ok"
      BY <1>0, <2>7, TestMoves DEF TestState, Ended
    <3>2. Paired(Exp(b, t), Diags(b, t))
      BY <3>1 DEF TestsHonest, Shown
    <3>3. Stored(b, t)'
      <4>1. world.file[t] \in File
        BY DEF File
      <4>2. snapshots'[b][world.file[t]] = <<t, calls>>
        BY <1>0, <2>7, <4>1 DEF Shapes
      <4> QED  BY <1>0, <2>7, <4>2 DEF Stored
    <3> QED  BY <2>0, <2>2, <3>1, <3>2, <3>3 DEF Shown
  <2>8. CASE TestGoes(b, t, "verifying", "ok") /\ <<b, t>> \notin world.untypable
    <3>1. test[b][t] = "verifying" /\ test'[b][t] = "ok"
      BY <1>0, <2>8, TestMoves DEF TestState, Ended
    <3>2. Paired(Exp(b, t), Diags(b, t)) /\ Stored(b, t)
      BY <3>1 DEF TestsHonest, Shown
    <3>3. <<b, t>> \notin world'.untypable
      BY <1>0, <2>8
    <3> QED  BY <2>1, <2>2, <3>1, <3>2, <3>3 DEF Shown
  <2> QED  BY <2>3, <2>4, <2>5, <2>6, <2>7, <2>8, TestPath
<1>3. BackendsHonest'
  <2> SUFFICES ASSUME NEW c \in Backend, backend[c] = "ok", NEW u \in Tests(c)
               PROVE  test'[c][u] = "ok"
    BY <1>0, SameExpectations DEF BackendsHonest
  <2>1. test[c][u] = "ok" /\ u \in Test
    BY DEF BackendsHonest, Tests
  <2>2. test' = test \/ test[b][t] # "ok"
    BY TestPath DEF TestGoes
  <2> QED  BY <2>1, <2>2, OthersKept
<1> QED
  BY <1>1, <1>2, <1>3 DEF TestsHonest

LEMMA BackendKeepsHonest ==
  ASSUME Shape, TestsHonest, BackendsHonest, NEW b \in Backend, BackendStep(b)
  PROVE  TestsHonest' /\ BackendsHonest'
<1>0. Shapes /\ UNCHANGED <<world, calls, expected, outcome, dirs, snapshots>>
  BY BackendFrame DEF Shape
<1>1. \/ test' = test
      \/ /\ BackendGoes(b, "serialized", "testing")
         /\ test' = [test EXCEPT ![b] = [t \in Test |-> IF t \in Tests(b) THEN "queued" ELSE @[t]]]
  <2>1. CASE RenameHaxmeta(b) /\ slot # None
    BY <2>1 DEF RenameHaxmeta, BackendGoes
  <2>2. test' = test \/ (RenameHaxmeta(b) /\ slot # None)
    BY BackendFrame DEF RenameHaxmeta
  <2> QED  BY <2>1, <2>2
<1>2. ASSUME NEW c \in Backend, NEW t \in Test
      PROVE  test'[c][t] = test[c][t] \/ test'[c][t] = "queued"
  BY <1>0, <1>1 DEF Shapes
<1>3. TestsHonest'
  <2> SUFFICES ASSUME NEW c \in Backend, NEW t \in Test
               PROVE  Shown(c, t, test[c][t])'
    BY DEF TestsHonest
  <2>1. PICK pc : pc = test'[c][t]
    OBVIOUS
  <2>2. Shown(c, t, pc)
    BY <1>2, <2>1 DEF TestsHonest, Shown
  <2>3. Stored(c, t) => Stored(c, t)'
    BY <1>0 DEF Stored
  <2>4. Shown(c, t, pc)'
    BY <1>0, <2>2, <2>3, ShownLasts
  <2> QED  BY <2>1, <2>4 DEF Shown
<1>4. BackendsHonest'
  <2> SUFFICES ASSUME NEW c \in Backend, backend'[c] = "ok", NEW t \in Tests(c)
               PROVE  test'[c][t] = "ok"
    BY <1>0, SameExpectations DEF BackendsHonest
  <2>1. PICK from \in BackendState, to \in BackendState :
          BackendGoes(b, from, to) /\ (to = "ok" => \A u \in Tests(b) : test[b][u] = "ok")
    BY BackendPath DEF BackendState
  <2>2. backend'[b] = to /\ \A d \in Backend : d # b => backend'[d] = backend[d]
    BY <1>0, <2>1, BackendMoves
  <2>3. test[c][t] = "ok"
    BY <2>1, <2>2 DEF BackendsHonest
  <2>4. t \in Test
    BY DEF Tests
  <2>5. test'[c] = test[c]
    <3>1. CASE test' = test
      BY <3>1
    <3>2. CASE c # b /\ test' = [test EXCEPT ![b] = [u \in Test |-> IF u \in Tests(b) THEN "queued" ELSE @[u]]]
      BY <1>0, <3>2 DEF Shapes
    <3>3. CASE c = b /\ BackendGoes(b, "serialized", "testing")
      BY <1>0, <3>3, BackendMoves DEF BackendState
    <3> QED  BY <1>1, <3>1, <3>2, <3>3
  <2> QED  BY <2>3, <2>5
<1> QED
  BY <1>3, <1>4

LEMMA NothingShown ==
  ASSUME NothingSpawned
  PROVE  TestsHonest /\ BackendsHonest
BY DEF NothingSpawned, TestsHonest, BackendsHonest, Shown

\* A green call is right about what it was asked.
GreenPromise ==
  \A b \in Backend : \A t \in Tests(b) :
    /\ Paired(Exp(b, t), Diags(b, t))
    /\ <<b, t>> \in world.untypable => ~NeedsVerification(b, t)
    /\ snapshots[b][world.file[t]] = <<t, calls>>

HonestInv == Shape /\ TestsHonest /\ BackendsHonest /\ Resting /\ (exit = "ok" => GreenPromise)

LEMMA AllWell ==
  ASSUME TestsHonest, BackendsHonest, \A b \in Backend : backend[b] = "ok"
  PROVE  GreenPromise
BY DEF TestsHonest, BackendsHonest, Shown, Stored, GreenPromise, Tests

LEMMA PromiseLasts ==
  ASSUME GreenPromise, UNCHANGED <<world, expected, snapshots, calls>>
  PROVE  GreenPromise'
<1>1. \A b, t : Exp(b, t)' = Exp(b, t) /\ Diags(b, t)' = Diags(b, t) /\ NeedsVerification(b, t)' = NeedsVerification(b, t)
  BY SameExpectations DEF Exp, Diags
<1>2. \A b, t : Paired(Exp(b, t), Diags(b, t))' = Paired(Exp(b, t), Diags(b, t))
  BY <1>1 DEF Paired, Fits, IsForItem
<1>3. \A b : Tests(b)' = Tests(b)
  BY SameExpectations
<1> QED
  BY <1>1, <1>2, <1>3 DEF GreenPromise

THEOREM HonestInvariance == Spec => []HonestInv
<1>1. Init => HonestInv
  <2> SUFFICES ASSUME Init  PROVE HonestInv
    OBVIOUS
  <2>1. NothingSpawned
    BY MemoryFacts DEF Init, NothingSpawned
  <2>2. exit # "ok"
    BY DriverAssumption DEF Init
  <2> QED  BY <2>1, <2>2, ShapeInit, NothingShown DEF HonestInv, Resting
<1>2. HonestInv /\ [Next]_vars => HonestInv'
  <2> SUFFICES ASSUME HonestInv, [Next]_vars  PROVE HonestInv'
    OBVIOUS
  <2>0. Shape /\ TestsHonest /\ BackendsHonest /\ Resting /\ (exit = "ok" => GreenPromise) /\ Shape'
    BY ShapeStep DEF HonestInv
  <2>1. CASE UNCHANGED vars
    <3>1. UNCHANGED <<world, expected, snapshots, calls, outcome, dirs, test, backend, main, exit>>
      BY <2>1 DEF vars
    <3>2. TestsHonest'
      <4> SUFFICES ASSUME NEW b \in Backend, NEW t \in Test
                   PROVE  Shown(b, t, test[b][t])'
        BY DEF TestsHonest
      <4>1. PICK pc : pc = test[b][t]
        OBVIOUS
      <4>2. Shown(b, t, pc)
        BY <2>0, <4>1 DEF TestsHonest
      <4>3. Stored(b, t) => Stored(b, t)'
        BY <3>1 DEF Stored
      <4>4. Shown(b, t, pc)'
        BY <3>1, <4>2, <4>3, ShownLasts
      <4> QED  BY <3>1, <4>1, <4>4 DEF Shown
    <3>3. BackendsHonest'
      BY <2>0, <3>1, SameExpectations DEF BackendsHonest
    <3> QED  BY <2>0, <3>1, <3>2, <3>3, PromiseLasts DEF HonestInv, Resting
  <2>2. CASE ResolveTests \/ JoinBackends \/ (\E p \in Paths : SaveFile(p)) \/ CallAgain
    <3>1. UNCHANGED <<world, backend, test, outcome, dirs, snapshots>>
      BY <2>2, MainFrame
    <3>2. exit' # "ok"
      <4>1. exit' = None \/ (exit' = exit /\ main # "exited")
        BY <2>2 DEF ResolveTests, JoinBackends, SaveFile, CallAgain
      <4> QED  BY <2>0, <4>1, DriverAssumption DEF Resting
    <3>3. TestsHonest' /\ BackendsHonest'
      <4>1. CASE main \in {"resolving", "exited"}
        <5>1. NothingSpawned'
          BY <2>0, <3>1, <4>1 DEF Shape, AtRest, NothingSpawned
        <5> QED  BY <5>1, NothingShown, PTL
      <4>2. CASE main \notin {"resolving", "exited"}
        <5>1. UNCHANGED <<calls, expected>>
          BY <2>2, <4>2 DEF ResolveTests, JoinBackends, SaveFile, CallAgain
        <5>2. TestsHonest'
          <6> SUFFICES ASSUME NEW b \in Backend, NEW t \in Test
                       PROVE  Shown(b, t, test[b][t])'
            BY DEF TestsHonest
          <6>1. PICK pc : pc = test[b][t]
            OBVIOUS
          <6>2. Shown(b, t, pc)
            BY <2>0, <6>1 DEF TestsHonest
          <6>3. Stored(b, t) => Stored(b, t)'
            BY <3>1, <5>1 DEF Stored
          <6>4. Shown(b, t, pc)'
            BY <3>1, <5>1, <6>2, <6>3, ShownLasts
          <6> QED  BY <3>1, <6>1, <6>4 DEF Shown
        <5>3. BackendsHonest'
          BY <2>0, <3>1, <5>1, SameExpectations DEF BackendsHonest
        <5> QED  BY <5>2, <5>3
      <4> QED  BY <4>1, <4>2
    <3> QED  BY <2>0, <3>2, <3>3 DEF HonestInv, Resting
  <2>3. ASSUME NEW status \in {"ok", "err"}, ProcessEnds(status), status = "ok" => Exit
        PROVE  HonestInv'
    <3>1. NothingSpawned' /\ main' = "exited"
      BY <2>0, <2>3, EndShape
    <3>2. TestsHonest' /\ BackendsHonest'
      BY <3>1, NothingShown, PTL
    <3>3. exit' = status /\ UNCHANGED <<world, expected, snapshots, calls>>
      BY <2>3 DEF ProcessEnds
    <3>4. status = "ok" => GreenPromise
      <4>1. status = "ok" => \A b \in Backend : backend[b] = "ok"
        BY <2>3, <3>3 DEF Exit, ProcessEnds
      <4> QED  BY <2>0, <4>1, AllWell
    <3> QED  BY <2>0, <3>1, <3>2, <3>3, <3>4, PromiseLasts DEF HonestInv, Resting
  <2>4. ASSUME NEW b \in Backend, BackendStep(b)  PROVE HonestInv'
    <3>1. main # "exited" /\ main' = main /\ exit' = exit
      BY <2>0, <2>4, Alive, BackendFrame
    <3> QED  BY <2>0, <2>4, <3>1, BackendKeepsHonest DEF HonestInv, Resting
  <2>5. ASSUME NEW b \in Backend, NEW t \in Test, TestStep(b, t)  PROVE HonestInv'
    <3>1. main # "exited" /\ main' = main /\ exit' = exit
      BY <2>0, <2>5, Alive, TestFrame
    <3> QED  BY <2>0, <2>5, <3>1, TestKeepsHonest DEF HonestInv, Resting
  <2> QED  BY <2>1, <2>2, <2>3, <2>4, <2>5, Steps
<1> QED
  BY <1>1, <1>2, PTL DEF Spec

(***************************************************************************)
(* GreenMeansMatched: a call that ends well has paired the diagnostics of  *)
(* every test with its expectations, verified every test that must be, and *)
(* leaves the output of each as its snapshot.                              *)
(***************************************************************************)
THEOREM GreenIsRight == Spec => []GreenMeansMatched
<1>1. HonestInv => GreenMeansMatched
  BY DEF HonestInv, GreenPromise, GreenMeansMatched, Paired, Fits, Exp, Diags
<1> QED
  BY <1>1, HonestInvariance, PTL

(***************************************************************************)
(* VerifiesOwnOutput, a part of JobsOK: what a test verifies is what it    *)
(* extracted in this call.                                                 *)
(***************************************************************************)
THEOREM VerifiesOwn == Spec => []VerifiesOwnOutput
<1>1. HonestInv => VerifiesOwnOutput
  BY DEF HonestInv, TestsHonest, Shown, Stored, VerifiesOwnOutput
<1> QED
  BY <1>1, HonestInvariance, PTL

-----------------------------------------------------------------------------
(***************************************************************************)
(* The progress bar.  A job is one extraction or one verification.         *)
(***************************************************************************)
Kind == {"extraction", "verification"}
Asked(b, t, k) == t \in Tests(b) /\ (k = "verification" => NeedsVerification(b, t))
Announced == {j \in Backend \X Test \X Kind : backend[j[1]] # "unspawned" /\ Asked(j[1], j[2], j[3])}

\* Where a test is when its job of kind k is over, or will never be done.
Past(k) ==
  IF k = "extraction" THEN {"ok", "err", "extracted", "verifying", "panicked"} ELSE {"ok", "err"}
Finished == {j \in Backend \X Test \X Kind : test[j[1]][j[2]] \in Past(j[3]) /\ Asked(j[1], j[2], j[3])}

Counting == counts.total = Cardinality(Announced) /\ counts.completed <= Cardinality(Finished)

LEMMA JobsFinite == IsFiniteSet(Announced) /\ IsFiniteSet(Finished)
<1>1. IsFiniteSet(Kind)
  <2>1. Kind = ({} \cup {"extraction"}) \cup {"verification"}
    BY DEF Kind
  <2> QED  BY <2>1, FS_EmptySet, FS_AddElement
<1>2. IsFiniteSet(Backend \X (Test \X Kind))
  BY <1>1, DriverAssumption, FS_Product
<1>3. IsFiniteSet(Backend \X Test \X Kind)
  <2> DEFINE S == Backend \X (Test \X Kind)
             T == Backend \X Test \X Kind
             f == [s \in S |-> <<s[1], s[2][1], s[2][2]>>]
  <2>1. f \in [S -> T] /\ \A t \in T : \E s \in S : f[s] = t
    <3>1. f \in [S -> T]
      OBVIOUS
    <3>2. ASSUME NEW t \in T  PROVE \E s \in S : f[s] = t
      <4>1. <<t[1], <<t[2], t[3]>>>> \in S /\ f[<<t[1], <<t[2], t[3]>>>>] = t
        OBVIOUS
      <4> QED  BY <4>1
    <3> QED  BY <3>1, <3>2
  <2> HIDE DEF f, S, T
  <2>2. f \in Surjection(S, T)
    BY <2>1 DEF Surjection
  <2>3. IsFiniteSet(S)
    BY <1>2 DEF S
  <2>4. IsFiniteSet(T)
    BY <2>2, <2>3, FS_Surjection
  <2> QED  BY <2>4 DEF T
<1>4. Announced \subseteq Backend \X Test \X Kind /\ Finished \subseteq Backend \X Test \X Kind
  BY DEF Announced, Finished
<1> QED
  BY <1>3, <1>4, FS_Subset

LEMMA SameSize ==
  ASSUME NEW S, IsFiniteSet(S), NEW T, NEW f \in [S -> T],
         \A x, y \in S : f[x] = f[y] => x = y, \A z \in T : \E x \in S : f[x] = z
  PROVE  IsFiniteSet(T) /\ Cardinality(T) = Cardinality(S)
<1>1. f \in Bijection(S, T)
  BY Fun_IsBij
<1> QED
  BY <1>1, Fun_ExistsBij, FS_Bijection

\* No job is counted before it was announced.
LEMMA FinishedAnnounced ==
  ASSUME Shape
  PROVE  Finished \subseteq Announced
BY DEF Shape, SpawnedInOrder, Finished, Announced, Past

LEMMA NothingCounted ==
  ASSUME NothingSpawned, counts = Quiet
  PROVE  Counting
<1>1. Announced = {} /\ Finished = {}
  BY DEF NothingSpawned, Announced, Finished, Past
<1> QED
  BY <1>1, FS_EmptySet DEF Counting, Quiet

LEMMA SpawnCounts ==
  ASSUME Shape, Counting, NEW b \in Backend, SpawnBackend(b)
  PROVE  Counting'
<1>0. Shapes /\ BackendGoes(b, "unspawned", "serialize") /\ UNCHANGED <<world, expected, test>>
  BY DEF Shape, SpawnBackend, BackendGoes
<1>1. backend[b] = "unspawned" /\ backend'[b] = "serialize" /\ \A c \in Backend : c # b => backend'[c] = backend[c]
  BY <1>0, BackendMoves DEF BackendState
<1> DEFINE V == {t \in Tests(b) : NeedsVerification(b, t)}
           E == {<<b, t, "extraction">> : t \in Tests(b)}
           W == {<<b, t, "verification">> : t \in V}
<1>2. IsFiniteSet(Tests(b)) /\ IsFiniteSet(V)
  <2>1. Tests(b) \subseteq Test /\ V \subseteq Test
    BY DEF Tests
  <2> QED  BY <2>1, DriverAssumption, FS_Subset
<1>3. IsFiniteSet(E) /\ Cardinality(E) = Cardinality(Tests(b)) /\ IsFiniteSet(W) /\ Cardinality(W) = Cardinality(V)
  <2>1. IsFiniteSet(E) /\ Cardinality(E) = Cardinality(Tests(b))
    <3> DEFINE f == [t \in Tests(b) |-> <<b, t, "extraction">>]
    <3>1. /\ f \in [Tests(b) -> E] /\ \A x, y \in Tests(b) : f[x] = f[y] => x = y
          /\ \A z \in E : \E x \in Tests(b) : f[x] = z
      OBVIOUS
    <3> HIDE DEF f, E, V, W
    <3> QED  BY <1>2, <3>1, SameSize
  <2>2. IsFiniteSet(W) /\ Cardinality(W) = Cardinality(V)
    <3> DEFINE f == [t \in V |-> <<b, t, "verification">>]
    <3>1. /\ f \in [V -> W] /\ \A x, y \in V : f[x] = f[y] => x = y
          /\ \A z \in W : \E x \in V : f[x] = z
      OBVIOUS
    <3> HIDE DEF f, E, V, W
    <3> QED  BY <1>2, <3>1, SameSize
  <2> QED  BY <2>1, <2>2
<1>4. Announced' = (Announced \cup E) \cup W
  <2>1. \A j \in Backend \X Test \X Kind : Asked(j[1], j[2], j[3])' = Asked(j[1], j[2], j[3])
    BY <1>0, SameExpectations DEF Asked
  <2>2. \A j \in Backend \X Test \X Kind : j \in Announced' <=> j \in Announced \/ (j[1] = b /\ Asked(b, j[2], j[3]))
    BY <1>1, <2>1 DEF Announced
  <2>3. \A j \in Backend \X Test \X Kind : j[1] = b /\ Asked(b, j[2], j[3]) <=> j \in E \cup W
    BY DEF Asked, Kind
  <2>4. E \cup W \subseteq Backend \X Test \X Kind
    BY DEF Tests, Kind
  <2>5. Announced \subseteq Backend \X Test \X Kind /\ Announced' \subseteq Backend \X Test \X Kind
    BY DEF Announced
  <2> QED  BY <2>2, <2>3, <2>4, <2>5
<1>5. Announced \cap E = {} /\ (Announced \cup E) \cap W = {}
  BY <1>1 DEF Announced
<1>6. Cardinality(Announced') = Cardinality(Announced) + Cardinality(Tests(b)) + Cardinality(V)
  <2> HIDE DEF E, W, V
  <2>1. IsFiniteSet(Announced \cup E) /\ Cardinality(Announced \cup E) = Cardinality(Announced) + Cardinality(E) - Cardinality(Announced \cap E)
    BY <1>3, JobsFinite, FS_Union
  <2>2. Cardinality((Announced \cup E) \cup W) = Cardinality(Announced \cup E) + Cardinality(W) - Cardinality((Announced \cup E) \cap W)
    BY <1>3, <2>1, FS_Union
  <2>3. Cardinality(Announced) \in Nat /\ Cardinality(E) \in Nat /\ Cardinality(W) \in Nat
    BY <1>3, JobsFinite, FS_CardinalityType
  <2>4. Cardinality(Announced \cap E) = 0 /\ Cardinality((Announced \cup E) \cap W) = 0
    BY <1>5, FS_EmptySet
  <2>5. Cardinality(Announced') = Cardinality((Announced \cup E) \cup W)
    BY <1>4
  <2> QED  BY <1>3, <2>1, <2>2, <2>3, <2>4, <2>5
<1>7. Finished' = Finished
  <2>1. \A b_1, t, k : Asked(b_1, t, k)' = Asked(b_1, t, k)
    BY <1>0, SameExpectations DEF Asked
  <2> QED  BY <1>0, <2>1 DEF Finished
<1>8. counts'.total = counts.total + Cardinality(Tests(b)) + Cardinality(V) /\ counts'.completed = counts.completed
  BY <1>0 DEF SpawnBackend, Shapes
<1> QED
  BY <1>6, <1>7, <1>8 DEF Counting

LEMMA BackendCounts ==
  ASSUME Shape, Counting, NEW b \in Backend, BackendStep(b)
  PROVE  Counting'
<1>1. CASE SpawnBackend(b)
  BY <1>1, SpawnCounts
<1>2. CASE ~SpawnBackend(b)
  <2>0. Shapes /\ UNCHANGED <<world, expected, counts>>
    BY <1>2, BackendFrame DEF Shape
  <2>1. \A c, t, k : Asked(c, t, k)' = Asked(c, t, k)
    BY <2>0, SameExpectations DEF Asked
  <2>2. PICK from \in BackendState \ {"unspawned"}, to \in BackendState \ {"unspawned"} : BackendGoes(b, from, to)
    BY <1>2, BackendPath DEF BackendState
  <2>3. \A c \in Backend : backend'[c] # "unspawned" <=> backend[c] # "unspawned"
    BY <2>0, <2>2, BackendMoves
  <2>4. Announced' = Announced
    BY <2>1, <2>3 DEF Announced
  <2>5. \A c \in Backend, t \in Test : test'[c][t] = test[c][t] \/ (test[c][t] = "unspawned" /\ test'[c][t] = "queued")
    <3>1. CASE test' = test
      BY <3>1
    <3>2. CASE RenameHaxmeta(b) /\ slot # None
      <4>1. /\ backend[b] = "serialized"
            /\ test' = [test EXCEPT ![b] = [t \in Test |-> IF t \in Tests(b) THEN "queued" ELSE @[t]]]
        BY <3>2 DEF RenameHaxmeta
      <4>2. \A t \in Test : test[b][t] = "unspawned"
        BY <4>1 DEF Shape, SpawnedInOrder
      <4> QED  BY <2>0, <4>1, <4>2 DEF Shapes
    <3>3. test' = test \/ (RenameHaxmeta(b) /\ slot # None)
      BY BackendFrame DEF RenameHaxmeta
    <3> QED  BY <3>1, <3>2, <3>3
  <2>6. Finished' = Finished
    BY <2>1, <2>5 DEF Finished, Past
  <2> QED  BY <2>0, <2>4, <2>6 DEF Counting
<1> QED
  BY <1>1, <1>2

\* A report of the end of a job is about a job that had not ended.
LEMMA TestCounts ==
  ASSUME Shape, TestsHonest, Counting, NEW b \in Backend, NEW t \in Test, TestStep(b, t)
  PROVE  Counting'
<1>0. Shapes /\ UNCHANGED <<world, expected, backend>>
  BY TestFrame DEF Shape
<1>1. \A c, u, k : Asked(c, u, k)' = Asked(c, u, k)
  BY <1>0, SameExpectations DEF Asked
<1>2. Announced' = Announced
  BY <1>0, <1>1 DEF Announced
<1>3. Finished \subseteq Finished' /\ (counts' = counts \/ (JobEnds /\ \E j \in Finished' : j \notin Finished))
  <2>1. CASE UNCHANGED <<test, counts>>
    BY <1>1, <2>1 DEF Finished
  <2>2. ASSUME NEW from \in TestState, NEW to \in TestState, NEW k \in Kind, TestGoes(b, t, from, to),
               Asked(b, t, k), to \in Past(k), from \notin Past(k), \A l \in Kind : from \in Past(l) => to \in Past(l)
        PROVE  Finished \subseteq Finished' /\ \E j \in Finished' : j \notin Finished
    <3>1. test[b][t] = from /\ test'[b][t] = to /\ \A c \in Backend, u \in Test : c # b \/ u # t => test'[c][u] = test[c][u]
      BY <1>0, <2>2, TestMoves
    <3>2. Finished \subseteq Finished'
      <4> SUFFICES ASSUME NEW c \in Backend, NEW u \in Test, NEW l \in Kind, <<c, u, l>> \in Finished
                   PROVE  <<c, u, l>> \in Finished'
        BY DEF Finished
      <4>1. test[c][u] \in Past(l) /\ Asked(c, u, l)
        BY DEF Finished
      <4>2. test'[c][u] \in Past(l)
        BY <2>2, <3>1, <4>1
      <4> QED  BY <1>1, <4>1, <4>2 DEF Finished, Past
    <3>3. <<b, t, k>> \in Finished' /\ <<b, t, k>> \notin Finished
      BY <1>1, <2>2, <3>1 DEF Finished, Past
    <3> QED  BY <3>2, <3>3
  <2>3. ASSUME NEW from \in TestState, NEW to \in TestState, TestGoes(b, t, from, to),
               \A l \in Kind : Asked(b, t, l) /\ from \in Past(l) => to \in Past(l)
        PROVE  Finished \subseteq Finished'
    <3>1. test[b][t] = from /\ test'[b][t] = to /\ \A c \in Backend, u \in Test : c # b \/ u # t => test'[c][u] = test[c][u]
      BY <1>0, <2>3, TestMoves
    <3> SUFFICES ASSUME NEW c \in Backend, NEW u \in Test, NEW l \in Kind, <<c, u, l>> \in Finished
                 PROVE  <<c, u, l>> \in Finished'
      BY DEF Finished
    <3>2. test[c][u] \in Past(l) /\ Asked(c, u, l)
      BY DEF Finished
    <3>3. test'[c][u] \in Past(l)
      BY <2>3, <3>1, <3>2
    <3> QED  BY <1>1, <3>2, <3>3 DEF Finished, Past
  <2>4. test[b][t] # "unspawned" => t \in Tests(b)
    BY DEF Shape, SpawnedInOrder
  <2>5. CASE /\ JobEnds
             /\ \/ TestGoes(b, t, "extracting", "err") \/ TestGoes(b, t, "promoting", "err")
                \/ TestGoes(b, t, "promoting", "extracted")
    <3>1. Asked(b, t, "extraction") /\ "extraction" \in Kind
      BY <2>4, <2>5 DEF Asked, TestGoes, Kind
    <3> QED  BY <2>2, <2>5, <3>1 DEF Past, TestState, Ended
  <2>6. CASE JobEnds /\ \E to \in {"ok", "err"} : TestGoes(b, t, "verifying", to)
    <3>1. Asked(b, t, "verification") /\ "verification" \in Kind
      BY <2>4, <2>6 DEF Asked, TestGoes, Kind, TestsHonest, Shown
    <3>2. PICK to \in {"ok", "err"} : TestGoes(b, t, "verifying", to)
      BY <2>6
    <3> QED  BY <2>2, <2>6, <3>1, <3>2 DEF Past, TestState, Ended
  <2>7. CASE /\ counts' = counts
             /\ \/ TestGoes(b, t, "queued", "extracting") \/ TestGoes(b, t, "extracting", "promoting")
                \/ TestGoes(b, t, "extracted", "panicked")
    <3>1. Finished \subseteq Finished'
      BY <2>3, <2>7 DEF Past, Kind, TestState, Ended
    <3> QED  BY <2>7, <3>1
  <2>8. CASE /\ counts' = counts
             /\ TestGoes(b, t, "extracted", IF NeedsVerification(b, t) THEN "verifying" ELSE "ok")
    <3>1. Finished \subseteq Finished'
      BY <2>3, <2>8 DEF Past, Kind, TestState, Ended
    <3> QED  BY <2>8, <3>1
  <2> QED  BY <2>1, <2>5, <2>6, <2>7, <2>8, TestPath
<1>4. IsFiniteSet(Finished) /\ IsFiniteSet(Finished')
  <2>1. IsFiniteSet(Finished)
    BY JobsFinite
  <2>2. IsFiniteSet(Finished)'
    BY JobsFinite, PTL
  <2> QED  BY <2>1, <2>2
<1>5. Cardinality(Finished) \in Nat /\ Cardinality(Finished') \in Nat
  BY <1>4, FS_CardinalityType
<1>6. Cardinality(Finished) <= Cardinality(Finished')
  BY <1>3, <1>4, FS_Subset
<1>7. counts \in [total : Nat, completed : Nat]
  BY <1>0 DEF Shapes
<1>8. CASE counts' = counts
  BY <1>2, <1>5, <1>6, <1>7, <1>8 DEF Counting
<1>9. CASE JobEnds /\ \E j \in Finished' : j \notin Finished
  <2>1. counts'.total = counts.total /\ counts'.completed = counts.completed + 1
    BY <1>7, <1>9 DEF JobEnds
  <2>2. Cardinality(Finished) + 1 <= Cardinality(Finished')
    <3>1. Cardinality(Finished) # Cardinality(Finished')
      BY <1>3, <1>4, <1>9, FS_Subset
    <3> QED  BY <1>5, <1>6, <3>1
  <2> QED  BY <1>2, <1>5, <1>7, <2>1, <2>2 DEF Counting
<1> QED
  BY <1>3, <1>8, <1>9

THEOREM CountingInvariance == Spec => []Counting
<1>1. Init => Counting
  <2>1. Init => NothingSpawned /\ counts = Quiet
    BY MemoryFacts DEF Init, NothingSpawned
  <2> QED  BY <2>1, NothingCounted
<1>2. HonestInv /\ Counting /\ [Next]_vars => Counting'
  <2> SUFFICES ASSUME HonestInv, Counting, [Next]_vars  PROVE Counting'
    OBVIOUS
  <2>0. Shape /\ TestsHonest
    BY DEF HonestInv
  <2>1. CASE UNCHANGED <<world, expected, backend, test, counts>>
    <3>1. \A c, u, k : Asked(c, u, k)' = Asked(c, u, k)
      BY <2>1, SameExpectations DEF Asked
    <3> QED  BY <2>1, <3>1 DEF Counting, Announced, Finished
  <2>2. CASE ResolveTests \/ JoinBackends \/ (\E p \in Paths : SaveFile(p)) \/ CallAgain
    <3>1. UNCHANGED <<world, backend, test, counts>>
      BY <2>2, MainFrame
    <3>2. CASE main \in {"resolving", "exited"}
      <4>1. NothingSpawned' /\ (counts = Quiet)'
        BY <2>0, <3>1, <3>2 DEF Shape, AtRest, NothingSpawned, Quiet
      <4> QED  BY <4>1, NothingCounted, PTL
    <3>3. CASE main \notin {"resolving", "exited"}
      BY <2>1, <2>2, <3>1, <3>3, MainFrame
    <3> QED  BY <3>2, <3>3
  <2>3. ASSUME NEW status \in {"ok", "err"}, ProcessEnds(status)
        PROVE  Counting'
    <3>1. NothingSpawned' /\ (counts = Quiet)'
      BY <2>0, <2>3, EndShape DEF Quiet
    <3> QED  BY <3>1, NothingCounted, PTL
  <2>4. CASE UNCHANGED vars
    BY <2>1, <2>4 DEF vars
  <2> QED  BY <2>0, <2>2, <2>3, <2>4, Steps, BackendCounts, TestCounts
<1> QED
  BY <1>1, <1>2, HonestInvariance, PTL DEF Spec

(***************************************************************************)
(* CompletedWithinTotal, a part of JobsOK: the progress bar never          *)
(* overflows.                                                              *)
(***************************************************************************)
THEOREM BarNeverOverflows == Spec => []CompletedWithinTotal
<1>1. Shape /\ Counting => CompletedWithinTotal
  <2> SUFFICES ASSUME Shape, Counting  PROVE counts.completed <= counts.total
    BY DEF CompletedWithinTotal
  <2>1. Cardinality(Finished) <= Cardinality(Announced)
    BY FinishedAnnounced, JobsFinite, FS_Subset
  <2>2. Cardinality(Finished) \in Nat /\ Cardinality(Announced) \in Nat
    BY JobsFinite, FS_CardinalityType
  <2>3. counts.completed \in Nat
    BY DEF Shape, Shapes
  <2> QED  BY <2>1, <2>2, <2>3 DEF Counting
<1>2. HonestInv => Shape
  BY DEF HonestInv
<1> QED
  BY <1>1, <1>2, HonestInvariance, CountingInvariance, PTL

-----------------------------------------------------------------------------
(***************************************************************************)
(* The lines of an edited file.  FlattenSeq is recursive; that its         *)
(* recursion has a value, and one as long as the sequences it joins, is    *)
(* shown by the least number for which it has not.                         *)
(***************************************************************************)
LEMMA LeastNumber ==
  ASSUME NEW T, T \subseteq Nat, T # {}
  PROVE  \E x \in T : \A y \in T : x <= y
<1>1. PICK R : R = OpToRel(<, Nat)
  OBVIOUS
<1>2. IsWellFoundedOn(R, Nat)
  BY <1>1, NatLessThanWellFounded, Zenon
<1>3. \E x \in T : \A y \in T : ~(<<y, x>> \in R)
  BY <1>2, WFMin
<1>4. \A x, y \in Nat : <<y, x>> \in R <=> y < x
  BY <1>1, Zenon DEF OpToRel
<1>5. PICK x \in T : \A y \in T : ~(<<y, x>> \in R)
  BY <1>3
<1>6. \A y \in T : x <= y
  <2> SUFFICES ASSUME NEW y \in T  PROVE x <= y
    OBVIOUS
  <2>1. ~(y < x)
    BY <1>4, <1>5
  <2>2. x \in Nat /\ y \in Nat
    OBVIOUS
  <2> QED  BY <2>1, <2>2
<1> QED
  BY <1>6

\* The sequence of the first m of the sequences of seqs, one after the other.
Flat(seqs, m, f) == f = [i \in 1..m |-> IF i = 1 THEN seqs[i] ELSE f[i - 1] \o seqs[i]]

LEMMA FlatExists ==
  ASSUME NEW seqs, NEW n \in Nat
  PROVE  \E f : Flat(seqs, n, f)
<1> DEFINE Bad == {m \in Nat : ~\E f : Flat(seqs, m, f)}
<1>1. ASSUME Bad # {}  PROVE FALSE
  <2>1. PICK m \in Bad : \A k \in Bad : m <= k
    <3>1. Bad \subseteq Nat
      OBVIOUS
    <3> HIDE DEF Bad
    <3> QED  BY <1>1, <3>1, LeastNumber
  <2>2. m \in Nat /\ ~\E f : Flat(seqs, m, f)
    BY <2>1
  <2>3. CASE m = 0
    <3>1. Flat(seqs, m, << >>)
      BY <2>3 DEF Flat
    <3> QED  BY <2>2, <3>1
  <2>4. CASE m # 0
    <3>1. m - 1 \in Nat /\ m - 1 \notin Bad
      BY <2>1, <2>2, <2>4
    <3>2. PICK f : Flat(seqs, m - 1, f)
      BY <3>1
    <3>3. PICK g : g = [i \in 1..m |-> IF i = m THEN (IF m = 1 THEN seqs[m] ELSE f[m - 1] \o seqs[m]) ELSE f[i]]
      OBVIOUS
    <3>4. ASSUME NEW i \in 1..m  PROVE g[i] = IF i = 1 THEN seqs[i] ELSE g[i - 1] \o seqs[i]
      <4>1. CASE i = m
        BY <2>2, <3>3, <4>1
      <4>2. CASE i # m
        <5>1. i \in 1..(m - 1)
          BY <2>2, <4>2
        <5>2. f[i] = IF i = 1 THEN seqs[i] ELSE f[i - 1] \o seqs[i]
          BY <3>2, <5>1 DEF Flat
        <5>3. g[i] = f[i] /\ (i # 1 => g[i - 1] = f[i - 1])
          BY <2>2, <3>3, <4>2, <5>1
        <5> QED  BY <5>2, <5>3
      <4> QED  BY <4>1, <4>2
    <3>5. Flat(seqs, m, g)
      BY <3>3, <3>4 DEF Flat
    <3> QED  BY <2>2, <3>5
  <2> QED  BY <2>3, <2>4
<1> QED  BY <1>1

LEMMA FlattenIs ==
  ASSUME NEW seqs, Len(seqs) \in Nat, Len(seqs) # 0
  PROVE  \E f : Flat(seqs, Len(seqs), f) /\ FlattenSeq(seqs) = f[Len(seqs)]
<1> DEFINE h == CHOOSE f : Flat(seqs, Len(seqs), f)
<1>1. Flat(seqs, Len(seqs), h)
  BY FlatExists
<1>2. FlattenSeq(seqs) = h[Len(seqs)]
  BY DEF FlattenSeq, Flat
<1> QED
  BY <1>1, <1>2

\* A sequence made of n sequences that are not empty has at least n elements.
LEMMA FlattenLong ==
  ASSUME NEW S, NEW seqs, NEW n \in Nat, Len(seqs) = n, n # 0,
         \A i \in 1..n : seqs[i] \in Seq(S) /\ Len(seqs[i]) >= 1
  PROVE  FlattenSeq(seqs) \in Seq(S) /\ Len(FlattenSeq(seqs)) >= n
<1>1. PICK f : Flat(seqs, n, f) /\ FlattenSeq(seqs) = f[n]
  BY FlattenIs
<1> DEFINE Bad == {m \in 1..n : ~(f[m] \in Seq(S) /\ Len(f[m]) >= m)}
<1>2. ASSUME Bad # {}  PROVE FALSE
  <2>1. PICK m \in Bad : \A k \in Bad : m <= k
    <3>1. Bad \subseteq Nat
      OBVIOUS
    <3> HIDE DEF Bad
    <3> QED  BY <1>2, <3>1, LeastNumber
  <2>2. m \in 1..n /\ ~(f[m] \in Seq(S) /\ Len(f[m]) >= m)
    BY <2>1
  <2>3. f[m] = IF m = 1 THEN seqs[m] ELSE f[m - 1] \o seqs[m]
    BY <1>1, <2>2 DEF Flat
  <2>4. CASE m = 1
    BY <2>2, <2>3, <2>4
  <2>5. CASE m # 1
    <3>1. m - 1 \in 1..n /\ m - 1 \notin Bad
      BY <2>1, <2>2, <2>5
    <3>2. f[m - 1] \in Seq(S) /\ Len(f[m - 1]) >= m - 1
      BY <3>1
    <3>3. PICK a, b : a = f[m - 1] /\ b = seqs[m]
      OBVIOUS
    <3>4. a \in Seq(S) /\ b \in Seq(S) /\ Len(a) >= m - 1 /\ Len(b) >= 1 /\ f[m] = a \o b
      BY <2>2, <2>3, <2>5, <3>2, <3>3
    <3>5. a \o b \in Seq(S) /\ Len(a \o b) = Len(a) + Len(b) /\ Len(a) \in Nat /\ Len(b) \in Nat
      BY <3>4
    <3>6. Len(a \o b) >= m
      BY <2>2, <3>4, <3>5
    <3> QED  BY <2>2, <3>4, <3>5, <3>6
  <2> QED  BY <2>4, <2>5
<1>3. n \in 1..n /\ n \notin Bad
  BY <1>2
<1> QED
  BY <1>1, <1>3

IsFile(lines) == \E S : lines \in Seq(S) \ {<< >>}

LEMMA SetToSeqFacts ==
  ASSUME NEW S, IsFiniteSet(S)
  PROVE  SetToSeq(S) \in Seq(S)
<1>1. PICK n \in Nat : ExistsBijection(1..n, S)
  BY FS_NatBijection
<1>2. Cardinality(S) = n
  BY <1>1, FS_CountingElements
<1>3. PICK f : f \in Bijection(1..n, S)
  BY <1>1 DEF ExistsBijection
<1>4. f \in [1..n -> S] /\ IsInjective(f)
  BY <1>3 DEF Bijection, Injection
<1>5. SetToSeq(S) \in [1..n -> S]
  BY <1>2, <1>4 DEF SetToSeq
<1> QED
  BY <1>5

\* A file is not shorter after its edits, and still a file.
LEMMA EditedLonger ==
  ASSUME NEW lines, IsFile(lines), NEW edits, IsFiniteSet(edits), NEW t, t = Edited(lines, edits)
  PROVE  IsFile(t) /\ Len(lines) \in Nat /\ Len(t) \in Nat /\ Len(lines) <= Len(t)
<1>1. PICK S0 : lines \in Seq(S0) \ {<< >>}
  BY DEF IsFile
<1> DEFINE d(e) == [is |-> "directive", kind |-> e.kind, bang |-> e.bang, marks |-> e.marks]
           at(n) == {x \in edits : x.line = n}
           D == {d(e) : e \in edits}
           here(n) == {d(e) : e \in at(n)}
           before(n) == SetToSeq(here(n))
           S == S0 \cup D
<1>2. ASSUME NEW n  PROVE before(n) \in Seq(S) /\ Len(before(n)) \in Nat
  <2>1. IsFiniteSet(at(n))
    BY FS_Subset
  <2>2. PICK f : f = [e \in at(n) |-> d(e)]
    OBVIOUS
  <2>3. f \in Surjection(at(n), here(n))
    BY <2>2 DEF Surjection
  <2>4. IsFiniteSet(here(n))
    BY <2>1, <2>3, FS_Surjection
  <2>5. before(n) \in Seq(here(n))
    BY <2>4, SetToSeqFacts
  <2>6. here(n) \subseteq S
    OBVIOUS
  <2> HIDE DEF before, here, S
  <2> QED  BY <2>5, <2>6
<1>3. PICK n \in Nat : n = Len(lines) /\ n # 0 /\ DOMAIN lines = 1..n /\ \A i \in 1..n : lines[i] \in S
  BY <1>1
<1> DEFINE seqs == [i \in DOMAIN lines |-> Append(before(i), lines[i])]
<1>4. t = before(0) \o FlattenSeq(seqs)
  BY DEF Edited
<1> HIDE DEF before, S
<1>5. ASSUME NEW i \in 1..n  PROVE seqs[i] \in Seq(S) /\ Len(seqs[i]) >= 1
  <2>1. PICK b : b = before(i)
    OBVIOUS
  <2>2. b \in Seq(S) /\ Len(b) \in Nat /\ lines[i] \in S
    BY <1>2, <1>3, <2>1
  <2>3. seqs[i] = Append(b, lines[i])
    BY <1>3, <2>1
  <2>4. PICK x \in S : x = lines[i]
    BY <2>2
  <2>5. Append(b, x) \in Seq(S) /\ Len(Append(b, x)) = Len(b) + 1
    BY <2>2
  <2>6. Append(b, lines[i]) = Append(b, x)
    BY <2>4
  <2> HIDE DEF seqs
  <2> QED  BY <2>2, <2>3, <2>5, <2>6
<1>6. Len(seqs) = n
  <2>1. seqs \in [1..n -> Seq(S)]
    BY <1>3, <1>5
  <2>2. DOMAIN seqs = 1..n /\ seqs \in Seq(Seq(S))
    BY <2>1
  <2> HIDE DEF seqs
  <2> QED  BY <2>2
<1> HIDE DEF seqs
<1>7. PICK q, a : q = FlattenSeq(seqs) /\ a = before(0)
  OBVIOUS
<1>8. q \in Seq(S) /\ Len(q) >= n
  BY <1>3, <1>5, <1>6, <1>7, FlattenLong
<1>9. a \in Seq(S) /\ Len(a) \in Nat /\ t = a \o q
  BY <1>2, <1>4, <1>7
<1>10. t \in Seq(S) /\ Len(t) = Len(a) + Len(q) /\ Len(q) \in Nat
  BY <1>8, <1>9
<1>11. Len(t) >= n /\ t # << >>
  BY <1>3, <1>8, <1>9, <1>10
<1> QED
  BY <1>3, <1>10, <1>11 DEF IsFile

-----------------------------------------------------------------------------
(***************************************************************************)
(* The edits: each is for a line of its file, also after the edits queued  *)
(* for the file's other path have been saved.                              *)
(***************************************************************************)
Edit == [line : Nat, kind : {"extraction", "tc"}, bang : BOOLEAN, marks : SUBSET Marks]

Sources == files = [f \in File |-> files[f]] /\ \A f \in File : IsFile(files[f])

QueuedAt(p) ==
  /\ IsFiniteSet(rust_files[p])
  /\ \A e \in rust_files[p] : e \in Edit /\ p[1] \in File /\ e.line <= Len(files[p[1]])

Queued == rust_files = [p \in Paths |-> rust_files[p]] /\ \A p \in Paths : QueuedAt(p)

Unpromoted ==
  /\ todo = [b \in Backend |-> [t \in Test |-> todo[b][t]]]
  /\ \A b \in Backend, t \in Test : todo[b][t] \subseteq world.output[b][t]

Verdicts ==
  /\ calls \in 1..MaxCalls /\ exit \in {None, "ok", "err"}
  /\ \A s \in settled : s.backend \in Backend /\ s.test \in Test

JobsInv == Shape /\ Sources /\ Queued /\ Unpromoted /\ Verdicts

\* An edit more leaves the edits of every path as they should be.
LEMMA PushKeeps ==
  ASSUME Queued, UNCHANGED <<world, files>>, NEW path \in Paths, path[1] \in File,
         NEW line \in Nat, line <= Len(files[path[1]]),
         NEW kind \in {"extraction", "tc"}, NEW bang \in BOOLEAN, NEW mark \in Marks,
         PushLine(path, line, kind, bang, mark)
  PROVE  Queued'
<1> DEFINE old == rust_files[path]
           same == {e \in old : e.line = line /\ e.kind = kind}
           merged == [e \in same |-> [e EXCEPT !.marks = @ \cup {mark}]]
           more == {[e EXCEPT !.marks = @ \cup {mark}] : e \in same}
           one == [line |-> line, kind |-> kind, bang |-> bang, marks |-> {mark}]
           now == IF same = {} THEN old \cup {one} ELSE (old \ same) \cup more
<1>1. rust_files' = [rust_files EXCEPT ![path] = now]
  BY DEF PushLine
<1>2. /\ rust_files = [p \in Paths |-> rust_files[p]] /\ IsFiniteSet(old)
      /\ \A e \in old : e \in Edit /\ e.line <= Len(files[path[1]])
      /\ \A p \in Paths : QueuedAt(p)
  BY DEF Queued, QueuedAt
<1>3. one \in Edit /\ one.line <= Len(files[path[1]])
  BY DEF Edit
<1>4. ASSUME NEW e \in same
      PROVE  [e EXCEPT !.marks = @ \cup {mark}] \in Edit /\ [e EXCEPT !.marks = @ \cup {mark}].line = e.line
  <2>1. e \in Edit
    BY <1>2
  <2> QED  BY <2>1 DEF Edit
<1>5. IsFiniteSet(now)
  <2>1. IsFiniteSet(same) /\ IsFiniteSet(old \ same)
    BY <1>2, FS_Subset
  <2>2. merged \in Surjection(same, more)
    BY DEF Surjection
  <2>3. IsFiniteSet(more)
    BY <2>1, <2>2, FS_Surjection
  <2>4. IsFiniteSet(old \cup {one})
    BY <1>2, FS_AddElement
  <2>5. IsFiniteSet((old \ same) \cup more)
    BY <2>1, <2>3, FS_Union
  <2> QED  BY <2>4, <2>5
<1>6. \A e \in now : e \in Edit /\ e.line <= Len(files[path[1]])
  <2>1. \A e \in more : e \in Edit /\ e.line <= Len(files[path[1]])
    BY <1>2, <1>4
  <2> HIDE DEF more, one
  <2> QED  BY <1>2, <1>3, <2>1
<1> HIDE DEF now
<1>7. rust_files' = [p \in Paths |-> rust_files'[p]] /\ rust_files'[path] = now
      /\ \A p \in Paths : p # path => rust_files'[p] = rust_files[p]
  BY <1>1, <1>2
<1>8. UNCHANGED <<File, Paths, Marks, Edit>>
  BY DEF File, Paths, Marks, Edit
<1>9. ASSUME NEW p \in Paths  PROVE QueuedAt(p)'
  <2>1. CASE p = path
    BY <1>5, <1>6, <1>7, <1>8, <2>1 DEF QueuedAt
  <2>2. CASE p # path
    BY <1>2, <1>7, <1>8, <2>2 DEF QueuedAt
  <2> QED  BY <2>1, <2>2
<1> QED
  BY <1>7, <1>8, <1>9 DEF Queued

\* What is promoted is at a line of the file of the test.
LEMMA HintInFile ==
  ASSUME Sources, NEW t \in Test, NEW owner, NEW h \in SpanHint(t, owner)
  PROVE  /\ h.line \in Nat /\ h.line <= Len(files[world.file[t]]) /\ h.bang \in BOOLEAN
         /\ world.file[t] \in File
<1>1. PICK f : f = world.file[t]
  OBVIOUS
<1>2. f \in File /\ IsFile(files[f])
  BY <1>1 DEF Sources, File
<1>3. PICK S : files[f] \in Seq(S) \ {<< >>}
  BY <1>2 DEF IsFile
<1>4. Len(files[f]) \in Nat /\ Len(files[f]) >= 1 /\ DOMAIN files[f] = 1..Len(files[f])
  BY <1>3
<1>5. \/ h = [line |-> 1, bang |-> TRUE]
      \/ \E i \in DOMAIN files[f] : h = [line |-> i, bang |-> FALSE]
  BY <1>1 DEF SpanHint, Items
<1>6. h.line \in 1..Len(files[f]) /\ h.bang \in BOOLEAN
  <2>1. CASE h = [line |-> 1, bang |-> TRUE]
    BY <1>4, <2>1
  <2>2. ASSUME NEW i \in DOMAIN files[f], h = [line |-> i, bang |-> FALSE]
        PROVE  h.line \in 1..Len(files[f]) /\ h.bang \in BOOLEAN
    BY <1>4, <2>2
  <2> QED  BY <1>5, <2>1, <2>2
<1> QED
  BY <1>1, <1>2, <1>4, <1>6

LEMMA PathsOfTests ==
  ASSUME world \in World, NEW t \in Test
  PROVE  <<world.file[t], "span">> \in Paths /\ <<world.file[t], "canonical">> \in Paths
BY DEF Paths

LEMMA JobsInit ==
  ASSUME Init
  PROVE  JobsInv
<1>1. /\ world \in World /\ files = world.lines /\ calls = 1 /\ exit = None /\ settled = {}
      /\ rust_files = [p \in Paths |-> {}] /\ todo = [b \in Backend |-> [t \in Test |-> {}]]
  BY DEF Init, Memory
<1>2. Sources
  <2>1. files = [f \in File |-> files[f]]
    BY <1>1, WorldAssumption DEF File
  <2>2. ASSUME NEW f \in File  PROVE IsFile(files[f])
    <3>1. PICK t \in Test : f = world.file[t]
      BY DEF File
    <3>2. files[f] \in Seq(Range(files[f])) \ {<< >>}
      BY <1>1, <3>1, WorldAssumption
    <3> QED  BY <3>2 DEF IsFile
  <2> QED  BY <2>1, <2>2 DEF Sources
<1>3. Queued
  <2>1. \A p \in Paths : rust_files[p] = {} /\ IsFiniteSet(rust_files[p])
    BY <1>1, FS_EmptySet
  <2> QED  BY <1>1, <2>1 DEF Queued, QueuedAt
<1>4. Unpromoted
  BY <1>1 DEF Unpromoted
<1>5. Verdicts
  BY <1>1, DriverAssumption DEF Verdicts
<1> QED
  BY <1>2, <1>3, <1>4, <1>5, ShapeInit DEF JobsInv

LEMMA VerdictsStep ==
  ASSUME Shape, Verdicts, [Next]_vars
  PROVE  Verdicts'
<1>1. CASE UNCHANGED <<calls, exit, settled>>
  BY <1>1 DEF Verdicts
<1>2. CASE CallAgain
  BY <1>2, DriverAssumption DEF CallAgain, Verdicts
<1>3. CASE JoinBackends
  <2>1. ASSUME NEW s \in settled'  PROVE s.backend \in Backend /\ s.test \in Test
    <3>1. \E b \in Backend, t \in Test : s = [backend |-> b, test |-> t, missing |-> outcome[b][t].missing]
      <4> DEFINE Q == {q \in Backend \X Test : Promote /\ outcome[q[1]][q[2]] # None /\ todo[q[1]][q[2]] = {}
                         /\ \E k \in {"span", "canonical"} : rust_files[<<world.file[q[2]], k>>] = {}}
      <4>1. settled' = {[backend |-> p[1], test |-> p[2], missing |-> outcome[p[1]][p[2]].missing] : p \in Q}
        BY <1>3 DEF JoinBackends
      <4>2. PICK p \in Q : s = [backend |-> p[1], test |-> p[2], missing |-> outcome[p[1]][p[2]].missing]
        BY <2>1, <4>1
      <4>3. p[1] \in Backend /\ p[2] \in Test
        OBVIOUS
      <4> QED  BY <4>2, <4>3
    <3> QED  BY <3>1
  <2>2. UNCHANGED <<calls, exit>>
    BY <1>3 DEF JoinBackends
  <2> QED  BY <2>1, <2>2 DEF Verdicts
<1>4. CASE ResolveFails \/ SaveFails \/ Exit \/ Interrupt
  <2>1. calls' = calls /\ exit' \in {"ok", "err"} /\ (settled' = {} \/ settled' = settled)
    BY <1>4 DEF ResolveFails, SaveFails, Exit, Interrupt, ProcessEnds
  <2> QED  BY <2>1 DEF Verdicts
<1>5. CASE ResolveTests \/ (\E p \in Paths : SaveFile(p))
  BY <1>1, <1>5 DEF ResolveTests, SaveFile
<1>6. ASSUME NEW b \in Backend, BackendStep(b)  PROVE UNCHANGED <<calls, exit, settled>>
  BY <1>6 DEF BackendStep, SpawnBackend, StartSerialize, CreateHaxmeta, EndSerialize, SerializeFails, RenameHaxmeta, JoinTests
<1>7. ASSUME NEW b \in Backend, NEW t \in Test, TestStep(b, t)  PROVE UNCHANGED <<calls, exit, settled>>
  BY <1>7 DEF TestStep, StartTest, EngineEnds, EngineFails, ReportResults, MoveToSnapshots, RunVerification, PromoteDiagnostic
<1>8. CASE UNCHANGED vars
  BY <1>1, <1>8 DEF vars
<1> QED
  BY <1>1, <1>2, <1>3, <1>4, <1>5, <1>6, <1>7, <1>8 DEF Next, MainStep, Over

\* Nothing happens to what is queued, or it is emptied, but when something is pushed or saved.
LEMMA QueuedStays ==
  ASSUME Sources, Queued, UNCHANGED <<world, files>>, rust_files' = rust_files \/ rust_files' = [p \in Paths |-> {}]
  PROVE  Sources' /\ Queued'
<1>1. UNCHANGED <<File, Paths, Marks, Edit>>
  BY DEF File, Paths, Marks, Edit
<1>2. Sources'
  BY <1>1 DEF Sources
<1>3. rust_files = [p \in Paths |-> rust_files[p]] /\ \A p \in Paths : QueuedAt(p)
  BY DEF Queued
<1>4. rust_files' = [p \in Paths |-> rust_files'[p]]
  BY <1>3
<1>5. ASSUME NEW p \in Paths  PROVE QueuedAt(p)'
  <2>1. CASE rust_files'[p] = rust_files[p]
    BY <1>1, <1>3, <2>1 DEF QueuedAt
  <2>2. CASE rust_files'[p] = {}
    BY <2>2, FS_EmptySet DEF QueuedAt
  <2> QED  BY <1>3, <2>1, <2>2
<1> QED  BY <1>1, <1>2, <1>4, <1>5 DEF Queued

LEMMA SaveKeeps ==
  ASSUME Sources, Queued, NEW p \in Paths, SaveFile(p)
  PROVE  Sources' /\ Queued'
<1>1. PICK f, edits, new : f = p[1] /\ edits = rust_files[p] /\ new = Edited(files[f], edits)
  OBVIOUS
<1>2. /\ edits # {} /\ files' = [files EXCEPT ![f] = new] /\ rust_files' = [rust_files EXCEPT ![p] = {}]
      /\ world' = world
  BY <1>1 DEF SaveFile
<1>3. UNCHANGED <<File, Paths, Marks, Edit>>
  BY <1>2 DEF File, Paths, Marks, Edit
<1>4. QueuedAt(p) /\ rust_files = [q \in Paths |-> rust_files[q]] /\ \A q \in Paths : QueuedAt(q)
  BY DEF Queued
<1>5. f \in File /\ IsFiniteSet(edits)
  BY <1>1, <1>2, <1>4 DEF QueuedAt
<1>6. files = [g \in File |-> files[g]] /\ \A g \in File : IsFile(files[g])
  BY DEF Sources
<1>7. IsFile(new) /\ Len(files[f]) \in Nat /\ Len(new) \in Nat /\ Len(files[f]) <= Len(new)
  BY <1>1, <1>5, <1>6, EditedLonger
<1>8. files' = [g \in File |-> files'[g]] /\ files'[f] = new /\ \A g \in File : g # f => files'[g] = files[g]
  BY <1>2, <1>5, <1>6
<1>9. Sources'
  BY <1>3, <1>6, <1>7, <1>8 DEF Sources
<1>10. rust_files' = [q \in Paths |-> rust_files'[q]] /\ rust_files'[p] = {}
       /\ \A q \in Paths : q # p => rust_files'[q] = rust_files[q]
  BY <1>2, <1>4
<1>11. ASSUME NEW q \in Paths  PROVE QueuedAt(q)'
  <2>1. CASE q = p
    BY <1>10, <2>1, FS_EmptySet DEF QueuedAt
  <2>2. CASE q # p
    <3>1. IsFiniteSet(rust_files[q]) /\ \A e \in rust_files[q] : e \in Edit /\ q[1] \in File /\ e.line <= Len(files[q[1]])
      BY <1>4 DEF QueuedAt
    <3>2. ASSUME NEW e \in rust_files[q]  PROVE e.line <= Len(files'[q[1]])
      <4>1. e \in Edit /\ q[1] \in File /\ e.line <= Len(files[q[1]])
        BY <3>1
      <4>2. e.line \in Nat
        BY <4>1 DEF Edit
      <4>3. CASE q[1] = f
        BY <1>7, <1>8, <4>1, <4>2, <4>3
      <4>4. CASE q[1] # f
        BY <1>8, <4>1, <4>4
      <4> QED  BY <4>3, <4>4
    <3> QED  BY <1>3, <1>10, <2>2, <3>1, <3>2 DEF QueuedAt
  <2> QED  BY <2>1, <2>2
<1> QED
  BY <1>3, <1>9, <1>10, <1>11 DEF Queued

LEMMA TodoKept ==
  ASSUME Unpromoted, UNCHANGED world, UNCHANGED todo
  PROVE  Unpromoted'
BY DEF Unpromoted

LEMMA TodoOf ==
  ASSUME Unpromoted, UNCHANGED world, NEW b \in Backend, NEW t \in Test,
         NEW D \in SUBSET world.output[b][t], todo' = [todo EXCEPT ![b][t] = D]
  PROVE  Unpromoted'
<1>1. /\ todo' = [c \in Backend |-> [u \in Test |-> todo'[c][u]]]
      /\ \A c \in Backend, u \in Test : todo'[c][u] = IF c = b /\ u = t THEN D ELSE todo[c][u]
  BY DEF Unpromoted
<1> QED
  BY <1>1 DEF Unpromoted

LEMMA EndKeeps ==
  ASSUME Sources, Queued, Unpromoted, NEW status \in {"ok", "err"}, ProcessEnds(status)
  PROVE  Sources' /\ Queued' /\ Unpromoted'
<1>1. /\ UNCHANGED <<world, files>>
      /\ rust_files' = [p \in Paths |-> {}] /\ todo' = [b \in Backend |-> [t \in Test |-> {}]]
  BY DEF ProcessEnds, Memory
<1>2. Unpromoted'
  BY <1>1 DEF Unpromoted
<1> QED
  BY <1>1, <1>2, QueuedStays

\* The engine's answer is queued, each of its diagnostics is then promoted or skipped.
LEMMA AnswerKeeps ==
  ASSUME Sources, Queued, Unpromoted, NEW b \in Backend, NEW t \in Test, EngineEnds(b, t)
  PROVE  Sources' /\ Queued' /\ Unpromoted'
<1>1. UNCHANGED <<world, files, rust_files>>
  BY DEF EngineEnds
<1>2. PICK D \in SUBSET world.output[b][t] : todo' = [todo EXCEPT ![b][t] = D]
  <2>1. PICK m \in Matchings(ExpectedDiagnostics(b, t, "extraction"), world.output[b][t]) :
          todo' = [todo EXCEPT ![b][t] = IF Promote THEN world.output[b][t] \ {p[2] : p \in m} ELSE {}]
    BY DEF EngineEnds
  <2> QED  BY <2>1
<1> QED
  BY <1>1, <1>2, QueuedStays, TodoOf

LEMMA PromotionKeeps ==
  ASSUME Shape, Sources, Queued, Unpromoted, NEW b \in Backend, NEW t \in Test, NEW d, PromoteDiagnostic(b, t, d)
  PROVE  Sources' /\ Queued' /\ Unpromoted'
<1>1. /\ UNCHANGED <<world, files>> /\ d \in todo[b][t]
      /\ todo' = [todo EXCEPT ![b][t] = todo[b][t] \ {d}]
  BY DEF PromoteDiagnostic
<1>2. todo[b][t] \subseteq world.output[b][t] /\ world \in World
  BY DEF Unpromoted, Shape
<1>3. Unpromoted'
  BY <1>1, <1>2, TodoOf
<1>4. PICK mark : mark = [backend |-> b, test |-> t, diag |-> d]
  OBVIOUS
<1>5. mark \in Marks
  <2> DEFINE D == UNION {w.output[c][u] : w \in World, c \in Backend, u \in Test}
  <2>1. world.output[b][t] \in {w.output[c][u] : w \in World, c \in Backend, u \in Test}
    BY <1>2
  <2>2. d \in D
    BY <1>1, <1>2, <2>1
  <2>3. {[backend |-> c, test |-> u, diag |-> e] : c \in Backend, u \in Test, e \in D} \subseteq Marks
    BY DEF Marks
  <2> HIDE DEF D
  <2> QED  BY <1>4, <2>2, <2>3
<1>6. CASE UNCHANGED rust_files
  BY <1>1, <1>3, <1>6, QueuedStays
<1>7. ASSUME NEW h \in SpanHint(t, d.owner), PushLine(<<world.file[t], "span">>, h.line, "extraction", h.bang, mark)
      PROVE  Queued'
  <2>1. PICK path \in Paths : path = <<world.file[t], "span">>
    BY <1>2, PathsOfTests
  <2>2. h.line \in Nat /\ h.line <= Len(files[path[1]]) /\ h.bang \in BOOLEAN /\ path[1] \in File
    BY <2>1, HintInFile
  <2> QED  BY <1>1, <1>5, <1>7, <2>1, <2>2, PushKeeps
<1>8. Sources'
  BY <1>1 DEF Sources, File
<1>9. \/ UNCHANGED rust_files
      \/ \E h \in SpanHint(t, d.owner) : PushLine(<<world.file[t], "span">>, h.line, "extraction", h.bang, mark)
  BY <1>4 DEF PromoteDiagnostic
<1> QED
  BY <1>3, <1>6, <1>7, <1>8, <1>9

LEMMA VerificationKeeps ==
  ASSUME Shape, Sources, Queued, Unpromoted, NEW b \in Backend, NEW t \in Test, RunVerification(b, t)
  PROVE  Sources' /\ Queued' /\ Unpromoted'
<1>1. UNCHANGED <<world, files, todo>> /\ world \in World
  BY DEF RunVerification, Shape
<1>2. Unpromoted'
  BY <1>1, TodoKept
<1>3. PICK mark : mark = [backend |-> b, test |-> t, diag |-> [owner |-> "mod", code |-> "exit"]]
  OBVIOUS
<1>4. mark \in Marks
  BY <1>3 DEF Marks
<1>5. CASE UNCHANGED rust_files
  BY <1>1, <1>2, <1>5, QueuedStays
<1>6. CASE PushLine(<<world.file[t], "canonical">>, 0, "tc", TRUE, mark)
  <2>1. PICK path \in Paths : path = <<world.file[t], "canonical">>
    BY <1>1, PathsOfTests
  <2>2. path[1] \in File /\ IsFile(files[path[1]])
    BY <2>1 DEF Sources, File
  <2>3. Len(files[path[1]]) \in Nat /\ 0 <= Len(files[path[1]])
    BY <2>2 DEF IsFile
  <2>4. Queued'
    BY <1>1, <1>4, <1>6, <2>1, <2>2, <2>3, PushKeeps
  <2>5. Sources'
    BY <1>1 DEF Sources, File
  <2> QED  BY <1>2, <2>4, <2>5
<1>7. UNCHANGED rust_files \/ PushLine(<<world.file[t], "canonical">>, 0, "tc", TRUE, mark)
  BY <1>3 DEF RunVerification
<1> QED
  BY <1>5, <1>6, <1>7

LEMMA JobsStep ==
  ASSUME JobsInv, [Next]_vars
  PROVE  JobsInv'
<1>1. Shape /\ Sources /\ Queued /\ Unpromoted /\ Verdicts
  BY DEF JobsInv
<1>2. Shape' /\ Verdicts'
  BY <1>1, ShapeStep, VerdictsStep
<1>3. ASSUME UNCHANGED <<world, files, rust_files, todo>>  PROVE Sources' /\ Queued' /\ Unpromoted'
  <2>1. UNCHANGED <<world, files>> /\ UNCHANGED world /\ UNCHANGED todo /\ rust_files' = rust_files
    BY <1>3
  <2>2. Sources' /\ Queued'
    BY <1>1, <2>1, QueuedStays
  <2>3. Unpromoted'
    BY <1>1, <2>1, TodoKept
  <2> QED  BY <2>2, <2>3
<1>4. ASSUME NEW p \in Paths, SaveFile(p)  PROVE Sources' /\ Queued' /\ Unpromoted'
  <2>1. UNCHANGED <<world, todo>>
    BY <1>4 DEF SaveFile
  <2> QED  BY <1>1, <1>4, <2>1, SaveKeeps, TodoKept
<1>5. ASSUME ResolveTests \/ JoinBackends \/ CallAgain  PROVE Sources' /\ Queued' /\ Unpromoted'
  BY <1>3, <1>5 DEF ResolveTests, JoinBackends, CallAgain
<1>6. ASSUME NEW status \in {"ok", "err"}, ProcessEnds(status)  PROVE Sources' /\ Queued' /\ Unpromoted'
  BY <1>1, <1>6, EndKeeps
<1>7. ASSUME NEW b \in Backend, BackendStep(b)  PROVE Sources' /\ Queued' /\ Unpromoted'
  BY <1>3, <1>7 DEF BackendStep, SpawnBackend, StartSerialize, CreateHaxmeta, EndSerialize, SerializeFails,
                    RenameHaxmeta, JoinTests
<1>8. ASSUME NEW b \in Backend, NEW t \in Test, TestStep(b, t)  PROVE Sources' /\ Queued' /\ Unpromoted'
  <2>1. CASE StartTest(b, t) \/ EngineFails(b, t) \/ ReportResults(b, t) \/ MoveToSnapshots(b, t)
    BY <1>3, <2>1 DEF StartTest, EngineFails, ReportResults, MoveToSnapshots
  <2> QED  BY <1>1, <1>8, <2>1, AnswerKeeps, PromotionKeeps, VerificationKeeps DEF TestStep
<1>9. ASSUME UNCHANGED vars  PROVE Sources' /\ Queued' /\ Unpromoted'
  BY <1>3, <1>9 DEF vars
<1> QED
  BY <1>2, <1>4, <1>5, <1>6, <1>7, <1>8, <1>9, Steps DEF JobsInv

THEOREM JobsInvariance == Spec => []JobsInv
<1> QED
  BY JobsInit, JobsStep, PTL DEF Spec

LEMMA JobsTyped ==
  ASSUME JobsInv
  PROVE  TypeOK
<1>1. Shape /\ Sources /\ Queued /\ Verdicts
  BY DEF JobsInv
<1>2. slot = None \/ (slot.by \in Backend \cup {None} /\ slot.whole \in BOOLEAN)
  BY <1>1 DEF Shape, Shapes, Haxmeta
<1>3. \A b \in Backend : \A t \in Test : test[b][t] \in TestState
  BY <1>1 DEF Shape, Shapes
<1>4. ASSUME NEW p \in DOMAIN rust_files, NEW e \in rust_files[p]
      PROVE  e.line \in 0..Len(files[p[1]]) /\ e.kind \in {"extraction", "tc"} /\ e.marks \subseteq Marks
  <2>1. e \in Edit /\ p[1] \in File /\ e.line <= Len(files[p[1]])
    BY <1>1, <1>4 DEF Queued, QueuedAt
  <2>2. Len(files[p[1]]) \in Nat
    BY <1>1, <2>1 DEF Sources, IsFile
  <2>3. e.line \in Nat /\ e.kind \in {"extraction", "tc"} /\ e.marks \subseteq Marks
    BY <2>1 DEF Edit
  <2> QED  BY <2>1, <2>2, <2>3
<1>5. world \in World /\ main \in {"resolving", "running", "saving", "exited"}
  BY <1>1 DEF Shape, Shapes
<1> QED
  BY <1>1, <1>2, <1>3, <1>4, <1>5 DEF TypeOK, TestState, Verdicts

(***************************************************************************)
(* JobsOK: every variable keeps its type, the edits queued by              *)
(* promote_directives stay at lines of their files although files grow     *)
(* between them, the progress bar does not overflow (log.rs) and a test    *)
(* verifies what it extracted in this call.                                *)
(***************************************************************************)
THEOREM JobsAreOK == Spec => []JobsOK
<1>1. JobsInv /\ CompletedWithinTotal /\ VerifiesOwnOutput => JobsOK
  BY JobsTyped DEF JobsOK
<1> QED
  BY <1>1, JobsInvariance, BarNeverOverflows, VerifiesOwn, PTL

(***************************************************************************)
(* Concatenations.  Where the elements of the sequences are in the         *)
(* concatenation of them; the offsets exist because no least number of     *)
(* sequences is without.                                                   *)
(***************************************************************************)
\* Where the sequences of seqs are in their concatenation.
Offsets(seqs, n, off) == off \in [0..n -> Nat] /\ off[0] = 0 /\ \A i \in 1..n : off[i] = off[i - 1] + Len(seqs[i])

JoinedAt(S, seqs, n, flat, off) ==
  /\ Offsets(seqs, n, off) /\ flat \in Seq(S) /\ Len(flat) = off[n]
  /\ \A i \in 1..n : \A j \in 1..Len(seqs[i]) : flat[off[i - 1] + j] = seqs[i][j]

LEMMA FlattenLayout ==
  ASSUME NEW S, NEW seqs, NEW n \in Nat, Len(seqs) = n, n # 0, \A i \in 1..n : seqs[i] \in Seq(S),
         NEW flat, flat = FlattenSeq(seqs)
  PROVE  \E off : JoinedAt(S, seqs, n, flat, off)
<1>1. PICK f : Flat(seqs, n, f) /\ FlattenSeq(seqs) = f[n]
  BY FlattenIs
<1>2. PICK off : off = [i \in 0..n |-> IF i = 0 THEN 0 ELSE Len(f[i])]
  OBVIOUS
<1> DEFINE Good(m) == /\ f[m] \in Seq(S) /\ off[m] = off[m - 1] + Len(seqs[m]) /\ off[m - 1] \in Nat
                      /\ \A i \in 1..m : \A j \in 1..Len(seqs[i]) :
                           /\ off[i - 1] \in Nat /\ off[i - 1] + j <= Len(f[m])
                           /\ f[m][off[i - 1] + j] = seqs[i][j]
           Bad == {m \in 1..n : ~Good(m)}
<1> HIDE DEF Good
<1>3. ASSUME Bad # {}  PROVE FALSE
  <2>1. PICK m \in Bad : \A k \in Bad : m <= k
    <3>1. Bad \subseteq Nat
      OBVIOUS
    <3> HIDE DEF Bad
    <3> QED  BY <1>3, <3>1, LeastNumber
  <2>2. m \in 1..n /\ ~Good(m)
    BY <2>1
  <2>3. f[m] = IF m = 1 THEN seqs[m] ELSE f[m - 1] \o seqs[m]
    BY <1>1, <2>2 DEF Flat
  <2>4. CASE m = 1
    <3> USE DEF Good
    <3>1. PICK b : b = seqs[1]
      OBVIOUS
    <3>2. b \in Seq(S) /\ Len(b) \in Nat /\ f[1] = b /\ off[0] = 0 /\ off[1] = Len(b)
      BY <1>2, <2>2, <2>3, <2>4, <3>1
    <3>3. Good(1)
      BY <3>1, <3>2
    <3> QED  BY <2>2, <2>4, <3>3
  <2>5. CASE m # 1
    <3>1. m - 1 \in 1..n /\ m - 1 \notin Bad
      BY <2>1, <2>2, <2>5
    <3>2. Good(m - 1)
      BY <3>1
    <3> HIDE DEF Bad
    <3> USE DEF Good
    <3>3. PICK a, b, c : a = f[m - 1] /\ b = seqs[m] /\ c = f[m]
      OBVIOUS
    <3>4. a \in Seq(S) /\ b \in Seq(S) /\ c = a \o b
      BY <2>2, <2>3, <2>5, <3>2, <3>3
    <3>5. /\ c \in Seq(S) /\ Len(c) = Len(a) + Len(b) /\ Len(a) \in Nat /\ Len(b) \in Nat
          /\ \A k \in 1..Len(a) : c[k] = a[k]
          /\ \A k \in 1..Len(b) : c[Len(a) + k] = b[k]
      BY <3>4
    <3>6. off[m - 1] = Len(a) /\ off[m] = Len(c)
      <4> HIDE DEF Good
      <4>1. m \in 0..n /\ m - 1 \in 0..n /\ m # 0 /\ m - 1 # 0
        BY <2>2, <2>5
      <4> QED  BY <1>2, <3>3, <4>1
    <3>7. ASSUME NEW i \in 1..m, NEW j \in 1..Len(seqs[i])
          PROVE  off[i - 1] \in Nat /\ off[i - 1] + j <= Len(c) /\ c[off[i - 1] + j] = seqs[i][j]
      <4>1. CASE i = m
        <5>1. j \in 1..Len(b) /\ seqs[i][j] = b[j] /\ off[i - 1] = Len(a)
          BY <3>3, <3>6, <4>1
        <5>2. c[Len(a) + j] = b[j] /\ Len(a) \in Nat /\ Len(a) + j <= Len(c)
          BY <3>5, <5>1
        <5> HIDE DEF Good
        <5> QED  BY <5>1, <5>2
      <4>2. CASE i # m
        <5>1. i \in 1..(m - 1)
          BY <2>2, <4>2
        <5>2. seqs[i] \in Seq(S) /\ j \in Nat /\ j >= 1
          BY <2>2, <5>1
        <5>3. off[i - 1] \in Nat /\ off[i - 1] + j <= Len(a) /\ a[off[i - 1] + j] = seqs[i][j]
          BY <3>2, <3>3, <5>1
        <5> HIDE DEF Good
        <5>4. PICK x \in Nat, l \in Nat, y \in Nat : x = off[i - 1] /\ l = Len(a) /\ y = Len(b) /\ Len(c) = l + y
          BY <3>5, <5>3
        <5>5. x + j <= l
          BY <5>3, <5>4
        <5>6. x + j \in 1..l /\ x + j <= l + y
          BY <5>2, <5>5
        <5>7. c[x + j] = a[x + j]
          BY <3>5, <5>4, <5>6
        <5> QED  BY <5>3, <5>4, <5>6, <5>7
      <4> QED  BY <4>1, <4>2
    <3>8. Good(m)
      BY <3>3, <3>5, <3>6, <3>7
    <3> QED  BY <2>2, <3>8
  <2> QED  BY <2>4, <2>5
<1>4. \A m \in 1..n : Good(m)
  BY <1>3
<1>5. Offsets(seqs, n, off)
  <2>1. off[0] = 0
    BY <1>2
  <2>2. ASSUME NEW i \in 1..n
        PROVE  off[i] = off[i - 1] + Len(seqs[i]) /\ off[i] = Len(f[i]) /\ f[i] \in Seq(S)
    <3>1. off[i] = Len(f[i])
      BY <1>2
    <3>2. f[i] \in Seq(S) /\ off[i] = off[i - 1] + Len(seqs[i])
      BY <1>4 DEF Good
    <3> QED  BY <3>1, <3>2
  <2>3. ASSUME NEW i \in 1..n  PROVE off[i] \in Nat
    <3>1. PICK g : g = f[i]
      OBVIOUS
    <3>2. g \in Seq(S) /\ off[i] = Len(g)
      BY <2>2, <3>1
    <3> QED  BY <3>2
  <2>4. off \in [0..n -> Nat]
    BY <1>2, <2>1, <2>3
  <2> QED  BY <2>1, <2>2, <2>4 DEF Offsets
<1>6. n \in 1..n /\ off[n] = Len(f[n])
  BY <1>2
<1>7. f[n] \in Seq(S) /\ \A i \in 1..n : \A j \in 1..Len(seqs[i]) : f[n][off[i - 1] + j] = seqs[i][j]
  BY <1>4, <1>6 DEF Good
<1>8. flat = f[n]
  BY <1>1
<1>9. flat \in Seq(S) /\ Len(flat) = off[n]
  BY <1>6, <1>7, <1>8
<1>10. \A i \in 1..n : \A j \in 1..Len(seqs[i]) : flat[off[i - 1] + j] = seqs[i][j]
  BY <1>7, <1>8
<1>11. JoinedAt(S, seqs, n, flat, off)
  BY <1>5, <1>9, <1>10 DEF JoinedAt
<1> QED  BY <1>11

\* The offsets grow, and each place of the concatenation is in one of the sequences.
LEMMA OffsetsCover ==
  ASSUME NEW n \in Nat, NEW seqs, NEW off, Offsets(seqs, n, off), \A i \in 1..n : Len(seqs[i]) \in Nat
  PROVE  /\ \A i, j \in 0..n : i <= j => off[i] <= off[j]
         /\ \A k \in 1..off[n] : \E i \in 1..n : \E j \in 1..Len(seqs[i]) : k = off[i - 1] + j
<1>1. off \in [0..n -> Nat] /\ off[0] = 0 /\ \A i \in 1..n : off[i] = off[i - 1] + Len(seqs[i])
  BY DEF Offsets
<1>2. ASSUME NEW i \in 0..n, NEW j \in 0..n, i <= j  PROVE off[i] <= off[j]
  <2> DEFINE Bad == {k \in i..n : ~(off[i] <= off[k])}
  <2>1. ASSUME Bad # {}  PROVE FALSE
    <3>1. PICK m \in Bad : \A k \in Bad : m <= k
      <4>1. Bad \subseteq Nat
        OBVIOUS
      <4> HIDE DEF Bad
      <4> QED  BY <2>1, <4>1, LeastNumber
    <3>2. m \in i..n /\ ~(off[i] <= off[m])
      BY <3>1
    <3>3. m # i
      BY <1>1, <3>2
    <3>4. m - 1 \in i..n /\ m - 1 \notin Bad /\ m \in 1..n
      BY <3>1, <3>2, <3>3
    <3>5. off[i] <= off[m - 1] /\ off[m] = off[m - 1] + Len(seqs[m]) /\ Len(seqs[m]) \in Nat
      BY <1>1, <3>4
    <3>6. off[i] \in Nat /\ off[m - 1] \in Nat
      BY <1>1, <3>4
    <3> QED  BY <3>2, <3>5, <3>6
  <2> QED  BY <1>2, <2>1
<1>3. ASSUME NEW k \in 1..off[n]  PROVE \E i \in 1..n : \E j \in 1..Len(seqs[i]) : k = off[i - 1] + j
  <2>1. off[n] \in Nat /\ n # 0 /\ n \in 1..n
    <3>1. off[n] \in Nat /\ off[n] # 0
      BY <1>1
    <3> QED  BY <1>1, <3>1
  <2> DEFINE Far == {i \in 1..n : k <= off[i]}
  <2>2. PICK i \in Far : \A j \in Far : i <= j
    <3>1. Far \subseteq Nat /\ n \in Far
      BY <2>1
    <3> HIDE DEF Far
    <3> QED  BY <3>1, LeastNumber
  <2>3. i \in 1..n /\ k <= off[i] /\ off[i] = off[i - 1] + Len(seqs[i]) /\ Len(seqs[i]) \in Nat /\ off[i - 1] \in Nat
    BY <1>1, <2>2
  <2>4. off[i - 1] < k
    <3>1. CASE i = 1
      BY <1>1, <3>1
    <3>2. CASE i # 1
      <4>1. i - 1 \in 1..n /\ i - 1 \notin Far
        BY <2>2, <2>3, <3>2
      <4> QED  BY <2>3, <4>1
    <3> QED  BY <3>1, <3>2
  <2>5. k - off[i - 1] \in 1..Len(seqs[i]) /\ k = off[i - 1] + (k - off[i - 1])
    BY <2>3, <2>4
  <2> QED  BY <2>3, <2>5
<1> QED  BY <1>2, <1>3

\* Each element once.
LEMMA SetToSeqCovers ==
  ASSUME NEW S, IsFiniteSet(S), NEW q, q = SetToSeq(S)
  PROVE  /\ q \in Seq(S)
         /\ \A i, j \in 1..Len(q) : q[i] = q[j] => i = j
         /\ \A x \in S : \E i \in 1..Len(q) : q[i] = x
<1>1. PICK n \in Nat : n = Cardinality(S) /\ ExistsBijection(1..n, S)
  BY FS_CardinalityType
<1>2. PICK f : f \in [1..n -> S] /\ IsInjective(f)
  BY <1>1 DEF ExistsBijection, Bijection, Injection
<1>3. q \in [1..n -> S] /\ IsInjective(q)
  BY <1>1, <1>2 DEF SetToSeq
<1>4. Len(q) = n /\ DOMAIN q = 1..n
  BY <1>3
<1>5. q \in Injection(1..n, S) /\ IsFiniteSet(1..n) /\ Cardinality(1..n) = n
  BY <1>3, FS_Interval DEF Injection
<1>6. q \in Surjection(1..n, S)
  BY <1>1, <1>5, FS_Injection
<1>7. \A x \in S : \E i \in 1..n : q[i] = x
  BY <1>6 DEF Surjection
<1> QED  BY <1>3, <1>4, <1>7 DEF IsInjective

(***************************************************************************)
(* An edited file: where the old lines are and where the new directives.   *)
(***************************************************************************)
Directive(e) == [is |-> "directive", kind |-> e.kind, bang |-> e.bang, marks |-> e.marks]
Inserted(edits, n) == SetToSeq({Directive(e) : e \in {x \in edits : x.line = n}})

\* No two edits for one line are of one kind.
Distinct(edits) == \A d, e \in edits : d.line = e.line /\ d.kind = e.kind => d = e

\* pos[i] is where line i is after the edits, pl[e] where the directive of e is.
Layout(lines, edits, t, pos, pl) ==
  /\ pos \in [1..Len(lines) -> 1..Len(t)] /\ pl \in [edits -> 1..Len(t)]
  /\ \A i \in 1..Len(lines) : t[pos[i]] = lines[i]
  /\ \A e \in edits : t[pl[e]] = Directive(e)
  /\ \A i, j \in 1..Len(lines) : i < j => pos[i] < pos[j]
  /\ \A e \in edits, i \in 1..Len(lines) : IF e.line <= i THEN pl[e] < pos[i] ELSE pos[i] < pl[e]
  /\ \A d, e \in edits : pl[d] = pl[e] => d = e
  /\ \A k \in 1..Len(t) : (\E i \in 1..Len(lines) : k = pos[i]) \/ (\E e \in edits : k = pl[e])

\* What is inserted before a line: the directive of each edit for it, once.
HasDirectives(edits, n, q) ==
  /\ \A i \in 1..Len(q) : \E e \in edits : e.line = n /\ q[i] = Directive(e)
  /\ \A e \in edits : e.line = n => \E i \in 1..Len(q) : q[i] = Directive(e)
  /\ \A i, j \in 1..Len(q) : \A e \in edits : q[i] = Directive(e) /\ q[j] = Directive(e) => i = j

\* The directives of the edits for a line are distinct, so that none is lost.
LEMMA InsertedFacts ==
  ASSUME NEW edits, IsFiniteSet(edits), Distinct(edits), NEW n, NEW q, q = Inserted(edits, n)
  PROVE  q \in Seq({Directive(e) : e \in edits}) /\ HasDirectives(edits, n, q)
<1> DEFINE at == {x \in edits : x.line = n}
           here == {Directive(e) : e \in at}
<1>1. PICK f : f = [e \in at |-> Directive(e)]
  OBVIOUS
<1>2. f \in Surjection(at, here)
  BY <1>1 DEF Surjection
<1>3. IsFiniteSet(here)
  BY <1>2, FS_Subset, FS_Surjection
<1>4. q = SetToSeq(here)
  BY DEF Inserted
<1> HIDE DEF here
<1>5. /\ q \in Seq(here)
      /\ \A i, j \in 1..Len(q) : q[i] = q[j] => i = j
      /\ \A x \in here : \E i \in 1..Len(q) : q[i] = x
  BY <1>3, <1>4, SetToSeqCovers
<1>6. \A i \in 1..Len(q) : q[i] \in here
  BY <1>5
<1>7. here \subseteq {Directive(e) : e \in edits}
  BY DEF here
<1>8. q \in Seq({Directive(e) : e \in edits})
  BY <1>5, <1>7
<1>9. \A i \in 1..Len(q) : \E e \in edits : e.line = n /\ q[i] = Directive(e)
  BY <1>6 DEF here
<1>10. \A e \in edits : e.line = n => \E i \in 1..Len(q) : q[i] = Directive(e)
  BY <1>5 DEF here
<1> QED  BY <1>5, <1>8, <1>9, <1>10 DEF HasDirectives

\* Each line and each directive has its place in the edited file, and no place is for two.
LEMMA EditedLayout ==
  ASSUME NEW S0, NEW lines \in Seq(S0), lines # << >>, NEW edits, IsFiniteSet(edits), Distinct(edits),
         \A e \in edits : e.line \in 0..Len(lines),
         NEW t, t = Edited(lines, edits)
  PROVE  \E pos, pl : Layout(lines, edits, t, pos, pl)
<1> DEFINE D == {Directive(e) : e \in edits}
           S == S0 \cup D
           before(n) == Inserted(edits, n)
           seqs == [i \in DOMAIN lines |-> Append(before(i), lines[i])]
<1>1. PICK n \in Nat : n = Len(lines) /\ n # 0 /\ DOMAIN lines = 1..n /\ \A i \in 1..n : lines[i] \in S
  OBVIOUS
<1>2. ASSUME NEW i  PROVE before(i) \in Seq(S) /\ Len(before(i)) \in Nat
  <2>1. PICK q : q = before(i)
    OBVIOUS
  <2>2. q \in Seq(D)
    BY <2>1, InsertedFacts
  <2>3. D \subseteq S
    OBVIOUS
  <2> HIDE DEF D, S, before
  <2> QED  BY <2>1, <2>2, <2>3
<1>3. t = before(0) \o FlattenSeq(seqs)
  BY DEF Edited, Inserted, Directive
<1> HIDE DEF D, S
<1>4. ASSUME NEW i \in 1..n
      PROVE  /\ seqs[i] \in Seq(S) /\ Len(seqs[i]) = Len(before(i)) + 1
             /\ seqs[i][Len(before(i)) + 1] = lines[i]
             /\ \A j \in 1..Len(before(i)) : seqs[i][j] = before(i)[j]
  <2>1. PICK b, x : b = before(i) /\ x = lines[i]
    OBVIOUS
  <2>2. b \in Seq(S) /\ Len(b) \in Nat /\ x \in S
    BY <1>1, <1>2, <2>1
  <2>3. seqs[i] = Append(b, x)
    BY <1>1, <2>1
  <2> HIDE DEF seqs, before
  <2>4. Append(b, x) \in Seq(S) /\ Len(Append(b, x)) = Len(b) + 1 /\ Append(b, x)[Len(b) + 1] = x
        /\ \A j \in 1..Len(b) : Append(b, x)[j] = b[j]
    BY <2>2
  <2> QED  BY <2>1, <2>3, <2>4
<1>5. Len(seqs) = n
  <2>1. seqs \in [1..n -> Seq(S)]
    BY <1>1, <1>4
  <2>2. DOMAIN seqs = 1..n /\ seqs \in Seq(Seq(S))
    BY <2>1
  <2> HIDE DEF seqs
  <2> QED  BY <2>2
<1> HIDE DEF seqs
<1>6. PICK a, flat : a = before(0) /\ flat = FlattenSeq(seqs)
  OBVIOUS
<1>7. PICK off : /\ Offsets(seqs, n, off) /\ flat \in Seq(S) /\ Len(flat) = off[n]
                 /\ \A i \in 1..n : \A j \in 1..Len(seqs[i]) : flat[off[i - 1] + j] = seqs[i][j]
  <2>1. \A i \in 1..n : seqs[i] \in Seq(S)
    BY <1>4
  <2>2. n # 0 /\ Len(seqs) = n /\ flat = FlattenSeq(seqs)
    BY <1>1, <1>5, <1>6
  <2>3. \E off : JoinedAt(S, seqs, n, flat, off)
    BY <2>1, <2>2, FlattenLayout
  <2> QED  BY <2>3 DEF JoinedAt
<1>8. /\ \A i, j \in 0..n : i <= j => off[i] <= off[j]
      /\ \A k \in 1..off[n] : \E i \in 1..n : \E j \in 1..Len(seqs[i]) : k = off[i - 1] + j
  <2>1. \A i \in 1..n : Len(seqs[i]) \in Nat
    BY <1>2, <1>4
  <2>2. Offsets(seqs, n, off)
    BY <1>7
  <2> QED  BY <2>1, <2>2, OffsetsCover
<1>9. off \in [0..n -> Nat] /\ off[0] = 0 /\ \A i \in 1..n : off[i] = off[i - 1] + Len(before(i)) + 1
  <2>1. off \in [0..n -> Nat] /\ off[0] = 0 /\ \A i \in 1..n : off[i] = off[i - 1] + Len(seqs[i])
    BY <1>7 DEF Offsets
  <2>2. \A i \in 1..n : off[i - 1] \in Nat
    BY <2>1
  <2>3. ASSUME NEW i \in 1..n  PROVE off[i] = off[i - 1] + Len(before(i)) + 1
    <3>1. off[i] = off[i - 1] + Len(seqs[i]) /\ Len(seqs[i]) = Len(before(i)) + 1 /\ off[i - 1] \in Nat /\ Len(before(i)) \in Nat
      BY <1>2, <1>4, <2>1, <2>2
    <3> QED  BY <3>1
  <2> QED  BY <2>1, <2>3
<1>10. PICK A \in Nat : A = Len(a)
  BY <1>2, <1>6
<1>11. /\ t \in Seq(S) /\ Len(t) = A + off[n] /\ Len(t) \in Nat
       /\ \A k \in 1..A : t[k] = a[k]
       /\ \A k \in 1..off[n] : t[A + k] = flat[k]
  <2>1. a \in Seq(S) /\ t = a \o flat /\ off[n] \in Nat
    BY <1>2, <1>3, <1>6, <1>9
  <2> QED  BY <1>7, <1>10, <2>1
<1> HIDE DEF before
<1> DEFINE idx(e) == CHOOSE j \in 1..Len(before(e.line)) : before(e.line)[j] = Directive(e)
           pos == [i \in 1..n |-> A + off[i]]
           base(m) == IF m = 0 THEN 0 ELSE A + off[m - 1]
           pl == [e \in edits |-> base(e.line) + idx(e)]
<1>12. ASSUME NEW e \in edits
       PROVE  idx(e) \in 1..Len(before(e.line)) /\ before(e.line)[idx(e)] = Directive(e)
  <2>1. PICK m, q : m = e.line /\ q = before(m)
    OBVIOUS
  <2>3. HasDirectives(edits, m, q)
    BY <2>1, InsertedFacts DEF before
  <2>2. \E j \in 1..Len(q) : q[j] = Directive(e)
    BY <2>1, <2>3 DEF HasDirectives
  <2> QED  BY <2>1, <2>2
<1>13. ASSUME NEW m \in 0..n, NEW j \in 1..Len(before(m))
       PROVE  \E e \in edits : e.line = m /\ before(m)[j] = Directive(e) /\ idx(e) = j
  <2>1. PICK q : q = before(m)
    OBVIOUS
  <2>5. HasDirectives(edits, m, q)
    BY <2>1, InsertedFacts DEF before
  <2>2. PICK e \in edits : e.line = m /\ q[j] = Directive(e)
    BY <1>13, <2>1, <2>5 DEF HasDirectives
  <2>3. idx(e) \in 1..Len(q) /\ q[idx(e)] = Directive(e)
    BY <1>12, <2>1, <2>2
  <2> HIDE DEF idx
  <2>4. idx(e) = j
    BY <1>13, <2>1, <2>2, <2>3, <2>5 DEF HasDirectives
  <2> QED  BY <2>1, <2>2, <2>4
<1> HIDE DEF idx
<1>14. ASSUME NEW i \in 1..n
       PROVE  pos[i] \in 1..Len(t) /\ t[pos[i]] = lines[i] /\ pos[i] = A + off[i] /\ off[i] \in Nat /\ off[i] >= 1
  <2>1. off[i] = off[i - 1] + Len(before(i)) + 1 /\ off[i - 1] \in Nat /\ Len(before(i)) \in Nat /\ off[i] \in Nat
        /\ off[n] \in Nat
    BY <1>2, <1>9
  <2>2. off[i] <= off[n]
    BY <1>8
  <2>3. off[i] \in 1..off[n]
    BY <2>1, <2>2
  <2>4. t[A + off[i]] = flat[off[i]]
    BY <1>11, <2>3
  <2>5. flat[off[i - 1] + (Len(before(i)) + 1)] = seqs[i][Len(before(i)) + 1]
    <3>1. PICK l \in Nat : l = Len(before(i)) + 1
      BY <2>1
    <3>2. Len(seqs[i]) = l /\ l >= 1
      BY <1>4, <2>1, <3>1
    <3>3. l \in 1..Len(seqs[i])
      BY <3>1, <3>2
    <3> QED  BY <1>7, <3>1, <3>3
  <2>6. off[i - 1] + (Len(before(i)) + 1) = off[i]
    BY <2>1
  <2>7. t[A + off[i]] = lines[i]
    BY <1>4, <2>4, <2>5, <2>6
  <2>8. A + off[i] \in 1..Len(t)
    <3>1. Len(t) = A + off[n]
      BY <1>11
    <3>2. PICK x \in Nat, y \in Nat : x = off[i] /\ y = off[n]
      BY <2>1
    <3> QED  BY <2>2, <2>3, <3>1, <3>2
  <2>9. off[i] >= 1
    <3>1. PICK x \in Nat, y \in Nat : x = off[i] /\ y = off[n]
      BY <2>1
    <3> QED  BY <2>3, <3>1
  <2>10. pos[i] = A + off[i]
    OBVIOUS
  <2> HIDE DEF pos
  <2> QED  BY <2>1, <2>7, <2>8, <2>9, <2>10
<1>15. ASSUME NEW e \in edits, NEW m, m = e.line
       PROVE  /\ pl[e] \in 1..Len(t) /\ t[pl[e]] = Directive(e) /\ pl[e] \in Nat
              /\ m = 0 => pl[e] <= A
              /\ m # 0 => A + off[m - 1] < pl[e] /\ pl[e] < A + off[m]
  <2>1. PICK j : j = idx(e)
    OBVIOUS
  <2>2. j \in 1..Len(before(m)) /\ before(m)[j] = Directive(e) /\ Len(before(m)) \in Nat /\ m \in 0..n
    BY <1>1, <1>2, <1>12, <1>15, <2>1
  <2>3. CASE m = 0
    <3>1. pl[e] = j /\ j \in 1..A /\ a[j] = Directive(e)
      <4>1. j \in 1..A /\ a[j] = Directive(e)
        BY <1>6, <1>10, <2>2, <2>3
      <4>2. pl[e] = base(m) + j
        BY <1>15, <2>1
      <4>3. base(m) = 0 /\ j \in Nat
        BY <2>2, <2>3
      <4> QED  BY <4>1, <4>2, <4>3
    <3>2. off[n] \in Nat
      BY <1>9
    <3>3. PICK p, z : p = pl[e] /\ z = off[n]
      OBVIOUS
    <3> HIDE DEF pl
    <3>4. p = j /\ j \in 1..A /\ Len(t) = A + z /\ z \in Nat
      BY <1>11, <3>1, <3>2, <3>3
    <3>5. p \in 1..Len(t) /\ p \in Nat /\ p <= A
      BY <3>4
    <3>6. t[p] = Directive(e)
      BY <1>11, <3>1, <3>4
    <3> QED  BY <2>3, <3>3, <3>5, <3>6
  <2>4. CASE m # 0
    <3>1. m \in 1..n /\ pl[e] = A + off[m - 1] + j
      BY <1>15, <2>1, <2>2, <2>4
    <3>2. off[m] = off[m - 1] + Len(before(m)) + 1 /\ off[m - 1] \in Nat /\ off[m] \in Nat /\ off[n] \in Nat /\ off[m] <= off[n]
      <4>1. m \in 0..n /\ n \in 0..n /\ m <= n
        BY <3>1
      <4>2. off[m] <= off[n]
        BY <1>8, <4>1
      <4>3. off[m] = off[m - 1] + Len(before(m)) + 1 /\ off[m - 1] \in Nat /\ off[m] \in Nat /\ off[n] \in Nat
        BY <1>9, <3>1
      <4> QED  BY <4>2, <4>3
    <3>3. flat[off[m - 1] + j] = seqs[m][j] /\ seqs[m][j] = before(m)[j]
      <4>1. j \in 1..Len(seqs[m])
        BY <1>4, <2>2, <3>1
      <4> QED  BY <1>4, <1>7, <2>2, <3>1, <4>1
    <3>4. off[m - 1] + j \in 1..off[n]
      BY <2>2, <3>2
    <3>5. t[A + (off[m - 1] + j)] = flat[off[m - 1] + j]
      BY <1>11, <3>4
    <3>6. A + (off[m - 1] + j) = pl[e]
      BY <2>2, <3>1, <3>2
    <3>7. t[pl[e]] = Directive(e)
      BY <2>2, <3>3, <3>5, <3>6
    <3>8. pl[e] \in 1..Len(t) /\ pl[e] \in Nat /\ A + off[m - 1] < pl[e] /\ pl[e] < A + off[m]
      <4>1. PICK x \in Nat, y \in Nat, z \in Nat, l \in Nat : x = off[m - 1] /\ y = off[m] /\ z = off[n] /\ l = Len(before(m))
        BY <2>2, <3>2
      <4>2. pl[e] = A + x + j /\ y = x + l + 1 /\ y <= z /\ j \in 1..l /\ Len(t) = A + z
        BY <1>11, <2>2, <3>1, <3>2, <4>1
      <4>3. PICK p : p = pl[e]
        OBVIOUS
      <4> HIDE DEF pl
      <4>4. p \in 1..Len(t) /\ p \in Nat /\ A + x < p /\ p < A + y
        BY <4>2, <4>3
      <4> QED  BY <4>1, <4>3, <4>4
    <3> QED  BY <2>4, <3>7, <3>8
  <2> QED  BY <2>3, <2>4
<1>16. ASSUME NEW k \in 1..Len(t)
       PROVE  (\E i \in 1..n : k = pos[i]) \/ (\E e \in edits : k = pl[e])
  <2>1. CASE k \in 1..A
    <3>1. PICK e \in edits : e.line = 0 /\ idx(e) = k
      BY <1>6, <1>10, <1>13, <2>1
    <3>2. pl[e] = k
      BY <2>1, <3>1
    <3> QED  BY <3>2
  <2>2. CASE k \notin 1..A
    <3>1. off[n] \in Nat
      BY <1>9
    <3>2. k - A \in 1..off[n]
      BY <1>11, <2>2, <3>1
    <3>3. PICK i \in 1..n : \E j \in 1..Len(seqs[i]) : k - A = off[i - 1] + j
      BY <1>8, <3>2
    <3>9. PICK j \in 1..Len(seqs[i]) : k - A = off[i - 1] + j
      BY <3>3
    <3>4. off[i] = off[i - 1] + Len(before(i)) + 1 /\ off[i - 1] \in Nat /\ Len(seqs[i]) = Len(before(i)) + 1
          /\ Len(before(i)) \in Nat
      <4>1. Len(seqs[i]) = Len(before(i)) + 1 /\ Len(before(i)) \in Nat
        BY <1>2, <1>4
      <4>2. i - 1 \in 0..n
        BY <1>1
      <4>3. off[i - 1] \in Nat
        BY <1>9, <4>2
      <4>4. off[i] = off[i - 1] + Len(before(i)) + 1
        BY <1>9
      <4> QED  BY <4>1, <4>3, <4>4
    <3>5. CASE j = Len(before(i)) + 1
      <4>1. k = A + off[i]
        <5>1. PICK x \in Nat, y \in Nat, l \in Nat : x = off[i - 1] /\ y = off[i] /\ l = Len(before(i)) /\ y = x + l + 1
          BY <3>4
        <5>2. k - A = x + (l + 1) /\ k \in Int
          BY <3>5, <3>9, <5>1
        <5> HIDE DEF pos, pl, base
        <5>3. PICK q \in Int : q = k
          BY <5>2
        <5>4. q - A = x + (l + 1)
          BY <5>2, <5>3
        <5>5. q = A + (x + l + 1)
          BY <5>4
        <5> QED  BY <5>1, <5>3, <5>5
      <4> QED  BY <4>1
    <3>6. CASE j # Len(before(i)) + 1
      <4>1. j \in 1..Len(before(i)) /\ i \in 0..n /\ i # 0
        BY <3>4, <3>6
      <4>2. PICK e \in edits : e.line = i /\ idx(e) = j
        BY <1>13, <4>1
      <4>3. pl[e] = A + off[i - 1] + j
        BY <4>1, <4>2
      <4>4. k = A + off[i - 1] + j
        <5>1. PICK x \in Nat, y \in Nat : x = off[i - 1] /\ y = j
          BY <3>4, <4>1
        <5>2. k - A = x + y /\ k \in Int
          BY <1>11, <3>9, <5>1
        <5>3. k = A + x + y
          BY <5>2
        <5> QED  BY <5>1, <5>3
      <4> QED  BY <4>3, <4>4
    <3> QED  BY <3>5, <3>6
  <2> QED  BY <2>1, <2>2
<1> HIDE DEF base
<1>17. ASSUME NEW d \in edits, NEW e \in edits, pl[d] = pl[e]
       PROVE  d = e
  <2>1. PICK l \in 0..n, m \in 0..n : l = d.line /\ m = e.line
    BY <1>1
  <2>2. l = m
    <3>1. ASSUME NEW x \in edits, NEW y \in edits, x.line \in 0..n, y.line \in 0..n, x.line < y.line
          PROVE  pl[x] < pl[y]
      <4>1. PICK u \in 0..n, v \in 0..n : u = x.line /\ v = y.line
        BY <3>1
      <4>2. v # 0 /\ u <= v - 1 /\ v - 1 \in 0..n
        BY <3>1, <4>1
      <4>3. A + off[v - 1] < pl[y] /\ pl[x] \in Nat /\ pl[y] \in Nat
        BY <1>15, <4>1, <4>2
      <4>4. off[u] <= off[v - 1] /\ off[u] \in Nat /\ off[v - 1] \in Nat
        BY <1>8, <1>9, <4>2
      <4>5. u = 0 => pl[x] <= A
        BY <1>15, <4>1
      <4>6. u # 0 => pl[x] < A + off[u]
        BY <1>15, <4>1
      <4> HIDE DEF pl
      <4> QED  BY <4>3, <4>4, <4>5, <4>6
    <3>2. pl[d] \in Nat /\ pl[e] \in Nat
      BY <1>15
    <3> HIDE DEF pl
    <3> QED  BY <1>17, <2>1, <3>1, <3>2
  <2>3. idx(d) \in Nat /\ idx(e) \in Nat /\ base(l) \in Nat
    <3>1. idx(d) \in Nat /\ idx(e) \in Nat
      BY <1>2, <1>12
    <3>2. l # 0 => off[l - 1] \in Nat
      BY <1>9
    <3> QED  BY <3>1, <3>2 DEF base
  <2>4. idx(d) = idx(e)
    <3>1. pl[d] = base(l) + idx(d) /\ pl[e] = base(l) + idx(e)
      BY <2>1, <2>2
    <3> HIDE DEF pl
    <3>2. base(l) + idx(d) = base(l) + idx(e)
      BY <1>17, <3>1
    <3> QED  BY <2>3, <3>2
  <2>5. Directive(d) = Directive(e)
    BY <1>12, <2>1, <2>2, <2>4
  <2>6. d.kind = e.kind
    BY <2>5 DEF Directive
  <2> QED  BY <2>1, <2>2, <2>6 DEF Distinct
<1> HIDE DEF pl
<1>18. ASSUME NEW e \in edits, NEW i \in 1..n
       PROVE  IF e.line <= i THEN pl[e] < pos[i] ELSE pos[i] < pl[e]
  <2>1. PICK m \in 0..n : m = e.line
    BY <1>1
  <2>2. pl[e] \in Nat /\ pos[i] = A + off[i] /\ off[i] \in Nat /\ off[i] >= 1
    BY <1>14, <1>15
  <2>3. CASE m = 0
    <3>1. pl[e] <= A
      BY <1>15, <2>1, <2>3
    <3> HIDE DEF pos
    <3> QED  BY <2>1, <2>2, <2>3, <3>1
  <2>4. CASE m # 0
    <3>1. A + off[m - 1] < pl[e] /\ pl[e] < A + off[m]
      BY <1>15, <2>1, <2>4
    <3>4. m \in 1..n /\ m - 1 \in 0..n
      BY <2>4
    <3>5. off[m] \in Nat /\ off[m - 1] \in Nat
      BY <1>9, <3>4
    <3>2. m <= i => off[m] <= off[i]
      BY <1>8
    <3>3. ~(m <= i) => off[i] <= off[m - 1]
      <4>1. ~(m <= i) => i <= m - 1
        OBVIOUS
      <4>2. i \in 0..n
        OBVIOUS
      <4> QED  BY <1>8, <3>4, <4>1, <4>2
    <3> HIDE DEF pos
    <3>6. PICK x \in Nat, y \in Nat, z \in Nat, p \in Nat, r \in Nat :
            x = off[m - 1] /\ y = off[m] /\ z = off[i] /\ p = pl[e] /\ r = pos[i]
      <4>1. pos[i] \in Nat
        <5>1. PICK z \in Nat : z = off[i]
          BY <2>2
        <5>2. pos[i] = A + z
          BY <2>2, <5>1
        <5> QED  BY <5>2
      <4> QED  BY <2>2, <3>5, <4>1
    <3>7. A + x < p /\ p < A + y /\ r = A + z /\ (m <= i => y <= z) /\ (~(m <= i) => z <= x)
      BY <2>2, <3>1, <3>2, <3>3, <3>6
    <3>8. IF m <= i THEN p < r ELSE r < p
      BY <3>7
    <3> QED  BY <2>1, <3>6, <3>8
  <2> QED  BY <2>3, <2>4
<1>19. ASSUME NEW i \in 1..n, NEW j \in 1..n, i < j
       PROVE  pos[i] < pos[j]
  <2>3. off[j] = off[j - 1] + Len(before(j)) + 1 /\ off[j - 1] \in Nat /\ Len(before(j)) \in Nat
    BY <1>2, <1>9
  <2>4. i \in 0..n /\ j - 1 \in 0..n /\ i <= j - 1
    BY <1>19
  <2>1. off[i] <= off[j - 1] /\ off[j] = off[j - 1] + Len(before(j)) + 1 /\ off[j - 1] \in Nat /\ Len(before(j)) \in Nat
    BY <1>8, <2>3, <2>4
  <2>2. pos[i] = A + off[i] /\ pos[j] = A + off[j] /\ off[i] \in Nat /\ off[j] \in Nat
    BY <1>14
  <2> HIDE DEF pos
  <2>5. PICK x \in Nat, y \in Nat, z \in Nat, l \in Nat :
          x = off[i] /\ y = off[j] /\ z = off[j - 1] /\ l = Len(before(j))
    BY <2>2, <2>3
  <2>6. x <= z /\ y = z + l + 1 /\ pos[i] = A + x /\ pos[j] = A + y
    BY <2>1, <2>2, <2>5
  <2>7. A + x < A + y
    BY <2>6
  <2> QED  BY <2>6, <2>7
<1>20. pos \in [1..n -> 1..Len(t)] /\ pl \in [edits -> 1..Len(t)]
  BY <1>14, <1>15 DEF pl
<1> HIDE DEF pos
<1>21. Layout(lines, edits, t, pos, pl)
  BY <1>1, <1>14, <1>15, <1>16, <1>17, <1>18, <1>19, <1>20 DEF Layout
<1> QED  BY <1>21

(***************************************************************************)
(* A file and what edits made of it: the lines keep their order, and each  *)
(* directive comes before the line of its number.                          *)
(***************************************************************************)
\* A file and what edits made of it.
Promoted(lines, edits, t, pos, pl) == IsFile(lines) /\ IsFile(t) /\ Layout(lines, edits, t, pos, pl)

LEMMA FileDomain ==
  ASSUME NEW lines, IsFile(lines)
  PROVE  Len(lines) \in Nat /\ Len(lines) # 0 /\ DOMAIN lines = 1..Len(lines)
<1>1. PICK S : lines \in Seq(S) \ {<< >>}
  BY DEF IsFile
<1> QED  BY <1>1

LEMMA EditedPromoted ==
  ASSUME NEW lines, IsFile(lines), NEW edits, IsFiniteSet(edits), Distinct(edits),
         \A e \in edits : e.line \in 0..Len(lines), NEW t, t = Edited(lines, edits)
  PROVE  \E pos, pl : Promoted(lines, edits, t, pos, pl)
<1>1. PICK S : lines \in Seq(S) \ {<< >>}
  BY DEF IsFile
<1>2. IsFile(t)
  BY EditedLonger
<1>3. \E pos, pl : Layout(lines, edits, t, pos, pl)
  BY <1>1, EditedLayout
<1> QED  BY <1>2, <1>3 DEF Promoted

\* The old lines keep their order.
LEMMA PosOrder ==
  ASSUME NEW lines, NEW edits, NEW t, NEW pos, NEW pl, Promoted(lines, edits, t, pos, pl),
         NEW i \in 1..Len(lines), NEW j \in 1..Len(lines)
  PROVE  /\ pos[i] \in 1..Len(t) /\ pos[i] \in Nat /\ pos[j] \in Nat
         /\ i < j <=> pos[i] < pos[j]
         /\ i <= j <=> pos[i] <= pos[j]
         /\ pos[i] = pos[j] => i = j
<1>1. /\ pos \in [1..Len(lines) -> 1..Len(t)]
      /\ \A x, y \in 1..Len(lines) : x < y => pos[x] < pos[y]
      /\ Len(t) \in Nat /\ Len(lines) \in Nat
  BY FileDomain DEF Promoted, Layout
<1>2. pos[i] \in 1..Len(t) /\ pos[i] \in Nat /\ pos[j] \in Nat
  BY <1>1
<1>3. (i < j => pos[i] < pos[j]) /\ (j < i => pos[j] < pos[i]) /\ (i = j => pos[i] = pos[j])
  BY <1>1
<1> QED  BY <1>2, <1>3

\* A directive comes before the lines from its own on.
LEMMA PlOrder ==
  ASSUME NEW lines, NEW edits, NEW t, NEW pos, NEW pl, Promoted(lines, edits, t, pos, pl),
         NEW e \in edits, NEW i \in 1..Len(lines)
  PROVE  /\ pl[e] \in 1..Len(t) /\ pl[e] \in Nat /\ pos[i] \in Nat
         /\ pl[e] # pos[i]
         /\ IF e.line <= i THEN pl[e] < pos[i] ELSE pos[i] < pl[e]
<1>1. /\ pos \in [1..Len(lines) -> 1..Len(t)] /\ pl \in [edits -> 1..Len(t)]
      /\ Len(t) \in Nat
      /\ IF e.line <= i THEN pl[e] < pos[i] ELSE pos[i] < pl[e]
  BY FileDomain DEF Promoted, Layout
<1>2. pl[e] \in 1..Len(t) /\ pl[e] \in Nat /\ pos[i] \in Nat
  BY <1>1
<1> QED  BY <1>1, <1>2

\* No item is added or lost.
LEMMA ItemsMoved ==
  ASSUME NEW lines, NEW edits, NEW t, NEW pos, NEW pl, Promoted(lines, edits, t, pos, pl)
  PROVE  /\ \A i \in Items(lines) : i \in 1..Len(lines) /\ pos[i] \in Items(t)
         /\ \A k \in Items(t) : \E i \in Items(lines) : k = pos[i]
<1>1. /\ DOMAIN lines = 1..Len(lines) /\ DOMAIN t = 1..Len(t)
      /\ \A i \in 1..Len(lines) : t[pos[i]] = lines[i] /\ pos[i] \in 1..Len(t)
      /\ \A e \in edits : t[pl[e]] = Directive(e)
      /\ \A k \in 1..Len(t) : (\E i \in 1..Len(lines) : k = pos[i]) \/ (\E e \in edits : k = pl[e])
  BY FileDomain DEF Promoted, Layout
<1>2. \A e \in edits : Directive(e).is # "item"
  BY DEF Directive
<1> QED  BY <1>1, <1>2 DEF Items

\* The item after a place.
First(lines, p, j) == j \in Items(lines) /\ p < j /\ \A k \in Items(lines) : p < k => j <= k

\* What a place documents: the first item below, if there is one.
LEMMA DocumentedIs ==
  ASSUME NEW lines, IsFile(lines), NEW p \in Nat
  PROVE  /\ \A x : x \in Documented(lines, p) <=> \E j : First(lines, p, j) /\ x = lines[j].name
         /\ \A i, j : First(lines, p, i) /\ First(lines, p, j) => i = j
<1>1. Items(lines) \subseteq Nat
  BY FileDomain DEF Items
<1> DEFINE below == {i \in Items(lines) : i > p}
           c == CHOOSE i \in below : \A j \in below : i <= j
<1>2. \A i, j : First(lines, p, i) /\ First(lines, p, j) => i = j
  BY <1>1 DEF First
<1>3. CASE below = {}
  <2>1. Documented(lines, p) = {}
    BY <1>3 DEF Documented
  <2>2. ~\E j : First(lines, p, j)
    BY <1>1, <1>3 DEF First
  <2> QED  BY <1>2, <2>1, <2>2
<1>4. CASE below # {}
  <2>1. Documented(lines, p) = {lines[c].name}
    BY <1>4 DEF Documented
  <2>2. \E i \in below : \A j \in below : i <= j
    <3>1. below \subseteq Nat
      BY <1>1
    <3> HIDE DEF below
    <3> QED  BY <1>4, <3>1, LeastNumber
  <2>3. c \in below /\ \A j \in below : c <= j
    BY <2>2
  <2>4. First(lines, p, c)
    <3> HIDE DEF c
    <3> QED  BY <1>1, <2>3 DEF First
  <2> HIDE DEF c
  <2> QED  BY <1>2, <2>1, <2>4
<1> QED  BY <1>3, <1>4

\* A directive that was there documents the same item as before.
LEMMA DocumentedMoved ==
  ASSUME NEW lines, NEW edits, NEW t, NEW pos, NEW pl, Promoted(lines, edits, t, pos, pl), NEW i \in 1..Len(lines)
  PROVE  Documented(t, pos[i]) = Documented(lines, i)
<1>0. /\ IsFile(lines) /\ IsFile(t) /\ i \in Nat /\ pos[i] \in Nat
      /\ \A j \in 1..Len(lines) : t[pos[j]] = lines[j]
  <2>1. pos[i] \in Nat
    BY PosOrder
  <2>2. IsFile(lines) /\ IsFile(t) /\ \A j \in 1..Len(lines) : t[pos[j]] = lines[j]
    BY DEF Promoted, Layout
  <2>3. Len(lines) \in Nat
    BY <2>2, FileDomain
  <2> QED  BY <2>1, <2>2, <2>3
<1>1. ASSUME NEW j \in Items(lines)
      PROVE  First(lines, i, j) <=> First(t, pos[i], pos[j])
  <2>1. j \in 1..Len(lines) /\ pos[j] \in Items(t)
    BY ItemsMoved
  <2>2. i < j <=> pos[i] < pos[j]
    BY <2>1, PosOrder
  <2>3. ASSUME NEW l \in Items(lines)
        PROVE  (i < l <=> pos[i] < pos[l]) /\ (j <= l <=> pos[j] <= pos[l]) /\ pos[l] \in Items(t)
    BY <2>1, ItemsMoved, PosOrder
  <2>4. \A k \in Items(t) : \E l \in Items(lines) : k = pos[l]
    BY ItemsMoved
  <2> QED  BY <2>1, <2>2, <2>3, <2>4 DEF First
<1>2. ASSUME NEW x  PROVE x \in Documented(t, pos[i]) <=> x \in Documented(lines, i)
  <2>1. x \in Documented(t, pos[i]) <=> \E k : First(t, pos[i], k) /\ x = t[k].name
    BY <1>0, DocumentedIs
  <2>2. x \in Documented(lines, i) <=> \E j : First(lines, i, j) /\ x = lines[j].name
    BY <1>0, DocumentedIs
  <2>3. ASSUME NEW j, First(lines, i, j)  PROVE First(t, pos[i], pos[j]) /\ t[pos[j]] = lines[j]
    <3>1. j \in Items(lines)
      BY <2>3 DEF First
    <3> QED  BY <1>0, <1>1, <2>3, <3>1, ItemsMoved
  <2>4. ASSUME NEW k, First(t, pos[i], k)  PROVE \E j : k = pos[j] /\ First(lines, i, j) /\ t[k] = lines[j]
    <3>1. PICK j \in Items(lines) : k = pos[j]
      BY <2>4, ItemsMoved DEF First
    <3> QED  BY <1>0, <1>1, <2>4, <3>1, ItemsMoved
  <2> QED  BY <2>1, <2>2, <2>3, <2>4
<1> QED  BY <1>2

\* A directive written before an item documents it.
LEMMA DocumentedNew ==
  ASSUME NEW lines, NEW edits, NEW t, NEW pos, NEW pl, Promoted(lines, edits, t, pos, pl),
         NEW e \in edits, e.line \in Items(lines)
  PROVE  Documented(t, pl[e]) = {lines[e.line].name}
<1>1. PICK i : i = e.line
  OBVIOUS
<1>2. i \in Items(lines) /\ i \in 1..Len(lines) /\ pos[i] \in Items(t) /\ i <= i
  <2>1. i \in 1..Len(lines) /\ Len(lines) \in Nat
    BY <1>1, ItemsMoved, FileDomain DEF Promoted
  <2> QED  BY <1>1, <2>1, ItemsMoved
<1>3. IsFile(t) /\ t[pos[i]] = lines[i] /\ pl[e] \in Nat
  BY <1>2, PlOrder DEF Promoted, Layout
<1>4. First(t, pl[e], pos[i])
  <2>1. pl[e] < pos[i]
    BY <1>1, <1>2, PlOrder
  <2>2. ASSUME NEW k \in Items(t), pl[e] < k  PROVE pos[i] <= k
    <3>1. PICK l \in Items(lines) : k = pos[l]
      BY ItemsMoved
    <3>2. l \in 1..Len(lines)
      BY ItemsMoved
    <3>3. i <= l
      <4>1. IF e.line <= l THEN pl[e] < pos[l] ELSE pos[l] < pl[e]
        BY <3>2, PlOrder
      <4>2. pl[e] \in Nat /\ pos[l] \in Nat
        BY <3>2, PlOrder
      <4> QED  BY <1>1, <2>2, <3>1, <4>1, <4>2
    <3> QED  BY <1>2, <3>1, <3>2, <3>3, PosOrder
  <2> QED  BY <1>2, <2>1, <2>2 DEF First
<1>5. \A x : x \in Documented(t, pl[e]) <=> x = t[pos[i]].name
  BY <1>3, <1>4, DocumentedIs
<1> QED  BY <1>1, <1>3, <1>5

(***************************************************************************)
(* Expectations in an edited file.                                         *)
(***************************************************************************)

\* What the directives of a file expect of an extraction by b.
ExpIn(lines, b) == {x \in DirectivesOf(lines) : x.kind = "extraction" /\ x.mark.backend = b}

Expectation(i, kind, m, p) == [item |-> i, kind |-> kind, mark |-> m, at |-> p]
ItemsAt(lines, p) == IF lines[p].bang THEN {"mod"} ELSE Documented(lines, p)
Moved(x, p) == Expectation(x.item, x.kind, x.mark, p)

LEMMA InDirectives ==
  ASSUME NEW lines, NEW x
  PROVE  x \in DirectivesOf(lines) <=>
           \E p \in DOMAIN lines : IsDirective(lines[p]) /\
             \E i \in ItemsAt(lines, p), m \in lines[p].marks : x = Expectation(i, lines[p].kind, m, p)
<1>1. ASSUME x \in DirectivesOf(lines)
      PROVE  \E p \in DOMAIN lines : IsDirective(lines[p]) /\
               \E i \in ItemsAt(lines, p), m \in lines[p].marks : x = Expectation(i, lines[p].kind, m, p)
  <2>1. PICK p \in {q \in DOMAIN lines : IsDirective(lines[q])} :
          x \in {[item |-> i, kind |-> lines[p].kind, mark |-> m, at |-> p] :
                   i \in IF lines[p].bang THEN {"mod"} ELSE Documented(lines, p), m \in lines[p].marks}
    BY <1>1 DEF DirectivesOf
  <2> QED  BY <2>1 DEF ItemsAt, Expectation
<1>2. ASSUME NEW p \in DOMAIN lines, IsDirective(lines[p]), NEW i \in ItemsAt(lines, p), NEW m \in lines[p].marks,
             x = Expectation(i, lines[p].kind, m, p)
      PROVE  x \in DirectivesOf(lines)
  <2>1. x \in {[item |-> j, kind |-> lines[p].kind, mark |-> n, at |-> p] :
                  j \in IF lines[p].bang THEN {"mod"} ELSE Documented(lines, p), n \in lines[p].marks}
    BY <1>2 DEF ItemsAt, Expectation
  <2>2. p \in {q \in DOMAIN lines : IsDirective(lines[q])}
    BY <1>2
  <2> QED  BY <2>1, <2>2 DEF DirectivesOf
<1> QED  BY <1>1, <1>2

LEMMA ExpectationFields ==
  ASSUME NEW i, NEW kind, NEW m, NEW p, NEW x, x = Expectation(i, kind, m, p)
  PROVE  x.item = i /\ x.kind = kind /\ x.mark = m /\ x.at = p
BY DEF Expectation

\* The old expectations are there, at other places.
LEMMA ExpectationsKept ==
  ASSUME NEW lines, NEW edits, NEW t, NEW pos, NEW pl, Promoted(lines, edits, t, pos, pl), NEW b, NEW x \in ExpIn(lines, b)
  PROVE  x.at \in 1..Len(lines) /\ Moved(x, pos[x.at]) \in ExpIn(t, b) /\ x = Moved(x, x.at)
<1>1. x \in DirectivesOf(lines) /\ x.kind = "extraction" /\ x.mark.backend = b
  BY DEF ExpIn
<1>2. PICK p \in DOMAIN lines : IsDirective(lines[p]) /\
        \E i \in ItemsAt(lines, p), m \in lines[p].marks : x = Expectation(i, lines[p].kind, m, p)
  BY <1>1, InDirectives
<1>3. PICK i \in ItemsAt(lines, p), m \in lines[p].marks : x = Expectation(i, lines[p].kind, m, p)
  BY <1>2
<1>4. x.item = i /\ x.kind = lines[p].kind /\ x.mark = m /\ x.at = p
  BY <1>3, ExpectationFields
<1>5. p \in 1..Len(lines) /\ pos[p] \in DOMAIN t /\ t[pos[p]] = lines[p]
  <2>1. p \in 1..Len(lines) /\ DOMAIN t = 1..Len(t)
    BY <1>2, FileDomain DEF Promoted
  <2> QED  BY <2>1, PosOrder DEF Promoted, Layout
<1>6. ItemsAt(t, pos[p]) = ItemsAt(lines, p)
  BY <1>5, DocumentedMoved DEF ItemsAt
<1> DEFINE y == Moved(x, pos[p])
<1>7. y = Expectation(i, t[pos[p]].kind, m, pos[p])
  BY <1>4, <1>5 DEF Moved
<1>8. y \in DirectivesOf(t)
  <2>1. IsDirective(t[pos[p]]) /\ i \in ItemsAt(t, pos[p]) /\ m \in t[pos[p]].marks
    BY <1>2, <1>3, <1>5, <1>6
  <2> HIDE DEF y
  <2> QED  BY <1>5, <1>7, <2>1, InDirectives
<1>9. y.kind = "extraction" /\ y.mark.backend = b
  BY <1>1, ExpectationFields DEF Moved
<1>10. x = Moved(x, x.at)
  BY <1>3, <1>4 DEF Moved
<1> QED  BY <1>4, <1>5, <1>8, <1>9, <1>10 DEF ExpIn

\* An expectation for b that e makes, where its directive is put.
NewAt(lines, e, b, p, y) ==
  /\ e.kind = "extraction"
  /\ \E m \in e.marks : m.backend = b /\ y = Expectation(IF e.bang THEN "mod" ELSE lines[e.line].name, "extraction", m, p)

LEMMA ExpectationsAre ==
  ASSUME NEW lines, NEW edits, NEW t, NEW pos, NEW pl, Promoted(lines, edits, t, pos, pl), NEW b,
         \A e \in edits : e.kind = "extraction" => e.bang \/ e.line \in Items(lines), NEW y
  PROVE  y \in ExpIn(t, b) <=> \/ \E x \in ExpIn(lines, b) : y = Moved(x, pos[x.at])
                              \/ \E e \in edits : NewAt(lines, e, b, pl[e], y)
<1>0. /\ DOMAIN t = 1..Len(t) /\ DOMAIN lines = 1..Len(lines)
      /\ \A e \in edits : t[pl[e]] = Directive(e) /\ pl[e] \in 1..Len(t)
      /\ \A k \in 1..Len(t) : (\E i \in 1..Len(lines) : k = pos[i]) \/ (\E e \in edits : k = pl[e])
      /\ \A i \in 1..Len(lines) : t[pos[i]] = lines[i]
  BY FileDomain DEF Promoted, Layout
<1>1. ASSUME NEW e \in edits, e.kind = "extraction"
      PROVE  ItemsAt(t, pl[e]) = {IF e.bang THEN "mod" ELSE lines[e.line].name}
  <2>0. t[pl[e]] = Directive(e)
    BY <1>0
  <2>1. t[pl[e]].bang = e.bang
    BY <2>0 DEF Directive
  <2>2. CASE e.bang
    BY <2>1, <2>2 DEF ItemsAt
  <2>3. CASE ~e.bang
    <3>1. e.line \in Items(lines)
      BY <1>1, <2>3
    <3>2. Documented(t, pl[e]) = {lines[e.line].name}
      BY <3>1, DocumentedNew
    <3> QED  BY <2>1, <2>3, <3>2 DEF ItemsAt
  <2> QED  BY <2>2, <2>3
<1>2. ASSUME NEW e \in edits
      PROVE  t[pl[e]].kind = e.kind /\ t[pl[e]].marks = e.marks /\ IsDirective(t[pl[e]])
  <2>1. t[pl[e]] = Directive(e)
    BY <1>0
  <2> QED  BY <2>1 DEF Directive, IsDirective
<1>3. ASSUME NEW e \in edits, NewAt(lines, e, b, pl[e], y)
      PROVE  y \in ExpIn(t, b)
  <2>1. PICK m \in e.marks : m.backend = b /\ y = Expectation(IF e.bang THEN "mod" ELSE lines[e.line].name, "extraction", m, pl[e])
    BY <1>3 DEF NewAt
  <2>2. e.kind = "extraction"
    BY <1>3 DEF NewAt
  <2>3. PICK i : i = IF e.bang THEN "mod" ELSE lines[e.line].name
    OBVIOUS
  <2>7. t[pl[e]].kind = e.kind /\ t[pl[e]].marks = e.marks /\ pl[e] \in DOMAIN t
    BY <1>0, <1>2
  <2>8. i \in ItemsAt(t, pl[e])
    BY <1>1, <2>2, <2>3
  <2>4. i \in ItemsAt(t, pl[e]) /\ m \in t[pl[e]].marks /\ y = Expectation(i, t[pl[e]].kind, m, pl[e]) /\ pl[e] \in DOMAIN t
    BY <2>1, <2>2, <2>3, <2>7, <2>8
  <2>5. y \in DirectivesOf(t)
    BY <1>2, <2>4, InDirectives
  <2>6. y.kind = "extraction" /\ y.mark = m
    BY <2>1, ExpectationFields
  <2> QED  BY <2>1, <2>5, <2>6 DEF ExpIn
<1>4. ASSUME y \in ExpIn(t, b)
      PROVE  \/ \E x \in ExpIn(lines, b) : y = Moved(x, pos[x.at])
             \/ \E e \in edits : NewAt(lines, e, b, pl[e], y)
  <2>1. y \in DirectivesOf(t) /\ y.kind = "extraction" /\ y.mark.backend = b
    BY <1>4 DEF ExpIn
  <2>2. PICK k \in DOMAIN t : IsDirective(t[k]) /\
          \E i \in ItemsAt(t, k), m \in t[k].marks : y = Expectation(i, t[k].kind, m, k)
    BY <2>1, InDirectives
  <2>3. PICK i \in ItemsAt(t, k), m \in t[k].marks : y = Expectation(i, t[k].kind, m, k)
    BY <2>2
  <2>4. y.item = i /\ y.kind = t[k].kind /\ y.mark = m /\ y.at = k
    BY <2>3, ExpectationFields
  <2>5. ASSUME NEW j \in 1..Len(lines), k = pos[j]
        PROVE  \E x \in ExpIn(lines, b) : y = Moved(x, pos[x.at])
    <3>1. t[k] = lines[j] /\ ItemsAt(t, k) = ItemsAt(lines, j)
      BY <1>0, <2>5, DocumentedMoved DEF ItemsAt
    <3>2. PICK x : x = Expectation(i, lines[j].kind, m, j)
      OBVIOUS
    <3>3. x.item = i /\ x.kind = lines[j].kind /\ x.mark = m /\ x.at = j
      BY <3>2, ExpectationFields
    <3>4. x \in DirectivesOf(lines)
      BY <1>0, <2>2, <2>3, <3>1, <3>2, InDirectives
    <3>5. x \in ExpIn(lines, b)
      BY <2>1, <2>4, <3>1, <3>3, <3>4 DEF ExpIn
    <3>6. y = Moved(x, pos[x.at])
      BY <2>3, <2>5, <3>1, <3>3 DEF Moved
    <3> QED  BY <3>5, <3>6
  <2>6. ASSUME NEW e \in edits, k = pl[e]
        PROVE  NewAt(lines, e, b, pl[e], y)
    <3>1. e.kind = "extraction" /\ m \in e.marks /\ m.backend = b
      BY <1>2, <2>1, <2>3, <2>4, <2>6
    <3>2. i = IF e.bang THEN "mod" ELSE lines[e.line].name
      BY <1>1, <2>3, <2>6, <3>1
    <3>3. y = Expectation(i, "extraction", m, pl[e])
      BY <2>1, <2>3, <2>4, <2>6
    <3> QED  BY <3>1, <3>2, <3>3 DEF NewAt
  <2> QED  BY <1>0, <2>5, <2>6
<1>5. ASSUME NEW x \in ExpIn(lines, b), y = Moved(x, pos[x.at])
      PROVE  y \in ExpIn(t, b)
  BY <1>5, ExpectationsKept
<1> QED  BY <1>3, <1>4, <1>5

(***************************************************************************)
(* Promotion on one file: directives that tell each diagnostic left over   *)
(* make every diagnostic expected, and add nothing else.                   *)
(***************************************************************************)
\* The mark a promoted diagnostic leaves.
Mark(b, t, d) == [backend |-> b, test |-> t, diag |-> d]

LEMMA MarkFields ==
  ASSUME NEW b, NEW t, NEW d
  PROVE  Mark(b, t, d).backend = b /\ Mark(b, t, d).diag = d
BY DEF Mark

\* The edits for b of a file write one mark for each diagnostic of left, and no other.
Tells(lines, edits, b, t, left) ==
  /\ \A e \in edits : e.kind = "extraction" =>
       /\ e.bang \/ e.line \in Items(lines)
       /\ \A m \in e.marks : m.backend = b => \E d \in left : m = Mark(b, t, d)
  /\ \A d \in left : \E e \in edits : e.kind = "extraction" /\ Mark(b, t, d) \in e.marks
  /\ \A d, e \in edits : d.kind = "extraction" /\ e.kind = "extraction" /\ d.marks \cap e.marks # {} => d = e

\* As many expectations are added as there are diagnostics left.
LEMMA ExpectationsAdded ==
  ASSUME NEW lines, NEW edits, NEW t, NEW pos, NEW pl, Promoted(lines, edits, t, pos, pl), NEW b, NEW u,
         NEW left, IsFiniteSet(left), Tells(lines, edits, b, u, left), IsFiniteSet(ExpIn(lines, b))
  PROVE  /\ IsFiniteSet(ExpIn(t, b))
         /\ Cardinality(ExpIn(t, b)) = Cardinality(ExpIn(lines, b)) + Cardinality(left)
<1> DEFINE exp == ExpIn(lines, b)
           Old == {Moved(x, pos[x.at]) : x \in exp}
           New == {y \in ExpIn(t, b) : \E e \in edits : NewAt(lines, e, b, pl[e], y)}
<1>0. \A e \in edits : e.kind = "extraction" => e.bang \/ e.line \in Items(lines)
  BY DEF Tells
<1>1. ExpIn(t, b) = Old \cup New
  BY <1>0, ExpectationsAre
<1>2. ASSUME NEW x \in exp  PROVE x.at \in 1..Len(lines) /\ x = Moved(x, x.at) /\ Moved(x, pos[x.at]).at = pos[x.at]
  BY ExpectationsKept, ExpectationFields DEF Moved
<1>3. ASSUME NEW e \in edits, NEW y, NewAt(lines, e, b, pl[e], y)
      PROVE  /\ y.at = pl[e] /\ e.kind = "extraction" /\ y.mark \in e.marks /\ y.mark.backend = b
             /\ y = Expectation(IF e.bang THEN "mod" ELSE lines[e.line].name, "extraction", y.mark, pl[e])
  BY <1>3, ExpectationFields DEF NewAt
<1>4. Old \cap New = {}
  <2> SUFFICES ASSUME NEW x \in exp, NEW e \in edits, NewAt(lines, e, b, pl[e], Moved(x, pos[x.at]))  PROVE FALSE
    OBVIOUS
  <2>1. pos[x.at] = pl[e]
    BY <1>2, <1>3
  <2> QED  BY <1>2, <2>1, PlOrder
<1>5. Cardinality(Old) = Cardinality(exp) /\ IsFiniteSet(Old)
  <2>1. PICK f : f = [x \in exp |-> Moved(x, pos[x.at])]
    OBVIOUS
  <2>2. f \in [exp -> Old]
    BY <2>1
  <2>3. ASSUME NEW x \in exp, NEW y \in exp, f[x] = f[y]  PROVE x = y
    <3>1. Moved(x, pos[x.at]) = Moved(y, pos[y.at])
      BY <2>1, <2>3
    <3>2. x.item = y.item /\ x.kind = y.kind /\ x.mark = y.mark /\ pos[x.at] = pos[y.at]
      BY <3>1, ExpectationFields DEF Moved
    <3>3. x.at = y.at
      BY <1>2, <3>2, PosOrder
    <3> QED  BY <1>2, <3>2, <3>3 DEF Moved
  <2>4. \A z \in Old : \E x \in exp : f[x] = z
    BY <2>1
  <2> HIDE DEF exp, Old
  <2>5. f \in Bijection(exp, Old)
    BY <2>2, <2>3, <2>4, Fun_IsBij
  <2>6. ExistsBijection(exp, Old)
    BY <2>5, Fun_ExistsBij
  <2>7. IsFiniteSet(exp)
    BY DEF exp
  <2> QED  BY <2>6, <2>7, FS_Bijection
<1>6. Cardinality(New) = Cardinality(left) /\ IsFiniteSet(New)
  <2>1. PICK g : g = [y \in New |-> y.mark.diag]
    OBVIOUS
  <2>2. ASSUME NEW y \in New
        PROVE  g[y] \in left /\ y.mark = Mark(b, u, g[y])
    <3>1. PICK e \in edits : NewAt(lines, e, b, pl[e], y)
      OBVIOUS
    <3>2. PICK d \in left : y.mark = Mark(b, u, d)
      BY <1>3, <3>1 DEF Tells
    <3>3. y.mark.diag = d
      BY <3>2, MarkFields
    <3> HIDE DEF New
    <3> QED  BY <2>1, <3>2, <3>3
  <2>3. g \in [New -> left]
    <3> HIDE DEF New
    <3> QED  BY <2>1, <2>2
  <2>4. ASSUME NEW x \in New, NEW y \in New, g[x] = g[y]  PROVE x = y
    <3>1. PICK d \in edits : NewAt(lines, d, b, pl[d], x)
      OBVIOUS
    <3>2. PICK e \in edits : NewAt(lines, e, b, pl[e], y)
      OBVIOUS
    <3>3. x.mark = y.mark
      BY <2>2, <2>4
    <3>4. d = e
      <4>1. x.mark \in d.marks /\ y.mark \in e.marks /\ d.kind = "extraction" /\ e.kind = "extraction"
        BY <1>3, <3>1, <3>2
      <4> QED  BY <3>3, <4>1 DEF Tells
    <3>5. x = Expectation(IF d.bang THEN "mod" ELSE lines[d.line].name, "extraction", x.mark, pl[d])
      BY <1>3, <3>1
    <3>6. y = Expectation(IF e.bang THEN "mod" ELSE lines[e.line].name, "extraction", y.mark, pl[e])
      BY <1>3, <3>2
    <3> QED  BY <3>3, <3>4, <3>5, <3>6
  <2>5. ASSUME NEW d \in left  PROVE \E y \in New : g[y] = d
    <3>1. PICK e \in edits : e.kind = "extraction" /\ Mark(b, u, d) \in e.marks
      BY DEF Tells
    <3>2. PICK y : y = Expectation(IF e.bang THEN "mod" ELSE lines[e.line].name, "extraction", Mark(b, u, d), pl[e])
      OBVIOUS
    <3>3. NewAt(lines, e, b, pl[e], y)
      BY <3>1, <3>2, MarkFields DEF NewAt
    <3>4. y \in New
      BY <1>0, <3>3, ExpectationsAre
    <3>5. y.mark.diag = d
      BY <3>2, ExpectationFields, MarkFields
    <3> HIDE DEF New
    <3> QED  BY <2>1, <3>4, <3>5
  <2> HIDE DEF New
  <2>6. g \in Bijection(New, left)
    BY <2>3, <2>4, <2>5, Fun_IsBij
  <2>7. g \in Bijection(New, left) => ExistsBijection(left, New)
    <3>1. ExistsBijection(New, left)
      BY <2>6, Fun_ExistsBij
    <3> QED  BY <3>1, Fun_ExistsBijSymmetric
  <2> QED  BY <2>6, <2>7, FS_Bijection
<1> HIDE DEF Old, New, exp
<1>7. /\ IsFiniteSet(Old \cup New)
      /\ Cardinality(Old \cup New) = Cardinality(Old) + Cardinality(New) - Cardinality(Old \cap New)
  BY <1>5, <1>6, FS_Union
<1>8. Cardinality(Old \cap New) = 0 /\ Cardinality(Old) \in Nat /\ Cardinality(New) \in Nat
  BY <1>4, <1>5, <1>6, FS_EmptySet, FS_CardinalityType
<1>9. Cardinality(Old \cup New) = Cardinality(exp) + Cardinality(left)
  BY <1>5, <1>6, <1>7, <1>8
<1> QED  BY <1>1, <1>7, <1>9 DEF exp

\* What a matching takes of either side is as much.
LEMMA MatchedAlike ==
  ASSUME NEW exp, NEW diags, IsFiniteSet(exp), IsFiniteSet(diags), NEW m \in Matchings(exp, diags),
         NEW missing, missing = exp \ {p[1] : p \in m}, NEW left, left = diags \ {p[2] : p \in m}
  PROVE  /\ IsFiniteSet(missing) /\ IsFiniteSet(left)
         /\ Cardinality(exp) + Cardinality(left) = Cardinality(missing) + Cardinality(diags)
<1> DEFINE A == {p[1] : p \in m}
           B == {p[2] : p \in m}
<1>0. /\ m \subseteq exp \X diags
      /\ \A p, q \in m : (p[1] = q[1]) <=> (p[2] = q[2])
  BY MatchingFacts
<1>1. A \subseteq exp /\ B \subseteq diags
  BY <1>0
<1>2. ExistsBijection(A, B)
  <2> DEFINE of(a) == CHOOSE p \in m : p[1] = a
             f == [a \in A |-> of(a)[2]]
  <2>1. \A a \in A : of(a) \in m /\ of(a)[1] = a
    OBVIOUS
  <2>2. f \in [A -> B]
    BY <2>1
  <2>3. \A a, c \in A : f[a] = f[c] => a = c
    BY <1>0, <2>1
  <2>4. ASSUME NEW d \in B  PROVE \E a \in A : f[a] = d
    <3>4. PICK p \in m : d = p[2]
      OBVIOUS
    <3>1. p[1] \in A /\ of(p[1]) \in m /\ of(p[1])[1] = p[1]
      BY <2>1
    <3>2. of(p[1])[2] = p[2]
      BY <1>0, <3>1
    <3>3. f[p[1]] = p[2]
      BY <3>1, <3>2
    <3> HIDE DEF f, A
    <3> QED  BY <3>1, <3>3, <3>4
  <2> HIDE DEF f, A, B
  <2>5. f \in Bijection(A, B)
    BY <2>2, <2>3, <2>4, Fun_IsBij
  <2> QED  BY <2>5, Fun_ExistsBij
<1> HIDE DEF A, B
<1>3. IsFiniteSet(A) /\ Cardinality(B) = Cardinality(A) /\ Cardinality(A) \in Nat
  BY <1>1, <1>2, FS_Subset, FS_Bijection, FS_CardinalityType
<1>4. exp \cap A = A /\ diags \cap B = B /\ missing = exp \ A /\ left = diags \ B
  BY <1>1 DEF A, B
<1>5. IsFiniteSet(missing) /\ Cardinality(missing) = Cardinality(exp) - Cardinality(A)
  <2>1. IsFiniteSet(exp \ A) /\ Cardinality(exp \ A) = Cardinality(exp) - Cardinality(exp \cap A)
    BY FS_Difference
  <2> QED  BY <1>4, <2>1
<1>6. IsFiniteSet(left) /\ Cardinality(left) = Cardinality(diags) - Cardinality(B)
  <2>1. IsFiniteSet(diags \ B) /\ Cardinality(diags \ B) = Cardinality(diags) - Cardinality(diags \cap B)
    BY FS_Difference
  <2> QED  BY <1>4, <2>1
<1>7. Cardinality(exp) \in Nat /\ Cardinality(diags) \in Nat
  BY FS_CardinalityType
<1> QED  BY <1>3, <1>5, <1>6, <1>7

\* In these lines each diagnostic has an expectation, and as many expectations as are missing have none.
Settles(lines, b, diags, missing) ==
  /\ IsFiniteSet(ExpIn(lines, b)) /\ IsFiniteSet(missing)
  /\ \A d \in diags : \E e \in ExpIn(lines, b) : Fits(e, d)
  /\ Cardinality(ExpIn(lines, b)) = Cardinality(missing) + Cardinality(diags)

\* Saving what tells the diagnostics left over settles the file.
LEMMA EditsSettle ==
  ASSUME NEW lines, NEW edits, NEW t, NEW pos, NEW pl, Promoted(lines, edits, t, pos, pl), NEW b, NEW u,
         NEW diags, IsFiniteSet(diags), IsFiniteSet(ExpIn(lines, b)), NEW m \in Matchings(ExpIn(lines, b), diags),
         NEW missing, missing = ExpIn(lines, b) \ {p[1] : p \in m}, NEW left, left = diags \ {p[2] : p \in m},
         Tells(lines, edits, b, u, left),
         \A d \in left : \A e \in edits :
           Mark(b, u, d) \in e.marks => IsForItem(d, IF e.bang THEN "mod" ELSE lines[e.line].name)
  PROVE  Settles(t, b, diags, missing)
<1>1. /\ IsFiniteSet(missing) /\ IsFiniteSet(left)
      /\ Cardinality(ExpIn(lines, b)) + Cardinality(left) = Cardinality(missing) + Cardinality(diags)
  BY MatchedAlike
<1>2. /\ IsFiniteSet(ExpIn(t, b))
      /\ Cardinality(ExpIn(t, b)) = Cardinality(ExpIn(lines, b)) + Cardinality(left)
  BY <1>1, ExpectationsAdded
<1>3. ASSUME NEW d \in diags  PROVE \E e \in ExpIn(t, b) : Fits(e, d)
  <2>1. CASE d \in left
    <3>1. PICK e \in edits : e.kind = "extraction" /\ Mark(b, u, d) \in e.marks
      BY <2>1 DEF Tells
    <3>2. PICK i, y : /\ i = IF e.bang THEN "mod" ELSE lines[e.line].name
                      /\ y = Expectation(i, "extraction", Mark(b, u, d), pl[e])
      OBVIOUS
    <3>3. NewAt(lines, e, b, pl[e], y)
      BY <3>1, <3>2, MarkFields DEF NewAt
    <3>4. \A x \in edits : x.kind = "extraction" => x.bang \/ x.line \in Items(lines)
      BY DEF Tells
    <3>5. y \in ExpIn(t, b)
      BY <3>3, <3>4, ExpectationsAre
    <3>6. y.mark.diag = d /\ y.item = i
      BY <3>2, ExpectationFields, MarkFields
    <3>7. Fits(y, d)
      BY <2>1, <3>1, <3>2, <3>6 DEF Fits
    <3> QED  BY <3>5, <3>7
  <2>2. CASE d \notin left
    <3>1. PICK p \in m : p[2] = d
      BY <2>2
    <3>2. p[1] \in ExpIn(lines, b) /\ Fits(p[1], d)
      BY <3>1, MatchingFacts
    <3>3. PICK x, y : x = p[1] /\ y = Moved(x, pos[x.at])
      OBVIOUS
    <3>4. y \in ExpIn(t, b)
      BY <3>2, <3>3, ExpectationsKept
    <3>5. y.mark = x.mark /\ y.item = x.item
      BY <3>3, ExpectationFields DEF Moved
    <3>6. Fits(y, d)
      BY <3>2, <3>3, <3>5 DEF Fits
    <3> QED  BY <3>4, <3>6
  <2> QED  BY <2>1, <2>2
<1> QED  BY <1>1, <1>2, <1>3 DEF Settles

\* An expectation is left over only when the diagnostics it fits are taken.
LEMMA UnmatchedFit ==
  ASSUME NEW exp, NEW diags, NEW m \in Matchings(exp, diags), NEW x \in exp \ {p[1] : p \in m}, NEW c \in diags, Fits(x, c)
  PROVE  \E p \in m : p[2] = c
BY ZenonT(30) DEF Matchings

\* Then any matching leaves no diagnostic, and as many expectations as were missing.
LEMMA SettledMatches ==
  ASSUME NEW lines, NEW b, NEW diags, IsFiniteSet(diags), NEW missing, Settles(lines, b, diags, missing),
         NEW m \in Matchings(ExpIn(lines, b), diags),
         \A e \in ExpIn(lines, b) : \A c, d \in diags : Fits(e, c) /\ Fits(e, d) => c = d
  PROVE  /\ diags \ {p[2] : p \in m} = {}
         /\ Cardinality(ExpIn(lines, b) \ {p[1] : p \in m}) = Cardinality(missing)
<1> DEFINE exp == ExpIn(lines, b)
<1>1. ASSUME NEW d \in diags  PROVE \E p \in m : p[2] = d
  <2>1. PICK e \in exp : Fits(e, d)
    BY DEF Settles
  <2>2. CASE \E p \in m : p[1] = e
    <3>1. PICK p \in m : p[1] = e
      BY <2>2
    <3>2. Fits(e, p[2]) /\ p[2] \in diags
      BY <3>1, MatchingFacts
    <3> QED  BY <2>1, <3>1, <3>2
  <2>3. CASE ~\E p \in m : p[1] = e
    <3>1. \A x \in exp \ {p[1] : p \in m} : \A c \in diags : Fits(x, c) => \E p \in m : p[2] = c
      <4>1. m \in Matchings(exp, diags)
        OBVIOUS
      <4> HIDE DEF exp
      <4> QED  BY <4>1, UnmatchedFit
    <3>2. e \in exp \ {p[1] : p \in m}
      BY <2>3
    <3> HIDE DEF exp
    <3> QED  BY <2>1, <3>1, <3>2
  <2> QED  BY <2>2, <2>3
<1>2. PICK left, miss : left = diags \ {p[2] : p \in m} /\ miss = exp \ {p[1] : p \in m}
  OBVIOUS
<1>3. left = {}
  BY <1>1, <1>2
<1>4. IsFiniteSet(exp) /\ IsFiniteSet(missing) /\ Cardinality(exp) = Cardinality(missing) + Cardinality(diags)
  BY DEF Settles
<1>5. IsFiniteSet(miss) /\ Cardinality(exp) + Cardinality(left) = Cardinality(miss) + Cardinality(diags)
  BY <1>2, <1>4, MatchedAlike
<1>6. Cardinality(left) = 0
  BY <1>3, FS_EmptySet
<1>7. Cardinality(exp) \in Nat /\ Cardinality(missing) \in Nat /\ Cardinality(miss) \in Nat /\ Cardinality(diags) \in Nat
  BY <1>4, <1>5, FS_CardinalityType
<1>8. Cardinality(miss) = Cardinality(missing)
  BY <1>4, <1>5, <1>6, <1>7
<1> QED  BY <1>2, <1>3, <1>8

(***************************************************************************)
(* The kinds of steps, as promotion sees them: most tasks leave alone what *)
(* is queued and what was found.                                           *)
(***************************************************************************)
Early == {"unspawned", "queued", "extracting"}

\* A step that moves a test, at most, and none back to before its extraction.
Elsewhere ==
  /\ UNCHANGED <<world, files, main, outcome, todo, expected, settled>>
  /\ \A b \in Backend, t \in Test : test'[b][t] \in Early => test[b][t] \in Early

VerifyMark(b, t) == Mark(b, t, [owner |-> "mod", code |-> "exit"])

LEMMA StepKinds ==
  ASSUME Shape, [Next]_vars
  PROVE  \/ Elsewhere /\ UNCHANGED rust_files
         \/ ResolveTests \/ JoinBackends \/ CallAgain
         \/ \E p \in Paths : SaveFile(p)
         \/ /\ \E status \in {"ok", "err"} : ProcessEnds(status)
            /\ settled' = {} \/ (settled' = settled /\ main = "saving" /\ \A p \in Paths : rust_files[p] = {})
         \/ \E b \in Backend, t \in Test : EngineEnds(b, t) /\ main \in {"running", "saving"}
         \/ \E b \in Backend, t \in Test : \E d \in todo[b][t] : PromoteDiagnostic(b, t, d) /\ main = "running"
         \/ \E b \in Backend, t \in Test : /\ Elsewhere /\ main = "running"
                                          /\ PushLine(<<world.file[t], "canonical">>, 0, "tc", TRUE, VerifyMark(b, t))
<1> DEFINE Settles1 == settled' = {} \/ (settled' = settled /\ main = "saving" /\ \A p \in Paths : rust_files[p] = {})
<1>1. CASE UNCHANGED vars
  <2>1. Elsewhere /\ UNCHANGED rust_files
    BY <1>1 DEF vars, Elsewhere
  <2> QED  BY <2>1
<1>2. ASSUME ResolveFails \/ SaveFails \/ Exit \/ Interrupt
      PROVE  (\E status \in {"ok", "err"} : ProcessEnds(status)) /\ Settles1
  BY <1>2 DEF ResolveFails, SaveFails, Exit, Interrupt
<1>3. ASSUME NEW b \in Backend, BackendStep(b)
      PROVE  Elsewhere /\ UNCHANGED rust_files
  <2>1. UNCHANGED <<world, main, outcome, expected>> /\ (RenameHaxmeta(b) \/ test' = test)
    BY <1>3, BackendFrame
  <2>2. UNCHANGED <<files, todo, settled, rust_files>>
    BY <1>3 DEF BackendStep, SpawnBackend, StartSerialize, CreateHaxmeta, EndSerialize, SerializeFails,
                RenameHaxmeta, JoinTests
  <2>3. ASSUME NEW c \in Backend, NEW t \in Test, test'[c][t] \in Early
        PROVE  test[c][t] \in Early
    <3>1. CASE test' = test
      BY <2>3, <3>1
    <3>2. CASE RenameHaxmeta(b) /\ test' # test
      <4>1. backend[b] = "serialized"
            /\ test' = [test EXCEPT ![b] = [u \in Test |-> IF u \in Tests(b) THEN "queued" ELSE @[u]]]
        BY <3>2 DEF RenameHaxmeta
      <4>2. test[b][t] = "unspawned"
        BY <4>1 DEF Shape, SpawnedInOrder
      <4>3. test \in [Backend -> [Test -> TestState]]
        BY DEF Shape, Shapes
      <4>4. CASE c = b
        BY <4>2, <4>4 DEF Early
      <4>5. CASE c # b
        BY <2>3, <4>1, <4>3, <4>5
      <4> QED  BY <4>4, <4>5
    <3> QED  BY <2>1, <3>1, <3>2
  <2> QED  BY <2>1, <2>2, <2>3 DEF Elsewhere
<1>4. ASSUME NEW b \in Backend, NEW t \in Test, TestStep(b, t)
      PROVE  \/ Elsewhere /\ UNCHANGED rust_files
             \/ EngineEnds(b, t) /\ main \in {"running", "saving"}
             \/ \E d \in todo[b][t] : PromoteDiagnostic(b, t, d) /\ main = "running"
             \/ /\ Elsewhere /\ main = "running"
                /\ PushLine(<<world.file[t], "canonical">>, 0, "tc", TRUE, VerifyMark(b, t))
  <2>1. main \in {"running", "saving"}
    BY <1>4, Alive
  <2>2. UNCHANGED <<world, main, expected>>
    BY <1>4, TestFrame
  <2>3. ASSUME StartTest(b, t) \/ EngineFails(b, t) \/ ReportResults(b, t) \/ MoveToSnapshots(b, t) \/ RunVerification(b, t)
        PROVE  Elsewhere
    <3>1. UNCHANGED <<files, outcome, todo, settled>>
      BY <2>3 DEF StartTest, EngineFails, ReportResults, MoveToSnapshots, RunVerification
    <3>2. \E from, to : TestGoes(b, t, from, to) /\ to \in TestState /\ (to \in Early => from \in Early)
      <4>1. CASE StartTest(b, t) \/ EngineFails(b, t)
        BY <4>1 DEF StartTest, EngineFails, TestGoes, At, Goto, TestState, Ended, Early
      <4>2. CASE ReportResults(b, t)
        <5>1. \E to \in {"extracted", "err"} : TestGoes(b, t, "promoting", to)
          BY <4>2 DEF ReportResults, TestGoes, At, Goto
        <5> QED  BY <5>1 DEF TestState, Ended, Early
      <4>3. CASE MoveToSnapshots(b, t)
        <5>1. \E to \in {"panicked", "verifying", "ok"} : TestGoes(b, t, "extracted", to)
          BY <4>3 DEF MoveToSnapshots, TestGoes, At, Goto
        <5> QED  BY <5>1 DEF TestState, Ended, Early
      <4>4. CASE RunVerification(b, t)
        <5>1. \E to \in {"err", "ok"} : TestGoes(b, t, "verifying", to)
          BY <4>4 DEF RunVerification, TestGoes, At, Goto
        <5> QED  BY <5>1 DEF TestState, Ended, Early
      <4> QED  BY <2>3, <4>1, <4>2, <4>3, <4>4
    <3>3. PICK from, to : TestGoes(b, t, from, to) /\ to \in TestState /\ (to \in Early => from \in Early)
      BY <3>2
    <3>4. /\ test[b][t] = from /\ test'[b][t] = to
          /\ \A c \in Backend, u \in Test : c # b \/ u # t => test'[c][u] = test[c][u]
      BY <3>3, TestMoves DEF Shape
    <3>5. \A c \in Backend, u \in Test : test'[c][u] \in Early => test[c][u] \in Early
      BY <3>3, <3>4
    <3> QED  BY <2>2, <3>1, <3>5 DEF Elsewhere
  <2>4. CASE StartTest(b, t) \/ EngineFails(b, t) \/ ReportResults(b, t) \/ MoveToSnapshots(b, t)
    <3>1. UNCHANGED rust_files
      BY <2>4 DEF StartTest, EngineFails, ReportResults, MoveToSnapshots
    <3> QED  BY <2>3, <2>4, <3>1
  <2>5. CASE RunVerification(b, t)
    <3>1. \/ UNCHANGED rust_files
          \/ main # "saving" /\ PushLine(<<world.file[t], "canonical">>, 0, "tc", TRUE, VerifyMark(b, t))
      BY <2>5 DEF RunVerification, VerifyMark, Mark
    <3> QED  BY <2>1, <2>3, <2>5, <3>1
  <2>6. ASSUME NEW d \in todo[b][t], PromoteDiagnostic(b, t, d)  PROVE main = "running"
    BY <2>1, <2>6 DEF PromoteDiagnostic
  <2> QED  BY <1>4, <2>1, <2>4, <2>5, <2>6 DEF TestStep
<1>5. CASE Next
  BY <1>1, <1>2, <1>3, <1>4, <1>5 DEF Next, MainStep, Over
<1> QED  BY <1>1, <1>5

(***************************************************************************)
(* Verdicts on one test: what was reported stays known until the call      *)
(* ends.                                                                   *)
(***************************************************************************)
OutcomeKnown(b, t) ==
  /\ outcome[b][t] # None => Reported(b, t)
  /\ test[b][t] \in Early => outcome[b][t] = None
  /\ todo[b][t] # {} => test[b][t] \notin Early /\ todo[b][t] \subseteq outcome[b][t].unexpected
OutcomesKnown == \A b \in Backend, t \in Test : OutcomeKnown(b, t)

\* Expectations are those of the files as they are, until promotions are saved.
ReadInPlace == main = "running" => \A t \in Test : expected[t] = DirectivesOf(files[world.file[t]])
QueuesEmpty == main \in {"resolving", "exited"} => \A p \in Paths : rust_files[p] = {}

VerdictsInv == OutcomesKnown /\ ReadInPlace /\ QueuesEmpty

LEMMA ReportedStays ==
  ASSUME UNCHANGED <<world, expected>>, NEW b, NEW t, outcome'[b][t] = outcome[b][t], Reported(b, t)
  PROVE  Reported(b, t)'
<1>1. Exp(b, t)' = Exp(b, t) /\ Diags(b, t)' = Diags(b, t)
  BY SameExpectations DEF Exp, Diags
<1>2. Matchings(Exp(b, t), Diags(b, t))' = Matchings(Exp(b, t), Diags(b, t))
  BY <1>1 DEF Matchings, IsForItem
<1> QED  BY <1>1, <1>2 DEF Reported

LEMMA OutcomeStays ==
  ASSUME UNCHANGED <<world, expected>>, NEW b \in Backend, NEW t \in Test, OutcomeKnown(b, t),
         outcome'[b][t] = outcome[b][t], todo'[b][t] \subseteq todo[b][t], test'[b][t] \in Early => test[b][t] \in Early
  PROVE  OutcomeKnown(b, t)'
<1>1. outcome[b][t] # None => Reported(b, t)'
  BY ReportedStays DEF OutcomeKnown
<1>2. todo'[b][t] # {} => test[b][t] \notin Early /\ todo'[b][t] \subseteq outcome[b][t].unexpected
  BY DEF OutcomeKnown
<1>3. Early' = Early
  BY DEF Early
<1> QED  BY <1>1, <1>2, <1>3 DEF OutcomeKnown

LEMMA NothingReported ==
  ASSUME Shape, OutcomesKnown, main \in {"resolving", "exited"}, NEW b \in Backend, NEW t \in Test
  PROVE  outcome[b][t] = None /\ todo[b][t] = {}
BY DEF Shape, AtRest, NothingSpawned, OutcomesKnown, OutcomeKnown, Early

LEMMA KnownInit == Init => VerdictsInv
<1> SUFFICES ASSUME Init  PROVE VerdictsInv
  OBVIOUS
<1>1. /\ main = "resolving" /\ rust_files = [p \in Paths |-> {}]
      /\ todo = [b \in Backend |-> [t \in Test |-> {}]]
      /\ outcome = [b \in Backend |-> [t \in Test |-> None]]
  BY DEF Init, Memory
<1> QED  BY <1>1 DEF VerdictsInv, OutcomesKnown, OutcomeKnown, ReadInPlace, QueuesEmpty

\* The engine's answer is the first word on its test.
LEMMA AnswerKnown ==
  ASSUME JobsInv, OutcomesKnown, NEW b \in Backend, NEW t \in Test, EngineEnds(b, t)
  PROVE  /\ OutcomesKnown'
         /\ outcome[b][t] = None
         /\ \E m \in Matchings(Exp(b, t), Diags(b, t)) :
              /\ outcome'[b][t] = [unexpected |-> Diags(b, t) \ {p[2] : p \in m}, missing |-> Exp(b, t) \ {p[1] : p \in m}]
              /\ todo'[b][t] = IF Promote THEN Diags(b, t) \ {p[2] : p \in m} ELSE {}
         /\ \A c \in Backend, u \in Test : c # b \/ u # t =>
              outcome'[c][u] = outcome[c][u] /\ todo'[c][u] = todo[c][u]
<1>0. Shape /\ Unpromoted
  BY DEF JobsInv
<1>1. UNCHANGED <<world, expected>> /\ TestGoes(b, t, "extracting", "promoting")
  BY DEF EngineEnds, TestGoes, At, Goto
<1>2. PICK m \in Matchings(Exp(b, t), Diags(b, t)) :
        /\ outcome' = [outcome EXCEPT ![b][t] = [unexpected |-> Diags(b, t) \ {p[2] : p \in m},
                                                 missing |-> Exp(b, t) \ {p[1] : p \in m}]]
        /\ todo' = [todo EXCEPT ![b][t] = IF Promote THEN Diags(b, t) \ {p[2] : p \in m} ELSE {}]
  BY DEF EngineEnds, Exp, Diags
<1>3. DOMAIN outcome = Backend /\ \A c \in Backend : DOMAIN outcome[c] = Test
  BY <1>0 DEF Shape, Shapes
<1>4. todo = [c \in Backend |-> [u \in Test |-> todo[c][u]]]
  BY <1>0 DEF Unpromoted
<1>5. PICK o, D : /\ o = [unexpected |-> Diags(b, t) \ {p[2] : p \in m}, missing |-> Exp(b, t) \ {p[1] : p \in m}]
                  /\ D = IF Promote THEN Diags(b, t) \ {p[2] : p \in m} ELSE {}
  OBVIOUS
<1>6. outcome' = [outcome EXCEPT ![b][t] = o] /\ todo' = [todo EXCEPT ![b][t] = D]
  BY <1>2, <1>5
<1>7. outcome'[b][t] = o /\ \A c \in Backend, u \in Test : c # b \/ u # t => outcome'[c][u] = outcome[c][u]
  BY <1>3, <1>6
<1>8. todo'[b][t] = D /\ \A c \in Backend, u \in Test : c # b \/ u # t => todo'[c][u] = todo[c][u]
  BY <1>4, <1>6
<1>9. /\ test[b][t] = "extracting" /\ test'[b][t] = "promoting"
      /\ \A c \in Backend, u \in Test : c # b \/ u # t => test'[c][u] = test[c][u]
  BY <1>0, <1>1, TestMoves DEF Shape, TestState
<1>10. outcome[b][t] = None
  BY <1>9 DEF OutcomesKnown, OutcomeKnown, Early
<1>11. OutcomeKnown(b, t)'
  <2>1. Reported(b, t)'
    <3>1. Exp(b, t)' = Exp(b, t) /\ Diags(b, t)' = Diags(b, t)
      BY <1>1, SameExpectations DEF Exp, Diags
    <3>2. Matchings(Exp(b, t), Diags(b, t))' = Matchings(Exp(b, t), Diags(b, t))
      BY <3>1 DEF Matchings, IsForItem
    <3> QED  BY <1>5, <1>7, <3>1, <3>2 DEF Reported
  <2>2. D \subseteq o.unexpected
    BY <1>5
  <2>3. test'[b][t] \notin Early'
    BY <1>9 DEF Early
  <2> QED  BY <1>7, <1>8, <2>1, <2>2, <2>3 DEF OutcomeKnown
<1>12. ASSUME NEW c \in Backend, NEW u \in Test, c # b \/ u # t  PROVE OutcomeKnown(c, u)'
  <2>1. OutcomeKnown(c, u)
    BY DEF OutcomesKnown
  <2> QED  BY <1>1, <1>7, <1>8, <1>9, <1>12, <2>1, OutcomeStays
<1>13. OutcomesKnown'
  BY <1>11, <1>12 DEF OutcomesKnown
<1> QED  BY <1>2, <1>5, <1>7, <1>8, <1>10, <1>13

(***************************************************************************)
(* What was found, and where it was read, step by step.                    *)
(***************************************************************************)
\* The end of the process forgets everything but the files.
LEMMA EndClears ==
  ASSUME NEW status, ProcessEnds(status)
  PROVE  /\ UNCHANGED <<world, files, expected>> /\ main' = "exited"
         /\ \A p \in Paths : rust_files'[p] = {}
         /\ \A b \in Backend, t \in Test : outcome'[b][t] = None /\ todo'[b][t] = {} /\ test'[b][t] = "unspawned"
<1>1. /\ Memory.rust_files = [p \in Paths |-> {}] /\ Memory.todo = [b \in Backend |-> [t \in Test |-> {}]]
      /\ Memory.outcome = [b \in Backend |-> [t \in Test |-> None]]
      /\ Memory.test = [b \in Backend |-> [t \in Test |-> "unspawned"]]
  BY DEF Memory
<1> QED  BY <1>1 DEF ProcessEnds

LEMMA PromotionFrame ==
  ASSUME NEW b \in Backend, NEW t \in Test, NEW d, PromoteDiagnostic(b, t, d), Unpromoted
  PROVE  /\ UNCHANGED <<world, files, main, test, expected, outcome, settled>>
         /\ todo'[b][t] = todo[b][t] \ {d}
         /\ \A c \in Backend, u \in Test : c # b \/ u # t => todo'[c][u] = todo[c][u]
<1>1. todo = [c \in Backend |-> [u \in Test |-> todo[c][u]]]
  BY DEF Unpromoted
<1>2. todo' = [todo EXCEPT ![b][t] = todo[b][t] \ {d}]
  BY DEF PromoteDiagnostic
<1> QED  BY <1>1, <1>2 DEF PromoteDiagnostic

LEMMA OutcomesStep ==
  ASSUME JobsInv, VerdictsInv, [Next]_vars
  PROVE  OutcomesKnown'
<1>0. Shape /\ Unpromoted /\ OutcomesKnown
  BY DEF JobsInv, VerdictsInv
<1>1. ASSUME Elsewhere  PROVE OutcomesKnown'
  <2> SUFFICES ASSUME NEW b \in Backend, NEW t \in Test  PROVE OutcomeKnown(b, t)'
    BY DEF OutcomesKnown
  <2>1. /\ UNCHANGED <<world, expected>> /\ outcome'[b][t] = outcome[b][t] /\ todo'[b][t] \subseteq todo[b][t]
        /\ test'[b][t] \in Early => test[b][t] \in Early
    BY <1>1 DEF Elsewhere
  <2>2. OutcomeKnown(b, t)
    BY <1>0 DEF OutcomesKnown
  <2> QED  BY <2>1, <2>2, OutcomeStays
<1>2. ASSUME \A b \in Backend, t \in Test : outcome'[b][t] = None /\ todo'[b][t] = {}  PROVE OutcomesKnown'
  BY <1>2 DEF OutcomesKnown, OutcomeKnown
<1>3. CASE ResolveTests
  <2>1. UNCHANGED <<outcome, todo>> /\ main = "resolving"
    BY <1>3 DEF ResolveTests
  <2>2. \A b \in Backend, t \in Test : outcome[b][t] = None /\ todo[b][t] = {}
    BY <1>0, <2>1, NothingReported
  <2> QED  BY <1>2, <2>1, <2>2
<1>4. CASE JoinBackends \/ CallAgain \/ \E p \in Paths : SaveFile(p)
  <2>1. UNCHANGED <<world, expected, outcome, todo, test>>
    BY <1>4 DEF JoinBackends, CallAgain, SaveFile
  <2> SUFFICES ASSUME NEW b \in Backend, NEW t \in Test  PROVE OutcomeKnown(b, t)'
    BY DEF OutcomesKnown
  <2>2. OutcomeKnown(b, t)
    BY <1>0 DEF OutcomesKnown
  <2> QED  BY <2>1, <2>2, OutcomeStays
<1>5. CASE \E status \in {"ok", "err"} : ProcessEnds(status)
  BY <1>2, <1>5, EndClears
<1>6. CASE \E b \in Backend, t \in Test : EngineEnds(b, t)
  BY <1>0, <1>6, AnswerKnown
<1>7. ASSUME NEW c \in Backend, NEW u \in Test, NEW d, PromoteDiagnostic(c, u, d)  PROVE OutcomesKnown'
  <2> SUFFICES ASSUME NEW b \in Backend, NEW t \in Test  PROVE OutcomeKnown(b, t)'
    BY DEF OutcomesKnown
  <2>1. UNCHANGED <<world, expected, outcome, test>> /\ todo'[b][t] \subseteq todo[b][t]
    BY <1>0, <1>7, PromotionFrame
  <2>2. OutcomeKnown(b, t)
    BY <1>0 DEF OutcomesKnown
  <2> QED  BY <2>1, <2>2, OutcomeStays
<1> QED  BY <1>0, <1>1, <1>3, <1>4, <1>5, <1>6, <1>7, StepKinds

LEMMA KnownStep ==
  ASSUME JobsInv, VerdictsInv, [Next]_vars
  PROVE  VerdictsInv'
<1>0. Shape /\ Unpromoted /\ ReadInPlace /\ QueuesEmpty
  BY DEF JobsInv, VerdictsInv
<1> SUFFICES ReadInPlace' /\ QueuesEmpty'
  BY OutcomesStep DEF VerdictsInv
<1>2. ASSUME UNCHANGED <<world, files, main, expected>>, UNCHANGED rust_files \/ main = "running"
      PROVE  ReadInPlace' /\ QueuesEmpty'
  <2>1. ReadInPlace'
    BY <1>0, <1>2 DEF ReadInPlace
  <2>2. QueuesEmpty'
    BY <1>0, <1>2 DEF QueuesEmpty
  <2> QED  BY <2>1, <2>2
<1>3. CASE ResolveTests
  <2>1. /\ main' = "running" /\ UNCHANGED <<world, files>>
        /\ expected' = [t \in Test |-> DirectivesOf(files[world.file[t]])]
    BY <1>3 DEF ResolveTests
  <2> QED  BY <2>1 DEF ReadInPlace, QueuesEmpty
<1>4. CASE JoinBackends
  <2>1. main' = "saving"
    BY <1>4 DEF JoinBackends
  <2> QED  BY <2>1 DEF ReadInPlace, QueuesEmpty
<1>5. CASE CallAgain
  <2>1. main = "exited" /\ main' = "resolving" /\ UNCHANGED rust_files
    BY <1>5 DEF CallAgain
  <2> QED  BY <1>0, <2>1 DEF ReadInPlace, QueuesEmpty
<1>6. CASE \E p \in Paths : SaveFile(p)
  <2>1. main' = "saving"
    BY <1>6 DEF SaveFile
  <2> QED  BY <2>1 DEF ReadInPlace, QueuesEmpty
<1>7. CASE \E status \in {"ok", "err"} : ProcessEnds(status)
  BY <1>7, EndClears DEF ReadInPlace, QueuesEmpty
<1>8. CASE \E b \in Backend, t \in Test : EngineEnds(b, t)
  BY <1>2, <1>8 DEF EngineEnds
<1>9. CASE \E b \in Backend, t \in Test : \E d \in todo[b][t] : PromoteDiagnostic(b, t, d) /\ main = "running"
  BY <1>2, <1>0, <1>9, PromotionFrame
<1>10. CASE Elsewhere /\ (UNCHANGED rust_files \/ main = "running")
  BY <1>2, <1>10 DEF Elsewhere
<1> QED  BY <1>0, <1>3, <1>4, <1>5, <1>6, <1>7, <1>8, <1>9, <1>10, StepKinds

(***************************************************************************)
(* What push_line makes of the edits of a path: no two of one line and one *)
(* kind, with finitely many marks each.                                    *)
(***************************************************************************)
\* What push_line makes of the edits Q of a path: a directive merged, or one more.
Grown(Q, R, n, line, kind, bang, mark) ==
  /\ n.line = line /\ n.kind = kind
  /\ R = {e \in Q : e.line # line \/ e.kind # kind} \cup {n}
  /\ \/ (\A e \in Q : e.line # line \/ e.kind # kind) /\ n.bang = bang /\ n.marks = {mark}
     \/ \E e \in Q : e.line = line /\ e.kind = kind /\ n.bang = e.bang /\ n.marks = e.marks \cup {mark}

LEMMA PushGrows ==
  ASSUME Queued, NEW path \in Paths, NEW line, NEW kind, NEW bang, NEW mark,
         Distinct(rust_files[path]), PushLine(path, line, kind, bang, mark)
  PROVE  /\ \E n : Grown(rust_files[path], rust_files'[path], n, line, kind, bang, mark)
         /\ \A p \in Paths : p # path => rust_files'[p] = rust_files[p]
<1>1. PICK Q, same, R :
        /\ Q = rust_files[path] /\ same = {e \in Q : e.line = line /\ e.kind = kind}
        /\ R = IF same = {} THEN Q \cup {[line |-> line, kind |-> kind, bang |-> bang, marks |-> {mark}]}
               ELSE (Q \ same) \cup {[e EXCEPT !.marks = @ \cup {mark}] : e \in same}
  OBVIOUS
<1>2. rust_files' = [rust_files EXCEPT ![path] = R]
  BY <1>1 DEF PushLine
<1>3. rust_files = [p \in Paths |-> rust_files[p]] /\ \A e \in Q : e \in Edit
  BY <1>1 DEF Queued, QueuedAt
<1>4. rust_files'[path] = R /\ \A p \in Paths : p # path => rust_files'[p] = rust_files[p]
  BY <1>2, <1>3
<1>5. \A d, e \in Q : d.line = e.line /\ d.kind = e.kind => d = e
  BY <1>1 DEF Distinct
<1>6. \E n : Grown(Q, R, n, line, kind, bang, mark)
  <2>1. CASE same = {}
    <3>1. PICK n : n = [line |-> line, kind |-> kind, bang |-> bang, marks |-> {mark}]
      OBVIOUS
    <3>2. n.line = line /\ n.kind = kind /\ n.bang = bang /\ n.marks = {mark}
      BY <3>1
    <3>3. R = Q \cup {n} /\ \A e \in Q : e.line # line \/ e.kind # kind
      BY <1>1, <2>1, <3>1
    <3>4. R = {e \in Q : e.line # line \/ e.kind # kind} \cup {n}
      BY <3>3
    <3>5. Grown(Q, R, n, line, kind, bang, mark)
      BY <3>2, <3>3, <3>4 DEF Grown
    <3> QED  BY <3>5
  <2>2. CASE same # {}
    <3>1. PICK e \in Q : e.line = line /\ e.kind = kind
      BY <1>1, <2>2
    <3>2. same = {e}
      BY <1>1, <1>5, <3>1
    <3>3. PICK n : n = [e EXCEPT !.marks = @ \cup {mark}]
      OBVIOUS
    <3>4. n.line = e.line /\ n.kind = e.kind /\ n.bang = e.bang /\ n.marks = e.marks \cup {mark}
      BY <1>3, <3>3 DEF Edit
    <3>5. R = (Q \ {e}) \cup {n}
      BY <1>1, <2>2, <3>2, <3>3
    <3>6. Q \ {e} = {x \in Q : x.line # line \/ x.kind # kind}
      BY <1>5, <3>1
    <3>7. Grown(Q, R, n, line, kind, bang, mark)
      BY <3>1, <3>4, <3>5, <3>6 DEF Grown
    <3> QED  BY <3>7
  <2> QED  BY <2>1, <2>2
<1> QED  BY <1>1, <1>4, <1>6

LEMMA GrownShape ==
  ASSUME NEW Q, NEW R, NEW n, NEW line, NEW kind, NEW bang, NEW mark, Grown(Q, R, n, line, kind, bang, mark),
         Distinct(Q), \A e \in Q : IsFiniteSet(e.marks)
  PROVE  Distinct(R) /\ \A e \in R : IsFiniteSet(e.marks)
<1>1. /\ n.line = line /\ n.kind = kind
      /\ R = {e \in Q : e.line # line \/ e.kind # kind} \cup {n}
  BY DEF Grown
<1>2. Distinct(R)
  BY <1>1 DEF Distinct
<1>3. IsFiniteSet(n.marks)
  <2>1. CASE n.marks = {mark}
    BY <2>1, FS_Singleton
  <2>2. ASSUME NEW e \in Q, n.marks = e.marks \cup {mark}  PROVE IsFiniteSet(n.marks)
    BY <2>2, FS_AddElement
  <2> QED  BY <2>1, <2>2 DEF Grown
<1> QED  BY <1>1, <1>2, <1>3

(***************************************************************************)
(* The sources through the calls: the items stay, in front of which        *)
(* directives come.                                                        *)
(***************************************************************************)
ItemNames(lines) == {lines[i].name : i \in Items(lines)}
MarksIn(lines) == \A i \in DOMAIN lines : IsDirective(lines[i]) => IsFiniteSet(lines[i].marks)
Continues(lines, was) ==
  /\ lines[1].is = "item" => was[1].is = "item"
  /\ ItemNames(lines) = ItemNames(was)

SameItems == \A f \in File : Continues(files[f], world.lines[f]) /\ MarksIn(files[f])
QueueShape == \A p \in Paths : Distinct(rust_files[p]) /\ \A e \in rust_files[p] : IsFiniteSet(e.marks)
SourcesInv == SameItems /\ QueueShape

\* Writing directives leaves the items, and adds finitely many marks.
LEMMA EditsContinue ==
  ASSUME NEW lines, NEW edits, NEW t, NEW pos, NEW pl, Promoted(lines, edits, t, pos, pl),
         NEW was, Continues(lines, was), MarksIn(lines), \A e \in edits : IsFiniteSet(e.marks)
  PROVE  Continues(t, was) /\ MarksIn(t)
<1>1. /\ \A i \in 1..Len(lines) : pos[i] \in 1..Len(t) /\ t[pos[i]] = lines[i]
      /\ \A e \in edits : pl[e] \in 1..Len(t) /\ t[pl[e]] = Directive(e)
      /\ \A k \in 1..Len(t) : (\E i \in 1..Len(lines) : k = pos[i]) \/ (\E e \in edits : k = pl[e])
  BY DEF Promoted, Layout
<1>2. /\ Len(lines) \in Nat /\ Len(lines) # 0 /\ DOMAIN lines = 1..Len(lines)
      /\ Len(t) \in Nat /\ Len(t) # 0 /\ DOMAIN t = 1..Len(t)
  BY FileDomain DEF Promoted
<1>3. ASSUME NEW e \in edits  PROVE Directive(e).is = "directive" /\ Directive(e).marks = e.marks
  BY DEF Directive
<1>4. t[1].is = "item" => was[1].is = "item"
  <2>1. CASE \E e \in edits : 1 = pl[e]
    BY <1>1, <1>3, <2>1
  <2>2. ASSUME NEW i \in 1..Len(lines), 1 = pos[i]  PROVE t[1].is = "item" => was[1].is = "item"
    <3>1. 1 \in 1..Len(lines)
      BY <1>2
    <3>2. pos[1] \in 1..Len(t)
      BY <1>1, <3>1
    <3>3. 1 <= pos[1] /\ 1 <= i /\ i \in Nat
      BY <1>2, <3>2
    <3>4. ~(1 < i)
      BY <2>2, <3>1, <3>3, PosOrder
    <3>5. i = 1
      BY <3>3, <3>4
    <3> QED  BY <1>1, <2>2, <3>5 DEF Continues
  <2>3. 1 \in 1..Len(t)
    BY <1>2
  <2> QED  BY <1>1, <2>1, <2>2, <2>3
<1>5. ItemNames(t) = ItemNames(lines)
  BY <1>1, ItemsMoved DEF ItemNames
<1>6. ASSUME NEW k \in DOMAIN t, IsDirective(t[k])  PROVE IsFiniteSet(t[k].marks)
  <2>1. CASE \E e \in edits : k = pl[e]
    BY <1>1, <1>3, <2>1
  <2>2. CASE \E i \in 1..Len(lines) : k = pos[i]
    BY <1>1, <1>2, <1>6, <2>2 DEF MarksIn
  <2> QED  BY <1>1, <1>2, <2>1, <2>2
<1> QED  BY <1>4, <1>5, <1>6 DEF Continues, MarksIn

LEMMA SourcesInit == Init => SourcesInv
<1> SUFFICES ASSUME Init  PROVE SourcesInv
  OBVIOUS
<1>1. world \in World /\ files = world.lines /\ rust_files = [p \in Paths |-> {}]
  BY DEF Init, Memory
<1>2. QueueShape
  BY <1>1 DEF QueueShape, Distinct
<1>3. ASSUME NEW f \in File  PROVE MarksIn(files[f])
  <2>1. PICK t \in Test : f = world.file[t]
    BY DEF File
  <2>2. \A line \in Range(files[f]) : line.is = "directive" => IsFiniteSet(line.marks)
    BY <1>1, <2>1, WorldAssumption
  <2> QED  BY <2>2 DEF MarksIn, IsDirective, Range
<1>4. SameItems
  BY <1>1, <1>3 DEF SameItems, Continues
<1> QED  BY <1>2, <1>4 DEF SourcesInv

\* Pushing a directive keeps the shape of the edits.
LEMMA PushShape ==
  ASSUME Queued, QueueShape, NEW path \in Paths, NEW line, NEW kind, NEW bang, NEW mark,
         PushLine(path, line, kind, bang, mark)
  PROVE  QueueShape'
<1>1. Distinct(rust_files[path]) /\ \A e \in rust_files[path] : IsFiniteSet(e.marks)
  BY DEF QueueShape
<1>2. PICK n : Grown(rust_files[path], rust_files'[path], n, line, kind, bang, mark)
  BY <1>1, PushGrows
<1>3. \A p \in Paths : p # path => rust_files'[p] = rust_files[p]
  BY <1>1, PushGrows
<1>4. Distinct(rust_files'[path]) /\ \A e \in rust_files'[path] : IsFiniteSet(e.marks)
  BY <1>1, <1>2, GrownShape
<1>5. \A p \in Paths : Distinct(rust_files'[p]) /\ \A e \in rust_files'[p] : IsFiniteSet(e.marks)
  BY <1>3, <1>4 DEF QueueShape
<1>6. \A p : Distinct(rust_files'[p]) => Distinct(rust_files[p])'
  BY DEF Distinct
<1> QED  BY <1>5, <1>6 DEF QueueShape

\* One file is written, with the edits of its path.
LEMMA Written ==
  ASSUME JobsInv, QueueShape, NEW p \in Paths, SaveFile(p)
  PROVE  /\ p[1] \in File /\ File' = File /\ world' = world
         /\ \E pos, pl : Promoted(files[p[1]], rust_files[p], files'[p[1]], pos, pl)
         /\ files'[p[1]] = Edited(files[p[1]], rust_files[p])
         /\ \A f \in File : f # p[1] => files'[f] = files[f]
         /\ rust_files'[p] = {} /\ \A q \in Paths : q # p => rust_files'[q] = rust_files[q]
<1>1. Sources /\ Queued
  BY DEF JobsInv
<1>2. PICK f, edits, new : f = p[1] /\ edits = rust_files[p] /\ new = Edited(files[f], edits)
  OBVIOUS
<1>3. /\ edits # {} /\ files' = [files EXCEPT ![f] = new] /\ rust_files' = [rust_files EXCEPT ![p] = {}]
      /\ world' = world
  BY <1>2 DEF SaveFile
<1>4. QueuedAt(p) /\ rust_files = [q \in Paths |-> rust_files[q]]
  BY <1>1 DEF Queued
<1>5. /\ f \in File /\ IsFiniteSet(edits) /\ Distinct(edits)
      /\ \A e \in edits : e \in Edit /\ e.line <= Len(files[f])
  BY <1>2, <1>3, <1>4 DEF QueuedAt, QueueShape
<1>6. files = [g \in File |-> files[g]] /\ IsFile(files[f])
  BY <1>1, <1>5 DEF Sources
<1>7. Len(files[f]) \in Nat
  BY <1>6, FileDomain
<1>8. \A e \in edits : e.line \in 0..Len(files[f])
  BY <1>5, <1>7 DEF Edit
<1>9. \E pos, pl : Promoted(files[f], edits, new, pos, pl)
  BY <1>2, <1>5, <1>6, <1>8, EditedPromoted
<1>10. files'[f] = new /\ \A g \in File : g # f => files'[g] = files[g]
  BY <1>3, <1>5, <1>6
<1>11. rust_files'[p] = {} /\ \A q \in Paths : q # p => rust_files'[q] = rust_files[q]
  BY <1>3, <1>4
<1>12. File' = File
  BY <1>3 DEF File
<1> QED  BY <1>2, <1>3, <1>5, <1>9, <1>10, <1>11, <1>12

LEMMA SourcesStep ==
  ASSUME JobsInv, SourcesInv, [Next]_vars
  PROVE  SourcesInv'
<1>0. Shape /\ Queued /\ Unpromoted /\ SameItems /\ QueueShape
  BY DEF JobsInv, SourcesInv
<1>1. ASSUME UNCHANGED <<world, files>>  PROVE SameItems'
  <2>1. File' = File
    BY <1>1 DEF File
  <2>2. \A f \in File : Continues(files[f], world.lines[f]) /\ MarksIn(files[f])
    BY <1>0 DEF SameItems
  <2>3. \A f \in File : Continues(files'[f], world'.lines[f]) /\ MarksIn(files'[f])
    BY <1>1, <2>2
  <2> QED  BY <2>1, <2>3 DEF SameItems
<1>2. ASSUME UNCHANGED <<world, files, rust_files>>  PROVE SourcesInv'
  <2>1. QueueShape'
    BY <1>0, <1>2 DEF QueueShape, Distinct
  <2> QED  BY <1>1, <1>2, <2>1 DEF SourcesInv
<1>3. ASSUME NEW status, ProcessEnds(status)  PROVE SourcesInv'
  <2>1. UNCHANGED <<world, files>> /\ \A p \in Paths : rust_files'[p] = {}
    BY <1>3, EndClears
  <2>2. QueueShape'
    BY <2>1 DEF QueueShape, Distinct
  <2> QED  BY <1>1, <2>1, <2>2 DEF SourcesInv
<1>4. ASSUME UNCHANGED <<world, files>>, NEW path \in Paths, NEW line, NEW kind, NEW bang, NEW mark,
             PushLine(path, line, kind, bang, mark)
      PROVE  SourcesInv'
  BY <1>0, <1>1, <1>4, PushShape DEF SourcesInv
<1>5. ASSUME NEW b \in Backend, NEW t \in Test, NEW d, PromoteDiagnostic(b, t, d)  PROVE SourcesInv'
  <2>1. UNCHANGED <<world, files>>
    BY <1>5 DEF PromoteDiagnostic
  <2>2. \/ UNCHANGED rust_files
        \/ \E h \in SpanHint(t, d.owner) :
             PushLine(<<world.file[t], "span">>, h.line, "extraction", h.bang, [backend |-> b, test |-> t, diag |-> d])
    BY <1>5 DEF PromoteDiagnostic
  <2>3. <<world.file[t], "span">> \in Paths
    BY <1>0, PathsOfTests DEF Shape
  <2> QED  BY <1>2, <1>4, <2>1, <2>2, <2>3
<1>6. ASSUME NEW b \in Backend, NEW t \in Test, Elsewhere,
             PushLine(<<world.file[t], "canonical">>, 0, "tc", TRUE, VerifyMark(b, t))
      PROVE  SourcesInv'
  <2>1. UNCHANGED <<world, files>>
    BY <1>6 DEF Elsewhere
  <2>2. <<world.file[t], "canonical">> \in Paths
    BY <1>0, PathsOfTests DEF Shape
  <2> QED  BY <1>4, <1>6, <2>1, <2>2
<1>7. ASSUME NEW p \in Paths, SaveFile(p)  PROVE SourcesInv'
  <2>1. /\ p[1] \in File /\ File' = File /\ world' = world
        /\ \E pos, pl : Promoted(files[p[1]], rust_files[p], files'[p[1]], pos, pl)
        /\ \A f \in File : f # p[1] => files'[f] = files[f]
        /\ rust_files'[p] = {} /\ \A q \in Paths : q # p => rust_files'[q] = rust_files[q]
    BY <1>0, <1>7, Written
  <2>2. QueueShape'
    BY <1>0, <2>1 DEF QueueShape, Distinct
  <2>3. ASSUME NEW f \in File  PROVE Continues(files'[f], world.lines[f]) /\ MarksIn(files'[f])
    <3>1. Continues(files[f], world.lines[f]) /\ MarksIn(files[f])
      BY <1>0 DEF SameItems
    <3>2. CASE f # p[1]
      BY <2>1, <3>1, <3>2
    <3>3. CASE f = p[1]
      <4>1. PICK pos, pl : Promoted(files[f], rust_files[p], files'[f], pos, pl)
        BY <2>1, <3>3
      <4>2. \A e \in rust_files[p] : IsFiniteSet(e.marks)
        BY <1>0 DEF QueueShape
      <4> QED  BY <3>1, <4>1, <4>2, EditsContinue
    <3> QED  BY <3>2, <3>3
  <2>4. SameItems'
    BY <2>1, <2>3 DEF SameItems
  <2> QED  BY <2>2, <2>4 DEF SourcesInv
<1>8. CASE ResolveTests \/ JoinBackends \/ CallAgain
  BY <1>2, <1>8 DEF ResolveTests, JoinBackends, CallAgain
<1>9. CASE \E b \in Backend, t \in Test : EngineEnds(b, t)
  BY <1>2, <1>9 DEF EngineEnds
<1>10. CASE Elsewhere /\ UNCHANGED rust_files
  BY <1>2, <1>10 DEF Elsewhere
<1> QED  BY <1>0, <1>3, <1>5, <1>6, <1>7, <1>8, <1>9, <1>10, StepKinds

(***************************************************************************)
(* The directives queued while the tests run: each mark is of a failure    *)
(* that a test of the file has promoted, at the place of its owner, and    *)
(* each failure promoted is in one of them.                                *)
(***************************************************************************)
Spans(f) == rust_files[<<f, "span">>]
Canonicals(f) == rust_files[<<f, "canonical">>]

PlacedFor(lines, line, d) ==
  IF d.owner \in {None, "mod"} THEN line = 1 ELSE line \in Items(lines) /\ lines[line].name = d.owner

\* A mark in the edits of a file is of a failure of a test of that file.
MarkRight(f, line, m) ==
  \E b \in Backend, t \in Test : \E d \in Diags(b, t) :
    /\ m = Mark(b, t, d) /\ world.file[t] = f
    /\ test[b][t] \notin Early /\ d \in outcome[b][t].unexpected \ todo[b][t]
    /\ PlacedFor(files[f], line, d)

EditRight(f, e) ==
  /\ e.kind = "extraction" /\ (~e.bang => e.line \in Items(files[f]))
  /\ \A m \in e.marks : MarkRight(f, e.line, m)

Apart(Q) == \A d, e \in Q : d.marks \cap e.marks # {} => d = e

EditsRight ==
  \A f \in File : /\ \A e \in Spans(f) : EditRight(f, e)
                  /\ Apart(Spans(f))
                  /\ \A e \in Canonicals(f) : e.kind = "tc"

PromotedAt(b, t) ==
  outcome[b][t] # None => \A d \in outcome[b][t].unexpected \ todo[b][t] :
    SpanHint(t, d.owner) # {} => \E e \in Spans(world.file[t]) : Mark(b, t, d) \in e.marks

PromotedAll == Promote => \A b \in Backend, t \in Test : PromotedAt(b, t)

PromotingInv == main = "running" => EditsRight /\ PromotedAll

\* What was said of the tests past their extraction still holds.
VerdictsKept ==
  \A b \in Backend, t \in Test :
    test[b][t] \notin Early => /\ test'[b][t] \notin Early /\ outcome'[b][t] = outcome[b][t]
                               /\ todo'[b][t] \subseteq todo[b][t]

LEMMA MarkStays ==
  ASSUME UNCHANGED <<world, files>>, VerdictsKept, NEW f, NEW line, NEW m, MarkRight(f, line, m)
  PROVE  MarkRight(f, line, m)'
<1>1. PICK b \in Backend, t \in Test : \E d \in Diags(b, t) :
        /\ m = Mark(b, t, d) /\ world.file[t] = f
        /\ test[b][t] \notin Early /\ d \in outcome[b][t].unexpected \ todo[b][t]
        /\ PlacedFor(files[f], line, d)
  BY DEF MarkRight
<1>2. PICK d \in Diags(b, t) :
        /\ m = Mark(b, t, d) /\ world.file[t] = f
        /\ test[b][t] \notin Early /\ d \in outcome[b][t].unexpected \ todo[b][t]
        /\ PlacedFor(files[f], line, d)
  BY <1>1
<1>3. Diags(b, t)' = Diags(b, t) /\ Early' = Early
  BY DEF Diags, Early
<1>4. /\ d \in Diags(b, t)' /\ world'.file[t] = f /\ test'[b][t] \notin Early
      /\ d \in outcome'[b][t].unexpected \ todo'[b][t] /\ PlacedFor(files'[f], line, d)
  BY <1>2, <1>3 DEF VerdictsKept
<1> QED  BY <1>2, <1>3, <1>4 DEF MarkRight, Mark

LEMMA EditStays ==
  ASSUME UNCHANGED <<world, files>>, VerdictsKept, NEW f, NEW e, EditRight(f, e)
  PROVE  EditRight(f, e)'
<1>1. ASSUME NEW m \in e.marks  PROVE MarkRight(f, e.line, m)'
  BY <1>1, MarkStays DEF EditRight
<1>2. ~e.bang => e.line \in Items(files'[f])
  BY DEF EditRight
<1> QED  BY <1>1, <1>2 DEF EditRight

LEMMA FilePaths ==
  ASSUME world \in World, NEW f \in File
  PROVE  <<f, "span">> \in Paths /\ <<f, "canonical">> \in Paths /\ <<f, "span">> # <<f, "canonical">>
BY PathsOfTests DEF File

\* The edits are right still when the queues are the same.
LEMMA RightStays ==
  ASSUME Shape, UNCHANGED <<world, files>>, VerdictsKept, EditsRight, NEW f \in File,
         Spans(f)' = Spans(f)
  PROVE  /\ \A e \in Spans(f)' : EditRight(f, e)'
         /\ Apart(Spans(f)')
BY EditStays DEF EditsRight

\* One mark more, of a failure not in the queue yet.
LEMMA GrownRight ==
  ASSUME UNCHANGED <<world, files>>, VerdictsKept, NEW f, NEW Q, NEW R, NEW n, NEW line, NEW bang, NEW mark,
         Grown(Q, R, n, line, "extraction", bang, mark), \A e \in Q : EditRight(f, e), Apart(Q),
         \A e \in Q : mark \notin e.marks, ~bang => line \in Items(files[f]), MarkRight(f, line, mark)'
  PROVE  (\A e \in R : EditRight(f, e)') /\ Apart(R)
<1>1. /\ n.line = line /\ n.kind = "extraction"
      /\ R = {e \in Q : e.line # line \/ e.kind # "extraction"} \cup {n}
  BY DEF Grown
<1>2. \A e \in Q : EditRight(f, e)'
  BY EditStays
<1>3. /\ ~n.bang => line \in Items(files[f])
      /\ \A m \in n.marks : m = mark \/ \E e \in Q : e.line = line /\ e.kind = "extraction" /\ m \in e.marks
  BY DEF Grown, EditRight
<1>4. EditRight(f, n)'
  <2>1. ASSUME NEW m \in n.marks  PROVE MarkRight(f, line, m)'
    <3>1. CASE m = mark
      BY <3>1
    <3>2. ASSUME NEW e \in Q, e.line = line, m \in e.marks  PROVE MarkRight(f, line, m)'
      BY <3>2, MarkStays DEF EditRight
    <3> QED  BY <1>3, <3>1, <3>2
  <2> QED  BY <1>1, <1>3, <2>1 DEF EditRight
<1>5. ASSUME NEW e \in Q, e.line # line \/ e.kind # "extraction", n.marks \cap e.marks # {}  PROVE FALSE
  <2>1. PICK m : m \in n.marks /\ m \in e.marks
    BY <1>5
  <2>2. PICK d \in Q : d.line = line /\ d.kind = "extraction" /\ m \in d.marks
    BY <1>3, <2>1
  <2> QED  BY <1>5, <2>1, <2>2 DEF Apart
<1>6. Apart(R)
  BY <1>1, <1>5 DEF Apart
<1> QED  BY <1>1, <1>2, <1>4, <1>6

LEMMA GrownKeeps ==
  ASSUME NEW Q, NEW R, NEW n, NEW line, NEW kind, NEW bang, NEW mark, Grown(Q, R, n, line, kind, bang, mark),
         Distinct(Q)
  PROVE  /\ n \in R /\ mark \in n.marks
         /\ \A m : (\E e \in Q : m \in e.marks) => \E e \in R : m \in e.marks
<1>1. n \in R /\ mark \in n.marks
  BY DEF Grown
<1>2. ASSUME NEW e \in Q, NEW m \in e.marks  PROVE \E x \in R : m \in x.marks
  <2>1. CASE e.line # line \/ e.kind # kind
    BY <1>2, <2>1 DEF Grown
  <2>2. CASE e.line = line /\ e.kind = kind
    BY <1>1, <1>2, <2>2 DEF Grown, Distinct
  <2> QED  BY <2>1, <2>2
<1> QED  BY <1>1, <1>2

LEMMA MarksDiffer ==
  ASSUME NEW b, NEW t, NEW d, NEW c, NEW u, NEW x, Mark(b, t, d) = Mark(c, u, x)
  PROVE  b = c /\ t = u /\ d = x
BY DEF Mark

\* The place where a directive is pushed is the one its diagnostic is about.
LEMMA HintPlaces ==
  ASSUME NEW t, NEW d, NEW h \in SpanHint(t, d.owner)
  PROVE  PlacedFor(files[world.file[t]], h.line, d) /\ (~h.bang => h.line \in Items(files[world.file[t]]))
BY DEF SpanHint, PlacedFor

\* add_directives_in_files: the mark of a diagnostic goes to the place of its owner, once.
LEMMA PromoteRight ==
  ASSUME JobsInv, OutcomesKnown, QueueShape, EditsRight, PromotedAll,
         NEW b \in Backend, NEW t \in Test, NEW d, PromoteDiagnostic(b, t, d)
  PROVE  EditsRight' /\ PromotedAll'
<1>0. Shape /\ Queued /\ Unpromoted /\ world \in World
  BY DEF JobsInv, Shape
<1>1. /\ UNCHANGED <<world, files, main, test, expected, outcome, settled>>
      /\ todo'[b][t] = todo[b][t] \ {d}
      /\ \A c \in Backend, u \in Test : c # b \/ u # t => todo'[c][u] = todo[c][u]
  BY <1>0, PromotionFrame
<1>2. d \in todo[b][t]
  BY DEF PromoteDiagnostic
<1>3. /\ d \in Diags(b, t) /\ d \in outcome[b][t].unexpected /\ test[b][t] \notin Early
      /\ d \notin todo'[b][t]
  BY <1>0, <1>1, <1>2 DEF Unpromoted, Diags, OutcomesKnown, OutcomeKnown
<1>4. VerdictsKept
  BY <1>1 DEF VerdictsKept
<1>5. PICK f, mark : f = world.file[t] /\ mark = Mark(b, t, d)
  OBVIOUS
<1>6. /\ File' = File /\ f \in File
      /\ \A u, owner : SpanHint(u, owner)' = SpanHint(u, owner)
  BY <1>1, <1>5 DEF File, SpanHint
<1>7. ASSUME NEW c \in Backend, NEW u \in Test, NEW x, x \in outcome'[c][u].unexpected \ todo'[c][u]
      PROVE  (c = b /\ u = t /\ x = d) \/ x \in outcome[c][u].unexpected \ todo[c][u]
  BY <1>1, <1>7
<1>8. \/ UNCHANGED rust_files /\ SpanHint(t, d.owner) = {}
      \/ \E h \in SpanHint(t, d.owner) : PushLine(<<f, "span">>, h.line, "extraction", h.bang, mark)
  BY <1>5 DEF PromoteDiagnostic, Mark
<1>9. CASE UNCHANGED rust_files /\ SpanHint(t, d.owner) = {}
  <2>1. EditsRight'
    <3>1. \A g : Spans(g)' = Spans(g) /\ Canonicals(g)' = Canonicals(g)
      BY <1>9 DEF Spans, Canonicals
    <3>2. ASSUME NEW g \in File  PROVE (\A e \in Spans(g)' : EditRight(g, e)') /\ Apart(Spans(g)')
      BY <1>0, <1>1, <1>4, <3>1, RightStays
    <3>3. \A g \in File : \A e \in Canonicals(g)' : e.kind = "tc"
      BY <3>1 DEF EditsRight
    <3>4. \A Q : Apart(Q)' <=> Apart(Q')
      BY DEF Apart
    <3> QED  BY <1>6, <3>2, <3>3, <3>4 DEF EditsRight
  <2>2. ASSUME Promote, NEW c \in Backend, NEW u \in Test, outcome'[c][u] # None,
               NEW x \in outcome'[c][u].unexpected \ todo'[c][u], SpanHint(u, x.owner)' # {}
        PROVE  \E e \in Spans(world.file[u])' : Mark(c, u, x) \in e.marks
    <3>1. x \in outcome[c][u].unexpected \ todo[c][u]
      BY <1>6, <1>7, <1>9, <2>2
    <3>2. \E e \in Spans(world.file[u]) : Mark(c, u, x) \in e.marks
      BY <1>1, <1>6, <2>2, <3>1 DEF PromotedAll, PromotedAt
    <3> QED  BY <1>1, <1>9, <3>2 DEF Spans
  <2>3. PromotedAll'
    BY <2>2 DEF PromotedAll, PromotedAt, Mark
  <2> QED  BY <2>1, <2>3
<1>10. ASSUME NEW h \in SpanHint(t, d.owner), PushLine(<<f, "span">>, h.line, "extraction", h.bang, mark)
       PROVE  EditsRight' /\ PromotedAll'
  <2>0. PICK path : path = <<f, "span">>
    OBVIOUS
  <2>1. path \in Paths
    BY <1>0, <1>6, <2>0, FilePaths
  <2>2. Distinct(rust_files[path])
    BY <2>1 DEF QueueShape
  <2>3. /\ \E n : Grown(rust_files[path], rust_files'[path], n, h.line, "extraction", h.bang, mark)
        /\ \A p \in Paths : p # path => rust_files'[p] = rust_files[p]
    BY <1>0, <1>10, <2>0, <2>1, <2>2, PushGrows
  <2>4. PICK n : Grown(rust_files[path], rust_files'[path], n, h.line, "extraction", h.bang, mark)
    BY <2>3
  <2>5. Spans(f) = rust_files[path] /\ Spans(f)' = rust_files'[path]
    BY <2>0 DEF Spans
  <2>6. \A g \in File : /\ Canonicals(g)' = Canonicals(g)
                        /\ g # f => Spans(g)' = Spans(g)
    <3> SUFFICES ASSUME NEW g \in File
                 PROVE  Canonicals(g)' = Canonicals(g) /\ (g # f => Spans(g)' = Spans(g))
      OBVIOUS
    <3>1. <<g, "span">> \in Paths /\ <<g, "canonical">> \in Paths
      BY <1>0, FilePaths
    <3>2. <<g, "canonical">> # path /\ (g # f => <<g, "span">> # path)
      BY <2>0
    <3> QED  BY <2>3, <3>1, <3>2 DEF Spans, Canonicals
  <2>7. (\A e \in rust_files'[path] : EditRight(f, e)') /\ Apart(rust_files'[path])
    <3>1. (\A e \in rust_files[path] : EditRight(f, e)) /\ Apart(rust_files[path])
      BY <1>6, <2>5 DEF EditsRight
    <3>2. \A e \in rust_files[path] : mark \notin e.marks
      <4> SUFFICES ASSUME NEW e \in rust_files[path], mark \in e.marks  PROVE FALSE
        OBVIOUS
      <4>1. MarkRight(f, e.line, mark)
        BY <3>1 DEF EditRight
      <4>2. PICK c \in Backend, u \in Test : \E x \in Diags(c, u) :
              mark = Mark(c, u, x) /\ x \in outcome[c][u].unexpected \ todo[c][u]
        BY <4>1 DEF MarkRight
      <4>3. PICK x \in Diags(c, u) : mark = Mark(c, u, x) /\ x \in outcome[c][u].unexpected \ todo[c][u]
        BY <4>2
      <4>4. b = c /\ t = u /\ d = x
        BY <1>5, <4>3 DEF Mark
      <4> QED  BY <1>2, <4>3, <4>4
    <3>3. PlacedFor(files[f], h.line, d) /\ (~h.bang => h.line \in Items(files[f]))
      BY <1>5, HintPlaces
    <3>4. MarkRight(f, h.line, mark)'
      <4>1. /\ d \in Diags(b, t)' /\ world'.file[t] = f /\ test'[b][t] \notin Early
            /\ d \in outcome'[b][t].unexpected \ todo'[b][t] /\ PlacedFor(files'[f], h.line, d)
        BY <1>1, <1>3, <1>5, <3>3 DEF Diags
      <4> QED  BY <1>5, <4>1 DEF MarkRight, Early, Mark
    <3> QED  BY <1>1, <1>4, <2>4, <3>1, <3>2, <3>3, <3>4, GrownRight
  <2>8. EditsRight'
    <3>1. ASSUME NEW g \in File  PROVE (\A e \in Spans(g)' : EditRight(g, e)') /\ Apart(Spans(g)')
      <4>1. CASE g = f
        BY <2>5, <2>7, <4>1
      <4>2. CASE g # f
        BY <1>0, <1>1, <1>4, <2>6, <4>2, RightStays
      <4> QED  BY <4>1, <4>2
    <3>2. \A g \in File : \A e \in Canonicals(g)' : e.kind = "tc"
      BY <2>6 DEF EditsRight
    <3>3. \A Q : Apart(Q)' <=> Apart(Q')
      BY DEF Apart
    <3> QED  BY <1>6, <3>1, <3>2, <3>3 DEF EditsRight
  <2>9. ASSUME Promote, NEW c \in Backend, NEW u \in Test, outcome'[c][u] # None,
               NEW x \in outcome'[c][u].unexpected \ todo'[c][u], SpanHint(u, x.owner)' # {}
        PROVE  \E e \in Spans(world.file[u])' : Mark(c, u, x) \in e.marks
    <3>1. /\ n \in rust_files'[path] /\ mark \in n.marks
          /\ \A m : (\E e \in rust_files[path] : m \in e.marks) => \E e \in rust_files'[path] : m \in e.marks
      BY <2>2, <2>4, GrownKeeps
    <3>0. Spans(world.file[u])' = rust_files'[<<world.file[u], "span">>]
      BY <1>1 DEF Spans
    <3>2. CASE c = b /\ u = t /\ x = d
      BY <1>5, <2>0, <3>0, <3>1, <3>2
    <3>3. CASE x \in outcome[c][u].unexpected \ todo[c][u]
      <4>1. \E e \in Spans(world.file[u]) : Mark(c, u, x) \in e.marks
        BY <1>1, <1>6, <2>9, <3>3 DEF PromotedAll, PromotedAt
      <4>2. world.file[u] \in File
        BY DEF File
      <4>3. CASE world.file[u] = f
        BY <2>0, <2>5, <3>0, <3>1, <4>1, <4>3
      <4>4. CASE world.file[u] # f
        <5>1. Spans(world.file[u])' = Spans(world.file[u])
          <6>1. rust_files'[<<world.file[u], "span">>] = rust_files[<<world.file[u], "span">>]
            BY <2>6, <4>2, <4>4 DEF Spans
          <6> QED  BY <3>0, <6>1 DEF Spans
        <5> QED  BY <4>1, <5>1
      <4> QED  BY <4>3, <4>4
    <3> QED  BY <1>7, <2>9, <3>2, <3>3
  <2>10. PromotedAll'
    BY <1>1, <2>9 DEF PromotedAll, PromotedAt, Mark
  <2> QED  BY <2>8, <2>10
<1> QED  BY <1>8, <1>9, <1>10

LEMMA NothingPromoted ==
  ASSUME Shape, UNCHANGED <<world, files>>, VerdictsKept, EditsRight,
         \A g \in File : Spans(g)' = Spans(g) /\ \A e \in Canonicals(g)' : e.kind = "tc"
  PROVE  EditsRight'
<1>1. ASSUME NEW g \in File  PROVE (\A e \in Spans(g)' : EditRight(g, e)') /\ Apart(Spans(g)')
  BY RightStays
<1>2. File' = File
  BY DEF File
<1>3. \A Q : Apart(Q)' <=> Apart(Q')
  BY DEF Apart
<1> QED  BY <1>1, <1>2, <1>3 DEF EditsRight

LEMMA AllPromoted ==
  ASSUME UNCHANGED <<world, files>>, PromotedAll, \A g \in File : Spans(g)' = Spans(g),
         \A b \in Backend, t \in Test :
           \/ outcome'[b][t] = outcome[b][t] /\ todo'[b][t] = todo[b][t]
           \/ Promote => outcome'[b][t].unexpected \subseteq todo'[b][t]
  PROVE  PromotedAll'
<1> SUFFICES ASSUME Promote, NEW c \in Backend, NEW u \in Test, outcome'[c][u] # None,
                    NEW x \in outcome'[c][u].unexpected \ todo'[c][u], SpanHint(u, x.owner)' # {}
             PROVE  \E e \in Spans(world.file[u])' : Mark(c, u, x) \in e.marks
  BY DEF PromotedAll, PromotedAt, Mark
<1>1. /\ SpanHint(u, x.owner)' = SpanHint(u, x.owner)
      /\ Spans(world.file[u])' = rust_files'[<<world.file[u], "span">>]
  BY DEF SpanHint, Spans
<1>2. world.file[u] \in File
  BY DEF File
<1>3. rust_files'[<<world.file[u], "span">>] = Spans(world.file[u])
  BY <1>2 DEF Spans
<1>4. outcome'[c][u] = outcome[c][u] /\ todo'[c][u] = todo[c][u]
  OBVIOUS
<1>5. \E e \in Spans(world.file[u]) : Mark(c, u, x) \in e.marks
  BY <1>1, <1>4 DEF PromotedAll, PromotedAt
<1> QED  BY <1>1, <1>3, <1>5

LEMMA PromotingStep ==
  ASSUME JobsInv, VerdictsInv, SourcesInv, PromotingInv, [Next]_vars
  PROVE  PromotingInv'
<1>0. Shape /\ Queued /\ Unpromoted /\ OutcomesKnown /\ QueuesEmpty /\ QueueShape /\ world \in World
  BY DEF JobsInv, VerdictsInv, SourcesInv, Shape
<1>1. ASSUME main' # "running"  PROVE PromotingInv'
  BY <1>1 DEF PromotingInv
<1>2. CASE JoinBackends \/ CallAgain \/ \E p \in Paths : SaveFile(p)
  BY <1>1, <1>2 DEF JoinBackends, CallAgain, SaveFile
<1>3. CASE \E status \in {"ok", "err"} : ProcessEnds(status)
  BY <1>1, <1>3, EndClears
<1>4. ASSUME ResolveTests  PROVE PromotingInv'
  <2>1. /\ main = "resolving" /\ UNCHANGED <<world, files, outcome, todo, rust_files>>
    BY <1>4 DEF ResolveTests
  <2>2. File' = File /\ \A g \in File : <<g, "span">> \in Paths /\ <<g, "canonical">> \in Paths
    BY <1>0, <2>1, FilePaths DEF File
  <2>3. \A g \in File : Spans(g)' = {} /\ Canonicals(g)' = {}
    BY <1>0, <2>1, <2>2 DEF QueuesEmpty, Spans, Canonicals
  <2>4. \A b \in Backend, t \in Test : outcome'[b][t] = None
    BY <1>0, <2>1, NothingReported
  <2>5. EditsRight'
    BY <2>2, <2>3 DEF EditsRight, Apart
  <2>6. PromotedAll'
    BY <2>4 DEF PromotedAll, PromotedAt
  <2> QED  BY <2>5, <2>6 DEF PromotingInv
<1>5. ASSUME main = "running", UNCHANGED <<world, files, rust_files>>, VerdictsKept,
             \A b \in Backend, t \in Test :
               \/ outcome'[b][t] = outcome[b][t] /\ todo'[b][t] = todo[b][t]
               \/ Promote => outcome'[b][t].unexpected \subseteq todo'[b][t]
      PROVE  PromotingInv'
  <2>1. EditsRight /\ PromotedAll
    BY <1>5 DEF PromotingInv
  <2>2. \A g \in File : Spans(g)' = Spans(g) /\ \A e \in Canonicals(g)' : e.kind = "tc"
    BY <1>5, <2>1 DEF EditsRight, Spans, Canonicals
  <2>3. EditsRight'
    BY <1>0, <1>5, <2>1, <2>2, NothingPromoted
  <2>4. PromotedAll'
    BY <1>5, <2>1, <2>2, AllPromoted
  <2> QED  BY <2>3, <2>4 DEF PromotingInv
<1>6. ASSUME Elsewhere  PROVE VerdictsKept /\ UNCHANGED <<world, files, main, outcome, todo>>
  BY <1>6 DEF Elsewhere, VerdictsKept
<1>7. CASE Elsewhere /\ UNCHANGED rust_files
  <2>1. CASE main = "running"
    BY <1>5, <1>6, <1>7, <2>1
  <2>2. CASE main # "running"
    BY <1>1, <1>6, <1>7, <2>2
  <2> QED  BY <2>1, <2>2
<1>8. ASSUME NEW b \in Backend, NEW t \in Test, Elsewhere, main = "running",
             PushLine(<<world.file[t], "canonical">>, 0, "tc", TRUE, VerifyMark(b, t))
      PROVE  PromotingInv'
  <2>0. PICK path : path = <<world.file[t], "canonical">>
    OBVIOUS
  <2>1. EditsRight /\ PromotedAll
    BY <1>8 DEF PromotingInv
  <2>2. world.file[t] \in File /\ path \in Paths
    BY <1>0, <2>0, FilePaths DEF File
  <2>3. Distinct(rust_files[path])
    BY <1>0, <2>2 DEF QueueShape
  <2>4. /\ \E n : Grown(rust_files[path], rust_files'[path], n, 0, "tc", TRUE, VerifyMark(b, t))
        /\ \A p \in Paths : p # path => rust_files'[p] = rust_files[p]
    BY <1>0, <1>8, <2>0, <2>2, <2>3, PushGrows
  <2>5. \A e \in rust_files'[path] : e.kind = "tc"
    <3>1. \A e \in rust_files[path] : e.kind = "tc"
      BY <2>0, <2>1, <2>2 DEF EditsRight, Canonicals
    <3> QED  BY <2>4, <3>1 DEF Grown
  <2>6. ASSUME NEW g \in File  PROVE Spans(g)' = Spans(g) /\ \A e \in Canonicals(g)' : e.kind = "tc"
    <3>1. <<g, "span">> \in Paths /\ <<g, "canonical">> \in Paths /\ <<g, "span">> # path
      BY <1>0, <2>0, FilePaths
    <3>2. \A e \in rust_files'[<<g, "canonical">>] : e.kind = "tc"
      BY <2>1, <2>4, <2>5, <3>1 DEF EditsRight, Canonicals
    <3> QED  BY <2>4, <3>1, <3>2 DEF Spans, Canonicals
  <2>7. EditsRight'
    BY <1>0, <1>6, <1>8, <2>1, <2>6, NothingPromoted
  <2>8. PromotedAll'
    BY <1>6, <1>8, <2>1, <2>6, AllPromoted
  <2> QED  BY <2>7, <2>8 DEF PromotingInv
<1>9. ASSUME NEW b \in Backend, NEW t \in Test, EngineEnds(b, t)  PROVE PromotingInv'
  <2>1. UNCHANGED <<world, files, main, rust_files>> /\ TestGoes(b, t, "extracting", "promoting")
    BY <1>9 DEF EngineEnds, TestGoes, At, Goto
  <2>2. PICK m \in Matchings(Exp(b, t), Diags(b, t)) :
          /\ outcome'[b][t] = [unexpected |-> Diags(b, t) \ {p[2] : p \in m}, missing |-> Exp(b, t) \ {p[1] : p \in m}]
          /\ todo'[b][t] = IF Promote THEN Diags(b, t) \ {p[2] : p \in m} ELSE {}
    BY <1>0, <1>9, AnswerKnown
  <2>3. \A c \in Backend, u \in Test : c # b \/ u # t =>
          outcome'[c][u] = outcome[c][u] /\ todo'[c][u] = todo[c][u]
    BY <1>0, <1>9, AnswerKnown
  <2>4. Promote => outcome'[b][t].unexpected \subseteq todo'[b][t]
    BY <2>2
  <2>5. /\ test[b][t] = "extracting"
        /\ \A c \in Backend, u \in Test : c # b \/ u # t => test'[c][u] = test[c][u]
    BY <1>0, <2>1, TestMoves DEF Shape, TestState
  <2>6. VerdictsKept
    BY <2>3, <2>5 DEF VerdictsKept, Early
  <2>7. CASE main = "running"
    BY <1>5, <2>1, <2>3, <2>4, <2>6, <2>7
  <2>8. CASE main # "running"
    BY <1>1, <2>1, <2>8
  <2> QED  BY <2>7, <2>8
<1>10. ASSUME NEW b \in Backend, NEW t \in Test, NEW d, PromoteDiagnostic(b, t, d), main = "running"
       PROVE  PromotingInv'
  <2>1. EditsRight /\ PromotedAll
    BY <1>10 DEF PromotingInv
  <2> QED  BY <1>0, <1>10, <2>1, PromoteRight DEF PromotingInv
<1> QED  BY <1>0, <1>2, <1>3, <1>4, <1>7, <1>8, <1>9, <1>10, StepKinds

(***************************************************************************)
(* Joining the backends: what is queued then for a file settles its test.  *)
(***************************************************************************)
\* Finitely many lines with finitely many marks expect finitely many diagnostics.
LEMMA ExpectationsFinite ==
  ASSUME NEW lines, IsFile(lines), MarksIn(lines), NEW b
  PROVE  IsFiniteSet(ExpIn(lines, b))
<1>1. Len(lines) \in Nat /\ DOMAIN lines = 1..Len(lines)
  BY FileDomain
<1> DEFINE P == {q \in DOMAIN lines : IsDirective(lines[q])}
           at(p) == {x \in DirectivesOf(lines) : x.at = p}
           all == {at(p) : p \in P}
<1>2. IsFiniteSet(P)
  <2>1. IsFiniteSet(1..Len(lines))
    BY <1>1, FS_Interval
  <2> QED  BY <1>1, <2>1, FS_Subset
<1>3. IsFiniteSet(all)
  <2>1. PICK g : g = [p \in P |-> at(p)]
    OBVIOUS
  <2>2. g \in Surjection(P, all)
    BY <2>1 DEF Surjection
  <2> HIDE DEF all, P
  <2> QED  BY <1>2, <2>2, FS_Surjection
<1>4. ASSUME NEW p \in P  PROVE IsFiniteSet(at(p))
  <2>1. \E i : ItemsAt(lines, p) \subseteq {i}
    <3>1. CASE lines[p].bang
      BY <3>1 DEF ItemsAt
    <3>2. CASE ~lines[p].bang
      <4>1. PICK below : below = {i \in Items(lines) : i > p}
        OBVIOUS
      <4>2. Documented(lines, p) =
              IF below = {} THEN {} ELSE {lines[CHOOSE i \in below : \A j \in below : i <= j].name}
        BY <4>1 DEF Documented
      <4> QED  BY <3>2, <4>2 DEF ItemsAt
    <3> QED  BY <3>1, <3>2
  <2>2. PICK i : ItemsAt(lines, p) \subseteq {i}
    BY <2>1
  <2>3. PICK M, kind : M = lines[p].marks /\ kind = lines[p].kind
    OBVIOUS
  <2>4. PICK g, T : T = {Expectation(i, kind, m, p) : m \in M} /\ g = [m \in M |-> Expectation(i, kind, m, p)]
    OBVIOUS
  <2>5. g \in Surjection(M, T)
    BY <2>4 DEF Surjection
  <2>6. IsFiniteSet(M)
    BY <2>3 DEF MarksIn
  <2>7. IsFiniteSet(T)
    BY <2>5, <2>6, FS_Surjection
  <2>8. at(p) \subseteq T
    <3> SUFFICES ASSUME NEW x \in DirectivesOf(lines), x.at = p  PROVE x \in T
      OBVIOUS
    <3>1. PICK q \in DOMAIN lines : \E j \in ItemsAt(lines, q), m \in lines[q].marks :
            x = Expectation(j, lines[q].kind, m, q)
      BY InDirectives
    <3>2. q = p
      BY <3>1, ExpectationFields
    <3> QED  BY <2>2, <2>3, <2>4, <3>1, <3>2
  <2> QED  BY <2>7, <2>8, FS_Subset
<1>5. DirectivesOf(lines) \subseteq UNION all
  <2> SUFFICES ASSUME NEW x \in DirectivesOf(lines)  PROVE \E p \in P : x.at = p
    OBVIOUS
  <2>1. PICK q \in DOMAIN lines : IsDirective(lines[q]) /\
          \E j \in ItemsAt(lines, q), m \in lines[q].marks : x = Expectation(j, lines[q].kind, m, q)
    BY InDirectives
  <2> QED  BY <2>1, ExpectationFields
<1>6. \A S \in all : IsFiniteSet(S)
  BY <1>4
<1> HIDE DEF all
<1>7. IsFiniteSet(UNION all)
  BY <1>3, <1>6, FS_UNION
<1>8. ExpIn(lines, b) \subseteq UNION all
  BY <1>5 DEF ExpIn
<1> QED  BY <1>7, <1>8, FS_Subset

\* Promotion can settle a test whose failures have a place of their own in its file.
CanSettle(b, t) ==
  /\ world.lines[world.file[t]][1].is = "item" => \A d \in Diags(b, t) : d.owner # "mod"
  /\ \A d \in Diags(b, t) : d.owner \in {None, "mod"} \cup ItemNames(world.lines[world.file[t]])
  /\ \A u \in Test : u # t => world.file[u] # world.file[t]

\* A file once the edits of one path are written.
Saved(f) ==
  IF Spans(f) # {} THEN Edited(files[f], Spans(f))
  ELSE IF Canonicals(f) # {} THEN Edited(files[f], Canonicals(f)) ELSE files[f]

\* What the directives pushed under the spans say of a test that is alone in its file.
LEMMA SpansTell ==
  ASSUME world \in World, SameItems, EditsRight, PromotedAll, Promote, NEW b \in Backend, NEW t \in Test,
         outcome[b][t] # None, todo[b][t] = {}, outcome[b][t].unexpected \subseteq Diags(b, t), CanSettle(b, t),
         NEW f, f = world.file[t], NEW left, left = outcome[b][t].unexpected
  PROVE  /\ Tells(files[f], Spans(f), b, t, left)
         /\ \A d \in left : \A e \in Spans(f) :
              Mark(b, t, d) \in e.marks => IsForItem(d, IF e.bang THEN "mod" ELSE files[f][e.line].name)
<1>1. f \in File
  BY DEF File
<1>2. (\A e \in Spans(f) : EditRight(f, e)) /\ Apart(Spans(f))
  BY <1>1 DEF EditsRight
<1>3. Continues(files[f], world.lines[f])
  BY <1>1 DEF SameItems
<1>4. ASSUME NEW e \in Spans(f), NEW m \in e.marks, m.backend = b
      PROVE  \E d \in left : m = Mark(b, t, d)
  <2>1. MarkRight(f, e.line, m)
    BY <1>2 DEF EditRight
  <2>2. PICK c \in Backend, u \in Test : \E d \in Diags(c, u) :
          m = Mark(c, u, d) /\ world.file[u] = f /\ d \in outcome[c][u].unexpected
    BY <2>1 DEF MarkRight
  <2>3. PICK d \in Diags(c, u) : m = Mark(c, u, d) /\ world.file[u] = f /\ d \in outcome[c][u].unexpected
    BY <2>2
  <2>4. c = b /\ u = t
    BY <1>4, <2>3, MarkFields DEF CanSettle
  <2> QED  BY <2>3, <2>4
<1>5. ASSUME NEW d \in left  PROVE \E e \in Spans(f) : Mark(b, t, d) \in e.marks
  <2>1. d.owner \in {None, "mod"} \cup ItemNames(files[f])
    BY <1>3 DEF CanSettle, Continues
  <2>2. SpanHint(t, d.owner) # {}
    <3>1. CASE d.owner \in {None, "mod"}
      BY <3>1 DEF SpanHint
    <3>2. CASE d.owner \notin {None, "mod"}
      <4>1. PICK i \in Items(files[f]) : files[f][i].name = d.owner
        BY <2>1, <3>2 DEF ItemNames
      <4>2. [line |-> i, bang |-> FALSE] \in SpanHint(t, d.owner)
        BY <3>2, <4>1 DEF SpanHint
      <4> QED  BY <4>2
    <3> QED  BY <3>1, <3>2
  <2>3. PromotedAt(b, t)
    BY DEF PromotedAll
  <2> QED  BY <2>2, <2>3 DEF PromotedAt
<1>6. Tells(files[f], Spans(f), b, t, left)
  <2>1. \A e \in Spans(f) : e.kind = "extraction" /\ (e.bang \/ e.line \in Items(files[f]))
    BY <1>2 DEF EditRight
  <2>2. \A d, e \in Spans(f) : d.marks \cap e.marks # {} => d = e
    BY <1>2 DEF Apart
  <2>3. \A e \in Spans(f) : \A m \in e.marks : m.backend = b => \E d \in left : m = Mark(b, t, d)
    BY <1>4
  <2>4. \A d \in left : \E e \in Spans(f) : Mark(b, t, d) \in e.marks
    BY <1>5
  <2> QED  BY <2>1, <2>2, <2>3, <2>4 DEF Tells
<1>7. ASSUME NEW d \in left, NEW e \in Spans(f), Mark(b, t, d) \in e.marks
      PROVE  IsForItem(d, IF e.bang THEN "mod" ELSE files[f][e.line].name)
  <2>1. CASE e.bang
    BY <2>1 DEF IsForItem
  <2>2. CASE ~e.bang
    <3>1. e.line \in Items(files[f]) /\ MarkRight(f, e.line, Mark(b, t, d))
      BY <1>2, <1>7, <2>2 DEF EditRight
    <3>2. PICK c \in Backend, u \in Test : \E x \in Diags(c, u) :
            Mark(b, t, d) = Mark(c, u, x) /\ PlacedFor(files[f], e.line, x)
      BY <3>1 DEF MarkRight
    <3>3. PICK x : Mark(b, t, d) = Mark(c, u, x) /\ PlacedFor(files[f], e.line, x)
      BY <3>2
    <3>4. PlacedFor(files[f], e.line, d)
      BY <3>3, MarkFields
    <3>5. CASE d.owner = None
      BY <3>5 DEF IsForItem
    <3>6. CASE d.owner = "mod"
      <4>1. e.line = 1
        BY <3>4, <3>6 DEF PlacedFor
      <4>2. files[f][1].is = "item"
        BY <3>1, <4>1 DEF Items
      <4>3. world.lines[f][1].is = "item"
        BY <1>3, <4>2 DEF Continues
      <4> QED  BY <3>6, <4>3 DEF CanSettle
    <3>7. CASE d.owner \notin {None, "mod"}
      <4>1. files[f][e.line].name = d.owner
        BY <3>4, <3>7 DEF PlacedFor
      <4>2. <<d.owner, d.owner>> \in Inside
        BY <3>7, WorldAssumption DEF Diags
      <4> QED  BY <2>2, <4>1, <4>2 DEF IsForItem
    <3> QED  BY <3>5, <3>6, <3>7
  <2> QED  BY <2>1, <2>2
<1> QED  BY <1>6, <1>7

\* When the backends are joined, saving the edits of a file settles a test with edits under one path.
LEMMA JoinSettles ==
  ASSUME JobsInv, VerdictsInv, SourcesInv, EditsRight, PromotedAll, main = "running", Promote,
         NEW b \in Backend, NEW t \in Test, outcome[b][t] # None, todo[b][t] = {}, CanSettle(b, t),
         NEW f, f = world.file[t], Spans(f) = {} \/ Canonicals(f) = {}
  PROVE  Settles(Saved(f), b, Diags(b, t), outcome[b][t].missing)
<1>0. /\ Sources /\ Queued /\ SameItems /\ QueueShape /\ world \in World
      /\ Reported(b, t) /\ expected[t] = DirectivesOf(files[f])
  BY DEF JobsInv, Shape, VerdictsInv, SourcesInv, OutcomesKnown, OutcomeKnown, ReadInPlace
<1>1. f \in File
  BY DEF File
<1>2. <<f, "span">> \in Paths /\ <<f, "canonical">> \in Paths
  BY <1>0, <1>1, FilePaths
<1>3. PICK lines, diags, missing, left :
        /\ lines = files[f] /\ diags = Diags(b, t)
        /\ missing = outcome[b][t].missing /\ left = outcome[b][t].unexpected
  OBVIOUS
<1>4. IsFile(lines) /\ MarksIn(lines)
  BY <1>0, <1>1, <1>3 DEF Sources, SameItems
<1>5. Exp(b, t) = ExpIn(lines, b)
  BY <1>0, <1>3 DEF Exp, ExpectedDiagnostics, ExpIn
<1>6. PICK m \in Matchings(ExpIn(lines, b), diags) :
        missing = ExpIn(lines, b) \ {p[1] : p \in m} /\ left = diags \ {p[2] : p \in m}
  BY <1>0, <1>3, <1>5 DEF Reported
<1>7. IsFiniteSet(diags) /\ IsFiniteSet(ExpIn(lines, b))
  BY <1>0, <1>3, <1>4, WorldAssumption, ExpectationsFinite DEF Diags
<1>8. /\ Tells(lines, Spans(f), b, t, left)
      /\ \A d \in left : \A e \in Spans(f) :
           Mark(b, t, d) \in e.marks => IsForItem(d, IF e.bang THEN "mod" ELSE lines[e.line].name)
  BY <1>0, <1>3, <1>6, SpansTell
<1>9. ASSUME NEW edits, edits = Spans(f) \/ edits = Canonicals(f)
      PROVE  \E pos, pl : Promoted(lines, edits, Edited(lines, edits), pos, pl)
  <2>1. PICK p \in Paths : p[1] = f /\ edits = rust_files[p]
    BY <1>2, <1>9 DEF Spans, Canonicals
  <2>2. IsFiniteSet(edits) /\ Distinct(edits) /\ \A e \in edits : e \in Edit /\ e.line <= Len(lines)
    BY <1>0, <1>3, <2>1 DEF Queued, QueuedAt, QueueShape
  <2>3. Len(lines) \in Nat
    BY <1>4, FileDomain
  <2>4. \A e \in edits : e.line \in 0..Len(lines)
    BY <2>2, <2>3 DEF Edit
  <2> QED  BY <1>4, <2>2, <2>4, EditedPromoted
<1>10. CASE Spans(f) # {}
  <2>1. PICK pos, pl : Promoted(lines, Spans(f), Edited(lines, Spans(f)), pos, pl)
    BY <1>9
  <2>2. Settles(Edited(lines, Spans(f)), b, diags, missing)
    BY <1>6, <1>7, <1>8, <2>1, EditsSettle
  <2> QED  BY <1>3, <1>10, <2>2 DEF Saved
<1>11. ASSUME Spans(f) = {}  PROVE left = {}
  BY <1>8, <1>11 DEF Tells
<1>12. CASE Spans(f) = {} /\ Canonicals(f) # {}
  <2>1. PICK pos, pl : Promoted(lines, Canonicals(f), Edited(lines, Canonicals(f)), pos, pl)
    BY <1>9
  <2>2. \A e \in Canonicals(f) : e.kind # "extraction"
    BY <1>1 DEF EditsRight
  <2>3. Tells(lines, Canonicals(f), b, t, left)
    BY <1>11, <1>12, <2>2 DEF Tells
  <2>4. left = {}
    BY <1>11, <1>12
  <2>5. Settles(Edited(lines, Canonicals(f)), b, diags, missing)
    BY <1>6, <1>7, <2>1, <2>3, <2>4, EditsSettle
  <2> QED  BY <1>3, <1>12, <2>5 DEF Saved
<1>13. CASE Spans(f) = {} /\ Canonicals(f) = {}
  <2>1. left = {}
    BY <1>11, <1>13
  <2>2. /\ IsFiniteSet(missing)
        /\ Cardinality(ExpIn(lines, b)) + Cardinality(left) = Cardinality(missing) + Cardinality(diags)
    BY <1>6, <1>7, MatchedAlike
  <2>3. Cardinality(left) = 0 /\ Cardinality(ExpIn(lines, b)) \in Nat
    BY <1>7, <2>1, FS_EmptySet, FS_CardinalityType
  <2>4. Cardinality(ExpIn(lines, b)) = Cardinality(missing) + Cardinality(diags)
    BY <2>2, <2>3
  <2>5. ASSUME NEW d \in diags  PROVE \E e \in ExpIn(lines, b) : Fits(e, d)
    <3>1. PICK p \in m : p[2] = d
      BY <1>6, <2>1
    <3> QED  BY <3>1, MatchingFacts
  <2>6. Settles(lines, b, diags, missing)
    BY <1>7, <2>2, <2>4, <2>5 DEF Settles
  <2> QED  BY <1>3, <1>13, <2>6 DEF Saved
<1> QED  BY <1>10, <1>12, <1>13

\* What a file is, or will be once what is queued for it is written.
Final(f) == IF main = "saving" THEN Saved(f) ELSE files[f]

SettledAt(s) ==
  CanSettle(s.backend, s.test) =>
    /\ Settles(Final(world.file[s.test]), s.backend, Diags(s.backend, s.test), s.missing)
    /\ main = "saving" => Spans(world.file[s.test]) = {} \/ Canonicals(world.file[s.test]) = {}

SettledInv == \A s \in settled : s.test \in Test /\ SettledAt(s)

LEMMA SettledStays ==
  ASSUME UNCHANGED world, NEW s, SettledAt(s), s.test \in Test, NEW f, f = world.file[s.test],
         Final(f)' = Final(f), main' = "saving" => main = "saving" /\ Spans(f)' \subseteq Spans(f) /\ Canonicals(f)' \subseteq Canonicals(f)
  PROVE  SettledAt(s)'
<1>1. CanSettle(s.backend, s.test)' <=> CanSettle(s.backend, s.test)
  BY DEF CanSettle, Diags
<1>2. Diags(s.backend, s.test)' = Diags(s.backend, s.test)
  BY DEF Diags
<1>3. Final(world.file[s.test])' = Final(world.file[s.test])
  BY DEF Final, Saved, Spans, Canonicals
<1>4. ASSUME CanSettle(s.backend, s.test)
      PROVE  Settles(Final(world.file[s.test])', s.backend, Diags(s.backend, s.test)', s.missing)
  BY <1>2, <1>3, <1>4 DEF SettledAt
<1>5. ASSUME CanSettle(s.backend, s.test), main' = "saving"
      PROVE  (Spans(world.file[s.test]) = {} \/ Canonicals(world.file[s.test]) = {})'
  BY <1>5 DEF SettledAt, Spans, Canonicals
<1> QED  BY <1>1, <1>4, <1>5 DEF SettledAt

PromotionInv == JobsInv /\ VerdictsInv /\ SourcesInv /\ PromotingInv /\ SettledInv

\* What was settled at the join stays so while the files are written, and afterwards.
LEMMA SettledStep ==
  ASSUME PromotionInv, [Next]_vars
  PROVE  SettledInv'
<1>0. /\ JobsInv /\ VerdictsInv /\ SourcesInv /\ PromotingInv
      /\ Shape /\ world \in World /\ QueueShape /\ \A s \in settled : s.test \in Test /\ SettledAt(s)
  BY DEF PromotionInv, JobsInv, Shape, SettledInv, SourcesInv
<1>1. ASSUME UNCHANGED <<world, settled>>,
             \A f \in File : /\ Final(f)' = Final(f)
                             /\ main' = "saving" => /\ main = "saving" /\ Spans(f)' \subseteq Spans(f)
                                                    /\ Canonicals(f)' \subseteq Canonicals(f)
      PROVE  SettledInv'
  <2> SUFFICES ASSUME NEW s \in settled  PROVE s.test \in Test /\ SettledAt(s)'
    BY <1>1 DEF SettledInv
  <2>1. PICK f : f = world.file[s.test]
    OBVIOUS
  <2>2. f \in File /\ s.test \in Test /\ SettledAt(s)
    BY <1>0, <2>1 DEF File
  <2> QED  BY <1>1, <2>1, <2>2, SettledStays
<1>2. ASSUME UNCHANGED <<world, files, settled, main>>, UNCHANGED rust_files \/ main = "running"
      PROVE  SettledInv'
  <2>1. ASSUME NEW f \in File
        PROVE  /\ Final(f)' = Final(f)
               /\ main' = "saving" => main = "saving" /\ Spans(f)' \subseteq Spans(f) /\ Canonicals(f)' \subseteq Canonicals(f)
    BY <1>2 DEF Final, Saved, Spans, Canonicals
  <2> QED  BY <1>1, <1>2, <2>1
<1>3. ASSUME UNCHANGED <<world, files, settled>>, main # "saving", main' # "saving"
      PROVE  SettledInv'
  <2>1. \A f \in File : Final(f)' = Final(f)
    BY <1>3 DEF Final
  <2> QED  BY <1>1, <1>3, <2>1
<1>4. CASE ResolveTests \/ CallAgain
  BY <1>3, <1>4 DEF ResolveTests, CallAgain
<1>5. ASSUME JoinBackends  PROVE SettledInv'
  <2>1. main = "running" /\ main' = "saving" /\ UNCHANGED <<world, files, outcome, todo, rust_files>>
    BY <1>5 DEF JoinBackends
  <2>2. EditsRight /\ PromotedAll
    BY <1>0, <2>1 DEF PromotingInv
  <2> SUFFICES ASSUME NEW s \in settled'  PROVE s.test \in Test /\ SettledAt(s)'
    BY DEF SettledInv
  <2>3. PICK p \in Backend \X Test :
          /\ s = [backend |-> p[1], test |-> p[2], missing |-> outcome[p[1]][p[2]].missing]
          /\ Promote /\ outcome[p[1]][p[2]] # None /\ todo[p[1]][p[2]] = {}
          /\ \E k \in {"span", "canonical"} : rust_files[<<world.file[p[2]], k>>] = {}
    BY <1>5 DEF JoinBackends
  <2>4. PICK b \in Backend, t \in Test : b = p[1] /\ t = p[2]
    OBVIOUS
  <2>5. PICK f : f = world.file[t]
    OBVIOUS
  <2>6. s.backend = b /\ s.test = t /\ s.missing = outcome[b][t].missing
    BY <2>3, <2>4
  <2>7. Promote /\ outcome[b][t] # None /\ todo[b][t] = {} /\ (Spans(f) = {} \/ Canonicals(f) = {})
    BY <2>3, <2>4, <2>5 DEF Spans, Canonicals
  <2>8. ASSUME CanSettle(b, t)  PROVE Settles(Saved(f), b, Diags(b, t), outcome[b][t].missing)
    BY <1>0, <2>1, <2>2, <2>5, <2>7, <2>8, JoinSettles
  <2>9. /\ CanSettle(b, t)' <=> CanSettle(b, t)
        /\ Diags(b, t)' = Diags(b, t) /\ world'.file[t] = f
        /\ Final(f)' = Saved(f)
        /\ (Spans(f) = {} \/ Canonicals(f) = {})'
    BY <2>1, <2>5, <2>7 DEF CanSettle, Diags, Final, Saved, Spans, Canonicals
  <2>10. Final(world.file[t])' = Saved(f)
    BY <2>1, <2>5, <2>9 DEF Final, Saved, Spans, Canonicals
  <2>11. (Spans(world.file[t]) = {} \/ Canonicals(world.file[t]) = {})'
    BY <2>1, <2>5, <2>7 DEF Spans, Canonicals
  <2>12. ASSUME CanSettle(b, t)'
         PROVE  Settles(Final(world.file[t])', b, Diags(b, t)', outcome[b][t].missing)
    BY <2>8, <2>9, <2>10, <2>12
  <2>13. CanSettle(s.backend, s.test)' <=> CanSettle(b, t)'
    BY <2>6
  <2> QED  BY <2>6, <2>11, <2>12, <2>13 DEF SettledAt
<1>6. ASSUME NEW p \in Paths, SaveFile(p)  PROVE SettledInv'
  <2>1. /\ p[1] \in File /\ files'[p[1]] = Edited(files[p[1]], rust_files[p])
        /\ \A g \in File : g # p[1] => files'[g] = files[g]
        /\ rust_files'[p] = {} /\ \A q \in Paths : q # p => rust_files'[q] = rust_files[q]
    BY <1>0, <1>6, Written
  <2>2. UNCHANGED <<world, settled>> /\ main = "saving" /\ main' = "saving" /\ rust_files[p] # {}
    BY <1>6 DEF SaveFile
  <2> SUFFICES ASSUME NEW s \in settled  PROVE s.test \in Test /\ SettledAt(s)'
    BY <2>2 DEF SettledInv
  <2>3. PICK f : f = world.file[s.test]
    OBVIOUS
  <2>4. f \in File /\ s.test \in Test /\ SettledAt(s)
    BY <1>0, <2>3 DEF File
  <2>5. <<f, "span">> \in Paths /\ <<f, "canonical">> \in Paths /\ <<f, "span">> # <<f, "canonical">>
    BY <1>0, <2>4, FilePaths
  <2>6. /\ Spans(f)' = IF p = <<f, "span">> THEN {} ELSE Spans(f)
        /\ Canonicals(f)' = IF p = <<f, "canonical">> THEN {} ELSE Canonicals(f)
    BY <2>1, <2>5 DEF Spans, Canonicals
  <2>7. Spans(f)' \subseteq Spans(f) /\ Canonicals(f)' \subseteq Canonicals(f)
    BY <2>6
  <2>8. CASE ~CanSettle(s.backend, s.test)
    <3>1. ~CanSettle(s.backend, s.test)'
      BY <2>2, <2>8 DEF CanSettle, Diags
    <3> QED  BY <2>4, <3>1 DEF SettledAt
  <2>9. ASSUME CanSettle(s.backend, s.test)  PROVE Final(f)' = Final(f)
    <3>1. Spans(f) = {} \/ Canonicals(f) = {}
      BY <2>2, <2>3, <2>4, <2>9 DEF SettledAt
    <3>2. Final(f)' = IF Spans(f)' # {} THEN Edited(files'[f], Spans(f)')
                      ELSE IF Canonicals(f)' # {} THEN Edited(files'[f], Canonicals(f)') ELSE files'[f]
      BY <2>2 DEF Final, Saved, Edited
    <3>3. Final(f) = IF Spans(f) # {} THEN Edited(files[f], Spans(f))
                     ELSE IF Canonicals(f) # {} THEN Edited(files[f], Canonicals(f)) ELSE files[f]
      BY <2>2 DEF Final, Saved
    <3>4. CASE p = <<f, "span">>
      <4>1. Spans(f) # {} /\ Canonicals(f) = {} /\ files'[f] = Edited(files[f], Spans(f))
        BY <2>1, <2>2, <3>1, <3>4 DEF Spans
      <4>2. Spans(f)' = {} /\ Canonicals(f)' = {}
        BY <2>5, <2>6, <3>4, <4>1
      <4> QED  BY <3>2, <3>3, <4>1, <4>2
    <3>5. CASE p = <<f, "canonical">>
      <4>1. Canonicals(f) # {} /\ Spans(f) = {} /\ files'[f] = Edited(files[f], Canonicals(f))
        BY <2>1, <2>2, <3>1, <3>5 DEF Canonicals
      <4>2. Spans(f)' = {} /\ Canonicals(f)' = {}
        BY <2>5, <2>6, <3>5, <4>1
      <4> QED  BY <3>2, <3>3, <4>1, <4>2
    <3>6. CASE p # <<f, "span">> /\ p # <<f, "canonical">>
      <4>1. p[1] # f
        BY <3>6 DEF Paths
      <4>2. files'[f] = files[f] /\ Spans(f)' = Spans(f) /\ Canonicals(f)' = Canonicals(f)
        BY <2>1, <2>4, <2>6, <3>6, <4>1
      <4> QED  BY <3>2, <3>3, <4>2
    <3> QED  BY <3>4, <3>5, <3>6
  <2>10. CASE CanSettle(s.backend, s.test)
    BY <2>2, <2>3, <2>4, <2>7, <2>9, <2>10, SettledStays
  <2> QED  BY <2>4, <2>8, <2>10
<1>7. ASSUME NEW status, ProcessEnds(status),
             settled' = {} \/ (settled' = settled /\ main = "saving" /\ \A p \in Paths : rust_files[p] = {})
      PROVE  SettledInv'
  <2>1. CASE settled' = {}
    BY <2>1 DEF SettledInv
  <2>2. CASE settled' = settled /\ main = "saving" /\ \A p \in Paths : rust_files[p] = {}
    <3>1. UNCHANGED <<world, files>> /\ main' = "exited"
      BY <1>7, EndClears
    <3>2. ASSUME NEW f \in File  PROVE Final(f)' = Final(f)
      <4>1. Spans(f) = {} /\ Canonicals(f) = {}
        BY <1>0, <2>2, FilePaths DEF Spans, Canonicals
      <4> QED  BY <2>2, <3>1, <4>1 DEF Final, Saved
    <3> QED  BY <1>1, <2>2, <3>1, <3>2
  <2> QED  BY <1>7, <2>1, <2>2
<1>8. CASE \E b \in Backend, t \in Test : EngineEnds(b, t)
  BY <1>2, <1>8 DEF EngineEnds
<1>9. ASSUME NEW b \in Backend, NEW t \in Test, NEW d, PromoteDiagnostic(b, t, d), main = "running"
      PROVE  SettledInv'
  BY <1>2, <1>9 DEF PromoteDiagnostic
<1>10. CASE Elsewhere /\ (UNCHANGED rust_files \/ main = "running")
  BY <1>2, <1>10 DEF Elsewhere
<1> QED  BY <1>0, <1>4, <1>5, <1>6, <1>7, <1>8, <1>9, <1>10, StepKinds

LEMMA PromotionInit == Init => PromotionInv
<1> SUFFICES ASSUME Init  PROVE PromotionInv
  OBVIOUS
<1>1. main = "resolving" /\ settled = {}
  BY DEF Init
<1>2. PromotingInv /\ SettledInv
  BY <1>1 DEF PromotingInv, SettledInv
<1> QED  BY <1>2, JobsInit, KnownInit, SourcesInit DEF PromotionInv

LEMMA PromotionStep ==
  ASSUME PromotionInv, [Next]_vars
  PROVE  PromotionInv'
<1>1. JobsInv /\ VerdictsInv /\ SourcesInv /\ PromotingInv
  BY DEF PromotionInv
<1> QED  BY <1>1, JobsStep, KnownStep, SourcesStep, PromotingStep, SettledStep DEF PromotionInv

\* When the next call reads the directives back, they say what was settled.
LEMMA PromotionIs ==
  ASSUME PromotionInv
  PROVE  PromotionSettles
<1>0. /\ Shape /\ world \in World /\ SameItems /\ OutcomesKnown /\ ReadInPlace
      /\ \A s \in settled : s.backend \in Backend /\ s.test \in Test /\ SettledAt(s)
  BY DEF PromotionInv, JobsInv, Shape, SourcesInv, VerdictsInv, SettledInv, Verdicts
<1> SUFFICES ASSUME NEW s \in settled, main = "running", outcome[s.backend][s.test] # None,
                    Unambiguous(s.backend, s.test)
             PROVE  /\ outcome[s.backend][s.test].unexpected = {}
                    /\ Cardinality(outcome[s.backend][s.test].missing) = Cardinality(s.missing)
  BY DEF PromotionSettles
<1>1. PICK b \in Backend, t \in Test : b = s.backend /\ t = s.test
  BY <1>0
<1>2. PICK f, lines, diags : f = world.file[t] /\ lines = files[f] /\ diags = Diags(b, t)
  OBVIOUS
<1>3. f \in File
  BY <1>2 DEF File
<1>4. Unambiguous(b, t) /\ Reported(b, t)
  BY <1>0, <1>1 DEF OutcomesKnown, OutcomeKnown
<1>5. CanSettle(b, t)
  <2>1. ItemNames(lines) = ItemNames(world.lines[f])
    BY <1>0, <1>2, <1>3 DEF SameItems, Continues
  <2>2. ASSUME NEW d \in diags  PROVE d.owner \in {None, "mod"} \cup ItemNames(lines)
    <3>1. SpanHint(t, d.owner) # {}
      BY <1>2, <1>4, <2>2 DEF Unambiguous, Diags
    <3> QED  BY <1>2, <3>1 DEF SpanHint, ItemNames
  <2> QED  BY <1>2, <1>4, <2>1, <2>2 DEF CanSettle, Unambiguous, Diags
<1>6. Settles(lines, b, diags, s.missing)
  BY <1>0, <1>1, <1>2, <1>5 DEF SettledAt, Final
<1>7. Exp(b, t) = ExpIn(lines, b)
  BY <1>0, <1>2 DEF ReadInPlace, Exp, ExpectedDiagnostics, ExpIn
<1>8. PICK m \in Matchings(ExpIn(lines, b), diags) :
        outcome[b][t] = [unexpected |-> diags \ {p[2] : p \in m}, missing |-> ExpIn(lines, b) \ {p[1] : p \in m}]
  BY <1>2, <1>4, <1>7 DEF Reported
<1>9. IsFiniteSet(diags)
  BY <1>0, <1>2, WorldAssumption DEF Diags
<1>10. \A e \in ExpIn(lines, b) : \A c, d \in diags : Fits(e, c) /\ Fits(e, d) => c = d
  BY <1>2, <1>4, <1>7 DEF Unambiguous, Diags, Exp
<1>11. /\ diags \ {p[2] : p \in m} = {}
       /\ Cardinality(ExpIn(lines, b) \ {p[1] : p \in m}) = Cardinality(s.missing)
  BY <1>6, <1>9, <1>10, SettledMatches
<1> QED  BY <1>1, <1>8, <1>11

(***************************************************************************)
(* PromotionSettles: once a saved call has promoted the failures of a test *)
(* under one path of its file, the next call that reads the directives     *)
(* back finds them all expected and misses as many as that call did, for   *)
(* every world, whatever the calls did otherwise.  The invariant follows a *)
(* failure from the answer of the engine to the directive queued for it    *)
(* (add_directives_in_files), to the line written before its item (save),  *)
(* to the expectation read from that line (compute_test_modules).          *)
(***************************************************************************)
THEOREM PromotionsSettle == Spec => []PromotionSettles
<1>1. PromotionInv /\ [Next]_vars => PromotionInv'
  BY PromotionStep
<1>2. PromotionInv => PromotionSettles
  BY PromotionIs
<1> QED  BY PromotionInit, <1>1, <1>2, PTL DEF Spec
=============================================================================
