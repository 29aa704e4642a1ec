------------------------------ MODULE TestDriver ------------------------------
(***************************************************************************)
(* The test driver (cli/test-driver): one task per backend serializes the  *)
(* tests crate and spawns one task per test; a test task extracts its      *)
(* module, compares the diagnostics with the `@fail` directives of the     *)
(* sources, moves the output to the snapshots and verifies it.  With       *)
(* --promote-directives the unexpected failures are queued and written to  *)
(* the sources as directives at the end; a later call of the driver reads  *)
(* them back.  A world fixes what the engine and the provers answer, so    *)
(* that two calls on the same world can be compared.                       *)
(***************************************************************************)
EXTENDS Naturals, FiniteSets, Sequences, SequencesExt

CONSTANTS
  Backend,     \* the backends of the call
  Verifiable,  \* those whose output can be verified (F* and Lean)
  Test,        \* the test modules
  Inside,      \* <<child, parent>>: definitions below another one, itself included
  World,       \* the worlds: sources, engine outputs and provers' verdicts
  Jobs,        \* --jobs
  Promote,     \* --promote-directives
  MaxCalls,    \* bound: calls of the driver, one after the other
  Faults,      \* subset of {"serialize", "disk", "interrupt"}
  None         \* no owner, no file, no haxmeta

ASSUME DriverAssumption ==
  /\ IsFiniteSet(Backend) /\ IsFiniteSet(Test) /\ Verifiable \subseteq Backend
  /\ Jobs \in Nat /\ MaxCalls \in Nat \ {0}
  /\ Promote \in BOOLEAN
  /\ None \notin Backend \cup [by : Backend \cup {None}, whole : BOOLEAN] /\ None # "ok"

\* The engine answers with finitely many diagnostics; a source file is a sequence of lines, not
\* empty, and its directives have finitely many codes; a definition is inside itself.
ASSUME WorldAssumption == \A w \in World :
  /\ \A b \in Backend, t \in Test : IsFiniteSet(w.output[b][t])
  /\ \A b \in Backend, t \in Test : \A d \in w.output[b][t] :
       d.owner \in {None, "mod"} \/ <<d.owner, d.owner>> \in Inside
  /\ w.lines = [f \in {w.file[t] : t \in Test} |-> w.lines[f]]
  /\ \A t \in Test : w.lines[w.file[t]] \in Seq(Range(w.lines[w.file[t]])) \ {<< >>}
  /\ \A t \in Test : \A line \in Range(w.lines[w.file[t]]) :
       line.is = "directive" => IsFiniteSet(line.marks)

VARIABLES
  world,       \* the world of the calls
  files,       \* source files: sequences of names of items, blanks and directives
  calls,       \* calls of the driver so far
  main,        \* where the main task is
  exit,        \* exit status of the last call
  slot,        \* the haxmeta file as the driver of rustc names it: the same for every backend
  cached,      \* cached[b]: the haxmeta file of b in the cache directory
  backend,     \* backend[b]: where the task of a backend is
  test,        \* test[b][t]: where the task of a test is
  expected,    \* the directives, read when the tests are resolved
  outcome,     \* outcome[b][t]: diagnostics and expectations left unmatched, None before
  todo,        \* todo[b][t]: unmatched diagnostics not yet promoted
  rust_files,  \* RUST_FILES: edits queued, by the path they were pushed under
  dirs,        \* DIRS: the snapshot directories already written in this call
  snapshots,   \* snapshots[b][f]: <<test, call>> of the output stored for a source file
  counts,      \* [total, completed]: what the reports sent so far add up to
  settled      \* the tests whose failures the last saved call promoted, with what it missed

vars == <<world, files, calls, main, exit, slot, cached, backend, test, expected,
          outcome, todo, rust_files, dirs, snapshots, counts, settled>>

-------------------------------------------------------------------------------
(* The sources and the directives they carry. *)

File == {world.file[t] : t \in Test}
IsDirective(line) == line.is = "directive"
Items(lines) == {i \in DOMAIN lines : lines[i].is = "item"}

\* The item the doc comment at position p documents: the next item of the file.
Documented(lines, p) ==
  LET below == {i \in Items(lines) : i > p}
  IN  IF below = {} THEN {} ELSE {lines[CHOOSE i \in below : \A j \in below : i <= j].name}

\* What the directives of a file expect; two that say the same are two expectations.
DirectivesOf(lines) ==
  UNION {{[item |-> i, kind |-> lines[p].kind, mark |-> m, at |-> p] :
            i \in IF lines[p].bang THEN {"mod"} ELSE Documented(lines, p), m \in lines[p].marks}
          : p \in {q \in DOMAIN lines : IsDirective(lines[q])}}

ExpectedDiagnostics(b, t, kind) ==
  {e \in expected[t] : e.kind = kind /\ e.mark.backend = b}

\* TestModule::needs_verification
NeedsVerification(b, t) == b \in Verifiable /\ ExpectedDiagnostics(b, t, "tc") = {}

\* Diagnostic::is_for_item; a diagnostic without owner is for every item.
IsForItem(d, i) == d.owner = None \/ i = "mod" \/ <<d.owner, i>> \in Inside

\* The directive of the item or module a diagnostic is about: the path of its file,
\* its line, and whether it is an inner comment.  None for an owner without span.
SpanHint(t, owner) ==
  LET f == world.file[t]
      at == {i \in Items(files[f]) : files[f][i].name = owner}
  IN  IF owner \in {None, "mod"} THEN {[line |-> 1, bang |-> TRUE]}
      ELSE {[line |-> i, bang |-> FALSE] : i \in at}

\* Variant: the edit queued for a line and a kind is replaced, not merged.
PushLine_Replace(path, line, kind, bang, mark) ==
  rust_files' = [rust_files EXCEPT ![path] =
    {e \in @ : e.line # line \/ e.kind # kind}
      \cup {[line |-> line, kind |-> kind, bang |-> bang, marks |-> {mark}]}]

\* push_line: the edits of one path, with a directive merged in the first of its kind
\* that was queued for the same line.
PushLine(path, line, kind, bang, mark) ==
  LET same == {e \in rust_files[path] : e.line = line /\ e.kind = kind}
  IN  rust_files' = [rust_files EXCEPT ![path] =
        IF same = {} THEN @ \cup {[line |-> line, kind |-> kind, bang |-> bang, marks |-> {mark}]}
        ELSE (@ \ same) \cup {[e EXCEPT !.marks = @ \cup {mark}] : e \in same}]

\* A file with the edits of one path: a directive goes before the line of its number.
Edited(lines, edits) ==
  LET before(n) == SetToSeq({[is |-> "directive", kind |-> e.kind, bang |-> e.bang, marks |-> e.marks]
                               : e \in {x \in edits : x.line = n}})
  IN  before(0) \o FlattenSeq([n \in DOMAIN lines |-> Append(before(n), lines[n])])

-------------------------------------------------------------------------------
(* Diagnostics against expectations. *)

\* An expectation can be met by a diagnostic of its code at its item or below.
Fits(e, d) == e.mark.diag.code = d.code /\ IsForItem(d, e.item)

\* The matchings Diagnostics::remove can make of the expectations exp and the diagnostics
\* diags.  Expectations come item by item, those of the module first, the other items in
\* the order of a hash table; each takes the first diagnostic left that fits it, in an order
\* that the engine and swap_remove determine and the model leaves open.
Matchings(exp, diags) ==
  LET names == {e.item : e \in exp}
      orders == {o \in [names -> 1..Cardinality(names)] :
                   /\ \A i, j \in names : i # j => o[i] # o[j]
                   /\ "mod" \in names => o["mod"] = 1}
      injective(m) == \A p, q \in m : (p[1] = q[1]) <=> (p[2] = q[2])
  IN  {m \in SUBSET {p \in exp \X diags : Fits(p[1], p[2])} :
         /\ injective(m)
         /\ \E o \in orders : \A e \in exp \ {p[1] : p \in m} : \A d \in diags :
              Fits(e, d) => \E p \in m : p[2] = d /\ o[p[1].item] <= o[e.item]}

-------------------------------------------------------------------------------
Tests(b) == {t \in Test : b \notin world.off[t]}
Ended == {"ok", "err", "panicked"}
\* Variant: a test that fails keeps its permit.
Holding_Leak(b, t) == test[b][t] \notin {"unspawned", "queued", "ok"}

Holding(b, t) == test[b][t] \in {"extracting", "promoting", "extracted", "verifying"}
Holders == {p \in Backend \X Test : Holding(p[1], p[2])}
Quiet == [total |-> 0, completed |-> 0]
Paths == {<<f, k>> : f \in {w.file[t] : w \in World, t \in Test}, k \in {"span", "canonical"}}

\* What a call keeps in memory before its tasks are spawned.
Memory ==
  [backend |-> [b \in Backend |-> "unspawned"],
   test |-> [b \in Backend |-> [t \in Test |-> "unspawned"]],
   outcome |-> [b \in Backend |-> [t \in Test |-> None]],
   todo |-> [b \in Backend |-> [t \in Test |-> {}]],
   rust_files |-> [p \in Paths |-> {}]]

Init ==
  /\ world \in World
  /\ files = world.lines
  /\ calls = 1 /\ main = "resolving" /\ exit = None
  /\ slot = None /\ cached = [b \in Backend |-> None]
  /\ backend = Memory.backend /\ test = Memory.test /\ outcome = Memory.outcome
  /\ todo = Memory.todo /\ rust_files = Memory.rust_files
  /\ expected = [t \in Test |-> {}]
  /\ dirs = {} /\ snapshots = [b \in Backend |-> [f \in File |-> None]]
  /\ counts = Quiet /\ settled = {}

-------------------------------------------------------------------------------
(* The main task. *)

\* compute_test_modules: serializes the crate once, reads the directives in place.
ResolveTests ==
  /\ main = "resolving"
  /\ slot' = [by |-> None, whole |-> TRUE]
  /\ expected' = [t \in Test |-> DirectivesOf(files[world.file[t]])]
  /\ main' = "running"
  /\ UNCHANGED <<world, files, calls, exit, cached, backend, test, outcome, todo,
                 rust_files, dirs, snapshots, counts, settled>>

\* Announces how many jobs the backend has and spawns its task.
SpawnBackend(b) ==
  /\ main = "running" /\ backend[b] = "unspawned"
  /\ counts' = [counts EXCEPT !.total = @ + Cardinality(Tests(b))
                  + Cardinality({t \in Tests(b) : NeedsVerification(b, t)})]
  /\ backend' = [backend EXCEPT ![b] = "serialize"]
  /\ UNCHANGED <<world, files, calls, main, exit, slot, cached, test, expected, outcome,
                 todo, rust_files, dirs, snapshots, settled>>

\* Every backend task has ended: none of them panics, so TryJoinAll waits for all.
JoinBackends ==
  /\ main = "running" /\ \A b \in Backend : backend[b] \in {"ok", "err"}
  /\ main' = "saving"
  /\ settled' = {[backend |-> p[1], test |-> p[2], missing |-> outcome[p[1]][p[2]].missing] :
                    p \in {q \in Backend \X Test : Promote /\ outcome[q[1]][q[2]] # None /\ todo[q[1]][q[2]] = {}
                             /\ \E k \in {"span", "canonical"} : rust_files[<<world.file[q[2]], k>>] = {}}}
  /\ UNCHANGED <<world, files, calls, exit, slot, cached, backend, test, expected,
                 outcome, todo, rust_files, dirs, snapshots, counts>>

\* One iteration of promote_directives::save, which holds the lock of RUST_FILES.
SaveFile(p) ==
  /\ main = "saving" /\ rust_files[p] # {}
  /\ files' = [files EXCEPT ![p[1]] = Edited(@, rust_files[p])]
  /\ rust_files' = [rust_files EXCEPT ![p] = {}]
  /\ UNCHANGED <<world, calls, main, exit, slot, cached, backend, test, expected, outcome,
                 todo, dirs, snapshots, counts, settled>>

\* The process ends, with the tasks nobody waits for and what it has in memory.
ProcessEnds(status) ==
  /\ main' = "exited" /\ exit' = status
  /\ backend' = Memory.backend /\ test' = Memory.test /\ outcome' = Memory.outcome
  /\ todo' = Memory.todo /\ rust_files' = Memory.rust_files
  /\ dirs' = {} /\ counts' = Quiet
  /\ UNCHANGED <<world, files, calls, slot, cached, expected, snapshots>>

ResolveFails ==
  /\ main = "resolving" /\ "serialize" \in Faults
  /\ ProcessEnds("err") /\ settled' = {}

\* save()? gives up at the first file it cannot read or write.
SaveFails ==
  /\ main = "saving" /\ "disk" \in Faults /\ \E p \in Paths : rust_files[p] # {}
  /\ ProcessEnds("err") /\ settled' = {}

\* main returns its verdict.
Exit ==
  /\ main = "saving" /\ \A p \in Paths : rust_files[p] = {}
  /\ ProcessEnds(IF \A b \in Backend : backend[b] = "ok" THEN "ok" ELSE "err")
  /\ UNCHANGED settled

\* The user interrupts the call: its processes end where they are.
Interrupt ==
  /\ main \in {"running", "saving"} /\ "interrupt" \in Faults
  /\ ProcessEnds("err") /\ settled' = {}

\* The user calls the driver again.
CallAgain ==
  /\ main = "exited" /\ calls < MaxCalls
  /\ calls' = calls + 1 /\ main' = "resolving" /\ exit' = None
  /\ UNCHANGED <<world, files, slot, cached, backend, test, expected, outcome, todo, rust_files,
                 dirs, snapshots, counts, settled>>

-------------------------------------------------------------------------------
(* The task of a backend: BackendTestsContext::haxmeta, then run. *)

\* hax_serialize takes the only permit and starts cargo.
StartSerialize(b) ==
  /\ backend[b] = "serialize"
  /\ \A c \in Backend : backend[c] \notin {"compiling", "writing"}
  /\ backend' = [backend EXCEPT ![b] = "compiling"]
  /\ UNCHANGED <<world, files, calls, main, exit, slot, cached, test, expected, outcome,
                 todo, rust_files, dirs, snapshots, counts, settled>>

\* The driver of rustc creates or truncates the file.
CreateHaxmeta(b) ==
  /\ backend[b] = "compiling"
  /\ slot' = [by |-> b, whole |-> FALSE]
  /\ backend' = [backend EXCEPT ![b] = "writing"]
  /\ UNCHANGED <<world, files, calls, main, exit, cached, test, expected, outcome, todo,
                 rust_files, dirs, snapshots, counts, settled>>

\* cargo ends: the file is whole, wherever it is now, and the permit is given back.
EndSerialize(b) ==
  /\ backend[b] = "writing"
  /\ LET finish(m) == IF m # None /\ m.by = b THEN [m EXCEPT !.whole = TRUE] ELSE m
     IN  /\ slot' = finish(slot)
         /\ cached' = [c \in Backend |-> finish(cached[c])]
  /\ backend' = [backend EXCEPT ![b] = "serialized"]
  /\ UNCHANGED <<world, files, calls, main, exit, test, expected, outcome, todo, rust_files,
                 dirs, snapshots, counts, settled>>

\* No ProducedFile message: the job of the backend fails.
SerializeFails(b) ==
  /\ backend[b] = "compiling" /\ "serialize" \in Faults
  /\ backend' = [backend EXCEPT ![b] = "err"]
  /\ UNCHANGED <<world, files, calls, main, exit, slot, cached, test, expected, outcome,
                 todo, rust_files, dirs, snapshots, counts, settled>>

\* Variant: the file is copied.
RenameHaxmeta_Copy(b) ==
  /\ backend[b] = "serialized" /\ slot # None
  /\ cached' = [cached EXCEPT ![b] = slot]
  /\ backend' = [backend EXCEPT ![b] = "testing"]
  /\ test' = [test EXCEPT ![b] = [t \in Test |-> IF t \in Tests(b) THEN "queued" ELSE @[t]]]
  /\ UNCHANGED <<world, files, calls, main, exit, slot, expected, outcome, todo, rust_files, dirs,
                 snapshots, counts, settled>>

\* Renames what is at the path it was told, whoever wrote it, and spawns the tests.
RenameHaxmeta(b) ==
  /\ backend[b] = "serialized"
  /\ IF slot = None
     THEN /\ backend' = [backend EXCEPT ![b] = "err"]
          /\ UNCHANGED <<slot, cached, test>>
     ELSE /\ slot' = None
          /\ cached' = [cached EXCEPT ![b] = slot]
          /\ backend' = [backend EXCEPT ![b] = "testing"]
          /\ test' = [test EXCEPT ![b] = [t \in Test |-> IF t \in Tests(b) THEN "queued" ELSE @[t]]]
  /\ UNCHANGED <<world, files, calls, main, exit, expected, outcome, todo, rust_files, dirs,
                 snapshots, counts, settled>>

\* Variant: the results inside the JoinHandles are not looked at.
JoinTests_Unread(b) ==
  /\ backend[b] = "testing"
  /\ \A t \in Tests(b) : test[b][t] \in Ended
  /\ backend' = [backend EXCEPT ![b] = IF \E t \in Tests(b) : test[b][t] = "panicked" THEN "err" ELSE "ok"]
  /\ UNCHANGED <<world, files, calls, main, exit, slot, cached, test, expected, outcome,
                 todo, rust_files, dirs, snapshots, counts, settled>>

\* TryJoinAll over the tests: a panic (JoinError) ends it at once, failures only at the end.
JoinTests(b) ==
  /\ backend[b] = "testing"
  /\ \/ /\ \E t \in Tests(b) : test[b][t] = "panicked"
        /\ backend' = [backend EXCEPT ![b] = "err"]
     \/ /\ \A t \in Tests(b) : test[b][t] \in {"ok", "err"}
        /\ backend' = [backend EXCEPT ![b] =
             IF \A t \in Tests(b) : test[b][t] = "ok" THEN "ok" ELSE "err"]
  /\ UNCHANGED <<world, files, calls, main, exit, slot, cached, test, expected, outcome,
                 todo, rust_files, dirs, snapshots, counts, settled>>

-------------------------------------------------------------------------------
(* The task of a test: BackendTestContext::run. *)

At(b, t, pc) == test[b][t] = pc
Goto(b, t, pc) == test' = [test EXCEPT ![b][t] = pc]
JobEnds == counts' = [counts EXCEPT !.completed = @ + 1]

StartTest(b, t) ==
  /\ At(b, t, "queued") /\ Cardinality(Holders) < Jobs
  /\ Goto(b, t, "extracting")
  /\ UNCHANGED <<world, files, calls, main, exit, slot, cached, backend, expected, outcome,
                 todo, rust_files, dirs, snapshots, counts, settled>>

\* The engine answers; the expected diagnostics are taken out of its answer.
EngineEnds(b, t) ==
  /\ At(b, t, "extracting") /\ cached[b].whole
  /\ \E m \in Matchings(ExpectedDiagnostics(b, t, "extraction"), world.output[b][t]) :
       LET left == world.output[b][t] \ {p[2] : p \in m}
       IN  /\ outcome' = [outcome EXCEPT ![b][t] = [unexpected |-> left, missing |->
                ExpectedDiagnostics(b, t, "extraction") \ {p[1] : p \in m}]]
           /\ todo' = [todo EXCEPT ![b][t] = IF Promote THEN left ELSE {}]
  /\ Goto(b, t, "promoting")
  /\ UNCHANGED <<world, files, calls, main, exit, slot, cached, backend, expected,
                 rust_files, dirs, snapshots, counts, settled>>

\* The engine cannot read a haxmeta that is not whole: a status other than 0, no diagnostic.
EngineFails(b, t) ==
  /\ At(b, t, "extracting")
  /\ ~cached[b].whole
  /\ Goto(b, t, "err") /\ JobEnds
  /\ UNCHANGED <<world, files, calls, main, exit, slot, cached, backend, expected, outcome,
                 todo, rust_files, dirs, snapshots, settled>>

\* add_directives_in_files, one diagnostic: skipped when its owner has no span.
PromoteDiagnostic(b, t, d) ==
  /\ At(b, t, "promoting") /\ d \in todo[b][t] /\ main # "saving"
  /\ LET hints == SpanHint(t, d.owner)
     IN  IF hints = {} THEN UNCHANGED rust_files
         ELSE \E h \in hints : PushLine(<<world.file[t], "span">>, h.line, "extraction", h.bang,
                                        [backend |-> b, test |-> t, diag |-> d])
  /\ todo' = [todo EXCEPT ![b][t] = @ \ {d}]
  /\ UNCHANGED <<world, files, calls, main, exit, slot, cached, backend, test, expected,
                 outcome, dirs, snapshots, counts, settled>>

\* report_results: the extraction job ends, well when nothing is left unmatched.
ReportResults(b, t) ==
  /\ At(b, t, "promoting") /\ todo[b][t] = {}
  /\ Goto(b, t, IF outcome[b][t].unexpected = {} /\ outcome[b][t].missing = {}
                THEN "extracted" ELSE "err")
  /\ JobEnds
  /\ UNCHANGED <<world, files, calls, main, exit, slot, cached, backend, expected, outcome,
                 todo, rust_files, dirs, snapshots, settled>>

\* Variant: without DIRS.
MoveToSnapshots_Unchecked(b, t) ==
  /\ At(b, t, "extracted")
  /\ snapshots' = [snapshots EXCEPT ![b][world.file[t]] = <<t, calls>>]
  /\ Goto(b, t, IF NeedsVerification(b, t) THEN "verifying" ELSE "ok")
  /\ UNCHANGED <<world, files, calls, main, exit, slot, cached, backend, expected, outcome,
                 todo, rust_files, dirs, counts, settled>>

\* move_to_snapshots_directory: panics when the directory was written in this call.
MoveToSnapshots(b, t) ==
  /\ At(b, t, "extracted")
  /\ LET dir == <<b, world.file[t]>>
     IN  IF dir \in dirs
         THEN Goto(b, t, "panicked") /\ UNCHANGED <<dirs, snapshots>>
         ELSE /\ dirs' = dirs \cup {dir}
              /\ snapshots' = [snapshots EXCEPT ![b][world.file[t]] = <<t, calls>>]
              /\ Goto(b, t, IF NeedsVerification(b, t) THEN "verifying" ELSE "ok")
  /\ UNCHANGED <<world, files, calls, main, exit, slot, cached, backend, expected, outcome,
                 todo, rust_files, counts, settled>>

\* run_verification: a failure is promoted under the canonical path of the module.
RunVerification(b, t) ==
  /\ At(b, t, "verifying")
  /\ IF <<b, t>> \in world.untypable
     THEN /\ Goto(b, t, "err")
          /\ IF Promote
             THEN /\ main # "saving"
                  /\ PushLine(<<world.file[t], "canonical">>, 0, "tc", TRUE,
                              [backend |-> b, test |-> t, diag |-> [owner |-> "mod", code |-> "exit"]])
             ELSE UNCHANGED rust_files
     ELSE Goto(b, t, "ok") /\ UNCHANGED rust_files
  /\ JobEnds
  /\ UNCHANGED <<world, files, calls, main, exit, slot, cached, backend, expected, outcome,
                 todo, dirs, snapshots, settled>>

-------------------------------------------------------------------------------
MainStep == ResolveTests \/ ResolveFails \/ JoinBackends \/ (\E p \in Paths : SaveFile(p)) \/ SaveFails \/ Exit
BackendStep(b) ==
  SpawnBackend(b) \/ StartSerialize(b) \/ CreateHaxmeta(b) \/ EndSerialize(b)
    \/ SerializeFails(b) \/ RenameHaxmeta(b) \/ JoinTests(b)
TestStep(b, t) ==
  \/ StartTest(b, t) \/ EngineEnds(b, t) \/ EngineFails(b, t) \/ ReportResults(b, t)
  \/ MoveToSnapshots(b, t) \/ RunVerification(b, t)
  \/ \E d \in todo[b][t] : PromoteDiagnostic(b, t, d)

\* The calls are over.
Over == main = "exited" /\ calls = MaxCalls /\ UNCHANGED vars

Next ==
  \/ MainStep \/ Interrupt \/ CallAgain \/ Over
  \/ \E b \in Backend : BackendStep(b) \/ \E t \in Test : TestStep(b, t)

Spec == Init /\ [][Next]_vars

\* The runtime polls every task that can go on, and the processes they wait for end.
Fairness ==
  /\ WF_vars(MainStep)
  /\ \A b \in Backend : WF_vars(BackendStep(b)) /\ \A t \in Test : WF_vars(TestStep(b, t))
FairSpec == Spec /\ Fairness

-------------------------------------------------------------------------------
(* Properties. *)

Marks == {[backend |-> b, test |-> t, diag |-> d] : b \in Backend, t \in Test,
            d \in UNION {w.output[c][u] : w \in World, c \in Backend, u \in Test}}
         \cup {[backend |-> b, test |-> t, diag |-> [owner |-> "mod", code |-> "exit"]]
                : b \in Backend, t \in Test}

\* Every variable keeps its type; edits are queued at lines of the file they are for.
TypeOK ==
  /\ world \in World /\ calls \in 1..MaxCalls
  /\ main \in {"resolving", "running", "saving", "exited"} /\ exit \in {None, "ok", "err"}
  /\ slot = None \/ (slot.by \in Backend \cup {None} /\ slot.whole \in BOOLEAN)
  /\ \A b \in Backend : \A t \in Test :
       test[b][t] \in Ended \cup {"unspawned", "queued", "extracting", "promoting", "extracted", "verifying"}
  /\ \A p \in DOMAIN rust_files : \A e \in rust_files[p] :
       e.line \in 0..Len(files[p[1]]) /\ e.kind \in {"extraction", "tc"} /\ e.marks \subseteq Marks
  /\ \A s \in settled : s.backend \in Backend /\ s.test \in Test

\* A green call is right about everything it was asked (main.rs: TryJoinAll, report_results,
\* needs_verification): each diagnostic of each extraction can be paired with an expectation,
\* no expectation is left over, each test that must be verified was, and its output is the
\* snapshot that the call leaves.
GreenMeansMatched ==
  exit = "ok" =>
    \A b \in Backend : \A t \in Tests(b) :
      LET exp == ExpectedDiagnostics(b, t, "extraction")
          diags == world.output[b][t]
      IN  /\ Cardinality(exp) = Cardinality(diags)
          /\ \A d \in diags : \E e \in exp : e.mark.diag.code = d.code /\ IsForItem(d, e.item)
          /\ <<b, t>> \in world.untypable => ~NeedsVerification(b, t)
          /\ snapshots[b][world.file[t]] = <<t, calls>>

\* All backends write their haxmeta at one path and rename it after the permit is given
\* back (main.rs:270-276): a backend can take the file of another, even a partial one, but
\* then the call does not end well.
MixUpSurfaces ==
  exit = "ok" => \A b \in Backend : cached[b] = [by |-> b, whole |-> TRUE]

\* A test verifies what it has extracted itself in this call (move_to_snapshots_directory),
\* whatever test shares its source file and whatever an earlier call left.
VerifiesOwnOutput ==
  \A b \in Backend : \A t \in Test :
    test[b][t] = "verifying" => snapshots[b][world.file[t]] = <<t, calls>>

\* The progress bar never overflows (log.rs): the jobs that end are among those announced
\* from needs_verification before the backend started.
CompletedWithinTotal == counts.completed <= counts.total

\* The jobs of a call are well typed, no more of them end than were announced, and each is
\* verified on what it extracted.
JobsOK == TypeOK /\ CompletedWithinTotal /\ VerifiesOwnOutput

\* Each owner has a span, no expectation fits two diagnostics, no test shares the file, and
\* nothing is promoted for the module itself where the file starts with an item: push_line
\* would merge the directive of the module with that of the item, whichever comes first.
Unambiguous(b, t) ==
  /\ world.lines[world.file[t]][1].is = "item" => \A d \in world.output[b][t] : d.owner # "mod"
  /\ \A d \in world.output[b][t] : SpanHint(t, d.owner) # {}
  /\ \A e \in ExpectedDiagnostics(b, t, "extraction") : \A c, d \in world.output[b][t] :
       Fits(e, c) /\ Fits(e, d) => c = d
  /\ \A u \in Test : u # t => world.file[u] # world.file[t]

\* What --promote-directives is for (cli.rs:27-29): once a call has promoted the failures of
\* a test, under one path of its file, the next call finds them all expected, and misses no
\* more than this one did, however the calls went otherwise.
PromotionSettles ==
  \A s \in settled :
    LET o == outcome[s.backend][s.test]
    IN  calls > 1 /\ main = "running" /\ o # None /\ Unambiguous(s.backend, s.test)
          => o.unexpected = {} /\ Cardinality(o.missing) = Cardinality(s.missing)

\* Every call of the driver ends: no task waits for a permit for ever, and a panic does not
\* keep main from joining its backend.
CallEnds == main = "resolving" ~> main = "exited"
===============================================================================
