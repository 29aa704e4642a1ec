# A formal model of hax

hax extracts Rust crates to proof assistants. `cargo hax` builds a crate with a
driver in place of rustc, which exports what rustc knows of the crate to a
*haxmeta* file; cargo-hax then sends this file to an *engine* (in OCaml, or in
Rust with OCaml subprocesses), which transforms the crate and prints it for a
backend. This directory models the parts of hax that keep state, talk to each
other and can fail: TLA+ modules, TLC configurations that check them on small
instances, and proofs that the TLA+ proof system (TLAPS) checks for every
instance. Paths below are those of the repository.

To check a run, `tlc -config MCOCamlEngine.cfg MCOCamlEngine.tla`; to check
proofs, `tlapm OCamlEngineProofs.tla`. `PROJECT.json` lists the runs, the code
each definition stands for, the hazards, the findings and, for every checked
property, a plausible bug of the code that breaks it (most are the definitions
called `X_Bug` beside a definition `X`, with a comment *Variant*).

## 1. The system

```
        user
         | cargo hax into fstar
         v           spawns                 RUSTC = driver
     cargo-hax ------------------> cargo ------------------> rustc driver (one per crate)
         |   ^                       |                          |  writes haxmeta (IdTable)
         |   |  EmitHaxMeta lines    |   stderr, cached         v
         |   +-----------------------+---------------------- <crate>.haxmeta
         |
         | stdin:  WithTable(input), then one reply per request     (ToEngine)
         | stdout: diagnostics, files, requests, ..., Exit or end   (FromEngine)
         v
   OCaml engine                        or   Rust engine
                                             |  the same two pipes, one fresh
                                             v  subprocess per query
                                            OCaml engine (driver_for_rust_engine)
```

| component | state it keeps | operations | who it talks to | model |
|---|---|---|---|---|
| `run_engine` (`src/cli/subcommands/src/cargo_hax.rs`) | error flag, error counts per item, diagnostics already shown, dry-run output, files on disk | send the crate, one handler per message kind, reply, leave the loop, wait | an engine, over two pipes | `RunEngine` |
| OCaml engine driver (`src/engine/bin/lib.ml`, `lib/hax_io.ml`, `lib/diagnostics.ml`) | accumulated diagnostics, the table of ids, the output it has not sent | read options, import, phases, requests, flush, close | cargo-hax | `OCamlEngine` |
| Rust engine driver (`src/rust-engine/src/main.rs`, `ocaml_engine.rs`, `phase/legacy.rs`) | where it is in its backend's phases, the query and its response | native phases, queries: spawn, proxy, relay, wait, report | cargo-hax and one OCaml subprocess at a time | `RustEngine` |
| cargo-hax command (`cargo_hax.rs`) | lines collected, error of the loop, exit code | compute_haxmeta_files, run_command | cargo, drivers, engines | `CargoHax` |
| rustc driver (`src/cli/driver/src/*.rs`) | haxmeta file, dep-info | decide whether to translate, export, announce, run rustc | cargo | `CargoHax` |
| Ids of exported nodes (`src/frontend/exporter/src/id_table.rs`) | the session's table; globals of each reader and writer | Node::new, WithTable::run, deserialize | driver, cargo-hax, both engines | `IdTable` |
| Global identifiers (`src/rust-engine/src/interning.rs`, `ast/identifiers/global_id.rs`) | interning table, two memo tables of references | intern, get, as_concreteid, from_global_id | all of the Rust engine | `Interning` |
| Test driver (`src/cli/test-driver/src`) | semaphores, the shared haxmeta path, snapshots, queued directives, job counts | one task per backend and one per test; promotion at the end | cargo-hax processes, provers | `TestDriver` |
| Trait resolution (`src/frontend/exporter/src/traits/resolution.rs`, `traits.rs`, `types/ty.rs`) | the candidates of a searcher, the cache of answers | insert predicates, resolve, load the bounds of associated types | rustc, the translation | `TraitSearch` |
| Dependency analysis (`src/engine/lib/dependencies.ml`, `bin/lib.ml`) | none (pure) | select, bundle cyclic modules, sort | OCaml engine | `Dependencies` |
| Monadic phase (`src/rust-engine/src/phase/explicit_monadic.rs`) | none (pure) | encode partial computations | Rust engine, Lean backend | `ExplicitMonadic` |
| Imperative to functional (`src/engine/lib/side_effect_utils.ml`, `lib/phases/`) | none (pure) | six phases: hoist, simplify matches, local mutation, rewrite control flow, drop exits, functionalize loops | OCaml engine, F* backend | `Imperative`, `SideEffects`, `Functionalization` |
| Models of `core` and `alloc` (`src/hax-lib/core-models`) | the state of each iterator, vector or range | the functions of Rust's library, as hax extracts them | extracted crates | `CoreInt`, `CoreIter`, `CoreHeap` |
| Exporter caches (`src/frontend/exporter/src/state.rs`, `types/new/full_def.rs`) | a RefCell of memo tables | sinto, with_global_cache | rustc | planned |

The other components (`PROJECT.json` lists them all, each with its reason) are
not modelled: see section 7.

**What is hard here.** Three processes in a row share pipes that any of them may
leave at any time, and each has its own idea of how a conversation ends: `Exit`
then waiting for stdin to close, or just the end of the stream. The verdict of
a command is assembled from parts that travel separately (the error flag from
messages, the exit status of the engine, the exit status of cargo) and a
failure of one must not hide behind the success of another. Cargo skips crates
it believes unchanged and replays what their compiler said before: the
announcements of haxmeta files outlive the process, the version of hax and the
options that made them. Ids stand for values across four processes with global
tables that serde cannot see. The Rust engine hands out `'static` references
into a vector that grows. The test driver runs dozens of tasks over one directory,
one path and one queue of edits, and a green run must mean something. And where the code
is sequential it is subtle: the trait searcher answers from a set that grows while it
looks, the selection of items is applied twice, an iterator calls the `next` of another after
its end, and what a proof assistant proves is only worth as much as the models of `core`.

## 2. The modules

`RunEngine` is extended by `OCamlEngine` and by `RustEngine`, which write the
stream it reads; both are shown to implement `Extraction`. `CargoHax` uses the
verdict of `run_engine` as one step (an engine that extracts without error,
extracts with errors, or fails), which is what `RunEngine` and its engines
justify. The other modules stand alone.

**Extraction** is the promise of one extraction whichever engine runs it:
messages are acted upon in order, each once; the verdict is whether one was a
diagnostic; the command returns normally only after a complete output was acted
upon, and otherwise fails. It has five variables and no pipe, no reply and no
process.

**RunEngine** is `run_engine` (`cargo_hax.rs:172-374`): `pc` is where it is,
`SendInput` the first message, one action per arm of the `match` in the message
loop (`OnDiagnostic`, `OnFile`, `OnItemProcessed`, `OnRequest`, ...),
`SendReply` the reply, `OnExit`/`OnEof`/`Wait` its end, with the statistics
computed on the way out. `Garbage` stands for any line that is not a message.
A pipe is the log of what was written and the number of messages read;
`PipeCapacity` bounds the difference, so that a writer may block. `StdinEof`
and `StdoutBroken` are what the engine sees of cargo-hax leaving the loop.

**OCamlEngine** is `Lib.engine`. Its diagnostics gather in `state` and are
written only when the work is over: `FinishRun` or `RaiseFatalError` fills the
`outbox` in the order of `lib.ml` (diagnostics, files, debug strings, Exit),
`Flush` writes it one message at a time, `Close` waits for stdin.
While it imports (`import`) it may already ask for the text of an expression or an item it cannot import, as it may later (`work`);
`ImportThirItems` ends the import, with the announcement of the items before any diagnostic is written.
Everything that can go wrong is an action of `Fault`, enabled by the constant
`Faults`: wrong version, an OCaml exception, something printing on stdout, a
kill between or within writes, the death of cargo-hax.

**RustEngine** is `main`, `QueryKind::execute` and the OCaml side,
`driver_for_rust_engine`. A *plan* is the sequence of steps a backend takes:
`Native` for phases and printers in Rust, `ImportThir`, `ApplyPhases` (a group of
consecutive OCaml phases, `phase/legacy.rs`) and `Print` for queries. Each
query goes through `Spawn`, `SendQuery`, then `Proxy`/`Relay`/`OnResponse`
until Exit or the end of the subprocess's stream, `WaitSub` and the reporting of the
response's diagnostics. The Rust engine never sends `Exit`: cargo-hax sees the
stream end.

**CargoHax** is one workspace over several calls of `cargo hax`, with edits of
the sources between them. `unit[c]` is how far a crate's compilation is:
`Replay` when cargo finds it fresh, else `Compile` and the driver's steps
`Create` (which truncates the file of an earlier call), `Write`, `Emit` (the
line on stderr), `Close` (the end of the `BufWriter`) and `Build` (rustc, after
which cargo remembers the crate). `Collect` ends `compute_haxmeta_files`;
`ReadPanics`, `ExportJson`, `RunEngine`, `SkipCrate`, `EngineFails` and `Finish`
are `run_command`.

*Cargo is not in the repository.* It is modelled as it documents itself and as
the driver relies on: a crate is compiled after its dependencies; it is fresh
when its sources, its dependencies and the environment variables in its dep-info
(which `CallbacksWrapper` extends with the options and version of hax) are those
of its last successful compilation; the stderr of that compilation is replayed;
nothing new starts after a failure; cargo's own stderr ends when it exits. The variable
`CARGO_PRIMARY_PACKAGE` is not among those the dep-info tracks.

**IdTable** follows nodes from `Node::new` to the engines: `Export` writes a
crate's haxmeta file with the table sorted by id; `OpenFile`, `ReadPair`,
`ReadRoot` read a document one pair at a time in the global
`DESERIALIZATION_STATE`, whose old contents are put aside and put back;
`Forward`, `WriteWithTable`, `WriteAlone`, `QueryImport` and `QueryPlain` are the
messages written from what was read, under the global `SERIALIZATION_MODE_USE_IDS`.

**Interning** is `InterningTable` and `Interned<T>`: handles known at compile
time (`new_with_values`) exist before the table does (`forced` is false until the
`LazyLock` is used). `buffer` changes when a full vector is reallocated and
moves. `FromTuple` is the branch of `from_global_id` on a tuple
identifier; it interns the same value again, finds a tuple again, and
reaches `unreachable!`, as the code does.

**TestDriver** is one call of the test driver after the other on the same sources.
`MainStep` resolves the tests, joins the backends and saves the promoted
directives; `BackendStep(b)` serializes the tests crate under the one permit, renames the
haxmeta file *after the permit is returned* (`RenameHaxmeta`), spawns and joins the tests;
`TestStep(b, t)` holds a permit of `--jobs`, extracts, matches the
diagnostics with the directives in any order (`commands.rs` iterates over a hash set), queues
promotions, moves its output to the snapshots, and verifies it. A *world* fixes the sources and
what the engine and the provers say, so that the second call can be compared with the first.
`Faults` are a serialization that fails, a disk that does and an interrupt by the user; tasks panic where
their code does.

**CoreInt**, **CoreIter**, **CoreHeap** (with **RustOption**) are the models of Rust's
library that hax extracts in its place. `CoreInt` is every function that adds, steps
or converts, for types given by half of their range (`u8` is 128), over machine operations
that wrap; its state is a `Range` being iterated. In `CoreIter` an iterator is a value, `Advance` its `next`,
one definition per adapter, and an iteration is the loop of one consuming method; what it must return
is computed from `Items`, the sequence that the iterator of std yields. `CoreHeap` is `BinaryHeap`, a vector searched by
`peek` and by `pop` with a loop each.

**TraitSearch** is `PredicateSearcher`: `InsertCandidate` and `InsertBounds` fill the set of
candidates when a searcher is made, `Ask` is `solve_trait` with its cache, and `resolve`,
`resolve_local` and `add_associated_type_refs`, which call each other, are one action each on a
stack of goals (`ResolveGoal`, `Find`, `AddBounds`, `FindAgain`, `AnswerGoal`). `EnterDyn` and
`SetParamEnv` are `make_dyn`: a copy of the searcher that gets more clauses, and then another
environment. A type is a root and a path of projections. rustc's choice between a clause and an
implementation, normalisation and type equality are inputs: a *world* of `MCTraitWorlds`.

**ExplicitMonadic** follows an expression of Rust through the import, the phase and
the resugaring of `let`, and evaluates both ends: `Rust` is Rust's evaluation
with panics, `Term` and `Do` Lean's of pure terms and of the monad. `MCMonadicPrograms` builds every
expression of each operator around each operator.

**Dependencies** has three steps: `Select` (`import_thir_items`: bodies dropped by `+:`, the clauses applied twice,
associated items, quotes), `BundleCyclicModules` (renaming and aliases), and `SortModule`, once per module
in any order of the module graph. A name is a path and the module it is now in; a bundle's module
is the set of those merged. `MCDependencyWorlds` has the crates and clauses.

**Imperative**, **SideEffects** and **Functionalization** are the phases of the OCaml
engine that turn an imperative body into a functional one, in the order of the F* backend
(`fstar_backend.ml:2047-2053`). `Imperative` has the expressions and what they compute: `Eval` is Rust's
evaluation, with assignments, panics and ways to leave, and on what the last phase produces it
is that of the folds of `Rust_primitives.Hax`. `SideEffects` is
`side_effect_utils.ml`: an effect is a pair (a variable read or written, or a way to leave), `Commute`
says when an operand may stay behind those that are moved out, `Many` is `HoistSeq.many`. `Functionalization` has one action
per phase (`HoistSideEffects`, `SimplifyMatches`, `MutateLocally`, `Rewrite`, `DropControlFlow`, `Functionalize`); a phase that finds
what it cannot translate ends in `rejected`. `MCFunctionalPrograms` builds the bodies: two
variables, branches, nested loops, every operand beside every operand, and what `?` becomes.

`MC*` modules give the constants of the runs. **MCAlgorithms** puts the seven pure
parts side by side: its variable `subject` says which one a behaviour is about, the
variables of the others keep one idle value, and so the states of the run are the sum and not the
product of theirs. **MCIdentifiers** does the same of `IdTable` and `Interning`, with the constants of `MCInterning`.

**History variables.** `faulted` (both engines) says that a fault has happened and
`raised` (RustEngine) which step raised which diagnostic. Nothing reads them but properties.

## 3. The runs

| run | what it asks | bounds | distinct states |
|---|---|---|---|
| `ocaml` | The conversation with the OCaml engine, every fault, dry run, statistics for a human | 2 diagnostics (one with an owner), 1 path with 2 contents, pipes of 2 messages, one message while importing or working, one debug string | 345 420 |
| `rust_plans` | cargo-hax, the Rust engine and its subprocesses, for the F* plan (native import, one query of phases, a printing query) and the Lean plan (import query, phases, native printer), every fault | 1 diagnostic, 1 file, pipes of 1 message, one message per subprocess while working | 327 122 |
| `rust_printok` | *violated*: what `PrintOk` means (section 6) | F* plan, no fault | |
| `rust_stats` | *violated*: `--stats` always prints | F* plan, no fault | |
| `hax_calls` | Two calls on a workspace of two packages, one depending on the other, all three commands, with `--deps`, `--disable-cargo-cache` or not; between the calls edits, a change of backend and an upgrade of hax; drivers or cargo killed, the disk full, engines failing | 2 calls, each on one package or on the one that needs it, 1 edit per crate | 1 433 067 |
| `hax_primary` | *violated*: `into` applies to the selected packages | 2 calls, no fault | |
| `identifiers` | Two crates' haxmeta files, all graphs of up to one node and of up to three nodes, two types, all four commands; and every order of interning six values, two of them predefined, up to an index that does not fit | 2 crates, 1 and 3 nodes; capacity 2, doubled; indexes up to 4 | 260 051 |
| `interning_references` | *violated*: remembered references stay valid | capacity 2, doubled | |
| `test_driver` | Two calls with `--promote-directives`, two backends (one verifies), two tests, two jobs, every fault | fourteen worlds: tests with files apart and shared, expected, superfluous, promoted, nested, ambiguous and unplaceable diagnostics, failing verification | 370 000 |
| `algorithms` | Integers, iterators, `BinaryHeap`, trait resolution, the monadic phase, dependency analysis, the phases from imperative to functional | half ranges 1, 2, 4 (`usize`), 8 and 16 with every value; lists of up to 3 items, up to 2 adapters; heaps of up to 4 elements, two of equal rank; 3 lookups; operators nested twice; 3 items with a quote in up to 3 modules, and 3 functions under up to 2 clauses; bodies of up to 3 statements on 2 variables, loops of up to 5 turns nested twice, 4 calls of each | 277 185 |
| `phases_panics` | *violated*: F* is given code that panics where the function does | the same, branches that end in a call | |
| `traits_nested` | *violated*: bounds of associated types are found whatever the clauses say | one item, 3 lookups | |

What the passing runs show:

* **The verdict is faithful** (`VerdictFaithful`, both engines): when
  `run_engine` returns, the user saw exactly the diagnostics the engine
  raised (but for the printer's under the Rust engine, section 6), and the error
  flag says whether there were any. Diagnostics travel at the very end,
  through a pipe either side may leave, or in a response that the subprocess may not
  live to send.
* **Files are delivered** (`FilesDelivered`): all the files printed are on disk with their
  contents, or the dry-run output lists the engine's diagnostics and files in
  its order.
* **Statistics are exact** (`StatsExact`): `errors_per_item.insert(item, 0)` would
  erase a count, were an item announced after its diagnostics.
* **The conversation is in order** (`ConversationOK`): requests and replies stay
  in step, through the relay too (`RepliesMatch`), queries are sequential
  (`QueriesSequential`), and nothing fails before a fault (`CleanRun`): the OCaml engine
  waiting in `Hax_io.close` and cargo-hax waiting for it come apart, no process writes to
  a closed pipe, no end of stream is taken for a crash.
* **Everything ends** (`EveryProcessEnds`, both engines, and `CallEnds`), also when
  cargo-hax panics in the middle of a conversation.
* **The promise is kept** (`ImplementsExtraction`, both engines).
* **Exit code 0 means extracted** (`ExitCodeFaithful`): every package the
  command was to translate was extracted in this very call, from its present
  sources under the call's options, whatever cargo has cached (`SuccessMeansExtracted`), and a
  failed build is told although the crates at hand are still extracted (`BuildFailureSurfaces`). For
  `cargo hax json` the first is claimed for one package only, since each export
  truncates the output file of the one before; a call on the package without dependencies is of that kind. `ReadsCurrentHaxmeta`: no file is read that
  is stale, or whose end its driver has yet to write, unless that driver or cargo was killed.
* **Ids resolve** (`TablesOK`), to the values they were given for, whatever the
  process read before (`RoundTrip`), and **messages tell all**
  (`MessagesSelfContained`).
* **A handle stands for its value** (`HandlesCanonical`, `EntriesDenote`),
  and the table only grows (`NeverRemoved`).
* **Green means matched** (`GreenMeansMatched`): after a call of the test driver that exits
  with 0, diagnostics and expectations of each test can be paired, and every output that must be
  verified was, the snapshot being this call's. A backend that takes the haxmeta file of
  another makes the call fail (`MixUpSurfaces`); a test verifies its own output and the progress
  counts do not overflow (`JobsOK`); and what a call promotes, the next one expects
  and then misses no more than before (`PromotionSettles`), whichever faults happened, provided
  the owners have spans, no expectation fits two diagnostics of the next call, no other test has the
  same file, and no failure is the module's own in a file whose first line is an item (`Unambiguous`). The code promises no more: an expectation of `f` takes whichever of two diagnostics of its
  code comes first, so that a diagnostic without owner, or one below `f`, can be promoted
  in one call and take the place of another in the next; and a directive put in a file that is
  two modules (`#[path]`) counts for both. Nor does it hold where a file starts with an item and a failure of the module itself is
  promoted: both directives are for line 1, and `push_line` (`promote_directives.rs:61`) merges what has one line and one kind
  without looking at `bang`, so that the next call expects the module's failure of the item.
* **core-models mean what Rust means**: `ArithmeticExact` (stepping, mixed-sign
  arithmetic, conversions and distances are those of the integers, or fail),
  `NextIsOneStep` (of a `Range`), `MethodsAgree` (each consuming method of each composition of adapters returns what std's does, and an
  iterator that ended stays at its end when it is asked again, though its adapters call the `next` of what they hold again: `StaysEmpty`) and
  `PriorityQueue` (`peek` tells what `pop` returns next, which the F* extraction assumes; `pop` removes one greatest element and nothing else).
* **Trait answers are proofs** (`AnswersAreProofs`): the clause answered, with its index, and the
  indices of its path lead to the predicate asked for. `CandidatesSuffice`: the paths through
  supertraits are shortest, and what a bound of an associated type gives is found whatever was
  asked before. `SearchEnds`.
* **The monadic encoding refines Rust** (`ExtractionRefines`): Lean accepts the result;
  when it returns a value Rust returns that value, and it panics where Rust does, unless a lazy operator is there.
* **Functionalization keeps the meaning** (`MeaningPreserved`): what each phase makes of a body computes what the body
  does, panics included: operands keep their order, a branch not taken assigns nothing, a loop left early keeps
  what it assigned so far. `ExitsInExitPosition`: each return, break and continue reaches a place where
  the next phase can make a value of it.
* **Selection follows the clauses** (`SelectionFollowsClauses`): none that no clause asks for, all that are named and not
  excluded later, with the dependencies the last clause promises. **Bundles are closed** (`BundlesAreClosed`): each
  name keeps a declaration or an alias and no two modules depend on each other. **Dependencies come
  first** (`DependencyOrder`), mutually recursive items in a row, quotes beside their origins.

**Why these bounds.** Every interesting case of the conversations is about the
*relative position* of a message, a request, a file or the death of a process:
one or two of each reach every combination, and a pipe of one or two messages
makes writers block. Two diagnostics distinguish an owner, none, and a repeated
count; two contents a file overwritten. Two plans cover a query at the beginning,
the middle and the end, and natives on both sides. Two calls of cargo-hax suffice
for everything about one stale cache entry; two crates for a dependency that
fails, is fresh or is not. Three nodes give a node inside a node inside a node; the
one-node crate before it leaves its id in the reader's global state. A capacity
of two grows at the third value with two predefined ones, and indexes up to 4 run
out at the sixth value. For the test driver, two backends are needed for a mixed-up file and two
tests for a shared source file; two calls show what a promotion does. The half ranges have types narrower than,
equal to and wider than `usize`, which are the cases of the macros. Adapters nest twice since
each holds one or two iterators and sees only their `next`. Three items suffice for a cycle of two with a
third item inside or outside, and two clauses for one that undoes or completes another. The phases look at one
statement, what precedes it and what follows it, and at one loop and the one around it; the calls make conditions hold at once, later
and never, and `MaxTurns` is above what any body of the run takes that ends.

## 4. Fairness

`FairSpec` assumes weak fairness of each process as a whole: cargo-hax
(`Client`, `Command`), the engines (`EngineStep`, `Rust`, `Sub`), cargo and
each crate's driver. These are processes the operating system schedules, and
each step of theirs is enabled until taken, unless another process dies. Faults,
edits and calls of the user have no fairness. In particular nothing says that an
engine does well: fairness of `EngineStep` may be spent on any of its steps, and
termination of the engine's work is in the bounds (`MaxTalk`, `MaxDiags`): phases
are assumed to terminate.

`TestDriver` assumes weak fairness of `main` and of each task: the async runtime polls
every task that can go on, and the processes awaited end. A task waiting for a permit is enabled only
when there is one, so that fairness does not hide a permit that is never given back. In `algorithms` only
`Search`, the calls in progress of the trait searcher, is fair: a function that was called runs.

## 5. The proofs

### OCamlEngineProofs

For every set of items, diagnostics, paths and contents, every pipe capacity, bound
and set of faults:

* `TypeCorrect`: `Spec => []TypeOK`;
* `VerdictIsFaithful`: `Spec => []VerdictFaithful`;
* `KeepsPromise`: `Spec => ImplementsExtraction`, every step of the conversation
  is a step of `Extraction` or a stutter.

They follow from one inductive invariant, `IInv`, proved in `Invariance`.
`VerdictFaithful` compares the engine's list of diagnostics with the user's,
which no step relates directly: between them lie the outbox, the pipe and the
message loop. Each part of `IInv` covers one stretch:

| part | says |
|---|---|
| `TypeOK` | types |
| `Lifetimes` | who has ended, what a process that has not begun has not written; `returned` only after exit code 0 |
| `OutboxHolds` | once `run` is over the outbox is the diagnostics of `state`, then no diagnostic, then `Exit`, and nothing after it |
| `WrittenIsSent` | what the engine has flushed is in the pipe |
| `SentIsReported` | every diagnostic in the pipe is one of `state` |
| `ExitIsLast` | an `Exit` in the pipe is its last message and the flushing is over |
| `ReadIsShown` | what cargo-hax has read it has shown, and `error` says so |
| `AllIsRead` | past the loop, all of the pipe was read |

The exit status closes the argument: 0 means `Close`, hence a flushed outbox.

Two more invariants rest on `IInv`:

* `ConversationIsOK`: `Spec => []ConversationOK`, from `Conversation`: in which order the outbox is filled
  (`OutboxOrder`), whose turn it is (`Turns`: at most one request or reply is under way, and only while the engine awaits it),
  that a request which was read is answered in kind (`Unanswered`), and that before the first fault no process has
  failed and no pipe was cut short (`NothingFails`, which needs the three others: a process fails when it reads
  what it did not expect).
* `FilesAreDelivered`: `Spec => []FilesDelivered` and `StatsAreExact`: `Spec => []StatsExact`, from `Delivery`: the
  messages between the flushed ones and the read ones (`SentInOrder`); the dry-run output (`OutputHolds`), the disk (`DiskHolds`) and the
  counts (`CountsHold`) are those of the messages acted upon so far. `DiskHolds` needs that no two files of an
  output have one path, and `CountsHold` that every item is announced before any diagnostic is written, and that `NoOwner` is
  no item.

`Concat`, `OutboxShape` and `StateGrows` are facts about sequences; the proof
that a step preserves `IInv` has one lemma for cargo-hax (`ClientStep`) and one
per group of engine actions. Assumptions used: `OwnerAssumption`
and `EngineBounds`, evaluated by TLC in the runs.

### CargoHaxProofs

For every finite workspace (`CratesAssumption`: cargo's dependency order is finite), number of calls and of edits, options,
commands and fault:

* `TypeCorrect`: `Spec => []TypeOK`;
* `ReadsCurrent`: `Spec => []ReadsCurrentHaxmeta`;
* `ExitCodeIsFaithful`: `SelectionStable` implies `Spec => []ExitCodeFaithful`.

`SelectionStable` says that `--deps` is given or that a package which is a unit of two calls is selected
in both or in neither. It is what the run `hax_primary` violates: without it the property is false, and the run
`hax_calls` satisfies it. The properties speak of sources and options of this call; the lines they are read from
may have been written in an earlier one. So `IInv` says who runs (`Turns`), which units a call has (`UnitsOfCall`), that
a driver's file is of the present sources and options, complete or lost once rustc runs again (`DriverWrites`), that
what cargo remembers to have been announced is on disk as it was then (`CacheHolds`), hence each line that is written or replayed
is of a file that is current as long as the call lasts (`LinesHold`), what `run_command` did with the lines before `next`
(`LinesServed`) and what code 0 means (`ZeroMeansDone`). `LinesOfSelected`, which needs `SelectionStable`, adds
that the lines are those of the translated units, replayed ones included.

### RustEngineProofs

For every plan, pipe capacity, bound and fault:

* `TypeCorrect`, `VerdictIsFaithful`: `Spec => []VerdictFaithful`, `FilesAreDelivered`: `Spec => []FilesDelivered`,
  `ConversationIsOK`: `Spec => ConversationOK`;
* `KeepsPromise`: `Spec => ImplementsExtraction`: with whatever plan and however many subprocesses,
  `Extraction` is implemented as by the OCaml engine.

Three processes and four pipes make one invariant unreadable; they are layers, each proved on top of those it needs:

| layer | says |
|---|---|
| `Lifetimes` | which of the processes runs, and what it has left; exit code 0 is the end of the plan |
| `View` | what cargo-hax reads has no `Exit` and no garbage, is read to the end before `wait`, and is shown |
| `Answers` | where a diagnostic is between `Diagnostics.Core.state` of a subprocess and the screen: in the state, the response, the queue, or sent; and none is invented |
| `AnswerOrder` | a subprocess that succeeds has written its response, then `Exit` and nothing after it, so that the engine, which stops reading at `Exit`, missed nothing |
| `TurnTaking` | in each of the two nested conversations at most one request or reply is under way, while the one who asked awaits it |
| `NothingFails` | before the first fault only fatal errors of phases end a process, and no pipe is cut short |
| `FilesOnTheWay` | the files are those of one answer, one per path, forwarded in order and acted upon |

`VerdictFaithful` follows from the first three layers; `ConversationOK` from `TurnTaking` and `NothingFails`, and its part
`QueriesSequential`, an action property, from `Lifetimes`.

### IdTableProofs

For every number of crates and of nodes, and every set of commands: `TablesAreOK`: `Spec => []TablesOK`, `ReadBackAsWritten`: `Spec => []RoundTrip`
and `MessagesTellAll`: `Spec => []MessagesSelfContained`. The argument is that an id is greater than those of the nodes inside
its node: `TableOf(T, N)` says that a table has the ids below `N` and nodes of smaller ids only. Then the sorted table is read in an
order in which each id is known when it is met; `Part(T, k)` is what a reader has after `k` pairs, and `ReadingOf` says that the global
state of the process is just that, which is why `open` puts the old contents aside. Between two documents the state is
empty (`Readers`), so nothing of one crate resolves in the next. `MessagesSelfContained` also needs that no process has the
flag `SERIALIZATION_MODE_USE_IDS` between its steps (`Moments`).

### TestDriverProofs

For all sets of backends and tests, all worlds, `--jobs`, calls and faults: `NoMixUp`: `Spec => []MixUpSurfaces`, `GreenIsRight`: `Spec => []GreenMeansMatched`,
`JobsAreOK`: `Spec => []JobsOK` and `PromotionsSettle`: `Spec => []PromotionSettles`. All of them use `Shape`: which task can be where, and what a call has in memory
before it starts and after it ends.

* *A mix-up surfaces*: a file can change hands many times. `Pending` are the backends that want one; `Deficit` says that there
  are fewer files than backends that want one, or that a backend has failed. A backend with a file that is not its own implies
  `Deficit` (`FilesInPlace`), `Deficit` lasts as long as the call (`DeficitStays`), and a call ends well only when nothing is pending and nothing
  failed.
* *Green is right*: `Shown(b, t, pc)` says what a test must have shown to be at `pc`. That nothing is left by one of the matchings of
  `Diagnostics::remove`, whichever order the hash table chose, makes it a bijection of the diagnostics and the expectations
  (`NothingLeft`); `Stored` holds until the end because `DIRS` keeps other tests off the directory.
* *The bar does not overflow*: the counts are the cardinalities of the jobs announced and (at most) of the jobs finished
  (`Counting`), and the finished ones are among the announced ones (`FinishedAnnounced`).
* *Edits stay in their file*: `Queued` says that an edit is at a line of its file. The two paths of one file have queues of their own, and
  saving one makes the file grow under the other's feet, but it never shrinks it (`EditedLonger`): the new file is at least one element per old line,
  since `FlattenSeq` of `n` sequences that are not empty has at least `n` elements (`FlattenLong`). `FlattenSeq` is recursive; what it computes is
  proved without an induction theorem, from the *least* number for which the claim fails (`LeastNumber`).
* *Promotion settles* follows a failure through two calls (`PromotionInv`):
  * what is queued while the tests run is right (`EditsRight`: every mark is of a failure that a test of the file has promoted, at the place
    of its owner, and no failure is marked twice) and complete (`PromotedAll`), although the directives of several failures, tests and
    backends are merged line by line (`PushGrows`, `QueueShape`);
  * an edited file has a `Layout`: the old lines in their order, each directive before the line of its number, and nothing else at
    any place (`EditedLayout`, from the offsets of the sequences in `FlattenSeq`: `FlattenLayout`). Hence the old directives document what they
    did (`DocumentedMoved`), a new one the item it was pushed for (`DocumentedNew`), and as many expectations are added as
    diagnostics were left (`ExpectationsAdded`);
  * so when the backends are joined the file, with what is queued for it, expects every diagnostic of the test, and as many more as
    were missing (`JoinSettles`); `SettledInv` says the same of the file at every later moment, half written or not, and across
    calls. A call that fails to save, or is interrupted, settles nothing;
  * in the next call a matching then leaves no diagnostic, and as many expectations as the other call missed (`SettledMatches`).

  That a test has edits under one of the two paths of its file only is needed: the line numbers of the second path are those of the
  file before the first was written.

Assumed are `DriverAssumption` (finitely many backends and tests; `None` is nothing else) and `WorldAssumption` (an engine
answers with finitely many diagnostics, and its owners are inside themselves; a source file is a sequence of lines, not empty, and a
directive has finitely many codes).

### InterningProofs

For every set of values, list of predefined ones, capacity and maximal index:

* `Canonical`: `InternSpec => []HandlesCanonical`; `EntriesStay`: `InternSpec => []EntriesDenote`, from
  `Denote` and `NamesStay`;
* `OnlyGrows`: `InternSpec => NeverRemoved`.

`HandlesCanonical` is about pairs of handles, and is not inductive: a handle for a
new value could meet an old index if the map and the vector disagreed. `IInv` says
that the vector inverts the map (`TableInverse`) and that the map knows each
handle (`HandlesKnown`) and each remembered name (`NamesKnown`). `TableFacts`
shows the same of the table the `LazyLock` has yet to make, which needs that the
predefined values are distinct (`PredefinedAssumption`; the code panics
otherwise at compile time). `InternExtends` shows that `try_intern` leaves
the old table a prefix of the new one, also when it panics after its push. What
is *proved* here is that handles are right; that references are not is a
finding.

### CoreModelsProofs

`CoreInt`: for every width of the types and of `usize`, narrow types being at most as wide and wide ones at least
twice as wide (`IntAssumption`; powers of two are not needed), and for every value and count:
`ArithmeticIsExact`: `Spec => []ArithmeticExact`, from one theorem per part (`ForwardIsExact`, `BackwardIsExact`, `MixedSignIsExact`, `StepsAreExact`,
`ConversionsAreExact`); and `NextStepsOnce`: `Spec => NextIsOneStep`. The only invariant is the type (`RangeTyped`):
each operation is exact on its own. The lemmas `ForwardNarrowExact` and `BackwardNarrowExact` hold the argument: a signed value plus a
count below the size of its type, wrapped, is smaller than the value exactly when the sum does not fit.

`CoreHeap`: for every set of elements, order of their keys and bound of the vector, `QueueIsRight`: `HeapSpec => PriorityQueue`. The
invariant `HeapInv` has the types, `LoopInvariant` (the loop that runs holds the *first* of the greatest of the elements it has
seen, with its index) and what `peek` promised, which is the first of the greatest of the heap as it is: since
that element is unique (`FirstGreatestUnique`), whatever `pop` finds later is the same one, also among equal elements.

### TraitSearchProofs

For all traits, associated types, clauses, environments and questions: `AnswersProven`: `SearchSpec => []AnswersAreProofs`. The property speaks of answers
only; `SearchInv` says that every candidate is proven (`SearchersInv`), that what waits to be inserted follows
from a proven one (`QueueInv`), that the stack is one of the shapes the calls leave it in (`CallsInv`)
and that a lookup returns what its caller asked for (`ReturnInv`). `AddBounds` is the step that needs them all: it extends
what `Find` returned for the trait reference of the projection. `CandidatesAreEnough`: `SearchSpec => []CandidatesSuffice`, from two
more invariants on top of it:

* `PathsInv` (`PathsInvariant`): the queue is a breadth-first search. It is in order of length, and no two lengths in it are more
  than one apart (`InOrder`); what is one supertrait away from a candidate is a candidate or waits with a path that is one longer at most
  (`Spread`). So a predicate inserted at length `n` is implied in `n` steps and not in `n - 1`. The bounds of
  associated types come later and have paths of another kind.
* `BoundsInv(n)`: what the candidates' traits imply is among the candidates (`Closed`), a call in progress will be served what it asked
  for (`CallsServed`), and what was answered before holds no `Error` for what `n` bounds give (`BoundsFound`). `BoundsAreFound` states
  the last one for every `n`; the property that is checked has `n = 4`.

Both need that predicates are in normal form, as the code inserts and looks them up. Without it the second is
false in a world with three equations that apply one after the other, since `normalize_bound_val` stops after two.
That the descent ends is model-checked.

### What is only model-checked

Liveness (`EveryProcessEnds` of both engines, `CallEnds` of cargo-hax and of the test driver, `SearchEnds`), which the proof system does
not reach; `ExtractionRefines`, `MethodsAgree`, `MeaningPreserved`, `ExitsInExitPosition` and the three properties of `Dependencies`,
which are about recursive operators on trees and graphs.

## 6. Findings

* **`rust_printok`**: under the Rust engine's F* backend the diagnostics of the OCaml
  printer are lost. The printer catches the error of an item, prints a comment
  in its place and leaves the diagnostic in `Diagnostics.Core.state`; the answer is
  `PrintOk`, documented as "Printing was done successfully", which has no room for
  it. The command shows nothing and exits with 0.
* **`rust_stats`**: `--stats` divides by the number of items announced. The Rust
  engine on full definitions announces none: a flawless extraction panics.
* **`hax_primary`**: whether a crate is translated depends on
  `CARGO_PRIMARY_PACKAGE`, which the dep-info does not track. A package that was
  compiled as a dependency in one call, and is selected in the next, is fresh for cargo:
  its driver does not run, nothing is announced, and `cargo hax into` exits with 0.
  This rests on the model of cargo above.
* **`interning_references`**: a memo table remembers a `'static` reference into
  the vector of the interning table; later values make the vector grow and
  move. The comment on `Interned::get` deems this sound as long as values are
  never removed, and they never are (`NeverRemoved` is proved).
* **`phases_panics`**: `if small(x) { check(y) } else { y = 1 }` becomes `let y = if small(x) then y else 1`. The value of
  the branch is dropped, `y` is returned in its place, and the call is kept only if it has an effect other than reading
  (`phase_local_mutation.ml:392`); panicking, or having a precondition, is none. With a semicolon after the call it stays. The
  manual says that what F* typechecks never panics (`docs/manual/fstar/quick_start.md:82`).
* **`traits_nested`**: `trait Tr { type B: Iter<Item: Foo>; }` and an item with `T: Tr, T::B: Iter`. The bounds of `B` are loaded when a predicate about
  `T::B` is not known; the clause makes `T::B: Iter` known, and `<T::B as Iter>::Item: Foo`, which follows from the bounds of
  `B`, is answered with an `Error`. Without the clause it is found, as everything is in the other worlds of `MCTraitWorlds`.

## 7. Limits of the models

*Trees.* Phases, imports and printers of both engines transform trees; they appear
only as steps that may report diagnostics, ask for formatting, write files or
fail. Their correctness is about Rust's semantics, and no finite
instance would say anything of it. So it is for the exporter's translation. `ExplicitMonadic` and `Functionalization` are
the exceptions: their input language is small enough to be evaluated.

*Abstractions.* A message carries what handlers look at; a file is a path and
contents; source maps, profiling figures and debug payloads are left out. In
`CargoHax`, sources are a version number, a build fails or not by choice, and the
`--haxmeta` option (which skips cargo) is left out; pruning of a haxmeta is in
`IdTable`, as a choice of roots. `IdTable` takes documents to be sets of nodes. The cache of file contents in the
rendering of diagnostics, colours and layout are left out.

*Test driver.* Span hints are looked up by `DefId`, whose `Hash` covers rustc's indexes and whose `Eq` does not
(`span_hint.rs:54`); ids of different sessions are taken to be told apart. Reports are printed by a task nobody waits
for (`log.rs:763`): the last ones may be lost when `main` returns, and reports are left out.

*core-models.* `StepBy::next` (`iter.rs:453-465`) skips `step - 1` items before the first one, unlike std's, so that the run
takes step 1 only; `iter_max` keeps the first of equal maxima and std the last, so that `MethodsAgree` asks of `max` one of the greatest only. `String::pop`,
`swap_remove` and the functions whose body is a dummy are left out.

*Trait resolution.* A bound of an associated type on a projection of it is loaded only with the other bounds: in
the world `NestedBounds` an answer, kept in the cache, is an `Error` or not depending on what was asked before. `CandidatesSuffice`, which is
proved, leaves this open; `NestedBoundsFound` does not (`traits_nested`). A trait that is implied by itself (`resolution.rs:348`) and the numbers of chunks when the declaration has clauses
that are dropped (`resolution.rs:28`) are not in the worlds.

*Monadic phase.* Lean's `&&?` and `||?` evaluate both operands where Rust's are lazy, so
the encoding refines Rust and is not equal to it. Coercions in types and constant generics are left out.

*Left out* of the bodies of `MCFunctionalPrograms`, since the phases do not carry them over:

* the condition of a `while` that does something: its `let`s are put before the loop (`side_effect_utils.ml:293-316`); likewise
  the second operand of `&&`, which is imported as a call (`import_thir.ml:580`) and so hoisted whatever the first one is;
* a branch whose last expression may panic and has no semicolon (the finding above);
* an operand that only reads, before one that both assigns and leaves: the second case of `commute`
  (`side_effect_utils.ml:108`) lets it stay and it reads the new value, so that `check(minus(x, {x = 0; if small(y) {return y}; 1}))`
  is given to F* as `check(minus(0, 1))`;
* a loop that only breaks before one that returns, in the same block: the statements before the loop that returns are not rewritten, and
  Drop_return_break_continue fails its assertion;
* a `return` of type unit in nested loops, which `loop_return_type` loses (`phase_rewrite_control_flow.ml:37-47`);
* a function that ends in a loop or an assignment, which the phases give the type of a state and a unit.

Each variable is bound once. Types, places other than a variable, closures, annotations of loops and `loop` are not in the
language; labels are dropped by the importers.

*Dependency analysis.* The order of `Make_stable` is any topological order; the modules made by `fresh_module` are
taken to be new; the filter on excluded items after the selection (`bin/lib.ml:69`) is left out; the anonymous fields of
`is_field_anonymous` (which looks at the module path of a field) are not told apart. What the properties leave open is what the code does otherwise:
after `-** +~a +b`, what the body of `b` mentions is left out when `b` is a dependency of `a`, because
`items_drop_body` is not cleared by the later clause; an exclusion after `+` also drops what only the excluded item
reached, in the second pass; an item that is mentioned and not extracted keeps its old module and may leave a bundle and
the module of its aliases mutually dependent (hence `SelfContained`); a quote may come between two
members of a recursive group, when one of them is its origin; two quotes before one item come out in reverse order.
A quote of a `use` item in a bundled module loses its place and fails the assertion of `sort`: the run has no such crate.

*Hazards without a property.* In `bin/lib.ml:299` a fatal error of a phase escapes `capture` (only `try_`
handles it); the model has it as the subprocess dying of an exception. Output files of an earlier extraction are never removed
(`cargo_hax.rs:283`).

*Not modelled at all*: the exporter's caches (`state.rs:291`: one RefCell, filled
recursively by code that is rustc's data structures for the most part); the debugger of the Rust engine and the debug web
application (they serve a snapshot), the Aeneas command (two external programs in a
row), JSON schemas and generated code, hax-lib and the proof libraries, parsing of
options.

## 8. The plan

In this order.

1. **Exporter caches** (`state.rs`, `full_def.rs`): a memo table behind one RefCell,
   filled by recursive translations: no re-entrant borrow, and a cached
   answer is that of its key.
2. **More phases**: others whose language can be evaluated as `Functionalization`'s is: places
   (`phase_direct_and_mut.ml`), the traits of `phase_traits_specs.ml`, the phases of the Rust engine.
