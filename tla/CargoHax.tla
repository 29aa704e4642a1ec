------------------------------- MODULE CargoHax -------------------------------
(***************************************************************************)
(* The cargo-hax command: from a call of the user to its exit code.        *)
(*                                                                         *)
(* `compute_haxmeta_files` runs `cargo check` with the hax driver in place *)
(* of rustc.  For each crate to translate the driver writes a haxmeta      *)
(* file, announces it in a line on stderr, and runs rustc again to build   *)
(* the crate.  Once cargo has ended, `run_command` reads the announced     *)
(* files and runs the engine on each (RunEngine models that).              *)
(*                                                                         *)
(* Cargo is modelled as it documents itself: it compiles a crate after its *)
(* dependencies; it skips a crate whose sources, dependencies and tracked  *)
(* environment have not changed since it was last compiled, and replays    *)
(* what the compiler wrote on stderr then; it starts nothing new after a   *)
(* failure.  The user calls cargo-hax several times, and edits the crates  *)
(* between two calls.                                                      *)
(***************************************************************************)
EXTENDS Integers, Sequences, FiniteSets

CONSTANTS
  Crate,         \* the local packages
  DependsOn,     \* DependsOn[c]: the crates c depends on, transitively
  BuildScript,   \* the crates that are build scripts
  Deps,          \* --deps
  Option,        \* the tracked environment: records with the fields frontend and version
  Forcing,       \* the values --disable-cargo-cache is given
  Primaries,     \* the selections of packages a user makes
  Commands,      \* commands called, among "into", "json", "serialize"
  MaxCalls,      \* bound: calls of cargo-hax
  MaxEdits,      \* bound: edits of a crate
  Faults         \* among "kill" (of a driver), "killCargo", "disk" (full), "engine"

ASSUME CratesAssumption ==
  /\ IsFiniteSet(Crate)
  /\ DependsOn \in [Crate -> SUBSET Crate]
  /\ \A c \in Crate : c \notin DependsOn[c] /\ \A d \in DependsOn[c] : DependsOn[d] \subseteq DependsOn[c]
  /\ BuildScript \subseteq Crate
ASSUME CallsAssumption ==
  /\ Primaries \subseteq SUBSET Crate
  /\ Commands \subseteq {"into", "json", "serialize"}
  /\ Forcing \subseteq BOOLEAN /\ Deps \in BOOLEAN /\ MaxCalls \in Nat /\ MaxEdits \in Nat
ASSUME FaultsAssumption == Faults \subseteq {"kill", "killCargo", "disk", "engine"}

None == [none |-> TRUE]
Running == -1

VARIABLES
  pc,         \* "idle", "collect" (compute_haxmeta_files), "run" (run_command), "exit"
  call,       \* the call: its options, command and primary packages
  calls,      \* how many calls were made
  src,        \* src[c]: the version of the sources of c
  unit,       \* unit[c]: how far the compilation of c is in this call
  haxmeta,    \* haxmeta[c]: the haxmeta file of c
  cache,      \* cache[c]: what cargo remembers of the last compilation of c
  emitted,    \* the crates of the EmitHaxMeta lines written on stderr
  cargoCode,  \* exit code of cargo, or Running
  next,       \* the position of the line run_command is at
  error,      \* `error` of run_command
  extracted,  \* what the engine extracted without error in this call
  exitCode    \* exit code of cargo-hax

callVars == <<call, calls, src>>
buildVars == <<unit, haxmeta, cache, emitted, cargoCode>>
runVars == <<next, error, extracted, exitCode>>
vars == <<pc, callVars, buildVars, runVars>>

Call == [options : Option, force : Forcing, command : Commands, primary : Primaries]

Init ==
  /\ pc = "idle"
  /\ call \in Call
  /\ calls = 0
  /\ src = [c \in Crate |-> 0]
  /\ unit = [c \in Crate |-> "out"]
  /\ haxmeta = [c \in Crate |-> None]
  /\ cache = [c \in Crate |-> None]
  /\ emitted = << >>
  /\ cargoCode = 0
  /\ next = 1 /\ error = FALSE /\ extracted = {} /\ exitCode = 0

(***************************************************************************)
(* The user.                                                               *)
(***************************************************************************)
Active == {"check", "write", "emit", "close", "build"}
Quiet == \A c \in Crate : unit[c] \notin Active

Edit(c) ==
  /\ pc = "idle" /\ Quiet
  /\ src[c] < MaxEdits
  /\ src' = [src EXCEPT ![c] = @ + 1]
  /\ UNCHANGED <<pc, call, calls, buildVars, runVars>>

\* The units of a call are the primary packages and their dependencies.
Invoke ==
  /\ pc = "idle"
  /\ calls < MaxCalls
  /\ Quiet
  /\ call' \in Call
  /\ calls' = calls + 1
  /\ unit' = [c \in Crate |-> IF \E p \in call'.primary : c = p \/ c \in DependsOn[p]
                              THEN "waiting" ELSE "out"]
  /\ pc' = "collect" /\ cargoCode' = Running
  /\ emitted' = << >> /\ next' = 1 /\ error' = FALSE /\ extracted' = {}
  /\ UNCHANGED <<src, haxmeta, cache, exitCode>>

(***************************************************************************)
(* Cargo.                                                                  *)
(***************************************************************************)
Ready(c) ==
  /\ cargoCode = Running
  /\ unit[c] = "waiting"
  /\ \A d \in DependsOn[c] : unit[d] \in {"fresh", "built"}

\* Variant: the driver does not add its options to the dep-info.
SameOptions_Untracked(c) == TRUE

\* CallbacksWrapper puts the options and the version of hax in the dep-info;
\* vanilla_rustc, which writes it, records them without --disable-cargo-cache.
SameOptions(c) == cache[c].options = call.options /\ ~call.force

Fresh(c) ==
  /\ cache[c] # None
  /\ cache[c].src = src[c] /\ SameOptions(c)
  /\ \A d \in DependsOn[c] : unit[d] = "fresh"

Replay(c) ==
  /\ Ready(c) /\ Fresh(c)
  /\ unit' = [unit EXCEPT ![c] = "fresh"]
  /\ emitted' = IF cache[c].emitted THEN Append(emitted, c) ELSE emitted
  /\ UNCHANGED <<pc, callVars, haxmeta, cache, cargoCode, runVars>>

\* `translate_package`.
Translated(c) == c \notin BuildScript /\ (Deps \/ c \in call.primary)

Compile(c) ==
  /\ Ready(c) /\ ~Fresh(c)
  /\ \A d \in Crate : unit[d] # "failed"
  /\ unit' = [unit EXCEPT ![c] = IF Translated(c) THEN "check" ELSE "build"]
  /\ cache' = [cache EXCEPT ![c] = None]
  /\ UNCHANGED <<pc, callVars, haxmeta, emitted, cargoCode, runVars>>

CargoExits ==
  /\ cargoCode = Running
  /\ Quiet
  /\ IF \E c \in Crate : unit[c] = "failed"
     THEN cargoCode' = 101
     ELSE cargoCode' = 0 /\ \A c \in Crate : unit[c] # "waiting"
  /\ UNCHANGED <<pc, callVars, unit, haxmeta, cache, emitted, runVars>>

CargoKilled ==
  /\ "killCargo" \in Faults
  /\ cargoCode = Running
  /\ cargoCode' = 254
  /\ UNCHANGED <<pc, callVars, unit, haxmeta, cache, emitted, runVars>>

(***************************************************************************)
(* The driver.                                                             *)
(***************************************************************************)
Step(c, from, to) ==
  /\ unit[c] = from
  /\ unit' = [unit EXCEPT ![c] = to]
  /\ UNCHANGED <<pc, callVars, cargoCode, runVars>>

Fail(c) ==
  /\ \E from \in {"check", "write", "build"} : Step(c, from, "failed")
  /\ UNCHANGED <<haxmeta, cache, emitted>>

Kill(c) ==
  /\ "kill" \in Faults
  /\ \E from \in Active : Step(c, from, "failed")
  /\ UNCHANGED <<haxmeta, cache, emitted>>

\* `File::create` truncates the file of an earlier call.
Create(c) ==
  /\ Step(c, "check", "write")
  /\ haxmeta' = [haxmeta EXCEPT ![c] =
       [src |-> src[c], options |-> call.options, end |-> "buffered"]]
  /\ UNCHANGED <<cache, emitted>>

\* `export_crate` and `haxmeta.write`: the end of the file is still in the BufWriter.
Write(c) == Step(c, "write", "emit") /\ UNCHANGED <<haxmeta, cache, emitted>>

\* The line goes through cargo; without cargo `eprintln` panics.
Emit(c) ==
  /\ IF cargoCode = Running
     THEN Step(c, "emit", "close") /\ emitted' = Append(emitted, c)
     ELSE Step(c, "emit", "failed") /\ UNCHANGED emitted
  /\ UNCHANGED <<haxmeta, cache>>

WithEnd(c, end) == [haxmeta EXCEPT ![c] = [src |-> @.src, options |-> @.options, end |-> end]]

\* Dropping the BufWriter writes the rest; an error there is ignored.  Then the
\* driver goes on to vanilla_rustc, unless the compiler reported errors.
Close(c) ==
  /\ \E to \in {"build", "failed"} : Step(c, "close", to)
  /\ \/ haxmeta' = WithEnd(c, "written")
     \/ "disk" \in Faults /\ haxmeta' = WithEnd(c, "lost")
  /\ UNCHANGED <<cache, emitted>>

\* `vanilla_rustc`, or the driver with no callback.  Cargo remembers it.
Build(c) ==
  /\ Step(c, "build", "built")
  /\ cache' = IF cargoCode # Running THEN cache
              ELSE [cache EXCEPT ![c] =
                      [src |-> src[c], options |-> call.options, emitted |-> Translated(c)]]
  /\ UNCHANGED <<haxmeta, emitted>>

(***************************************************************************)
(* cargo-hax.                                                              *)
(***************************************************************************)
\* Variants: a line is handled as soon as it comes; cargo-hax waits for cargo's success.
StderrEof_Streaming == cargoCode # Running \/ emitted # << >>
StderrEof_Success == cargoCode = 0

\* Cargo waits for its drivers, so that its stderr ends when it does.
StderrEof == cargoCode # Running

Collect ==
  /\ pc = "collect"
  /\ StderrEof
  /\ pc' = "run"
  /\ UNCHANGED <<callVars, buildVars, runVars>>

\* Variants: cargo's exit code is dropped, or added to.
Status_ErrorOnly == IF error THEN 1 ELSE 0
Status_Added == IF error THEN cargoCode + 1 ELSE cargoCode

Status == IF cargoCode = 0 /\ error THEN 1 ELSE cargoCode

Exit(code) == pc' = "exit" /\ exitCode' = code /\ UNCHANGED <<callVars, buildVars>>

Reading == pc = "run" /\ next <= Len(emitted) /\ call.command # "serialize"
File == haxmeta[emitted[next]]
Whole == File.end = "written"
Extract(c) == [crate |-> c, src |-> haxmeta[c].src, options |-> haxmeta[c].options]

\* `HaxMeta::read` panics on a file that is cut short or of another version.
ReadPanics ==
  /\ Reading
  /\ ~Whole \/ File.options.version # call.options.version
  /\ Exit(101)
  /\ UNCHANGED <<next, error, extracted>>

Readable == Reading /\ Whole /\ File.options.version = call.options.version

\* The export opens the output file anew for every crate.
ExportJson ==
  /\ Readable /\ call.command = "json"
  /\ extracted' = {Extract(emitted[next])}
  /\ next' = next + 1
  /\ UNCHANGED <<pc, callVars, buildVars, error, exitCode>>

\* `error || run_engine(..)`: after an error the other crates are skipped.
RunEngine ==
  /\ Readable /\ call.command = "into" /\ ~error
  /\ next' = next + 1
  /\ \E verdict \in BOOLEAN :
       /\ error' = verdict
       /\ extracted' = IF verdict THEN extracted ELSE extracted \cup {Extract(emitted[next])}
  /\ UNCHANGED <<pc, callVars, buildVars, exitCode>>

SkipCrate ==
  /\ Readable /\ call.command = "into" /\ error
  /\ next' = next + 1
  /\ UNCHANGED <<pc, callVars, buildVars, error, extracted, exitCode>>

\* run_engine ends the process when the engine fails, or panics.
EngineFails ==
  /\ "engine" \in Faults
  /\ Readable /\ call.command = "into" /\ ~error
  /\ \E code \in {1, 101} : Exit(code)
  /\ UNCHANGED <<next, error, extracted>>

Finish ==
  /\ pc = "run"
  /\ ~Reading
  /\ Exit(Status)
  /\ UNCHANGED <<next, error, extracted>>

Idle ==
  /\ pc = "exit"
  /\ pc' = "idle"
  /\ UNCHANGED <<callVars, buildVars, runVars>>

Driver(c) == Create(c) \/ Write(c) \/ Emit(c) \/ Close(c) \/ Build(c)
CargoStep == CargoExits \/ \E c \in Crate : Replay(c) \/ Compile(c)
Command == Collect \/ ReadPanics \/ ExportJson \/ RunEngine \/ SkipCrate \/ EngineFails \/ Finish

Terminated == pc = "idle" /\ calls = MaxCalls /\ UNCHANGED vars

Next ==
  \/ Invoke \/ Idle \/ CargoStep \/ CargoKilled \/ Command \/ Terminated
  \/ \E c \in Crate : Edit(c) \/ Fail(c) \/ Kill(c) \/ Driver(c)

Spec == Init /\ [][Next]_vars

\* Every process that can run does.
FairSpec ==
  Spec /\ WF_vars(CargoStep) /\ WF_vars(Command) /\ \A c \in Crate : WF_vars(Driver(c))

-----------------------------------------------------------------------------
Selected == {c \in Crate : unit[c] # "out" /\ Translated(c)}

\* Every variable has its type.
TypeOK ==
  /\ pc \in {"idle", "collect", "run", "exit"}
  /\ call \in Call /\ calls \in 0..MaxCalls
  /\ src \in [Crate -> 0..MaxEdits]
  /\ unit \in [Crate -> Active \cup {"out", "waiting", "fresh", "built", "failed"}]
  /\ haxmeta \in [Crate ->
       [src : 0..MaxEdits, options : Option, end : {"buffered", "written", "lost"}] \cup {None}]
  /\ cache \in [Crate -> [src : 0..MaxEdits, options : Option, emitted : BOOLEAN] \cup {None}]
  /\ emitted \in Seq(Crate) /\ next \in 1..Len(emitted) + 1
  /\ cargoCode \in {Running, 0, 101, 254} /\ exitCode \in {0, 1, 101, 254}
  /\ error \in BOOLEAN
  /\ extracted \subseteq [crate : Crate, src : 0..MaxEdits, options : Option]

(***************************************************************************)
(* `cargo hax into` exits with code 0 only when every package it was to    *)
(* translate has been extracted without error in this very call, from its  *)
(* present sources and with the options of the call: whatever cargo had    *)
(* cached, whichever crate failed, whatever happened in earlier calls.  So *)
(* does `cargo hax json`, when there is one such package.                  *)
(***************************************************************************)
SuccessMeansExtracted ==
  pc = "exit" /\ exitCode = 0
    /\ (call.command = "into" \/ (call.command = "json" /\ Cardinality(Selected) = 1))
  => \A c \in Selected : [crate |-> c, src |-> src[c], options |-> call.options] \in extracted

(***************************************************************************)
(* The exit code tells of a failed build even though cargo-hax goes on     *)
(* with the crates it has ("continuing anyway") and these extract well.    *)
(***************************************************************************)
BuildFailureSurfaces == pc = "exit" /\ exitCode = 0 => \A c \in Crate : unit[c] # "failed"

\* Both: what a user, or a script, may conclude from a call that exits with 0.
ExitCodeFaithful == SuccessMeansExtracted /\ BuildFailureSurfaces

(***************************************************************************)
(* A haxmeta file is read only when it holds the present sources of its    *)
(* crate under the options of the call.  Its line is written before its    *)
(* end; that is still in the driver's buffer when the file is read only if *)
(* the driver or cargo was killed.                                         *)
(***************************************************************************)
ReadsCurrentHaxmeta ==
  Reading =>
    /\ File # None /\ File.src = src[emitted[next]] /\ File.options = call.options
    /\ File.end = "buffered" => unit[emitted[next]] = "failed" \/ cargoCode = 254

(***************************************************************************)
(* The command is applied to the packages of the current directory, or the *)
(* ones selected with cargo options, as the documentation of --deps says.  *)
(***************************************************************************)
AppliedToPrimary ==
  pc = "exit" /\ exitCode = 0 /\ call.command = "into" =>
    \A c \in call.primary \ BuildScript : \E e \in extracted : e.crate = c

(***************************************************************************)
(* Every call ends, whatever fails.                                        *)
(***************************************************************************)
CallEnds == pc = "collect" ~> pc = "exit"
=============================================================================
