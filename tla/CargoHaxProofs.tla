---------------------------- MODULE CargoHaxProofs ----------------------------
(***************************************************************************)
(* Proofs about calls of cargo-hax, for every workspace, every number of   *)
(* calls and of edits between them, and every fault.                       *)
(***************************************************************************)
EXTENDS CargoHax, FiniteSetTheorems, TLAPS

\* The units of a call that selects P, and those of them that are translated.
InUnits(c, P) == \E p \in P : c = p \/ c \in DependsOn[p]
Wants(c, P) == c \notin BuildScript /\ (Deps \/ c \in P)

(***************************************************************************)
(* What the exit code rests on besides the code: a package that is a unit  *)
(* of two calls is selected in both or in neither, unless --deps is given. *)
(* Without it a package first compiled as a dependency is fresh when it is *)
(* selected, and is not announced: AppliedToPrimary fails of that.         *)
(***************************************************************************)
SelectionStable ==
  Deps \/ \A P, Q \in Primaries : \A c \in Crate : InUnits(c, P) /\ InUnits(c, Q) => (c \in P <=> c \in Q)

-----------------------------------------------------------------------------
(***************************************************************************)
(* The inductive invariant.  ExitCodeFaithful relates sources and options  *)
(* of this call to what was extracted; between them lie the haxmeta file,  *)
(* maybe written in an earlier call, and the line that announced it, maybe *)
(* replayed.                                                               *)
(***************************************************************************)
\* Who runs: cargo while lines are collected, no driver after cargo has ended by itself.
Turns ==
  /\ pc # "collect" => cargoCode # Running
  /\ pc = "collect" => next = 1
  /\ cargoCode \in {0, 101} => Quiet
  /\ cargoCode = 0 => \A c \in Crate : unit[c] \notin {"waiting", "failed"}

\* A unit belongs to the call; one that has a haxmeta file to write is to be translated.
UnitsOfCall ==
  \A c \in Crate :
    /\ unit[c] # "out" => InUnits(c, call.primary)
    /\ unit[c] \in {"check", "write", "emit", "close"} => Translated(c)
    /\ unit[c] \in Active => cache[c] = None

\* The haxmeta file of c is that of its sources and of the options of this call.
Current(c) == haxmeta[c] # None /\ haxmeta[c].src = src[c] /\ haxmeta[c].options = call.options

\* A driver's file is current, and complete or lost when rustc runs again.
DriverWrites ==
  \A c \in Crate :
    /\ unit[c] \in {"write", "emit", "close"} => Current(c)
    /\ unit[c] = "build" /\ Translated(c) => Current(c) /\ haxmeta[c].end # "buffered"

\* What cargo remembers to have been announced is on disk as it was then.
CacheHolds ==
  \A c \in Crate :
    cache[c] # None =>
      /\ cache[c].emitted =>
           /\ haxmeta[c] # None /\ haxmeta[c].end # "buffered"
           /\ haxmeta[c].src = cache[c].src /\ haxmeta[c].options = cache[c].options
      /\ \E P \in Primaries : InUnits(c, P) /\ (cache[c].emitted <=> Wants(c, P))

\* A line announces a file that is current for as long as the call lasts.
LinesHold ==
  \A k \in 1..Len(emitted) :
    /\ unit[emitted[k]] \in {"close", "build", "built", "fresh", "failed"}
    /\ haxmeta[emitted[k]] # None
    /\ haxmeta[emitted[k]].end = "buffered" => unit[emitted[k]] \in {"close", "failed"}
    /\ pc # "idle" => Current(emitted[k])

\* run_command has dealt with the lines before next.
Entry(c) == [crate |-> c, src |-> src[c], options |-> call.options]
LinesServed ==
  pc \in {"run", "exit"} =>
    /\ call.command = "into" /\ ~error => \A k \in 1..next - 1 : Entry(emitted[k]) \in extracted
    /\ call.command = "json" /\ next > 1 => Entry(emitted[next - 1]) \in extracted

\* Exit code 0 is the end of run_command, after every line.
ZeroMeansDone ==
  pc = "exit" /\ exitCode = 0 =>
    /\ cargoCode = 0 /\ ~error
    /\ call.command # "serialize" => next = Len(emitted) + 1

IInv ==
  /\ TypeOK
  /\ Turns
  /\ UnitsOfCall
  /\ DriverWrites
  /\ CacheHolds
  /\ LinesHold
  /\ LinesServed
  /\ ZeroMeansDone

(***************************************************************************)
(* Under SelectionStable: the lines are those of the translated units.     *)
(***************************************************************************)
Announced(c) == \E k \in 1..Len(emitted) : emitted[k] = c
LinesOfSelected ==
  /\ \A k \in 1..Len(emitted) : Translated(emitted[k])
  /\ \A c \in Crate : Translated(c) /\ unit[c] \in {"close", "build", "built", "fresh"} => Announced(c)

-----------------------------------------------------------------------------
HaxmetaFile == [src : 0..MaxEdits, options : Option, end : {"buffered", "written", "lost"}]
CacheEntry == [src : 0..MaxEdits, options : Option, emitted : BOOLEAN]

\* A file, or an entry of the cache, is not the absence of one.
LEMMA SomeIsNotNone == None \notin HaxmetaFile \cup CacheEntry
<1>1. DOMAIN None = {"none"}
  BY DEF None
<1>2. \A r \in HaxmetaFile \cup CacheEntry : "src" \in DOMAIN r
  BY DEF HaxmetaFile, CacheEntry
<1> QED  BY <1>1, <1>2

LEMMA LineAdded ==
  ASSUME NEW s \in Seq(Crate), NEW n \in 1..Len(s) + 1, NEW c \in Crate, NEW t, t = s \/ t = Append(s, c)
  PROVE  t \in Seq(Crate) /\ n \in 1..Len(t) + 1 /\ \A k \in 1..Len(s) : t[k] = s[k]
OBVIOUS

LEMMA InitIInv == Init => IInv
<1> SUFFICES ASSUME Init  PROVE IInv
  OBVIOUS
<1>1. TypeOK
  <2>1. call.command \in Commands
    BY DEF Init, Call
  <2>2. /\ haxmeta \in [Crate -> HaxmetaFile \cup {None}]
        /\ cache \in [Crate -> CacheEntry \cup {None}]
    BY DEF Init
  <2>3. emitted \in Seq(Crate) /\ next \in 1..Len(emitted) + 1
    BY DEF Init
  <2>4. src \in [Crate -> 0..MaxEdits] /\ calls \in 0..MaxCalls
    BY CallsAssumption DEF Init
  <2>5. extracted \subseteq [crate : Crate, src : 0..MaxEdits, options : Option]
    BY DEF Init
  <2> QED  BY <2>2, <2>3, <2>4, <2>5 DEF Init, TypeOK, HaxmetaFile, CacheEntry
<1>2. Turns
  BY DEF Init, Turns, Quiet, Active, Running
<1>3. UnitsOfCall /\ DriverWrites /\ CacheHolds
  BY DEF Init, UnitsOfCall, DriverWrites, CacheHolds, Active
<1>4. LinesHold /\ LinesServed /\ ZeroMeansDone
  BY DEF Init, LinesHold, LinesServed, ZeroMeansDone
<1> QED  BY <1>1, <1>2, <1>3, <1>4 DEF IInv

LEMMA TypeStep == IInv /\ Next => TypeOK'
<1> SUFFICES ASSUME IInv, Next  PROVE TypeOK'
  OBVIOUS
<1> USE CallsAssumption DEF IInv, TypeOK
<1>1. CASE Invoke
  <2>1. unit' \in [Crate -> Active \cup {"out", "waiting", "fresh", "built", "failed"}]
    BY <1>1 DEF Invoke
  <2>2. emitted' \in Seq(Crate) /\ next' \in 1..Len(emitted') + 1
    BY <1>1 DEF Invoke
  <2>3. calls' \in 0..MaxCalls
    BY <1>1 DEF Invoke
  <2>4. UNCHANGED <<src, haxmeta, cache, exitCode>>
    BY <1>1 DEF Invoke
  <2>5. pc' = "collect" /\ call' \in Call /\ cargoCode' = Running /\ error' = FALSE /\ extracted' = {}
    BY <1>1 DEF Invoke
  <2> QED  BY <2>1, <2>2, <2>3, <2>4, <2>5
<1>2. CASE Idle
  BY <1>2 DEF Idle, callVars, buildVars, runVars
<1>3. ASSUME NEW c \in Crate, Replay(c)  PROVE TypeOK'
  BY <1>3 DEF Replay, callVars, runVars
<1>4. ASSUME NEW c \in Crate, Compile(c)  PROVE TypeOK'
  BY <1>4 DEF Compile, callVars, runVars, Active
<1>5. CASE CargoExits \/ CargoKilled
  BY <1>5 DEF CargoExits, CargoKilled, callVars, runVars
<1>6. CASE Collect
  BY <1>6 DEF Collect, callVars, buildVars, runVars
<1>7. CASE ReadPanics \/ EngineFails \/ Finish
  BY <1>7 DEF ReadPanics, EngineFails, Finish, Exit, Status, callVars, buildVars, Turns
<1>8. CASE ExportJson \/ RunEngine \/ SkipCrate
  <2>1. next \in 1..Len(emitted) /\ emitted[next] \in Crate
    BY <1>8 DEF ExportJson, RunEngine, SkipCrate, Readable, Reading
  <2>2. haxmeta[emitted[next]] \in HaxmetaFile
    BY <2>1 DEF LinesHold, HaxmetaFile
  <2>3. Extract(emitted[next]) \in [crate : Crate, src : 0..MaxEdits, options : Option]
    BY <2>1, <2>2 DEF Extract, HaxmetaFile
  <2>4. extracted' \subseteq [crate : Crate, src : 0..MaxEdits, options : Option]
    BY <1>8, <2>3 DEF ExportJson, RunEngine, SkipCrate
  <2>5. next' \in 1..Len(emitted') + 1 /\ error' \in BOOLEAN
    BY <1>8, <2>1 DEF ExportJson, RunEngine, SkipCrate, buildVars
  <2>6. UNCHANGED <<pc, callVars, buildVars, exitCode>>
    BY <1>8 DEF ExportJson, RunEngine, SkipCrate
  <2> QED  BY <2>4, <2>5, <2>6 DEF callVars, buildVars
<1>9. ASSUME NEW c \in Crate, Edit(c)  PROVE TypeOK'
  BY <1>9 DEF Edit, buildVars, runVars
<1>10. ASSUME NEW c \in Crate, Fail(c) \/ Kill(c)  PROVE TypeOK'
  <2>1. unit' \in [Crate -> Active \cup {"out", "waiting", "fresh", "built", "failed"}]
    BY <1>10 DEF Fail, Kill, Step
  <2>2. UNCHANGED <<pc, callVars, haxmeta, cache, emitted, cargoCode, runVars>>
    BY <1>10 DEF Fail, Kill, Step
  <2> QED  BY <2>1, <2>2 DEF callVars, runVars
<1>11. ASSUME NEW c \in Crate, Driver(c)  PROVE TypeOK'
  <2>1. /\ UNCHANGED <<pc, callVars, cargoCode, runVars>>
        /\ unit' \in [Crate -> Active \cup {"out", "waiting", "fresh", "built", "failed"}]
    <3>1. ASSUME NEW from, NEW to \in Active \cup {"built", "failed"}, Step(c, from, to)
          PROVE  /\ UNCHANGED <<pc, callVars, cargoCode, runVars>>
                 /\ unit' \in [Crate -> Active \cup {"out", "waiting", "fresh", "built", "failed"}]
      <4>1. UNCHANGED <<pc, callVars, cargoCode, runVars>> /\ unit' = [unit EXCEPT ![c] = to]
        BY <3>1 DEF Step
      <4>2. unit \in [Crate -> Active \cup {"out", "waiting", "fresh", "built", "failed"}]
        OBVIOUS
      <4> QED  BY <4>1, <4>2
    <3>2. "write" \in Active /\ "emit" \in Active /\ "close" \in Active /\ "build" \in Active
      BY DEF Active
    <3>3. CASE Create(c) \/ Write(c)
      BY <3>1, <3>2, <3>3 DEF Create, Write
    <3>4. CASE Emit(c)
      BY <3>1, <3>2, <3>4 DEF Emit
    <3>5. CASE Close(c)
      BY <3>1, <3>2, <3>5 DEF Close
    <3>6. CASE Build(c)
      BY <3>1, <3>2, <3>6 DEF Build
    <3> QED  BY <1>11, <3>3, <3>4, <3>5, <3>6 DEF Driver
  <2>2. CASE Create(c)
    BY <2>1, <2>2 DEF Create, callVars, runVars, Call
  <2>3. CASE Write(c) \/ Emit(c)
    <3>1. emitted' = emitted \/ emitted' = Append(emitted, c)
      BY <2>3 DEF Write, Emit
    <3>2. emitted' \in Seq(Crate) /\ next \in 1..Len(emitted') + 1
      BY <3>1, LineAdded
    <3>3. UNCHANGED <<haxmeta, cache>>
      BY <2>3 DEF Write, Emit
    <3> QED  BY <2>1, <3>2, <3>3 DEF callVars, runVars
  <2>4. CASE Close(c)
    <3>1. haxmeta[c] \in HaxmetaFile
      BY <2>4 DEF Close, Step, DriverWrites, Current, HaxmetaFile
    <3>2. haxmeta' \in [Crate -> HaxmetaFile \cup {None}]
      <4>1. PICK e \in {"buffered", "written", "lost"} : haxmeta' = WithEnd(c, e)
        BY <2>4 DEF Close
      <4>2. [src |-> haxmeta[c].src, options |-> haxmeta[c].options, end |-> e] \in HaxmetaFile
        BY <3>1 DEF HaxmetaFile
      <4>3. haxmeta \in [Crate -> HaxmetaFile \cup {None}]
        BY DEF HaxmetaFile
      <4> QED  BY <4>1, <4>2, <4>3 DEF WithEnd
    <3> QED  BY <2>1, <2>4, <3>2 DEF Close, callVars, runVars, HaxmetaFile
  <2>5. CASE Build(c)
    <3>1. Translated(c) \in BOOLEAN /\ call.options \in Option
      BY DEF Translated, Call
    <3> QED  BY <2>1, <2>5, <3>1 DEF Build, callVars, runVars
  <2> QED  BY <1>11, <2>2, <2>3, <2>4, <2>5 DEF Driver
<1>12. CASE Terminated
  BY <1>12 DEF Terminated, vars, callVars, buildVars, runVars
<1> QED
  BY <1>1, <1>2, <1>3, <1>4, <1>5, <1>6, <1>7, <1>8, <1>9, <1>10, <1>11, <1>12
     DEF Next, CargoStep, Command

-----------------------------------------------------------------------------
\* Lines, and what was done with them, when cargo or a driver does something.
LEMMA LinesOnlyGrow ==
  ASSUME IInv, UNCHANGED <<pc, callVars, runVars>>,
         emitted' = emitted \/ \E c \in Crate : emitted' = Append(emitted, c),
         cargoCode # Running => emitted' = emitted /\ cargoCode' = cargoCode
  PROVE  LinesServed' /\ ZeroMeansDone'
<1>1. emitted \in Seq(Crate) /\ next \in 1..Len(emitted) + 1
  BY DEF IInv, TypeOK
<1>2. \A k \in 1..Len(emitted) : emitted'[k] = emitted[k]
  BY <1>1
<1>3. LinesServed'
  BY <1>1, <1>2 DEF IInv, LinesServed, Entry, callVars, runVars
<1>4. ZeroMeansDone'
  BY DEF IInv, ZeroMeansDone, Turns, callVars, runVars
<1> QED  BY <1>3, <1>4

LEMMA Typed ==
  ASSUME IInv
  PROVE  /\ unit \in [Crate -> Active \cup {"out", "waiting", "fresh", "built", "failed"}]
         /\ emitted \in Seq(Crate)
         /\ DOMAIN haxmeta = Crate /\ DOMAIN cache = Crate
BY DEF IInv, TypeOK

\* A step of cargo-hax, or its end: files, units, the cache and lines stay.
LEMMA CommandStep ==
  ASSUME IInv, Command \/ Idle \/ Terminated, TypeOK'
  PROVE  IInv'
<1>1. UNCHANGED <<callVars, buildVars>> /\ (pc' = "idle" \/ pc # "idle") /\ (pc' # "collect" \/ UNCHANGED <<pc, next>>)
  BY DEF Command, Collect, ReadPanics, ExportJson, RunEngine, SkipCrate, EngineFails, Finish, Exit,
     Readable, Reading, Idle, Terminated, vars, runVars, IInv, TypeOK
<1>2. (pc' # "collect" => cargoCode # Running)
  BY DEF Command, Collect, StderrEof, ReadPanics, ExportJson, RunEngine, SkipCrate, EngineFails, Finish, Exit,
     Readable, Reading, Idle, Terminated, vars, IInv, Turns
<1>3. Turns'
  BY <1>1, <1>2 DEF IInv, Turns, Quiet, callVars, buildVars
<1>4. UnitsOfCall' /\ DriverWrites' /\ CacheHolds'
  BY <1>1 DEF IInv, UnitsOfCall, DriverWrites, CacheHolds, Current, Translated, callVars, buildVars
<1>5. LinesHold'
  BY <1>1 DEF IInv, LinesHold, Current, callVars, buildVars
<1>6. LinesServed'
  <2>1. CASE Collect
    BY <2>1 DEF Collect, runVars, LinesServed, IInv, Turns
  <2>2. CASE ReadPanics \/ EngineFails \/ Finish
    BY <1>1, <2>2 DEF ReadPanics, EngineFails, Finish, Exit, Reading, Readable,
       IInv, LinesServed, Entry, callVars, buildVars
  <2>3. CASE ExportJson \/ RunEngine \/ SkipCrate
    <3>1. pc = "run" /\ pc' = "run" /\ next \in 1..Len(emitted) /\ next' = next + 1 /\ emitted' = emitted
      BY <1>1, <2>3 DEF ExportJson, RunEngine, SkipCrate, Readable, Reading, buildVars, IInv, TypeOK
    <3>2. Entry(emitted[next]) = Extract(emitted[next])
      BY <3>1 DEF Entry, Extract, IInv, LinesHold, Current
    <3>3. \A c : Entry(c)' = Entry(c)
      BY <1>1 DEF Entry, callVars
    <3>4. CASE ExportJson
      <4>1. call'.command = "json" /\ Entry(emitted[next]) \in extracted'
        BY <3>2, <3>4, <1>1 DEF ExportJson, Readable, callVars
      <4>2. next' - 1 = next
        BY <3>1
      <4> QED  BY <1>1, <3>1, <4>1, <4>2 DEF LinesServed, Entry, callVars
    <3>5. CASE RunEngine
      <4>1. /\ call'.command = "into" /\ ~error /\ extracted \subseteq extracted'
            /\ ~error' => Entry(emitted[next]) \in extracted'
        BY <3>2, <3>5, <1>1 DEF RunEngine, Readable, callVars
      <4>2. \A k \in 1..next' - 1 : k \in 1..next - 1 \/ k = next
        BY <3>1
      <4> QED  BY <1>1, <3>1, <3>3, <4>1, <4>2 DEF IInv, LinesServed, callVars
    <3>6. CASE SkipCrate
      BY <1>1, <3>1, <3>6 DEF SkipCrate, Readable, LinesServed, callVars
    <3> QED  BY <2>3, <3>4, <3>5, <3>6
  <2>4. CASE Idle
    BY <2>4 DEF Idle, LinesServed
  <2>5. CASE Terminated
    BY <2>5 DEF Terminated, vars, runVars, LinesServed
  <2> QED  BY <2>1, <2>2, <2>3, <2>4, <2>5 DEF Command
<1>7. ZeroMeansDone'
  <2>1. CASE Finish
    <3>1. Status = 0 => cargoCode = 0 /\ ~error
      BY DEF Status, IInv, TypeOK
    <3>2. call.command # "serialize" => next = Len(emitted) + 1
      BY <2>1 DEF Finish, Reading, IInv, TypeOK
    <3> QED  BY <1>1, <2>1, <3>1, <3>2 DEF Finish, Exit, ZeroMeansDone, callVars, buildVars
  <2>2. CASE ReadPanics \/ EngineFails
    BY <2>2 DEF ReadPanics, EngineFails, Exit, ZeroMeansDone
  <2>3. pc' # "exit" \/ ReadPanics \/ EngineFails \/ Finish
    BY DEF Command, Collect, ExportJson, RunEngine, SkipCrate, Readable, Reading, Idle, Terminated, vars
  <2> QED  BY <2>1, <2>2, <2>3 DEF ZeroMeansDone
<1> QED  BY <1>3, <1>4, <1>5, <1>6, <1>7 DEF IInv

LEMMA InvokeStep ==
  ASSUME IInv, Invoke, TypeOK'
  PROVE  IInv'
<1>1. Turns'
  BY DEF Invoke, Turns, Running, IInv, TypeOK
<1>2. \A c \in Crate : unit'[c] \in {"out", "waiting"} /\ (unit'[c] # "out" => InUnits(c, call'.primary))
  BY DEF Invoke, InUnits
<1>3. UnitsOfCall' /\ DriverWrites'
  BY <1>2 DEF UnitsOfCall, DriverWrites, Active
<1>4. CacheHolds'
  BY DEF Invoke, IInv, CacheHolds
<1>5. LinesHold' /\ LinesServed' /\ ZeroMeansDone'
  BY DEF Invoke, LinesHold, LinesServed, ZeroMeansDone
<1> QED  BY <1>1, <1>3, <1>4, <1>5 DEF IInv

LEMMA EditStep ==
  ASSUME IInv, NEW d \in Crate, Edit(d), TypeOK'
  PROVE  IInv'
<1> USE DEF IInv, Edit, buildVars, runVars
<1>1. Turns' /\ UnitsOfCall' /\ CacheHolds'
  BY DEF Turns, Quiet, UnitsOfCall, CacheHolds, Translated
<1>2. DriverWrites'
  BY DEF DriverWrites, Quiet, Active
<1>3. LinesHold' /\ LinesServed' /\ ZeroMeansDone'
  BY DEF LinesHold, LinesServed, ZeroMeansDone
<1> QED  BY <1>1, <1>2, <1>3

\* Cargo, or a driver: what it does to the unit of d decides the rest.
LEMMA FailStep ==
  ASSUME IInv, NEW d \in Crate, Fail(d) \/ Kill(d), TypeOK'
  PROVE  IInv'
<1>1. PICK from \in Active : Step(d, from, "failed")
  BY DEF Fail, Kill, Active
<1>2. UNCHANGED <<haxmeta, cache, emitted>> /\ UNCHANGED <<pc, callVars, cargoCode, runVars>>
  BY DEF Fail, Kill, Step
<1>3. \A c \in Crate : unit'[c] = unit[c] \/ unit'[c] = "failed"
  BY <1>1 DEF Step, IInv, TypeOK
<1>4. unit[d] \in Active
  BY <1>1 DEF Step
<1>5. Turns'
  BY <1>2, <1>3, <1>4 DEF IInv, Turns, Quiet, Active, callVars, runVars
<1>6. UnitsOfCall' /\ DriverWrites' /\ CacheHolds'
  <2>1. \A c \in Crate : unit'[c] # "out" => InUnits(c, call.primary)
    BY <1>1, <1>3, <1>4 DEF IInv, UnitsOfCall, Step, Active, TypeOK
  <2> QED  BY <2>1, <1>2, <1>3 DEF IInv, UnitsOfCall, DriverWrites, CacheHolds, Current, Translated, Active, callVars
<1>7. LinesHold'
  BY <1>2, <1>3 DEF IInv, LinesHold, Current, TypeOK, callVars
<1>8. LinesServed' /\ ZeroMeansDone'
  BY <1>2, LinesOnlyGrow
<1> QED  BY <1>5, <1>6, <1>7, <1>8 DEF IInv

LEMMA CargoEndsStep ==
  ASSUME IInv, CargoExits \/ CargoKilled, TypeOK'
  PROVE  IInv'
<1>1. UNCHANGED <<pc, callVars, unit, haxmeta, cache, emitted, runVars>> /\ cargoCode = Running /\ cargoCode' # Running
  BY DEF CargoExits, CargoKilled, Running
<1>2. Turns'
  BY <1>1 DEF CargoExits, CargoKilled, IInv, Turns, Quiet, callVars, runVars
<1>3. UnitsOfCall' /\ DriverWrites' /\ CacheHolds' /\ LinesHold'
  BY <1>1 DEF IInv, UnitsOfCall, DriverWrites, CacheHolds, LinesHold, Current, Translated, callVars
<1>4. LinesServed' /\ ZeroMeansDone'
  BY <1>1, LinesOnlyGrow
<1> QED  BY <1>2, <1>3, <1>4 DEF IInv

LEMMA ReplayStep ==
  ASSUME IInv, NEW d \in Crate, Replay(d), TypeOK'
  PROVE  IInv'
<1>1. /\ UNCHANGED <<pc, callVars, haxmeta, cache, cargoCode, runVars>>
      /\ cargoCode = Running /\ unit[d] = "waiting" /\ unit' = [unit EXCEPT ![d] = "fresh"]
      /\ cache[d] # None /\ cache[d].src = src[d] /\ cache[d].options = call.options
      /\ emitted' = IF cache[d].emitted THEN Append(emitted, d) ELSE emitted
  BY DEF Replay, Ready, Fresh, SameOptions
<1>2. /\ unit'[d] = "fresh"
      /\ \A c \in Crate : c # d => unit'[c] = unit[c]
  <2>1. unit' = [unit EXCEPT ![d] = "fresh"]
    BY <1>1
  <2> QED  BY <2>1, Typed
<1>3. Turns'
  BY <1>1, <1>2 DEF IInv, Turns, Quiet, Active, Running, callVars, runVars
<1>4. UnitsOfCall' /\ DriverWrites' /\ CacheHolds'
  BY <1>1, <1>2 DEF IInv, UnitsOfCall, DriverWrites, CacheHolds, Current, Translated, Active, callVars
<1>5. LinesHold'
  <2>1. CASE emitted' = emitted
    BY <1>1, <1>2, <2>1 DEF IInv, LinesHold, Current, TypeOK, callVars
  <2>2. CASE cache[d].emitted /\ emitted' = Append(emitted, d)
    <3>1. haxmeta[d] # None /\ Current(d) /\ haxmeta[d].end # "buffered" /\ unit'[d] = "fresh"
      BY <1>1, <2>2 DEF IInv, CacheHolds, Current, TypeOK
    <3>2. \A k \in 1..Len(emitted') :
            \/ emitted'[k] = d
            \/ k \in 1..Len(emitted) /\ emitted'[k] = emitted[k] /\ emitted[k] \in Crate
      <4>1. emitted \in Seq(Crate) /\ emitted' = Append(emitted, d)
        BY <2>2, Typed
      <4>2. Len(emitted') = Len(emitted) + 1 /\ emitted'[Len(emitted')] = d
        BY <4>1
      <4>3. \A k \in 1..Len(emitted) : emitted'[k] = emitted[k] /\ emitted[k] \in Crate
        BY <4>1
      <4>4. \A k \in 1..Len(emitted') : k \in 1..Len(emitted) \/ k = Len(emitted')
        BY <4>1, <4>2
      <4> QED  BY <4>2, <4>3, <4>4
    <3> QED  BY <1>1, <1>2, <3>1, <3>2 DEF IInv, LinesHold, Current, callVars
  <2> QED  BY <1>1, <2>1, <2>2
<1>6. LinesServed' /\ ZeroMeansDone'
  BY <1>1, LinesOnlyGrow
<1> QED  BY <1>3, <1>4, <1>5, <1>6 DEF IInv

LEMMA CompileStep ==
  ASSUME IInv, NEW d \in Crate, Compile(d), TypeOK'
  PROVE  IInv'
<1>1. /\ UNCHANGED <<pc, callVars, haxmeta, emitted, cargoCode, runVars>>
      /\ cargoCode = Running /\ unit[d] = "waiting"
      /\ unit' = [unit EXCEPT ![d] = IF Translated(d) THEN "check" ELSE "build"]
      /\ cache' = [cache EXCEPT ![d] = None]
  BY DEF Compile, Ready
<1>2. /\ \A c \in Crate : c # d => unit'[c] = unit[c] /\ cache'[c] = cache[c]
      /\ unit'[d] \in {"check", "build"} /\ (unit'[d] = "check" <=> Translated(d)) /\ cache'[d] = None
  BY <1>1, Typed
<1>3. Turns'
  BY <1>1 DEF IInv, Turns, Running, callVars, runVars
<1>4. UnitsOfCall' /\ DriverWrites' /\ CacheHolds'
  BY <1>1, <1>2 DEF IInv, UnitsOfCall, DriverWrites, CacheHolds, Current, Translated, Active, callVars
<1>5. LinesHold'
  <2>1. \A k \in 1..Len(emitted) : emitted[k] \in Crate \ {d}
    BY <1>1, Typed DEF IInv, LinesHold
  <2> QED  BY <1>1, <1>2, <2>1 DEF IInv, LinesHold, Current, callVars
<1>6. LinesServed' /\ ZeroMeansDone'
  BY <1>1, LinesOnlyGrow
<1> QED  BY <1>3, <1>4, <1>5, <1>6 DEF IInv

\* The end of a file is written by its driver only; nothing else has been said of it yet.
LEMMA FileStep ==
  ASSUME IInv, NEW d \in Crate, Create(d) \/ Close(d), TypeOK'
  PROVE  IInv'
<1>1. UNCHANGED <<pc, callVars, cache, emitted, cargoCode, runVars>>
  BY DEF Create, Close, Step
<1>2. PICK from \in {"check", "close"}, to \in {"write", "build", "failed"} :
        /\ unit[d] = from /\ unit' = [unit EXCEPT ![d] = to]
        /\ from = "check" => to = "write"
        /\ from = "close" => to # "write"
  BY DEF Create, Close, Step
<1>3. unit'[d] = to /\ \A c \in Crate : c # d => unit'[c] = unit[c]
  BY <1>2, Typed
<1>4. PICK f : /\ haxmeta' = [haxmeta EXCEPT ![d] = f]
               /\ f # None /\ f.src = src[d] /\ f.options = call.options
               /\ from = "close" => f.end # "buffered"
  <2>1. CASE Create(d)
    <3>1. PICK f : f = [src |-> src[d], options |-> call.options, end |-> "buffered"]
      OBVIOUS
    <3>2. f \in HaxmetaFile
      BY <3>1 DEF HaxmetaFile, IInv, TypeOK, Call
    <3> QED  BY <1>2, <2>1, <3>1, <3>2, SomeIsNotNone DEF Create, Step
  <2>2. CASE Close(d)
    <3>1. PICK e \in {"written", "lost"} : haxmeta' = WithEnd(d, e)
      BY <2>2 DEF Close
    <3>2. PICK f : f = [src |-> haxmeta[d].src, options |-> haxmeta[d].options, end |-> e]
      OBVIOUS
    <3>3. Current(d) /\ haxmeta[d] \in HaxmetaFile
      BY <2>2 DEF Close, Step, IInv, DriverWrites, Current, TypeOK, HaxmetaFile
    <3>4. f \in HaxmetaFile
      BY <3>2, <3>3 DEF HaxmetaFile
    <3>5. haxmeta' = [haxmeta EXCEPT ![d] = f]
      BY <3>1, <3>2 DEF WithEnd
    <3>6. f # None
      BY <3>4, SomeIsNotNone
    <3>7. f.src = src[d] /\ f.options = call.options /\ f.end # "buffered"
      BY <3>2, <3>3 DEF Current
    <3> QED  BY <3>5, <3>6, <3>7
  <2> QED  BY <2>1, <2>2
<1>5. haxmeta'[d] = f /\ \A c \in Crate : c # d => haxmeta'[c] = haxmeta[c]
  BY <1>4, Typed
<1>6. Turns'
  BY <1>1, <1>2 DEF IInv, Turns, Quiet, Active, callVars, runVars
<1>7. UnitsOfCall' /\ DriverWrites' /\ CacheHolds'
  BY <1>1, <1>2, <1>3, <1>4, <1>5
     DEF IInv, UnitsOfCall, DriverWrites, CacheHolds, Current, Translated, Active, callVars
<1>8. LinesHold'
  BY <1>1, <1>2, <1>3, <1>4, <1>5, Typed DEF IInv, LinesHold, Current, callVars
<1>9. LinesServed' /\ ZeroMeansDone'
  BY <1>1, LinesOnlyGrow
<1> QED  BY <1>6, <1>7, <1>8, <1>9 DEF IInv

LEMMA LineStep ==
  ASSUME IInv, NEW d \in Crate, Write(d) \/ Emit(d), TypeOK'
  PROVE  IInv'
<1>1. UNCHANGED <<pc, callVars, haxmeta, cache, cargoCode, runVars>>
  BY DEF Write, Emit, Step
<1>2. PICK to \in {"emit", "close", "failed"} :
        /\ unit[d] \in {"write", "emit"} /\ unit' = [unit EXCEPT ![d] = to]
        /\ emitted' = IF to = "close" THEN Append(emitted, d) ELSE emitted
        /\ to = "close" => cargoCode = Running
  BY DEF Write, Emit, Step
<1>3. unit'[d] = to /\ \A c \in Crate : c # d => unit'[c] = unit[c]
  BY <1>2, Typed
<1>4. Current(d)
  BY <1>2 DEF IInv, DriverWrites
<1>5. Turns'
  BY <1>1, <1>2 DEF IInv, Turns, Quiet, Active, callVars, runVars
<1>6. UnitsOfCall' /\ DriverWrites' /\ CacheHolds'
  BY <1>1, <1>2, <1>3, <1>4
     DEF IInv, UnitsOfCall, DriverWrites, CacheHolds, Current, Translated, Active, callVars
<1>7. LinesHold'
  <2>1. \A k \in 1..Len(emitted) : emitted[k] \in Crate \ {d}
    BY <1>2, Typed DEF IInv, LinesHold
  <2>2. \A k \in 1..Len(emitted') :
          \/ k \in 1..Len(emitted) /\ emitted'[k] = emitted[k]
          \/ to = "close" /\ emitted'[k] = d
    BY <1>2, Typed
  <2> QED  BY <1>1, <1>3, <1>4, <2>1, <2>2 DEF IInv, LinesHold, Current, callVars
<1>8. LinesServed' /\ ZeroMeansDone'
  BY <1>1, <1>2, LinesOnlyGrow
<1> QED  BY <1>5, <1>6, <1>7, <1>8 DEF IInv

LEMMA BuildStep ==
  ASSUME IInv, NEW d \in Crate, Build(d), TypeOK'
  PROVE  IInv'
<1>1. /\ UNCHANGED <<pc, callVars, haxmeta, emitted, cargoCode, runVars>>
      /\ unit[d] = "build" /\ unit' = [unit EXCEPT ![d] = "built"]
  BY DEF Build, Step
<1>2. unit'[d] = "built" /\ \A c \in Crate : c # d => unit'[c] = unit[c] /\ cache'[c] = cache[c]
  BY <1>1, Typed DEF Build
<1>3. \/ cache'[d] = None
      \/ /\ cache'[d].src = src[d] /\ cache'[d].options = call.options
         /\ cache'[d].emitted <=> Translated(d)
  BY Typed DEF Build, Step, IInv, UnitsOfCall, Active
<1>4. Turns'
  BY <1>1 DEF IInv, Turns, Quiet, Active, callVars, runVars
<1>5. UnitsOfCall' /\ DriverWrites'
  BY <1>1, <1>2 DEF IInv, UnitsOfCall, DriverWrites, Current, Translated, Active, callVars
<1>6. CacheHolds'
  <2>1. call.primary \in Primaries /\ InUnits(d, call.primary)
    BY <1>1 DEF IInv, UnitsOfCall, TypeOK, Call
  <2>2. Translated(d) <=> Wants(d, call.primary)
    BY DEF Translated, Wants
  <2> QED  BY <1>1, <1>2, <1>3, <2>1, <2>2 DEF IInv, CacheHolds, DriverWrites, Current, callVars
<1>7. LinesHold'
  BY <1>1, <1>2, Typed DEF IInv, LinesHold, Current, callVars
<1>8. LinesServed' /\ ZeroMeansDone'
  BY <1>1, LinesOnlyGrow
<1> QED  BY <1>4, <1>5, <1>6, <1>7, <1>8 DEF IInv

THEOREM Invariance == Spec => []IInv
<1>1. IInv /\ [Next]_vars => IInv'
  <2>1. CASE UNCHANGED vars
    BY <2>1 DEF vars, callVars, buildVars, runVars, IInv, TypeOK, Turns, Quiet, UnitsOfCall, DriverWrites,
       Current, Translated, CacheHolds, LinesHold, LinesServed, Entry, ZeroMeansDone
  <2>2. CASE Next
    BY <2>2, TypeStep, CommandStep, InvokeStep, EditStep, FailStep, CargoEndsStep, ReplayStep, CompileStep,
       FileStep, LineStep, BuildStep DEF Next, CargoStep, Driver
  <2> QED  BY <2>1, <2>2
<1> QED  BY InitIInv, <1>1, PTL DEF Spec

-----------------------------------------------------------------------------
(***************************************************************************)
(* Calls, files, the cache and lines have their types.                     *)
(***************************************************************************)
THEOREM TypeCorrect == Spec => []TypeOK
BY Invariance, PTL DEF IInv

(***************************************************************************)
(* cargo-hax reads a haxmeta file only when it holds the present sources   *)
(* of its crate under the options of this call, replayed lines included;   *)
(* and its end is written, unless its driver or cargo was killed.          *)
(***************************************************************************)
THEOREM ReadsCurrent == Spec => []ReadsCurrentHaxmeta
<1>1. IInv => ReadsCurrentHaxmeta
  <2> SUFFICES ASSUME IInv, Reading  PROVE ReadsCurrentHaxmeta
    BY DEF ReadsCurrentHaxmeta
  <2>1. pc = "run" /\ next \in 1..Len(emitted) /\ emitted[next] \in Crate
    BY DEF Reading, IInv, TypeOK
  <2>2. Current(emitted[next]) /\ (File.end = "buffered" => unit[emitted[next]] \in {"close", "failed"})
    BY <2>1 DEF IInv, LinesHold, File
  <2>3. unit[emitted[next]] = "close" => cargoCode = 254
    BY <2>1 DEF IInv, Turns, Quiet, Active, TypeOK
  <2> QED  BY <2>2, <2>3 DEF ReadsCurrentHaxmeta, Current, File
<1> QED  BY Invariance, <1>1, PTL

(***************************************************************************)
(* The lines of a call are those of the packages it translates, whichever  *)
(* of them cargo compiles and whichever it replays.                        *)
(***************************************************************************)
LEMMA LinesStep ==
  ASSUME SelectionStable, IInv, LinesOfSelected, [Next]_vars
  PROVE  LinesOfSelected'
<1>1. CASE UNCHANGED <<call, unit, emitted>>
  BY <1>1 DEF LinesOfSelected, Announced, Translated
<1>2. CASE Invoke
  BY <1>2 DEF Invoke, LinesOfSelected
<1>3. ASSUME NEW d \in Crate, UNCHANGED <<call, emitted>>, NEW to, unit' = [unit EXCEPT ![d] = to],
             to \in {"close", "build", "built", "fresh"} => unit[d] \in {"close", "build"} \/ ~Translated(d)
      PROVE  LinesOfSelected'
  BY <1>3, Typed DEF LinesOfSelected, Announced, Translated
<1>4. ASSUME NEW d \in Crate, call' = call, emitted' = Append(emitted, d), Translated(d),
             NEW to, unit' = [unit EXCEPT ![d] = to]
      PROVE  LinesOfSelected'
  <2>1. \A k \in 1..Len(emitted') : (k \in 1..Len(emitted) /\ emitted'[k] = emitted[k]) \/ emitted'[k] = d
    BY <1>4, Typed
  <2>2. Len(emitted') \in 1..Len(emitted') /\ emitted'[Len(emitted')] = d
    BY <1>4, Typed
  <2>3. \A k \in 1..Len(emitted) : k \in 1..Len(emitted') /\ emitted'[k] = emitted[k]
    BY <1>4, Typed
  <2> QED  BY <1>4, <2>1, <2>2, <2>3, Typed DEF LinesOfSelected, Announced, Translated
<1>5. ASSUME NEW d \in Crate, Replay(d)  PROVE LinesOfSelected'
  <2>1. unit' = [unit EXCEPT ![d] = "fresh"] /\ call' = call
    BY <1>5 DEF Replay, callVars
  <2>2. cache[d].emitted <=> Translated(d)
    <3>1. PICK P \in Primaries : InUnits(d, P) /\ (cache[d].emitted <=> Wants(d, P))
      BY <1>5 DEF Replay, Fresh, IInv, CacheHolds
    <3>2. InUnits(d, call.primary) /\ call.primary \in Primaries
      BY <1>5 DEF Replay, Ready, IInv, UnitsOfCall, TypeOK, Call
    <3> QED  BY <3>1, <3>2 DEF SelectionStable, Wants, Translated
  <2>3. CASE cache[d].emitted
    BY <1>4, <1>5, <2>1, <2>2, <2>3 DEF Replay
  <2>4. CASE ~cache[d].emitted
    BY <1>3, <1>5, <2>1, <2>2, <2>4 DEF Replay
  <2> QED  BY <2>3, <2>4
<1>6. ASSUME NEW d \in Crate, Compile(d) \/ Fail(d) \/ Kill(d)  PROVE LinesOfSelected'
  <2>1. UNCHANGED <<call, emitted>>
    BY <1>6 DEF Compile, Fail, Kill, Step, callVars
  <2>2. PICK to : /\ unit' = [unit EXCEPT ![d] = to]
                  /\ to \in {"close", "build", "built", "fresh"} => ~Translated(d)
    BY <1>6 DEF Compile, Fail, Kill, Step
  <2> QED  BY <1>3, <2>1, <2>2
<1>7. ASSUME NEW d \in Crate, Driver(d)  PROVE LinesOfSelected'
  <2>1. call' = call
    BY <1>7 DEF Driver, Create, Write, Emit, Close, Build, Step, callVars
  <2>2. CASE Emit(d) /\ cargoCode = Running
    <3>1. Translated(d)
      BY <2>2 DEF Emit, Step, IInv, UnitsOfCall
    <3> QED  BY <1>4, <2>1, <2>2, <3>1 DEF Emit, Step
  <2>3. CASE ~(Emit(d) /\ cargoCode = Running)
    <3>1. emitted' = emitted
      BY <1>7, <2>3 DEF Driver, Create, Write, Emit, Close, Build
    <3>2. PICK to : /\ unit' = [unit EXCEPT ![d] = to]
                    /\ to \in {"close", "build", "built", "fresh"} => unit[d] \in {"close", "build"}
      BY <1>7, <2>3 DEF Driver, Create, Write, Emit, Close, Build, Step
    <3> QED  BY <1>3, <2>1, <3>1, <3>2
  <2> QED  BY <2>2, <2>3
<1>8. CASE CargoExits \/ CargoKilled \/ Command \/ Idle \/ Terminated \/ \E c \in Crate : Edit(c)
  <2>1. UNCHANGED <<call, unit, emitted>>
    BY <1>8 DEF CargoExits, CargoKilled, Command, Collect, ReadPanics, ExportJson, RunEngine, SkipCrate,
       EngineFails, Finish, Exit, Idle, Terminated, Edit, vars, callVars, buildVars
  <2> QED  BY <1>1, <2>1
<1> QED
  BY <1>1, <1>2, <1>5, <1>6, <1>7, <1>8 DEF Next, CargoStep, vars, callVars, buildVars

(***************************************************************************)
(* Exit code 0 means that every package of the call was extracted in this  *)
(* call, from its present sources and with the options of the call, and    *)
(* that no crate failed to build: whatever was cached, killed or edited.   *)
(***************************************************************************)
THEOREM ExitCodeIsFaithful ==
  ASSUME SelectionStable
  PROVE  Spec => []ExitCodeFaithful
<1>1. Init => LinesOfSelected
  BY DEF Init, LinesOfSelected
<1>2. Spec => []LinesOfSelected
  BY <1>1, Invariance, LinesStep, PTL DEF Spec
<1>3. IInv /\ LinesOfSelected => ExitCodeFaithful
  <2> SUFFICES ASSUME IInv, LinesOfSelected, pc = "exit", exitCode = 0
               PROVE  ExitCodeFaithful
    BY DEF ExitCodeFaithful, SuccessMeansExtracted, BuildFailureSurfaces
  <2>1. /\ cargoCode = 0 /\ ~error
        /\ call.command # "serialize" => next = Len(emitted) + 1
    BY DEF IInv, ZeroMeansDone
  <2>2. \A c \in Crate : unit[c] \in {"out", "built", "fresh"}
    BY <2>1, Typed DEF IInv, Turns, Quiet
  <2>3. \A c \in Selected : Announced(c)
    BY <2>2 DEF Selected, LinesOfSelected
  <2>4. ASSUME call.command = "into", NEW c \in Selected
        PROVE  Entry(c) \in extracted
    <3>1. PICK k \in 1..Len(emitted) : emitted[k] = c
      BY <2>3, <2>4 DEF Announced
    <3>2. k \in 1..next - 1
      BY <2>1, <2>4, <3>1, Typed
    <3> QED  BY <2>1, <2>4, <3>1, <3>2 DEF IInv, LinesServed
  <2>5. ASSUME call.command = "json", Cardinality(Selected) = 1, NEW c \in Selected
        PROVE  Entry(c) \in extracted
    <3>1. Selected = {c}
      BY <2>5, CratesAssumption, FS_Subset, FS_Singleton DEF Selected
    <3>2. Len(emitted) \in 1..Len(emitted)
      BY <2>3, <2>5, Typed DEF Announced
    <3>3. emitted[next - 1] \in Selected
      BY <2>1, <2>5, <3>2, Typed, <2>2 DEF LinesOfSelected, Selected, IInv, LinesHold
    <3> QED  BY <2>1, <2>5, <3>1, <3>2, <3>3, Typed DEF IInv, LinesServed
  <2>6. SuccessMeansExtracted
    BY <2>4, <2>5 DEF SuccessMeansExtracted, Entry
  <2>7. BuildFailureSurfaces
    BY <2>2 DEF BuildFailureSurfaces
  <2> QED  BY <2>6, <2>7 DEF ExitCodeFaithful
<1> QED  BY <1>2, <1>3, Invariance, PTL
=============================================================================
