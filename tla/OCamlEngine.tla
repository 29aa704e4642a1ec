----------------------------- MODULE OCamlEngine -----------------------------
(***************************************************************************)
(* The OCaml engine run directly by cargo-hax (F* on legacy items, Coq,    *)
(* SSProve, EasyCrypt, ProVerif): `Lib.engine` in engine/bin/lib.ml.       *)
(*                                                                         *)
(* The engine reads the crate, imports it, applies its phases and prints.  *)
(* Diagnostics accumulate in `Diagnostics.Core.state` meanwhile; only when *)
(* the work is over, or stopped by a fatal error, does the engine write    *)
(* them, then its files, then `Exit`, and it waits for cargo-hax to close  *)
(* its stdin.  An exception other than a fatal error discards everything.  *)
(***************************************************************************)
EXTENDS RunEngine, SequencesExt

CONSTANTS
  MaxDiags,   \* bound: diagnostics reported by the engine
  MaxTalk,    \* bound: requests, profiling data and debug output it writes while working
  MaxDebug,   \* bound: debug strings it writes (0 without --debug-engine)
  Faults      \* what may go wrong, among those of FaultKind

FaultKind == {"version",    \* cargo-hax and hax-engine have different versions
              "exception",  \* an OCaml exception escapes `run`
              "garbage",    \* something prints on stdout
              "kill",       \* the process is killed
              "client"}     \* cargo-hax dies

ASSUME EngineBounds == MaxDiags \in Nat /\ MaxTalk \in Nat /\ MaxDebug \in Nat
ASSUME FaultsAssumption == Faults \subseteq FaultKind

VARIABLES
  epc,      \* where the engine is
  state,    \* `Diagnostics.Core.state`
  asked,    \* the request whose reply it awaits
  outbox,   \* what `engine` writes once `run` is over
  written,  \* how much of it is written
  talk,     \* how many messages were written while working
  faulted   \* history: whether a fault has happened

engineVars == <<epc, state, asked, outbox, written, talk>>
vars == <<runVars, engineVars, faulted>>

Init ==
  /\ RunInit
  /\ epc = "load"
  /\ state = << >>
  /\ asked = "Ping"
  /\ outbox = << >>
  /\ written = 0
  /\ talk = 0
  /\ faulted = FALSE

(***************************************************************************)
(* Reading the options.  A wrong version or an early end of stdin ends the *)
(* process with a non-zero code.                                           *)
(***************************************************************************)
ParseOptions ==
  /\ epc = "load"
  /\ Get
  /\ epc' = "import"
  /\ UNCHANGED <<state, asked, outbox, written, talk>>

WrongVersion ==
  /\ "version" \in Faults
  /\ epc = "load"
  /\ Get
  /\ epc' = "crash"
  /\ UNCHANGED <<state, asked, outbox, written, talk>>

ReadEof ==
  /\ epc \in {"load", "await"}
  /\ StdinEof
  /\ epc' = "crash"
  /\ UNCHANGED <<runVars, state, asked, outbox, written, talk>>

(***************************************************************************)
(* `import_thir_items`.  While it imports an item, `capture` has `state`   *)
(* hold that item's errors only, and an error becomes an expression or an  *)
(* item whose text cargo-hax is asked for.  In the end it announces the    *)
(* items that will be processed, then reports, without duplicates, the     *)
(* errors their import met.                                                *)
(***************************************************************************)
ReportLists == {ds \in BoundedSeq(Diag, MaxDiags) : IsInjective(ds)}

ImportThirItems ==
  /\ epc = "import"
  /\ \E items \in SUBSET Item : Put(ItemProcessedMsg(items))
  /\ state' \in ReportLists
  /\ epc' = "work"
  /\ UNCHANGED <<asked, outbox, written, talk>>

(***************************************************************************)
(* The import, the phases and the printer.                                 *)
(***************************************************************************)
Working == epc \in {"import", "work"}

Report(d) == Len(state) < MaxDiags /\ state' = Append(state, d)

ReportDiagnostic ==
  /\ Working
  /\ \E d \in Diag : Report(d)
  /\ UNCHANGED <<runVars, epc, asked, outbox, written, talk>>

Talk(m, next) ==
  /\ Working
  /\ talk < MaxTalk
  /\ talk' = talk + 1
  /\ Put(m)
  /\ epc' = next
  /\ UNCHANGED <<state, outbox, written>>

\* A part of the work is over (the import: only when an exception ends it).
Profile == Talk(Plain("ProfilingData"), epc) /\ UNCHANGED asked

DebugPrint == "garbage" \in Faults /\ Talk(Plain("Garbage"), epc) /\ UNCHANGED asked

Request == \E k \in RequestKind : Talk(Plain(k), "await") /\ asked' = k

\* Where a request was made: the items are announced when they are imported.
Caller == IF \E k \in DOMAIN fromEngine : fromEngine[k].kind = "ItemProcessed" THEN "work" ELSE "import"

ReadReply ==
  /\ epc = "await"
  /\ Get
  /\ epc' = IF toEngine[eread + 1] = ReplyTo[asked] THEN Caller ELSE "crash"
  /\ UNCHANGED <<state, asked, outbox, written, talk>>

(***************************************************************************)
(* The end of `run`: all the files, or none after a fatal error.           *)
(***************************************************************************)
\* Variant: Exit is sent before the files.
Outbox_ExitFirst(diags, files, debug) ==
  [i \in 1..Len(diags) |-> DiagnosticMsg(diags[i])]
    \o <<Plain("Exit")>>
    \o [i \in 1..Len(files) |-> FileMsg(files[i])]
    \o [i \in 1..debug |-> Plain("DebugString")]

Outbox(diags, files, debug) ==
  [i \in 1..Len(diags) |-> DiagnosticMsg(diags[i])]
    \o [i \in 1..Len(files) |-> FileMsg(files[i])]
    \o [i \in 1..debug |-> Plain("DebugString")]
    \o <<Plain("Exit")>>

\* A backend prints at most one file per path.
FileLists ==
  {fs \in BoundedSeq(File, Cardinality(Path)) :
     \A i, j \in DOMAIN fs : fs[i].path = fs[j].path => i = j}

FinishRun ==
  /\ epc = "work"
  /\ \E files \in FileLists, debug \in 0..MaxDebug : outbox' = Outbox(state, files, debug)
  /\ epc' = "flush"
  /\ UNCHANGED <<runVars, state, asked, written, talk>>

RaiseFatalError ==
  /\ Working
  /\ \E d \in Diag : Report(d)
  /\ \E debug \in 0..MaxDebug : outbox' = Outbox(state', << >>, debug)
  /\ epc' = "flush"
  /\ UNCHANGED <<runVars, asked, written, talk>>

Flush ==
  /\ epc = "flush"
  /\ Put(outbox[written + 1])
  /\ written' = written + 1
  /\ epc' = IF written' = Len(outbox) THEN "close" ELSE "flush"
  /\ UNCHANGED <<state, asked, outbox, talk>>

\* `Hax_io.close` has written Exit and reads until something comes, or nothing.
Close ==
  /\ epc = "close"
  /\ StdinReady \/ StdinEof
  /\ ExitWith(0)
  /\ epc' = "dead"
  /\ UNCHANGED <<state, asked, outbox, written, talk>>

(***************************************************************************)
(* Failures.                                                               *)
(***************************************************************************)
RaiseException ==
  /\ "exception" \in Faults
  /\ epc \in {"load", "import", "work"}
  /\ epc' = "crash"
  /\ UNCHANGED <<runVars, state, asked, outbox, written, talk>>

BrokenPipe ==
  /\ epc \in {"import", "work", "flush"}
  /\ StdoutBroken
  /\ epc' = "crash"
  /\ UNCHANGED <<runVars, state, asked, outbox, written, talk>>

Die ==
  /\ epc = "crash"
  /\ ExitWith(2)
  /\ epc' = "dead"
  /\ UNCHANGED <<state, asked, outbox, written, talk>>

Kill ==
  /\ "kill" \in Faults
  /\ epc # "dead"
  /\ ExitWith(137)
  /\ epc' = "dead"
  /\ UNCHANGED <<state, asked, outbox, written, talk>>

\* Killed in the middle of a write: the line is cut short.
KillWriting ==
  /\ "kill" \in Faults
  /\ epc \in {"import", "work", "flush"}
  /\ Put(Plain("Garbage"))
  /\ epc' = "crash"
  /\ UNCHANGED <<state, asked, outbox, written, talk>>

EngineStep ==
  /\ \/ ParseOptions \/ ReadEof \/ ImportThirItems \/ ReportDiagnostic
     \/ Profile \/ Request \/ ReadReply \/ FinishRun \/ RaiseFatalError
     \/ Flush \/ Close \/ BrokenPipe \/ Die
  /\ UNCHANGED faulted

KillClient == "client" \in Faults /\ ClientDies /\ UNCHANGED engineVars

Fault ==
  /\ WrongVersion \/ RaiseException \/ DebugPrint \/ Kill \/ KillWriting \/ KillClient
  /\ faulted' = TRUE

\* Both processes have ended.
Terminated == pc = "done" /\ epc = "dead" /\ UNCHANGED vars

Client == ClientNext /\ UNCHANGED <<engineVars, faulted>>

Next == Client \/ EngineStep \/ Fault \/ Terminated

Spec == Init /\ [][Next]_vars

\* The operating system runs every process that can run.
FairSpec == Spec /\ WF_vars(Client) /\ WF_vars(EngineStep)

-----------------------------------------------------------------------------
\* Every variable has its type.
TypeOK ==
  /\ RunTypeOK
  /\ epc \in {"load", "import", "work", "await", "flush", "close", "crash", "dead"}
  /\ state \in Seq(Diag)
  /\ asked \in RequestKind
  /\ outbox \in Seq(FromEngine)
  /\ written \in 0..Len(outbox)
  /\ talk \in Nat
  /\ faulted \in BOOLEAN

(***************************************************************************)
(* When run_engine returns, its verdict and what the user saw are those of *)
(* the engine: every diagnostic that reached `Diagnostics.Core.state` was  *)
(* shown and none was invented, although they travel at the very end       *)
(* through a pipe that either process may close at any time.               *)
(***************************************************************************)
VerdictFaithful ==
  result = "returned" =>
    /\ reported = Range(state)
    /\ error <=> state # << >>

(***************************************************************************)
(* When run_engine returns, every file the engine printed is in the output *)
(* directory with its contents or, on a dry run, the output is what the    *)
(* engine wrote up to its last diagnostic or file: all of them, in order.  *)
(***************************************************************************)
IsOutput(m) == m.kind \in {"Diagnostic", "File"}
FilesDelivered ==
  result = "returned" =>
    IF DryRun
    THEN IsPrefix(output, outbox) /\ \A k \in DOMAIN outbox : IsOutput(outbox[k]) <=> k <= Len(output)
    ELSE \A k \in DOMAIN outbox :
           outbox[k].kind = "File" => disk[outbox[k].file.path] = outbox[k].file.contents

(***************************************************************************)
(* The statistics of a run that returned count, for each item, the         *)
(* diagnostics the engine reported for it: no ItemProcessed arrived late   *)
(* enough to reset a count, and no item with an error is missing.          *)
(***************************************************************************)
OwnErrors(i) == {k \in DOMAIN state : Owner[state[k]] = i}
StatsExact ==
  result = "returned" =>
    \A i \in Item :
      IF i \in DOMAIN errorsPerItem
      THEN errorsPerItem[i] = Cardinality(OwnErrors(i))
      ELSE OwnErrors(i) = {}

(***************************************************************************)
(* Requests and replies stay in step (the "communication protocol error"   *)
(* of Hax_io.request never happens): the engine awaits whenever cargo-hax  *)
(* is answering, and an unread reply is the one the engine awaits.         *)
(***************************************************************************)
RepliesMatch ==
  /\ pc = "reply" /\ exitCode = Running /\ epc # "crash" => epc = "await" /\ pending = asked
  /\ epc = "await" /\ StdinReady =>
       Len(toEngine) = eread + 1 /\ toEngine[eread + 1] = ReplyTo[asked]

(***************************************************************************)
(* Nothing fails before a fault: no process writes to a closed pipe, the   *)
(* engine waiting in `close` and cargo-hax waiting for its exit do not     *)
(* wait for each other, and cargo-hax panics for no other reason than the  *)
(* success rate of a crate without items.                                  *)
(***************************************************************************)
CleanRun ==
  ~faulted => epc # "crash" /\ (result \in {"none", "returned"} \/ StatsDivideByZero)

\* Both: the two processes never disagree on whose turn it is nor on whether one has ended.
ConversationOK == RepliesMatch /\ CleanRun

(***************************************************************************)
(* run_engine comes to an end whatever happens to the engine, and no       *)
(* engine outlives it, even when cargo-hax panics in mid-conversation.     *)
(***************************************************************************)
EveryProcessEnds == <>(result # "none") /\ <>(exitCode # Running)

Promise == INSTANCE Extraction WITH
  Message <- FromEngine, outputs <- fromEngine, shown <- cread, verdict <- error,
  complete <- exitCode = 0, outcome <- result

\* Whatever the engine does, a run of run_engine is a run of the promise: messages are
\* acted upon in order, and it returns only once all of a finished engine's output is.
ImplementsExtraction == Promise!Spec
=============================================================================
