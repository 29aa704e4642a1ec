------------------------------ MODULE RunEngine ------------------------------
(***************************************************************************)
(* `run_engine` of cargo-hax: the client of one extraction engine.         *)
(*                                                                         *)
(* cargo-hax spawns an engine with piped stdin and stdout, sends it one    *)
(* `WithTable` message and then serves the engine's messages one at a      *)
(* time until `Exit` or the end of the stream; it then closes the pipes,   *)
(* waits for the engine and looks at its exit status.  The engine itself   *)
(* is modelled in OCamlEngine and RustEngine, which extend this module and *)
(* write the `FromEngine` stream read here.                                *)
(*                                                                         *)
(* A pipe is a log of the messages written so far and the number of them   *)
(* the reader has consumed: what is in flight is the part after that       *)
(* position, and at most PipeCapacity messages are.                        *)
(***************************************************************************)
EXTENDS Integers, Sequences, FiniteSets

CONSTANTS
  Item,          \* definition ids that own diagnostics
  Diag,          \* diagnostics
  Owner,         \* Owner[d]: the `owner_id` of a diagnostic, or NoOwner
  NoOwner,
  Path,          \* relative paths of generated files
  Contents,      \* contents of generated files
  Absent,        \* "no file at this path"
  DryRun,        \* --dry-run
  Stats,         \* --stats
  Human,         \* message format Human (otherwise Json)
  PipeCapacity   \* messages an OS pipe holds before the writer blocks

ASSUME OwnerAssumption == Owner \in [Diag -> Item \cup {NoOwner}] /\ NoOwner \notin Item
ASSUME OptionsAssumption == DryRun \in BOOLEAN /\ Stats \in BOOLEAN /\ Human \in BOOLEAN
ASSUME PipeAssumption == PipeCapacity \in Nat \ {0}

(***************************************************************************)
(* The messages.                                                           *)
(***************************************************************************)
RequestKind == {"PrettyPrintRust", "PrettyPrintDiagnostic", "Ping"}
ReplyTo == [k \in RequestKind |->
              CASE k = "PrettyPrintRust" -> "PrettyPrintedRust"
                [] k = "PrettyPrintDiagnostic" -> "PrettyPrintedDiagnostic"
                [] k = "Ping" -> "Pong"]
ReplyKind == {"PrettyPrintedRust", "PrettyPrintedDiagnostic", "Pong"}
ToEngine == ReplyKind \cup {"WithTable"}

DiagnosticMsg(d) == [kind |-> "Diagnostic", diag |-> d]
FileMsg(f) == [kind |-> "File", file |-> f]
ItemProcessedMsg(s) == [kind |-> "ItemProcessed", items |-> s]
Plain(k) == [kind |-> k]

File == [path : Path, contents : Contents]

\* "Garbage" is a line that is not a JSON message: debug output of the engine
\* on stdout, or the partial line a killed engine leaves behind.
PlainKind == RequestKind \cup {"DebugString", "ProfilingData", "Exit", "Garbage"}
FromEngine ==
  [kind : {"Diagnostic"}, diag : Diag]
    \cup [kind : {"File"}, file : File]
    \cup [kind : {"ItemProcessed"}, items : SUBSET Item]
    \cup [kind : PlainKind]

Running == -1

VARIABLES
  pc,             \* where run_engine is
  pending,        \* the request being answered
  error,          \* `error`
  errorsPerItem,  \* `errors_per_item`
  reported,       \* the diagnostics shown to the user (`ReportCtx` shows each once)
  output,         \* `output`: what --dry-run prints at the end
  disk,           \* the output directory
  debugJson,      \* `output.debug_json`: how many debug strings came
  result,         \* how run_engine ended: "returned", "exit1" or "panic"
  toEngine,       \* the engine's stdin: everything written to it
  eread,          \* how many of those the engine has read
  fromEngine,     \* the engine's stdout: everything written to it
  cread,          \* how many of those cargo-hax has read
  exitCode        \* exit code of the engine process, or Running

clientVars == <<pc, pending, error, errorsPerItem, reported, output, disk,
                debugJson, result>>
pipeVars == <<toEngine, eread, fromEngine, cread, exitCode>>
runVars == <<clientVars, pipeVars>>

(***************************************************************************)
(* The two pipes as the engine sees them.                                  *)
(***************************************************************************)
\* cargo-hax holds its ends of both pipes until it leaves the message loop:
\* `for` drops the reader, `wait` closes the engine's stdin.
ClientEndsOpen == pc \in {"send", "loop", "reply"}

StdinReady == eread < Len(toEngine)
\* Variant: waiting for the engine does not close its stdin.
StdinEof_KeptByWait == ~StdinReady /\ pc = "done"

StdinEof == ~StdinReady /\ ~ClientEndsOpen
StdoutRoom == ClientEndsOpen /\ Len(fromEngine) - cread < PipeCapacity

StdoutBroken == ~ClientEndsOpen

RunInit ==
  /\ pc = "send"
  /\ pending = "Ping"
  /\ error = FALSE
  /\ errorsPerItem = [i \in {} |-> 0]
  /\ reported = {}
  /\ output = << >>
  /\ disk \in [Path -> Contents \cup {Absent}]
  /\ debugJson = 0
  /\ result = "none"
  /\ toEngine = << >> /\ eread = 0
  /\ fromEngine = << >> /\ cread = 0
  /\ exitCode = Running

(***************************************************************************)
(* `send!`: serialize, newline, flush.  Writing to the pipe of a dead      *)
(* process fails and the `unwrap` panics.                                  *)
(***************************************************************************)
Panic == pc' = "done" /\ result' = "panic"

Send(m, next) ==
  /\ exitCode = Running
  /\ toEngine' = Append(toEngine, m)
  /\ pc' = next
  /\ UNCHANGED <<pending, error, errorsPerItem, reported, output, disk, debugJson,
                 result, eread, fromEngine, cread, exitCode>>

SendInput == pc = "send" /\ Send("WithTable", "loop")

SendReply == pc = "reply" /\ Send(ReplyTo[pending], "loop")

SendBroken ==
  /\ pc \in {"send", "reply"}
  /\ exitCode # Running
  /\ Panic
  /\ UNCHANGED <<pending, error, errorsPerItem, reported, output, disk, debugJson, pipeVars>>

(***************************************************************************)
(* The message loop.                                                       *)
(***************************************************************************)
Incoming == fromEngine[cread + 1]

Receive(kinds) ==
  /\ pc = "loop"
  /\ cread < Len(fromEngine)
  /\ Incoming.kind \in kinds
  /\ cread' = cread + 1
  /\ UNCHANGED <<toEngine, eread, fromEngine, exitCode>>

\* Variant: a diagnostic without owner is counted too.
Bump_AnyOwner(counts, owner) ==
  [i \in DOMAIN counts \cup {owner} |->
     (IF i \in DOMAIN counts THEN counts[i] ELSE 0) + (IF i = owner THEN 1 ELSE 0)]

\* Variant: the count is set to one instead of incremented.
Bump_Insert(counts, owner) ==
  IF owner = NoOwner THEN counts
  ELSE [i \in DOMAIN counts \cup {owner} |-> IF i = owner THEN 1 ELSE counts[i]]

Bump(counts, owner) ==
  IF owner = NoOwner THEN counts
  ELSE [i \in DOMAIN counts \cup {owner} |->
          (IF i \in DOMAIN counts THEN counts[i] ELSE 0) + (IF i = owner THEN 1 ELSE 0)]

\* Variant: a dry run collects the files only.
Collect_FilesOnly(m) == IF DryRun /\ m.kind = "File" THEN Append(output, m) ELSE output

Collect(m) == IF DryRun THEN Append(output, m) ELSE output

OnDiagnostic ==
  /\ Receive({"Diagnostic"})
  /\ error' = TRUE
  /\ output' = Collect(Incoming)
  /\ errorsPerItem' = Bump(errorsPerItem, Owner[Incoming.diag])
  /\ reported' = reported \cup {Incoming.diag}
  /\ UNCHANGED <<pc, pending, disk, debugJson, result>>

\* Variant: the comparison with what the file contains is inverted.
Written_IfSame(f) == IF disk[f.path] = f.contents THEN [disk EXCEPT ![f.path] = f.contents] ELSE disk

\* The code skips the write when the file already has these contents.
Written(f) == [disk EXCEPT ![f.path] = f.contents]

OnFile ==
  /\ Receive({"File"})
  /\ output' = Collect(Incoming)
  /\ disk' = IF DryRun THEN disk ELSE Written(Incoming.file)
  /\ UNCHANGED <<pc, pending, error, errorsPerItem, reported, debugJson, result>>

\* `insert(item, 0)`: an item that already has a count loses it.
OnItemProcessed ==
  /\ Receive({"ItemProcessed"})
  /\ errorsPerItem' = [i \in DOMAIN errorsPerItem \cup Incoming.items |->
                         IF i \in Incoming.items THEN 0 ELSE errorsPerItem[i]]
  /\ UNCHANGED <<pc, pending, error, reported, output, disk, debugJson, result>>

OnDebugString ==
  /\ Receive({"DebugString"})
  /\ debugJson' = debugJson + 1
  /\ UNCHANGED <<pc, pending, error, errorsPerItem, reported, output, disk, result>>

OnProfilingData == Receive({"ProfilingData"}) /\ UNCHANGED clientVars

OnRequest ==
  /\ Receive(RequestKind)
  /\ pc' = "reply"
  /\ pending' = Incoming.kind
  /\ UNCHANGED <<error, errorsPerItem, reported, output, disk, debugJson, result>>

OnGarbage ==
  /\ Receive({"Garbage"})
  /\ Panic
  /\ UNCHANGED <<pending, error, errorsPerItem, reported, output, disk, debugJson>>

(***************************************************************************)
(* The end of the loop: the statistics, and their success rate, which      *)
(* divides by the number of items when it is rendered for a human.         *)
(***************************************************************************)
StatsDivideByZero == Stats /\ Human /\ DOMAIN errorsPerItem = {}

LeaveLoop ==
  /\ IF StatsDivideByZero THEN Panic ELSE pc' = "wait" /\ UNCHANGED result
  /\ UNCHANGED <<pending, error, errorsPerItem, reported, output, disk, debugJson>>

OnExit == Receive({"Exit"}) /\ LeaveLoop

OnEof ==
  /\ pc = "loop"
  /\ cread = Len(fromEngine)
  /\ exitCode # Running
  /\ LeaveLoop
  /\ UNCHANGED pipeVars

\* Variant: the exit status of the engine is not looked at.
Outcome_AnyStatus == "returned"

Outcome == IF exitCode = 0 THEN "returned" ELSE "exit1"

Wait ==
  /\ pc = "wait"
  /\ exitCode # Running
  /\ pc' = "done"
  /\ result' = Outcome
  /\ UNCHANGED <<pending, error, errorsPerItem, reported, output, disk, debugJson, pipeVars>>

\* cargo-hax is killed, or cannot write a file and panics.
ClientDies ==
  /\ pc # "done"
  /\ Panic
  /\ UNCHANGED <<pending, error, errorsPerItem, reported, output, disk, debugJson, pipeVars>>

ClientNext ==
  \/ SendInput \/ SendReply \/ SendBroken
  \/ OnDiagnostic \/ OnFile \/ OnItemProcessed \/ OnDebugString
  \/ OnProfilingData \/ OnRequest \/ OnGarbage
  \/ OnExit \/ OnEof \/ Wait

(***************************************************************************)
(* The engine's side of the pipes, used by the engine modules.             *)
(***************************************************************************)
Put(m) ==
  /\ exitCode = Running
  /\ StdoutRoom
  /\ fromEngine' = Append(fromEngine, m)
  /\ UNCHANGED <<clientVars, toEngine, eread, cread, exitCode>>

Get ==
  /\ exitCode = Running
  /\ StdinReady
  /\ eread' = eread + 1
  /\ UNCHANGED <<clientVars, toEngine, fromEngine, cread, exitCode>>

ExitWith(code) ==
  /\ exitCode = Running
  /\ exitCode' = code
  /\ UNCHANGED <<clientVars, toEngine, eread, fromEngine, cread>>

RunTypeOK ==
  /\ pc \in {"send", "loop", "reply", "wait", "done"}
  /\ pending \in RequestKind
  /\ error \in BOOLEAN
  /\ DOMAIN errorsPerItem \subseteq Item
  /\ errorsPerItem \in [DOMAIN errorsPerItem -> Nat]
  /\ reported \subseteq Diag
  /\ output \in Seq(FromEngine)
  /\ disk \in [Path -> Contents \cup {Absent}]
  /\ debugJson \in Nat
  /\ result \in {"none", "returned", "exit1", "panic"}
  /\ toEngine \in Seq(ToEngine) /\ eread \in 0..Len(toEngine)
  /\ fromEngine \in Seq(FromEngine) /\ cread \in 0..Len(fromEngine)
  /\ exitCode \in Nat \cup {Running}
=============================================================================
