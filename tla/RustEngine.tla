----------------------------- MODULE RustEngine ------------------------------
(***************************************************************************)
(* The Rust engine between cargo-hax and the OCaml engine: `main` of       *)
(* rust-engine, `QueryKind::execute`, and `driver_for_rust_engine` of      *)
(* engine/bin/lib.ml.                                                      *)
(*                                                                         *)
(* The Rust engine works through a plan: OCaml queries (importing legacy   *)
(* THIR, applying consecutive OCaml phases, printing F* ) and its own      *)
(* phases and printers.  Each query runs in a fresh OCaml subprocess; the  *)
(* messages of the subprocess are forwarded to cargo-hax, and a request is *)
(* followed by the forwarding of the reply.  The response of a query       *)
(* carries diagnostics, reported once the subprocess has ended.            *)
(***************************************************************************)
EXTENDS RunEngine, SequencesExt

CONSTANTS
  Plans,      \* the plans of the backends, see PlansAssumption
  MaxDiags,   \* bound: diagnostics raised in one step
  MaxTalk,    \* bound: messages one subprocess writes while working
  MaxDebug,   \* bound: debug strings of one query (0 without --debug-engine)
  Faults

QueryKind == {"ImportThir", "ApplyPhases", "Print"}

\* "Native": phases, resugarings and printers written in Rust.
ASSUME PlansAssumption ==
  \A p \in Plans :
    /\ p \in Seq(QueryKind \cup {"Native"}) /\ p # << >>
    /\ \A i \in DOMAIN p : p[i] = "Print" => i = Len(p)

FaultKind == {"exception",  \* an exception escapes in the OCaml subprocess
              "garbage",    \* something prints on its stdout
              "kill",       \* the subprocess is killed
              "killRust",   \* the Rust engine is killed
              "client"}     \* cargo-hax dies
ASSUME BoundsAssumption == MaxDiags \in Nat /\ MaxTalk \in Nat /\ MaxDebug \in Nat
                            /\ Faults \subseteq FaultKind

\* An `Option<Response>`: <<>> for None, <<diagnostics>> for Some.
NoResponse == << >>

VARIABLES
  plan,      \* the steps of the backend of this run
  rpc,       \* where the Rust engine is
  step,      \* the step of the plan it is at
  response,  \* `response` of the current query
  queue,     \* messages it is about to write: diagnostics of a response, or its files
  toSub,     \* the subprocess's stdin, and how much of it the subprocess has read
  sread,
  fromSub,   \* the subprocess's stdout, and how much of it the Rust engine has read
  rread,
  subExit,   \* exit code of the subprocess, Running, or NoSub before the first one
  spc,       \* where the subprocess is
  sasked,    \* the request whose reply it awaits
  squeue,    \* what it still has to write before it exits
  talk,      \* how many messages it wrote while working
  state,     \* its `Diagnostics.Core.state`
  raised,    \* history: <<kind of step, diagnostic>> for every diagnostic raised
  faulted    \* history: whether a fault has happened

rustVars == <<rpc, step, response, queue>>
subPipes == <<toSub, sread, fromSub, rread, subExit>>
subVars == <<spc, sasked, squeue, talk, state>>
vars == <<plan, runVars, rustVars, subPipes, subVars, raised, faulted>>

NoSub == -2

Init ==
  /\ RunInit
  /\ plan \in Plans
  /\ rpc = "load" /\ step = 1 /\ response = NoResponse /\ queue = << >>
  /\ toSub = << >> /\ sread = 0 /\ fromSub = << >> /\ rread = 0 /\ subExit = NoSub
  /\ spc = "dead" /\ sasked = "Ping" /\ squeue = << >> /\ talk = 0 /\ state = << >>
  /\ raised = {} /\ faulted = FALSE

(***************************************************************************)
(* The Rust engine: `main`.                                                *)
(***************************************************************************)
RustPanic == rpc' = "panic" /\ UNCHANGED <<step, response, queue>>

ReadEngineInput ==
  /\ rpc = "load"
  /\ Get
  /\ rpc' = "dispatch"
  /\ UNCHANGED <<step, response, queue, subPipes, subVars, raised>>

\* `read_until` returns an empty line at the end of stdin: it does not parse.
ReadInputEof ==
  /\ rpc \in {"load", "relay"}
  /\ StdinEof
  /\ RustPanic
  /\ UNCHANGED <<runVars, subPipes, subVars, raised>>

WriteBroken ==
  /\ StdoutBroken
  /\ \/ rpc = "dispatch" /\ step <= Len(plan) /\ plan[step] = "Native"
     \/ rpc \in {"report", "files"} /\ queue # << >>
     \/ rpc = "proxy" /\ rread < Len(fromSub)
  /\ RustPanic
  /\ UNCHANGED <<runVars, subPipes, subVars, raised>>

\* A diagnostic of the Rust side has no owner (DiagnosticInfo::emit).
NativeReport ==
  /\ rpc = "dispatch" /\ step <= Len(plan) /\ plan[step] = "Native"
  /\ Cardinality({r \in raised : r[1] = "Native"}) < MaxDiags
  /\ \E d \in Diag :
       /\ Owner[d] = NoOwner
       /\ Put(DiagnosticMsg(d))
       /\ raised' = raised \cup {<<"Native", d>>}
  /\ UNCHANGED <<rustVars, subPipes, subVars>>

NativeDone ==
  /\ rpc = "dispatch" /\ step <= Len(plan) /\ plan[step] = "Native"
  /\ step' = step + 1
  /\ UNCHANGED <<runVars, rpc, response, queue, subPipes, subVars, raised>>

\* After the last step: the F* backend has printed in OCaml and `main`
\* returns, the others have a file per module to write.
FileLists ==
  {fs \in BoundedSeq(File, Cardinality(Path)) :
     \A i, j \in DOMAIN fs : fs[i].path = fs[j].path => i = j}
FileMsgs(fs) == [i \in 1..Len(fs) |-> FileMsg(fs[i])]

Printed ==
  /\ rpc = "dispatch" /\ step > Len(plan)
  /\ IF plan[Len(plan)] = "Print"
     THEN queue' = << >>
     ELSE \E fs \in FileLists : queue' = FileMsgs(fs)
  /\ rpc' = "files"
  /\ UNCHANGED <<runVars, step, response, subPipes, subVars, raised>>

\* Writes the queued diagnostics of a response, or the queued files.
WriteQueued ==
  /\ rpc \in {"report", "files"} /\ queue # << >>
  /\ Put(Head(queue))
  /\ queue' = Tail(queue)
  /\ UNCHANGED <<rpc, step, response, subPipes, subVars, raised>>

ReportDone ==
  /\ rpc = "report" /\ queue = << >>
  /\ step' = step + 1
  /\ rpc' = "dispatch"
  /\ UNCHANGED <<runVars, response, queue, subPipes, subVars, raised>>

\* No Exit is sent: cargo-hax sees the end of the stream.
ReturnFromMain ==
  /\ rpc = "files" /\ queue = << >>
  /\ ExitWith(0)
  /\ rpc' = "dead"
  /\ UNCHANGED <<step, response, queue, subPipes, subVars, raised>>

RustDies ==
  /\ rpc = "panic"
  /\ ExitWith(101)
  /\ rpc' = "dead"
  /\ UNCHANGED <<step, response, queue, subPipes, subVars, raised>>

(***************************************************************************)
(* `QueryKind::execute`: spawn, send the query, proxy, wait.               *)
(***************************************************************************)
\* Leaving the loop drops the reader, and `wait` closes the subprocess's stdin.
RustEndsOpen == rpc \in {"send", "proxy", "relay"}

Spawn ==
  /\ rpc = "dispatch" /\ step <= Len(plan) /\ plan[step] \in QueryKind
  /\ rpc' = "send" /\ response' = NoResponse
  /\ toSub' = << >> /\ sread' = 0 /\ fromSub' = << >> /\ rread' = 0 /\ subExit' = Running
  /\ spc' = "load" /\ squeue' = << >> /\ talk' = 0 /\ state' = << >>
  /\ UNCHANGED <<runVars, step, queue, sasked, raised>>

SendToSub(m) ==
  /\ subExit = Running
  /\ toSub' = Append(toSub, m)
  /\ UNCHANGED <<sread, fromSub, rread, subExit>>

SendQuery ==
  /\ rpc = "send"
  /\ SendToSub("WithTable")
  /\ rpc' = "proxy"
  /\ UNCHANGED <<runVars, step, response, queue, subVars, raised>>

\* The subprocess is gone before the query, or the reply, could be written.
SendToSubBroken ==
  /\ \/ rpc = "send"
     \/ rpc = "relay" /\ StdinReady
  /\ subExit # Running
  /\ RustPanic
  /\ UNCHANGED <<runVars, subPipes, subVars, raised>>

SubMsg == fromSub[rread + 1]
TakeFromSub(kinds) ==
  /\ rpc = "proxy"
  /\ rread < Len(fromSub)
  /\ SubMsg.kind \in kinds
  /\ rread' = rread + 1
  /\ UNCHANGED <<toSub, sread, fromSub, subExit>>

OnResponse ==
  /\ TakeFromSub({"Response"})
  /\ response' = <<SubMsg.diags>>
  /\ UNCHANGED <<runVars, rpc, step, queue, subVars, raised>>

OnSubGarbage ==
  /\ TakeFromSub({"Garbage"})
  /\ RustPanic
  /\ UNCHANGED <<runVars, subVars, raised>>

OnSubExit ==
  /\ TakeFromSub({"Exit"})
  /\ rpc' = "wait"
  /\ UNCHANGED <<runVars, step, response, queue, subVars, raised>>

OnSubEof ==
  /\ rpc = "proxy" /\ rread = Len(fromSub) /\ subExit # Running
  /\ rpc' = "wait"
  /\ UNCHANGED <<runVars, step, response, queue, subPipes, subVars, raised>>

Proxied == {"File", "ItemProcessed", "DebugString", "ProfilingData"} \cup RequestKind

\* Variant: `requires_response` forgets Ping.
RequiresResponse_NotPing(m) == m.kind \in RequestKind \ {"Ping"}
RequiresResponse(m) == m.kind \in RequestKind

Proxy ==
  /\ TakeFromSub(Proxied)
  /\ Put(SubMsg)
  /\ rpc' = IF RequiresResponse(SubMsg) THEN "relay" ELSE "proxy"
  /\ UNCHANGED <<step, response, queue, subVars, raised>>

Relay ==
  /\ rpc = "relay"
  /\ Get
  /\ SendToSub(toEngine[eread + 1])
  /\ rpc' = "proxy"
  /\ UNCHANGED <<step, response, queue, subVars, raised>>

\* Variant: the diagnostics of a response are dropped.
DiagnosticMsgs_None(ds) == << >>
DiagnosticMsgs(ds) == [i \in 1..Len(ds) |-> DiagnosticMsg(ds[i])]

\* The callers of `execute` panic when there is no response.
Succeeded == subExit = 0 /\ response # NoResponse

WaitSub ==
  /\ rpc = "wait" /\ subExit # Running
  /\ IF Succeeded
     THEN rpc' = "report" /\ queue' = DiagnosticMsgs(response[1]) /\ UNCHANGED <<step, response>>
     ELSE RustPanic
  /\ UNCHANGED <<runVars, subPipes, subVars, raised>>

(***************************************************************************)
(* The OCaml subprocess: `driver_for_rust_engine`.                         *)
(***************************************************************************)
SubStdinReady == sread < Len(toSub)

\* Variant: another process holds the write end of the subprocess's stdin.
SubStdinEof_Inherited == FALSE
SubStdinEof == ~SubStdinReady /\ ~RustEndsOpen
SubStdoutBroken == ~RustEndsOpen
Query == plan[step]

SubPut(m) ==
  /\ subExit = Running
  /\ RustEndsOpen /\ Len(fromSub) - rread < PipeCapacity
  /\ fromSub' = Append(fromSub, m)
  /\ UNCHANGED <<toSub, sread, rread, subExit>>

SubGet ==
  /\ subExit = Running /\ SubStdinReady
  /\ sread' = sread + 1
  /\ UNCHANGED <<toSub, fromSub, rread, subExit>>

SubExitWith(code) ==
  /\ subExit = Running
  /\ subExit' = code
  /\ spc' = "dead"
  /\ UNCHANGED <<toSub, sread, fromSub, rread>>

SubCrash == spc' = "crash" /\ UNCHANGED <<sasked, squeue, talk, state>>

SubLoad ==
  /\ spc = "load"
  /\ SubGet
  /\ spc' = IF Query = "ImportThir" THEN "import" ELSE "work"
  /\ UNCHANGED <<runVars, rustVars, sasked, squeue, talk, state, raised>>

SubReadEof ==
  /\ spc \in {"load", "await"} /\ SubStdinEof
  /\ SubCrash
  /\ UNCHANGED <<runVars, rustVars, subPipes, raised>>

Raise(ds) == raised' = raised \cup {<<Query, ds[i]>> : i \in DOMAIN ds}

\* What is left to write once the query is answered.  A printing query
\* answers PrintOk, which carries no diagnostics.
Answer(files, diags, debug) ==
  FileMsgs(files) \o [i \in 1..debug |-> Plain("DebugString")]
    \o <<[kind |-> "Response", diags |-> IF Query = "Print" THEN << >> ELSE diags],
         Plain("Exit")>>

\* ImportThir: `import_thir_items` under `try_`.
ReportLists == {ds \in BoundedSeq(Diag, MaxDiags) : IsInjective(ds)}

SubImport ==
  /\ spc = "import"
  /\ \E items \in SUBSET Item : SubPut(ItemProcessedMsg(items))
  /\ state' \in ReportLists
  /\ Raise(state')
  /\ \E debug \in 0..MaxDebug : squeue' = Answer(<< >>, state', debug)
  /\ spc' = "answer"
  /\ UNCHANGED <<runVars, rustVars, sasked, talk>>

SubImportFatal ==
  /\ spc = "import"
  /\ \E d \in Diag : state' = <<d>>
  /\ Raise(state')
  /\ \E debug \in 0..MaxDebug : squeue' = Answer(<< >>, state', debug)
  /\ spc' = "answer"
  /\ UNCHANGED <<runVars, rustVars, subPipes, sasked, talk>>

\* ApplyPhases and Print.
SubReport ==
  /\ spc = "work"
  /\ Len(state) < MaxDiags
  /\ \E d \in Diag : state' = Append(state, d)
  /\ Raise(state')
  /\ UNCHANGED <<runVars, rustVars, subPipes, spc, sasked, squeue, talk>>

\* A fatal error is caught by neither `capture` nor the printer.
SubFatal ==
  /\ spc = "work"
  /\ Len(state) < MaxDiags
  /\ \E d \in Diag : state' = Append(state, d)
  /\ Raise(state')
  /\ spc' = "crash"
  /\ UNCHANGED <<runVars, rustVars, subPipes, sasked, squeue, talk>>

SubTalk(m, next) ==
  /\ spc = "work" /\ talk < MaxTalk
  /\ talk' = talk + 1
  /\ SubPut(m)
  /\ spc' = next
  /\ UNCHANGED <<runVars, rustVars, squeue, state, raised>>

SubProfile == SubTalk(Plain("ProfilingData"), "work") /\ UNCHANGED sasked

SubRequest == \E k \in RequestKind : SubTalk(Plain(k), "await") /\ sasked' = k

SubReadReply ==
  /\ spc = "await"
  /\ SubGet
  /\ spc' = IF toSub[sread + 1] = ReplyTo[sasked] THEN "work" ELSE "crash"
  /\ UNCHANGED <<runVars, rustVars, sasked, squeue, talk, state, raised>>

SubFinish ==
  /\ spc = "work"
  /\ \E fs \in (IF Query = "Print" THEN FileLists ELSE {<< >>}), debug \in 0..MaxDebug :
       squeue' = Answer(fs, state, debug)
  /\ spc' = "answer"
  /\ UNCHANGED <<runVars, rustVars, subPipes, sasked, talk, state, raised>>

SubAnswer ==
  /\ spc = "answer" /\ squeue # << >>
  /\ SubPut(Head(squeue))
  /\ squeue' = Tail(squeue)
  /\ UNCHANGED <<runVars, rustVars, spc, sasked, talk, state, raised>>

SubReturns ==
  /\ spc = "answer" /\ squeue = << >>
  /\ SubExitWith(0)
  /\ UNCHANGED <<runVars, rustVars, sasked, squeue, talk, state, raised>>

SubBroken ==
  /\ spc \in {"import", "work"} \/ (spc = "answer" /\ squeue # << >>)
  /\ SubStdoutBroken
  /\ SubCrash
  /\ UNCHANGED <<runVars, rustVars, subPipes, raised>>

SubDies ==
  /\ spc = "crash"
  /\ SubExitWith(2)
  /\ UNCHANGED <<runVars, rustVars, sasked, squeue, talk, state, raised>>

(***************************************************************************)
(* Faults.                                                                 *)
(***************************************************************************)
SubRaisesException ==
  /\ "exception" \in Faults
  /\ spc \in {"load", "import", "work"}
  /\ SubCrash
  /\ UNCHANGED <<runVars, rustVars, subPipes, raised>>

SubDebugPrint ==
  "garbage" \in Faults /\ SubTalk(Plain("Garbage"), "work") /\ UNCHANGED sasked

SubKilled ==
  /\ "kill" \in Faults
  /\ spc # "dead"
  /\ SubExitWith(137)
  /\ UNCHANGED <<runVars, rustVars, sasked, squeue, talk, state, raised>>

RustKilled ==
  /\ "killRust" \in Faults
  /\ rpc # "dead"
  /\ ExitWith(137)
  /\ rpc' = "dead"
  /\ UNCHANGED <<step, response, queue, subPipes, subVars, raised>>

-----------------------------------------------------------------------------
Rust ==
  /\ \/ ReadEngineInput \/ ReadInputEof \/ WriteBroken \/ NativeReport \/ NativeDone
     \/ Printed \/ WriteQueued \/ ReportDone \/ ReturnFromMain \/ RustDies
     \/ Spawn \/ SendQuery \/ SendToSubBroken \/ OnResponse \/ OnSubGarbage
     \/ OnSubExit \/ OnSubEof \/ Proxy \/ Relay \/ WaitSub
  /\ UNCHANGED <<plan, faulted>>

Sub ==
  /\ \/ SubLoad \/ SubReadEof \/ SubImport \/ SubImportFatal \/ SubReport \/ SubFatal
     \/ SubProfile \/ SubRequest \/ SubReadReply \/ SubFinish \/ SubAnswer
     \/ SubReturns \/ SubBroken \/ SubDies
  /\ UNCHANGED <<plan, faulted>>

KillClient ==
  "client" \in Faults /\ ClientDies /\ UNCHANGED <<rustVars, subPipes, subVars, raised>>

Fault ==
  /\ SubRaisesException \/ SubDebugPrint \/ SubKilled \/ RustKilled \/ KillClient
  /\ faulted' = TRUE
  /\ UNCHANGED plan

Client == ClientNext /\ UNCHANGED <<plan, rustVars, subPipes, subVars, raised, faulted>>

\* Every process has ended.
Terminated == pc = "done" /\ rpc = "dead" /\ spc = "dead" /\ UNCHANGED vars

Next == Client \/ Rust \/ Sub \/ Fault \/ Terminated

Spec == Init /\ [][Next]_vars

\* The operating system runs every process that can run.
FairSpec == Spec /\ WF_vars(Client) /\ WF_vars(Rust) /\ WF_vars(Sub)

-----------------------------------------------------------------------------
FromSub == FromEngine \cup [kind : {"Response"}, diags : Seq(Diag)]

\* Every variable has its type.
TypeOK ==
  /\ RunTypeOK
  /\ rpc \in {"load", "dispatch", "send", "proxy", "relay", "wait", "report", "files",
              "panic", "dead"}
  /\ plan \in Plans /\ step \in 1..Len(plan) + 1
  /\ response \in Seq(Seq(Diag)) /\ Len(response) <= 1
  /\ queue \in Seq(FromEngine)
  /\ toSub \in Seq(ToEngine) /\ sread \in 0..Len(toSub)
  /\ fromSub \in Seq(FromSub) /\ rread \in 0..Len(fromSub)
  /\ subExit \in Nat \cup {Running, NoSub}
  /\ spc \in {"load", "import", "work", "await", "answer", "crash", "dead"}
  /\ sasked \in RequestKind
  /\ squeue \in Seq(FromSub)
  /\ talk \in Nat
  /\ state \in Seq(Diag)
  /\ faulted \in BOOLEAN
  /\ raised \subseteq (QueryKind \cup {"Native"}) \X Diag

(***************************************************************************)
(* When run_engine returns, every diagnostic raised while importing,       *)
(* applying OCaml phases or running Rust phases and printers, in whichever *)
(* process, was shown to the user; none was invented; and the verdict is   *)
(* an error exactly when there was one.                                    *)
(***************************************************************************)
RaisedIn(kinds) == {r[2] : r \in {q \in raised : q[1] \in kinds}}
VerdictFaithful ==
  result = "returned" =>
    /\ reported = RaisedIn({"ImportThir", "ApplyPhases", "Native"})
    /\ error <=> reported # {}

(***************************************************************************)
(* `Response::PrintOk` is documented as "Printing was done successfully":  *)
(* when cargo-hax returns without an error after a plan that ends with the *)
(* OCaml printer, the printer raised no diagnostic.                        *)
(***************************************************************************)
PrintOkMeansSuccess ==
  result = "returned" /\ ~error /\ plan[Len(plan)] = "Print" => RaisedIn({"Print"}) = {}

(***************************************************************************)
(* When run_engine returns, the whole plan was carried out, and the files  *)
(* the last step printed, in OCaml or in Rust, are all in the output       *)
(* directory or, on a dry run, in the output.                              *)
(***************************************************************************)
SentFiles(msgs) == {msgs[k].file : k \in {j \in DOMAIN msgs : msgs[j].kind = "File"}}
FilesDelivered ==
  result = "returned" =>
    /\ step > Len(plan)
    /\ \A f \in SentFiles(fromSub) \cup SentFiles(squeue) \cup SentFiles(fromEngine) :
         IF DryRun THEN f \in SentFiles(output) ELSE disk[f.path] = f.contents

(***************************************************************************)
(* A reply reaches the process that asked, and answers what it asked,      *)
(* through the Rust engine that only relays: cargo-hax answers when the    *)
(* Rust engine relays and the live subprocess awaits, and a reply the      *)
(* subprocess finds is the one it awaits.                                  *)
(***************************************************************************)
RepliesMatch ==
  /\ pc = "reply" /\ exitCode = Running /\ rpc # "panic" =>
       /\ rpc = "relay"
       /\ subExit = Running /\ spc # "crash" => spc = "await" /\ pending = sasked
  /\ spc = "await" /\ SubStdinReady =>
       Len(toSub) = sread + 1 /\ toSub[sread + 1] = ReplyTo[sasked]

(***************************************************************************)
(* Until a fault happens, and unless a fatal error ends a subprocess,      *)
(* cargo-hax never reports that the engine failed: the end of the stream,  *)
(* which stands for the Exit the Rust engine does not send, is not taken   *)
(* for a crash, and no message is written to a pipe already closed.        *)
(***************************************************************************)
CleanRun ==
  ~faulted /\ result # "none" =>
    result = "returned" \/ StatsDivideByZero \/ subExit = 2

(***************************************************************************)
(* The Rust engine starts a subprocess, or moves on, only after the        *)
(* previous subprocess has ended and its exit status was a success.        *)
(***************************************************************************)
QueriesSequential ==
  [][(rpc = "dispatch" /\ rpc' = "send") \/ (rpc = "report" /\ step' # step)
       => subExit \in {0, NoSub}]_vars

\* The processes stay well typed, agree on whose turn it is and on which have ended, and
\* the subprocesses come one after the other.
ConversationOK == [](TypeOK /\ RepliesMatch /\ CleanRun) /\ QueriesSequential

(***************************************************************************)
(* --stats "prints statistics about how many items have been translated    *)
(* successfully by the engine": a run without fault in which no subprocess *)
(* fails does not panic.                                                   *)
(***************************************************************************)
StatsPrinted == ~faulted /\ subExit \in {NoSub, Running, 0} => result # "panic"

(***************************************************************************)
(* run_engine comes to an end, and no process outlives it: neither the     *)
(* Rust engine nor the OCaml subprocess, orphaned or not.                  *)
(***************************************************************************)
EveryProcessEnds == <>(result # "none") /\ <>[](exitCode # Running /\ subExit # Running)

Promise == INSTANCE Extraction WITH
  Message <- FromEngine, outputs <- fromEngine, shown <- cread, verdict <- error,
  complete <- exitCode = 0, outcome <- result

\* Whatever the engine does, a run of run_engine is a run of the promise: messages are
\* acted upon in order, and it returns only once all of a finished engine's output is.
ImplementsExtraction == Promise!Spec
=============================================================================
