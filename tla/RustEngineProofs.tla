--------------------------- MODULE RustEngineProofs ---------------------------
(***************************************************************************)
(* Proofs about a run of cargo-hax with the Rust engine and its OCaml      *)
(* subprocesses, for every plan, every set of items, diagnostics and       *)
(* files, every bound and every fault.                                     *)
(***************************************************************************)
EXTENDS RustEngine, TLAPS

(***************************************************************************)
(* The first part of the inductive invariant: which process runs, and what *)
(* it has left behind.  A query is under way from Spawn to ReportDone.     *)
(***************************************************************************)
InQuery == rpc \in {"send", "proxy", "relay", "wait", "report"}

Lifetimes ==
  /\ rpc = "dead" <=> exitCode # Running
  /\ result # "none" <=> pc = "done"
  /\ result = "returned" => exitCode = 0
  /\ spc = "dead" <=> subExit # Running
  /\ rpc \in {"load", "dispatch", "report", "files"} \/ exitCode = 0 => subExit \in {NoSub, 0}
  /\ InQuery \/ spc # "dead" => step <= Len(plan) /\ plan[step] \in QueryKind
  /\ rpc = "files" \/ exitCode = 0 => step > Len(plan)
  /\ rpc \notin {"report", "files", "panic", "dead"} \/ exitCode = 0 => queue = << >>

-----------------------------------------------------------------------------
(***************************************************************************)
(* Types.                                                                  *)
(***************************************************************************)
LEMMA IncomingType ==
  ASSUME RunTypeOK, NEW K, Receive(K)
  PROVE  Incoming \in FromEngine /\ Incoming.kind \in K /\ cread' \in 0..Len(fromEngine')
BY DEF RunTypeOK, Receive, Incoming

LEMMA CollectType ==
  ASSUME RunTypeOK, NEW m \in FromEngine
  PROVE  Collect(m) \in Seq(FromEngine)
BY DEF RunTypeOK, Collect

LEMMA BumpType ==
  ASSUME RunTypeOK, NEW i \in Item \cup {NoOwner}
  PROVE  LET c == Bump(errorsPerItem, i) IN
         DOMAIN c \subseteq Item /\ c \in [DOMAIN c -> Nat]
BY DEF RunTypeOK, Bump

LEMMA PutType ==
  ASSUME RunTypeOK, NEW m \in FromEngine, Put(m)
  PROVE  RunTypeOK'
BY DEF RunTypeOK, Put, clientVars

LEMMA GetType ==
  ASSUME RunTypeOK, Get
  PROVE  RunTypeOK'
BY DEF RunTypeOK, Get, StdinReady, clientVars

LEMMA ExitType ==
  ASSUME RunTypeOK, NEW c \in Nat, ExitWith(c)
  PROVE  RunTypeOK'
BY DEF RunTypeOK, ExitWith, clientVars

LEMMA ClientTypeStep ==
  ASSUME RunTypeOK, ClientNext \/ ClientDies
  PROVE  RunTypeOK'
<1>1. CASE SendInput
  BY <1>1 DEF SendInput, Send, RunTypeOK, ToEngine
<1>2. CASE SendReply
  BY <1>2 DEF SendReply, Send, RunTypeOK, ToEngine, ReplyTo, RequestKind, ReplyKind
<1>3. CASE SendBroken \/ ClientDies
  BY <1>3 DEF SendBroken, ClientDies, Panic, pipeVars, RunTypeOK
<1>4. CASE OnDiagnostic
  <2>1. Incoming \in FromEngine /\ Incoming.kind = "Diagnostic" /\ cread' \in 0..Len(fromEngine')
    BY <1>4, IncomingType DEF OnDiagnostic
  <2>2. Incoming.diag \in Diag
    BY <2>1 DEF FromEngine, PlainKind, RequestKind
  <2>3. DOMAIN errorsPerItem' \subseteq Item /\ errorsPerItem' \in [DOMAIN errorsPerItem' -> Nat]
    BY <1>4, <2>2, BumpType, OwnerAssumption DEF OnDiagnostic
  <2> QED
    BY <1>4, <2>1, <2>2, <2>3, CollectType DEF OnDiagnostic, Receive, RunTypeOK
<1>5. CASE OnFile
  <2>1. Incoming \in FromEngine /\ Incoming.kind = "File" /\ cread' \in 0..Len(fromEngine')
    BY <1>5, IncomingType DEF OnFile
  <2>2. Incoming.file \in File
    BY <2>1 DEF FromEngine, PlainKind, RequestKind
  <2>3. disk' \in [Path -> Contents \cup {Absent}]
    BY <1>5, <2>2 DEF OnFile, Written, File, RunTypeOK
  <2> QED
    BY <1>5, <2>1, <2>3, CollectType DEF OnFile, Receive, RunTypeOK
<1>6. CASE OnItemProcessed
  <2>1. Incoming \in FromEngine /\ Incoming.kind = "ItemProcessed" /\ cread' \in 0..Len(fromEngine')
    BY <1>6, IncomingType DEF OnItemProcessed
  <2>2. Incoming.items \subseteq Item
    BY <2>1 DEF FromEngine, PlainKind, RequestKind
  <2>3. DOMAIN errorsPerItem' \subseteq Item /\ errorsPerItem' \in [DOMAIN errorsPerItem' -> Nat]
    BY <1>6, <2>2 DEF OnItemProcessed, RunTypeOK
  <2> QED
    BY <1>6, <2>1, <2>3 DEF OnItemProcessed, Receive, RunTypeOK
<1>7. CASE OnDebugString
  BY <1>7, IncomingType DEF OnDebugString, Receive, RunTypeOK
<1>8. CASE OnProfilingData
  BY <1>8, IncomingType DEF OnProfilingData, Receive, RunTypeOK, clientVars
<1>9. CASE OnRequest
  BY <1>9, IncomingType DEF OnRequest, Receive, RunTypeOK
<1>10. CASE OnGarbage
  BY <1>10, IncomingType DEF OnGarbage, Panic, Receive, RunTypeOK
<1>11. CASE OnExit
  BY <1>11, IncomingType DEF OnExit, LeaveLoop, Panic, Receive, RunTypeOK
<1>12. CASE OnEof
  BY <1>12 DEF OnEof, LeaveLoop, Panic, RunTypeOK, pipeVars
<1>13. CASE Wait
  BY <1>13 DEF Wait, Outcome, RunTypeOK, pipeVars
<1> QED
  BY <1>1, <1>2, <1>3, <1>4, <1>5, <1>6, <1>7, <1>8, <1>9, <1>10, <1>11, <1>12, <1>13
     DEF ClientNext

\* What a plan is made of.
LEMMA PlanTypes ==
  ASSUME TypeOK
  PROVE  /\ plan \in Seq(QueryKind \cup {"Native"}) /\ plan # << >> /\ Len(plan) \in Nat /\ step \in Nat
         /\ \A k \in 1..Len(plan) : plan[k] \in QueryKind \cup {"Native"} /\ (plan[k] = "Print" => k = Len(plan))
BY PlansAssumption DEF TypeOK

\* What the engine may say, and the lists it chooses from.
LEMMA MessageTypes ==
  /\ \A k \in PlainKind : Plain(k) \in FromEngine /\ Plain(k) \in FromSub /\ Plain(k).kind = k
  /\ \A i \in SUBSET Item : ItemProcessedMsg(i) \in FromEngine /\ ItemProcessedMsg(i) \in FromSub
  /\ \A d \in Diag : DiagnosticMsg(d) \in FromEngine
  /\ ReportLists \subseteq Seq(Diag)
  /\ FileLists \subseteq Seq(File)
<1>1. \A n, S : BoundedSeq(S, n) \subseteq Seq(S)
  BY DEF BoundedSeq, SeqOf
<1> QED
  BY <1>1 DEF FromEngine, FromSub, Plain, ItemProcessedMsg, DiagnosticMsg, ReportLists, FileLists

LEMMA QueueTypes ==
  /\ \A fs \in Seq(File) : FileMsgs(fs) \in Seq(FromEngine)
  /\ \A ds \in Seq(Diag) : DiagnosticMsgs(ds) \in Seq(FromEngine)
BY DEF FileMsgs, DiagnosticMsgs, FileMsg, DiagnosticMsg, FromEngine

\* The two parts of a concatenation.
LEMMA Concat ==
  ASSUME NEW s \in Seq(FromSub), NEW t \in Seq(FromSub), NEW c, c = s \o t
  PROVE  /\ c \in Seq(FromSub)
         /\ Len(c) = Len(s) + Len(t)
         /\ \A k \in 1..Len(c) :
              \/ k \in 1..Len(s) /\ c[k] = s[k]
              \/ k - Len(s) \in 1..Len(t) /\ c[k] = t[k - Len(s)]
  OBVIOUS

\* The answer of a query: files, debug strings, the response and Exit, one after the other.
LEMMA AnswerParts ==
  ASSUME NEW files \in Seq(File), NEW diags \in Seq(Diag), NEW debug \in Nat,
         NEW a, a = Answer(files, diags, debug), NEW ds, ds = IF Query = "Print" THEN << >> ELSE diags
  PROVE  /\ a \in Seq(FromSub)
         /\ Len(a) = Len(files) + debug + 2
         /\ \A k \in 1..Len(a) :
              \/ k \in 1..Len(files) /\ a[k] = FileMsg(files[k])
              \/ a[k] = Plain("DebugString")
              \/ k = Len(a) - 1 /\ a[k] = [kind |-> "Response", diags |-> ds]
              \/ k = Len(a) /\ a[k] = Plain("Exit")
         /\ \E k \in 1..Len(a) : a[k].kind = "Response"
<1>1. PICK F : F = FileMsgs(files)
  OBVIOUS
<1>2. PICK B : B = [i \in 1..debug |-> Plain("DebugString")]
  OBVIOUS
<1>3. PICK r : r = [kind |-> "Response", diags |-> ds]
  OBVIOUS
<1>4. PICK e : e = Plain("Exit")
  OBVIOUS
<1>5. PICK E : E = <<r, e>>
  OBVIOUS
<1>6. PICK b : b = F \o B
  OBVIOUS
<1>7. a = b \o E
  BY <1>1, <1>2, <1>3, <1>4, <1>5, <1>6 DEF Answer
<1>8. ds \in Seq(Diag) /\ r \in FromSub /\ e \in FromSub
  BY <1>3, <1>4, MessageTypes DEF FromSub, PlainKind
<1>9. F \in Seq(FromSub) /\ Len(F) = Len(files) /\ \A k \in 1..Len(F) : F[k] = FileMsg(files[k])
  BY <1>1 DEF FileMsgs, FileMsg, FromEngine, FromSub
<1>10. B \in Seq(FromSub) /\ Len(B) = debug /\ \A k \in 1..Len(B) : B[k] = Plain("DebugString")
  BY <1>2, MessageTypes DEF PlainKind
<1>11. E \in Seq(FromSub) /\ Len(E) = 2 /\ E[1] = r /\ E[2] = e
  BY <1>5, <1>8
<1>12. /\ b \in Seq(FromSub) /\ Len(b) = Len(F) + Len(B)
       /\ \A k \in 1..Len(b) : \/ k \in 1..Len(F) /\ b[k] = F[k]
                               \/ k - Len(F) \in 1..Len(B) /\ b[k] = B[k - Len(F)]
  BY <1>6, <1>9, <1>10, Concat
<1>13. /\ a \in Seq(FromSub) /\ Len(a) = Len(b) + Len(E)
       /\ \A k \in 1..Len(a) : \/ k \in 1..Len(b) /\ a[k] = b[k]
                               \/ k - Len(b) \in 1..Len(E) /\ a[k] = E[k - Len(b)]
  <2>1. E \in Seq(FromSub)
    BY <1>11
  <2>2. b \in Seq(FromSub)
    BY <1>12
  <2> QED
    BY <1>7, <2>1, <2>2, Concat
<1>14. Len(files) \in Nat /\ Len(b) \in Nat /\ Len(a) = Len(b) + 2 /\ Len(a) = Len(files) + debug + 2
  BY <1>9, <1>10, <1>11, <1>12, <1>13
<1>15. ASSUME NEW k \in 1..Len(a)
       PROVE  \/ k \in 1..Len(files) /\ a[k] = FileMsg(files[k])
              \/ a[k] = Plain("DebugString")
              \/ k = Len(a) - 1 /\ a[k] = r
              \/ k = Len(a) /\ a[k] = e
  <2>1. CASE k \in 1..Len(b) /\ a[k] = b[k]
    <3>1. CASE k \in 1..Len(F) /\ b[k] = F[k]
      BY <1>9, <2>1, <3>1
    <3>2. CASE k - Len(F) \in 1..Len(B) /\ b[k] = B[k - Len(F)]
      BY <1>10, <2>1, <3>2
    <3> QED  BY <1>12, <2>1, <3>1, <3>2
  <2>2. CASE k - Len(b) \in 1..Len(E) /\ a[k] = E[k - Len(b)]
    <3>1. CASE k - Len(b) = 1
      BY <1>11, <1>14, <2>2, <3>1
    <3>2. CASE k - Len(b) = 2
      BY <1>11, <1>14, <2>2, <3>2
    <3> QED  BY <1>11, <1>14, <2>2, <3>1, <3>2
  <2> QED  BY <1>13, <2>1, <2>2
<1>16. \E k \in 1..Len(a) : a[k].kind = "Response"
  <2>1. Len(a) - 1 \in 1..Len(a)
    BY <1>14
  <2>2. a[Len(a) - 1] = r
    <3>1. Len(b) + 1 \in 1..Len(a) /\ ~(Len(b) + 1 \in 1..Len(b)) /\ Len(b) + 1 - Len(b) = 1
      BY <1>14
    <3>2. a[Len(b) + 1] = E[Len(b) + 1 - Len(b)]
      BY <1>13, <3>1
    <3> QED  BY <1>11, <1>14, <3>1, <3>2
  <2> QED  BY <1>3, <2>1, <2>2
<1> QED
  BY <1>3, <1>4, <1>13, <1>14, <1>15, <1>16

\* The parts of the type invariant, one for each group of variables.
RustTypeOK ==
  /\ rpc \in {"load", "dispatch", "send", "proxy", "relay", "wait", "report", "files",
              "panic", "dead"}
  /\ step \in 1..Len(plan) + 1
  /\ response \in Seq(Seq(Diag)) /\ Len(response) <= 1
  /\ queue \in Seq(FromEngine)
SubPipesOK ==
  /\ toSub \in Seq(ToEngine) /\ sread \in 0..Len(toSub)
  /\ fromSub \in Seq(FromSub) /\ rread \in 0..Len(fromSub)
  /\ subExit \in Nat \cup {Running, NoSub}
SubVarsOK ==
  /\ spc \in {"load", "import", "work", "await", "answer", "crash", "dead"}
  /\ sasked \in RequestKind
  /\ squeue \in Seq(FromSub)
  /\ talk \in Nat
  /\ state \in Seq(Diag)
RaisedOK == raised \subseteq (QueryKind \cup {"Native"}) \X Diag

LEMMA TypeParts ==
  /\ TypeOK <=> RunTypeOK /\ plan \in Plans /\ RustTypeOK /\ SubPipesOK /\ SubVarsOK /\ faulted \in BOOLEAN /\ RaisedOK
  /\ TypeOK' <=> RunTypeOK' /\ plan' \in Plans /\ RustTypeOK' /\ SubPipesOK' /\ SubVarsOK' /\ faulted' \in BOOLEAN /\ RaisedOK'
BY DEF TypeOK, RustTypeOK, SubPipesOK, SubVarsOK, RaisedOK

\* What leaves a part of the variables alone keeps its types.
LEMMA FrameTypes ==
  /\ RunTypeOK /\ UNCHANGED runVars => RunTypeOK'
  /\ RustTypeOK /\ UNCHANGED <<rustVars, plan>> => RustTypeOK'
  /\ SubPipesOK /\ UNCHANGED subPipes => SubPipesOK'
  /\ SubVarsOK /\ UNCHANGED subVars => SubVarsOK'
  /\ RaisedOK /\ UNCHANGED raised => RaisedOK'
<1>1. RunTypeOK /\ UNCHANGED runVars => RunTypeOK'
  BY DEF RunTypeOK, runVars, clientVars, pipeVars
<1>2. RustTypeOK /\ UNCHANGED <<rustVars, plan>> => RustTypeOK'
  BY DEF RustTypeOK, rustVars
<1>3. SubPipesOK /\ UNCHANGED subPipes => SubPipesOK'
  BY DEF SubPipesOK, subPipes
<1>4. SubVarsOK /\ UNCHANGED subVars => SubVarsOK'
  BY DEF SubVarsOK, subVars
<1> QED
  BY <1>1, <1>2, <1>3, <1>4 DEF RaisedOK

\* The two pipes of a subprocess.
LEMMA SubPutType ==
  ASSUME SubPipesOK, NEW m \in FromSub, SubPut(m)
  PROVE  SubPipesOK'
BY DEF SubPipesOK, SubPut

LEMMA SubGetType ==
  ASSUME SubPipesOK, SubGet
  PROVE  SubPipesOK'
BY DEF SubPipesOK, SubGet, SubStdinReady

LEMMA SendToSubType ==
  ASSUME SubPipesOK, NEW m \in ToEngine, SendToSub(m)
  PROVE  SubPipesOK'
BY DEF SubPipesOK, SendToSub

LEMMA SubExitType ==
  ASSUME SubPipesOK, NEW c \in Nat, SubExitWith(c)
  PROVE  SubPipesOK'
BY DEF SubPipesOK, SubExitWith

LEMMA TakeType ==
  ASSUME SubPipesOK, NEW K, TakeFromSub(K)
  PROVE  SubMsg \in FromSub /\ SubMsg.kind \in K /\ SubPipesOK'
BY DEF SubPipesOK, TakeFromSub, SubMsg

LEMMA SubMsgTypes ==
  ASSUME NEW m \in FromSub
  PROVE  /\ m.kind \in Proxied => m \in FromEngine /\ m.kind \notin {"Diagnostic", "Response", "Exit", "Garbage"}
         /\ m.kind = "Response" => m.diags \in Seq(Diag)
         /\ m.kind = "File" => m.file \in File
BY DEF FromSub, FromEngine, PlainKind, RequestKind, Proxied

-----------------------------------------------------------------------------
(***************************************************************************)
(* Every variable keeps its type.                                          *)
(***************************************************************************)
LEMMA RustTypeStep ==
  ASSUME TypeOK, Lifetimes, Rust
  PROVE  TypeOK'
<1>0. /\ RunTypeOK /\ plan \in Plans /\ RustTypeOK /\ SubPipesOK /\ SubVarsOK /\ RaisedOK
      /\ plan' = plan /\ faulted' = faulted /\ faulted \in BOOLEAN
  BY TypeParts DEF Rust
<1>1. /\ step \in Nat /\ Len(plan) \in Nat
      /\ \A k \in 1..Len(plan) : plan[k] \in QueryKind \cup {"Native"}
  BY PlanTypes
<1> USE DEF rustVars
<1>2. CASE ReadEngineInput
  <2>1. RunTypeOK'
    BY <1>0, <1>2, GetType DEF ReadEngineInput
  <2>2. RustTypeOK'
    BY <1>0, <1>2 DEF ReadEngineInput, RustTypeOK
  <2> QED  BY <1>0, <1>2, <2>1, <2>2, FrameTypes, TypeParts DEF ReadEngineInput
<1>3. CASE ReadInputEof \/ WriteBroken \/ SendToSubBroken
  <2>1. RustTypeOK'
    BY <1>0, <1>3 DEF ReadInputEof, WriteBroken, SendToSubBroken, RustPanic, RustTypeOK
  <2> QED
    BY <1>0, <1>3, <2>1, FrameTypes, TypeParts DEF ReadInputEof, WriteBroken, SendToSubBroken
<1>4. CASE NativeReport
  <2>1. PICK d \in Diag : Put(DiagnosticMsg(d)) /\ raised' = raised \cup {<<"Native", d>>}
    BY <1>4 DEF NativeReport
  <2>2. RunTypeOK' /\ RaisedOK'
    BY <1>0, <2>1, PutType, MessageTypes DEF Put, RaisedOK
  <2> QED  BY <1>0, <1>4, <2>2, FrameTypes, TypeParts DEF NativeReport
<1>5. CASE NativeDone \/ ReportDone
  <2>1. RustTypeOK'
    BY <1>0, <1>1, <1>5 DEF NativeDone, ReportDone, RustTypeOK, Lifetimes, InQuery
  <2> QED  BY <1>0, <1>5, <2>1, FrameTypes, TypeParts DEF NativeDone, ReportDone
<1>6. CASE Printed
  <2>1. queue' \in Seq(FromEngine)
    <3>1. CASE queue' = << >>
      BY <3>1
    <3>2. CASE \E fs \in FileLists : queue' = FileMsgs(fs)
      BY <3>2, MessageTypes, QueueTypes
    <3> QED  BY <1>6, <3>1, <3>2 DEF Printed
  <2>2. RustTypeOK'
    BY <1>0, <1>6, <2>1 DEF Printed, RustTypeOK
  <2> QED  BY <1>0, <1>6, <2>2, FrameTypes, TypeParts DEF Printed
<1>7. CASE WriteQueued
  <2>1. Head(queue) \in FromEngine /\ Tail(queue) \in Seq(FromEngine)
    BY <1>0, <1>7 DEF WriteQueued, RustTypeOK
  <2>2. RunTypeOK'
    BY <1>0, <1>7, <2>1, PutType DEF WriteQueued, Put
  <2>3. RustTypeOK'
    BY <1>0, <1>7, <2>1 DEF WriteQueued, RustTypeOK
  <2> QED  BY <1>0, <1>7, <2>2, <2>3, FrameTypes, TypeParts DEF WriteQueued
<1>8. CASE ReturnFromMain \/ RustDies
  <2>1. RunTypeOK'
    BY <1>0, <1>8, ExitType DEF ReturnFromMain, RustDies
  <2>2. RustTypeOK'
    BY <1>0, <1>8 DEF ReturnFromMain, RustDies, RustTypeOK
  <2> QED  BY <1>0, <1>8, <2>1, <2>2, FrameTypes, TypeParts DEF ReturnFromMain, RustDies
<1>9. CASE Spawn
  <2>1. RustTypeOK' /\ SubPipesOK' /\ SubVarsOK'
    BY <1>0, <1>9 DEF Spawn, RustTypeOK, SubPipesOK, SubVarsOK, NoResponse
  <2> QED  BY <1>0, <1>9, <2>1, FrameTypes, TypeParts DEF Spawn
<1>10. CASE SendQuery
  <2>1. RustTypeOK' /\ SubPipesOK'
    BY <1>0, <1>10, SendToSubType DEF SendQuery, RustTypeOK, ToEngine
  <2> QED  BY <1>0, <1>10, <2>1, FrameTypes, TypeParts DEF SendQuery
<1>11. CASE OnResponse
  <2>1. SubMsg \in FromSub /\ SubMsg.kind \in {"Response"} /\ SubPipesOK'
    BY <1>0, <1>11, TakeType DEF OnResponse
  <2>2. SubMsg.diags \in Seq(Diag)
    BY <2>1, SubMsgTypes
  <2>3. RustTypeOK'
    BY <1>0, <1>11, <2>2 DEF OnResponse, RustTypeOK
  <2> QED  BY <1>0, <1>11, <2>1, <2>3, FrameTypes, TypeParts DEF OnResponse
<1>12. CASE OnSubGarbage \/ OnSubExit
  <2>1. SubPipesOK'
    BY <1>0, <1>12, TakeType DEF OnSubGarbage, OnSubExit
  <2>2. RustTypeOK'
    BY <1>0, <1>12 DEF OnSubGarbage, OnSubExit, RustPanic, RustTypeOK
  <2> QED  BY <1>0, <1>12, <2>1, <2>2, FrameTypes, TypeParts DEF OnSubGarbage, OnSubExit
<1>13. CASE OnSubEof
  <2>1. RustTypeOK'
    BY <1>0, <1>13 DEF OnSubEof, RustTypeOK
  <2> QED  BY <1>0, <1>13, <2>1, FrameTypes, TypeParts DEF OnSubEof
<1>14. CASE Proxy
  <2>1. SubMsg \in FromSub /\ SubMsg.kind \in Proxied /\ SubPipesOK'
    BY <1>0, <1>14, TakeType DEF Proxy
  <2>2. RunTypeOK'
    BY <1>0, <1>14, <2>1, SubMsgTypes, PutType DEF Proxy, Put
  <2>3. RustTypeOK'
    BY <1>0, <1>14 DEF Proxy, RustTypeOK
  <2> QED  BY <1>0, <1>14, <2>1, <2>2, <2>3, FrameTypes, TypeParts DEF Proxy
<1>15. CASE Relay
  <2>1. toEngine[eread + 1] \in ToEngine
    BY <1>0, <1>15 DEF Relay, Get, StdinReady, RunTypeOK
  <2>2. RunTypeOK' /\ SubPipesOK'
    BY <1>0, <1>15, <2>1, GetType, SendToSubType DEF Relay
  <2>3. RustTypeOK'
    BY <1>0, <1>15 DEF Relay, RustTypeOK
  <2> QED  BY <1>0, <1>15, <2>2, <2>3, FrameTypes, TypeParts DEF Relay
<1>16. CASE WaitSub
  <2>1. CASE Succeeded
    <3>1. response[1] \in Seq(Diag)
      BY <1>0, <2>1 DEF Succeeded, NoResponse, RustTypeOK
    <3>2. queue' \in Seq(FromEngine)
      BY <1>16, <2>1, <3>1, QueueTypes DEF WaitSub
    <3> QED  BY <1>0, <1>16, <2>1, <3>2, FrameTypes, TypeParts DEF WaitSub, RustTypeOK
  <2>2. CASE ~Succeeded
    <3>1. RustTypeOK'
      BY <1>0, <1>16, <2>2 DEF WaitSub, RustPanic, RustTypeOK
    <3> QED  BY <1>0, <1>16, <3>1, FrameTypes, TypeParts DEF WaitSub
  <2> QED  BY <2>1, <2>2
<1> QED
  BY <1>2, <1>3, <1>4, <1>5, <1>6, <1>7, <1>8, <1>9, <1>10, <1>11, <1>12, <1>13, <1>14, <1>15,
     <1>16 DEF Rust

LEMMA SubTypeStep ==
  ASSUME TypeOK, Lifetimes, Sub \/ SubRaisesException \/ SubDebugPrint \/ SubKilled,
         UNCHANGED plan, faulted' \in BOOLEAN
  PROVE  TypeOK'
<1>0. RunTypeOK /\ plan \in Plans /\ RustTypeOK /\ SubPipesOK /\ SubVarsOK /\ RaisedOK
  BY TypeParts
<1>1. Len(plan) \in Nat /\ (spc # "dead" => step \in 1..Len(plan) /\ Query \in QueryKind)
  BY PlanTypes DEF Lifetimes, TypeOK, Query
<1>2. UNCHANGED runVars /\ RunTypeOK' /\ UNCHANGED rustVars /\ RustTypeOK'
  BY <1>0, FrameTypes DEF Sub, SubLoad, SubReadEof, SubImport, SubImportFatal, SubReport, SubFatal, SubProfile,
     SubRequest, SubTalk, SubReadReply, SubFinish, SubAnswer, SubReturns, SubBroken, SubDies,
     SubRaisesException, SubDebugPrint, SubKilled
<1>3. ASSUME SubPipesOK', SubVarsOK', RaisedOK'  PROVE TypeOK'
  BY <1>0, <1>2, <1>3, TypeParts
<1>4. \A ds \in Seq(Diag) : Raise(ds) /\ spc # "dead" => RaisedOK'
  BY <1>0, <1>1 DEF Raise, RaisedOK
<1>5. \A files \in Seq(File), diags \in Seq(Diag), debug \in 0..MaxDebug : Answer(files, diags, debug) \in Seq(FromSub)
  <2> SUFFICES ASSUME NEW files \in Seq(File), NEW diags \in Seq(Diag), NEW debug \in 0..MaxDebug
               PROVE  Answer(files, diags, debug) \in Seq(FromSub)
    OBVIOUS
  <2>1. PICK a : a = Answer(files, diags, debug)
    OBVIOUS
  <2>2. PICK ds : ds = IF Query = "Print" THEN << >> ELSE diags
    OBVIOUS
  <2>3. debug \in Nat
    BY BoundsAssumption
  <2> QED  BY <2>1, <2>2, <2>3, AnswerParts
<1>6. << >> \in Seq(File)
  OBVIOUS
<1>7. CASE SubLoad \/ SubReadReply
  <2>1. SubPipesOK'
    BY <1>0, <1>7, SubGetType DEF SubLoad, SubReadReply
  <2>2. SubVarsOK'
    BY <1>0, <1>7 DEF SubLoad, SubReadReply, SubVarsOK
  <2> QED  BY <1>0, <1>3, <1>7, <2>1, <2>2, FrameTypes DEF SubLoad, SubReadReply
<1>8. CASE SubReadEof \/ SubBroken \/ SubRaisesException
  <2>1. SubVarsOK'
    BY <1>0, <1>8 DEF SubReadEof, SubBroken, SubRaisesException, SubCrash, SubVarsOK
  <2> QED  BY <1>0, <1>3, <1>8, <2>1, FrameTypes DEF SubReadEof, SubBroken, SubRaisesException
<1>9. CASE SubImport
  <2>1. SubPipesOK'
    BY <1>0, <1>9, SubPutType, MessageTypes DEF SubImport
  <2>2. state' \in Seq(Diag) /\ spc # "dead"
    BY <1>9, MessageTypes DEF SubImport
  <2>3. squeue' \in Seq(FromSub) /\ RaisedOK'
    BY <1>4, <1>5, <1>6, <1>9, <2>2 DEF SubImport
  <2>4. SubVarsOK'
    BY <1>0, <1>9, <2>2, <2>3 DEF SubImport, SubVarsOK
  <2> QED  BY <1>3, <2>1, <2>3, <2>4
<1>10. CASE SubImportFatal
  <2>2. state' \in Seq(Diag) /\ spc # "dead"
    BY <1>10 DEF SubImportFatal
  <2>3. squeue' \in Seq(FromSub) /\ RaisedOK'
    BY <1>4, <1>5, <1>6, <1>10, <2>2 DEF SubImportFatal
  <2>4. SubVarsOK'
    BY <1>0, <1>10, <2>2, <2>3 DEF SubImportFatal, SubVarsOK
  <2> QED  BY <1>0, <1>3, <1>10, <2>3, <2>4, FrameTypes DEF SubImportFatal
<1>11. CASE SubReport \/ SubFatal
  <2>1. state' \in Seq(Diag) /\ spc # "dead"
    BY <1>0, <1>11 DEF SubReport, SubFatal, SubVarsOK
  <2>2. SubVarsOK'
    BY <1>0, <1>11, <2>1 DEF SubReport, SubFatal, SubVarsOK
  <2>3. RaisedOK'
    BY <1>4, <1>11, <2>1 DEF SubReport, SubFatal
  <2> QED  BY <1>0, <1>3, <1>11, <2>2, <2>3, FrameTypes DEF SubReport, SubFatal
<1>12. CASE SubProfile \/ SubRequest \/ SubDebugPrint
  <2>1. PICK k \in PlainKind, next \in {"work", "await"} : SubTalk(Plain(k), next) /\ sasked' \in RequestKind
    BY <1>0, <1>12 DEF SubProfile, SubRequest, SubDebugPrint, PlainKind, SubVarsOK
  <2>2. SubPipesOK'
    BY <1>0, <2>1, SubPutType, MessageTypes DEF SubTalk
  <2>3. SubVarsOK'
    BY <1>0, <2>1 DEF SubTalk, SubVarsOK
  <2> QED  BY <1>0, <1>3, <2>1, <2>2, <2>3, FrameTypes DEF SubTalk
<1>13. CASE SubFinish
  <2>1. squeue' \in Seq(FromSub)
    BY <1>0, <1>5, <1>6, <1>13, MessageTypes DEF SubFinish, SubVarsOK
  <2>2. SubVarsOK'
    BY <1>0, <1>13, <2>1 DEF SubFinish, SubVarsOK
  <2> QED  BY <1>0, <1>3, <1>13, <2>2, FrameTypes DEF SubFinish
<1>14. CASE SubAnswer
  <2>1. Head(squeue) \in FromSub /\ Tail(squeue) \in Seq(FromSub)
    BY <1>0, <1>14 DEF SubAnswer, SubVarsOK
  <2>2. SubPipesOK'
    BY <1>0, <1>14, <2>1, SubPutType DEF SubAnswer
  <2>3. SubVarsOK'
    BY <1>0, <1>14, <2>1 DEF SubAnswer, SubVarsOK
  <2> QED  BY <1>0, <1>3, <1>14, <2>2, <2>3, FrameTypes DEF SubAnswer
<1>15. CASE SubReturns \/ SubDies \/ SubKilled
  <2>1. SubPipesOK'
    BY <1>0, <1>15, SubExitType DEF SubReturns, SubDies, SubKilled
  <2>2. SubVarsOK'
    BY <1>0, <1>15 DEF SubReturns, SubDies, SubKilled, SubExitWith, SubVarsOK
  <2> QED  BY <1>0, <1>3, <1>15, <2>1, <2>2, FrameTypes DEF SubReturns, SubDies, SubKilled
<1> QED
  BY <1>7, <1>8, <1>9, <1>10, <1>11, <1>12, <1>13, <1>14, <1>15 DEF Sub

LEMMA TypeStep ==
  ASSUME TypeOK, Lifetimes, [Next]_vars
  PROVE  TypeOK'
<1>0. RunTypeOK /\ plan \in Plans /\ RustTypeOK /\ SubPipesOK /\ SubVarsOK /\ faulted \in BOOLEAN /\ RaisedOK
  BY TypeParts
<1>1. CASE Client \/ (Fault /\ KillClient)
  <2>1. RunTypeOK' /\ UNCHANGED <<plan, rustVars, subPipes, subVars, raised>> /\ faulted' \in BOOLEAN
    BY <1>0, <1>1, ClientTypeStep DEF Client, Fault, KillClient
  <2> QED  BY <1>0, <2>1, FrameTypes, TypeParts
<1>2. CASE Fault /\ RustKilled
  <2>1. RunTypeOK'
    BY <1>0, <1>2, ExitType DEF RustKilled
  <2>2. RustTypeOK'
    BY <1>0, <1>2 DEF RustKilled, Fault, RustTypeOK
  <2> QED  BY <1>0, <1>2, <2>1, <2>2, FrameTypes, TypeParts DEF RustKilled, Fault
<1>3. CASE Sub \/ (Fault /\ (SubRaisesException \/ SubDebugPrint \/ SubKilled))
  <2>1. UNCHANGED plan /\ faulted' \in BOOLEAN
    BY <1>0, <1>3 DEF Sub, Fault
  <2> QED  BY <1>3, <2>1, SubTypeStep
<1>4. CASE UNCHANGED vars
  BY <1>0, <1>4, FrameTypes, TypeParts DEF vars
<1> QED
  BY <1>1, <1>2, <1>3, <1>4, RustTypeStep DEF Next, Fault, Terminated

-----------------------------------------------------------------------------
(***************************************************************************)
(* Lifetimes is kept: a subprocess lives only while its query is under     *)
(* way or the Rust engine has failed, and the exit code 0 of the Rust      *)
(* engine means that the whole plan was carried out.                       *)
(***************************************************************************)
LEMMA NextCases ==
  ASSUME [Next]_vars
  PROVE  \/ Client \/ (Fault /\ KillClient)
         \/ Rust \/ (Fault /\ RustKilled)
         \/ Sub \/ (Fault /\ (SubRaisesException \/ SubDebugPrint \/ SubKilled))
         \/ UNCHANGED vars
BY DEF Next, Fault, Terminated

LEMMA ClientFrame ==
  ASSUME Client \/ (Fault /\ KillClient)
  PROVE  UNCHANGED <<fromEngine, exitCode, eread, plan, rustVars, subPipes, subVars, raised>>
BY DEF Client, ClientNext, SendInput, SendReply, Send, SendBroken, pipeVars,
       OnDiagnostic, OnFile, OnItemProcessed, OnDebugString, OnProfilingData, OnRequest,
       OnGarbage, OnExit, OnEof, Wait, Receive, Fault, KillClient, ClientDies

LEMMA ClientLifetimes ==
  ASSUME TypeOK, Lifetimes, Client \/ (Fault /\ KillClient)
  PROVE  Lifetimes'
<1>1. UNCHANGED <<exitCode, plan, rpc, step, queue, spc, subExit>>
  BY ClientFrame DEF rustVars, subPipes, subVars
<1>2. /\ result # "none" <=> pc = "done"
      /\ result = "returned" => exitCode = 0
  BY DEF Lifetimes
<1>3. /\ result' # "none" <=> pc' = "done"
      /\ result' = "returned" => exitCode' = 0
  BY <1>1, <1>2 DEF Client, ClientNext, SendInput, SendReply, Send, SendBroken,
     OnDiagnostic, OnFile, OnItemProcessed, OnDebugString, OnProfilingData, OnRequest,
     OnGarbage, OnExit, OnEof, LeaveLoop, Wait, Receive, Outcome, Panic, pipeVars, clientVars,
     Fault, KillClient, ClientDies
<1> QED
  BY <1>1, <1>3 DEF Lifetimes, InQuery

LEMMA RustLifetimes ==
  ASSUME TypeOK, Lifetimes, Rust \/ (Fault /\ RustKilled)
  PROVE  Lifetimes'
<1>0. /\ step \in Nat /\ Len(plan) \in Nat /\ plan' = plan
      /\ \A k \in 1..Len(plan) : plan[k] \in QueryKind \cup {"Native"}
      /\ subExit \in Nat \cup {Running, NoSub} /\ queue \in Seq(FromEngine)
      /\ Running # 0 /\ NoSub # 0 /\ Running # NoSub
  BY PlanTypes DEF Rust, Fault, TypeOK, Running, NoSub
<1>1. UNCHANGED <<pc, result>>
  BY DEF Rust, Fault, RustKilled, ReadEngineInput, ReadInputEof, WriteBroken, NativeReport, NativeDone, Printed,
     WriteQueued, ReportDone, ReturnFromMain, RustDies, Spawn, SendQuery, SendToSubBroken, OnResponse,
     OnSubGarbage, OnSubExit, OnSubEof, Proxy, Relay, WaitSub, Get, Put, ExitWith, runVars, clientVars
<1>2. CASE ReadEngineInput \/ ReadInputEof \/ WriteBroken \/ NativeReport
  BY <1>0, <1>1, <1>2 DEF ReadEngineInput, ReadInputEof, WriteBroken, NativeReport, RustPanic, Lifetimes, InQuery,
     Get, Put, runVars, pipeVars, rustVars, subPipes, subVars
<1>3. CASE NativeDone \/ Printed
  BY <1>0, <1>1, <1>3 DEF NativeDone, Printed, Lifetimes, InQuery, runVars, pipeVars, rustVars, subPipes, subVars,
     QueryKind
<1>4. CASE WriteQueued \/ ReportDone
  BY <1>0, <1>1, <1>4 DEF WriteQueued, ReportDone, Lifetimes, InQuery, Put, runVars, pipeVars, subPipes, subVars
<1>5. CASE ReturnFromMain \/ RustDies \/ (Fault /\ RustKilled)
  <2>1. /\ UNCHANGED <<step, queue, subExit, spc>> /\ rpc' = "dead" /\ exitCode = Running
        /\ \/ rpc = "files" /\ queue = << >> /\ exitCode' = 0
           \/ exitCode' \in {101, 137}
    BY <1>5 DEF ReturnFromMain, RustDies, RustKilled, ExitWith, subPipes, subVars
  <2>2. \A c \in {0, 101, 137} : c # Running
    BY DEF Running
  <2>3. CASE rpc = "files" /\ queue = << >> /\ exitCode' = 0
    BY <1>0, <1>1, <2>1, <2>2, <2>3 DEF Lifetimes, InQuery
  <2>4. CASE exitCode' \in {101, 137}
    BY <1>0, <1>1, <2>1, <2>2, <2>4 DEF Lifetimes, InQuery
  <2> QED  BY <2>1, <2>3, <2>4
<1>6. CASE Spawn \/ SendQuery \/ SendToSubBroken
  BY <1>0, <1>1, <1>6 DEF Spawn, SendQuery, SendToSub, SendToSubBroken, RustPanic, Lifetimes, InQuery, runVars, pipeVars,
     subPipes, subVars
<1>7. CASE OnResponse \/ OnSubGarbage \/ OnSubExit \/ OnSubEof
  BY <1>0, <1>1, <1>7 DEF OnResponse, OnSubGarbage, OnSubExit, OnSubEof, TakeFromSub, RustPanic, Lifetimes, InQuery,
     runVars, pipeVars, subPipes, subVars
<1>8. CASE Proxy \/ Relay
  BY <1>0, <1>1, <1>8 DEF Proxy, Relay, TakeFromSub, SendToSub, Put, Get, Lifetimes, InQuery, subPipes, subVars
<1>9. CASE WaitSub
  BY <1>0, <1>1, <1>9 DEF WaitSub, Succeeded, RustPanic, Lifetimes, InQuery, runVars, pipeVars, subPipes, subVars
<1> QED
  BY <1>2, <1>3, <1>4, <1>5, <1>6, <1>7, <1>8, <1>9 DEF Rust

LEMMA SubFrame ==
  ASSUME Sub \/ (Fault /\ (SubRaisesException \/ SubDebugPrint \/ SubKilled))
  PROVE  UNCHANGED <<plan, runVars, rustVars>> /\ spc # "dead"
BY DEF Sub, Fault, SubLoad, SubReadEof, SubImport, SubImportFatal, SubReport, SubFatal, SubProfile,
   SubRequest, SubTalk, SubReadReply, SubFinish, SubAnswer, SubReturns, SubBroken, SubDies,
   SubRaisesException, SubDebugPrint, SubKilled

LEMMA SubLifetimes ==
  ASSUME TypeOK, Lifetimes, Sub \/ (Fault /\ (SubRaisesException \/ SubDebugPrint \/ SubKilled))
  PROVE  Lifetimes'
<1>1. UNCHANGED <<pc, result, exitCode, plan, rpc, step, queue>> /\ spc # "dead"
  BY SubFrame DEF runVars, clientVars, pipeVars, rustVars
<1>2. \/ spc' # "dead" /\ subExit' = subExit
      \/ spc' = "dead" /\ subExit' \in {0, 2, 137}
  BY <1>1 DEF Sub, Fault, SubLoad, SubReadEof, SubImport, SubImportFatal, SubReport, SubFatal, SubProfile,
     SubRequest, SubTalk, SubReadReply, SubFinish, SubAnswer, SubReturns, SubBroken, SubDies, SubCrash,
     SubRaisesException, SubDebugPrint, SubKilled, SubGet, SubPut, SubExitWith, subPipes
<1>3. subExit = Running /\ Running \notin {0, 2, 137, NoSub}
  BY <1>1 DEF Lifetimes, Running, NoSub
<1> QED
  BY <1>1, <1>2, <1>3 DEF Lifetimes, InQuery

LEMMA StutterLifetimes ==
  ASSUME Lifetimes, UNCHANGED vars
  PROVE  Lifetimes'
<1>1. UNCHANGED <<pc, result, exitCode, plan, rpc, step, queue, spc, subExit>>
  BY DEF vars, runVars, clientVars, pipeVars, rustVars, subPipes, subVars
<1> QED
  BY <1>1 DEF Lifetimes, InQuery

LEMMA InitTypes == Init => TypeOK /\ Lifetimes
<1> SUFFICES ASSUME Init  PROVE TypeOK /\ Lifetimes
  OBVIOUS
<1>1. plan \in Plans /\ Len(plan) \in Nat /\ plan # << >> /\ Len(plan) > 0 /\ step = 1
  BY PlansAssumption DEF Init
<1>2. RunTypeOK
  <2>1. DOMAIN errorsPerItem \subseteq Item /\ errorsPerItem \in [DOMAIN errorsPerItem -> Nat]
    BY DEF Init, RunInit
  <2>2. toEngine \in Seq(ToEngine) /\ fromEngine \in Seq(FromEngine) /\ output \in Seq(FromEngine)
    BY DEF Init, RunInit
  <2>3. eread \in 0..Len(toEngine) /\ cread \in 0..Len(fromEngine)
    BY DEF Init, RunInit
  <2> QED  BY <2>1, <2>2, <2>3 DEF Init, RunInit, RunTypeOK, RequestKind, Running
<1>3. SubPipesOK /\ SubVarsOK /\ RaisedOK /\ faulted \in BOOLEAN
  <2>1. toSub \in Seq(ToEngine) /\ fromSub \in Seq(FromSub) /\ squeue \in Seq(FromSub) /\ state \in Seq(Diag)
    BY DEF Init
  <2>2. sread \in 0..Len(toSub) /\ rread \in 0..Len(fromSub)
    BY DEF Init
  <2> QED  BY <2>1, <2>2 DEF Init, SubPipesOK, SubVarsOK, RaisedOK, RequestKind, NoSub, Running
<1>4. RustTypeOK
  BY <1>1 DEF Init, RustTypeOK, NoResponse
<1>5. Lifetimes
  BY <1>1 DEF Init, RunInit, Lifetimes, InQuery, NoSub, Running
<1> QED
  BY <1>1, <1>2, <1>3, <1>4, <1>5, TypeParts

THEOREM LifetimesInvariance == Spec => [](TypeOK /\ Lifetimes)
<1>1. TypeOK /\ Lifetimes /\ [Next]_vars => TypeOK' /\ Lifetimes'
  <2> SUFFICES ASSUME TypeOK, Lifetimes, [Next]_vars  PROVE TypeOK' /\ Lifetimes'
    OBVIOUS
  <2>1. TypeOK'
    BY TypeStep
  <2>2. CASE UNCHANGED vars
    BY <2>1, <2>2, StutterLifetimes
  <2> QED  BY <2>1, <2>2, NextCases, ClientLifetimes, RustLifetimes, SubLifetimes
<1> QED
  BY InitTypes, <1>1, PTL DEF Spec

(***************************************************************************)
(* Every value the three processes and their four pipes hold has its type. *)
(***************************************************************************)
THEOREM TypeCorrect == Spec => []TypeOK
BY LifetimesInvariance, PTL

-----------------------------------------------------------------------------
(***************************************************************************)
(* What cargo-hax sees: a stream without Exit and without garbage, which   *)
(* it has read to the end once it waits, having shown every diagnostic.    *)
(***************************************************************************)
QueueKinds ==
  /\ rpc = "report" => \A j \in 1..Len(queue) : queue[j].kind = "Diagnostic"
  /\ rpc = "files" => \A j \in 1..Len(queue) : queue[j].kind = "File"

PlainStream == \A j \in 1..Len(fromEngine) : fromEngine[j].kind \notin {"Exit", "Garbage"}

AllIsRead == pc = "wait" \/ result = "returned" => cread = Len(fromEngine)

ReadIsShown ==
  /\ \A d \in Diag : d \in reported <=> \E j \in 1..cread : fromEngine[j] = DiagnosticMsg(d)
  /\ error <=> reported # {}

View == QueueKinds /\ PlainStream /\ AllIsRead /\ ReadIsShown

\* What a step of the Rust engine does to the pipes it shares with cargo-hax.
LEMMA RustOnPipes ==
  ASSUME TypeOK, QueueKinds, Rust \/ (Fault /\ RustKilled)
  PROVE  \/ \E m \in FromEngine : m.kind \notin {"Exit", "Garbage"} /\ Put(m)
         \/ Get
         \/ \E c \in {0, 101, 137} : ExitWith(c)
         \/ UNCHANGED runVars
<1>0. queue \in Seq(FromEngine) /\ SubPipesOK
  BY TypeParts DEF TypeOK
<1>1. CASE NativeReport
  <2>1. PICK d \in Diag : Put(DiagnosticMsg(d))
    BY <1>1 DEF NativeReport
  <2> QED  BY <2>1, MessageTypes DEF DiagnosticMsg
<1>2. CASE WriteQueued
  <2>1. Head(queue) \in FromEngine /\ 1 \in 1..Len(queue) /\ Head(queue) = queue[1]
    BY <1>0, <1>2 DEF WriteQueued
  <2>2. Head(queue).kind \in {"Diagnostic", "File"}
    BY <1>2, <2>1 DEF WriteQueued, QueueKinds
  <2> QED  BY <1>2, <2>1, <2>2 DEF WriteQueued
<1>3. CASE Proxy
  <2>1. SubMsg \in FromSub /\ SubMsg.kind \in Proxied
    BY <1>0, <1>3, TakeType DEF Proxy
  <2> QED  BY <1>3, <2>1, SubMsgTypes DEF Proxy
<1>4. CASE ReadEngineInput \/ Relay
  BY <1>4 DEF ReadEngineInput, Relay
<1>5. CASE ReturnFromMain \/ RustDies \/ RustKilled
  BY <1>5 DEF ReturnFromMain, RustDies, RustKilled
<1>6. CASE \/ ReadInputEof \/ WriteBroken \/ NativeDone \/ Printed \/ ReportDone \/ Spawn \/ SendQuery
           \/ SendToSubBroken \/ OnResponse \/ OnSubGarbage \/ OnSubExit \/ OnSubEof \/ WaitSub
  BY <1>6 DEF ReadInputEof, WriteBroken, NativeDone, Printed, ReportDone, Spawn, SendQuery, SendToSubBroken,
     OnResponse, OnSubGarbage, OnSubExit, OnSubEof, WaitSub
<1> QED
  BY <1>1, <1>2, <1>3, <1>4, <1>5, <1>6 DEF Rust, Fault

\* A message is added at the end; cargo-hax is in its message loop.
LEMMA PutFacts ==
  ASSUME TypeOK, Lifetimes, NEW m \in FromEngine, Put(m)
  PROVE  /\ fromEngine' \in Seq(FromEngine) /\ Len(fromEngine') = Len(fromEngine) + 1 /\ Len(fromEngine) \in Nat
         /\ \A j \in 1..Len(fromEngine) : fromEngine'[j] = fromEngine[j]
         /\ fromEngine'[Len(fromEngine')] = m
         /\ \A j : j \in 1..Len(fromEngine') <=> j \in 1..Len(fromEngine) \/ j = Len(fromEngine')
         /\ UNCHANGED <<pc, result, exitCode, cread, reported, error>>
         /\ pc \in {"send", "loop", "reply"} /\ result = "none" /\ exitCode = Running
<1>1. fromEngine \in Seq(FromEngine) /\ fromEngine' = Append(fromEngine, m)
  BY DEF TypeOK, RunTypeOK, Put
<1>2. /\ UNCHANGED <<pc, result, exitCode, cread, reported, error>>
      /\ pc \in {"send", "loop", "reply"} /\ exitCode = Running
  BY DEF Put, clientVars, StdoutRoom, ClientEndsOpen
<1> QED
  BY <1>1, <1>2 DEF Lifetimes

LEMMA RustView ==
  ASSUME TypeOK, Lifetimes, View, Rust \/ (Fault /\ RustKilled)
  PROVE  PlainStream' /\ AllIsRead' /\ ReadIsShown'
<1>1. ASSUME NEW m \in FromEngine, m.kind \notin {"Exit", "Garbage"}, Put(m)
      PROVE  PlainStream' /\ AllIsRead' /\ ReadIsShown'
  <2>1. PlainStream' /\ AllIsRead'
    BY <1>1, PutFacts DEF View, PlainStream, AllIsRead
  <2>0. cread \in 0..Len(fromEngine)
    BY DEF TypeOK, RunTypeOK
  <2>2. \A j \in 1..cread : fromEngine'[j] = fromEngine[j]
    BY <1>1, <2>0, PutFacts
  <2>3. ReadIsShown'
    BY <1>1, <2>2, PutFacts DEF View, ReadIsShown
  <2> QED  BY <2>1, <2>3
<1>2. CASE UNCHANGED <<pc, result, reported, error, fromEngine, cread>>
  BY <1>2 DEF View, PlainStream, AllIsRead, ReadIsShown
<1>3. CASE Get \/ (\E c \in {0, 101, 137} : ExitWith(c)) \/ UNCHANGED runVars
  BY <1>2, <1>3 DEF Get, ExitWith, runVars, clientVars, pipeVars
<1> QED
  BY <1>1, <1>3, RustOnPipes DEF View

LEMMA RustQueueKinds ==
  ASSUME TypeOK, Lifetimes, View, Rust \/ (Fault /\ RustKilled)
  PROVE  QueueKinds'
<1>0. queue \in Seq(FromEngine) /\ response \in Seq(Seq(Diag))
  BY DEF TypeOK
<1>1. CASE WriteQueued
  <2>1. /\ Len(queue) \in Nat /\ Len(queue') = Len(queue) - 1 /\ \A j \in 1..Len(queue') : queue'[j] = queue[j + 1]
        /\ rpc' = rpc
    BY <1>0, <1>1 DEF WriteQueued
  <2> QED  BY <2>1 DEF View, QueueKinds
<1>2. CASE WaitSub /\ Succeeded
  <2>1. rpc' = "report" /\ queue' = DiagnosticMsgs(response[1]) /\ response[1] \in Seq(Diag)
    BY <1>0, <1>2 DEF WaitSub, Succeeded, NoResponse
  <2> QED  BY <2>1 DEF QueueKinds, DiagnosticMsgs, DiagnosticMsg
<1>3. CASE Printed
  <2>1. rpc' = "files" /\ (queue' = << >> \/ \E fs \in FileLists : queue' = FileMsgs(fs))
    BY <1>3 DEF Printed
  <2>2. CASE queue' = << >>
    BY <2>1, <2>2 DEF QueueKinds
  <2>3. CASE \E fs \in FileLists : queue' = FileMsgs(fs)
    <3>1. PICK fs \in Seq(File) : queue' = FileMsgs(fs)
      BY <2>3, MessageTypes
    <3> QED  BY <2>1, <3>1 DEF QueueKinds, FileMsgs, FileMsg
  <2> QED  BY <2>1, <2>2, <2>3
<1>4. CASE rpc' \notin {"report", "files"}
  BY <1>4 DEF QueueKinds
<1>5. CASE ~WriteQueued /\ ~(WaitSub /\ Succeeded) /\ ~Printed
  <2>1. rpc' \notin {"report", "files"}
    BY <1>5 DEF Rust, ReadEngineInput, ReadInputEof, WriteBroken, NativeReport, NativeDone, ReportDone,
       ReturnFromMain, RustDies, Spawn, SendQuery, SendToSubBroken, OnResponse, OnSubGarbage, OnSubExit, OnSubEof,
       Proxy, Relay, WaitSub, RustPanic, TakeFromSub, Fault, RustKilled, rustVars
  <2> QED  BY <1>4, <2>1
<1> QED
  BY <1>1, <1>2, <1>3, <1>5

\* cargo-hax reads one message and shows it if it is a diagnostic, or it shows nothing.
LEMMA ClientReads ==
  ASSUME TypeOK, Client \/ (Fault /\ KillClient)
  PROVE  \/ cread' = cread /\ reported' = reported /\ error' = error
         \/ /\ cread < Len(fromEngine) /\ cread' = cread + 1
            /\ Incoming.kind # "Diagnostic" /\ reported' = reported /\ error' = error
         \/ /\ cread < Len(fromEngine) /\ cread' = cread + 1
            /\ Incoming.kind = "Diagnostic"
            /\ reported' = reported \cup {Incoming.diag} /\ error' = TRUE
BY DEF Client, ClientNext, SendInput, SendReply, Send, SendBroken, pipeVars, clientVars,
       OnDiagnostic, OnFile, OnItemProcessed, OnDebugString, OnProfilingData, OnRequest,
       OnGarbage, OnExit, OnEof, LeaveLoop, Wait, Receive, RequestKind, Fault, KillClient, ClientDies

LEMMA ClientView ==
  ASSUME TypeOK, Lifetimes, View, Client \/ (Fault /\ KillClient)
  PROVE  View'
<1>0. /\ fromEngine \in Seq(FromEngine) /\ cread \in 0..Len(fromEngine) /\ Len(fromEngine) \in Nat
      /\ fromEngine' = fromEngine /\ rpc' = rpc /\ queue' = queue
  BY ClientFrame DEF TypeOK, RunTypeOK, rustVars
<1>1. QueueKinds' /\ PlainStream'
  BY <1>0 DEF View, QueueKinds, PlainStream
<1>2. AllIsRead'
  <2>1. ~OnExit
    BY <1>0 DEF OnExit, Receive, Incoming, View, PlainStream
  <2> QED
    BY <1>0, <2>1 DEF View, AllIsRead, Lifetimes, Client, ClientNext, SendInput,
       SendReply, Send, SendBroken, OnDiagnostic, OnFile, OnItemProcessed, OnDebugString,
       OnProfilingData, OnRequest, OnGarbage, OnEof, LeaveLoop, Wait, Receive, Outcome, Panic,
       pipeVars, clientVars, Fault, KillClient, ClientDies
<1>3. ReadIsShown'
  <2>0. ASSUME cread < Len(fromEngine), cread' = cread + 1, NEW d
        PROVE  (\E j \in 1..cread' : fromEngine'[j] = DiagnosticMsg(d))
                 <=> (\E j \in 1..cread : fromEngine[j] = DiagnosticMsg(d)) \/ Incoming = DiagnosticMsg(d)
    <3>1. cread \in Nat /\ fromEngine' = fromEngine
      BY <1>0
    <3>2. \A j : j \in 1..cread' <=> j \in 1..cread \/ j = cread + 1
      BY <2>0, <3>1
    <3> QED  BY <3>1, <3>2 DEF Incoming
  <2>1. CASE cread' = cread /\ reported' = reported /\ error' = error
    BY <1>0, <2>1 DEF View, ReadIsShown
  <2>2. CASE /\ cread < Len(fromEngine) /\ cread' = cread + 1
             /\ Incoming.kind # "Diagnostic" /\ reported' = reported /\ error' = error
    BY <2>0, <2>2 DEF View, ReadIsShown, DiagnosticMsg
  <2>3. CASE /\ cread < Len(fromEngine) /\ cread' = cread + 1
             /\ Incoming.kind = "Diagnostic"
             /\ reported' = reported \cup {Incoming.diag} /\ error' = TRUE
    <3>1. Incoming = DiagnosticMsg(Incoming.diag) /\ Incoming.diag \in Diag
      <4>1. Incoming \in FromEngine
        <5>1. fromEngine \in Seq(FromEngine) /\ cread + 1 \in 1..Len(fromEngine)
          BY <1>0, <2>3
        <5> QED  BY <5>1 DEF Incoming
      <4> QED  BY <2>3, <4>1 DEF FromEngine, PlainKind, RequestKind, DiagnosticMsg
    <3>2. \A d : DiagnosticMsg(d) = Incoming <=> d = Incoming.diag
      BY <3>1 DEF DiagnosticMsg
    <3>3. \A d \in Diag : (\E j \in 1..cread' : fromEngine'[j] = DiagnosticMsg(d))
                            <=> (\E j \in 1..cread : fromEngine[j] = DiagnosticMsg(d))
                                  \/ d = Incoming.diag
      BY <2>0, <2>3, <3>2
    <3> QED
      BY <2>3, <3>1, <3>3 DEF View, ReadIsShown
  <2> QED  BY <2>1, <2>2, <2>3, ClientReads
<1> QED
  BY <1>1, <1>2, <1>3 DEF View

THEOREM ViewInvariance == Spec => []View
<1>1. Init => View
  BY DEF Init, RunInit, View, QueueKinds, PlainStream, AllIsRead, ReadIsShown
<1>2. TypeOK /\ Lifetimes /\ View /\ [Next]_vars => View'
  <2> SUFFICES ASSUME TypeOK, Lifetimes, View, [Next]_vars  PROVE View'
    OBVIOUS
  <2>1. CASE UNCHANGED <<pc, result, reported, error, fromEngine, cread, rpc, queue>>
    BY <2>1 DEF View, QueueKinds, PlainStream, AllIsRead, ReadIsShown
  <2>2. CASE UNCHANGED vars \/ (UNCHANGED <<plan, runVars, rustVars>> /\ spc # "dead")
    BY <2>1, <2>2 DEF vars, runVars, clientVars, pipeVars, rustVars
  <2>3. CASE Rust \/ (Fault /\ RustKilled)
    BY <2>3, RustView, RustQueueKinds DEF View
  <2> QED  BY <2>2, <2>3, NextCases, ClientView, SubFrame
<1> QED
  BY LifetimesInvariance, <1>1, <1>2, PTL DEF Spec

(***************************************************************************)
(* The run implements the promise of Extraction, with whatever plan and    *)
(* however many subprocesses: run_engine acts on the messages of the Rust  *)
(* engine in order, each once, its verdict is whether one of them was a    *)
(* diagnostic, and it returns only after the Rust engine finished its work *)
(* and every one of its messages was acted upon.                           *)
(***************************************************************************)
THEOREM KeepsPromise == Spec => ImplementsExtraction
<1>1. Init => Promise!Init
  BY DEF Init, RunInit, Running, Promise!Init
<1>2. TypeOK /\ Lifetimes /\ View /\ [Next]_vars => [Promise!Next]_(Promise!vars)
  <2> SUFFICES ASSUME TypeOK, Lifetimes, View, [Next]_vars  PROVE [Promise!Next]_(Promise!vars)
    OBVIOUS
  <2> USE DEF Promise!vars, Promise!Next
  <2>1. CASE Client
    <3>1. ClientNext /\ cread \in 0..Len(fromEngine) /\ (pc # "done" => result = "none")
          /\ exitCode' = exitCode /\ fromEngine' = fromEngine
      BY <2>1, ClientFrame DEF Client, TypeOK, RunTypeOK, Lifetimes
    <3>2. CASE OnDiagnostic \/ OnFile \/ OnItemProcessed \/ OnDebugString \/ OnProfilingData \/ OnRequest
      <4>1. /\ result = "none" /\ result' = result
            /\ cread < Len(fromEngine) /\ cread' = cread + 1
        BY <3>1, <3>2 DEF OnDiagnostic, OnFile, OnItemProcessed, OnDebugString, OnProfilingData,
           OnRequest, Receive, clientVars
      <4>2. error' = (error \/ fromEngine[cread + 1].kind = "Diagnostic")
        <5>1. CASE fromEngine[cread + 1].kind = "Diagnostic" /\ error' = TRUE
          BY <5>1
        <5>2. CASE fromEngine[cread + 1].kind # "Diagnostic" /\ error' = error
          BY <5>2 DEF TypeOK, RunTypeOK
        <5>3. cread' # cread
          BY <3>1, <4>1
        <5> QED  BY <2>1, <5>1, <5>2, <5>3, ClientReads DEF Incoming
      <4> QED  BY <3>1, <4>1, <4>2 DEF Promise!Show
    <3>3. CASE OnGarbage \/ OnExit
      <4>1. cread + 1 \in 1..Len(fromEngine) /\ fromEngine[cread + 1].kind \in {"Exit", "Garbage"}
        BY <3>1, <3>3 DEF OnGarbage, OnExit, Receive, Incoming
      <4> QED  BY <4>1 DEF View, PlainStream
    <3>4. CASE SendInput \/ SendReply
      BY <3>1, <3>4 DEF SendInput, SendReply, Send
    <3>5. CASE SendBroken \/ OnEof
      <4>1. Promise!Fail \/ UNCHANGED Promise!vars
        BY <3>1, <3>5 DEF SendBroken, OnEof, LeaveLoop, Panic, pipeVars, Promise!Fail
      <4> QED  BY <4>1
    <3>6. CASE Wait
      <4>1. Promise!Succeed \/ Promise!Fail
        BY <3>1, <3>6 DEF Wait, Outcome, pipeVars, View, AllIsRead, Promise!Succeed, Promise!Fail
      <4> QED  BY <4>1
    <3> QED  BY <3>1, <3>2, <3>3, <3>4, <3>5, <3>6 DEF ClientNext
  <2>2. CASE Fault /\ KillClient
    <3>1. Promise!Fail
      BY <2>2, ClientFrame DEF KillClient, ClientDies, Panic, pipeVars, Lifetimes, Promise!Fail
    <3> QED  BY <3>1
  <2>3. CASE Rust \/ (Fault /\ RustKilled)
    <3>1. ASSUME NEW m \in FromEngine, Put(m)  PROVE Promise!Produce
      BY <3>1 DEF Put, StdoutRoom, ClientEndsOpen, clientVars, Lifetimes, Running, Promise!Produce
    <3>2. CASE ExitWith(0)
      BY <3>2 DEF ExitWith, clientVars, Promise!Conclude
    <3>3. ASSUME NEW c \in {101, 137}, ExitWith(c)  PROVE UNCHANGED Promise!vars
      BY <3>3 DEF ExitWith, clientVars, Running
    <3>4. CASE Get
      BY <3>4 DEF Get, clientVars
    <3>5. CASE UNCHANGED runVars
      BY <3>5 DEF runVars, clientVars, pipeVars
    <3> QED  BY <2>3, <3>1, <3>2, <3>3, <3>4, <3>5, RustOnPipes DEF View
  <2>4. CASE UNCHANGED vars \/ (UNCHANGED <<plan, runVars, rustVars>> /\ spc # "dead")
    BY <2>4 DEF vars, runVars, clientVars, pipeVars
  <2> QED
    BY <2>1, <2>2, <2>3, <2>4, NextCases, SubFrame
<1> QED
  BY LifetimesInvariance, ViewInvariance, <1>1, <1>2, PTL DEF Spec, ImplementsExtraction, Promise!Spec

-----------------------------------------------------------------------------
(***************************************************************************)
(* The answers.  A diagnostic travels from `Diagnostics.Core.state` of a   *)
(* subprocess into the response it queues and writes, then as `response`   *)
(* through the Rust engine, is queued again and written to cargo-hax: the  *)
(* invariant says for each stage what it holds, and where every diagnostic *)
(* raised so far is.                                                       *)
(***************************************************************************)
Working == {"load", "import", "work", "await"}
Final == {"answer", "crash", "dead"}

\* While it works, a subprocess has neither answered nor printed.
NoAnswerYet ==
  /\ spc \in Working =>
       /\ squeue = << >>
       /\ \A j \in 1..Len(fromSub) : fromSub[j].kind \notin {"Response", "Exit", "File"}
  /\ spc \in {"load", "import"} => state = << >>

\* What the response of the query under way holds.
Carried == IF plan[step] = "Print" THEN << >> ELSE state

ResponseHolds ==
  InQuery =>
    /\ \A j \in 1..Len(fromSub) : fromSub[j].kind = "Response" => fromSub[j].diags = Carried
    /\ \A j \in 1..Len(squeue) : squeue[j].kind = "Response" => squeue[j].diags = Carried
    /\ response # NoResponse => response[1] = Carried /\ spc \in Final
    /\ \A i \in 1..Len(state) : <<plan[step], state[i]>> \in raised

Sent(d) == \E j \in 1..Len(fromEngine) : fromEngine[j] = DiagnosticMsg(d)
Shown == {"ImportThir", "ApplyPhases", "Native"}

RaisedWhere ==
  \A r \in raised :
    \/ r[1] = "Print"
    \/ Sent(r[2])
    \/ /\ rpc \in {"send", "proxy", "relay", "wait"}
       /\ r[1] = plan[step] /\ \E i \in 1..Len(state) : state[i] = r[2]
    \/ rpc = "report" /\ \E k \in 1..Len(queue) : queue[k] = DiagnosticMsg(r[2])
    \/ rpc = "panic"
    \/ rpc = "dead" /\ exitCode # 0

NoneInvented ==
  /\ \A j \in 1..Len(fromEngine) :
       fromEngine[j].kind = "Diagnostic" => \E k \in Shown : <<k, fromEngine[j].diag>> \in raised
  /\ rpc = "report" =>
       \A j \in 1..Len(queue) : \E k \in Shown : <<k, queue[j].diag>> \in raised

Answers == NoAnswerYet /\ ResponseHolds /\ RaisedWhere /\ NoneInvented

(***************************************************************************)
(* What a step of a subprocess does to what it says.                       *)
(***************************************************************************)
SubQuiet ==
  /\ UNCHANGED <<fromSub, squeue, state, raised>>
  /\ spc' \in Working => spc \in Working
  /\ spc' \in {"load", "import"} => spc = "load"
  /\ spc \in Final => spc' \in Final
  /\ spc' # "answer"
  /\ subExit' = subExit \/ (subExit' = 0 => spc = "answer" /\ squeue = << >>)

SubSays(m) ==
  /\ m.kind \notin {"Response", "Exit", "File"}
  /\ fromSub' = Append(fromSub, m)
  /\ UNCHANGED <<squeue, state, raised, subExit>>
  /\ spc = "work" /\ spc' \in {"work", "await"}

SubRaises ==
  /\ spc = "work" /\ spc' \in {"work", "crash"}
  /\ \E d \in Diag : state' = Append(state, d)
  /\ Raise(state')
  /\ UNCHANGED <<fromSub, squeue, subExit>>

SomeFiles == FileLists \cup {<< >>}

SubConcludes(files, debug) ==
  /\ spc \in {"import", "work"} /\ spc' = "answer"
  /\ files # << >> => Query = "Print"
  /\ squeue' = Answer(files, state', debug)
  /\ fromSub' = fromSub \/ \E items \in SUBSET Item : fromSub' = Append(fromSub, ItemProcessedMsg(items))
  /\ \/ state' = state /\ raised' = raised
     \/ spc = "import" /\ state' \in Seq(Diag) /\ Raise(state')
  /\ UNCHANGED subExit

SubWrites ==
  /\ spc = "answer" /\ squeue # << >>
  /\ fromSub' = Append(fromSub, Head(squeue))
  /\ squeue' = Tail(squeue)
  /\ UNCHANGED <<spc, state, raised, subExit>>

LEMMA SubCases ==
  ASSUME TypeOK, Sub \/ (Fault /\ (SubRaisesException \/ SubDebugPrint \/ SubKilled))
  PROVE  \/ SubQuiet
         \/ \E m \in FromSub : SubSays(m)
         \/ SubRaises
         \/ \E files \in SomeFiles, debug \in Nat : SubConcludes(files, debug)
         \/ SubWrites
<1>0. << >> \in SomeFiles /\ FileLists \subseteq SomeFiles /\ 0..MaxDebug \subseteq Nat
  BY BoundsAssumption DEF SomeFiles
<1>1. CASE SubLoad \/ SubReadReply \/ SubReadEof \/ SubBroken \/ SubRaisesException
  BY <1>1 DEF SubLoad, SubReadReply, SubReadEof, SubBroken, SubRaisesException, SubCrash, SubGet, SubQuiet,
     Working, Final, subPipes
<1>2. CASE SubReturns \/ SubDies \/ SubKilled
  BY <1>2 DEF SubReturns, SubDies, SubKilled, SubExitWith, SubQuiet, Working, Final
<1>3. CASE SubProfile \/ SubRequest \/ SubDebugPrint
  <2>1. PICK k \in PlainKind \ {"Exit"} : SubTalk(Plain(k), "work") \/ SubTalk(Plain(k), "await")
    BY <1>3 DEF SubProfile, SubRequest, SubDebugPrint, PlainKind, RequestKind
  <2>2. Plain(k) \in FromSub /\ Plain(k).kind = k /\ k \notin {"Response", "Exit", "File"}
    BY MessageTypes DEF PlainKind, RequestKind
  <2>3. SubSays(Plain(k))
    BY <2>1, <2>2 DEF SubTalk, SubPut, SubSays
  <2> QED  BY <2>2, <2>3
<1>4. CASE SubReport \/ SubFatal
  BY <1>4 DEF SubReport, SubFatal, SubRaises, subPipes
<1>5. CASE SubImport
  <2>1. PICK debug \in 0..MaxDebug : squeue' = Answer(<< >>, state', debug)
    BY <1>5 DEF SubImport
  <2>2. state' \in Seq(Diag)
    BY <1>5, MessageTypes DEF SubImport
  <2>3. \E items \in SUBSET Item : fromSub' = Append(fromSub, ItemProcessedMsg(items))
    BY <1>5 DEF SubImport, SubPut
  <2>4. SubConcludes(<< >>, debug)
    BY <1>5, <2>1, <2>2, <2>3 DEF SubImport, SubPut, SubConcludes
  <2> QED  BY <1>0, <2>1, <2>4
<1>6. CASE SubImportFatal
  <2>1. PICK debug \in 0..MaxDebug : squeue' = Answer(<< >>, state', debug)
    BY <1>6 DEF SubImportFatal
  <2>2. state' \in Seq(Diag) /\ fromSub' = fromSub /\ subExit' = subExit
    BY <1>6 DEF SubImportFatal, subPipes
  <2>4. SubConcludes(<< >>, debug)
    BY <1>6, <2>1, <2>2 DEF SubImportFatal, SubConcludes
  <2> QED  BY <1>0, <2>1, <2>4
<1>7. CASE SubFinish
  <2>1. PICK fs \in (IF Query = "Print" THEN FileLists ELSE {<< >>}), debug \in 0..MaxDebug :
          squeue' = Answer(fs, state, debug)
    BY <1>7 DEF SubFinish
  <2>2. fs \in SomeFiles /\ (fs # << >> => Query = "Print")
    BY <1>0, <2>1
  <2>3. state' = state /\ raised' = raised /\ fromSub' = fromSub /\ subExit' = subExit
        /\ spc = "work" /\ spc' = "answer"
    BY <1>7 DEF SubFinish, subPipes
  <2>4. SubConcludes(fs, debug)
    BY <2>1, <2>2, <2>3 DEF SubConcludes
  <2> QED  BY <1>0, <2>1, <2>2, <2>4
<1>8. CASE SubAnswer
  BY <1>8 DEF SubAnswer, SubPut, SubWrites
<1> QED
  BY <1>1, <1>2, <1>3, <1>4, <1>5, <1>6, <1>7, <1>8 DEF Sub

\* A subprocess that takes a step is at work on the query under way, or outlives the Rust engine.
LEMMA SubAtWork ==
  ASSUME TypeOK, Lifetimes, Sub \/ (Fault /\ (SubRaisesException \/ SubDebugPrint \/ SubKilled))
  PROVE  /\ rpc \in {"send", "proxy", "relay", "wait", "panic", "dead"} /\ exitCode # 0
         /\ subExit = Running /\ step <= Len(plan) /\ plan[step] \in QueryKind /\ Query = plan[step]
         /\ UNCHANGED <<plan, rpc, step, response, queue, fromEngine, exitCode>>
<1>1. spc # "dead" /\ UNCHANGED <<plan, rpc, step, response, queue, fromEngine, exitCode>>
  BY SubFrame DEF runVars, pipeVars, rustVars
<1>2. subExit \notin {0, NoSub} /\ subExit = Running
  BY <1>1 DEF Lifetimes, Running, NoSub
<1>3. rpc \notin {"load", "dispatch", "report", "files"} /\ exitCode # 0
  BY <1>2 DEF Lifetimes
<1>4. rpc \in {"load", "dispatch", "send", "proxy", "relay", "wait", "report", "files", "panic", "dead"}
  BY TypeParts DEF RustTypeOK
<1> QED
  BY <1>1, <1>2, <1>3, <1>4 DEF Lifetimes, Query

LEMMA SubAnswers ==
  ASSUME TypeOK, Lifetimes, Answers, Sub \/ (Fault /\ (SubRaisesException \/ SubDebugPrint \/ SubKilled))
  PROVE  Answers'
<1>0. /\ fromSub \in Seq(FromSub) /\ squeue \in Seq(FromSub) /\ state \in Seq(Diag) /\ step \in Nat
      /\ Len(fromSub) \in Nat /\ Len(squeue) \in Nat /\ Len(state) \in Nat
  BY PlanTypes, TypeParts DEF SubPipesOK, SubVarsOK
<1>1. /\ rpc \in {"send", "proxy", "relay", "wait", "panic", "dead"} /\ exitCode # 0
      /\ plan[step] \in QueryKind /\ Query = plan[step]
      /\ UNCHANGED <<plan, rpc, step, response, queue, fromEngine, exitCode>>
  BY SubAtWork
<1>2. rpc # "report" /\ (InQuery' <=> InQuery)
  BY <1>1 DEF InQuery
<1>3. ASSUME raised' = raised \cup {<<Query, state'[i]>> : i \in DOMAIN state'}, state' \in Seq(Diag),
             \A i \in 1..Len(state) : \E j \in 1..Len(state') : state'[j] = state[i]
      PROVE  /\ RaisedWhere' /\ NoneInvented' /\ \A i \in 1..Len(state') : <<plan'[step'], state'[i]>> \in raised'
  <2>1. \A i \in 1..Len(state') : <<plan'[step'], state'[i]>> \in raised'
    BY <1>1, <1>3
  <2>2. NoneInvented'
    BY <1>1, <1>2, <1>3 DEF Answers, NoneInvented
  <2>3. ASSUME NEW r \in raised'
        PROVE  \/ r[1] = "Print" \/ Sent(r[2])'
               \/ rpc' \in {"send", "proxy", "relay", "wait"} /\ r[1] = plan'[step'] /\ \E i \in 1..Len(state') : state'[i] = r[2]
               \/ rpc' = "panic" \/ (rpc' = "dead" /\ exitCode' # 0)
    <3>1. CASE r \in raised
      BY <1>1, <1>2, <1>3, <3>1 DEF Answers, RaisedWhere, Sent
    <3>2. CASE \E i \in DOMAIN state' : r = <<Query, state'[i]>>
      BY <1>1, <1>3, <3>2
    <3> QED  BY <1>3, <3>1, <3>2
  <2> QED  BY <2>1, <2>2, <2>3 DEF RaisedWhere
<1>4. ASSUME UNCHANGED <<state, raised>>
      PROVE  RaisedWhere' /\ NoneInvented' /\ (InQuery => \A i \in 1..Len(state') : <<plan'[step'], state'[i]>> \in raised')
  BY <1>1, <1>4 DEF Answers, RaisedWhere, NoneInvented, ResponseHolds, Sent
<1>5. CASE SubQuiet
  <2>1. NoAnswerYet'
    BY <1>5 DEF SubQuiet, Answers, NoAnswerYet
  <2>2. ResponseHolds'
    BY <1>1, <1>2, <1>5 DEF SubQuiet, Answers, ResponseHolds, Carried
  <2> QED  BY <1>4, <1>5, <2>1, <2>2 DEF SubQuiet, Answers
<1>6. ASSUME NEW m \in FromSub, SubSays(m)
      PROVE  Answers'
  <2>1. /\ Len(fromSub') = Len(fromSub) + 1 /\ fromSub'[Len(fromSub')] = m
        /\ \A j \in 1..Len(fromSub) : fromSub'[j] = fromSub[j]
        /\ \A j \in 1..Len(fromSub') : j \in 1..Len(fromSub) \/ j = Len(fromSub')
    BY <1>0, <1>6 DEF SubSays
  <2>2. NoAnswerYet'
    BY <1>6, <2>1 DEF SubSays, Answers, NoAnswerYet, Working
  <2>3. ResponseHolds'
    BY <1>1, <1>2, <1>6, <2>1 DEF SubSays, Answers, ResponseHolds, Carried, Final
  <2> QED  BY <1>4, <1>6, <2>2, <2>3 DEF SubSays, Answers
<1>7. CASE SubRaises
  <2>1. PICK d \in Diag : state' = Append(state, d)
    BY <1>7 DEF SubRaises
  <2>2. state' \in Seq(Diag) /\ \A i \in 1..Len(state) : i \in 1..Len(state') /\ state'[i] = state[i]
    BY <1>0, <2>1
  <2>3. raised' = raised \cup {<<Query, state'[i]>> : i \in DOMAIN state'}
    BY <1>7 DEF SubRaises, Raise
  <2>4. /\ RaisedWhere' /\ NoneInvented' /\ \A i \in 1..Len(state') : <<plan'[step'], state'[i]>> \in raised'
    BY <1>3, <2>2, <2>3
  <2>5. spc = "work" /\ spc' \in {"work", "crash"} /\ UNCHANGED <<fromSub, squeue>>
    BY <1>7 DEF SubRaises
  <2>6. NoAnswerYet'
    BY <2>5 DEF Answers, NoAnswerYet, Working
  <2>7. ResponseHolds'
    <3>1. squeue = << >> /\ \A j \in 1..Len(fromSub) : fromSub[j].kind # "Response"
      BY <2>5 DEF Answers, NoAnswerYet, Working
    <3>2. InQuery => response = NoResponse
      BY <2>5 DEF Answers, ResponseHolds, Final
    <3> QED  BY <1>1, <1>2, <2>4, <2>5, <3>1, <3>2 DEF ResponseHolds
  <2> QED  BY <2>4, <2>6, <2>7 DEF Answers
<1>8. ASSUME NEW files \in SomeFiles, NEW debug \in Nat, SubConcludes(files, debug)
      PROVE  Answers'
  <2>1. /\ spc \in {"import", "work"} /\ spc' = "answer" /\ state' \in Seq(Diag)
        /\ squeue' = Answer(files, state', debug) /\ files \in Seq(File)
    <3>1. files \in Seq(File)
      <4>1. << >> \in Seq(File)
        OBVIOUS
      <4> QED  BY <1>8, <4>1, MessageTypes DEF SomeFiles
    <3>2. state' \in Seq(Diag)
      BY <1>0, <1>8 DEF SubConcludes
    <3> QED  BY <1>8, <3>1, <3>2 DEF SubConcludes
  <2>2. squeue' \in Seq(FromSub) /\ \A j \in 1..Len(squeue') : squeue'[j].kind = "Response" => squeue'[j].diags = Carried'
    <3>1. PICK s \in Seq(Diag) : s = state'
      BY <2>1
    <3>2. PICK ds : ds = IF Query = "Print" THEN << >> ELSE s
      OBVIOUS
    <3>3. PICK a : a = squeue'
      OBVIOUS
    <3>4. /\ a \in Seq(FromSub)
          /\ \A k \in 1..Len(a) :
               \/ k \in 1..Len(files) /\ a[k] = FileMsg(files[k])
               \/ a[k] = Plain("DebugString")
               \/ k = Len(a) - 1 /\ a[k] = [kind |-> "Response", diags |-> ds]
               \/ k = Len(a) /\ a[k] = Plain("Exit")
      <4>1. a = Answer(files, s, debug) /\ files \in Seq(File)
        BY <2>1, <3>1, <3>3
      <4> QED  BY <3>2, <4>1, AnswerParts
    <3>5. \A k \in 1..Len(a) : a[k].kind = "Response" => a[k].diags = ds
      <4>1. \A f : FileMsg(f).kind = "File"
        BY DEF FileMsg
      <4>2. Plain("DebugString").kind = "DebugString" /\ Plain("Exit").kind = "Exit"
        BY DEF Plain
      <4> QED  BY <3>4, <4>1, <4>2
    <3>6. ds = Carried'
      BY <1>1, <3>1, <3>2 DEF Carried
    <3> QED  BY <3>3, <3>4, <3>5, <3>6
  <2>3. \A j \in 1..Len(fromSub') : fromSub'[j].kind # "Response"
    <3>0. \A j \in 1..Len(fromSub) : fromSub[j].kind # "Response"
      BY <2>1 DEF Answers, NoAnswerYet, Working
    <3>1. CASE fromSub' = fromSub
      BY <3>0, <3>1
    <3>2. CASE \E items \in SUBSET Item : fromSub' = Append(fromSub, ItemProcessedMsg(items))
      <4>1. PICK items \in SUBSET Item : fromSub' = Append(fromSub, ItemProcessedMsg(items))
        BY <3>2
      <4>2. ItemProcessedMsg(items) \in FromSub /\ ItemProcessedMsg(items).kind = "ItemProcessed"
        BY MessageTypes DEF ItemProcessedMsg
      <4>3. PICK m \in FromSub : m = ItemProcessedMsg(items)
        BY <4>2
      <4>4. \A j \in 1..Len(fromSub') : fromSub'[j] = m \/ (j \in 1..Len(fromSub) /\ fromSub'[j] = fromSub[j])
        BY <1>0, <4>1, <4>3
      <4> QED  BY <3>0, <4>2, <4>3, <4>4
    <3> QED  BY <1>8, <3>1, <3>2 DEF SubConcludes
  <2>4. /\ RaisedWhere' /\ NoneInvented'
        /\ (InQuery => \A i \in 1..Len(state') : <<plan'[step'], state'[i]>> \in raised')
    <3>1. CASE state' = state /\ raised' = raised
      BY <1>4, <3>1
    <3>2. CASE spc = "import" /\ state' \in Seq(Diag) /\ Raise(state')
      <4>1. raised' = raised \cup {<<Query, state'[i]>> : i \in DOMAIN state'} /\ Len(state) = 0
        BY <3>2 DEF Raise, Answers, NoAnswerYet
      <4>2. \A i \in 1..Len(state) : \E j \in 1..Len(state') : state'[j] = state[i]
        BY <4>1
      <4> QED  BY <1>3, <3>2, <4>1, <4>2
    <3> QED  BY <1>8, <3>1, <3>2 DEF SubConcludes
  <2>5. NoAnswerYet'
    BY <2>1 DEF NoAnswerYet, Working
  <2>6. ResponseHolds'
    <3>1. InQuery => response = NoResponse
      BY <2>1 DEF Answers, ResponseHolds, Final
    <3> QED  BY <1>1, <1>2, <2>2, <2>3, <2>4, <3>1 DEF ResponseHolds
  <2> QED  BY <2>4, <2>5, <2>6 DEF Answers
<1>9. CASE SubWrites
  <2>1. /\ Len(fromSub') = Len(fromSub) + 1 /\ fromSub'[Len(fromSub')] = squeue[1]
        /\ \A j \in 1..Len(fromSub) : fromSub'[j] = fromSub[j]
        /\ \A j \in 1..Len(fromSub') : j \in 1..Len(fromSub) \/ j = Len(fromSub')
        /\ 1 \in 1..Len(squeue)
    BY <1>0, <1>9 DEF SubWrites
  <2>2. Len(squeue') = Len(squeue) - 1 /\ \A j \in 1..Len(squeue') : squeue'[j] = squeue[j + 1] /\ j + 1 \in 1..Len(squeue)
    BY <1>0, <1>9 DEF SubWrites
  <2>3. UNCHANGED <<spc, state, raised>> /\ spc = "answer"
    BY <1>9 DEF SubWrites
  <2>4. NoAnswerYet'
    BY <2>3 DEF NoAnswerYet, Working
  <2>5. ResponseHolds'
    <3>1. ASSUME InQuery, NEW j \in 1..Len(fromSub'), fromSub'[j].kind = "Response"
          PROVE  fromSub'[j].diags = Carried'
      BY <1>1, <2>1, <2>3, <3>1 DEF Answers, ResponseHolds, Carried
    <3>2. ASSUME InQuery, NEW j \in 1..Len(squeue'), squeue'[j].kind = "Response"
          PROVE  squeue'[j].diags = Carried'
      BY <1>1, <2>2, <2>3, <3>2 DEF Answers, ResponseHolds, Carried
    <3> QED  BY <1>1, <1>2, <1>4, <2>3, <3>1, <3>2 DEF Answers, ResponseHolds, Carried
  <2> QED  BY <1>4, <2>3, <2>4, <2>5 DEF Answers
<1> QED
  BY <1>5, <1>6, <1>7, <1>8, <1>9, SubCases

\* The engine's stdout only grows.
LEMMA StreamGrows ==
  ASSUME TypeOK, Lifetimes, View, Rust \/ (Fault /\ RustKilled)
  PROVE  /\ Len(fromEngine) \in Nat /\ Len(fromEngine') \in Nat /\ Len(fromEngine) <= Len(fromEngine')
         /\ \A j \in 1..Len(fromEngine) : j \in 1..Len(fromEngine') /\ fromEngine'[j] = fromEngine[j]
         /\ \A d : Sent(d) => Sent(d)'
<1>0. Len(fromEngine) \in Nat
  BY DEF TypeOK, RunTypeOK
<1>1. CASE fromEngine' = fromEngine
  BY <1>0, <1>1 DEF Sent
<1>2. ASSUME NEW m \in FromEngine, Put(m)
      PROVE  /\ Len(fromEngine') \in Nat /\ Len(fromEngine) <= Len(fromEngine')
             /\ \A j \in 1..Len(fromEngine) : j \in 1..Len(fromEngine') /\ fromEngine'[j] = fromEngine[j]
  BY <1>0, <1>2, PutFacts
<1>3. (\E m \in FromEngine : Put(m)) \/ fromEngine' = fromEngine
  BY RustOnPipes DEF View, Get, ExitWith, runVars, pipeVars
<1>4. CASE \E m \in FromEngine : Put(m)
  <2>1. /\ Len(fromEngine') \in Nat /\ Len(fromEngine) <= Len(fromEngine')
        /\ \A j \in 1..Len(fromEngine) : j \in 1..Len(fromEngine') /\ fromEngine'[j] = fromEngine[j]
    BY <1>2, <1>4
  <2> QED  BY <1>0, <2>1 DEF Sent
<1> QED
  BY <1>1, <1>3, <1>4

\* A step that is neither the start of a query nor its response leaves the query as it is.
LEMMA QueryFrame ==
  ASSUME Rust \/ (Fault /\ RustKilled), ~Spawn
  PROVE  /\ UNCHANGED <<plan, fromSub, squeue, state, spc, sasked, talk>>
         /\ NativeReport \/ raised' = raised
         /\ InQuery' => (InQuery /\ step' = step /\ rpc # "report") \/ UNCHANGED <<rpc, step>>
         /\ InQuery' => OnResponse \/ response' = response
BY DEF Rust, ReadEngineInput, ReadInputEof, WriteBroken, NativeReport, NativeDone, Printed,
   WriteQueued, ReportDone, ReturnFromMain, RustDies, SendQuery, SendToSub, SendToSubBroken, OnResponse,
   OnSubGarbage, OnSubExit, OnSubEof, Proxy, Relay, WaitSub, RustPanic, TakeFromSub, Fault, RustKilled,
   InQuery, rustVars, subPipes, subVars

LEMMA RustResponse ==
  ASSUME TypeOK, Lifetimes, Answers, Rust \/ (Fault /\ RustKilled)
  PROVE  NoAnswerYet' /\ ResponseHolds'
<1>1. CASE Spawn
  BY <1>1 DEF Spawn, NoAnswerYet, ResponseHolds, Carried, NoResponse
<1>2. CASE ~Spawn
  <2>1. NoAnswerYet'
    BY <1>2, QueryFrame DEF Answers, NoAnswerYet
  <2>2. ASSUME InQuery'  PROVE InQuery /\ step' = step /\ plan' = plan /\ Carried' = Carried
                               /\ UNCHANGED <<fromSub, squeue, state, spc, raised>>
    <3>1. InQuery /\ step' = step
      BY <1>2, <2>2, QueryFrame DEF InQuery
    <3>2. ~NativeReport
      BY <3>1 DEF NativeReport, InQuery
    <3> QED  BY <1>2, <3>1, <3>2, QueryFrame DEF Carried
  <2>3. CASE OnResponse
    <3>1. /\ response' = <<SubMsg.diags>> /\ rread + 1 \in 1..Len(fromSub) /\ SubMsg = fromSub[rread + 1]
          /\ SubMsg.kind = "Response" /\ rpc' = rpc /\ InQuery
      BY <2>3, TypeParts DEF OnResponse, TakeFromSub, SubMsg, SubPipesOK, InQuery
    <3>2. SubMsg.diags = Carried
      BY <3>1 DEF Answers, ResponseHolds
    <3>3. spc \in Final
      BY <3>1, TypeParts DEF Answers, NoAnswerYet, SubVarsOK, Working, Final
    <3>4. InQuery'
      BY <3>1 DEF InQuery
    <3> QED  BY <2>1, <2>2, <3>1, <3>2, <3>3, <3>4 DEF Answers, ResponseHolds
  <2>4. CASE ~OnResponse
    <3>1. InQuery' => response' = response
      BY <1>2, <2>4, QueryFrame
    <3> QED  BY <2>1, <2>2, <3>1 DEF Answers, ResponseHolds
  <2> QED  BY <2>3, <2>4
<1> QED
  BY <1>1, <1>2

\* The Rust engine reports what the response of a successful query carries.
LEMMA ReportedAnswer ==
  ASSUME TypeOK, Lifetimes, Answers, WaitSub, Succeeded, UNCHANGED plan
  PROVE  /\ rpc = "wait" /\ rpc' = "report" /\ UNCHANGED <<fromEngine, raised, step, state>>
         /\ queue' = DiagnosticMsgs(Carried) /\ Carried \in Seq(Diag)
         /\ \A k \in 1..Len(Carried) : k \in 1..Len(queue') /\ queue'[k] = DiagnosticMsg(Carried[k])
         /\ \A k \in 1..Len(queue') : k \in 1..Len(Carried)
<1>1. rpc = "wait" /\ rpc' = "report" /\ UNCHANGED <<fromEngine, raised, step, state>> /\ queue' = DiagnosticMsgs(response[1])
  BY DEF WaitSub, Succeeded, runVars, pipeVars, subVars
<1>2. response[1] = Carried
  BY <1>1 DEF Succeeded, Answers, ResponseHolds, InQuery
<1>3. Carried \in Seq(Diag)
  BY TypeParts DEF Carried, SubVarsOK
<1>4. PICK c \in Seq(Diag) : c = Carried
  BY <1>3
<1>5. /\ \A k \in 1..Len(c) : k \in 1..Len(queue') /\ queue'[k] = DiagnosticMsg(c[k])
      /\ \A k \in 1..Len(queue') : k \in 1..Len(c)
  BY <1>1, <1>2, <1>4 DEF DiagnosticMsgs
<1> QED
  BY <1>1, <1>2, <1>3, <1>4, <1>5

LEMMA RustRaised ==
  ASSUME TypeOK, Lifetimes, View, Answers, Rust \/ (Fault /\ RustKilled)
  PROVE  RaisedWhere'
<1> SUFFICES ASSUME NEW r \in raised'
             PROVE  \/ r[1] = "Print"
                    \/ Sent(r[2])'
                    \/ /\ rpc' \in {"send", "proxy", "relay", "wait"}
                       /\ r[1] = plan'[step'] /\ \E i \in 1..Len(state') : state'[i] = r[2]
                    \/ rpc' = "report" /\ \E k \in 1..Len(queue') : queue'[k] = DiagnosticMsg(r[2])
                    \/ rpc' = "panic"
                    \/ rpc' = "dead" /\ exitCode' # 0
  BY DEF RaisedWhere
<1>0. /\ \A d : Sent(d) => Sent(d)'
      /\ plan' = plan /\ queue \in Seq(FromEngine)
  BY StreamGrows DEF TypeOK, Rust, Fault
<1>1. CASE NativeReport
  <2>1. PICK d \in Diag : Put(DiagnosticMsg(d)) /\ raised' = raised \cup {<<"Native", d>>}
    BY <1>1 DEF NativeReport
  <2>2. Sent(d)'
    <3>1. DiagnosticMsg(d) \in FromEngine
      BY MessageTypes
    <3>2. Len(fromEngine') \in 1..Len(fromEngine') /\ fromEngine'[Len(fromEngine')] = DiagnosticMsg(d)
      BY <2>1, <3>1, PutFacts
    <3> QED  BY <3>2 DEF Sent
  <2>3. rpc = "dispatch" /\ exitCode = Running /\ rpc' = "dispatch"
    BY <1>1 DEF NativeReport, Put, rustVars
  <2>4. CASE r \in raised
    BY <1>0, <2>3, <2>4 DEF Answers, RaisedWhere
  <2>5. CASE r = <<"Native", d>>
    BY <2>2, <2>5
  <2> QED  BY <2>1, <2>4, <2>5
<1>2. CASE r \in raised /\ Sent(r[2])
  BY <1>0, <1>2
<1>3. CASE r \in raised /\ ~NativeReport /\ ~Sent(r[2])
  <2>1. \/ r[1] = "Print"
        \/ /\ rpc \in {"send", "proxy", "relay", "wait"}
           /\ r[1] = plan[step] /\ \E i \in 1..Len(state) : state[i] = r[2]
        \/ rpc = "report" /\ \E k \in 1..Len(queue) : queue[k] = DiagnosticMsg(r[2])
        \/ rpc = "panic"
        \/ rpc = "dead" /\ exitCode # 0
    BY <1>3 DEF Answers, RaisedWhere
  <2>2. CASE r[1] # "Print" /\ rpc \in {"send", "proxy", "relay", "wait"}
    <3>1. r[1] = plan[step] /\ \E i \in 1..Len(state) : state[i] = r[2]
      BY <2>1, <2>2
    <3>2. CASE WaitSub /\ Succeeded
      <4>1. Carried = state
        BY <2>2, <3>1 DEF Carried
      <4>2. /\ rpc' = "report"
            /\ \A k \in 1..Len(Carried) : k \in 1..Len(queue') /\ queue'[k] = DiagnosticMsg(Carried[k])
        BY <1>0, <3>2, ReportedAnswer
      <4> QED  BY <3>1, <4>1, <4>2
    <3>3. CASE WaitSub /\ ~Succeeded
      BY <3>3 DEF WaitSub, RustPanic
    <3>4. CASE ~WaitSub
      <4>1. ~Spawn
        BY <2>2 DEF Spawn
      <4>2. UNCHANGED <<state, plan>>
        BY <4>1, QueryFrame
      <4>3. \/ rpc' \in {"send", "proxy", "relay", "wait"} /\ step' = step
            \/ rpc' = "panic"
            \/ rpc' = "dead" /\ exitCode' = 137
        BY <2>2, <3>4, <4>1 DEF Rust, ReadEngineInput, ReadInputEof, WriteBroken, NativeReport, NativeDone, Printed,
           WriteQueued, ReportDone, ReturnFromMain, RustDies, SendQuery, SendToSubBroken, OnResponse,
           OnSubGarbage, OnSubExit, OnSubEof, Proxy, Relay, RustPanic, TakeFromSub, Fault, RustKilled, ExitWith
      <4> QED  BY <3>1, <4>2, <4>3
    <3> QED  BY <3>2, <3>3, <3>4
  <2>3. CASE rpc = "report" /\ \E k \in 1..Len(queue) : queue[k] = DiagnosticMsg(r[2])
    <3>1. PICK k \in 1..Len(queue) : queue[k] = DiagnosticMsg(r[2])
      BY <2>3
    <3>2. CASE WriteQueued
      <4>1. /\ rpc' = "report" /\ Head(queue) \in FromEngine /\ Put(Head(queue)) /\ Len(queue) \in Nat
            /\ Len(queue') = Len(queue) - 1 /\ \A j \in 1..Len(queue') : queue'[j] = queue[j + 1]
            /\ Head(queue) = queue[1]
        BY <1>0, <2>3, <3>2 DEF WriteQueued
      <4>2. CASE k = 1
        <5>1. Len(fromEngine') \in 1..Len(fromEngine') /\ fromEngine'[Len(fromEngine')] = Head(queue)
          BY <4>1, PutFacts
        <5> QED  BY <3>1, <4>1, <4>2, <5>1 DEF Sent
      <4>3. CASE k # 1
        <5>1. k - 1 \in 1..Len(queue') /\ queue'[k - 1] = queue[k]
          BY <3>1, <4>1, <4>3
        <5> QED  BY <3>1, <4>1, <5>1
      <4> QED  BY <4>2, <4>3
    <3>3. CASE ~WriteQueued
      <4>1. \/ UNCHANGED <<rpc, queue>> \/ rpc' = "panic" \/ (rpc' = "dead" /\ exitCode' = 137)
        BY <2>3, <3>1, <3>3 DEF Rust, ReadEngineInput, ReadInputEof, WriteBroken, NativeReport, NativeDone, Printed,
           ReportDone, ReturnFromMain, RustDies, Spawn, SendQuery, SendToSubBroken, OnResponse,
           OnSubGarbage, OnSubExit, OnSubEof, Proxy, Relay, WaitSub, RustPanic, TakeFromSub, Fault, RustKilled, ExitWith
      <4> QED  BY <2>3, <4>1
    <3> QED  BY <3>2, <3>3
  <2>4. CASE rpc = "panic"
    <3>1. rpc' = "panic" \/ (rpc' = "dead" /\ exitCode' \in {101, 137})
      BY <2>4 DEF Rust, ReadEngineInput, ReadInputEof, WriteBroken, NativeReport, NativeDone, Printed,
         WriteQueued, ReportDone, ReturnFromMain, RustDies, Spawn, SendQuery, SendToSubBroken, OnResponse,
         OnSubGarbage, OnSubExit, OnSubEof, Proxy, Relay, WaitSub, RustPanic, TakeFromSub, Fault, RustKilled, ExitWith
    <3> QED  BY <3>1
  <2>5. CASE rpc = "dead" /\ exitCode # 0
    <3>1. FALSE
      BY <2>5 DEF Rust, ReadEngineInput, ReadInputEof, WriteBroken, NativeReport, NativeDone, Printed,
         WriteQueued, ReportDone, ReturnFromMain, RustDies, Spawn, SendQuery, SendToSubBroken, OnResponse,
         OnSubGarbage, OnSubExit, OnSubEof, Proxy, Relay, WaitSub, TakeFromSub, Fault, RustKilled
    <3> QED  BY <3>1
  <2> QED  BY <2>1, <2>2, <2>3, <2>4, <2>5
<1>4. NativeReport \/ r \in raised
  <2>1. CASE Spawn
    BY <2>1 DEF Spawn
  <2> QED  BY <2>1, QueryFrame
<1> QED
  BY <1>1, <1>2, <1>3, <1>4

LEMMA RustInventsNothing ==
  ASSUME TypeOK, Lifetimes, View, Answers, Rust \/ (Fault /\ RustKilled)
  PROVE  NoneInvented'
<1>0. raised \subseteq raised' /\ queue \in Seq(FromEngine) /\ plan' = plan
  <2>1. raised \subseteq raised'
    BY QueryFrame DEF Spawn, NativeReport
  <2>2. plan' = plan
    BY DEF Rust, Fault
  <2> QED  BY <2>1, <2>2 DEF TypeOK
<1>1. ASSUME NEW m \in FromEngine, Put(m), m.kind = "Diagnostic" => \E k \in Shown : <<k, m.diag>> \in raised'
      PROVE  \A j \in 1..Len(fromEngine') :
               fromEngine'[j].kind = "Diagnostic" => \E k \in Shown : <<k, fromEngine'[j].diag>> \in raised'
  BY <1>0, <1>1, PutFacts DEF Answers, NoneInvented
<1>2. ASSUME fromEngine' = fromEngine
      PROVE  \A j \in 1..Len(fromEngine') :
               fromEngine'[j].kind = "Diagnostic" => \E k \in Shown : <<k, fromEngine'[j].diag>> \in raised'
  BY <1>0, <1>2 DEF Answers, NoneInvented
<1>3. CASE NativeReport
  <2>1. PICK d \in Diag : Put(DiagnosticMsg(d)) /\ raised' = raised \cup {<<"Native", d>>}
    BY <1>3 DEF NativeReport
  <2>2. DiagnosticMsg(d) \in FromEngine /\ DiagnosticMsg(d).diag = d
    BY MessageTypes DEF DiagnosticMsg
  <2>3. rpc' # "report"
    BY <1>3 DEF NativeReport, rustVars
  <2> QED  BY <1>1, <2>1, <2>2, <2>3 DEF NoneInvented, Shown
<1>4. CASE WriteQueued
  <2>1. /\ rpc' = rpc /\ Head(queue) \in FromEngine /\ Put(Head(queue)) /\ Len(queue) \in Nat
        /\ Len(queue') = Len(queue) - 1 /\ \A j \in 1..Len(queue') : queue'[j] = queue[j + 1]
        /\ Head(queue) = queue[1] /\ 1 \in 1..Len(queue) /\ rpc \in {"report", "files"}
    BY <1>0, <1>4 DEF WriteQueued
  <2>2. Head(queue).kind = "Diagnostic" => \E k \in Shown : <<k, Head(queue).diag>> \in raised'
    BY <1>0, <2>1 DEF View, QueueKinds, Answers, NoneInvented
  <2>3. rpc' = "report" => \A j \in 1..Len(queue') : \E k \in Shown : <<k, queue'[j].diag>> \in raised'
    <3>1. \A j \in 1..Len(queue') : j + 1 \in 1..Len(queue)
      BY <2>1
    <3>2. rpc' = "report" => \A j \in 1..Len(queue) : \E k \in Shown : <<k, queue[j].diag>> \in raised'
      BY <1>0, <2>1 DEF Answers, NoneInvented
    <3> QED  BY <2>1, <3>1, <3>2
  <2> QED  BY <1>1, <2>1, <2>2, <2>3 DEF NoneInvented
<1>5. CASE Proxy
  <2>1. SubMsg \in FromSub /\ SubMsg.kind \in Proxied
    BY <1>5, TypeParts, TakeType DEF Proxy
  <2>2. SubMsg \in FromEngine /\ SubMsg.kind # "Diagnostic" /\ Put(SubMsg) /\ rpc' # "report"
    BY <1>5, <2>1, SubMsgTypes DEF Proxy
  <2> QED  BY <1>1, <2>2 DEF NoneInvented
<1>6. CASE WaitSub /\ Succeeded
  <2>1. /\ rpc = "wait" /\ rpc' = "report" /\ UNCHANGED <<fromEngine, raised, step, state>>
        /\ Carried \in Seq(Diag)
        /\ \A k \in 1..Len(Carried) : k \in 1..Len(queue') /\ queue'[k] = DiagnosticMsg(Carried[k])
        /\ \A k \in 1..Len(queue') : k \in 1..Len(Carried)
    BY <1>0, <1>6, ReportedAnswer
  <2>2. \A j \in 1..Len(queue') : \E k \in Shown : <<k, queue'[j].diag>> \in raised'
    <3> SUFFICES ASSUME NEW j \in 1..Len(queue')  PROVE \E k \in Shown : <<k, queue'[j].diag>> \in raised'
      OBVIOUS
    <3>1. j \in 1..Len(Carried) /\ queue'[j].diag = Carried[j]
      <4>1. \A d : DiagnosticMsg(d).diag = d
        BY DEF DiagnosticMsg
      <4>2. j \in 1..Len(Carried) /\ queue'[j] = DiagnosticMsg(Carried[j])
        BY <2>1
      <4> QED  BY <4>1, <4>2
    <3>2. plan[step] # "Print" /\ Carried = state
      BY <3>1 DEF Carried
    <3>3. plan[step] \in Shown
      BY <2>1, <3>2 DEF Lifetimes, InQuery, QueryKind, Shown
    <3>4. <<plan[step], state[j]>> \in raised
      BY <2>1, <3>1, <3>2 DEF Answers, ResponseHolds, InQuery
    <3> QED  BY <1>0, <3>1, <3>2, <3>3, <3>4
  <2> QED  BY <1>2, <2>1, <2>2 DEF NoneInvented
<1>7. CASE ~NativeReport /\ ~WriteQueued /\ ~Proxy /\ ~(WaitSub /\ Succeeded)
  <2>1. fromEngine' = fromEngine /\ rpc' # "report"
    BY <1>7 DEF Rust, ReadEngineInput, ReadInputEof, WriteBroken, NativeDone, Printed,
         ReportDone, ReturnFromMain, RustDies, Spawn, SendQuery, SendToSubBroken, OnResponse,
         OnSubGarbage, OnSubExit, OnSubEof, Relay, WaitSub, RustPanic, TakeFromSub, Fault, RustKilled,
         Get, ExitWith, runVars, pipeVars
  <2> QED  BY <1>2, <2>1 DEF NoneInvented
<1> QED
  BY <1>3, <1>4, <1>5, <1>6, <1>7

THEOREM AnswersInvariance == Spec => []Answers
<1>1. Init => Answers
  BY DEF Init, RunInit, Answers, NoAnswerYet, ResponseHolds, RaisedWhere, NoneInvented, InQuery, Working
<1>2. TypeOK /\ Lifetimes /\ View /\ Answers /\ [Next]_vars => Answers'
  <2> SUFFICES ASSUME TypeOK, Lifetimes, View, Answers, [Next]_vars  PROVE Answers'
    OBVIOUS
  <2>1. CASE UNCHANGED vars \/ Client \/ (Fault /\ KillClient)
    <3>1. UNCHANGED <<fromEngine, exitCode, plan, rpc, step, response, queue, fromSub, spc, squeue, state, raised>>
      BY <2>1, ClientFrame DEF vars, runVars, pipeVars, rustVars, subPipes, subVars
    <3>2. NoAnswerYet' /\ ResponseHolds'
      BY <3>1 DEF Answers, NoAnswerYet, ResponseHolds, Carried, InQuery
    <3>3. RaisedWhere' /\ NoneInvented'
      BY <3>1 DEF Answers, RaisedWhere, NoneInvented, Sent
    <3> QED  BY <3>2, <3>3 DEF Answers
  <2>2. CASE Rust \/ (Fault /\ RustKilled)
    BY <2>2, RustResponse, RustRaised, RustInventsNothing DEF Answers
  <2> QED  BY <2>1, <2>2, NextCases, SubAnswers
<1> QED
  BY LifetimesInvariance, ViewInvariance, <1>1, <1>2, PTL DEF Spec

(***************************************************************************)
(* Through up to three processes and two reports per diagnostic: when      *)
(* run_engine returns, the user was shown exactly the diagnostics raised   *)
(* while importing, applying OCaml phases or running Rust phases, and the  *)
(* verdict says whether there are any.                                     *)
(***************************************************************************)
THEOREM VerdictIsFaithful == Spec => []VerdictFaithful
<1>1. TypeOK /\ Lifetimes /\ View /\ Answers => VerdictFaithful
  <2> SUFFICES ASSUME TypeOK, Lifetimes, View, Answers, result = "returned"
               PROVE  reported = RaisedIn({"ImportThir", "ApplyPhases", "Native"}) /\ (error <=> reported # {})
    BY DEF VerdictFaithful
  <2>1. exitCode = 0 /\ rpc = "dead" /\ cread = Len(fromEngine) /\ reported \subseteq Diag
    BY DEF Lifetimes, View, AllIsRead, TypeOK, RunTypeOK, Running
  <2>2. \A d \in Diag : d \in reported <=> Sent(d)
    BY <2>1 DEF View, ReadIsShown, Sent
  <2>3. \A d \in RaisedIn(Shown) : d \in reported
    <3> SUFFICES ASSUME NEW r \in raised, r[1] \in Shown  PROVE r[2] \in reported
      BY DEF RaisedIn
    <3>1. r[2] \in Diag
      BY TypeParts DEF RaisedOK
    <3>2. r[1] # "Print"
      BY DEF Shown
    <3>3. Sent(r[2])
      BY <2>1, <3>2 DEF Answers, RaisedWhere
    <3> QED  BY <2>2, <3>1, <3>3
  <2>4. \A d \in reported : d \in RaisedIn(Shown)
    <3> SUFFICES ASSUME NEW d \in reported  PROVE d \in RaisedIn(Shown)
      OBVIOUS
    <3>1. PICK j \in 1..Len(fromEngine) : fromEngine[j] = DiagnosticMsg(d)
      BY <2>1, <2>2 DEF Sent
    <3>2. fromEngine[j].kind = "Diagnostic" /\ fromEngine[j].diag = d
      BY <3>1 DEF DiagnosticMsg
    <3>3. PICK k \in Shown : <<k, d>> \in raised
      BY <3>2 DEF Answers, NoneInvented
    <3> QED  BY <3>3 DEF RaisedIn
  <2>5. error <=> reported # {}
    BY DEF View, ReadIsShown
  <2> QED  BY <2>3, <2>4, <2>5 DEF Shown
<1> QED
  BY LifetimesInvariance, ViewInvariance, AnswersInvariance, <1>1, PTL

-----------------------------------------------------------------------------
(***************************************************************************)
(* The order of an answer: a subprocess that ends with success has written *)
(* its response and last its Exit, so that the Rust engine, which stops    *)
(* reading at Exit, has taken the response and has missed nothing.         *)
(***************************************************************************)
HasResponse(msgs) == \E j \in 1..Len(msgs) : msgs[j].kind = "Response"

AnswerKinds ==
  /\ \A j \in 1..Len(squeue) : squeue[j].kind \in {"File", "DebugString", "Response", "Exit"}
  /\ \A j \in 1..Len(squeue) : squeue[j].kind = "Exit" => j = Len(squeue)
  /\ \A j \in 1..Len(fromSub) : fromSub[j].kind = "Exit" => j = Len(fromSub) /\ squeue = << >>
  /\ subExit = 0 => squeue = << >>

ReadToTheEnd ==
  rpc \in {"load", "dispatch", "wait", "report", "files"} \/ exitCode = 0 => rread = Len(fromSub)

ResponseComes ==
  /\ spc = "answer" \/ (InQuery /\ subExit = 0) => HasResponse(fromSub) \/ HasResponse(squeue)
  /\ InQuery => subExit # NoSub /\ \A j \in 1..rread : fromSub[j].kind = "Response" => response # NoResponse

AnswerOrder == AnswerKinds /\ ReadToTheEnd /\ ResponseComes

LEMMA SubPipesFrame ==
  ASSUME Sub \/ (Fault /\ (SubRaisesException \/ SubDebugPrint \/ SubKilled))
  PROVE  rread' = rread /\ toSub' = toSub /\ (fromSub' = fromSub \/ RustEndsOpen)
BY DEF Sub, Fault, SubLoad, SubReadEof, SubImport, SubImportFatal, SubReport, SubFatal, SubProfile,
   SubRequest, SubTalk, SubReadReply, SubFinish, SubAnswer, SubReturns, SubBroken, SubDies,
   SubRaisesException, SubDebugPrint, SubKilled, SubGet, SubPut, SubExitWith, subPipes

LEMMA SubOrder ==
  ASSUME TypeOK, Lifetimes, Answers, AnswerOrder, Sub \/ (Fault /\ (SubRaisesException \/ SubDebugPrint \/ SubKilled))
  PROVE  AnswerOrder'
<1>0. /\ fromSub \in Seq(FromSub) /\ squeue \in Seq(FromSub) /\ state \in Seq(Diag)
      /\ Len(fromSub) \in Nat /\ Len(squeue) \in Nat /\ rread \in 0..Len(fromSub)
  BY TypeParts DEF SubPipesOK, SubVarsOK
<1>1. /\ rpc \in {"send", "proxy", "relay", "wait", "panic", "dead"} /\ exitCode # 0
      /\ UNCHANGED <<plan, rpc, step, response, queue, fromEngine, exitCode>>
      /\ subExit = Running /\ Running \notin {0, NoSub} /\ Query = plan[step]
  BY SubAtWork DEF Running, NoSub
<1>2. rread' = rread /\ (fromSub' = fromSub \/ RustEndsOpen) /\ (InQuery' <=> InQuery)
  BY <1>1, SubPipesFrame DEF InQuery
<1>3. ReadToTheEnd'
  BY <1>1, <1>2 DEF AnswerOrder, ReadToTheEnd, RustEndsOpen
<1>4. subExit' # NoSub
  <2>1. subExit' \in {subExit, 0, 2, 137}
    BY DEF Sub, Fault, SubLoad, SubReadEof, SubImport, SubImportFatal, SubReport, SubFatal, SubProfile,
       SubRequest, SubTalk, SubReadReply, SubFinish, SubAnswer, SubReturns, SubBroken, SubDies,
       SubRaisesException, SubDebugPrint, SubKilled, SubGet, SubPut, SubExitWith, subPipes
  <2> QED  BY <1>1, <2>1 DEF NoSub
<1>5. ASSUME \A j \in 1..Len(fromSub) : j \in 1..Len(fromSub') /\ fromSub'[j] = fromSub[j]
      PROVE  InQuery' => \A j \in 1..rread' : fromSub'[j].kind = "Response" => response' # NoResponse
  BY <1>0, <1>1, <1>2, <1>5 DEF AnswerOrder, ResponseComes
<1>6. CASE SubQuiet
  <2>1. AnswerKinds'
    BY <1>1, <1>6 DEF SubQuiet, AnswerOrder, AnswerKinds
  <2>2. ResponseComes'
    <3>1. InQuery' => \A j \in 1..rread' : fromSub'[j].kind = "Response" => response' # NoResponse
      BY <1>5, <1>6 DEF SubQuiet
    <3>2. subExit' = 0 => spc = "answer"
      BY <1>1, <1>6 DEF SubQuiet
    <3> QED  BY <1>4, <1>6, <3>1, <3>2 DEF SubQuiet, AnswerOrder, ResponseComes, HasResponse
  <2> QED  BY <1>3, <2>1, <2>2 DEF AnswerOrder
<1>7. ASSUME NEW m \in FromSub, SubSays(m)  PROVE AnswerOrder'
  <2>1. /\ Len(fromSub') = Len(fromSub) + 1 /\ fromSub'[Len(fromSub')] = m
        /\ \A j \in 1..Len(fromSub) : j \in 1..Len(fromSub') /\ fromSub'[j] = fromSub[j]
        /\ \A j \in 1..Len(fromSub') : j \in 1..Len(fromSub) \/ j = Len(fromSub')
    BY <1>0, <1>7 DEF SubSays
  <2>2. spc = "work" /\ spc' # "answer" /\ squeue' = squeue /\ squeue = << >> /\ subExit' = subExit
    BY <1>7 DEF SubSays, Answers, NoAnswerYet, Working
  <2>3. \A j \in 1..Len(fromSub') : fromSub'[j].kind # "Exit"
    BY <1>7, <2>1, <2>2 DEF SubSays, Answers, NoAnswerYet, Working
  <2>4. AnswerKinds'
    BY <1>1, <2>2, <2>3 DEF AnswerKinds
  <2>5. ResponseComes'
    BY <1>1, <1>4, <1>5, <2>1, <2>2 DEF ResponseComes
  <2> QED  BY <1>3, <2>4, <2>5 DEF AnswerOrder
<1>8. CASE SubRaises
  <2>1. spc' # "answer" /\ squeue' = squeue /\ fromSub' = fromSub /\ subExit' = subExit
    BY <1>8 DEF SubRaises
  <2>2. AnswerKinds'
    BY <2>1 DEF AnswerOrder, AnswerKinds
  <2>3. ResponseComes'
    BY <1>1, <1>4, <1>5, <2>1 DEF ResponseComes
  <2> QED  BY <1>3, <2>2, <2>3 DEF AnswerOrder
<1>9. ASSUME NEW files \in SomeFiles, NEW debug \in Nat, SubConcludes(files, debug)
      PROVE  AnswerOrder'
  <2>1. /\ spc \in {"import", "work"} /\ spc' = "answer" /\ state' \in Seq(Diag) /\ subExit' = subExit
        /\ squeue' = Answer(files, state', debug)
    BY <1>0, <1>9 DEF SubConcludes
  <2>2. files \in Seq(File)
    <3>1. << >> \in Seq(File)
      OBVIOUS
    <3> QED  BY <1>9, <3>1, MessageTypes DEF SomeFiles
  <2>3. /\ \A j \in 1..Len(squeue') : squeue'[j].kind \in {"File", "DebugString", "Response", "Exit"}
        /\ \A j \in 1..Len(squeue') : squeue'[j].kind = "Exit" => j = Len(squeue')
        /\ HasResponse(squeue')
    <3>1. PICK s \in Seq(Diag) : s = state'
      BY <2>1
    <3>2. PICK ds : ds = IF Query = "Print" THEN << >> ELSE s
      OBVIOUS
    <3>3. PICK a : a = squeue'
      OBVIOUS
    <3>7. a = Answer(files, s, debug) /\ s \in Seq(Diag)
      BY <2>1, <3>1, <3>3
    <3>9. files \in Seq(File)
      BY <2>2
    <3>4. /\ a \in Seq(FromSub)
          /\ \A k \in 1..Len(a) :
               \/ k \in 1..Len(files) /\ a[k] = FileMsg(files[k])
               \/ a[k] = Plain("DebugString")
               \/ k = Len(a) - 1 /\ a[k] = [kind |-> "Response", diags |-> ds]
               \/ k = Len(a) /\ a[k] = Plain("Exit")
      BY <3>2, <3>7, <3>9, AnswerParts
    <3>8. \E k \in 1..Len(a) : a[k].kind = "Response"
      BY <3>2, <3>7, <3>9, AnswerParts
    <3>5. /\ \A f : FileMsg(f).kind = "File"
          /\ Plain("DebugString").kind = "DebugString" /\ Plain("Exit").kind = "Exit"
      BY DEF FileMsg, Plain
    <3>6. \A k \in 1..Len(a) : \/ a[k].kind \in {"File", "DebugString", "Response"}
                               \/ k = Len(a) /\ a[k].kind = "Exit"
      BY <3>4, <3>5
    <3> QED  BY <3>3, <3>6, <3>8 DEF HasResponse
  <2>4. /\ \A j \in 1..Len(fromSub) : j \in 1..Len(fromSub') /\ fromSub'[j] = fromSub[j]
        /\ \A j \in 1..Len(fromSub') : fromSub'[j].kind # "Exit"
    <3>0. \A j \in 1..Len(fromSub) : fromSub[j].kind # "Exit"
      BY <2>1 DEF Answers, NoAnswerYet, Working
    <3>1. CASE fromSub' = fromSub
      BY <3>0, <3>1
    <3>2. CASE \E items \in SUBSET Item : fromSub' = Append(fromSub, ItemProcessedMsg(items))
      <4>1. PICK items \in SUBSET Item : fromSub' = Append(fromSub, ItemProcessedMsg(items))
        BY <3>2
      <4>2. ItemProcessedMsg(items) \in FromSub /\ ItemProcessedMsg(items).kind = "ItemProcessed"
        BY MessageTypes DEF ItemProcessedMsg
      <4>3. PICK m \in FromSub : m = ItemProcessedMsg(items)
        BY <4>2
      <4>4. /\ \A j \in 1..Len(fromSub) : j \in 1..Len(fromSub') /\ fromSub'[j] = fromSub[j]
            /\ \A j \in 1..Len(fromSub') : fromSub'[j] = m \/ (j \in 1..Len(fromSub) /\ fromSub'[j] = fromSub[j])
        BY <1>0, <4>1, <4>3
      <4> QED  BY <3>0, <4>2, <4>3, <4>4
    <3> QED  BY <1>9, <3>1, <3>2 DEF SubConcludes
  <2>5. AnswerKinds'
    BY <1>1, <2>1, <2>3, <2>4 DEF AnswerKinds
  <2>6. ResponseComes'
    <3>1. InQuery' => \A j \in 1..rread' : fromSub'[j].kind = "Response" => response' # NoResponse
      BY <1>5, <2>4
    <3>2. \E j \in 1..Len(squeue') : squeue'[j].kind = "Response"
      BY <2>3 DEF HasResponse
    <3> QED  BY <1>4, <3>1, <3>2 DEF ResponseComes, HasResponse
  <2> QED  BY <1>3, <2>5, <2>6 DEF AnswerOrder
<1>10. CASE SubWrites
  <2>1. /\ Len(fromSub') = Len(fromSub) + 1 /\ fromSub'[Len(fromSub')] = squeue[1]
        /\ \A j \in 1..Len(fromSub) : j \in 1..Len(fromSub') /\ fromSub'[j] = fromSub[j]
        /\ \A j \in 1..Len(fromSub') : j \in 1..Len(fromSub) \/ j = Len(fromSub')
        /\ 1 \in 1..Len(squeue) /\ Len(fromSub') \in 1..Len(fromSub')
    BY <1>0, <1>10 DEF SubWrites
  <2>2. /\ squeue' \in Seq(FromSub) /\ Len(squeue') = Len(squeue) - 1
        /\ \A j \in 1..Len(squeue') : squeue'[j] = squeue[j + 1] /\ j + 1 \in 1..Len(squeue)
        /\ \A j \in 1..Len(squeue) : j = 1 \/ (j - 1 \in 1..Len(squeue') /\ squeue'[j - 1] = squeue[j])
    BY <1>0, <1>10 DEF SubWrites
  <2>3. spc' = spc /\ spc = "answer" /\ subExit' = subExit /\ squeue # << >>
    BY <1>10 DEF SubWrites
  <2>4. \A j \in 1..Len(fromSub') : fromSub'[j].kind = "Exit" => j = Len(fromSub') /\ squeue' = << >>
    <3> SUFFICES ASSUME NEW j \in 1..Len(fromSub'), fromSub'[j].kind = "Exit"
                 PROVE  j = Len(fromSub') /\ squeue' = << >>
      OBVIOUS
    <3>1. j = Len(fromSub')
      BY <2>1, <2>3 DEF AnswerOrder, AnswerKinds
    <3>2. 1 = Len(squeue)
      BY <2>1, <3>1 DEF AnswerOrder, AnswerKinds
    <3>3. \A q \in Seq(FromSub) : Len(q) = 0 => q = << >>
      OBVIOUS
    <3>4. squeue' \in Seq(FromSub) /\ Len(squeue') = 0
      <4>1. squeue' \in Seq(FromSub) /\ Len(squeue') = Len(squeue) - 1
        BY <2>2
      <4> QED  BY <3>2, <4>1
    <3>5. squeue' = << >>
      BY <3>3, <3>4
    <3> QED  BY <3>1, <3>5
  <2>5. /\ \A j \in 1..Len(squeue') : squeue'[j].kind \in {"File", "DebugString", "Response", "Exit"}
        /\ \A j \in 1..Len(squeue') : squeue'[j].kind = "Exit" => j = Len(squeue')
    BY <1>0, <2>2 DEF AnswerOrder, AnswerKinds
  <2>6. AnswerKinds'
    BY <1>1, <2>3, <2>4, <2>5 DEF AnswerKinds
  <2>7. HasResponse(fromSub') \/ HasResponse(squeue')
    <3>1. CASE \E j \in 1..Len(fromSub) : fromSub[j].kind = "Response"
      BY <2>1, <3>1 DEF HasResponse
    <3>2. CASE \E j \in 1..Len(squeue) : squeue[j].kind = "Response"
      <4>1. PICK j \in 1..Len(squeue) : squeue[j].kind = "Response"
        BY <3>2
      <4>2. CASE j = 1
        BY <2>1, <4>1, <4>2 DEF HasResponse
      <4>3. CASE j # 1
        BY <2>2, <4>1, <4>3 DEF HasResponse
      <4> QED  BY <4>2, <4>3
    <3> QED  BY <2>3, <3>1, <3>2 DEF AnswerOrder, ResponseComes, HasResponse
  <2>8. ResponseComes'
    <3>1. InQuery' => \A j \in 1..rread' : fromSub'[j].kind = "Response" => response' # NoResponse
      BY <1>5, <2>1
    <3> QED  BY <1>4, <2>7, <3>1 DEF ResponseComes, HasResponse
  <2> QED  BY <1>3, <2>6, <2>8 DEF AnswerOrder
<1> QED
  BY <1>6, <1>7, <1>8, <1>9, <1>10, SubCases

LEMMA RustOrder ==
  ASSUME TypeOK, Lifetimes, AnswerOrder, Rust \/ (Fault /\ RustKilled)
  PROVE  AnswerOrder'
<1>0. Len(fromSub) \in Nat /\ rread \in 0..Len(fromSub) /\ Running \notin {0, NoSub} /\ 0 # NoSub
  BY TypeParts DEF SubPipesOK, Running, NoSub
<1>1. CASE Spawn
  <2>1. AnswerKinds' /\ ResponseComes'
    BY <1>0, <1>1 DEF Spawn, AnswerKinds, ResponseComes
  <2>2. ReadToTheEnd'
    BY <1>0, <1>1 DEF Spawn, ReadToTheEnd
  <2> QED  BY <2>1, <2>2 DEF AnswerOrder
<1>2. CASE ~Spawn
  <2>1. /\ UNCHANGED <<fromSub, squeue, spc>>
        /\ InQuery' => InQuery /\ (OnResponse \/ response' = response)
    BY <1>2, QueryFrame DEF InQuery
  <2>2. /\ subExit' = subExit
        /\ \/ rread' = rread
           \/ /\ rpc = "proxy" /\ rread < Len(fromSub) /\ rread' = rread + 1
              /\ SubMsg.kind = "Response" => OnResponse
    BY <1>2 DEF Rust, ReadEngineInput, ReadInputEof, WriteBroken, NativeReport, NativeDone, Printed,
       WriteQueued, ReportDone, ReturnFromMain, RustDies, SendQuery, SendToSub, SendToSubBroken, OnResponse,
       OnSubGarbage, OnSubExit, OnSubEof, Proxy, Relay, WaitSub, TakeFromSub, Fault, RustKilled,
       rustVars, subPipes, Proxied, RequestKind
  <2>3. AnswerKinds'
    BY <2>1, <2>2 DEF AnswerOrder, AnswerKinds
  <2>4. ResponseComes'
    <3>1. CASE OnResponse
      <4>1. response' # NoResponse
        BY <3>1 DEF OnResponse, NoResponse
      <4> QED  BY <2>1, <2>2, <4>1 DEF AnswerOrder, ResponseComes, HasResponse
    <3>2. CASE ~OnResponse
      <4>1. \A j \in 1..rread' : j \in 1..rread \/ fromSub[j].kind # "Response"
        BY <1>0, <2>2, <3>2 DEF SubMsg
      <4> QED  BY <2>1, <2>2, <3>2, <4>1 DEF AnswerOrder, ResponseComes, HasResponse
    <3> QED  BY <3>1, <3>2
  <2>5. ReadToTheEnd'
    <3>1. CASE OnSubExit
      <4>1. rread + 1 \in 1..Len(fromSub) /\ fromSub[rread + 1].kind = "Exit" /\ rread' = rread + 1
        BY <1>0, <3>1 DEF OnSubExit, TakeFromSub, SubMsg
      <4> QED  BY <2>1, <4>1 DEF AnswerOrder, AnswerKinds, ReadToTheEnd
    <3>2. CASE OnSubEof
      BY <2>1, <3>2 DEF OnSubEof, ReadToTheEnd, subPipes
    <3>3. CASE ~OnSubExit /\ ~OnSubEof
      <4>1. \/ /\ rread' = rread
               /\ rpc' \in {"load", "dispatch", "wait", "report", "files"} =>
                    rpc \in {"load", "dispatch", "wait", "report", "files"}
               /\ exitCode' = 0 => exitCode = 0 \/ rpc = "files"
            \/ rpc' \notin {"load", "dispatch", "wait", "report", "files"} /\ exitCode' # 0
        BY <1>0, <1>2, <3>3 DEF Rust, ReadEngineInput, ReadInputEof, WriteBroken, NativeReport, NativeDone, Printed,
           WriteQueued, ReportDone, ReturnFromMain, RustDies, SendQuery, SendToSub, SendToSubBroken, OnResponse,
           OnSubGarbage, OnSubExit, OnSubEof, Proxy, Relay, WaitSub, RustPanic, TakeFromSub, Fault, RustKilled,
           rustVars, subPipes, Put, Get, ExitWith, runVars, pipeVars, Lifetimes
      <4> QED  BY <2>1, <4>1 DEF AnswerOrder, ReadToTheEnd
    <3> QED  BY <3>1, <3>2, <3>3
  <2> QED  BY <2>3, <2>4, <2>5 DEF AnswerOrder
<1> QED
  BY <1>1, <1>2

THEOREM AnswerOrderInvariance == Spec => []AnswerOrder
<1>1. Init => AnswerOrder
  <2>1. NoSub # 0
    BY DEF NoSub
  <2> QED
    BY <2>1 DEF Init, RunInit, AnswerOrder, AnswerKinds, ReadToTheEnd, ResponseComes, InQuery
<1>2. TypeOK /\ Lifetimes /\ Answers /\ AnswerOrder /\ [Next]_vars => AnswerOrder'
  <2> SUFFICES ASSUME TypeOK, Lifetimes, Answers, AnswerOrder, [Next]_vars  PROVE AnswerOrder'
    OBVIOUS
  <2>1. CASE UNCHANGED vars \/ Client \/ (Fault /\ KillClient)
    <3>1. UNCHANGED <<exitCode, rpc, response, fromSub, rread, spc, squeue, subExit>>
      BY <2>1, ClientFrame DEF vars, runVars, pipeVars, rustVars, subPipes, subVars
    <3> QED
      BY <3>1 DEF AnswerOrder, AnswerKinds, ReadToTheEnd, ResponseComes, HasResponse, InQuery
  <2> QED  BY <2>1, NextCases, RustOrder, SubOrder
<1> QED
  BY LifetimesInvariance, AnswersInvariance, <1>1, <1>2, PTL DEF Spec

-----------------------------------------------------------------------------
(***************************************************************************)
(* Whose turn it is.  Two conversations are nested: cargo-hax answers the  *)
(* Rust engine, which relays the answer to the subprocess that asked.  In  *)
(* each, at most one request or reply is under way, and only while the one *)
(* who asked awaits; a kill leaves a request that nobody awaits.           *)
(***************************************************************************)
Turns ==
  /\ pc = "send" => toEngine = << >> /\ eread = 0 /\ (rpc = "load" \/ (faulted /\ rpc = "dead"))
  /\ rpc = "load" => eread = 0 /\ Len(toEngine) <= 1
  /\ rpc \notin {"load", "relay", "panic", "dead"} => ~StdinReady
  /\ rpc = "relay" /\ StdinReady =>
       /\ pc # "reply" /\ Len(toEngine) = eread + 1
       /\ toEngine[eread + 1] = ReplyTo[fromSub[rread].kind]
  /\ pc = "reply" =>
       /\ cread = Len(fromEngine)
       /\ (rpc = "relay" /\ pending = fromSub[rread].kind) \/ (faulted /\ rpc = "dead")

Unanswered ==
  ClientEndsOpen =>
    \A j \in cread + 1..Len(fromEngine) :
      fromEngine[j].kind \in RequestKind =>
        /\ j = Len(fromEngine)
        /\ \/ rpc = "relay" /\ ~StdinReady /\ fromEngine[j].kind = fromSub[rread].kind
           \/ faulted /\ rpc = "dead"

SubTurns ==
  /\ rpc = "send" => toSub = << >> /\ sread = 0 /\ (spc = "load" \/ (faulted /\ spc \in {"crash", "dead"}))
  /\ spc = "load" => sread = 0 /\ Len(toSub) <= 1
  /\ spc \in {"import", "work", "answer"} => ~SubStdinReady
  /\ spc = "await" /\ SubStdinReady =>
       rpc # "relay" /\ Len(toSub) = sread + 1 /\ toSub[sread + 1] = ReplyTo[sasked]
  /\ rpc = "relay" =>
       /\ rread \in 1..Len(fromSub) /\ rread = Len(fromSub) /\ fromSub[rread].kind \in RequestKind
       /\ (spc = "await" /\ fromSub[rread].kind = sasked) \/ (faulted /\ spc = "dead")

SubUnanswered ==
  RustEndsOpen =>
    \A j \in rread + 1..Len(fromSub) :
      fromSub[j].kind \in RequestKind =>
        /\ j = Len(fromSub)
        /\ \/ spc = "await" /\ ~SubStdinReady /\ fromSub[j].kind = sasked
           \/ faulted /\ spc = "dead"

TurnTaking == Turns /\ Unanswered /\ SubTurns /\ SubUnanswered

LEMMA PipeTypes ==
  ASSUME TypeOK
  PROVE  /\ toEngine \in Seq(ToEngine) /\ eread \in Nat /\ eread <= Len(toEngine) /\ Len(toEngine) \in Nat
         /\ fromEngine \in Seq(FromEngine) /\ cread \in Nat /\ cread <= Len(fromEngine) /\ Len(fromEngine) \in Nat
         /\ toSub \in Seq(ToEngine) /\ sread \in Nat /\ sread <= Len(toSub) /\ Len(toSub) \in Nat
         /\ fromSub \in Seq(FromSub) /\ rread \in Nat /\ rread <= Len(fromSub) /\ Len(fromSub) \in Nat
<1>1. RunTypeOK /\ SubPipesOK
  BY TypeParts
<1> QED
  BY <1>1 DEF RunTypeOK, SubPipesOK

LEMMA ClientTurns ==
  ASSUME TypeOK, Lifetimes, TurnTaking, Client \/ (Fault /\ KillClient)
  PROVE  TurnTaking'
<1>0. /\ UNCHANGED <<fromEngine, exitCode, eread, rpc, toSub, sread, fromSub, rread, spc, sasked>>
      /\ faulted => faulted'
  <2>1. UNCHANGED <<fromEngine, exitCode, eread, rpc, toSub, sread, fromSub, rread, spc, sasked>>
    BY ClientFrame DEF rustVars, subPipes, subVars
  <2>2. faulted => faulted'
    BY DEF Client, Fault
  <2> QED  BY <2>1, <2>2
<1>1. SubTurns' /\ SubUnanswered'
  BY <1>0 DEF TurnTaking, SubTurns, SubUnanswered, SubStdinReady, RustEndsOpen
<1>2. CASE SendInput
  <2>1. /\ pc = "send" /\ pc' = "loop" /\ exitCode = Running /\ toEngine' = Append(toEngine, "WithTable")
        /\ cread' = cread
    BY <1>2 DEF SendInput, Send
  <2>2. rpc = "load" /\ eread = 0 /\ toEngine = << >>
    BY <2>1 DEF TurnTaking, Turns, Lifetimes
  <2>3. Len(toEngine') = 1
    BY <2>1, <2>2
  <2>4. Turns'
    BY <1>0, <2>1, <2>2, <2>3 DEF Turns
  <2>5. Unanswered'
    BY <1>0, <2>1, <2>2 DEF TurnTaking, Unanswered, ClientEndsOpen
  <2> QED  BY <1>1, <2>4, <2>5 DEF TurnTaking
<1>3. CASE SendReply
  <2>1. /\ pc = "reply" /\ pc' = "loop" /\ exitCode = Running /\ toEngine' = Append(toEngine, ReplyTo[pending])
        /\ cread' = cread /\ ReplyTo[pending] \in ToEngine
    <3>1. pending \in RequestKind
      BY TypeParts DEF RunTypeOK
    <3> QED  BY <1>3, <3>1 DEF SendReply, Send, ReplyTo, RequestKind, ToEngine, ReplyKind
  <2>2. rpc = "relay" /\ pending = fromSub[rread].kind /\ ~StdinReady /\ cread = Len(fromEngine)
    BY <2>1 DEF TurnTaking, Turns, Lifetimes
  <2>3. eread = Len(toEngine)
    BY <2>2, PipeTypes DEF StdinReady
  <2>4. Len(toEngine') = eread + 1 /\ toEngine'[eread + 1] = ReplyTo[pending]
    BY <2>1, <2>3, PipeTypes
  <2>5. Turns'
    BY <1>0, <2>1, <2>2, <2>4 DEF Turns
  <2>6. Unanswered'
    BY <1>0, <2>1, <2>2, PipeTypes DEF Unanswered
  <2> QED  BY <1>1, <2>5, <2>6 DEF TurnTaking
<1>4. CASE OnRequest
  <2>1. /\ pc = "loop" /\ pc' = "reply" /\ cread + 1 \in cread + 1..Len(fromEngine) /\ cread' = cread + 1
        /\ pending' = fromEngine[cread + 1].kind /\ pending' \in RequestKind /\ toEngine' = toEngine
    BY <1>4, PipeTypes DEF OnRequest, Receive, Incoming
  <2>2. /\ cread + 1 = Len(fromEngine)
        /\ \/ rpc = "relay" /\ ~StdinReady /\ pending' = fromSub[rread].kind
           \/ faulted /\ rpc = "dead"
    BY <2>1 DEF TurnTaking, Unanswered, ClientEndsOpen
  <2>3. Turns'
    BY <1>0, <2>1, <2>2 DEF TurnTaking, Turns, StdinReady
  <2>4. Unanswered'
    BY <1>0, <2>1, <2>2, PipeTypes DEF Unanswered
  <2> QED  BY <1>1, <2>3, <2>4 DEF TurnTaking
<1>5. ASSUME pc' \notin {"send", "reply"}, toEngine' = toEngine, ClientEndsOpen' => ClientEndsOpen /\ cread' \in {cread, cread + 1}
      PROVE  TurnTaking'
  <2>1. Turns'
    BY <1>0, <1>5 DEF TurnTaking, Turns, StdinReady
  <2>2. Unanswered'
    <3> SUFFICES ASSUME ClientEndsOpen', NEW j \in cread' + 1..Len(fromEngine'), fromEngine'[j].kind \in RequestKind
                 PROVE  /\ j = Len(fromEngine')
                        /\ \/ rpc' = "relay" /\ ~StdinReady' /\ fromEngine'[j].kind = fromSub'[rread'].kind
                           \/ faulted' /\ rpc' = "dead"
      BY DEF Unanswered
    <3>1. ClientEndsOpen /\ j \in cread + 1..Len(fromEngine)
      BY <1>0, <1>5, PipeTypes
    <3> QED  BY <1>0, <1>5, <3>1 DEF TurnTaking, Unanswered, StdinReady
  <2> QED  BY <1>1, <2>1, <2>2 DEF TurnTaking
<1>6. CASE OnDiagnostic \/ OnFile \/ OnItemProcessed \/ OnDebugString \/ OnProfilingData
  BY <1>5, <1>6 DEF OnDiagnostic, OnFile, OnItemProcessed, OnDebugString, OnProfilingData, Receive, clientVars,
     ClientEndsOpen
<1>7. CASE OnGarbage \/ OnExit \/ OnEof \/ Wait \/ SendBroken \/ KillClient
  BY <1>5, <1>7 DEF OnGarbage, OnExit, OnEof, Wait, SendBroken, KillClient, ClientDies, LeaveLoop, Panic, Receive,
     pipeVars, ClientEndsOpen
<1> QED
  BY <1>2, <1>3, <1>4, <1>6, <1>7 DEF Client, ClientNext, Fault

(***************************************************************************)
(* A step of a subprocess: only a request makes it await, and no other of  *)
(* its steps is possible while a request or a reply is under way.          *)
(***************************************************************************)
LEMMA SubTurnsStep ==
  ASSUME TypeOK, Lifetimes, AnswerOrder, TurnTaking,
         Sub \/ (Fault /\ (SubRaisesException \/ SubDebugPrint \/ SubKilled))
  PROVE  TurnTaking'
<1>0. /\ UNCHANGED <<pc, pending, toEngine, eread, fromEngine, cread, rpc, rread, toSub>> /\ spc # "dead"
      /\ faulted => faulted'
  <2>1. UNCHANGED <<pc, pending, toEngine, eread, fromEngine, cread, rpc, rread, toSub>> /\ spc # "dead"
    BY SubFrame, SubPipesFrame DEF runVars, clientVars, pipeVars, rustVars
  <2>2. faulted => faulted'
    BY DEF Sub, Fault
  <2> QED  BY <2>1, <2>2
<1>1. ASSUME rpc = "relay" => fromSub'[rread] = fromSub[rread]
      PROVE  Turns' /\ Unanswered'
  BY <1>0, <1>1 DEF TurnTaking, Turns, Unanswered, StdinReady, ClientEndsOpen
<1>2. ASSUME fromSub' = fromSub, spc' \notin {"load", "await"}, rpc \notin {"send", "relay"},
             spc' \in {"import", "work", "answer"} => ~SubStdinReady',
             RustEndsOpen => \A j \in rread + 1..Len(fromSub) : fromSub[j].kind \notin RequestKind
      PROVE  TurnTaking'
  <2>1. SubTurns' /\ SubUnanswered'
    BY <1>0, <1>2 DEF SubTurns, SubUnanswered, RustEndsOpen
  <2> QED  BY <1>1, <1>2, <2>1 DEF TurnTaking
<1>3. spc \notin {"await", "dead"} =>
        /\ rpc # "relay"
        /\ RustEndsOpen => \A j \in rread + 1..Len(fromSub) : fromSub[j].kind \notin RequestKind
  BY DEF TurnTaking, SubTurns, SubUnanswered
<1>4. CASE SubLoad
  <2>1. /\ spc = "load" /\ sread < Len(toSub) /\ sread' = sread + 1 /\ fromSub' = fromSub
        /\ spc' \in {"import", "work"}
    BY <1>4 DEF SubLoad, SubGet, SubStdinReady
  <2>2. rpc # "send" /\ sread = 0 /\ Len(toSub) <= 1
    BY <2>1 DEF TurnTaking, SubTurns
  <2>3. ~SubStdinReady'
    BY <1>0, <2>1, <2>2, PipeTypes DEF SubStdinReady
  <2> QED  BY <1>2, <1>3, <2>1, <2>2, <2>3
<1>5. CASE SubReadEof \/ SubBroken
  BY <1>2, <1>5 DEF SubReadEof, SubBroken, SubCrash, SubStdinEof, SubStdoutBroken, RustEndsOpen, subPipes
<1>6. ASSUME spc \in {"import", "work", "answer"}, spc' \in {"import", "work", "answer", "crash"}, sread' = sread,
             \/ fromSub' = fromSub
             \/ \E m \in FromSub : m.kind \notin RequestKind /\ fromSub' = Append(fromSub, m)
      PROVE  TurnTaking'
  <2>1. ~SubStdinReady' /\ rpc \notin {"send", "relay"}
    BY <1>0, <1>6 DEF TurnTaking, SubTurns, SubStdinReady
  <2>2. CASE fromSub' = fromSub
    BY <1>2, <1>3, <1>6, <2>1, <2>2
  <2>3. CASE \E m \in FromSub : m.kind \notin RequestKind /\ fromSub' = Append(fromSub, m)
    <3>1. PICK m \in FromSub : m.kind \notin RequestKind /\ fromSub' = Append(fromSub, m)
      BY <2>3
    <3>2. \A j \in rread + 1..Len(fromSub') : fromSub'[j] = m \/ (j \in rread + 1..Len(fromSub) /\ fromSub'[j] = fromSub[j])
      BY <3>1, PipeTypes
    <3>3. RustEndsOpen => \A j \in rread + 1..Len(fromSub') : fromSub'[j].kind \notin RequestKind
      BY <1>3, <1>6, <3>1, <3>2
    <3>4. SubTurns' /\ SubUnanswered'
      BY <1>0, <1>6, <2>1, <3>3 DEF SubTurns, SubUnanswered, RustEndsOpen
    <3> QED  BY <1>1, <2>1, <3>4 DEF TurnTaking
  <2> QED  BY <1>6, <2>2, <2>3
<1>7. CASE SubImport
  <2>1. PICK items \in SUBSET Item : fromSub' = Append(fromSub, ItemProcessedMsg(items))
    BY <1>7 DEF SubImport, SubPut
  <2>2. ItemProcessedMsg(items) \in FromSub /\ ItemProcessedMsg(items).kind \notin RequestKind
    BY MessageTypes DEF ItemProcessedMsg, RequestKind
  <2>3. spc = "import" /\ spc' = "answer" /\ sread' = sread
    BY <1>7 DEF SubImport, SubPut
  <2> QED  BY <1>6, <2>1, <2>2, <2>3
<1>8. CASE SubProfile \/ SubDebugPrint
  <2>1. PICK k \in {"ProfilingData", "Garbage"} : fromSub' = Append(fromSub, Plain(k))
    BY <1>8 DEF SubProfile, SubDebugPrint, SubTalk, SubPut
  <2>2. Plain(k) \in FromSub /\ Plain(k).kind \notin RequestKind
    BY MessageTypes DEF RequestKind, PlainKind
  <2>3. spc = "work" /\ spc' = "work" /\ sread' = sread
    BY <1>8 DEF SubProfile, SubDebugPrint, SubTalk, SubPut
  <2> QED  BY <1>6, <2>1, <2>2, <2>3
<1>9. CASE SubAnswer
  <2>1. Head(squeue) \in FromSub /\ Head(squeue) = squeue[1] /\ 1 \in 1..Len(squeue)
    BY <1>9, TypeParts DEF SubAnswer, SubVarsOK
  <2>2. Head(squeue).kind \notin RequestKind
    BY <2>1 DEF AnswerOrder, AnswerKinds, RequestKind
  <2>3. spc = "answer" /\ spc' = spc /\ sread' = sread /\ fromSub' = Append(fromSub, Head(squeue))
    BY <1>9 DEF SubAnswer, SubPut
  <2> QED  BY <1>6, <2>1, <2>2, <2>3
<1>10. CASE SubImportFatal \/ SubReport \/ SubFatal \/ SubFinish
  BY <1>6, <1>10 DEF SubImportFatal, SubReport, SubFatal, SubFinish, subPipes
<1>11. CASE Fault /\ SubRaisesException
  <2>1. /\ spc \in {"load", "import", "work"} /\ spc' = "crash" /\ faulted'
        /\ fromSub' = fromSub /\ sread' = sread /\ toSub' = toSub
    BY <1>11 DEF SubRaisesException, SubCrash, Fault, subPipes
  <2>2. SubTurns' /\ SubUnanswered'
    BY <1>0, <1>3, <2>1 DEF TurnTaking, SubTurns, SubUnanswered, RustEndsOpen
  <2> QED  BY <1>1, <2>1, <2>2 DEF TurnTaking
<1>12. CASE SubRequest
  <2>1. PICK k \in RequestKind : fromSub' = Append(fromSub, Plain(k)) /\ sasked' = k
    BY <1>12 DEF SubRequest, SubTalk, SubPut
  <2>2. spc = "work" /\ spc' = "await" /\ sread' = sread
    BY <1>12 DEF SubRequest, SubTalk, SubPut
  <2>3. ~SubStdinReady /\ ~SubStdinReady' /\ rpc \notin {"send", "relay"}
    BY <1>0, <2>2 DEF TurnTaking, SubTurns, SubStdinReady
  <2>4. PICK m \in FromSub : m = Plain(k) /\ m.kind = k
    BY MessageTypes DEF PlainKind
  <2>5. /\ \A j \in rread + 1..Len(fromSub') :
             \/ j = Len(fromSub') /\ fromSub'[j] = m
             \/ j \in rread + 1..Len(fromSub) /\ fromSub'[j] = fromSub[j]
    BY <2>1, <2>4, PipeTypes
  <2>6. RustEndsOpen => \A j \in rread + 1..Len(fromSub') :
             fromSub'[j].kind \in RequestKind => j = Len(fromSub') /\ fromSub'[j].kind = sasked'
    BY <1>3, <2>1, <2>2, <2>4, <2>5
  <2>7. SubTurns' /\ SubUnanswered'
    BY <1>0, <2>2, <2>3, <2>6 DEF SubTurns, SubUnanswered, RustEndsOpen
  <2> QED  BY <1>1, <2>3, <2>7 DEF TurnTaking
<1>13. CASE SubReadReply
  <2>1. /\ spc = "await" /\ sread < Len(toSub) /\ sread' = sread + 1 /\ fromSub' = fromSub
        /\ spc' \in {"work", "crash"}
    BY <1>13 DEF SubReadReply, SubGet, SubStdinReady
  <2>2. rpc \notin {"send", "relay"} /\ Len(toSub) = sread + 1
    BY <2>1 DEF TurnTaking, SubTurns, SubStdinReady
  <2>3. RustEndsOpen => \A j \in rread + 1..Len(fromSub) : fromSub[j].kind \notin RequestKind
    BY <2>1 DEF TurnTaking, SubUnanswered, SubStdinReady
  <2>4. ~SubStdinReady'
    BY <1>0, <2>1, <2>2, PipeTypes DEF SubStdinReady
  <2> QED  BY <1>2, <2>1, <2>2, <2>3, <2>4
<1>14. CASE SubReturns
  <2>1. spc = "answer" /\ spc' = "dead" /\ fromSub' = fromSub
    BY <1>14 DEF SubReturns, SubExitWith
  <2>2. rpc # "send"
    BY <2>1 DEF TurnTaking, SubTurns
  <2> QED  BY <1>2, <1>3, <2>1, <2>2
<1>15. CASE SubDies \/ (Fault /\ SubKilled)
  <2>1. /\ spc' = "dead" /\ fromSub' = fromSub /\ sread' = sread /\ sasked' = sasked
        /\ spc = "crash" \/ faulted'
    BY <1>15 DEF SubDies, SubKilled, SubExitWith, Fault
  <2>2. SubTurns'
    BY <1>0, <2>1 DEF TurnTaking, SubTurns
  <2>3. SubUnanswered'
    BY <1>0, <2>1 DEF TurnTaking, SubUnanswered, RustEndsOpen
  <2> QED  BY <1>1, <2>1, <2>2, <2>3 DEF TurnTaking
<1> QED
  BY <1>4, <1>5, <1>7, <1>8, <1>9, <1>10, <1>11, <1>12, <1>13, <1>14, <1>15 DEF Sub

(***************************************************************************)
(* A step of the Rust engine.                                              *)
(***************************************************************************)
\* When it neither awaits nor is dead, no request is under way to cargo-hax.
LEMMA NoRequestUnderWay ==
  ASSUME TurnTaking, rpc \notin {"relay", "dead"} \/ (rpc = "relay" /\ StdinReady)
  PROVE  /\ pc # "reply"
         /\ ClientEndsOpen => \A j \in cread + 1..Len(fromEngine) : fromEngine[j].kind \notin RequestKind
BY DEF TurnTaking, Turns, Unanswered

\* The conversation with the subprocess is left alone.
LEMMA SubTurnsKept ==
  ASSUME SubTurns, SubUnanswered, UNCHANGED <<toSub, sread, fromSub, rread, spc, sasked>>, faulted => faulted',
         rpc' \notin {"send", "relay"}, rpc' = "proxy" => rpc = "proxy"
  PROVE  SubTurns' /\ SubUnanswered'
BY DEF SubTurns, SubUnanswered, SubStdinReady, RustEndsOpen

\* The conversation with cargo-hax is left alone.
LEMMA TurnsKept ==
  ASSUME TurnTaking, UNCHANGED <<pc, pending, toEngine, eread, fromEngine, cread, faulted>>,
         rpc \notin {"load", "relay", "panic", "dead"}, rpc' \notin {"load", "relay", "dead"}
  PROVE  Turns' /\ Unanswered'
<1>1. pc \notin {"send", "reply"} /\ ~StdinReady /\ ~StdinReady'
  BY DEF TurnTaking, Turns, StdinReady
<1>2. Turns'
  BY <1>1 DEF Turns
<1>3. Unanswered'
  BY NoRequestUnderWay DEF Unanswered, ClientEndsOpen
<1> QED
  BY <1>2, <1>3

LEMMA RustSpeaks ==
  ASSUME TypeOK, Lifetimes, View, TurnTaking, Rust, NativeReport \/ WriteQueued
  PROVE  TurnTaking'
<1>1. /\ rpc \in {"dispatch", "report", "files"} /\ rpc' = rpc
      /\ UNCHANGED <<toSub, sread, fromSub, rread, spc, sasked, faulted>>
  BY DEF NativeReport, WriteQueued, rustVars, subPipes, subVars, Rust
<1>2. PICK m \in FromEngine : Put(m) /\ m.kind \notin RequestKind
  <2>1. CASE NativeReport
    <3>1. PICK d \in Diag : Put(DiagnosticMsg(d))
      BY <2>1 DEF NativeReport
    <3>2. DiagnosticMsg(d) \in FromEngine /\ DiagnosticMsg(d).kind \notin RequestKind
      BY MessageTypes DEF DiagnosticMsg, RequestKind
    <3> QED  BY <3>1, <3>2
  <2>2. CASE WriteQueued
    <3>1. Head(queue) \in FromEngine /\ Head(queue) = queue[1] /\ 1 \in 1..Len(queue) /\ Put(Head(queue))
      BY <2>2, TypeParts DEF WriteQueued, RustTypeOK
    <3>2. Head(queue).kind \notin RequestKind
      BY <1>1, <2>2, <3>1 DEF WriteQueued, View, QueueKinds, RequestKind
    <3> QED  BY <3>1, <3>2
  <2> QED  BY <2>1, <2>2
<1>3. UNCHANGED <<pc, pending, toEngine, eread, cread>> /\ fromEngine' = Append(fromEngine, m)
  BY <1>2 DEF Put, clientVars
<1>4. SubTurns' /\ SubUnanswered'
  BY <1>1, SubTurnsKept DEF TurnTaking
<1>5. Turns'
  BY <1>1, <1>3 DEF TurnTaking, Turns, StdinReady
<1>6. Unanswered'
  <2>1. \A j \in cread + 1..Len(fromEngine') :
          fromEngine'[j] = m \/ (j \in cread + 1..Len(fromEngine) /\ fromEngine'[j] = fromEngine[j])
    BY <1>3, PipeTypes
  <2> QED  BY <1>1, <1>2, <1>3, <2>1, NoRequestUnderWay DEF Unanswered, ClientEndsOpen
<1> QED
  BY <1>4, <1>5, <1>6 DEF TurnTaking

LEMMA ProxyTurn ==
  ASSUME TypeOK, Lifetimes, TurnTaking, Rust, Proxy
  PROVE  TurnTaking'
<1>1. /\ rpc = "proxy" /\ rread < Len(fromSub) /\ rread' = rread + 1
      /\ UNCHANGED <<toSub, sread, fromSub, spc, sasked, faulted>>
      /\ Put(SubMsg) /\ SubMsg = fromSub[rread + 1]
      /\ rpc' = IF SubMsg.kind \in RequestKind THEN "relay" ELSE "proxy"
  BY DEF Proxy, TakeFromSub, SubMsg, RequiresResponse, subVars, Rust
<1>2. PICK m \in FromEngine : m = SubMsg
  BY TypeParts, TakeType, SubMsgTypes DEF Proxy
<1>3. UNCHANGED <<pc, pending, toEngine, eread, cread>> /\ fromEngine' = Append(fromEngine, m)
  BY <1>1, <1>2 DEF Put, clientVars
<1>4. ~StdinReady /\ ~StdinReady' /\ pc \notin {"send", "reply"}
  BY <1>1, <1>3 DEF TurnTaking, Turns, StdinReady
<1>5. Turns'
  BY <1>1, <1>3, <1>4 DEF Turns
<1>6. Unanswered'
  <2>1. /\ \A j \in cread + 1..Len(fromEngine') :
             \/ j = Len(fromEngine') /\ fromEngine'[j] = m
             \/ j \in cread + 1..Len(fromEngine) /\ fromEngine'[j] = fromEngine[j]
    BY <1>3, PipeTypes
  <2>2. m.kind = fromSub'[rread'].kind
    BY <1>1, <1>2
  <2>3. ClientEndsOpen => \A j \in cread + 1..Len(fromEngine) : fromEngine[j].kind \notin RequestKind
    BY <1>1, NoRequestUnderWay
  <2> SUFFICES ASSUME ClientEndsOpen', NEW j \in cread' + 1..Len(fromEngine'), fromEngine'[j].kind \in RequestKind
               PROVE  j = Len(fromEngine') /\ rpc' = "relay" /\ fromEngine'[j].kind = fromSub'[rread'].kind
    BY <1>4 DEF Unanswered
  <2>4. j = Len(fromEngine') /\ fromEngine'[j] = m
    BY <1>3, <2>1, <2>3 DEF ClientEndsOpen
  <2> QED  BY <1>1, <1>2, <2>2, <2>4
<1>7. rread + 1 \in rread + 1..Len(fromSub)
  BY <1>1, PipeTypes
<1>8. SubMsg.kind \in RequestKind =>
        /\ rread + 1 = Len(fromSub)
        /\ \/ spc = "await" /\ ~SubStdinReady /\ SubMsg.kind = sasked
           \/ faulted /\ spc = "dead"
  BY <1>1, <1>7 DEF TurnTaking, SubUnanswered, RustEndsOpen
<1>9. SubTurns'
  BY <1>1, <1>7, <1>8, PipeTypes DEF TurnTaking, SubTurns, SubStdinReady
<1>10. SubUnanswered'
  <2>1. \A j \in rread' + 1..Len(fromSub') : j \in rread + 1..Len(fromSub)
    BY <1>1, PipeTypes
  <2> QED  BY <1>1, <2>1 DEF TurnTaking, SubUnanswered, RustEndsOpen, SubStdinReady
<1> QED
  BY <1>5, <1>6, <1>9, <1>10 DEF TurnTaking

LEMMA RelayTurn ==
  ASSUME TypeOK, Lifetimes, TurnTaking, Rust, Relay
  PROVE  TurnTaking'
<1>1. /\ rpc = "relay" /\ rpc' = "proxy" /\ StdinReady /\ eread' = eread + 1 /\ subExit = Running
      /\ toSub' = Append(toSub, toEngine[eread + 1])
      /\ UNCHANGED <<pc, pending, toEngine, fromEngine, cread, sread, fromSub, rread, spc, sasked, faulted>>
  BY DEF Relay, Get, SendToSub, subVars, clientVars, Rust
<1>2. pc \notin {"send", "reply"} /\ Len(toEngine) = eread + 1 /\ toEngine[eread + 1] = ReplyTo[fromSub[rread].kind]
  BY <1>1 DEF TurnTaking, Turns
<1>3. Turns'
  BY <1>1, <1>2, PipeTypes DEF Turns, StdinReady
<1>4. Unanswered'
  BY <1>1, NoRequestUnderWay DEF Unanswered, ClientEndsOpen
<1>5. spc = "await" /\ fromSub[rread].kind = sasked /\ rread = Len(fromSub) /\ ~SubStdinReady
  BY <1>1 DEF TurnTaking, SubTurns, Lifetimes
<1>6. toEngine[eread + 1] \in ToEngine
  BY <1>1, <1>2, PipeTypes
<1>7. Len(toSub') = sread + 1 /\ toSub'[sread + 1] = ReplyTo[sasked]
  BY <1>1, <1>2, <1>5, <1>6, PipeTypes DEF SubStdinReady
<1>8. SubTurns'
  BY <1>1, <1>5, <1>7 DEF SubTurns
<1>9. SubUnanswered'
  <2>1. \A j \in rread' + 1..Len(fromSub') : FALSE
    BY <1>1, <1>5, PipeTypes
  <2> QED  BY <2>1 DEF SubUnanswered
<1> QED
  BY <1>3, <1>4, <1>8, <1>9 DEF TurnTaking

LEMMA RustTurns ==
  ASSUME TypeOK, Lifetimes, View, TurnTaking, Rust \/ (Fault /\ RustKilled)
  PROVE  TurnTaking'
<1>1. CASE Rust /\ ReadEngineInput
  <2>1. /\ rpc = "load" /\ rpc' = "dispatch" /\ StdinReady /\ eread' = eread + 1
        /\ UNCHANGED <<pc, pending, toEngine, fromEngine, cread, toSub, sread, fromSub, rread, spc, sasked, faulted>>
    BY <1>1 DEF ReadEngineInput, Get, subPipes, subVars, clientVars, Rust
  <2>2. pc \notin {"send", "reply"} /\ eread = 0 /\ Len(toEngine) <= 1
    <3>1. toEngine = << >> => ~StdinReady
      BY PipeTypes DEF StdinReady
    <3> QED  BY <2>1, <3>1 DEF TurnTaking, Turns
  <2>3. Turns'
    BY <2>1, <2>2, PipeTypes DEF Turns, StdinReady
  <2>4. Unanswered'
    BY <2>1, NoRequestUnderWay DEF Unanswered, ClientEndsOpen
  <2>5. SubTurns' /\ SubUnanswered'
    BY <2>1, SubTurnsKept DEF TurnTaking
  <2> QED  BY <2>3, <2>4, <2>5 DEF TurnTaking
<1>2. CASE Rust /\ (ReadInputEof \/ WriteBroken \/ SendToSubBroken \/ OnSubGarbage \/ (WaitSub /\ ~Succeeded))
  <2>1. /\ rpc' = "panic" /\ rpc # "dead"
        /\ UNCHANGED <<pc, pending, toEngine, eread, fromEngine, cread, toSub, sread, fromSub, spc, sasked, faulted>>
        /\ \/ rpc \notin {"load", "relay"}
           \/ ~ClientEndsOpen
           \/ rpc = "relay" /\ StdinReady
    BY <1>2 DEF ReadInputEof, WriteBroken, SendToSubBroken, OnSubGarbage, WaitSub, TakeFromSub, RustPanic, StdinEof,
       runVars, clientVars, pipeVars, subPipes, subVars, Rust
  <2>2. pc \notin {"send", "reply"}
    BY <2>1 DEF TurnTaking, Turns, ClientEndsOpen
  <2>3. Turns'
    BY <2>1, <2>2 DEF Turns
  <2>4. Unanswered'
    <3>1. CASE ~ClientEndsOpen
      BY <2>1, <3>1 DEF Unanswered, ClientEndsOpen
    <3>2. CASE rpc \notin {"load", "relay"} \/ (rpc = "relay" /\ StdinReady)
      BY <2>1, <3>2, NoRequestUnderWay DEF Unanswered, ClientEndsOpen
    <3> QED  BY <2>1, <3>1, <3>2
  <2>5. SubTurns' /\ SubUnanswered'
    BY <2>1 DEF TurnTaking, SubTurns, SubUnanswered, SubStdinReady, RustEndsOpen
  <2> QED  BY <2>3, <2>4, <2>5 DEF TurnTaking
<1>3. CASE ReturnFromMain \/ RustDies \/ (Fault /\ RustKilled)
  <2>1. /\ rpc' = "dead" /\ UNCHANGED <<pc, pending, toEngine, eread, fromEngine, cread, toSub, sread, fromSub, rread, spc, sasked>>
        /\ rpc \in {"files", "panic"} \/ faulted'
        /\ rpc # "dead" /\ (faulted => faulted')
    BY <1>3 DEF ReturnFromMain, RustDies, RustKilled, ExitWith, subPipes, subVars, clientVars, Rust, Fault
  <2>2. Turns'
    BY <2>1 DEF TurnTaking, Turns
  <2>3. Unanswered'
    BY <2>1 DEF TurnTaking, Unanswered, ClientEndsOpen
  <2>4. SubTurns' /\ SubUnanswered'
    BY <2>1, SubTurnsKept DEF TurnTaking
  <2> QED  BY <2>2, <2>3, <2>4 DEF TurnTaking
<1>4. CASE Rust /\ Spawn
  <2>1. /\ rpc = "dispatch" /\ rpc' = "send" /\ UNCHANGED <<pc, pending, toEngine, eread, fromEngine, cread, faulted>>
        /\ toSub' = << >> /\ sread' = 0 /\ fromSub' = << >> /\ rread' = 0 /\ spc' = "load"
    BY <1>4 DEF Spawn, runVars, clientVars, pipeVars, Rust
  <2>2. SubTurns' /\ SubUnanswered'
    BY <2>1 DEF SubTurns, SubUnanswered
  <2> QED  BY <2>1, <2>2, TurnsKept DEF TurnTaking
<1>5. CASE Rust /\ SendQuery
  <2>1. /\ rpc = "send" /\ rpc' = "proxy" /\ UNCHANGED <<pc, pending, toEngine, eread, fromEngine, cread, faulted>>
        /\ toSub' = Append(toSub, "WithTable") /\ UNCHANGED <<sread, fromSub, rread, spc, sasked>>
    BY <1>5 DEF SendQuery, SendToSub, runVars, clientVars, pipeVars, subVars, Rust
  <2>2. toSub = << >> /\ sread = 0 /\ (spc = "load" \/ (faulted /\ spc \in {"crash", "dead"}))
    BY <2>1 DEF TurnTaking, SubTurns
  <2>3. Len(toSub') = 1
    BY <2>1, <2>2
  <2>4. SubTurns'
    BY <2>1, <2>2, <2>3 DEF SubTurns
  <2>5. SubUnanswered'
    BY <2>1, <2>2 DEF TurnTaking, SubUnanswered, RustEndsOpen
  <2> QED  BY <2>1, <2>4, <2>5, TurnsKept DEF TurnTaking
<1>6. CASE Rust /\ (OnResponse \/ OnSubExit)
  <2>1. /\ rpc = "proxy" /\ rpc' \in {"proxy", "wait"} /\ rread' = rread + 1
        /\ UNCHANGED <<pc, pending, toEngine, eread, fromEngine, cread, toSub, sread, fromSub, spc, sasked, faulted>>
    BY <1>6 DEF OnResponse, OnSubExit, TakeFromSub, runVars, clientVars, pipeVars, subVars, Rust
  <2>2. SubTurns'
    BY <2>1 DEF TurnTaking, SubTurns, SubStdinReady
  <2>3. SubUnanswered'
    <3>1. \A j \in rread' + 1..Len(fromSub') : j \in rread + 1..Len(fromSub)
      BY <2>1, PipeTypes
    <3> QED  BY <2>1, <3>1 DEF TurnTaking, SubUnanswered, RustEndsOpen, SubStdinReady
  <2> QED  BY <2>1, <2>2, <2>3, TurnsKept DEF TurnTaking
<1>7. CASE Rust /\ (NativeDone \/ Printed \/ ReportDone \/ OnSubEof \/ (WaitSub /\ Succeeded))
  <2>1. /\ rpc \in {"dispatch", "report", "proxy", "wait"} /\ rpc' \in {"dispatch", "files", "wait", "report"}
        /\ UNCHANGED <<pc, pending, toEngine, eread, fromEngine, cread, faulted>>
        /\ UNCHANGED <<toSub, sread, fromSub, rread, spc, sasked>>
    BY <1>7 DEF NativeDone, Printed, ReportDone, OnSubEof, WaitSub, runVars, clientVars, pipeVars, subPipes, subVars, Rust
  <2>2. SubTurns' /\ SubUnanswered'
    BY <2>1, SubTurnsKept DEF TurnTaking
  <2> QED  BY <2>1, <2>2, TurnsKept DEF TurnTaking
<1>8. CASE Rust /\ (NativeReport \/ WriteQueued)
  BY <1>8, RustSpeaks
<1>9. CASE Rust /\ Proxy
  BY <1>9, ProxyTurn
<1>10. CASE Rust /\ Relay
  BY <1>10, RelayTurn
<1> QED
  BY <1>1, <1>2, <1>3, <1>4, <1>5, <1>6, <1>7, <1>8, <1>9, <1>10 DEF Rust

THEOREM TurnsInvariance == Spec => []TurnTaking
<1>1. Init => TurnTaking
  BY DEF Init, RunInit, TurnTaking, Turns, Unanswered, SubTurns, SubUnanswered, StdinReady, SubStdinReady
<1>2. TypeOK /\ Lifetimes /\ View /\ AnswerOrder /\ TurnTaking /\ [Next]_vars => TurnTaking'
  <2> SUFFICES ASSUME TypeOK, Lifetimes, View, AnswerOrder, TurnTaking, [Next]_vars  PROVE TurnTaking'
    OBVIOUS
  <2>1. CASE UNCHANGED vars
    <3>1. /\ UNCHANGED <<pc, pending, toEngine, eread, fromEngine, cread, faulted, rpc>>
          /\ UNCHANGED <<toSub, sread, fromSub, rread, spc, sasked>>
      BY <2>1 DEF vars, runVars, clientVars, pipeVars, rustVars, subPipes, subVars
    <3> QED
      BY <3>1 DEF TurnTaking, Turns, Unanswered, SubTurns, SubUnanswered, StdinReady, SubStdinReady, ClientEndsOpen,
         RustEndsOpen
  <2> QED  BY <2>1, NextCases, ClientTurns, RustTurns, SubTurnsStep
<1> QED
  BY LifetimesInvariance, ViewInvariance, AnswerOrderInvariance, <1>1, <1>2, PTL DEF Spec

-----------------------------------------------------------------------------
(***************************************************************************)
(* Nothing fails by itself: until a fault, the only process that ends with *)
(* an error is a subprocess that raised a fatal one, and the others follow *)
(* it.  No pipe is closed under a process that still writes to it or       *)
(* awaits an answer, no answer is missing and none is out of place.        *)
(***************************************************************************)
OnlyFatalErrors ==
  /\ subExit \in {NoSub, Running, 0, 2}
  /\ spc = "crash" \/ subExit = 2 => state # << >>
  /\ exitCode \in {Running, 0} \/ subExit = 2
  /\ rpc = "panic" => subExit = 2
  /\ result \in {"none", "returned"} \/ StatsDivideByZero \/ subExit = 2

NoPipeCutShort ==
  /\ \A j \in 1..Len(fromSub) : fromSub[j].kind # "Garbage"
  /\ ClientEndsOpen \/ exitCode # Running
  /\ spc \in Working \/ (spc = "answer" /\ squeue # << >>) => RustEndsOpen

NothingFails == ~faulted => OnlyFatalErrors /\ NoPipeCutShort

LEMMA ClientFailsNot ==
  ASSUME TypeOK, Lifetimes, View, TurnTaking, NothingFails, Client
  PROVE  NothingFails'
<1> SUFFICES ASSUME ~faulted  PROVE OnlyFatalErrors' /\ NoPipeCutShort'
  BY DEF NothingFails, Client
<1>1. UNCHANGED <<fromEngine, exitCode, rpc, fromSub, rread, spc, squeue, state, subExit>>
  BY ClientFrame DEF rustVars, subPipes, subVars
<1>2. OnlyFatalErrors /\ NoPipeCutShort
  BY DEF NothingFails
<1>3. CASE SendInput \/ SendReply
  <2>1. pc' = "loop" /\ result' = result /\ errorsPerItem' = errorsPerItem
    BY <1>3 DEF SendInput, SendReply, Send
  <2> QED  BY <1>1, <1>2, <2>1 DEF OnlyFatalErrors, NoPipeCutShort, ClientEndsOpen, RustEndsOpen, StatsDivideByZero
<1>4. CASE SendBroken
  BY <1>4 DEF SendBroken, TurnTaking, Turns, Lifetimes
<1>5. CASE OnDiagnostic \/ OnFile \/ OnItemProcessed \/ OnDebugString \/ OnProfilingData \/ OnRequest
  <2>1. pc = "loop" /\ pc' \in {"loop", "reply"} /\ result' = result
    BY <1>5 DEF OnDiagnostic, OnFile, OnItemProcessed, OnDebugString, OnProfilingData, OnRequest, Receive, clientVars
  <2>2. result = "none"
    BY <2>1 DEF Lifetimes
  <2> QED  BY <1>1, <1>2, <2>1, <2>2 DEF OnlyFatalErrors, NoPipeCutShort, ClientEndsOpen, RustEndsOpen
<1>6. CASE OnGarbage \/ OnExit
  <2>1. cread + 1 \in 1..Len(fromEngine) /\ fromEngine[cread + 1].kind \in {"Garbage", "Exit"}
    BY <1>6, PipeTypes DEF OnGarbage, OnExit, Receive, Incoming
  <2> QED  BY <2>1 DEF View, PlainStream
<1>7. CASE OnEof
  <2>1. pc = "loop" /\ exitCode # Running /\ errorsPerItem' = errorsPerItem
        /\ (StatsDivideByZero \/ result' = result)
    BY <1>7 DEF OnEof, LeaveLoop
  <2>2. result = "none"
    BY <2>1 DEF Lifetimes
  <2> QED  BY <1>1, <1>2, <2>1, <2>2 DEF OnlyFatalErrors, NoPipeCutShort, RustEndsOpen, StatsDivideByZero
<1>8. CASE Wait
  <2>1. exitCode # Running /\ result' = IF exitCode = 0 THEN "returned" ELSE "exit1"
    BY <1>8 DEF Wait, Outcome
  <2>2. result' = "returned" \/ subExit = 2
    BY <1>2, <2>1 DEF OnlyFatalErrors
  <2> QED  BY <1>1, <1>2, <2>1, <2>2 DEF OnlyFatalErrors, NoPipeCutShort, RustEndsOpen
<1> QED
  BY <1>3, <1>4, <1>5, <1>6, <1>7, <1>8 DEF Client, ClientNext

\* Without a fault, the Rust engine panics only when the subprocess has failed.
LEMMA PanicsOnFailure ==
  ASSUME TypeOK, Lifetimes, AnswerOrder, TurnTaking, OnlyFatalErrors, NoPipeCutShort, ~faulted,
         ReadInputEof \/ WriteBroken \/ SendToSubBroken \/ OnSubGarbage \/ (WaitSub /\ ~Succeeded)
  PROVE  subExit = 2 /\ UNCHANGED subExit
<1>1. CASE ReadInputEof \/ WriteBroken
  <2>1. rpc # "dead" /\ ~ClientEndsOpen
    BY <1>1 DEF ReadInputEof, WriteBroken, StdinEof, StdoutBroken
  <2> QED  BY <2>1 DEF Lifetimes, NoPipeCutShort
<1>2. CASE SendToSubBroken
  <2>1. rpc \in {"send", "relay"} /\ subExit # Running
    BY <1>2 DEF SendToSubBroken
  <2>2. spc \in {"load", "await"}
    BY <2>1 DEF TurnTaking, SubTurns
  <2> QED  BY <2>1, <2>2 DEF Lifetimes
<1>3. CASE OnSubGarbage
  <2>1. rread + 1 \in 1..Len(fromSub) /\ fromSub[rread + 1].kind = "Garbage"
    BY <1>3, PipeTypes DEF OnSubGarbage, TakeFromSub, SubMsg
  <2> QED  BY <2>1 DEF NoPipeCutShort
<1>4. CASE WaitSub /\ ~Succeeded
  <2>1. rpc = "wait" /\ subExit # Running /\ UNCHANGED subExit
    BY <1>4 DEF WaitSub, subPipes
  <2>2. InQuery /\ subExit \in {0, 2}
    BY <2>1 DEF InQuery, AnswerOrder, ResponseComes, OnlyFatalErrors
  <2>3. ASSUME subExit = 0  PROVE FALSE
    <3>1. squeue = << >> /\ rread = Len(fromSub) /\ (HasResponse(fromSub) \/ HasResponse(squeue))
      BY <2>1, <2>2, <2>3 DEF AnswerOrder, AnswerKinds, ReadToTheEnd, ResponseComes
    <3>2. PICK j \in 1..rread : fromSub[j].kind = "Response"
      BY <3>1 DEF HasResponse
    <3>3. response # NoResponse
      BY <2>2, <3>2 DEF AnswerOrder, ResponseComes
    <3> QED  BY <1>4, <2>3, <3>3 DEF Succeeded
  <2> QED  BY <2>1, <2>2, <2>3
<1> QED
  BY <1>1, <1>2, <1>3, <1>4

LEMMA RustFailsNot ==
  ASSUME TypeOK, Lifetimes, Answers, AnswerOrder, TurnTaking, NothingFails, Rust
  PROVE  NothingFails'
<1> SUFFICES ASSUME ~faulted  PROVE OnlyFatalErrors' /\ NoPipeCutShort'
  BY DEF NothingFails, Rust
<1>0. /\ OnlyFatalErrors /\ NoPipeCutShort
      /\ NoSub # Running /\ NoSub # 2 /\ Running # 2 /\ Running \notin {0, 101} /\ NoSub # 0
  BY DEF NothingFails, NoSub, Running
<1>1. UNCHANGED <<pc, result, errorsPerItem>>
  BY DEF Rust, ReadEngineInput, ReadInputEof, WriteBroken, NativeReport, NativeDone, Printed,
     WriteQueued, ReportDone, ReturnFromMain, RustDies, Spawn, SendQuery, SendToSubBroken, OnResponse,
     OnSubGarbage, OnSubExit, OnSubEof, Proxy, Relay, WaitSub, Get, Put, ExitWith, runVars, clientVars
<1>2. CASE ReadInputEof \/ WriteBroken \/ SendToSubBroken \/ OnSubGarbage \/ (WaitSub /\ ~Succeeded)
  <2>1. subExit = 2 /\ UNCHANGED <<exitCode, fromSub, squeue, state, spc, subExit>>
    BY <1>0, <1>2, PanicsOnFailure DEF ReadInputEof, WriteBroken, SendToSubBroken, OnSubGarbage, WaitSub, TakeFromSub,
       runVars, pipeVars, subPipes, subVars
  <2>2. spc = "dead"
    BY <1>0, <2>1 DEF Lifetimes
  <2> QED  BY <1>0, <1>1, <2>1, <2>2 DEF OnlyFatalErrors, NoPipeCutShort, Working, ClientEndsOpen
<1>3. CASE Spawn
  <2>1. /\ rpc' = "send" /\ subExit' = Running /\ spc' = "load" /\ fromSub' = << >> /\ exitCode' = exitCode
        /\ rpc = "dispatch"
    BY <1>3 DEF Spawn, runVars, pipeVars
  <2>2. subExit \in {NoSub, 0}
    BY <2>1 DEF Lifetimes
  <2> QED  BY <1>0, <1>1, <2>1, <2>2 DEF OnlyFatalErrors, NoPipeCutShort, RustEndsOpen, ClientEndsOpen, StatsDivideByZero
<1>4. ASSUME UNCHANGED <<fromSub, squeue, state, spc, subExit>>, rpc' # "panic",
             exitCode' = exitCode \/ exitCode' = 0 \/ rpc = "panic",
             exitCode' = exitCode \/ exitCode' # Running,
             RustEndsOpen => RustEndsOpen' \/ (spc \notin Working /\ (spc = "answer" => squeue = << >>))
      PROVE  OnlyFatalErrors' /\ NoPipeCutShort'
  BY <1>0, <1>1, <1>4 DEF OnlyFatalErrors, NoPipeCutShort, ClientEndsOpen, StatsDivideByZero
<1>5. CASE ReadEngineInput \/ NativeReport \/ NativeDone \/ Printed \/ WriteQueued \/ ReportDone
  BY <1>4, <1>5 DEF ReadEngineInput, NativeReport, NativeDone, Printed, WriteQueued, ReportDone, Get, Put, RustEndsOpen,
     runVars, pipeVars, rustVars, subPipes, subVars
<1>6. CASE ReturnFromMain \/ RustDies
  BY <1>0, <1>4, <1>6 DEF ReturnFromMain, RustDies, ExitWith, RustEndsOpen, subPipes, subVars
<1>7. CASE SendQuery \/ OnResponse \/ Proxy \/ Relay
  BY <1>4, <1>7 DEF SendQuery, OnResponse, Proxy, Relay, SendToSub, TakeFromSub, Get, Put, RustEndsOpen,
     runVars, pipeVars, subPipes, subVars
<1>8. CASE WaitSub /\ Succeeded
  BY <1>4, <1>8 DEF WaitSub, RustEndsOpen, runVars, pipeVars, subPipes, subVars
<1>9. CASE OnSubEof
  <2>1. spc = "dead"
    BY <1>9 DEF OnSubEof, Lifetimes
  <2> QED  BY <1>4, <1>9, <2>1 DEF OnSubEof, Working, runVars, pipeVars, subPipes, subVars
<1>10. CASE OnSubExit
  <2>1. rread + 1 \in 1..Len(fromSub) /\ fromSub[rread + 1].kind = "Exit"
    BY <1>10, PipeTypes DEF OnSubExit, TakeFromSub, SubMsg
  <2>2. spc \notin Working /\ squeue = << >>
    BY <2>1 DEF Answers, NoAnswerYet, AnswerOrder, AnswerKinds
  <2> QED  BY <1>4, <1>10, <2>2 DEF OnSubExit, TakeFromSub, runVars, pipeVars, subVars
<1> QED
  BY <1>2, <1>3, <1>5, <1>6, <1>7, <1>8, <1>9, <1>10 DEF Rust

LEMMA SubFailsNot ==
  ASSUME TypeOK, Lifetimes, Answers, AnswerOrder, TurnTaking, NothingFails, Sub
  PROVE  NothingFails'
<1> SUFFICES ASSUME ~faulted  PROVE OnlyFatalErrors' /\ NoPipeCutShort'
  BY DEF NothingFails, Sub
<1>0. /\ OnlyFatalErrors /\ NoPipeCutShort
      /\ NoSub # Running /\ NoSub # 2 /\ Running # 2 /\ 0 # 2
  BY DEF NothingFails, NoSub, Running
<1>1. UNCHANGED <<pc, result, errorsPerItem, exitCode, rpc>>
  BY SubFrame DEF runVars, clientVars, pipeVars, rustVars
<1>2. subExit = Running
  BY SubAtWork
<1>3. ASSUME subExit' \in {Running, 0, 2}, spc' = "crash" \/ subExit' = 2 => state' # << >>,
             \A j \in 1..Len(fromSub') : fromSub'[j].kind # "Garbage",
             spc' \in Working \/ (spc' = "answer" /\ squeue' # << >>) =>
               spc \in Working \/ (spc = "answer" /\ squeue # << >>)
      PROVE  OnlyFatalErrors' /\ NoPipeCutShort'
  BY <1>0, <1>1, <1>2, <1>3 DEF OnlyFatalErrors, NoPipeCutShort, ClientEndsOpen, RustEndsOpen, StatsDivideByZero
<1>4. ASSUME NEW m \in FromSub, m.kind # "Garbage", fromSub' = Append(fromSub, m)
      PROVE  \A j \in 1..Len(fromSub') : fromSub'[j].kind # "Garbage"
  <2>1. \A j \in 1..Len(fromSub') : fromSub'[j] = m \/ (j \in 1..Len(fromSub) /\ fromSub'[j] = fromSub[j])
    BY <1>4, PipeTypes
  <2> QED  BY <1>0, <1>4, <2>1 DEF NoPipeCutShort
<1>5. \A j \in 1..Len(fromSub) : fromSub[j].kind # "Garbage"
  BY <1>0 DEF NoPipeCutShort
<1>6. CASE SubLoad \/ SubReport \/ SubFinish \/ SubImportFatal
  <2>1. /\ spc \in Working /\ fromSub' = fromSub /\ subExit' = subExit /\ spc' # "crash"
    BY <1>6 DEF SubLoad, SubReport, SubFinish, SubImportFatal, SubGet, subPipes, Working
  <2> QED  BY <1>0, <1>2, <1>3, <1>5, <2>1
<1>7. CASE SubFatal
  <2>1. PICK d \in Diag : state' = Append(state, d)
    BY <1>7 DEF SubFatal
  <2>2. state' # << >>
    BY <2>1, TypeParts DEF SubVarsOK
  <2> QED  BY <1>2, <1>3, <1>5, <1>7, <2>2 DEF SubFatal, subPipes, Working
<1>8. CASE SubImport \/ SubProfile \/ SubRequest
  <2>1. PICK m \in FromSub : m.kind # "Garbage" /\ fromSub' = Append(fromSub, m)
    <3>1. CASE SubImport
      <4>1. PICK items \in SUBSET Item : SubPut(ItemProcessedMsg(items))
        BY <3>1 DEF SubImport
      <4> QED  BY <4>1, MessageTypes DEF SubPut, ItemProcessedMsg
    <3>2. CASE SubProfile \/ SubRequest
      <4>1. PICK k \in RequestKind \cup {"ProfilingData"} : SubPut(Plain(k))
        BY <3>2 DEF SubProfile, SubRequest, SubTalk
      <4>2. k \in PlainKind /\ k # "Garbage"
        BY DEF PlainKind, RequestKind
      <4> QED  BY <4>1, <4>2, MessageTypes DEF SubPut
    <3> QED  BY <1>8, <3>1, <3>2
  <2>2. spc \in Working /\ subExit' = subExit /\ spc' # "crash"
    BY <1>8 DEF SubImport, SubProfile, SubRequest, SubTalk, SubPut, Working
  <2> QED  BY <1>0, <1>2, <1>3, <1>4, <2>1, <2>2
<1>9. CASE SubReadReply
  <2>1. spc = "await" /\ SubStdinReady /\ fromSub' = fromSub /\ subExit' = subExit
        /\ spc' = IF toSub[sread + 1] = ReplyTo[sasked] THEN "work" ELSE "crash"
    BY <1>9 DEF SubReadReply, SubGet
  <2>2. spc' = "work"
    BY <2>1 DEF TurnTaking, SubTurns
  <2> QED  BY <1>0, <1>2, <1>3, <1>5, <2>1, <2>2 DEF Working
<1>10. CASE SubAnswer
  <2>1. Head(squeue) \in FromSub /\ Head(squeue) = squeue[1] /\ 1 \in 1..Len(squeue)
    BY <1>10, TypeParts DEF SubAnswer, SubVarsOK
  <2>2. Head(squeue).kind # "Garbage"
    BY <2>1 DEF AnswerOrder, AnswerKinds
  <2>3. spc = "answer" /\ squeue # << >> /\ spc' = spc /\ fromSub' = Append(fromSub, Head(squeue)) /\ subExit' = subExit
    BY <1>10 DEF SubAnswer, SubPut
  <2> QED  BY <1>0, <1>2, <1>3, <1>4, <2>1, <2>2, <2>3
<1>11. CASE SubReturns \/ SubDies
  <2>1. spc' = "dead" /\ fromSub' = fromSub /\ state' = state
        /\ \/ subExit' = 0
           \/ subExit' = 2 /\ spc = "crash"
    BY <1>11 DEF SubReturns, SubDies, SubExitWith
  <2>2. subExit' = 2 => state # << >>
    BY <1>0, <2>1 DEF OnlyFatalErrors
  <2> QED  BY <1>0, <1>3, <1>5, <2>1, <2>2 DEF Working
<1>12. CASE SubReadEof \/ SubBroken
  <2>1. ~RustEndsOpen /\ (spc \in Working \/ (spc = "answer" /\ squeue # << >>))
    BY <1>12 DEF SubReadEof, SubBroken, SubStdinEof, SubStdoutBroken, Working
  <2> QED  BY <1>0, <2>1 DEF NoPipeCutShort
<1> QED
  BY <1>6, <1>7, <1>8, <1>9, <1>10, <1>11, <1>12 DEF Sub

THEOREM NothingFailsInvariance == Spec => []NothingFails
<1>1. Init => NothingFails
  BY DEF Init, RunInit, NothingFails, OnlyFatalErrors, NoPipeCutShort, Working, ClientEndsOpen, RustEndsOpen, NoSub
<1>2. TypeOK /\ Lifetimes /\ View /\ Answers /\ AnswerOrder /\ TurnTaking /\ NothingFails /\ [Next]_vars => NothingFails'
  <2> SUFFICES ASSUME TypeOK, Lifetimes, View, Answers, AnswerOrder, TurnTaking, NothingFails, [Next]_vars
               PROVE  NothingFails'
    OBVIOUS
  <2>1. CASE UNCHANGED vars
    <3>1. /\ UNCHANGED <<faulted, pc, result, errorsPerItem, exitCode, rpc>>
          /\ UNCHANGED <<fromSub, squeue, state, spc, subExit>>
      BY <2>1 DEF vars, runVars, clientVars, pipeVars, rustVars, subPipes, subVars
    <3> QED
      BY <3>1 DEF NothingFails, OnlyFatalErrors, NoPipeCutShort, ClientEndsOpen, RustEndsOpen, StatsDivideByZero
  <2>2. CASE Fault
    BY <2>2 DEF Fault, NothingFails
  <2> QED  BY <2>1, <2>2, NextCases, ClientFailsNot, RustFailsNot, SubFailsNot
<1> QED
  BY LifetimesInvariance, ViewInvariance, AnswersInvariance, AnswerOrderInvariance, TurnsInvariance, <1>1, <1>2, PTL
     DEF Spec

(***************************************************************************)
(* The nested conversations, for every plan and every fault: every process *)
(* agrees on whose turn it is, a reply answers the request its reader      *)
(* awaits, the subprocesses come one after the other, and a run without    *)
(* fault ends well unless a subprocess met a fatal error or the statistics *)
(* divide by zero.                                                         *)
(***************************************************************************)
THEOREM ConversationIsOK == Spec => ConversationOK
<1>1. TypeOK /\ Lifetimes /\ TurnTaking => RepliesMatch
  BY DEF RepliesMatch, Lifetimes, TurnTaking, Turns, SubTurns
<1>2. NothingFails => CleanRun
  BY DEF NothingFails, OnlyFatalErrors, CleanRun
<1>3. TypeOK /\ Lifetimes /\ [Next]_vars =>
        [(rpc = "dispatch" /\ rpc' = "send") \/ (rpc = "report" /\ step' # step) => subExit \in {0, NoSub}]_vars
  BY DEF Lifetimes
<1> QED
  BY LifetimesInvariance, TurnsInvariance, NothingFailsInvariance, <1>1, <1>2, <1>3, PTL
     DEF Spec, ConversationOK, QueriesSequential

-----------------------------------------------------------------------------
(***************************************************************************)
(* The files.  They come from the last step of the plan only, in OCaml or  *)
(* in Rust, with one file per path; each is on its way in the output of a  *)
(* subprocess, what it or the Rust engine has yet to write, or the output  *)
(* of the Rust engine, and none is lost between two of these.              *)
(***************************************************************************)
Carry(m) == IF m.kind = "File" THEN {m.file} ELSE {}
FilesAround == SentFiles(fromEngine) \cup SentFiles(queue) \cup SentFiles(fromSub) \cup SentFiles(squeue)

OnePerPath == \A f, g \in FilesAround : f.path = g.path => f = g

BeforeTheFiles ==
  \/ step < Len(plan)
  \/ step = Len(plan) /\ (rpc \in {"load", "dispatch"} \/ spc \in Working)
  \/ plan[Len(plan)] # "Print" /\ rpc \notin {"files", "panic", "dead"}

FilesLast == BeforeTheFiles => FilesAround = {}

FilesForwarded == \A j \in 1..rread : Carry(fromSub[j]) \subseteq SentFiles(fromEngine)

Acted(f) == IF DryRun THEN f \in SentFiles(output) ELSE disk[f.path] = f.contents
FilesActed == \A j \in 1..cread : \A f \in Carry(fromEngine[j]) : Acted(f)

NothingSpawned == subExit = NoSub => squeue = << >>

FilesOnTheWay == OnePerPath /\ FilesLast /\ FilesForwarded /\ FilesActed /\ NothingSpawned

\* The files of a list of messages.
LEMMA SentEmpty == SentFiles(<< >>) = {}
BY DEF SentFiles

LEMMA SentAppend ==
  ASSUME NEW S, NEW s \in Seq(S), NEW m \in S, NEW t, t = Append(s, m)
  PROVE  SentFiles(t) = SentFiles(s) \cup Carry(m)
<1>1. /\ Len(s) \in Nat /\ DOMAIN t = 1..Len(s) + 1 /\ DOMAIN s = 1..Len(s) /\ t[Len(s) + 1] = m
      /\ \A k \in 1..Len(s) : t[k] = s[k]
  OBVIOUS
<1>2. \A k \in DOMAIN t : k \in DOMAIN s \/ k = Len(s) + 1
  BY <1>1
<1> QED
  BY <1>1, <1>2 DEF SentFiles, Carry

LEMMA SentHead ==
  ASSUME NEW S, NEW s \in Seq(S), s # << >>
  PROVE  Head(s) \in S /\ Carry(Head(s)) \subseteq SentFiles(s) /\ SentFiles(Tail(s)) \subseteq SentFiles(s)
<1>1. Head(s) = s[1] /\ 1 \in DOMAIN s /\ s[1] \in S
  OBVIOUS
<1>2. PICK t : t = Tail(s)
  OBVIOUS
<1>3. \A k \in DOMAIN t : k + 1 \in DOMAIN s /\ t[k] = s[k + 1]
  BY <1>2
<1>4. SentFiles(t) \subseteq SentFiles(s)
  BY <1>3 DEF SentFiles
<1> QED
  BY <1>1, <1>2, <1>4 DEF SentFiles, Carry

LEMMA SentNone ==
  ASSUME NEW t, \A k \in DOMAIN t : t[k].kind # "File"
  PROVE  SentFiles(t) = {}
BY DEF SentFiles

\* The lists of files the model chooses from hold one file per path.
LEMMA ListedFiles ==
  ASSUME NEW fs \in SomeFiles
  PROVE  fs \in Seq(File) /\ \A i, j \in 1..Len(fs) : fs[i].path = fs[j].path => i = j
<1>1. CASE fs = << >>
  BY <1>1
<1>2. CASE fs \in FileLists
  <2>1. fs \in Seq(File)
    BY <1>2, MessageTypes
  <2>2. \A i, j \in DOMAIN fs : fs[i].path = fs[j].path => i = j
    BY <1>2 DEF FileLists
  <2> QED  BY <2>1, <2>2
<1> QED
  BY <1>1, <1>2 DEF SomeFiles

LEMMA SentFileMsgs ==
  ASSUME NEW fs \in Seq(File)
  PROVE  SentFiles(FileMsgs(fs)) \subseteq {fs[i] : i \in 1..Len(fs)}
<1>1. PICK t : t = FileMsgs(fs)
  OBVIOUS
<1>2. DOMAIN t = 1..Len(fs) /\ \A k \in 1..Len(fs) : t[k].file = fs[k]
  BY <1>1 DEF FileMsgs, FileMsg
<1>3. SentFiles(t) \subseteq {fs[i] : i \in 1..Len(fs)}
  BY <1>2 DEF SentFiles
<1> QED
  BY <1>1, <1>3

LEMMA SentAnswer ==
  ASSUME NEW fs \in Seq(File), NEW diags \in Seq(Diag), NEW debug \in Nat, NEW a, a = Answer(fs, diags, debug)
  PROVE  SentFiles(a) \subseteq {fs[i] : i \in 1..Len(fs)}
<1>1. PICK ds : ds = IF Query = "Print" THEN << >> ELSE diags
  OBVIOUS
<1>2. \A f : FileMsg(f).file = f
  BY DEF FileMsg
<1>3. Plain("DebugString").kind # "File" /\ Plain("Exit").kind # "File"
  BY DEF Plain
<1>4. a \in Seq(FromSub) /\ \A k \in 1..Len(a) : a[k].kind = "File" => k \in 1..Len(fs) /\ a[k].file = fs[k]
  <2>1. /\ a \in Seq(FromSub)
        /\ \A k \in 1..Len(a) :
             \/ k \in 1..Len(fs) /\ a[k] = FileMsg(fs[k])
             \/ a[k] = Plain("DebugString")
             \/ a[k] = [kind |-> "Response", diags |-> ds]
             \/ a[k] = Plain("Exit")
    BY <1>1, AnswerParts
  <2> QED  BY <1>2, <1>3, <2>1
<1>5. DOMAIN a = 1..Len(a)
  BY <1>4
<1> QED
  BY <1>4, <1>5 DEF SentFiles

LEMMA CarryTypes ==
  /\ \A m \in FromEngine : Carry(m) \subseteq File
  /\ \A d : Carry(DiagnosticMsg(d)) = {}
  /\ \A i : Carry(ItemProcessedMsg(i)) = {}
BY DEF FromEngine, PlainKind, RequestKind, Carry, DiagnosticMsg, ItemProcessedMsg

\* What happens to the files around when nothing new is printed.
LEMMA FilesKept ==
  ASSUME OnePerPath, FilesLast, FilesAround' \subseteq FilesAround, BeforeTheFiles' => BeforeTheFiles
  PROVE  OnePerPath' /\ FilesLast'
<1>1. OnePerPath'
  BY DEF OnePerPath
<1>2. FilesLast'
  BY DEF FilesLast
<1> QED
  BY <1>1, <1>2

\* The last step prints: no file was around.
LEMMA FilesPrinted ==
  ASSUME NEW fs \in SomeFiles, FilesAround' \subseteq {fs[i] : i \in 1..Len(fs)}, ~BeforeTheFiles'
  PROVE  OnePerPath' /\ FilesLast'
<1>1. FilesLast'
  BY DEF FilesLast
<1>2. OnePerPath'
  <2> SUFFICES ASSUME NEW f \in FilesAround', NEW g \in FilesAround', f.path = g.path  PROVE f = g
    BY DEF OnePerPath
  <2>1. PICK i \in 1..Len(fs), j \in 1..Len(fs) : f = fs[i] /\ g = fs[j]
    OBVIOUS
  <2> QED  BY <2>1, ListedFiles
<1> QED
  BY <1>1, <1>2

(***************************************************************************)
(* A subprocess: it prints in the last step, and otherwise only moves the  *)
(* files of its answer to its output.                                      *)
(***************************************************************************)
LEMMA SubFiles ==
  ASSUME TypeOK, Lifetimes, FilesOnTheWay, Sub \/ (Fault /\ (SubRaisesException \/ SubDebugPrint \/ SubKilled))
  PROVE  OnePerPath' /\ FilesLast'
<1>0. /\ fromSub \in Seq(FromSub) /\ squeue \in Seq(FromSub) /\ state \in Seq(Diag)
      /\ step \in Nat /\ Len(plan) \in Nat
      /\ OnePerPath /\ FilesLast
  BY TypeParts, PlanTypes DEF SubPipesOK, SubVarsOK, FilesOnTheWay
<1>1. /\ rpc \in {"send", "proxy", "relay", "wait", "panic", "dead"} /\ step <= Len(plan) /\ Query = plan[step]
      /\ UNCHANGED <<plan, rpc, step, queue, fromEngine>>
  BY SubAtWork
<1>2. ASSUME SentFiles(fromSub') \cup SentFiles(squeue') \subseteq SentFiles(fromSub) \cup SentFiles(squeue),
             spc' \in Working => spc \in Working
      PROVE  OnePerPath' /\ FilesLast'
  <2>1. FilesAround' \subseteq FilesAround
    BY <1>1, <1>2 DEF FilesAround
  <2>2. BeforeTheFiles' => BeforeTheFiles
    BY <1>1, <1>2 DEF BeforeTheFiles
  <2> QED  BY <1>0, <2>1, <2>2, FilesKept
<1>2a. ASSUME NEW m \in FromSub, fromSub' = Append(fromSub, m)
      PROVE  SentFiles(fromSub') = SentFiles(fromSub) \cup Carry(m)
  BY <1>0, <1>2a, SentAppend
<1>3. CASE SubQuiet
  BY <1>2, <1>3 DEF SubQuiet
<1>4. ASSUME NEW m \in FromSub, SubSays(m)  PROVE OnePerPath' /\ FilesLast'
  <2>1. SentFiles(fromSub') = SentFiles(fromSub)
    BY <1>0, <1>4, SentAppend DEF SubSays, Carry
  <2> QED  BY <1>2, <1>4, <2>1 DEF SubSays, Working
<1>5. CASE SubRaises
  BY <1>2, <1>5 DEF SubRaises, Working
<1>6. CASE SubWrites
  <2>1. /\ Head(squeue) \in FromSub /\ Carry(Head(squeue)) \subseteq SentFiles(squeue)
        /\ SentFiles(Tail(squeue)) \subseteq SentFiles(squeue)
    BY <1>0, <1>6, SentHead DEF SubWrites
  <2>2. PICK m \in FromSub : m = Head(squeue)
    BY <2>1
  <2>3. fromSub' = Append(fromSub, m)
    BY <1>6, <2>2 DEF SubWrites
  <2>4. SentFiles(fromSub') = SentFiles(fromSub) \cup Carry(m)
    BY <1>2a, <2>3
  <2> QED  BY <1>2, <1>6, <2>1, <2>2, <2>4 DEF SubWrites
<1>7. ASSUME NEW fs \in SomeFiles, NEW debug \in Nat, SubConcludes(fs, debug)  PROVE OnePerPath' /\ FilesLast'
  <2>1. fs \in Seq(File) /\ state' \in Seq(Diag)
    BY <1>0, <1>7, ListedFiles DEF SubConcludes
  <2>2. Query' = Query
    BY <1>1 DEF Query
  <2>3. SentFiles(squeue') \subseteq {fs[i] : i \in 1..Len(fs)}
    BY <1>7, <2>1, SentAnswer DEF SubConcludes
  <2>4. SentFiles(fromSub') = SentFiles(fromSub)
    <3>1. CASE \E items \in SUBSET Item : fromSub' = Append(fromSub, ItemProcessedMsg(items))
      <4>1. PICK items \in SUBSET Item : fromSub' = Append(fromSub, ItemProcessedMsg(items))
        BY <3>1
      <4>2. PICK m \in FromSub : m = ItemProcessedMsg(items) /\ Carry(m) = {}
        BY MessageTypes, CarryTypes
      <4>3. fromSub' = Append(fromSub, m)
        BY <4>1, <4>2
      <4>4. SentFiles(fromSub') = SentFiles(fromSub) \cup Carry(m)
        BY <1>2a, <4>3
      <4> QED  BY <4>2, <4>4
    <3> QED  BY <1>7, <3>1 DEF SubConcludes
  <2>5. spc \in Working /\ spc' = "answer"
    BY <1>7 DEF SubConcludes, Working
  <2>6. CASE fs = << >>
    <3>1. SentFiles(squeue') = {}
      BY <2>3, <2>6
    <3> QED  BY <1>2, <2>4, <2>5, <3>1
  <2>7. CASE fs # << >>
    <3>1. plan[step] = "Print"
      BY <1>1, <1>7, <2>7 DEF SubConcludes
    <3>2. step = Len(plan)
      BY <1>0, <1>1, <3>1, PlanTypes DEF TypeOK
    <3>3. FilesAround = {}
      BY <1>0, <2>5, <3>2 DEF FilesLast, BeforeTheFiles
    <3>4. FilesAround' \subseteq {fs[i] : i \in 1..Len(fs)}
      BY <1>1, <2>3, <2>4, <3>3 DEF FilesAround
    <3>5. ~BeforeTheFiles'
      BY <1>0, <1>1, <2>5, <3>1, <3>2 DEF BeforeTheFiles, Working
    <3> QED  BY <3>4, <3>5, FilesPrinted
  <2> QED  BY <2>6, <2>7
<1> QED
  BY <1>3, <1>4, <1>5, <1>6, <1>7, SubCases

\* The other parts are not concerned by a subprocess.
LEMMA SubKeepsFiles ==
  ASSUME TypeOK, Lifetimes, FilesOnTheWay, Sub \/ (Fault /\ (SubRaisesException \/ SubDebugPrint \/ SubKilled))
  PROVE  FilesForwarded' /\ FilesActed' /\ NothingSpawned'
<1>1. UNCHANGED <<fromEngine, cread, output, disk, rread>>
  BY SubFrame, SubPipesFrame DEF runVars, clientVars, pipeVars
<1>2. FilesActed'
  BY <1>1 DEF FilesOnTheWay, FilesActed, Acted
<1>3. \A j \in 1..rread : fromSub'[j] = fromSub[j]
  <2>1. fromSub' = fromSub \/ \E m \in FromSub : fromSub' = Append(fromSub, m)
    <3>1. CASE SubWrites
      BY <3>1, SentHead, TypeParts DEF SubWrites, SubVarsOK
    <3>2. CASE SubQuiet \/ SubRaises
      BY <3>2 DEF SubQuiet, SubRaises
    <3>3. CASE \E m \in FromSub : SubSays(m)
      BY <3>3 DEF SubSays
    <3>4. CASE \E files \in SomeFiles, debug \in Nat : SubConcludes(files, debug)
      BY <3>4, MessageTypes DEF SubConcludes
    <3> QED  BY <3>1, <3>2, <3>3, <3>4, SubCases
  <2> QED  BY <2>1, PipeTypes
<1>4. FilesForwarded'
  BY <1>1, <1>3 DEF FilesOnTheWay, FilesForwarded
<1>5. subExit = Running /\ subExit' \in {subExit, 0, 2, 137}
  BY SubAtWork DEF Sub, Fault, SubLoad, SubReadEof, SubImport, SubImportFatal, SubReport, SubFatal, SubProfile,
     SubRequest, SubTalk, SubReadReply, SubFinish, SubAnswer, SubReturns, SubBroken, SubDies,
     SubRaisesException, SubDebugPrint, SubKilled, SubGet, SubPut, SubExitWith, subPipes
<1>6. NothingSpawned'
  BY <1>5 DEF NothingSpawned, NoSub, Running
<1> QED
  BY <1>2, <1>4, <1>6

(***************************************************************************)
(* The Rust engine: files pass through its queue or from one pipe to the   *)
(* other.                                                                  *)
(***************************************************************************)
\* What it was going to do decides, with its step, whether files may be around.
LEMMA RustBeforeTheFiles ==
  ASSUME TypeOK, Rust \/ (Fault /\ RustKilled), ~Printed, BeforeTheFiles'
  PROVE  BeforeTheFiles
<1>0. step \in Nat /\ Len(plan) \in Nat /\ plan' = plan
  BY PlanTypes DEF Rust, Fault
<1>1. rpc \in {"files", "panic", "dead"} => rpc' \in {"files", "panic", "dead"}
  BY DEF Rust, ReadEngineInput, ReadInputEof, WriteBroken, NativeReport, NativeDone,
     WriteQueued, ReportDone, ReturnFromMain, RustDies, Spawn, SendQuery, SendToSubBroken, OnResponse,
     OnSubGarbage, OnSubExit, OnSubEof, Proxy, Relay, WaitSub, RustPanic, TakeFromSub, Fault, RustKilled, rustVars
<1>2. CASE Spawn
  <2>1. step' = step /\ rpc = "dispatch"
    BY <1>2 DEF Spawn
  <2> QED  BY <1>0, <1>1, <1>2, <2>1 DEF BeforeTheFiles, Spawn
<1>3. CASE ~Spawn
  <2>1. spc' = spc
    BY <1>3, QueryFrame
  <2>2. \/ step' = step + 1
        \/ step' = step /\ (rpc' \in {"load", "dispatch"} => rpc \in {"load", "dispatch"})
    BY <1>3 DEF Rust, ReadEngineInput, ReadInputEof, WriteBroken, NativeReport, NativeDone,
       WriteQueued, ReportDone, ReturnFromMain, RustDies, SendQuery, SendToSubBroken, OnResponse,
       OnSubGarbage, OnSubExit, OnSubEof, Proxy, Relay, WaitSub, RustPanic, TakeFromSub, Fault, RustKilled, rustVars
  <2> QED  BY <1>0, <1>1, <2>1, <2>2 DEF BeforeTheFiles
<1> QED
  BY <1>2, <1>3

LEMMA RustFiles ==
  ASSUME TypeOK, Lifetimes, FilesOnTheWay, Rust \/ (Fault /\ RustKilled)
  PROVE  OnePerPath' /\ FilesLast'
<1>0. /\ queue \in Seq(FromEngine) /\ fromEngine \in Seq(FromEngine) /\ OnePerPath /\ FilesLast
      /\ step \in Nat /\ Len(plan) \in Nat /\ plan' = plan
  <2>1. queue \in Seq(FromEngine)
    BY TypeParts DEF RustTypeOK
  <2>2. fromEngine \in Seq(FromEngine) /\ step \in Nat /\ Len(plan) \in Nat
    BY PipeTypes, PlanTypes
  <2>3. OnePerPath /\ FilesLast
    BY DEF FilesOnTheWay
  <2>4. plan' = plan
    BY DEF Rust, Fault
  <2> QED  BY <2>1, <2>2, <2>3, <2>4
<1>1. ASSUME FilesAround' \subseteq FilesAround, ~Printed  PROVE OnePerPath' /\ FilesLast'
  BY <1>0, <1>1, RustBeforeTheFiles, FilesKept
<1>2. ASSUME NEW m \in FromEngine, Put(m)  PROVE SentFiles(fromEngine') = SentFiles(fromEngine) \cup Carry(m)
  <2>1. fromEngine' = Append(fromEngine, m)
    BY <1>2 DEF Put
  <2> QED  BY <1>0, <2>1, SentAppend
<1>3. CASE Printed
  <2>1. /\ rpc = "dispatch" /\ rpc' = "files" /\ step > Len(plan)
        /\ UNCHANGED <<step, fromEngine, fromSub, squeue, spc>>
    BY <1>3 DEF Printed, runVars, pipeVars, subPipes, subVars
  <2>2. ~BeforeTheFiles'
    <3>1. spc \notin Working
      BY <1>0, <2>1 DEF Lifetimes, Working
    <3> QED  BY <1>0, <2>1, <3>1 DEF BeforeTheFiles
  <2>3. CASE plan[Len(plan)] = "Print"
    <3>1. SentFiles(queue') = {}
      BY <1>3, <2>3, SentEmpty DEF Printed
    <3>2. FilesAround' \subseteq FilesAround
      BY <2>1, <3>1 DEF FilesAround
    <3> QED  BY <1>0, <2>2, <3>2, FilesKept
  <2>4. CASE plan[Len(plan)] # "Print"
    <3>1. PICK fs \in FileLists : queue' = FileMsgs(fs)
      BY <1>3, <2>4 DEF Printed
    <3>2. fs \in SomeFiles /\ fs \in Seq(File)
      BY MessageTypes DEF SomeFiles
    <3>3. FilesAround = {}
      BY <1>0, <2>1, <2>4 DEF FilesLast, BeforeTheFiles
    <3>4. SentFiles(queue') \subseteq {fs[i] : i \in 1..Len(fs)}
      BY <3>1, <3>2, SentFileMsgs
    <3>5. FilesAround' \subseteq {fs[i] : i \in 1..Len(fs)}
      BY <2>1, <3>3, <3>4 DEF FilesAround
    <3> QED  BY <2>2, <3>2, <3>5, FilesPrinted
  <2> QED  BY <2>3, <2>4
<1>4. CASE NativeReport
  <2>1. PICK m \in FromEngine : Put(m) /\ Carry(m) = {}
    <3>1. PICK d \in Diag : Put(DiagnosticMsg(d))
      BY <1>4 DEF NativeReport
    <3> QED  BY <3>1, MessageTypes, CarryTypes
  <2>2. SentFiles(fromEngine') = SentFiles(fromEngine)
    BY <1>2, <2>1
  <2>3. UNCHANGED <<queue, fromSub, squeue>> /\ ~Printed
    BY <1>4 DEF NativeReport, Printed, rustVars, subPipes, subVars
  <2> QED  BY <1>1, <2>2, <2>3 DEF FilesAround
<1>5. CASE WriteQueued
  <2>1. /\ Head(queue) \in FromEngine /\ Carry(Head(queue)) \subseteq SentFiles(queue)
        /\ SentFiles(Tail(queue)) \subseteq SentFiles(queue)
    BY <1>0, <1>5, SentHead DEF WriteQueued
  <2>2. SentFiles(fromEngine') = SentFiles(fromEngine) \cup Carry(Head(queue))
    BY <1>2, <1>5, <2>1 DEF WriteQueued
  <2>3. queue' = Tail(queue) /\ UNCHANGED <<fromSub, squeue>> /\ ~Printed
    BY <1>5 DEF WriteQueued, Printed, subPipes, subVars
  <2> QED  BY <1>1, <2>1, <2>2, <2>3 DEF FilesAround
<1>6. CASE Proxy
  <2>1. SubMsg \in FromEngine /\ SubMsg = fromSub[rread + 1] /\ rread + 1 \in 1..Len(fromSub) /\ Put(SubMsg)
    <3>1. SubMsg \in FromSub /\ SubMsg.kind \in Proxied
      BY <1>6, TypeParts, TakeType DEF Proxy
    <3> QED  BY <1>6, <3>1, SubMsgTypes, PipeTypes DEF Proxy, TakeFromSub, SubMsg
  <2>2. Carry(SubMsg) \subseteq SentFiles(fromSub)
    <3>1. rread + 1 \in DOMAIN fromSub
      BY <2>1, PipeTypes
    <3> QED  BY <2>1, <3>1 DEF SentFiles, Carry
  <2>3. SentFiles(fromEngine') = SentFiles(fromEngine) \cup Carry(SubMsg)
    BY <1>2, <2>1
  <2>4. UNCHANGED <<queue, fromSub, squeue>> /\ ~Printed
    BY <1>6 DEF Proxy, TakeFromSub, Printed, subVars
  <2> QED  BY <1>1, <2>2, <2>3, <2>4 DEF FilesAround
<1>7. CASE Spawn
  <2>1. UNCHANGED <<queue, fromEngine>> /\ fromSub' = << >> /\ squeue' = << >> /\ ~Printed
    BY <1>7 DEF Spawn, Printed, runVars, pipeVars
  <2>2. FilesAround' \subseteq FilesAround
    BY <2>1, SentEmpty DEF FilesAround
  <2> QED  BY <1>1, <2>1, <2>2
<1>8. CASE WaitSub /\ Succeeded
  <2>1. queue' = DiagnosticMsgs(response[1]) /\ UNCHANGED <<fromEngine, fromSub, squeue>> /\ ~Printed
    BY <1>8 DEF WaitSub, Printed, runVars, pipeVars, subPipes, subVars
  <2>2. \A k \in DOMAIN DiagnosticMsgs(response[1]) : DiagnosticMsgs(response[1])[k].kind # "File"
    BY DEF DiagnosticMsgs, DiagnosticMsg
  <2>3. SentFiles(queue') = {}
    BY <2>1, <2>2, SentNone
  <2> QED  BY <1>1, <2>1, <2>3 DEF FilesAround
<1>9. CASE ~Printed /\ ~NativeReport /\ ~WriteQueued /\ ~Proxy /\ ~Spawn /\ ~(WaitSub /\ Succeeded)
  <2>1. UNCHANGED <<queue, fromEngine, fromSub, squeue>>
    BY <1>9 DEF Rust, ReadEngineInput, ReadInputEof, WriteBroken, NativeDone, ReportDone,
       ReturnFromMain, RustDies, SendQuery, SendToSub, SendToSubBroken, OnResponse, OnSubGarbage, OnSubExit, OnSubEof,
       Relay, WaitSub, RustPanic, TakeFromSub, Get, ExitWith, Fault, RustKilled, runVars, pipeVars, subPipes, subVars
  <2> QED  BY <1>1, <1>9, <2>1 DEF FilesAround
<1> QED
  BY <1>3, <1>4, <1>5, <1>6, <1>7, <1>8, <1>9

\* The Rust engine forwards every file it reads; it does not touch what cargo-hax has done.
LEMMA RustKeepsFiles ==
  ASSUME TypeOK, Lifetimes, View, FilesOnTheWay, Rust \/ (Fault /\ RustKilled)
  PROVE  FilesForwarded' /\ FilesActed' /\ NothingSpawned'
<1>a. ASSUME NEW m \in FromEngine, Put(m)
      PROVE  SentFiles(fromEngine') = SentFiles(fromEngine) \cup Carry(m)
  <2>0. fromEngine \in Seq(FromEngine)
    BY PipeTypes
  <2>1. fromEngine \in Seq(FromEngine) /\ fromEngine' = Append(fromEngine, m)
    BY <1>a, <2>0 DEF Put
  <2> QED  BY <2>1, SentAppend
<1>0. /\ UNCHANGED <<cread, output, disk>>
      /\ \A j \in 1..Len(fromEngine) : fromEngine'[j] = fromEngine[j]
      /\ SentFiles(fromEngine) \subseteq SentFiles(fromEngine')
  <2>1. ASSUME NEW m \in FromEngine, Put(m)
        PROVE  /\ UNCHANGED <<cread, output, disk>>
               /\ \A j \in 1..Len(fromEngine) : fromEngine'[j] = fromEngine[j]
               /\ SentFiles(fromEngine) \subseteq SentFiles(fromEngine')
    <3>1. fromEngine' = Append(fromEngine, m) /\ UNCHANGED <<cread, output, disk>>
      BY <2>1 DEF Put, clientVars
    <3>2. SentFiles(fromEngine') = SentFiles(fromEngine) \cup Carry(m)
      BY <1>a, <2>1
    <3> QED  BY <3>1, <3>2, PipeTypes
  <2>2. CASE Get \/ (\E c \in {0, 101, 137} : ExitWith(c)) \/ UNCHANGED runVars
    BY <2>2 DEF Get, ExitWith, runVars, pipeVars, clientVars
  <2> QED  BY <2>1, <2>2, RustOnPipes DEF View
<1>1. FilesActed'
  <2>1. \A j \in 1..cread : fromEngine'[j] = fromEngine[j]
    BY <1>0, PipeTypes
  <2> QED  BY <1>0, <2>1 DEF FilesOnTheWay, FilesActed, Acted
<1>2. CASE Spawn
  <2>1. rread' = 0 /\ subExit' # NoSub
    BY <1>2 DEF Spawn, NoSub, Running
  <2> QED  BY <1>1, <2>1 DEF FilesForwarded, NothingSpawned
<1>3. CASE ~Spawn
  <2>1. /\ fromSub' = fromSub /\ squeue' = squeue
        /\ subExit' = subExit
        /\ \/ rread' = rread
           \/ rread' = rread + 1 /\ TakeFromSub({"Response", "Garbage", "Exit"})
           \/ rread' = rread + 1 /\ Proxy
    BY <1>3 DEF Rust, ReadEngineInput, ReadInputEof, WriteBroken, NativeReport, NativeDone, Printed,
       WriteQueued, ReportDone, ReturnFromMain, RustDies, SendQuery, SendToSub, SendToSubBroken, OnResponse,
       OnSubGarbage, OnSubExit, OnSubEof, Proxy, Relay, WaitSub, TakeFromSub, Fault, RustKilled, subPipes, subVars
  <2>2. NothingSpawned'
    BY <2>1 DEF FilesOnTheWay, NothingSpawned
  <2>3. ASSUME rread' = rread + 1  PROVE Carry(fromSub[rread + 1]) \subseteq SentFiles(fromEngine')
    <3>1. CASE Proxy
      <4>1. PICK m \in FromEngine : m = fromSub[rread + 1] /\ Put(m)
        BY <3>1, TypeParts, TakeType, SubMsgTypes DEF Proxy, SubMsg
      <4> QED  BY <1>a, <4>1
    <3>2. CASE TakeFromSub({"Response", "Garbage", "Exit"})
      BY <3>2 DEF TakeFromSub, SubMsg, Carry
    <3> QED  BY <2>1, <2>3, <3>1, <3>2, PipeTypes
  <2>4. FilesForwarded'
    <3>1. \A j \in 1..rread' : j \in 1..rread \/ (rread' = rread + 1 /\ j = rread + 1)
      BY <2>1, PipeTypes
    <3> QED  BY <1>0, <2>1, <2>3, <3>1 DEF FilesOnTheWay, FilesForwarded
  <2> QED  BY <1>1, <2>2, <2>4
<1> QED
  BY <1>2, <1>3

(***************************************************************************)
(* cargo-hax: a file it reads is collected or written, and no file read    *)
(* before is overwritten by another at the same path.                      *)
(***************************************************************************)
LEMMA ClientFiles ==
  ASSUME TypeOK, Lifetimes, FilesOnTheWay, Client \/ (Fault /\ KillClient)
  PROVE  FilesOnTheWay'
<1>0. UNCHANGED <<fromEngine, plan, rpc, step, queue, fromSub, rread, spc, squeue, subExit>>
  BY ClientFrame DEF rustVars, subPipes, subVars
<1>1. OnePerPath' /\ FilesLast' /\ FilesForwarded' /\ NothingSpawned'
  BY <1>0 DEF FilesOnTheWay, OnePerPath, FilesLast, BeforeTheFiles, FilesAround, FilesForwarded, NothingSpawned
<1>2. output \in Seq(FromEngine) /\ disk \in [Path -> Contents \cup {Absent}]
  BY TypeParts DEF RunTypeOK
<1>3. ASSUME NEW m \in FromEngine, m = Incoming
      PROVE  SentFiles(output) \subseteq SentFiles(Collect(m)) /\ (DryRun => Carry(m) \subseteq SentFiles(Collect(m)))
  <2>1. CASE DryRun
    <3>1. Collect(m) = Append(output, m)
      BY <2>1 DEF Collect
    <3>2. SentFiles(Collect(m)) = SentFiles(output) \cup Carry(m)
      BY <1>2, <3>1, SentAppend
    <3> QED  BY <3>2
  <2>2. CASE ~DryRun
    BY <2>2 DEF Collect
  <2> QED  BY <2>1, <2>2
<1>4. ASSUME SentFiles(output) \subseteq SentFiles(output'), disk' = disk,
             \/ cread' = cread
             \/ cread' = cread + 1 /\ Carry(Incoming) = {}
      PROVE  FilesActed'
  <2>1. \A j \in 1..cread' : j \in 1..cread \/ (j = cread + 1 /\ Carry(fromEngine[j]) = {})
    BY <1>4, PipeTypes DEF Incoming
  <2>2. \A f : Acted(f) => Acted(f)'
    BY <1>4 DEF Acted
  <2>3. fromEngine' = fromEngine /\ \A j \in 1..cread : \A f \in Carry(fromEngine[j]) : Acted(f)
    BY <1>0 DEF FilesOnTheWay, FilesActed
  <2> QED  BY <2>1, <2>2, <2>3 DEF FilesActed
<1>5. CASE OnFile
  <2>1. /\ cread < Len(fromEngine) /\ cread' = cread + 1 /\ output' = Collect(Incoming)
        /\ disk' = IF DryRun THEN disk ELSE Written(Incoming.file)
        /\ Incoming.kind = "File" /\ Incoming = fromEngine[cread + 1]
    BY <1>5 DEF OnFile, Receive, Incoming
  <2>2. PICK m \in FromEngine : m = Incoming /\ Carry(m) = {m.file} /\ m.file \in File
    <3>1. Incoming \in FromEngine
      BY <2>1, PipeTypes
    <3> QED  BY <2>1, <3>1, CarryTypes DEF Carry
  <2>3. \A j \in 1..cread + 1 : Carry(fromEngine[j]) \subseteq FilesAround /\ Carry(fromEngine[j]) \subseteq File
    <3>1. \A j \in 1..cread + 1 : j \in DOMAIN fromEngine /\ fromEngine[j] \in FromEngine
      BY <2>1, PipeTypes
    <3> QED  BY <3>1, CarryTypes DEF FilesAround, SentFiles, Carry
  <2>4. m.file \in FilesAround /\ m.file.path \in Path
    <3>1. cread + 1 \in 1..cread + 1
      BY PipeTypes
    <3> QED  BY <2>1, <2>2, <2>3, <3>1 DEF File
  <2>5. ASSUME NEW j \in 1..cread, NEW f \in Carry(fromEngine[j])  PROVE Acted(f)'
    <3>1. Acted(f) /\ f \in FilesAround /\ f \in File
      BY <2>3, PipeTypes DEF FilesOnTheWay, FilesActed
    <3>2. CASE DryRun
      BY <1>3, <2>1, <2>2, <3>1, <3>2 DEF Acted
    <3>3. CASE ~DryRun /\ f.path = m.file.path
      BY <1>2, <2>1, <2>2, <2>4, <3>1, <3>3 DEF FilesOnTheWay, OnePerPath, Acted, Written
    <3>4. CASE ~DryRun /\ f.path # m.file.path
      BY <1>2, <2>1, <2>2, <2>4, <3>1, <3>4 DEF Acted, Written, File
    <3> QED  BY <3>2, <3>3, <3>4
  <2>6. Acted(m.file)'
    BY <1>2, <1>3, <2>1, <2>2, <2>4 DEF Acted, Written
  <2>7. FilesActed'
    <3>1. \A j \in 1..cread' : j \in 1..cread \/ (j = cread + 1 /\ Carry(fromEngine[j]) = {m.file})
      <4>1. \A j \in 1..cread' : j \in 1..cread \/ j = cread + 1
        BY <2>1, PipeTypes
      <4>2. Carry(fromEngine[cread + 1]) = {m.file}
        BY <2>1, <2>2
      <4> QED  BY <4>1, <4>2
    <3> QED  BY <1>0, <2>5, <2>6, <3>1 DEF FilesActed
  <2> QED  BY <1>1, <2>7 DEF FilesOnTheWay
<1>6. CASE OnDiagnostic
  <2>1. /\ cread < Len(fromEngine) /\ cread' = cread + 1 /\ output' = Collect(Incoming) /\ disk' = disk
        /\ Incoming.kind = "Diagnostic" /\ Incoming = fromEngine[cread + 1]
    BY <1>6 DEF OnDiagnostic, Receive, Incoming
  <2>2. PICK m \in FromEngine : m = Incoming
    BY <2>1, PipeTypes
  <2> QED  BY <1>1, <1>3, <1>4, <2>1, <2>2 DEF FilesOnTheWay, Carry
<1>7. CASE OnItemProcessed \/ OnDebugString \/ OnProfilingData \/ OnRequest \/ OnGarbage \/ OnExit
  <2>1. cread' = cread + 1 /\ UNCHANGED <<output, disk>> /\ Incoming.kind # "File"
    BY <1>7 DEF OnItemProcessed, OnDebugString, OnProfilingData, OnRequest, OnGarbage, OnExit, LeaveLoop, Receive,
       clientVars, RequestKind
  <2> QED  BY <1>1, <1>4, <2>1 DEF FilesOnTheWay, Carry
<1>8. CASE SendInput \/ SendReply \/ SendBroken \/ OnEof \/ Wait \/ KillClient
  <2>1. UNCHANGED <<cread, output, disk>>
    BY <1>8 DEF SendInput, SendReply, Send, SendBroken, OnEof, LeaveLoop, Wait, KillClient, ClientDies, pipeVars
  <2> QED  BY <1>1, <1>4, <2>1 DEF FilesOnTheWay
<1> QED
  BY <1>5, <1>6, <1>7, <1>8 DEF Client, ClientNext, Fault

THEOREM FilesInvariance == Spec => []FilesOnTheWay
<1>1. Init => FilesOnTheWay
  <2> SUFFICES ASSUME Init  PROVE FilesOnTheWay
    OBVIOUS
  <2>1. /\ fromEngine = << >> /\ queue = << >> /\ fromSub = << >> /\ squeue = << >> /\ rread = 0 /\ cread = 0
    BY DEF Init, RunInit
  <2>2. FilesAround = {}
    BY <2>1, SentEmpty DEF FilesAround
  <2> QED
    BY <2>1, <2>2 DEF FilesOnTheWay, OnePerPath, FilesLast, FilesForwarded, FilesActed, NothingSpawned
<1>2. TypeOK /\ Lifetimes /\ View /\ FilesOnTheWay /\ [Next]_vars => FilesOnTheWay'
  <2> SUFFICES ASSUME TypeOK, Lifetimes, View, FilesOnTheWay, [Next]_vars  PROVE FilesOnTheWay'
    OBVIOUS
  <2>1. CASE UNCHANGED vars
    <3>1. /\ UNCHANGED <<fromEngine, cread, output, disk, plan, rpc, step, queue>>
          /\ UNCHANGED <<fromSub, rread, subExit, spc, squeue>>
      BY <2>1 DEF vars, runVars, clientVars, pipeVars, rustVars, subPipes, subVars
    <3> QED
      BY <3>1 DEF FilesOnTheWay, OnePerPath, FilesLast, BeforeTheFiles, FilesAround, FilesForwarded, FilesActed, Acted,
         NothingSpawned
  <2>2. CASE Rust \/ (Fault /\ RustKilled)
    BY <2>2, RustFiles, RustKeepsFiles DEF FilesOnTheWay
  <2>3. CASE Sub \/ (Fault /\ (SubRaisesException \/ SubDebugPrint \/ SubKilled))
    BY <2>3, SubFiles, SubKeepsFiles DEF FilesOnTheWay
  <2> QED  BY <2>1, <2>2, <2>3, NextCases, ClientFiles
<1> QED
  BY LifetimesInvariance, ViewInvariance, <1>1, <1>2, PTL DEF Spec

(***************************************************************************)
(* When run_engine returns, the plan was carried out to its end, and every *)
(* file that was printed, by an OCaml subprocess or by the Rust engine, is *)
(* on the disk, or in the output of a dry run.                             *)
(***************************************************************************)
THEOREM FilesAreDelivered == Spec => []FilesDelivered
<1>1. TypeOK /\ Lifetimes /\ View /\ AnswerOrder /\ FilesOnTheWay => FilesDelivered
  <2> SUFFICES ASSUME TypeOK, Lifetimes, View, AnswerOrder, FilesOnTheWay, result = "returned"
               PROVE  /\ step > Len(plan)
                      /\ \A f \in SentFiles(fromSub) \cup SentFiles(squeue) \cup SentFiles(fromEngine) : Acted(f)
    BY DEF FilesDelivered, Acted
  <2>1. /\ exitCode = 0 /\ step > Len(plan) /\ cread = Len(fromEngine) /\ subExit \in {NoSub, 0}
        /\ rread = Len(fromSub)
    BY DEF Lifetimes, View, AllIsRead, AnswerOrder, ReadToTheEnd
  <2>2. SentFiles(squeue) = {}
    BY <2>1, SentEmpty DEF AnswerOrder, AnswerKinds, FilesOnTheWay, NothingSpawned
  <2>3. SentFiles(fromSub) \subseteq SentFiles(fromEngine)
    <3>1. DOMAIN fromSub = 1..rread
      BY <2>1, PipeTypes
    <3> QED  BY <3>1 DEF FilesOnTheWay, FilesForwarded, SentFiles, Carry
  <2>4. \A f \in SentFiles(fromEngine) : Acted(f)
    <3>1. DOMAIN fromEngine = 1..cread
      BY <2>1, PipeTypes
    <3> QED  BY <3>1 DEF FilesOnTheWay, FilesActed, SentFiles, Carry
  <2> QED  BY <2>1, <2>2, <2>3, <2>4
<1> QED
  BY LifetimesInvariance, ViewInvariance, AnswerOrderInvariance, FilesInvariance, <1>1, PTL
=============================================================================
