-------------------------- MODULE OCamlEngineProofs --------------------------
(***************************************************************************)
(* Proofs about the conversation of cargo-hax with the OCaml engine, for   *)
(* every set of items, diagnostics and files, every bound and every fault. *)
(***************************************************************************)
EXTENDS OCamlEngine, FiniteSetTheorems, TLAPS

\* The two parts of a concatenation.
LEMMA Concat ==
  ASSUME NEW s \in Seq(FromEngine), NEW t \in Seq(FromEngine), NEW c, c = s \o t
  PROVE  /\ c \in Seq(FromEngine)
         /\ Len(c) = Len(s) + Len(t)
         /\ \A k \in 1..Len(c) :
              \/ k \in 1..Len(s) /\ c[k] = s[k]
              \/ k - Len(s) \in 1..Len(t) /\ c[k] = t[k - Len(s)]
  OBVIOUS

\* The diagnostics, the files, debug strings and Exit, one after the other.
LEMMA OutboxParts ==
  ASSUME NEW diags \in Seq(Diag), NEW files \in Seq(File), NEW debug \in Nat,
         NEW o, o = Outbox(diags, files, debug)
  PROVE  /\ o \in Seq(FromEngine)
         /\ Len(o) = Len(diags) + Len(files) + debug + 1
         /\ \A k \in 1..Len(o) :
              \/ k \in 1..Len(diags) /\ o[k] = DiagnosticMsg(diags[k])
              \/ k - Len(diags) \in 1..Len(files) /\ o[k] = FileMsg(files[k - Len(diags)])
              \/ k > Len(diags) + Len(files) /\ k < Len(o) /\ o[k] = Plain("DebugString")
              \/ k = Len(o) /\ o[k] = Plain("Exit")
<1>1. PICK D : D = [i \in 1..Len(diags) |-> DiagnosticMsg(diags[i])]
  OBVIOUS
<1>2. PICK F : F = [i \in 1..Len(files) |-> FileMsg(files[i])]
  OBVIOUS
<1>3. PICK B : B = [i \in 1..debug |-> Plain("DebugString")]
  OBVIOUS
<1>4. PICK E : E = <<Plain("Exit")>>
  OBVIOUS
<1>5. PICK a : a = D \o F
  OBVIOUS
<1>6. PICK b : b = a \o B
  OBVIOUS
<1>7. o = b \o E
  BY <1>1, <1>2, <1>3, <1>4, <1>5, <1>6 DEF Outbox
<1>8. D \in Seq(FromEngine) /\ F \in Seq(FromEngine) /\ B \in Seq(FromEngine) /\ E \in Seq(FromEngine)
  BY <1>1, <1>2, <1>3, <1>4 DEF FromEngine, DiagnosticMsg, FileMsg, Plain, PlainKind
<1>9. a \in Seq(FromEngine)
  BY <1>5, <1>8
<1>10. b \in Seq(FromEngine)
  BY <1>6, <1>8, <1>9
<1>11. /\ Len(D) = Len(diags) /\ Len(F) = Len(files) /\ Len(B) = debug /\ Len(E) = 1
       /\ Len(D) \in Nat /\ Len(F) \in Nat /\ Len(a) \in Nat /\ Len(b) \in Nat
  BY <1>1, <1>2, <1>3, <1>4, <1>8, <1>9, <1>10
<1>12. /\ \A k \in 1..Len(D) : D[k] = DiagnosticMsg(diags[k])
       /\ \A k \in 1..Len(F) : F[k] = FileMsg(files[k])
       /\ \A k \in 1..Len(B) : B[k] = Plain("DebugString")
       /\ E[1] = Plain("Exit")
  BY <1>1, <1>2, <1>3, <1>4
<1>13. /\ Len(a) = Len(D) + Len(F)
       /\ \A k \in 1..Len(a) : \/ k \in 1..Len(D) /\ a[k] = D[k]
                               \/ k - Len(D) \in 1..Len(F) /\ a[k] = F[k - Len(D)]
  BY <1>5, <1>8, Concat
<1>14. /\ Len(b) = Len(a) + Len(B)
       /\ \A k \in 1..Len(b) : \/ k \in 1..Len(a) /\ b[k] = a[k]
                               \/ k - Len(a) \in 1..Len(B) /\ b[k] = B[k - Len(a)]
  BY <1>6, <1>8, <1>9, Concat
<1>15. /\ o \in Seq(FromEngine) /\ Len(o) = Len(b) + Len(E)
       /\ \A k \in 1..Len(o) : \/ k \in 1..Len(b) /\ o[k] = b[k]
                               \/ k - Len(b) \in 1..Len(E) /\ o[k] = E[k - Len(b)]
  BY <1>7, <1>8, <1>10, Concat
<1>16. Len(o) = Len(diags) + Len(files) + debug + 1
  BY <1>11, <1>13, <1>14, <1>15
<1>17. ASSUME NEW k \in 1..Len(o)
       PROVE  \/ k \in 1..Len(D) /\ o[k] = D[k]
              \/ k - Len(D) \in 1..Len(F) /\ o[k] = F[k - Len(D)]
              \/ k > Len(a) /\ k - Len(a) \in 1..Len(B) /\ o[k] = B[k - Len(a)]
              \/ k = Len(o) /\ o[k] = E[1]
  <2>1. CASE k \in 1..Len(b) /\ o[k] = b[k]
    <3>1. CASE k \in 1..Len(a) /\ b[k] = a[k]
      BY <1>13, <2>1, <3>1
    <3>2. CASE k - Len(a) \in 1..Len(B) /\ b[k] = B[k - Len(a)]
      BY <1>11, <2>1, <3>2
    <3> QED  BY <1>14, <2>1, <3>1, <3>2
  <2>2. CASE k - Len(b) \in 1..Len(E) /\ o[k] = E[k - Len(b)]
    <3>1. k - Len(b) = 1 /\ k = Len(o)
      BY <1>11, <1>15, <2>2
    <3> QED  BY <2>2, <3>1
  <2> QED  BY <1>15, <2>1, <2>2
<1>18. ASSUME NEW k \in 1..Len(o)
       PROVE  \/ k \in 1..Len(diags) /\ o[k] = DiagnosticMsg(diags[k])
              \/ k - Len(diags) \in 1..Len(files) /\ o[k] = FileMsg(files[k - Len(diags)])
              \/ k > Len(diags) + Len(files) /\ k < Len(o) /\ o[k] = Plain("DebugString")
              \/ k = Len(o) /\ o[k] = Plain("Exit")
  <2>1. CASE k \in 1..Len(D) /\ o[k] = D[k]
    BY <1>11, <1>12, <2>1
  <2>2. CASE k - Len(D) \in 1..Len(F) /\ o[k] = F[k - Len(D)]
    BY <1>11, <1>12, <2>2
  <2>3. CASE k > Len(a) /\ k - Len(a) \in 1..Len(B) /\ o[k] = B[k - Len(a)]
    <3>1. k > Len(diags) + Len(files) /\ k < Len(o)
      BY <1>11, <1>13, <1>16, <2>3
    <3> QED  BY <1>12, <2>3, <3>1
  <2>4. CASE k = Len(o) /\ o[k] = E[1]
    BY <1>12, <2>4
  <2> QED  BY <1>17, <2>1, <2>2, <2>3, <2>4
<1> QED
  BY <1>15, <1>16, <1>18

\* The diagnostics of `diags`, then messages that are neither diagnostics nor
\* Exit, then Exit.
HasShape(o, diags) ==
  /\ o \in Seq(FromEngine)
  /\ Len(o) > Len(diags)
  /\ \A k \in 1..Len(diags) : o[k] = DiagnosticMsg(diags[k])
  /\ \A k \in 1..Len(o) : k > Len(diags) => o[k].kind # "Diagnostic"
  /\ \A k \in 1..Len(o) : o[k].kind = "Exit" => k = Len(o)

\* Nothing but diagnostics and files comes before one of them, and no two files have one path.
InOrder(o) ==
  /\ \A k \in 1..Len(o) : o[k].kind \in {"Diagnostic", "File", "DebugString", "Exit"}
  /\ \A k, l \in 1..Len(o) : k < l /\ IsOutput(o[l]) => IsOutput(o[k])
  /\ \A k, l \in 1..Len(o) :
       o[k].kind = "File" /\ o[l].kind = "File" /\ o[k].file.path = o[l].file.path => k = l

(***************************************************************************)
(* What `engine` writes at the end.                                        *)
(***************************************************************************)
LEMMA OutboxShape ==
  ASSUME NEW diags \in Seq(Diag), NEW files \in Seq(File), NEW debug \in Nat,
         NEW o, o = Outbox(diags, files, debug)
  PROVE  HasShape(o, diags)
<1>1. Len(diags) \in Nat /\ Len(files) \in Nat
  OBVIOUS
<1>2. o \in Seq(FromEngine) /\ Len(o) = Len(diags) + Len(files) + debug + 1
  BY OutboxParts
<1>3. ASSUME NEW k \in 1..Len(o)
      PROVE  \/ k \in 1..Len(diags) /\ o[k] = DiagnosticMsg(diags[k]) /\ o[k].kind = "Diagnostic"
             \/ k > Len(diags) /\ k < Len(o) /\ o[k].kind \in {"File", "DebugString"}
             \/ k > Len(diags) /\ k = Len(o) /\ o[k].kind = "Exit"
  <2>1. CASE k \in 1..Len(diags) /\ o[k] = DiagnosticMsg(diags[k])
    BY <2>1 DEF DiagnosticMsg
  <2>2. CASE k - Len(diags) \in 1..Len(files) /\ o[k] = FileMsg(files[k - Len(diags)])
    <3>1. o[k].kind = "File"
      BY <2>2 DEF FileMsg
    <3>2. k > Len(diags) /\ k < Len(o)
      BY <1>1, <1>2, <2>2
    <3> QED  BY <3>1, <3>2
  <2>3. CASE k > Len(diags) + Len(files) /\ k < Len(o) /\ o[k] = Plain("DebugString")
    BY <1>1, <2>3 DEF Plain
  <2>4. CASE k = Len(o) /\ o[k] = Plain("Exit")
    BY <1>1, <1>2, <2>4 DEF Plain
  <2> QED  BY <2>1, <2>2, <2>3, <2>4, OutboxParts
<1>4. Len(o) > Len(diags)
  BY <1>1, <1>2
<1>5. \A k \in 1..Len(diags) : o[k] = DiagnosticMsg(diags[k])
  BY <1>1, <1>3, <1>4
<1>6. \A k \in 1..Len(o) : k > Len(diags) => o[k].kind # "Diagnostic"
  BY <1>1, <1>3
<1>7. \A k \in 1..Len(o) : o[k].kind = "Exit" => k = Len(o)
  BY <1>3
<1> QED
  BY <1>2, <1>4, <1>5, <1>6, <1>7 DEF HasShape

LEMMA OutboxInOrder ==
  ASSUME NEW diags \in Seq(Diag), NEW files \in Seq(File), NEW debug \in Nat,
         \A i, j \in 1..Len(files) : files[i].path = files[j].path => i = j,
         NEW o, o = Outbox(diags, files, debug)
  PROVE  InOrder(o)
<1>1. Len(diags) \in Nat /\ Len(files) \in Nat
  OBVIOUS
<1>2. Len(o) = Len(diags) + Len(files) + debug + 1
  BY OutboxParts
<1>3. ASSUME NEW k \in 1..Len(o)
      PROVE  \/ k <= Len(diags) /\ o[k].kind = "Diagnostic"
             \/ /\ k > Len(diags) /\ k - Len(diags) \in 1..Len(files)
                /\ o[k].kind = "File" /\ o[k].file = files[k - Len(diags)]
             \/ k > Len(diags) + Len(files) /\ o[k].kind \in {"DebugString", "Exit"}
  <2>1. CASE k \in 1..Len(diags) /\ o[k] = DiagnosticMsg(diags[k])
    BY <2>1 DEF DiagnosticMsg
  <2>2. CASE k - Len(diags) \in 1..Len(files) /\ o[k] = FileMsg(files[k - Len(diags)])
    <3>1. o[k].kind = "File" /\ o[k].file = files[k - Len(diags)]
      BY <2>2 DEF FileMsg
    <3>2. k > Len(diags)
      BY <1>1, <2>2
    <3> QED  BY <2>2, <3>1, <3>2
  <2>3. CASE k > Len(diags) + Len(files) /\ k < Len(o) /\ o[k] = Plain("DebugString")
    BY <2>3 DEF Plain
  <2>4. CASE k = Len(o) /\ o[k] = Plain("Exit")
    BY <1>1, <1>2, <2>4 DEF Plain
  <2> QED  BY <2>1, <2>2, <2>3, <2>4, OutboxParts
<1>4. \A k \in 1..Len(o) : o[k].kind \in {"Diagnostic", "File", "DebugString", "Exit"}
  BY <1>3
<1>5. \A k \in 1..Len(o) : IsOutput(o[k]) <=> k <= Len(diags) + Len(files)
  <2> SUFFICES ASSUME NEW k \in 1..Len(o)
               PROVE  o[k].kind \in {"Diagnostic", "File"} <=> k <= Len(diags) + Len(files)
    BY DEF IsOutput
  <2>1. k <= Len(diags) => k <= Len(diags) + Len(files)
    BY <1>1, <1>2
  <2>2. k - Len(diags) \in 1..Len(files) => k <= Len(diags) + Len(files)
    BY <1>1, <1>2
  <2>3. k > Len(diags) + Len(files) => ~(k <= Len(diags) + Len(files))
    BY <1>1, <1>2
  <2> QED  BY <1>3, <2>1, <2>2, <2>3
<1>6. ASSUME NEW k \in 1..Len(o), NEW l \in 1..Len(o),
             o[k].kind = "File", o[l].kind = "File", o[k].file.path = o[l].file.path
      PROVE  k = l
  <2>1. /\ k - Len(diags) \in 1..Len(files) /\ o[k].file = files[k - Len(diags)]
        /\ l - Len(diags) \in 1..Len(files) /\ o[l].file = files[l - Len(diags)]
    BY <1>3, <1>6
  <2>2. k - Len(diags) = l - Len(diags)
    BY <1>6, <2>1
  <2> QED  BY <1>1, <2>2
<1> QED
  BY <1>1, <1>4, <1>5, <1>6 DEF InOrder

\* Diagnostics are only ever added to Diagnostics.Core.state.
LEMMA StateGrows ==
  ASSUME state \in Seq(Diag),
         state' = state \/ \E d \in Diag : state' = Append(state, d)
  PROVE  \A k \in 1..Len(state) : k \in 1..Len(state') /\ state'[k] = state[k]
<1>1. CASE state' = state
  BY <1>1
<1>2. ASSUME NEW d \in Diag, state' = Append(state, d)
      PROVE  \A k \in 1..Len(state) : k \in 1..Len(state') /\ state'[k] = state[k]
  BY <1>2
<1> QED  BY <1>1, <1>2

-----------------------------------------------------------------------------
(***************************************************************************)
(* The inductive invariant.  VerdictFaithful relates two ends of the       *)
(* conversation, the engine's list of diagnostics and the user's; each     *)
(* part below follows the diagnostics over one stretch of the way.         *)
(***************************************************************************)
\* The processes: what ended, and what no longer speaks.
Lifetimes ==
  /\ epc = "dead" <=> exitCode # Running
  /\ epc \in {"load", "import", "work", "await"} =>
       written = 0 /\ \A j \in 1..Len(fromEngine) : fromEngine[j].kind # "Diagnostic"
  /\ result # "none" <=> pc = "done"
  /\ result = "returned" => exitCode = 0

\* `run` is over: the outbox is the list of diagnostics, files and Exit.
RunIsOver == epc \in {"flush", "close"} \/ exitCode = 0
OutboxHolds ==
  RunIsOver =>
    /\ Len(outbox) > Len(state)
    /\ \A k \in 1..Len(state) : outbox[k] = DiagnosticMsg(state[k])
    /\ \A k \in 1..Len(outbox) : k > Len(state) => outbox[k].kind # "Diagnostic"
    /\ \A k \in 1..Len(outbox) : outbox[k].kind = "Exit" => k = Len(outbox)
    /\ IF epc = "flush" THEN written < Len(outbox) ELSE written = Len(outbox)

\* What was written is in the pipe, and every diagnostic there is the engine's.
WrittenIsSent ==
  RunIsOver => \A k \in 1..written : \E j \in 1..Len(fromEngine) : fromEngine[j] = outbox[k]
SentIsReported ==
  \A j \in 1..Len(fromEngine) :
    fromEngine[j].kind = "Diagnostic" =>
      \E k \in 1..Len(state) : fromEngine[j].diag = state[k]

\* Nothing follows Exit.
ExitIsLast ==
  \A j \in 1..Len(fromEngine) :
    fromEngine[j].kind = "Exit" => j = Len(fromEngine) /\ epc \in {"close", "dead"}

\* cargo-hax has shown what it has read, and has read everything when it waits.
ReadIsShown ==
  /\ \A d \in Diag : d \in reported <=> \E j \in 1..cread : fromEngine[j] = DiagnosticMsg(d)
  /\ error <=> reported # {}
AllIsRead == pc = "wait" \/ result = "returned" => cread = Len(fromEngine)

IInv ==
  /\ TypeOK
  /\ Lifetimes
  /\ OutboxHolds
  /\ WrittenIsSent
  /\ SentIsReported
  /\ ExitIsLast
  /\ ReadIsShown
  /\ AllIsRead

-----------------------------------------------------------------------------
LEMMA InitIInv == Init => IInv
<1> SUFFICES ASSUME Init  PROVE IInv
  OBVIOUS
<1>1. TypeOK
  <2>1. toEngine \in Seq(ToEngine) /\ fromEngine \in Seq(FromEngine) /\ outbox \in Seq(FromEngine)
    BY DEF Init, RunInit
  <2>2. Len(toEngine) = 0 /\ Len(fromEngine) = 0 /\ Len(outbox) = 0 /\ state \in Seq(Diag)
    BY DEF Init, RunInit
  <2>3. DOMAIN errorsPerItem \subseteq Item /\ errorsPerItem \in [DOMAIN errorsPerItem -> Nat]
    BY DEF Init, RunInit
  <2>4. /\ eread \in 0..Len(toEngine) /\ cread \in 0..Len(fromEngine) /\ written \in 0..Len(outbox)
        /\ output \in Seq(FromEngine)
    BY <2>2 DEF Init, RunInit
  <2>5. RunTypeOK
    BY <2>1, <2>3, <2>4 DEF Init, RunInit, RunTypeOK, RequestKind
  <2> QED
    BY <2>1, <2>2, <2>4, <2>5 DEF Init, TypeOK, RequestKind
<1>2. Lifetimes /\ OutboxHolds /\ WrittenIsSent /\ AllIsRead
  BY DEF Init, RunInit, Running, Lifetimes, RunIsOver, OutboxHolds, WrittenIsSent, AllIsRead
<1>3. SentIsReported /\ ExitIsLast /\ ReadIsShown
  BY DEF Init, RunInit, SentIsReported, ExitIsLast, ReadIsShown
<1> QED
  BY <1>1, <1>2, <1>3 DEF IInv

\* A message read from the pipe, and the log of those read.
LEMMA IncomingType ==
  ASSUME TypeOK, NEW K, Receive(K)
  PROVE  Incoming \in FromEngine /\ Incoming.kind \in K /\ cread' \in 0..Len(fromEngine')
BY DEF TypeOK, RunTypeOK, Receive, Incoming

LEMMA CollectType ==
  ASSUME TypeOK, NEW m \in FromEngine
  PROVE  Collect(m) \in Seq(FromEngine)
BY DEF TypeOK, RunTypeOK, Collect

LEMMA BumpType ==
  ASSUME TypeOK, NEW i \in Item \cup {NoOwner}
  PROVE  LET c == Bump(errorsPerItem, i) IN
         DOMAIN c \subseteq Item /\ c \in [DOMAIN c -> Nat]
BY DEF TypeOK, RunTypeOK, Bump

LEMMA PutType ==
  ASSUME TypeOK, NEW m \in FromEngine, Put(m)
  PROVE  RunTypeOK'
BY DEF TypeOK, RunTypeOK, Put, clientVars

LEMMA GetType ==
  ASSUME TypeOK, Get
  PROVE  RunTypeOK'
BY DEF TypeOK, RunTypeOK, Get, StdinReady, clientVars

LEMMA ExitType ==
  ASSUME TypeOK, NEW c \in Nat, ExitWith(c)
  PROVE  RunTypeOK'
BY DEF TypeOK, RunTypeOK, ExitWith, clientVars

LEMMA ClientTypeStep ==
  ASSUME TypeOK, ClientNext
  PROVE  RunTypeOK'
<1> USE DEF TypeOK
<1>1. CASE SendInput
  BY <1>1 DEF SendInput, Send, RunTypeOK, ToEngine
<1>2. CASE SendReply
  BY <1>2 DEF SendReply, Send, RunTypeOK, ToEngine, ReplyTo, RequestKind, ReplyKind
<1>3. CASE SendBroken
  BY <1>3 DEF SendBroken, Panic, pipeVars, RunTypeOK
<1>4. CASE OnDiagnostic
  <2>1. Incoming \in FromEngine /\ Incoming.kind = "Diagnostic" /\ cread' \in 0..Len(fromEngine')
    BY <1>4, IncomingType DEF OnDiagnostic
  <2>2. Incoming.diag \in Diag
    BY <2>1 DEF FromEngine, PlainKind, RequestKind
  <2>3. DOMAIN errorsPerItem' \subseteq Item /\ errorsPerItem' \in [DOMAIN errorsPerItem' -> Nat]
    BY <1>4, <2>2, BumpType, OwnerAssumption DEF OnDiagnostic
  <2> QED
    BY <1>4, <2>1, <2>2, <2>3, CollectType DEF OnDiagnostic, Receive, RunTypeOK
<1>5. CASE OnFile
  <2>1. Incoming \in FromEngine /\ Incoming.kind = "File" /\ cread' \in 0..Len(fromEngine')
    BY <1>5, IncomingType DEF OnFile
  <2>2. Incoming.file \in File
    BY <2>1 DEF FromEngine, PlainKind, RequestKind
  <2>3. disk' \in [Path -> Contents \cup {Absent}]
    BY <1>5, <2>2 DEF OnFile, Written, File, RunTypeOK
  <2> QED
    BY <1>5, <2>1, <2>3, CollectType DEF OnFile, Receive, RunTypeOK
<1>6. CASE OnItemProcessed
  <2>1. Incoming \in FromEngine /\ Incoming.kind = "ItemProcessed" /\ cread' \in 0..Len(fromEngine')
    BY <1>6, IncomingType DEF OnItemProcessed
  <2>2. Incoming.items \subseteq Item
    BY <2>1 DEF FromEngine, PlainKind, RequestKind
  <2>3. DOMAIN errorsPerItem' \subseteq Item /\ errorsPerItem' \in [DOMAIN errorsPerItem' -> Nat]
    BY <1>6, <2>2 DEF OnItemProcessed, RunTypeOK
  <2> QED
    BY <1>6, <2>1, <2>3 DEF OnItemProcessed, Receive, RunTypeOK
<1>7. CASE OnDebugString
  BY <1>7, IncomingType DEF OnDebugString, Receive, RunTypeOK
<1>8. CASE OnProfilingData
  BY <1>8, IncomingType DEF OnProfilingData, Receive, RunTypeOK, clientVars
<1>9. CASE OnRequest
  BY <1>9, IncomingType DEF OnRequest, Receive, RunTypeOK
<1>10. CASE OnGarbage
  BY <1>10, IncomingType DEF OnGarbage, Panic, Receive, RunTypeOK
<1>11. CASE OnExit
  BY <1>11, IncomingType DEF OnExit, LeaveLoop, Panic, Receive, RunTypeOK
<1>12. CASE OnEof
  BY <1>12 DEF OnEof, LeaveLoop, Panic, RunTypeOK, pipeVars
<1>13. CASE Wait
  BY <1>13 DEF Wait, Outcome, RunTypeOK, pipeVars
<1> QED
  BY <1>1, <1>2, <1>3, <1>4, <1>5, <1>6, <1>7, <1>8, <1>9, <1>10, <1>11, <1>12, <1>13
     DEF ClientNext

\* What the engine may say, and the lists it chooses from.
LEMMA MessageTypes ==
  /\ \A k \in PlainKind : Plain(k) \in FromEngine
  /\ \A i \in SUBSET Item : ItemProcessedMsg(i) \in FromEngine
  /\ ReportLists \subseteq Seq(Diag)
  /\ FileLists \subseteq Seq(File)
<1>1. \A n, S : BoundedSeq(S, n) \subseteq Seq(S)
  BY DEF BoundedSeq, SeqOf
<1> QED
  BY <1>1 DEF FromEngine, Plain, ItemProcessedMsg, ReportLists, FileLists

LEMMA TypeStep ==
  ASSUME IInv, [Next]_vars
  PROVE  TypeOK'
<1> DEFINE EngineTypeOK ==
      /\ epc \in {"load", "import", "work", "await", "flush", "close", "crash", "dead"}
      /\ state \in Seq(Diag)
      /\ asked \in RequestKind
      /\ outbox \in Seq(FromEngine)
      /\ written \in 0..Len(outbox)
      /\ talk \in Nat
<1>17. faulted' \in BOOLEAN
  BY DEF IInv, TypeOK, Next, Client, EngineStep, Fault, Terminated, vars
<1>0. /\ TypeOK /\ EngineTypeOK /\ RunTypeOK /\ (TypeOK' <=> RunTypeOK' /\ EngineTypeOK')
      /\ epc \in {"load", "import", "work", "await"} => written = 0
      /\ epc = "flush" => written < Len(outbox)
  BY <1>17 DEF IInv, TypeOK, Lifetimes, OutboxHolds, RunIsOver
<1>1. CASE Client
  <2>1. RunTypeOK'
    BY <1>0, <1>1, ClientTypeStep DEF Client
  <2> QED
    BY <1>0, <1>1, <2>1 DEF Client, engineVars
<1>16. CASE KillClient
  BY <1>0, <1>16 DEF KillClient, ClientDies, Panic, RunTypeOK, pipeVars, engineVars
<1>2. CASE ParseOptions \/ WrongVersion
  BY <1>0, <1>2, GetType DEF ParseOptions, WrongVersion
<1>3. CASE UNCHANGED runVars /\ (ReadEof \/ BrokenPipe \/ RaiseException)
  BY <1>0, <1>3 DEF ReadEof, BrokenPipe, RaiseException, RunTypeOK, runVars, clientVars, pipeVars
<1>4. CASE ImportThirItems
  <2>1. RunTypeOK' /\ state' \in Seq(Diag)
    BY <1>0, <1>4, PutType, MessageTypes DEF ImportThirItems
  <2> QED
    BY <1>0, <1>4, <2>1 DEF ImportThirItems
<1>5. CASE ReportDiagnostic
  BY <1>0, <1>5 DEF ReportDiagnostic, Report, RunTypeOK, runVars, clientVars, pipeVars
<1>6. CASE Profile \/ DebugPrint \/ Request
  <2>1. PICK k \in PlainKind, next \in {"import", "work", "await"} : Talk(Plain(k), next) /\ asked' \in RequestKind
    BY <1>0, <1>6 DEF Profile, DebugPrint, Request, Talk, Working, PlainKind
  <2>2. RunTypeOK'
    BY <1>0, <2>1, PutType, MessageTypes DEF Talk
  <2> QED
    BY <1>0, <2>1, <2>2 DEF Talk
<1>7. CASE ReadReply
  BY <1>0, <1>7, GetType DEF ReadReply, Caller
<1>8. CASE FinishRun
  <2>1. PICK files \in FileLists, debug \in 0..MaxDebug : outbox' = Outbox(state, files, debug)
    BY <1>8 DEF FinishRun
  <2>2. outbox' \in Seq(FromEngine) /\ Len(outbox') > Len(state)
    BY <1>0, <2>1, OutboxShape, MessageTypes DEF HasShape
  <2> QED
    BY <1>0, <1>8, <2>2 DEF FinishRun, RunTypeOK, runVars, clientVars, pipeVars
<1>9. CASE RaiseFatalError
  <2>1. state' \in Seq(Diag)
    BY <1>0, <1>9 DEF RaiseFatalError, Report
  <2>2. PICK debug \in 0..MaxDebug : outbox' = Outbox(state', << >>, debug)
    BY <1>9 DEF RaiseFatalError
  <2>3. outbox' \in Seq(FromEngine) /\ Len(outbox') > Len(state')
    <3>1. << >> \in Seq(File) /\ debug \in Nat
      BY EngineBounds
    <3> QED  BY <2>1, <2>2, <3>1, OutboxShape DEF HasShape
  <2> QED
    BY <1>0, <1>9, <2>1, <2>3 DEF RaiseFatalError, Working, RunTypeOK, runVars, clientVars, pipeVars
<1>10. CASE Flush
  <2>1. outbox[written + 1] \in FromEngine
    BY <1>0, <1>10 DEF Flush
  <2> QED
    BY <1>0, <1>10, <2>1, PutType DEF Flush
<1>11. CASE Close
  BY <1>0, <1>11, ExitType DEF Close
<1>12. CASE Die
  BY <1>0, <1>12, ExitType DEF Die
<1>13. CASE Kill
  BY <1>0, <1>13, ExitType DEF Kill
<1>14. CASE KillWriting
  BY <1>0, <1>14, PutType, MessageTypes DEF KillWriting, PlainKind
<1>15. CASE UNCHANGED vars
  BY <1>0, <1>15 DEF RunTypeOK, vars, runVars, engineVars, clientVars, pipeVars
<1> QED
  BY <1>1, <1>2, <1>3, <1>4, <1>5, <1>6, <1>7, <1>8, <1>9, <1>10, <1>11, <1>12, <1>13, <1>14, <1>15, <1>16
     DEF Next, EngineStep, Fault, Terminated, ReadEof, BrokenPipe, RaiseException

-----------------------------------------------------------------------------
(***************************************************************************)
(* A step of cargo-hax.                                                    *)
(***************************************************************************)
LEMMA ClientFrame ==
  ASSUME Client \/ KillClient
  PROVE  /\ fromEngine' = fromEngine /\ exitCode' = exitCode /\ epc' = epc
         /\ state' = state /\ outbox' = outbox /\ written' = written
BY DEF Client, engineVars, ClientNext, SendInput, SendReply, Send, SendBroken, pipeVars,
       OnDiagnostic, OnFile, OnItemProcessed, OnDebugString, OnProfilingData, OnRequest,
       OnGarbage, OnExit, OnEof, Wait, Receive, KillClient, ClientDies

\* It reads one message and shows it if it is a diagnostic, or it shows nothing.
LEMMA ClientReads ==
  ASSUME IInv, Client \/ KillClient
  PROVE  \/ cread' = cread /\ reported' = reported /\ error' = error
         \/ /\ cread < Len(fromEngine) /\ cread' = cread + 1
            /\ Incoming.kind # "Diagnostic" /\ reported' = reported /\ error' = error
         \/ /\ cread < Len(fromEngine) /\ cread' = cread + 1
            /\ Incoming.kind = "Diagnostic"
            /\ reported' = reported \cup {Incoming.diag} /\ error' = TRUE
BY DEF Client, ClientNext, SendInput, SendReply, Send, SendBroken, pipeVars, clientVars,
       OnDiagnostic, OnFile, OnItemProcessed, OnDebugString, OnProfilingData, OnRequest,
       OnGarbage, OnExit, OnEof, LeaveLoop, Wait, Receive, RequestKind, KillClient, ClientDies

LEMMA ClientStep ==
  ASSUME IInv, Next, Client \/ KillClient
  PROVE  IInv'
<1>0. fromEngine \in Seq(FromEngine) /\ cread \in 0..Len(fromEngine)
  BY DEF IInv, TypeOK, RunTypeOK
<1>1. TypeOK /\ TypeOK'
  BY TypeStep DEF IInv
<1>2. Lifetimes'
  BY ClientFrame DEF IInv, Lifetimes, Client, ClientNext, SendInput, SendReply, Send, SendBroken,
     OnDiagnostic, OnFile, OnItemProcessed, OnDebugString, OnProfilingData, OnRequest,
     OnGarbage, OnExit, OnEof, LeaveLoop, Wait, Receive, Outcome, Panic, pipeVars, clientVars,
     KillClient, ClientDies
<1>3. OutboxHolds' /\ WrittenIsSent'
  BY ClientFrame DEF IInv, OutboxHolds, WrittenIsSent, RunIsOver
<1>4. SentIsReported' /\ ExitIsLast'
  BY ClientFrame DEF IInv, SentIsReported, ExitIsLast
<1>5. ReadIsShown'
  <2>0. ASSUME cread < Len(fromEngine), cread' = cread + 1, NEW d
        PROVE  (\E j \in 1..cread' : fromEngine'[j] = DiagnosticMsg(d))
                 <=> (\E j \in 1..cread : fromEngine[j] = DiagnosticMsg(d)) \/ Incoming = DiagnosticMsg(d)
    <3>1. cread \in Nat /\ fromEngine' = fromEngine
      BY <1>0, ClientFrame
    <3>2. \A j : j \in 1..cread' <=> j \in 1..cread \/ j = cread + 1
      BY <2>0, <3>1
    <3> QED  BY <3>1, <3>2 DEF Incoming
  <2>1. CASE cread' = cread /\ reported' = reported /\ error' = error
    BY <2>1, ClientFrame DEF IInv, ReadIsShown
  <2>2. CASE /\ cread < Len(fromEngine) /\ cread' = cread + 1
             /\ Incoming.kind # "Diagnostic" /\ reported' = reported /\ error' = error
    BY <2>0, <2>2 DEF IInv, ReadIsShown, DiagnosticMsg
  <2>3. CASE /\ cread < Len(fromEngine) /\ cread' = cread + 1
             /\ Incoming.kind = "Diagnostic"
             /\ reported' = reported \cup {Incoming.diag} /\ error' = TRUE
    <3>1. Incoming = DiagnosticMsg(Incoming.diag) /\ Incoming.diag \in Diag
      <4>1. Incoming \in FromEngine
        <5>1. fromEngine \in Seq(FromEngine) /\ cread + 1 \in 1..Len(fromEngine)
          BY <1>0, <2>3
        <5> QED  BY <5>1 DEF Incoming
      <4> QED  BY <2>3, <4>1 DEF FromEngine, PlainKind, RequestKind, DiagnosticMsg
    <3>2. \A d : DiagnosticMsg(d) = Incoming <=> d = Incoming.diag
      BY <3>1 DEF DiagnosticMsg
    <3>3. \A d \in Diag : (\E j \in 1..cread' : fromEngine'[j] = DiagnosticMsg(d))
                            <=> (\E j \in 1..cread : fromEngine[j] = DiagnosticMsg(d))
                                  \/ d = Incoming.diag
      BY <2>0, <2>3, <3>2
    <3> QED
      BY <2>3, <3>1, <3>3 DEF IInv, ReadIsShown
  <2> QED  BY <2>1, <2>2, <2>3, ClientReads
<1>6. AllIsRead'
  <2>1. CASE OnExit
    BY <1>0, <2>1, ClientFrame DEF IInv, AllIsRead, ExitIsLast, OnExit, LeaveLoop, Panic, Receive,
       Incoming, Lifetimes
  <2>2. CASE ~OnExit
    BY <2>2, ClientFrame DEF IInv, AllIsRead, Lifetimes, Client, ClientNext, SendInput,
       SendReply, Send, SendBroken, OnDiagnostic, OnFile, OnItemProcessed, OnDebugString,
       OnProfilingData, OnRequest, OnGarbage, OnEof, LeaveLoop, Wait, Receive, Outcome, Panic,
       pipeVars, clientVars, KillClient, ClientDies
  <2> QED  BY <2>1, <2>2
<1> QED
  BY <1>1, <1>2, <1>3, <1>4, <1>5, <1>6 DEF IInv

-----------------------------------------------------------------------------
(***************************************************************************)
(* A step of the engine.                                                   *)
(***************************************************************************)
\* A message is added at the end; cargo-hax is in its message loop.
LEMMA PutFacts ==
  ASSUME IInv, NEW m \in FromEngine, Put(m)
  PROVE  /\ fromEngine' \in Seq(FromEngine) /\ Len(fromEngine') = Len(fromEngine) + 1
         /\ \A j \in 1..Len(fromEngine) : fromEngine'[j] = fromEngine[j]
         /\ fromEngine'[Len(fromEngine')] = m
         /\ ReadIsShown' /\ AllIsRead' /\ result # "returned"
         /\ pc' = pc /\ result' = result /\ exitCode' = exitCode /\ exitCode = Running
<1>1. fromEngine \in Seq(FromEngine) /\ fromEngine' = Append(fromEngine, m) /\ cread \in 0..Len(fromEngine)
  BY DEF IInv, TypeOK, RunTypeOK, Put
<1>2. /\ Len(fromEngine') = Len(fromEngine) + 1
      /\ \A j \in 1..Len(fromEngine) : fromEngine'[j] = fromEngine[j]
      /\ fromEngine'[Len(fromEngine')] = m
  BY <1>1
<1>3. /\ pc' = pc /\ result' = result /\ exitCode' = exitCode /\ cread' = cread
      /\ reported' = reported /\ error' = error /\ exitCode = Running
  BY DEF Put, clientVars
<1>4. pc \in {"send", "loop", "reply"} /\ result # "returned"
  BY DEF Put, StdoutRoom, ClientEndsOpen, IInv, Lifetimes
<1>5. \A j \in 1..cread : fromEngine'[j] = fromEngine[j]
  BY <1>1, <1>2
<1>6. ReadIsShown'
  BY <1>3, <1>5 DEF IInv, ReadIsShown
<1>7. AllIsRead'
  BY <1>3, <1>4 DEF AllIsRead
<1> QED
  BY <1>1, <1>2, <1>3, <1>4, <1>6, <1>7

\* A step that neither writes nor ends leaves what cargo-hax has read alone.
LEMMA QuietFacts ==
  ASSUME IInv, UNCHANGED <<pc, result, reported, error, fromEngine, cread>>
  PROVE  ReadIsShown' /\ AllIsRead'
BY DEF IInv, ReadIsShown, AllIsRead

LEMMA WorkStep ==
  ASSUME IInv, Next,
         ParseOptions \/ WrongVersion \/ ReadEof \/ ReportDiagnostic \/ ReadReply \/ BrokenPipe \/ RaiseException
  PROVE  IInv'
<1>1. TypeOK /\ TypeOK'
  BY TypeStep DEF IInv
<1>2. /\ UNCHANGED <<pc, result, reported, error, fromEngine, cread, exitCode, outbox, written>>
      /\ \/ state' = state
         \/ epc \in {"import", "work"} /\ \E d \in Diag : state' = Append(state, d)
  BY DEF ParseOptions, WrongVersion, ReadEof, ReportDiagnostic, Report, Working, ReadReply, BrokenPipe, RaiseException, Get,
         runVars, clientVars, pipeVars
<1>3. /\ epc \in {"load", "await", "import", "work", "flush"}
      /\ epc' \in {"import", "crash", "work"}
      /\ epc' \in {"import", "work"} => epc \in {"load", "import", "work", "await"}
      /\ epc = "flush" => epc' = "crash"
  BY DEF ParseOptions, WrongVersion, ReadEof, ReportDiagnostic, Working, ReadReply, Caller, BrokenPipe, RaiseException
<1>4. exitCode = Running /\ Running # 0
  BY <1>3 DEF IInv, Lifetimes, Running
<1>5. Lifetimes'
  BY <1>2, <1>3, <1>4 DEF IInv, Lifetimes
<1>6. OutboxHolds' /\ WrittenIsSent'
  BY <1>2, <1>3, <1>4 DEF OutboxHolds, WrittenIsSent, RunIsOver
<1>7. SentIsReported'
  <2>1. state \in Seq(Diag)
    BY <1>1 DEF TypeOK
  <2>2. \A k \in 1..Len(state) : k \in 1..Len(state') /\ state'[k] = state[k]
    BY <1>2, <2>1, StateGrows
  <2> QED  BY <1>2, <2>2 DEF IInv, SentIsReported
<1>8. ExitIsLast'
  BY <1>2, <1>3 DEF IInv, ExitIsLast
<1> QED
  BY <1>1, <1>2, <1>5, <1>6, <1>7, <1>8, QuietFacts DEF IInv

LEMMA ImportStep ==
  ASSUME IInv, Next, ImportThirItems
  PROVE  IInv'
<1>1. TypeOK /\ TypeOK'
  BY TypeStep DEF IInv
<1>2. PICK items \in SUBSET Item : Put(ItemProcessedMsg(items))
  BY DEF ImportThirItems
<1>3. ItemProcessedMsg(items) \in FromEngine /\ ItemProcessedMsg(items).kind = "ItemProcessed"
  BY MessageTypes DEF ItemProcessedMsg
<1>4. /\ fromEngine \in Seq(FromEngine) /\ Len(fromEngine') = Len(fromEngine) + 1
      /\ \A j \in 1..Len(fromEngine) : fromEngine'[j] = fromEngine[j]
      /\ fromEngine'[Len(fromEngine')].kind = "ItemProcessed"
      /\ ReadIsShown' /\ AllIsRead' /\ pc' = pc /\ result' = result
      /\ exitCode' = exitCode /\ exitCode = Running
  BY <1>1, <1>2, <1>3, PutFacts DEF TypeOK, RunTypeOK
<1>5. epc = "import" /\ epc' = "work" /\ written' = written
  BY DEF ImportThirItems
<1>6. \A j \in 1..Len(fromEngine') : j \in 1..Len(fromEngine) \/ j = Len(fromEngine')
  BY <1>4
<1>7. \A j \in 1..Len(fromEngine') : fromEngine'[j].kind \notin {"Diagnostic", "Exit"}
  <2>1. \A j \in 1..Len(fromEngine) : fromEngine[j].kind \notin {"Diagnostic", "Exit"}
    BY <1>5 DEF IInv, Lifetimes, ExitIsLast
  <2> QED  BY <1>4, <1>6, <2>1
<1>8. Lifetimes' /\ OutboxHolds' /\ WrittenIsSent'
  BY <1>4, <1>5, <1>7 DEF IInv, Lifetimes, OutboxHolds, WrittenIsSent, RunIsOver, Running
<1>9. SentIsReported' /\ ExitIsLast'
  BY <1>7 DEF SentIsReported, ExitIsLast
<1> QED
  BY <1>1, <1>4, <1>8, <1>9 DEF IInv

\* Profiling data, requests, debug output and the line a kill cuts short.
LEMMA TalkStep ==
  ASSUME IInv, Next, Profile \/ Request \/ DebugPrint \/ KillWriting
  PROVE  IInv'
<1>1. TypeOK /\ TypeOK'
  BY TypeStep DEF IInv
<1>2. PICK k \in PlainKind \ {"Exit"} :
        /\ Put(Plain(k))
        /\ state' = state /\ outbox' = outbox /\ written' = written
        /\ \/ epc \in {"import", "work"} /\ epc' \in {"import", "work", "await"}
           \/ epc \in {"import", "work", "flush"} /\ epc' = "crash"
  BY DEF Profile, Request, DebugPrint, KillWriting, Talk, Working, PlainKind, RequestKind
<1>3. Plain(k) \in FromEngine /\ Plain(k).kind = k /\ k # "Diagnostic"
  BY MessageTypes DEF Plain, PlainKind, RequestKind
<1>4. /\ fromEngine \in Seq(FromEngine) /\ Len(fromEngine') = Len(fromEngine) + 1
      /\ \A j \in 1..Len(fromEngine) : fromEngine'[j] = fromEngine[j]
      /\ fromEngine'[Len(fromEngine')].kind = k
      /\ ReadIsShown' /\ AllIsRead' /\ pc' = pc /\ result' = result
      /\ exitCode' = exitCode /\ exitCode = Running
  BY <1>1, <1>2, <1>3, PutFacts DEF TypeOK, RunTypeOK
<1>6. \A j \in 1..Len(fromEngine') : j \in 1..Len(fromEngine) \/ j = Len(fromEngine')
  BY <1>4
<1>5. Lifetimes' /\ OutboxHolds' /\ WrittenIsSent'
  BY <1>2, <1>3, <1>4, <1>6 DEF IInv, Lifetimes, OutboxHolds, WrittenIsSent, RunIsOver, Running
<1>7. SentIsReported' /\ ExitIsLast'
  BY <1>2, <1>3, <1>4, <1>6 DEF IInv, SentIsReported, ExitIsLast
<1> QED
  BY <1>1, <1>4, <1>5, <1>7 DEF IInv

LEMMA EndOfRunStep ==
  ASSUME IInv, Next, FinishRun \/ RaiseFatalError
  PROVE  IInv'
<1>1. TypeOK /\ TypeOK'
  BY TypeStep DEF IInv
<1>2. /\ UNCHANGED <<pc, result, reported, error, fromEngine, cread, exitCode, written>>
      /\ epc \in {"import", "work"} /\ epc' = "flush"
      /\ state' = state \/ \E d \in Diag : state' = Append(state, d)
  BY DEF FinishRun, RaiseFatalError, Report, Working, runVars, clientVars, pipeVars
<1>3. \E files \in Seq(File), debug \in Nat : outbox' = Outbox(state', files, debug)
  <2>1. << >> \in Seq(File) /\ 0..MaxDebug \subseteq Nat
    BY EngineBounds
  <2> QED
    BY <2>1, MessageTypes DEF FinishRun, RaiseFatalError
<1>4. HasShape(outbox', state')
  <2>1. PICK files \in Seq(File), debug \in Nat : outbox' = Outbox(state', files, debug)
    BY <1>3
  <2>2. PICK s \in Seq(Diag) : s = state'
    BY <1>1 DEF TypeOK
  <2>3. PICK o : o = outbox'
    OBVIOUS
  <2>4. HasShape(o, s)
    BY <2>1, <2>2, <2>3, OutboxShape
  <2> QED  BY <2>2, <2>3, <2>4 DEF HasShape
<1>5. written = 0 /\ exitCode = Running
  BY <1>2 DEF IInv, Lifetimes
<1>6. Lifetimes'
  BY <1>2 DEF IInv, Lifetimes
<1>7. OutboxHolds' /\ WrittenIsSent'
  BY <1>1, <1>2, <1>4, <1>5 DEF HasShape, OutboxHolds, WrittenIsSent, TypeOK
<1>8. SentIsReported'
  <2>1. state \in Seq(Diag)
    BY <1>1 DEF TypeOK
  <2>2. \A k \in 1..Len(state) : k \in 1..Len(state') /\ state'[k] = state[k]
    BY <1>2, <2>1, StateGrows
  <2> QED  BY <1>2, <2>2 DEF IInv, SentIsReported
<1>9. ExitIsLast'
  BY <1>2 DEF IInv, ExitIsLast
<1> QED
  BY <1>1, <1>2, <1>6, <1>7, <1>8, <1>9, QuietFacts DEF IInv

LEMMA FlushStep ==
  ASSUME IInv, Next, Flush
  PROVE  IInv'
<1>1. TypeOK /\ TypeOK'
  BY TypeStep DEF IInv
<1>2. /\ epc = "flush" /\ written' = written + 1 /\ outbox' = outbox /\ state' = state
      /\ epc' = IF written' = Len(outbox) THEN "close" ELSE "flush"
      /\ Put(outbox[written + 1])
  BY DEF Flush
<1>3. written \in Nat /\ written < Len(outbox) /\ outbox[written + 1] \in FromEngine
  BY <1>1, <1>2 DEF IInv, OutboxHolds, RunIsOver, TypeOK
<1>4. /\ fromEngine \in Seq(FromEngine) /\ Len(fromEngine') = Len(fromEngine) + 1
      /\ \A j \in 1..Len(fromEngine) : fromEngine'[j] = fromEngine[j]
      /\ fromEngine'[Len(fromEngine')] = outbox[written + 1]
      /\ ReadIsShown' /\ AllIsRead' /\ pc' = pc /\ result' = result
      /\ exitCode' = exitCode /\ exitCode = Running
  BY <1>1, <1>2, <1>3, PutFacts DEF TypeOK, RunTypeOK
<1>5. \A j \in 1..Len(fromEngine') : j \in 1..Len(fromEngine) \/ j = Len(fromEngine')
  BY <1>4
<1>6. Lifetimes'
  BY <1>2, <1>4 DEF IInv, Lifetimes
<1>7. OutboxHolds'
  <2>1. IF epc' = "flush" THEN written' < Len(outbox') ELSE written' = Len(outbox')
    <3>1. Len(outbox) \in Nat /\ written + 1 <= Len(outbox)
      BY <1>1, <1>3 DEF TypeOK
    <3> QED  BY <1>2, <1>3, <3>1
  <2> QED  BY <1>2, <1>4, <2>1 DEF IInv, OutboxHolds, RunIsOver
<1>8. WrittenIsSent'
  <2> SUFFICES ASSUME NEW k \in 1..written'
               PROVE  \E j \in 1..Len(fromEngine') : fromEngine'[j] = outbox'[k]
    BY DEF WrittenIsSent
  <2>1. CASE k \in 1..written
    BY <1>2, <1>4, <2>1 DEF IInv, WrittenIsSent, RunIsOver
  <2>2. CASE k = written + 1
    BY <1>2, <1>4, <2>2
  <2> QED  BY <1>2, <1>3, <2>1, <2>2
<1>9. SentIsReported'
  <2>1. outbox[written + 1].kind = "Diagnostic" => \E k \in 1..Len(state) : outbox[written + 1].diag = state[k]
    <3>1. written + 1 \in 1..Len(outbox) /\ Len(state) \in Nat
      BY <1>1, <1>3 DEF TypeOK
    <3>2. written + 1 <= Len(state) => outbox[written + 1] = DiagnosticMsg(state[written + 1])
      BY <1>2, <1>3, <3>1 DEF IInv, OutboxHolds, RunIsOver
    <3>3. written + 1 > Len(state) => outbox[written + 1].kind # "Diagnostic"
      BY <1>2, <3>1 DEF IInv, OutboxHolds, RunIsOver
    <3> QED  BY <1>3, <3>1, <3>2, <3>3 DEF DiagnosticMsg
  <2> SUFFICES ASSUME NEW j \in 1..Len(fromEngine'), fromEngine'[j].kind = "Diagnostic"
               PROVE  \E k \in 1..Len(state') : fromEngine'[j].diag = state'[k]
    BY DEF SentIsReported
  <2>2. CASE j \in 1..Len(fromEngine)
    BY <1>2, <1>4, <2>2 DEF IInv, SentIsReported
  <2>3. CASE j = Len(fromEngine')
    BY <1>2, <1>4, <2>1, <2>3
  <2> QED  BY <1>5, <2>2, <2>3
<1>10. ExitIsLast'
  BY <1>2, <1>3, <1>4, <1>5 DEF IInv, ExitIsLast, OutboxHolds, RunIsOver
<1> QED
  BY <1>1, <1>4, <1>6, <1>7, <1>8, <1>9, <1>10 DEF IInv

LEMMA ExitStep ==
  ASSUME IInv, Next, Close \/ Die \/ Kill
  PROVE  IInv'
<1>1. TypeOK /\ TypeOK'
  BY TypeStep DEF IInv
<1>2. /\ UNCHANGED <<pc, result, reported, error, fromEngine, cread, state, outbox, written>>
      /\ exitCode = Running /\ epc' = "dead"
      /\ \/ epc = "close" /\ exitCode' = 0
         \/ exitCode' = 2
         \/ exitCode' = 137
  BY DEF Close, Die, Kill, ExitWith, clientVars
<1>3. Lifetimes' /\ OutboxHolds' /\ WrittenIsSent'
  BY <1>2 DEF IInv, Lifetimes, OutboxHolds, WrittenIsSent, RunIsOver, Running
<1>4. SentIsReported' /\ ExitIsLast'
  BY <1>2 DEF IInv, SentIsReported, ExitIsLast
<1> QED
  BY <1>1, <1>2, <1>3, <1>4, QuietFacts DEF IInv

THEOREM Invariance == Spec => []IInv
<1>1. IInv /\ [Next]_vars => IInv'
  <2>1. CASE UNCHANGED vars
    BY <2>1 DEF vars, runVars, engineVars, clientVars, pipeVars, IInv, TypeOK, RunTypeOK, Lifetimes,
       RunIsOver, OutboxHolds, WrittenIsSent, SentIsReported, ExitIsLast, ReadIsShown, AllIsRead
  <2>2. CASE Next
    BY <2>1, <2>2, ClientStep, WorkStep, ImportStep, TalkStep, EndOfRunStep, FlushStep, ExitStep
       DEF Next, EngineStep, Fault, Terminated
  <2> QED  BY <2>1, <2>2
<1> QED
  BY InitIInv, <1>1, PTL DEF Spec

(***************************************************************************)
(* Every value the two processes and their pipes hold has its type.        *)
(***************************************************************************)
THEOREM TypeCorrect == Spec => []TypeOK
BY Invariance, PTL DEF IInv

(***************************************************************************)
(* However the two processes interleave and whichever of them fails, when  *)
(* run_engine returns the user was shown exactly the diagnostics of        *)
(* `Diagnostics.Core.state`, and the verdict says whether there are any.   *)
(***************************************************************************)
THEOREM VerdictIsFaithful == Spec => []VerdictFaithful
<1>1. IInv => VerdictFaithful
  <2> SUFFICES ASSUME IInv, result = "returned"
               PROVE  reported = Range(state) /\ (error <=> state # << >>)
    BY DEF VerdictFaithful
  <2>1. state \in Seq(Diag) /\ reported \subseteq Diag /\ fromEngine \in Seq(FromEngine)
    BY DEF IInv, TypeOK, RunTypeOK
  <2>2. cread = Len(fromEngine) /\ written = Len(outbox) /\ RunIsOver
    BY DEF IInv, Lifetimes, OutboxHolds, RunIsOver, AllIsRead, Running
  <2>3. \A k \in 1..Len(state) : state[k] \in reported
    <3> SUFFICES ASSUME NEW k \in 1..Len(state)  PROVE state[k] \in reported
      OBVIOUS
    <3>1. k \in 1..written /\ outbox[k] = DiagnosticMsg(state[k])
      BY <2>1, <2>2 DEF IInv, OutboxHolds
    <3>2. \E j \in 1..cread : fromEngine[j] = DiagnosticMsg(state[k])
      BY <2>2, <3>1 DEF IInv, WrittenIsSent
    <3> QED  BY <2>1, <3>2 DEF IInv, ReadIsShown
  <2>4. \A d \in reported : \E k \in 1..Len(state) : d = state[k]
    <3> SUFFICES ASSUME NEW d \in reported  PROVE \E k \in 1..Len(state) : d = state[k]
      OBVIOUS
    <3>1. PICK j \in 1..Len(fromEngine) : fromEngine[j] = DiagnosticMsg(d)
      BY <2>1, <2>2 DEF IInv, ReadIsShown
    <3>2. fromEngine[j].kind = "Diagnostic" /\ fromEngine[j].diag = d
      BY <3>1 DEF DiagnosticMsg
    <3> QED  BY <3>1, <3>2 DEF IInv, SentIsReported
  <2>5. reported = Range(state)
    BY <2>1, <2>3, <2>4 DEF Range
  <2>6. state # << >> <=> reported # {}
    BY <2>1, <2>3, <2>4
  <2> QED  BY <2>5, <2>6 DEF IInv, ReadIsShown
<1> QED
  BY Invariance, <1>1, PTL

(***************************************************************************)
(* The run implements the promise of Extraction: run_engine acts on the    *)
(* engine's messages in order, each once, its verdict is whether one of    *)
(* them was a diagnostic, and it returns only after the engine finished    *)
(* its work and every one of its messages was acted upon.                  *)
(***************************************************************************)
THEOREM KeepsPromise == Spec => ImplementsExtraction
<1>1. Init => Promise!Init
  BY DEF Init, RunInit, Running, Promise!Init
<1>2. IInv /\ [Next]_vars => [Promise!Next]_(Promise!vars)
  <2> SUFFICES ASSUME IInv, [Next]_vars  PROVE [Promise!Next]_(Promise!vars)
    OBVIOUS
  <2> USE DEF Promise!vars, Promise!Next
  <2>1. CASE Client
    <3>1. ClientNext /\ cread \in 0..Len(fromEngine) /\ (pc # "done" => result = "none")
          /\ exitCode' = exitCode /\ fromEngine' = fromEngine
      BY <2>1, ClientFrame DEF Client, IInv, TypeOK, RunTypeOK, Lifetimes
    <3>2. CASE OnDiagnostic \/ OnFile \/ OnItemProcessed \/ OnDebugString \/ OnProfilingData \/ OnRequest
      <4>1. /\ result = "none" /\ result' = result
            /\ cread < Len(fromEngine) /\ cread' = cread + 1
        BY <3>1, <3>2 DEF OnDiagnostic, OnFile, OnItemProcessed, OnDebugString, OnProfilingData,
           OnRequest, Receive, clientVars
      <4>2. error' = (error \/ fromEngine[cread + 1].kind = "Diagnostic")
        <5>1. CASE fromEngine[cread + 1].kind = "Diagnostic" /\ error' = TRUE
          BY <5>1
        <5>2. CASE fromEngine[cread + 1].kind # "Diagnostic" /\ error' = error
          BY <5>2 DEF IInv, TypeOK, RunTypeOK
        <5>3. cread' # cread
          BY <3>1, <4>1
        <5> QED  BY <2>1, <5>1, <5>2, <5>3, ClientReads DEF Incoming
      <4> QED  BY <3>1, <4>1, <4>2 DEF Promise!Show
    <3>3. CASE OnGarbage \/ OnExit
      <4>1. /\ result = "none" /\ result' \in {"none", "panic"}
            /\ cread < Len(fromEngine) /\ cread' = cread + 1 /\ error' = error
            /\ fromEngine[cread + 1].kind # "Diagnostic"
        BY <3>1, <3>3 DEF OnGarbage, OnExit, LeaveLoop, Panic, Receive, Incoming
      <4>2. error' = (error \/ fromEngine[cread + 1].kind = "Diagnostic")
        BY <4>1 DEF IInv, TypeOK, RunTypeOK
      <4>3. CASE result' = "none"
        BY <3>1, <4>1, <4>2, <4>3 DEF Promise!Show
      <4>4. CASE result' = "panic"
        BY <3>1, <4>1, <4>4 DEF Promise!Fail
      <4> QED  BY <4>1, <4>3, <4>4
    <3>4. CASE SendInput \/ SendReply
      BY <3>1, <3>4 DEF SendInput, SendReply, Send
    <3>5. CASE SendBroken \/ OnEof
      <4>1. Promise!Fail \/ UNCHANGED Promise!vars
        BY <3>1, <3>5 DEF SendBroken, OnEof, LeaveLoop, Panic, pipeVars, Promise!Fail
      <4> QED  BY <4>1
    <3>6. CASE Wait
      <4>1. Promise!Succeed \/ Promise!Fail
        BY <3>1, <3>6 DEF Wait, Outcome, pipeVars, IInv, AllIsRead, Promise!Succeed, Promise!Fail
      <4> QED  BY <4>1
    <3> QED  BY <3>1, <3>2, <3>3, <3>4, <3>5, <3>6 DEF ClientNext
  <2>11. CASE KillClient
    <3>1. Promise!Fail
      BY <2>11, ClientFrame DEF KillClient, ClientDies, Panic, pipeVars, IInv, Lifetimes, Promise!Fail
    <3> QED  BY <3>1
  <2>2. CASE ExitWith(0)
    BY <2>2 DEF ExitWith, clientVars, Promise!Conclude
  <2>3. ASSUME NEW c \in {2, 137}, ExitWith(c)  PROVE UNCHANGED Promise!vars
    BY <2>3 DEF ExitWith, clientVars, Running
  <2>4. ASSUME NEW m \in FromEngine, Put(m)  PROVE Promise!Produce
    BY <2>4 DEF Put, StdoutRoom, ClientEndsOpen, clientVars, IInv, Lifetimes, Running, Promise!Produce
  <2>5. CASE Get
    BY <2>5 DEF Get, clientVars
  <2>6. CASE UNCHANGED runVars
    BY <2>6 DEF runVars, clientVars, pipeVars
  <2>7. CASE Close \/ Die \/ Kill
    BY <2>2, <2>3, <2>7 DEF Close, Die, Kill, Promise!Conclude
  <2>8. CASE ImportThirItems \/ Profile \/ Request \/ DebugPrint \/ Flush \/ KillWriting
    <3>1. CASE ImportThirItems
      BY <2>4, <3>1, MessageTypes DEF ImportThirItems
    <3>2. CASE Profile \/ Request \/ DebugPrint \/ KillWriting
      <4>1. \E k \in PlainKind : Put(Plain(k))
        BY <3>2 DEF Profile, Request, DebugPrint, KillWriting, Talk, PlainKind
      <4> QED  BY <2>4, <4>1, MessageTypes
    <3>3. CASE Flush
      <4>1. outbox[written + 1] \in FromEngine
        BY <3>3 DEF Flush, IInv, TypeOK, OutboxHolds, RunIsOver
      <4> QED  BY <2>4, <3>3, <4>1 DEF Flush
    <3> QED  BY <2>8, <3>1, <3>2, <3>3
  <2>9. CASE ParseOptions \/ WrongVersion \/ ReadReply
    BY <2>5, <2>9 DEF ParseOptions, WrongVersion, ReadReply
  <2>10. CASE ReadEof \/ ReportDiagnostic \/ FinishRun \/ RaiseFatalError \/ BrokenPipe \/ RaiseException
              \/ Terminated \/ UNCHANGED vars
    BY <2>6, <2>10 DEF ReadEof, ReportDiagnostic, FinishRun, RaiseFatalError, BrokenPipe,
       RaiseException, Terminated, vars
  <2> QED
    BY <2>1, <2>7, <2>8, <2>9, <2>10, <2>11 DEF Next, EngineStep, Fault
<1> QED
  BY Invariance, <1>1, <1>2, PTL DEF Spec, ImplementsExtraction, Promise!Spec
-----------------------------------------------------------------------------
(***************************************************************************)
(* The conversation.  Each end of the two pipes decides on its own what to *)
(* do next; that they agree rests on a bound on what is under way: at most *)
(* one request or reply, and only while the engine awaits.                 *)
(***************************************************************************)
\* Nothing is sent to an engine that does not await, but its input.
Turns ==
  /\ pc = "send" =>
       toEngine = << >> /\ eread = 0 /\ (epc = "load" \/ (faulted /\ epc \in {"crash", "dead"}))
  /\ epc = "load" => eread = 0 /\ Len(toEngine) <= 1
  /\ epc \in {"import", "work", "flush", "close"} => ~StdinReady
  /\ epc = "await" /\ StdinReady =>
       pc # "reply" /\ Len(toEngine) = eread + 1 /\ toEngine[eread + 1] = ReplyTo[asked]
  /\ pc = "reply" =>
       /\ pending = asked /\ cread = Len(fromEngine)
       /\ epc = "await" \/ (faulted /\ epc = "dead")

\* A request that cargo-hax has yet to read is the last message, and awaited.
Unanswered ==
  ClientEndsOpen =>
    \A j \in cread + 1..Len(fromEngine) :
      fromEngine[j].kind \in RequestKind =>
        /\ j = Len(fromEngine) /\ fromEngine[j].kind = asked
        /\ (epc = "await" /\ ~StdinReady) \/ (faulted /\ epc = "dead")

\* Without a fault cargo-hax leaves the loop after Exit only.
NothingFails ==
  ~faulted =>
    /\ epc # "crash" /\ exitCode \in {Running, 0}
    /\ \A j \in 1..Len(fromEngine) : fromEngine[j].kind # "Garbage"
    /\ ClientEndsOpen \/ epc \in {"close", "dead"}
    /\ result \in {"none", "returned"} \/ StatsDivideByZero

\* `run` is over: the outbox is in order.
OutboxOrder == RunIsOver => InOrder(outbox)

Conversation == OutboxOrder /\ Turns /\ Unanswered /\ NothingFails

LEMMA OutboxOrderStep ==
  ASSUME IInv, OutboxOrder, [Next]_vars
  PROVE  OutboxOrder'
<1>1. CASE FinishRun \/ RaiseFatalError
  <2>1. PICK files \in Seq(File), debug \in Nat :
          /\ outbox' = Outbox(state', files, debug)
          /\ \A i, j \in 1..Len(files) : files[i].path = files[j].path => i = j
    <3>1. << >> \in Seq(File) /\ Len(<< >>) = 0 /\ 0..MaxDebug \subseteq Nat
      BY EngineBounds
    <3>2. CASE RaiseFatalError
      <4>1. PICK debug \in 0..MaxDebug : outbox' = Outbox(state', << >>, debug)
        BY <3>2 DEF RaiseFatalError
      <4>2. \A i, j \in 1..Len(<< >>) : << >>[i].path = << >>[j].path => i = j
        BY <3>1
      <4> QED  BY <3>1, <4>1, <4>2
    <3>3. CASE FinishRun
      <4>1. PICK files \in FileLists, debug \in 0..MaxDebug : outbox' = Outbox(state', files, debug)
        BY <3>3 DEF FinishRun
      <4>2. files \in Seq(File) /\ \A i, j \in 1..Len(files) : files[i].path = files[j].path => i = j
        BY MessageTypes DEF FileLists
      <4> QED  BY <3>1, <4>1, <4>2
    <3> QED  BY <1>1, <3>2, <3>3
  <2>2. PICK s \in Seq(Diag) : s = state'
    BY TypeStep DEF TypeOK
  <2>3. PICK o : o = outbox'
    OBVIOUS
  <2>4. InOrder(o)
    BY <2>1, <2>2, <2>3, OutboxInOrder
  <2> QED  BY <2>3, <2>4 DEF OutboxOrder, InOrder
<1>2. CASE UNCHANGED outbox /\ (RunIsOver' => RunIsOver)
  BY <1>2 DEF OutboxOrder, InOrder
<1>3. CASE Client \/ KillClient \/ Terminated \/ UNCHANGED vars
  <2>1. UNCHANGED <<outbox, epc, exitCode>>
    BY <1>3, ClientFrame DEF Terminated, vars, runVars, pipeVars, engineVars
  <2> QED  BY <1>2, <2>1 DEF RunIsOver
<1>4. CASE Close \/ Die \/ Kill
  BY <1>2, <1>4 DEF Close, Die, Kill, ExitWith, RunIsOver
<1>5. CASE \/ ParseOptions \/ WrongVersion \/ ReadEof \/ ReportDiagnostic \/ ReadReply \/ BrokenPipe
           \/ RaiseException \/ ImportThirItems \/ Profile \/ Request \/ DebugPrint \/ KillWriting \/ Flush
  <2>1. UNCHANGED <<outbox, exitCode>> /\ (epc' \in {"flush", "close"} => epc = "flush")
    BY <1>5 DEF ParseOptions, WrongVersion, ReadEof, ReportDiagnostic, ReadReply, BrokenPipe, RaiseException,
       ImportThirItems, Profile, Request, DebugPrint, Talk, Working, Caller, KillWriting, Flush, Put, Get,
       runVars, pipeVars
  <2> QED  BY <1>2, <2>1 DEF RunIsOver
<1> QED  BY <1>1, <1>3, <1>4, <1>5 DEF Next, EngineStep, Fault

-----------------------------------------------------------------------------
(***************************************************************************)
(* A step of cargo-hax keeps the conversation.                             *)
(***************************************************************************)
LEMMA ClientTurn ==
  ASSUME IInv, Conversation, Client \/ (KillClient /\ faulted')
  PROVE  Turns' /\ Unanswered' /\ NothingFails'
<1>1. /\ toEngine \in Seq(ToEngine) /\ eread \in 0..Len(toEngine) /\ Len(toEngine) \in Nat
      /\ fromEngine \in Seq(FromEngine) /\ cread \in 0..Len(fromEngine) /\ Len(fromEngine) \in Nat
  BY DEF IInv, TypeOK, RunTypeOK
<1>2. UNCHANGED <<epc, asked, eread, fromEngine, exitCode>>
  BY DEF Client, engineVars, ClientNext, SendInput, SendReply, Send, SendBroken, pipeVars,
     OnDiagnostic, OnFile, OnItemProcessed, OnDebugString, OnProfilingData, OnRequest,
     OnGarbage, OnExit, OnEof, Wait, Receive, KillClient, ClientDies
<1>3. CASE Client /\ (SendInput \/ SendReply)
  <2>1. PICK m \in ToEngine :
          /\ exitCode = Running /\ toEngine' = Append(toEngine, m)
          /\ \/ pc = "send" /\ m = "WithTable"
             \/ pc = "reply" /\ m = ReplyTo[pending]
    BY <1>3 DEF SendInput, SendReply, Send, ToEngine, ReplyTo, RequestKind, ReplyKind, IInv, TypeOK, RunTypeOK
  <2>2. /\ pc \in {"send", "reply"} /\ pc' = "loop" /\ epc # "dead"
        /\ UNCHANGED <<pending, cread, result, errorsPerItem, faulted>>
    BY <1>3, <2>1 DEF SendInput, SendReply, Send, Client, IInv, Lifetimes
  <2>3. Len(toEngine') = Len(toEngine) + 1 /\ toEngine'[Len(toEngine) + 1] = m
    BY <1>1, <2>1
  <2>4. CASE pc = "send"
    <3>1. toEngine = << >> /\ eread = 0 /\ epc \in {"load", "crash"} /\ Len(toEngine') = 1
      BY <2>2, <2>3, <2>4 DEF Conversation, Turns
    <3>2. Turns'
      BY <1>2, <2>2, <3>1 DEF Turns
    <3>3. Unanswered'
      BY <1>2, <2>2, <2>4, <3>1 DEF Conversation, Unanswered, ClientEndsOpen
    <3> QED  BY <1>2, <2>2, <2>4, <3>2, <3>3
      DEF Conversation, NothingFails, ClientEndsOpen, StatsDivideByZero
  <2>5. CASE pc = "reply"
    <3>1. epc = "await" /\ pending = asked /\ ~StdinReady /\ m = ReplyTo[asked]
      BY <2>1, <2>2, <2>5 DEF Conversation, Turns
    <3>2. Len(toEngine) = eread
      BY <1>1, <3>1 DEF StdinReady
    <3>3. Turns'
      BY <1>2, <2>2, <2>3, <3>1, <3>2 DEF Turns
    <3>4. Unanswered'
      <4>1. cread' + 1..Len(fromEngine') = {}
        BY <1>1, <1>2, <2>2, <2>5 DEF Conversation, Turns
      <4> QED  BY <4>1 DEF Unanswered
    <3> QED  BY <1>2, <2>2, <2>5, <3>3, <3>4
      DEF Conversation, NothingFails, ClientEndsOpen, StatsDivideByZero
  <2> QED  BY <2>2, <2>4, <2>5
<1>4. CASE Client /\ OnRequest
  <2>1. /\ pc = "loop" /\ pc' = "reply" /\ pending' = fromEngine[cread + 1].kind
        /\ cread < Len(fromEngine) /\ cread' = cread + 1 /\ fromEngine[cread + 1].kind \in RequestKind
        /\ UNCHANGED <<toEngine, result, errorsPerItem, faulted>>
    BY <1>4 DEF OnRequest, Receive, Incoming, Client
  <2>2. /\ cread + 1 = Len(fromEngine) /\ fromEngine[cread + 1].kind = asked
        /\ (epc = "await" /\ ~StdinReady) \/ (faulted /\ epc = "dead")
    BY <1>1, <2>1 DEF Conversation, Unanswered, ClientEndsOpen
  <2>3. Turns'
    BY <1>2, <2>1, <2>2 DEF Turns, StdinReady
  <2>4. Unanswered'
    <3>1. cread' + 1..Len(fromEngine') = {}
      BY <1>1, <1>2, <2>1, <2>2
    <3> QED  BY <3>1 DEF Unanswered
  <2> QED  BY <1>2, <2>1, <2>3, <2>4 DEF Conversation, NothingFails, ClientEndsOpen, StatsDivideByZero
<1>5. CASE Client /\ (OnDiagnostic \/ OnFile \/ OnItemProcessed \/ OnDebugString \/ OnProfilingData)
  <2>1. /\ pc = "loop" /\ cread < Len(fromEngine) /\ cread' = cread + 1
        /\ UNCHANGED <<pc, pending, toEngine, result, faulted>>
    BY <1>5 DEF OnDiagnostic, OnFile, OnItemProcessed, OnDebugString, OnProfilingData, Receive, Client, clientVars
  <2>2. result = "none"
    BY <2>1 DEF IInv, Lifetimes
  <2>3. Turns'
    BY <1>2, <2>1 DEF Conversation, Turns, StdinReady
  <2>4. Unanswered'
    <3>1. cread' + 1..Len(fromEngine') \subseteq cread + 1..Len(fromEngine)
      BY <1>1, <1>2, <2>1
    <3> QED  BY <1>2, <2>1, <3>1 DEF Conversation, Unanswered, ClientEndsOpen, StdinReady
  <2> QED  BY <1>2, <2>1, <2>2, <2>3, <2>4 DEF Conversation, NothingFails, ClientEndsOpen
<1>6. ASSUME pc' \in {"wait", "done"}, UNCHANGED <<toEngine, pending>>  PROVE Turns' /\ Unanswered'
  BY <1>2, <1>6 DEF Conversation, Turns, Unanswered, ClientEndsOpen, StdinReady
<1>7. CASE Client /\ (OnExit \/ OnEof)
  <2>1. /\ pc = "loop" /\ LeaveLoop /\ UNCHANGED <<toEngine, faulted, errorsPerItem, pending>>
        /\ exitCode # Running \/ (cread < Len(fromEngine) /\ fromEngine[cread + 1].kind = "Exit")
    BY <1>7 DEF OnExit, OnEof, Receive, Incoming, LeaveLoop, Client, pipeVars
  <2>2. epc \in {"close", "dead"} /\ result = "none"
    BY <1>1, <2>1 DEF IInv, Lifetimes, ExitIsLast
  <2>3. pc' \in {"wait", "done"} /\ (result' = "none" \/ StatsDivideByZero')
    BY <2>1, <2>2 DEF LeaveLoop, Panic, StatsDivideByZero
  <2> QED  BY <1>2, <1>6, <2>1, <2>2, <2>3 DEF Conversation, NothingFails
<1>8. CASE Client /\ Wait
  <2>1. /\ pc' = "done" /\ exitCode # Running /\ result' = (IF exitCode = 0 THEN "returned" ELSE "exit1")
        /\ UNCHANGED <<toEngine, faulted, pending>>
    BY <1>8 DEF Wait, Outcome, pipeVars, Client
  <2> QED  BY <1>2, <1>6, <2>1 DEF Conversation, NothingFails, IInv, Lifetimes
<1>9. CASE faulted' /\ (SendBroken \/ OnGarbage \/ ClientDies)
  <2>1. pc' = "done" /\ UNCHANGED <<toEngine, pending>>
    BY <1>9 DEF SendBroken, OnGarbage, ClientDies, Panic, Receive, pipeVars
  <2> QED  BY <1>6, <1>9, <2>1 DEF NothingFails
<1>10. CASE Client /\ (SendBroken \/ OnGarbage)
  <2>1. faulted' = faulted
    BY <1>10 DEF Client
  <2>2. CASE SendBroken
    <3>1. pc \in {"send", "reply"} /\ epc = "dead"
      BY <2>2 DEF SendBroken, IInv, Lifetimes
    <3> QED  BY <1>9, <2>1, <2>2, <3>1 DEF Conversation, Turns
  <2>3. CASE OnGarbage
    <3>1. cread + 1 \in 1..Len(fromEngine) /\ fromEngine[cread + 1].kind = "Garbage"
      BY <1>1, <2>3 DEF OnGarbage, Receive, Incoming
    <3> QED  BY <1>9, <2>1, <2>3, <3>1 DEF Conversation, NothingFails, IInv, TypeOK
  <2> QED  BY <1>10, <2>2, <2>3
<1> QED
  BY <1>3, <1>4, <1>5, <1>7, <1>8, <1>9, <1>10 DEF Client, ClientNext, KillClient

-----------------------------------------------------------------------------
(***************************************************************************)
(* A step of the engine keeps the conversation.                            *)
(***************************************************************************)
LEMMA PipeTypes ==
  ASSUME IInv
  PROVE  /\ toEngine \in Seq(ToEngine) /\ eread \in 0..Len(toEngine) /\ Len(toEngine) \in Nat
         /\ fromEngine \in Seq(FromEngine) /\ cread \in 0..Len(fromEngine) /\ Len(fromEngine) \in Nat
BY DEF IInv, TypeOK, RunTypeOK

LEMMA ReadTurn ==
  ASSUME IInv, Conversation, ((ParseOptions \/ ReadReply) /\ UNCHANGED faulted) \/ (WrongVersion /\ faulted')
  PROVE  Turns' /\ Unanswered' /\ NothingFails'
<1>1. /\ StdinReady /\ eread' = eread + 1
      /\ UNCHANGED <<clientVars, toEngine, fromEngine, cread, exitCode, asked>>
  BY DEF ParseOptions, ReadReply, WrongVersion, Get
<1>2. pc \notin {"send", "reply"}
  BY <1>1, PipeTypes DEF Conversation, Turns, StdinReady, ParseOptions, ReadReply, WrongVersion
<1>3. Len(toEngine) = eread + 1
  BY <1>1, PipeTypes DEF Conversation, Turns, StdinReady, ParseOptions, ReadReply, WrongVersion
<1>4. ~StdinReady'
  BY <1>1, <1>3, PipeTypes DEF StdinReady
<1>5. epc \in {"load", "await"} /\ epc' \in {"import", "work", "crash"} /\ (epc' = "crash" => faulted')
  BY <1>1 DEF ParseOptions, ReadReply, Caller, WrongVersion, Conversation, Turns
<1>6. Turns'
  BY <1>1, <1>2, <1>4, <1>5 DEF Turns, clientVars
<1>7. Unanswered'
  BY <1>1, <1>5, PipeTypes DEF Conversation, Unanswered, ClientEndsOpen, clientVars, IInv, Lifetimes
<1> QED
  BY <1>1, <1>5, <1>6, <1>7 DEF Conversation, NothingFails, ClientEndsOpen, StatsDivideByZero, clientVars

LEMMA QuietTurn ==
  ASSUME IInv, Conversation,
         \/ UNCHANGED faulted /\ (ReadEof \/ ReportDiagnostic \/ FinishRun \/ RaiseFatalError \/ BrokenPipe)
         \/ faulted' /\ RaiseException
  PROVE  Turns' /\ Unanswered' /\ NothingFails'
<1>1. UNCHANGED runVars /\ UNCHANGED asked
  BY DEF ReadEof, ReportDiagnostic, FinishRun, RaiseFatalError, BrokenPipe, RaiseException
<1>2. \/ epc \in {"load", "import", "work"} /\ epc' = "crash" /\ faulted'
      \/ epc \in {"load", "await", "import", "work", "flush"} /\ epc' = "crash" /\ ~ClientEndsOpen /\ UNCHANGED faulted
      \/ epc \in {"import", "work"} /\ epc' \in {"import", "work", "flush"} /\ UNCHANGED faulted
  BY DEF ReadEof, ReportDiagnostic, Working, FinishRun, RaiseFatalError, BrokenPipe, RaiseException, StdinEof, StdoutBroken
<1>3. Turns'
  BY <1>1, <1>2 DEF Conversation, Turns, runVars, clientVars, pipeVars, StdinReady, ClientEndsOpen
<1>4. Unanswered'
  <2>1. CASE ~ClientEndsOpen
    BY <1>1, <2>1 DEF Unanswered, ClientEndsOpen, runVars, clientVars
  <2>2. CASE epc \in {"load", "import", "work", "flush"}
    BY <1>1, <1>2, <2>2 DEF Conversation, Unanswered, ClientEndsOpen, runVars, clientVars, pipeVars
  <2>3. CASE epc = "await"
    BY <1>2, <2>1, <2>3
  <2> QED  BY <1>2, <2>1, <2>2, <2>3
<1> QED
  BY <1>1, <1>2, <1>3, <1>4
     DEF Conversation, NothingFails, ClientEndsOpen, StatsDivideByZero, runVars, clientVars, pipeVars

\* A message of kind k; only a request leads to "await".
LEMMA PutTurn ==
  ASSUME IInv, Conversation, NEW m \in FromEngine, Put(m), UNCHANGED eread,
         epc \in {"import", "work", "flush"},
         \/ m.kind \notin RequestKind \cup {"Garbage"} /\ UNCHANGED faulted
              /\ epc' \in {"import", "work", "flush", "close"}
         \/ m.kind = "Garbage" /\ faulted' /\ epc' \in {"import", "work", "crash"}
         \/ m.kind \in RequestKind /\ UNCHANGED faulted /\ epc' = "await" /\ asked' = m.kind,
         m.kind \notin RequestKind => asked' = asked
  PROVE  Turns' /\ Unanswered' /\ NothingFails'
<1>1. /\ UNCHANGED <<clientVars, toEngine, eread, cread, exitCode>> /\ ClientEndsOpen
      /\ fromEngine' = Append(fromEngine, m)
  BY DEF Put, StdoutRoom
<1>2. /\ Len(fromEngine') = Len(fromEngine) + 1 /\ fromEngine'[Len(fromEngine')] = m
      /\ \A j \in 1..Len(fromEngine) : fromEngine'[j] = fromEngine[j]
      /\ \A j \in 1..Len(fromEngine') : j \in 1..Len(fromEngine) \/ j = Len(fromEngine')
  BY <1>1, PipeTypes
<1>3. pc = "loop" /\ ~StdinReady /\ ~StdinReady'
  BY <1>1 DEF ClientEndsOpen, Conversation, Turns, StdinReady
<1>4. Turns'
  BY <1>1, <1>3 DEF Turns, clientVars
<1>5. \A j \in cread + 1..Len(fromEngine) : fromEngine[j].kind \notin RequestKind
  BY <1>1 DEF Conversation, Unanswered
<1>6. Unanswered'
  <2> SUFFICES ASSUME NEW j \in cread' + 1..Len(fromEngine'), fromEngine'[j].kind \in RequestKind
               PROVE  /\ j = Len(fromEngine') /\ fromEngine'[j].kind = asked'
                      /\ (epc' = "await" /\ ~StdinReady') \/ (faulted' /\ epc' = "dead")
    BY DEF Unanswered
  <2>1. j = Len(fromEngine')
    <3>1. j \in cread + 1..Len(fromEngine) => fromEngine'[j].kind \notin RequestKind
      BY <1>2, <1>5, PipeTypes
    <3> QED  BY <1>1, <1>2, <3>1, PipeTypes
  <2>2. m.kind \in RequestKind
    BY <1>2, <2>1
  <2>3. "Garbage" \notin RequestKind
    BY DEF RequestKind
  <2> QED  BY <1>2, <1>3, <2>1, <2>2, <2>3
<1>7. NothingFails'
  <2>1. result = "none"
    BY <1>3 DEF IInv, Lifetimes
  <2>2. ~faulted' => m.kind # "Garbage" /\ epc' # "crash" /\ ~faulted
    BY DEF RequestKind
  <2> QED  BY <1>1, <1>2, <2>1, <2>2 DEF Conversation, NothingFails, ClientEndsOpen, clientVars
<1> QED  BY <1>4, <1>6, <1>7

LEMMA WriteTurn ==
  ASSUME IInv, Conversation,
         \/ UNCHANGED faulted /\ (ImportThirItems \/ Profile \/ Request \/ Flush)
         \/ faulted' /\ (DebugPrint \/ KillWriting)
  PROVE  Turns' /\ Unanswered' /\ NothingFails'
<1>1. CASE UNCHANGED faulted /\ ImportThirItems
  <2>1. PICK items \in SUBSET Item : Put(ItemProcessedMsg(items))
    BY <1>1 DEF ImportThirItems
  <2>2. PICK m \in FromEngine : Put(m) /\ m.kind \notin RequestKind \cup {"Garbage"}
    BY <2>1, MessageTypes DEF ItemProcessedMsg, RequestKind
  <2> QED  BY <1>1, <2>2, PutTurn DEF ImportThirItems, Put
<1>2. CASE (UNCHANGED faulted /\ (Profile \/ Request)) \/ (faulted' /\ (DebugPrint \/ KillWriting))
  <2>1. PICK k \in PlainKind :
          /\ Put(Plain(k)) /\ epc \in {"import", "work", "flush"}
          /\ k \notin RequestKind => asked' = asked
          /\ \/ k = "ProfilingData" /\ UNCHANGED faulted /\ epc' \in {"import", "work"}
             \/ k = "Garbage" /\ faulted' /\ epc' \in {"import", "work", "crash"}
             \/ k \in RequestKind /\ UNCHANGED faulted /\ epc' = "await" /\ asked' = k
    BY <1>2 DEF Profile, Request, DebugPrint, KillWriting, Talk, Working, PlainKind
  <2>2. PICK m \in FromEngine : Put(m) /\ m.kind = k
    BY <2>1, MessageTypes DEF Plain
  <2>3. "ProfilingData" \notin RequestKind \cup {"Garbage"}
    BY DEF RequestKind
  <2> QED  BY <2>1, <2>2, <2>3, PutTurn DEF Put
<1>3. CASE UNCHANGED faulted /\ Flush
  <2>1. written + 1 \in 1..Len(outbox) /\ outbox \in Seq(FromEngine)
    BY <1>3 DEF Flush, IInv, TypeOK, OutboxHolds, RunIsOver
  <2>2. outbox[written + 1].kind \in {"Diagnostic", "File", "DebugString", "Exit"}
    BY <1>3, <2>1 DEF Flush, Conversation, OutboxOrder, InOrder, RunIsOver
  <2>3. PICK m \in FromEngine : Put(m) /\ m.kind \notin RequestKind \cup {"Garbage"}
    BY <1>3, <2>1, <2>2 DEF Flush, RequestKind
  <2> QED  BY <1>3, <2>3, PutTurn DEF Flush, Put
<1> QED  BY <1>1, <1>2, <1>3

LEMMA EndTurn ==
  ASSUME IInv, Conversation, (UNCHANGED faulted /\ (Close \/ Die)) \/ (faulted' /\ Kill)
  PROVE  Turns' /\ Unanswered' /\ NothingFails'
<1>1. UNCHANGED <<clientVars, toEngine, eread, fromEngine, cread, asked>> /\ epc' = "dead"
  BY DEF Close, Die, Kill, ExitWith
<1>2. \/ epc = "close" /\ exitCode' = 0 /\ UNCHANGED faulted
      \/ epc = "crash" /\ UNCHANGED faulted
      \/ faulted'
  BY DEF Close, Die, Kill, ExitWith
<1>3. epc = "crash" => faulted
  BY DEF Conversation, NothingFails
<1>4. Turns'
  BY <1>1, <1>2, <1>3 DEF Conversation, Turns, clientVars
<1>5. Unanswered'
  BY <1>1, <1>2 DEF Conversation, Unanswered, ClientEndsOpen, clientVars
<1> QED
  BY <1>1, <1>2, <1>3, <1>4, <1>5 DEF Conversation, NothingFails, StatsDivideByZero, clientVars

THEOREM ConversationInvariance == Spec => []Conversation
<1>1. Init => Conversation
  BY DEF Init, RunInit, Running, Conversation, OutboxOrder, RunIsOver, Turns, Unanswered, NothingFails,
     ClientEndsOpen, StdinReady
<1>2. IInv /\ Conversation /\ [Next]_vars => Conversation'
  <2> SUFFICES ASSUME IInv, Conversation, [Next]_vars  PROVE Turns' /\ Unanswered' /\ NothingFails'
    BY OutboxOrderStep DEF Conversation
  <2>1. CASE UNCHANGED vars
    BY <2>1 DEF vars, runVars, engineVars, clientVars, pipeVars, Conversation, Turns, Unanswered, NothingFails,
       ClientEndsOpen, StdinReady, StatsDivideByZero
  <2>2. CASE Next
    BY <2>1, <2>2, ClientTurn, ReadTurn, QuietTurn, WriteTurn, EndTurn
       DEF Next, Client, EngineStep, Fault, Terminated
  <2> QED  BY <2>1, <2>2
<1> QED
  BY Invariance, <1>1, <1>2, PTL DEF Spec

(***************************************************************************)
(* For every fault and every interleaving: while cargo-hax answers, the    *)
(* engine awaits that very answer, and before a fault no process writes to *)
(* a closed pipe, ends early, or panics but for the success rate.          *)
(***************************************************************************)
THEOREM ConversationIsOK == Spec => []ConversationOK
<1>1. IInv /\ Conversation => ConversationOK
  <2> SUFFICES ASSUME IInv, Conversation  PROVE RepliesMatch /\ CleanRun
    BY DEF ConversationOK
  <2>1. RepliesMatch
    BY DEF Conversation, Turns, RepliesMatch, IInv, Lifetimes
  <2>2. CleanRun
    BY DEF Conversation, NothingFails, CleanRun
  <2> QED  BY <2>1, <2>2
<1> QED  BY Invariance, ConversationInvariance, <1>1, PTL

-----------------------------------------------------------------------------
(***************************************************************************)
(* The delivery.  Files and statistics rest on order as the verdict does   *)
(* not: a later file must not overwrite another, no ItemProcessed may come *)
(* after a diagnostic.  As long as the engine is not cut short its stdout  *)
(* is what it said while working, then the outbox as far as it is written. *)
(***************************************************************************)
Unbroken == epc \notin {"crash", "dead"} \/ exitCode = 0

\* How many messages came before the outbox, and whether its k-th message was acted upon.
Base == Len(fromEngine) - written
Acted(k) == k <= cread - Base

SentInOrder ==
  Unbroken =>
    /\ written <= Len(fromEngine)
    /\ \A j \in 1..Base : ~IsOutput(fromEngine[j])
    /\ \A k \in 1..written : fromEngine[Base + k] = outbox[k]

OutputHolds ==
  Unbroken /\ DryRun =>
    /\ Len(output) <= written
    /\ \A k \in 1..written : (IsOutput(outbox[k]) /\ Acted(k)) <=> k <= Len(output)
    /\ \A k \in 1..Len(output) : output[k] = outbox[k]

DiskHolds ==
  Unbroken /\ ~DryRun =>
    \A k \in 1..written :
      Acted(k) /\ outbox[k].kind = "File" => disk[outbox[k].file.path] = outbox[k].file.contents

Counted(i) == {k \in 1..Len(state) : Acted(k) /\ Owner[state[k]] = i}
CountsHold ==
  Unbroken =>
    \A i \in Item :
      IF i \in DOMAIN errorsPerItem THEN errorsPerItem[i] = Cardinality(Counted(i)) ELSE Counted(i) = {}

Delivery == SentInOrder /\ OutputHolds /\ DiskHolds /\ CountsHold

\* Before the outbox nothing is to be acted upon.
LEMMA NothingWritten ==
  ASSUME IInv, written = 0
  PROVE  Base = Len(fromEngine) /\ \A i : Counted(i) = {}
<1>1. Len(state) \in Nat
  BY DEF IInv, TypeOK
<1> QED  BY <1>1, PipeTypes DEF Base, Acted, Counted

\* What a step of cargo-hax does with the message it reads.
LEMMA ClientActs ==
  ASSUME Client \/ KillClient
  PROVE  \/ UNCHANGED <<cread, output, disk, errorsPerItem>>
         \/ /\ cread < Len(fromEngine) /\ cread' = cread + 1
            /\ output' = IF IsOutput(Incoming) THEN Collect(Incoming) ELSE output
            /\ disk' = IF ~DryRun /\ Incoming.kind = "File" THEN Written(Incoming.file) ELSE disk
            /\ \/ /\ Incoming.kind = "Diagnostic"
                  /\ errorsPerItem' = Bump(errorsPerItem, Owner[Incoming.diag])
               \/ /\ Incoming.kind = "ItemProcessed"
                  /\ errorsPerItem' = [i \in DOMAIN errorsPerItem \cup Incoming.items |->
                                         IF i \in Incoming.items THEN 0 ELSE errorsPerItem[i]]
               \/ Incoming.kind \notin {"Diagnostic", "ItemProcessed"} /\ errorsPerItem' = errorsPerItem
BY DEF Client, ClientNext, SendInput, SendReply, Send, SendBroken, pipeVars, clientVars, IsOutput,
       OnDiagnostic, OnFile, OnItemProcessed, OnDebugString, OnProfilingData, OnRequest,
       OnGarbage, OnExit, OnEof, LeaveLoop, Wait, Receive, RequestKind, KillClient, ClientDies

LEMMA BumpCounts ==
  ASSUME IInv, NEW o \in Item \cup {NoOwner}, NEW i \in Item
  PROVE  /\ i # o => /\ i \in DOMAIN Bump(errorsPerItem, o) <=> i \in DOMAIN errorsPerItem
                     /\ i \in DOMAIN errorsPerItem => Bump(errorsPerItem, o)[i] = errorsPerItem[i]
         /\ i = o => /\ i \in DOMAIN Bump(errorsPerItem, o)
                     /\ Bump(errorsPerItem, o)[i] =
                          (IF i \in DOMAIN errorsPerItem THEN errorsPerItem[i] ELSE 0) + 1
BY OwnerAssumption DEF Bump, IInv, TypeOK, RunTypeOK

\* cargo-hax reads a message from before the outbox.
LEMMA ReadBefore ==
  ASSUME IInv, Delivery, Unbroken, Client \/ KillClient, cread' = cread + 1, cread < Base
  PROVE  Delivery'
<1>1. UNCHANGED <<fromEngine, written, outbox, state, exitCode, epc>>
  BY ClientFrame
<1>2. /\ cread + 1 \in 1..Base /\ Base \in Int /\ Len(state) \in Nat /\ written \in Nat
      /\ cread \in Nat /\ cread' # cread /\ Base' = Base
  BY <1>1, PipeTypes DEF Base, IInv, TypeOK
<1>3. ~IsOutput(Incoming)
  BY <1>2 DEF Delivery, SentInOrder, Incoming
<1>4. /\ output' = output /\ disk' = disk
      /\ \/ errorsPerItem' = errorsPerItem
         \/ errorsPerItem' = [i \in DOMAIN errorsPerItem \cup Incoming.items |->
                                         IF i \in Incoming.items THEN 0 ELSE errorsPerItem[i]]
  BY <1>2, <1>3, ClientActs DEF IsOutput
<1>5. \A k \in 1..written : ~Acted(k) /\ ~Acted(k)'
  BY <1>1, <1>2 DEF Acted
<1>6. \A i : Counted(i) = {} /\ Counted(i)' = {}
  BY <1>1, <1>2 DEF Counted, Acted
<1>7. SentInOrder' /\ OutputHolds' /\ DiskHolds'
  BY <1>1, <1>2, <1>4, <1>5 DEF Delivery, SentInOrder, OutputHolds, DiskHolds, Unbroken
<1>8. CountsHold'
  <2>1. \A i \in Item : i \in DOMAIN errorsPerItem => errorsPerItem[i] = 0
    BY <1>6, FS_EmptySet DEF Delivery, CountsHold
  <2>2. ASSUME NEW i \in Item, i \in DOMAIN errorsPerItem'  PROVE errorsPerItem'[i] = 0
    BY <1>4, <2>1, <2>2
  <2> QED  BY <1>6, <2>2, FS_EmptySet DEF CountsHold
<1> QED  BY <1>7, <1>8 DEF Delivery

\* cargo-hax reads a message of the outbox.
LEMMA ReadOutbox ==
  ASSUME IInv, Conversation, Delivery, Unbroken, Client \/ KillClient, cread' = cread + 1,
         cread < Len(fromEngine), ~(cread < Base)
  PROVE  Delivery'
<1>1. UNCHANGED <<fromEngine, written, outbox, state, exitCode, epc>>
  BY ClientFrame
<1>2. PICK k0 : k0 = cread + 1 - Base
  OBVIOUS
<1>3. /\ k0 \in 1..written /\ Base \in Int /\ Len(state) \in Nat /\ written \in Nat /\ cread \in Nat
      /\ cread' # cread /\ Base' = Base /\ output \in Seq(FromEngine) /\ written <= Len(outbox)
      /\ outbox \in Seq(FromEngine) /\ state \in Seq(Diag)
  <2>1. /\ written \in Nat /\ cread \in Nat /\ Len(fromEngine) \in Nat /\ Len(state) \in Nat
        /\ written <= Len(outbox) /\ outbox \in Seq(FromEngine) /\ state \in Seq(Diag)
        /\ output \in Seq(FromEngine)
    BY PipeTypes DEF IInv, TypeOK, RunTypeOK
  <2>2. Base \in Int /\ Base = Len(fromEngine) - written /\ Base' = Base
    BY <1>1, <2>1 DEF Base
  <2>3. k0 \in 1..written /\ cread' # cread
    BY <1>2, <2>1, <2>2
  <2> QED  BY <2>1, <2>2, <2>3
<1>4. PICK m \in FromEngine : m = outbox[k0]
  BY <1>3
<1>5. Incoming = m
  <2>1. fromEngine[Base + k0] = outbox[k0] /\ Base + k0 = cread + 1
    BY <1>2, <1>3 DEF Delivery, SentInOrder
  <2> QED  BY <1>4, <2>1 DEF Incoming
<1>6. RunIsOver /\ InOrder(outbox)
  <2>1. RunIsOver
    BY <1>3 DEF Unbroken, RunIsOver, IInv, TypeOK, Lifetimes
  <2> QED  BY <2>1 DEF Conversation, OutboxOrder
<1>7. m.kind \in {"Diagnostic", "File", "DebugString", "Exit"}
  BY <1>3, <1>4, <1>6 DEF InOrder
<1>8. \A k \in 1..written : Acted(k)' <=> (Acted(k) \/ k = k0)
  BY <1>1, <1>2, <1>3 DEF Acted
<1>9. ~Acted(k0) /\ \A k \in 1..written : Acted(k) <=> k < k0
  BY <1>2, <1>3 DEF Acted
<1>10. SentInOrder'
  BY <1>1, <1>3 DEF Delivery, SentInOrder, Unbroken
<1>11. OutputHolds'
  <2> SUFFICES ASSUME DryRun  PROVE OutputHolds'
    BY DEF OutputHolds
  <2>1. CASE IsOutput(m)
    <3>1. output' = Append(output, m)
      BY <1>3, <1>5, <2>1, ClientActs DEF Collect
    <3>2. Len(output) + 1 = k0
      <4>1. Len(output) <= written /\ ~(k0 <= Len(output))
        BY <1>3, <1>9 DEF Delivery, OutputHolds
      <4>2. ASSUME k0 > 1  PROVE k0 - 1 <= Len(output)
        <5>1. k0 - 1 \in 1..written /\ k0 - 1 < k0
          BY <1>3, <4>2
        <5>2. IsOutput(outbox[k0 - 1])
          BY <1>3, <1>4, <1>6, <2>1, <5>1 DEF InOrder
        <5> QED  BY <1>9, <5>1, <5>2 DEF Delivery, OutputHolds
      <4> QED  BY <1>3, <4>1, <4>2
    <3>3. Len(output') = k0 /\ \A k \in 1..k0 : output'[k] = outbox[k]
      BY <1>3, <1>4, <3>1, <3>2 DEF Delivery, OutputHolds
    <3>4. ASSUME NEW k \in 1..written  PROVE (IsOutput(outbox[k]) /\ Acted(k)') <=> k <= k0
      <4>1. CASE k = k0
        BY <1>3, <1>4, <1>8, <2>1, <4>1
      <4>2. CASE k # k0
        <5>1. (IsOutput(outbox[k]) /\ Acted(k)) <=> k <= Len(output)
          BY DEF Delivery, OutputHolds
        <5> QED  BY <1>3, <1>8, <3>2, <4>2, <5>1
      <4> QED  BY <4>1, <4>2
    <3> QED  BY <1>1, <1>3, <3>3, <3>4 DEF OutputHolds
  <2>2. CASE ~IsOutput(m)
    <3>1. output' = output
      BY <1>3, <1>5, <2>2, ClientActs
    <3>2. \A k \in 1..written : (IsOutput(outbox[k]) /\ Acted(k)') <=> (IsOutput(outbox[k]) /\ Acted(k))
      BY <1>4, <1>8, <2>2
    <3> QED  BY <1>1, <3>1, <3>2 DEF Delivery, OutputHolds
  <2> QED  BY <2>1, <2>2
<1>12. DiskHolds'
  <2> SUFFICES ASSUME ~DryRun, NEW k \in 1..written, Acted(k)', outbox[k].kind = "File"
               PROVE  disk'[outbox[k].file.path] = outbox[k].file.contents
    BY <1>1 DEF DiskHolds
  <2>1. outbox[k] \in FromEngine /\ outbox[k].file \in File
    <3>1. outbox[k] \in FromEngine
      BY <1>3
    <3> QED  BY <3>1 DEF FromEngine, PlainKind, RequestKind
  <2>2. disk \in [Path -> Contents \cup {Absent}] /\ outbox[k].file.path \in Path
    BY <2>1 DEF IInv, TypeOK, RunTypeOK, File
  <2>3. disk' = IF m.kind = "File" THEN Written(m.file) ELSE disk
    BY <1>3, <1>5, ClientActs
  <2>4. CASE k = k0
    BY <1>4, <2>2, <2>3, <2>4 DEF Written
  <2>5. CASE k # k0
    <3>1. disk[outbox[k].file.path] = outbox[k].file.contents
      BY <1>8, <2>5 DEF Delivery, DiskHolds
    <3>2. m.kind = "File" => m.file.path # outbox[k].file.path
      BY <1>3, <1>4, <1>6, <2>5 DEF InOrder
    <3> QED  BY <2>2, <2>3, <3>1, <3>2 DEF Written
  <2> QED  BY <2>4, <2>5
<1>13. k0 \in 1..Len(state) <=> m.kind = "Diagnostic"
  <2>1. k0 \in 1..Len(outbox) /\ Len(outbox) \in Nat
    BY <1>3
  <2>2. CASE k0 <= Len(state)
    <3>1. k0 \in 1..Len(state)
      BY <1>3, <2>2
    <3>2. m = DiagnosticMsg(state[k0])
      BY <1>4, <1>6, <3>1 DEF IInv, OutboxHolds
    <3> QED  BY <3>1, <3>2 DEF DiagnosticMsg
  <2>3. CASE k0 > Len(state)
    BY <1>3, <1>4, <1>6, <2>1, <2>3 DEF IInv, OutboxHolds
  <2> QED  BY <1>3, <2>2, <2>3
<1>14. \A i : Counted(i)' = Counted(i) \cup (IF m.kind = "Diagnostic" /\ Owner[m.diag] = i THEN {k0} ELSE {})
  <2>1. m.kind = "Diagnostic" => m.diag = state[k0]
    <3> SUFFICES ASSUME m.kind = "Diagnostic"  PROVE m.diag = state[k0]
      OBVIOUS
    <3>1. m = DiagnosticMsg(state[k0])
      BY <1>4, <1>6, <1>13 DEF IInv, OutboxHolds
    <3> QED  BY <3>1 DEF DiagnosticMsg
  <2>2. \A k \in 1..Len(state) : Acted(k)' <=> (Acted(k) \/ k = k0)
    BY <1>1, <1>2, <1>3 DEF Acted
  <2> QED  BY <1>1, <1>13, <2>1, <2>2 DEF Counted
<1>15. \A i : IsFiniteSet(Counted(i)) /\ k0 \notin Counted(i)
  <2>1. IsFiniteSet(1..Len(state))
    BY <1>3, FS_Interval
  <2>2. \A i : Counted(i) \in SUBSET (1..Len(state))
    BY DEF Counted
  <2>3. \A i : IsFiniteSet(Counted(i))
    BY <2>1, <2>2, FS_Subset
  <2> QED  BY <1>9, <2>3 DEF Counted
<1>16. CountsHold'
  <2>1. CASE m.kind = "Diagnostic"
    <3>1. errorsPerItem' = Bump(errorsPerItem, Owner[m.diag]) /\ Owner[m.diag] \in Item \cup {NoOwner}
      <4>1. m.diag \in Diag
        BY <2>1 DEF FromEngine, PlainKind, RequestKind
      <4> QED  BY <1>3, <1>5, <2>1, <4>1, ClientActs, OwnerAssumption
    <3> SUFFICES ASSUME NEW i \in Item
                 PROVE  IF i \in DOMAIN errorsPerItem' THEN errorsPerItem'[i] = Cardinality(Counted(i)')
                        ELSE Counted(i)' = {}
      BY DEF CountsHold
    <3>2. IF i \in DOMAIN errorsPerItem THEN errorsPerItem[i] = Cardinality(Counted(i)) ELSE Counted(i) = {}
      BY DEF Delivery, CountsHold
    <3>3. CASE i = Owner[m.diag]
      <4>1. Counted(i)' = Counted(i) \cup {k0}
        BY <1>14, <2>1, <3>3
      <4>2. Cardinality(Counted(i)') = Cardinality(Counted(i)) + 1
        BY <1>15, <4>1, FS_AddElement
      <4>3. Cardinality(Counted(i)) = IF i \in DOMAIN errorsPerItem THEN errorsPerItem[i] ELSE 0
        BY <3>2, FS_EmptySet
      <4>4. /\ i \in DOMAIN errorsPerItem'
            /\ errorsPerItem'[i] = (IF i \in DOMAIN errorsPerItem THEN errorsPerItem[i] ELSE 0) + 1
        BY <3>1, <3>3, BumpCounts
      <4> QED  BY <4>2, <4>3, <4>4
    <3>4. CASE i # Owner[m.diag]
      <4>1. Counted(i)' = Counted(i)
        BY <1>14, <3>4
      <4> QED  BY <3>1, <3>2, <3>4, <4>1, BumpCounts
    <3> QED  BY <3>3, <3>4
  <2>2. CASE m.kind # "Diagnostic"
    <3>1. errorsPerItem' = errorsPerItem
      BY <1>3, <1>5, <1>7, <2>2, ClientActs
    <3>2. \A i : Counted(i)' = Counted(i)
      BY <1>14, <2>2
    <3> QED  BY <1>1, <3>1, <3>2 DEF Delivery, CountsHold, Unbroken
  <2> QED  BY <2>1, <2>2
<1> QED  BY <1>10, <1>11, <1>12, <1>16 DEF Delivery

LEMMA ClientDelivery ==
  ASSUME IInv, Conversation, Delivery, Client \/ KillClient
  PROVE  Delivery'
<1>1. UNCHANGED <<fromEngine, written, outbox, state, exitCode, epc>>
  BY ClientFrame
<1>2. CASE ~Unbroken
  BY <1>1, <1>2 DEF Unbroken, Delivery, SentInOrder, OutputHolds, DiskHolds, CountsHold
<1>3. CASE UNCHANGED <<cread, output, disk, errorsPerItem>>
  <2>1. Base' = Base /\ (Unbroken' <=> Unbroken)
    BY <1>1 DEF Base, Unbroken
  <2>2. \A k : Acted(k)' <=> Acted(k)
    BY <1>3, <2>1 DEF Acted
  <2>3. \A i : Counted(i)' = Counted(i)
    BY <1>1, <2>2 DEF Counted
  <2>4. SentInOrder'
    BY <1>1, <2>1 DEF Delivery, SentInOrder
  <2>5. OutputHolds'
    BY <1>1, <1>3, <2>1, <2>2 DEF Delivery, OutputHolds
  <2>6. DiskHolds'
    BY <1>1, <1>3, <2>1, <2>2 DEF Delivery, DiskHolds
  <2>7. CountsHold'
    BY <1>3, <2>1, <2>3 DEF Delivery, CountsHold
  <2> QED  BY <2>4, <2>5, <2>6, <2>7 DEF Delivery
<1>4. CASE Unbroken /\ cread < Len(fromEngine) /\ cread' = cread + 1
  BY <1>4, ReadBefore, ReadOutbox
<1> QED  BY <1>2, <1>3, <1>4, ClientActs

\* The engine has written nothing of its outbox, before or after the step.
LEMMA WorkDelivery ==
  ASSUME IInv, IInv', Delivery, Unbroken, written = 0, written' = 0,
         UNCHANGED <<cread, output, disk, errorsPerItem>>,
         \/ fromEngine' = fromEngine
         \/ \E m \in FromEngine : ~IsOutput(m) /\ fromEngine' = Append(fromEngine, m)
  PROVE  Delivery'
<1>1. Base = Len(fromEngine) /\ Base' = Len(fromEngine') /\ \A i : Counted(i) = {} /\ Counted(i)' = {}
  <2>1. (cread \in 0..Len(fromEngine) /\ Len(fromEngine) \in Nat)'
    BY PipeTypes, PTL
  <2>2. state' \in Seq(Diag)
    BY DEF IInv, TypeOK
  <2>3. Len(state') \in Nat
    BY <2>2
  <2> QED  BY <2>1, <2>3, NothingWritten DEF Base, Acted, Counted
<1>2. \A j \in 1..Len(fromEngine') : ~IsOutput(fromEngine'[j])
  <2>1. \A j \in 1..Len(fromEngine) : ~IsOutput(fromEngine[j])
    BY <1>1 DEF Delivery, SentInOrder
  <2>2. CASE fromEngine' = fromEngine
    BY <2>1, <2>2
  <2>3. ASSUME NEW m \in FromEngine, ~IsOutput(m), fromEngine' = Append(fromEngine, m)
        PROVE  \A j \in 1..Len(fromEngine') : ~IsOutput(fromEngine'[j])
    <3>1. \A j \in 1..Len(fromEngine') : fromEngine'[j] = m \/ (j \in 1..Len(fromEngine) /\ fromEngine'[j] = fromEngine[j])
      BY <2>3, PipeTypes
    <3> QED  BY <2>1, <2>3, <3>1
  <2> QED  BY <2>2, <2>3
<1>3. SentInOrder'
  <2>1. Len(fromEngine') \in Nat
    BY DEF IInv, TypeOK, RunTypeOK
  <2> QED  BY <1>1, <1>2, <2>1 DEF SentInOrder
<1>4. OutputHolds'
  <2>1. output \in Seq(FromEngine)
    BY DEF IInv, TypeOK, RunTypeOK
  <2>2. DryRun => Len(output) <= 0
    BY DEF Delivery, OutputHolds
  <2> QED  BY <2>1, <2>2 DEF OutputHolds
<1>5. DiskHolds'
  BY DEF DiskHolds
<1>6. CountsHold'
  BY <1>1 DEF Delivery, CountsHold
<1> QED  BY <1>3, <1>4, <1>5, <1>6 DEF Delivery

LEMMA FlushDelivery ==
  ASSUME IInv, IInv', Delivery, Flush
  PROVE  Delivery'
<1>1. /\ Unbroken /\ written' = written + 1 /\ UNCHANGED <<outbox, state, cread, output, disk, errorsPerItem>>
      /\ fromEngine' = Append(fromEngine, outbox[written + 1])
  BY DEF Flush, Put, clientVars, Unbroken
<1>2. /\ written \in Nat /\ Len(fromEngine') = Len(fromEngine) + 1 /\ Len(state) \in Nat
      /\ \A j \in 1..Len(fromEngine) : fromEngine'[j] = fromEngine[j]
      /\ fromEngine'[Len(fromEngine) + 1] = outbox[written + 1]
  BY <1>1, PipeTypes DEF IInv, TypeOK
<1>3. Base' = Base /\ Base \in Int /\ ~Acted(written + 1) /\ Len(fromEngine) = Base + written
  <2>1. cread \in Int /\ cread <= Len(fromEngine) /\ Len(fromEngine) \in Nat /\ Len(fromEngine') = Len(fromEngine) + 1
    BY <1>2, PipeTypes
  <2>2. written \in Nat /\ written' = written + 1
    BY <1>1, <1>2
  <2>3. Base' = Base /\ Base \in Int /\ Len(fromEngine) = Base + written
    BY <2>1, <2>2 DEF Base
  <2>4. ~(written + 1 <= cread - Base)
    BY <2>1, <2>2, <2>3
  <2> QED  BY <2>3, <2>4 DEF Acted
<1>4. \A k : Acted(k)' <=> Acted(k)
  BY <1>1, <1>3 DEF Acted
<1>5. SentInOrder'
  <2>1. Base >= 0 /\ \A j \in 1..Base : j \in 1..Len(fromEngine) /\ ~IsOutput(fromEngine[j])
    BY <1>1, <1>2, <1>3, PipeTypes DEF Delivery, SentInOrder
  <2>2. ASSUME NEW k \in 1..written + 1  PROVE fromEngine'[Base + k] = outbox[k]
    <3>1. CASE k \in 1..written
      <4>1. Base + k \in 1..Len(fromEngine) /\ fromEngine[Base + k] = outbox[k]
        BY <1>1, <1>2, <1>3, <2>1, <3>1 DEF Delivery, SentInOrder
      <4> QED  BY <1>2, <4>1
    <3>2. CASE k = written + 1
      <4>1. Base + k = Len(fromEngine) + 1
        BY <1>2, <1>3, <3>2
      <4> QED  BY <1>2, <3>2, <4>1
    <3> QED  BY <1>2, <2>2, <3>1, <3>2
  <2>3. written + 1 <= Len(fromEngine')
    BY <1>2, <1>3, <2>1
  <2>4. \A j \in 1..Base : ~IsOutput(fromEngine'[j])
    BY <1>2, <2>1
  <2> QED  BY <1>1, <1>3, <2>2, <2>3, <2>4 DEF SentInOrder
<1>6. \A k \in 1..written' : k \in 1..written \/ (k = written + 1 /\ ~Acted(k))
  BY <1>1, <1>2, <1>3
<1>7. OutputHolds'
  <2> SUFFICES ASSUME DryRun  PROVE OutputHolds'
    BY DEF OutputHolds
  <2>1. output \in Seq(FromEngine) /\ Len(output) <= written
    BY <1>1 DEF IInv, TypeOK, RunTypeOK, Delivery, OutputHolds
  <2>2. Len(output) <= written + 1 /\ ~(written + 1 <= Len(output))
    BY <1>2, <2>1
  <2>3. ASSUME NEW k \in 1..written'  PROVE (IsOutput(outbox[k]) /\ Acted(k)) <=> k <= Len(output)
    BY <1>1, <1>6, <2>2 DEF Delivery, OutputHolds
  <2> QED  BY <1>1, <1>4, <2>2, <2>3 DEF Delivery, OutputHolds
<1>8. DiskHolds'
  BY <1>1, <1>4, <1>6 DEF Delivery, DiskHolds
<1>9. CountsHold'
  <2>1. \A i : Counted(i)' = Counted(i)
    BY <1>1, <1>4 DEF Counted
  <2> QED  BY <1>1, <2>1 DEF Delivery, CountsHold
<1> QED  BY <1>5, <1>7, <1>8, <1>9 DEF Delivery

THEOREM DeliveryInvariance == Spec => []Delivery
<1>1. Init => Delivery
  <2> SUFFICES ASSUME Init  PROVE Delivery
    OBVIOUS
  <2>1. IInv /\ written = 0 /\ fromEngine = << >> /\ output = << >>
    BY InitIInv DEF Init, RunInit
  <2>2. Base = 0 /\ \A i : Counted(i) = {}
    BY <2>1, NothingWritten
  <2> QED  BY <2>1, <2>2 DEF Delivery, SentInOrder, OutputHolds, DiskHolds, CountsHold, Init, RunInit
<1>2. IInv /\ IInv' /\ Conversation /\ Delivery /\ [Next]_vars => Delivery'
  <2> SUFFICES ASSUME IInv, IInv', Conversation, Delivery, [Next]_vars  PROVE Delivery'
    OBVIOUS
  <2>1. CASE UNCHANGED vars
    BY <2>1 DEF vars, runVars, engineVars, clientVars, pipeVars, Delivery, SentInOrder, OutputHolds, DiskHolds,
       CountsHold, Unbroken, Base, Acted, Counted
  <2>2. CASE Client \/ KillClient
    BY <2>2, ClientDelivery
  <2>3. CASE Flush
    BY <2>3, FlushDelivery
  <2>4. CASE ~Unbroken'
    BY <2>4 DEF Delivery, SentInOrder, OutputHolds, DiskHolds, CountsHold
  <2>5. CASE Close
    <3>1. /\ Unbroken /\ Unbroken'
          /\ UNCHANGED <<cread, output, disk, errorsPerItem, fromEngine, written, outbox, state>>
      BY <2>5 DEF Close, ExitWith, clientVars, Unbroken
    <3> QED  BY <3>1 DEF Delivery, SentInOrder, OutputHolds, DiskHolds, CountsHold, Base, Acted, Counted
  <2>6. CASE Die \/ Kill \/ KillWriting \/ WrongVersion \/ ReadEof \/ BrokenPipe \/ RaiseException
    BY <2>4, <2>6 DEF Die, Kill, ExitWith, KillWriting, WrongVersion, ReadEof, BrokenPipe, RaiseException,
       Put, Get, Unbroken, IInv, Lifetimes, Running, runVars, pipeVars
  <2>7. CASE ParseOptions \/ ReadReply \/ ReportDiagnostic \/ FinishRun \/ RaiseFatalError
    <3>1. /\ UNCHANGED <<cread, output, disk, errorsPerItem, fromEngine, written>>
          /\ Unbroken /\ written = 0
      BY <2>7 DEF ParseOptions, ReadReply, ReportDiagnostic, FinishRun, RaiseFatalError, Working, Get, runVars,
         clientVars, pipeVars, IInv, Lifetimes, Unbroken
    <3> QED  BY <3>1, WorkDelivery
  <2>8. CASE ImportThirItems \/ Profile \/ Request \/ DebugPrint
    <3>1. /\ UNCHANGED <<cread, output, disk, errorsPerItem, written>>
          /\ Unbroken /\ written = 0
          /\ \/ \E items \in SUBSET Item : fromEngine' = Append(fromEngine, ItemProcessedMsg(items))
             \/ \E k \in PlainKind : fromEngine' = Append(fromEngine, Plain(k))
      BY <2>8 DEF ImportThirItems, Profile, Request, DebugPrint, Talk, Working, Put, PlainKind,
         clientVars, IInv, Lifetimes, Unbroken
    <3>2. \E m \in FromEngine : ~IsOutput(m) /\ fromEngine' = Append(fromEngine, m)
      BY <3>1, MessageTypes DEF IsOutput, Plain, ItemProcessedMsg, PlainKind, RequestKind
    <3> QED  BY <3>1, <3>2, WorkDelivery
  <2> QED  BY <2>1, <2>2, <2>3, <2>5, <2>6, <2>7, <2>8 DEF Next, EngineStep, Fault, Terminated
<1> QED
  BY Invariance, ConversationInvariance, <1>1, <1>2, PTL DEF Spec

\* What has been acted upon when run_engine returns: everything.
LEMMA ReturnedMeansAll ==
  ASSUME IInv, result = "returned"
  PROVE  /\ Unbroken /\ RunIsOver /\ written = Len(outbox)
         /\ Len(state) \in Nat /\ Len(outbox) \in Nat /\ Len(outbox) > Len(state)
         /\ \A k \in 1..Len(outbox) : Acted(k)
<1>1. exitCode = 0 /\ cread = Len(fromEngine) /\ epc = "dead"
  BY DEF IInv, Lifetimes, AllIsRead, Running
<1>2. written = Len(outbox) /\ Len(outbox) > Len(state)
  BY <1>1 DEF IInv, OutboxHolds, RunIsOver
<1>3. Len(state) \in Nat /\ Len(outbox) \in Nat
  BY DEF IInv, TypeOK
<1> QED  BY <1>1, <1>2, <1>3, PipeTypes DEF Unbroken, RunIsOver, Acted, Base

(***************************************************************************)
(* When run_engine returns, the output directory holds every file the      *)
(* engine printed, or the dry run lists its diagnostics and files, all of  *)
(* them and in its order.                                                  *)
(***************************************************************************)
THEOREM FilesAreDelivered == Spec => []FilesDelivered
<1>1. IInv /\ Delivery => FilesDelivered
  <2> SUFFICES ASSUME IInv, Delivery, result = "returned"
               PROVE  IF DryRun
                      THEN IsPrefix(output, outbox) /\ \A k \in DOMAIN outbox : IsOutput(outbox[k]) <=> k <= Len(output)
                      ELSE \A k \in DOMAIN outbox :
                             outbox[k].kind = "File" => disk[outbox[k].file.path] = outbox[k].file.contents
    BY DEF FilesDelivered
  <2>1. outbox \in Seq(FromEngine) /\ output \in Seq(FromEngine) /\ DOMAIN outbox = 1..Len(outbox)
    BY DEF IInv, TypeOK, RunTypeOK
  <2>2. CASE DryRun
    <3>1. /\ Len(output) <= Len(outbox)
          /\ \A k \in 1..Len(outbox) : IsOutput(outbox[k]) <=> k <= Len(output)
          /\ \A k \in 1..Len(output) : output[k] = outbox[k]
      BY <2>2, ReturnedMeansAll DEF Delivery, OutputHolds
    <3>2. IsPrefix(output, outbox)
      BY <2>1, <3>1 DEF IsPrefix
    <3> QED  BY <2>1, <2>2, <3>1, <3>2
  <2>3. CASE ~DryRun
    BY <2>1, <2>3, ReturnedMeansAll DEF Delivery, DiskHolds
  <2> QED  BY <2>2, <2>3
<1> QED  BY Invariance, DeliveryInvariance, <1>1, PTL

(***************************************************************************)
(* The statistics of a run that returned count exactly the diagnostics     *)
(* that the engine reported for each item.                                 *)
(***************************************************************************)
THEOREM StatsAreExact == Spec => []StatsExact
<1>1. IInv /\ Delivery => StatsExact
  <2> SUFFICES ASSUME IInv, Delivery, result = "returned", NEW i \in Item
               PROVE  IF i \in DOMAIN errorsPerItem THEN errorsPerItem[i] = Cardinality(OwnErrors(i))
                      ELSE OwnErrors(i) = {}
    BY DEF StatsExact
  <2>1. \A k \in 1..Len(state) : Acted(k)
    BY ReturnedMeansAll
  <2>2. DOMAIN state = 1..Len(state)
    BY DEF IInv, TypeOK
  <2>3. Counted(i) = OwnErrors(i)
    BY <2>1, <2>2 DEF Counted, OwnErrors
  <2> QED  BY <2>3, ReturnedMeansAll DEF Delivery, CountsHold
<1> QED  BY Invariance, DeliveryInvariance, <1>1, PTL
=============================================================================
