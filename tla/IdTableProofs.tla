---------------------------- MODULE IdTableProofs ----------------------------
(***************************************************************************)
(* Proofs about the table of ids, for every set of types, any number of    *)
(* crates and of nodes, and every command.                                 *)
(***************************************************************************)
EXTENDS IdTable, FiniteSetTheorems, FunctionTheorems, SequenceTheorems, TLAPS

(***************************************************************************)
(* Tables whose ids are the first N numbers and whose values only hold     *)
(* nodes of smaller ids, with the values the table has for these.          *)
(***************************************************************************)
IsValue(v) == v = [type |-> v.type, data |-> v.data, sub |-> v.sub] /\ v.type \in Type

NodeOf(n, table) == n.id \in DOMAIN table /\ n = Node(n.id, table[n.id])

TableOf(table, N) ==
  /\ table = [i \in 0..(N - 1) |-> table[i]]
  /\ \A i \in 0..(N - 1) : IsValue(table[i]) /\ \A n \in table[i].sub : NodeOf(n, table) /\ n.id < i

IsDocument(d) == (\E N \in Nat : TableOf(d.table, N)) /\ \A n \in d.root : NodeOf(n, d.table)

\* Nodes written as their ids.
AsIds(S) == {Repr(n, TRUE) : n \in S}

\* What of a table is read when the first k pairs are.
Part(table, k) == [i \in {SortedIds(table)[j] : j \in 1..k} |-> table[i]]

-----------------------------------------------------------------------------
(***************************************************************************)
(* Nodes and their representations.                                        *)
(***************************************************************************)
LEMMA ValueIsNotNone ==
  ASSUME NEW v, IsValue(v)
  PROVE  v # None
<1>1. DOMAIN v = {"type", "data", "sub"}
  BY DEF IsValue
<1>2. DOMAIN None = {"none"}
  BY DEF None
<1> QED
  BY <1>1, <1>2

LEMMA NodeFacts ==
  ASSUME NEW T, NEW N \in Nat, TableOf(T, N), NEW n, NodeOf(n, T)
  PROVE  /\ n.id \in 0..(N - 1) /\ n.value = T[n.id] /\ n.type = T[n.id].type /\ n.value # None
         /\ Repr(n, FALSE) = n
         /\ Repr(n, TRUE).id = n.id /\ Repr(n, TRUE).type = n.type /\ Repr(n, TRUE).value = None
         /\ [Repr(n, TRUE) EXCEPT !.value = T[n.id]] = n
<1>1. n.id \in DOMAIN T /\ n = [id |-> n.id, type |-> T[n.id].type, value |-> T[n.id]]
  BY DEF NodeOf, Node
<1>2. DOMAIN T = 0..(N - 1)
  BY DEF TableOf
<1>3. IsValue(T[n.id])
  BY <1>1, <1>2 DEF TableOf
<1>4. n.value = T[n.id] /\ n.type = T[n.id].type
  BY <1>1
<1>5. PICK i, t, v : i = n.id /\ t = T[n.id].type /\ v = T[n.id] /\ n = [id |-> i, type |-> t, value |-> v]
  BY <1>1
<1>6. Repr(n, TRUE) = [id |-> i, type |-> t, value |-> None] /\ Repr(n, FALSE) = n
  BY <1>5 DEF Repr
<1>7. n.value # None
  BY <1>3, <1>4, ValueIsNotNone
<1>8. PICK r : r = Repr(n, TRUE)
  OBVIOUS
<1>9. r.id = n.id /\ r.type = n.type /\ r.value = None /\ [r EXCEPT !.value = v] = n
  <2>1. r = [id |-> i, type |-> t, value |-> None]
    BY <1>6, <1>8
  <2>2. r.id = i /\ r.type = t /\ r.value = None /\ [r EXCEPT !.value = v] = [id |-> i, type |-> t, value |-> v]
    BY <2>1
  <2> QED  BY <1>4, <1>5, <2>2
<1> QED
  BY <1>1, <1>2, <1>4, <1>5, <1>6, <1>7, <1>8, <1>9

\* The ids of a table are all in the order of reading, and each of them once.
LEMMA SortedIdsFacts ==
  ASSUME NEW T, NEW N \in Nat, DOMAIN T = 0..(N - 1)
  PROVE  /\ SortedIds(T) \in [1..N -> 0..(N - 1)]
         /\ \A i, j \in 1..N : i < j => SortedIds(T)[i] < SortedIds(T)[j]
         /\ \A i \in 0..(N - 1) : \E j \in 1..N : SortedIds(T)[j] = i
<1> DEFINE S == 1..N
           D == 0..(N - 1)
           s == SortedIds(T)
<1>1. IsFiniteSet(D) /\ Cardinality(D) = N /\ IsFiniteSet(S) /\ Cardinality(S) = N
  BY FS_Interval
<1>2. s \in [S -> D] /\ \A i, j \in S : i < j => s[i] < s[j]
  <2>1. [k \in S |-> k - 1] \in [S -> D]
    OBVIOUS
  <2>2. \A i, j \in DOMAIN [k \in S |-> k - 1] : i < j => [k \in S |-> k - 1][i] < [k \in S |-> k - 1][j]
    OBVIOUS
  <2>3. \E f \in [S -> D] : \A i, j \in DOMAIN f : i < j => f[i] < f[j]
    BY <2>1, <2>2
  <2>4. s = CHOOSE f \in [S -> D] : \A i, j \in DOMAIN f : i < j => f[i] < f[j]
    BY <1>1 DEF SortedIds
  <2>5. s \in [S -> D] /\ \A i, j \in DOMAIN s : i < j => s[i] < s[j]
    <3> HIDE DEF s, S, D
    <3> QED  BY <2>3, <2>4
  <2> QED  BY <2>5
<1>3. \A i, j \in S : s[i] = s[j] => i = j
  BY <1>2
<1>4. \A i \in D : \E j \in S : s[j] = i
  <2> HIDE DEF s, S, D
  <2>1. s \in Injection(S, D)
    BY <1>2, <1>3 DEF Injection, IsInjective
  <2>2. s \in Bijection(S, D)
    BY <1>1, <2>1, FS_Injection, Fun_IsBij
  <2> QED  BY <2>2 DEF Bijection, Surjection
<1> QED
  BY <1>2, <1>4

LEMMA PairsFacts ==
  ASSUME NEW T, NEW N \in Nat, TableOf(T, N)
  PROVE  /\ Len(Pairs(T)) = N /\ DOMAIN Pairs(T) = 1..N
         /\ \A k \in 1..N : Pairs(T)[k] = [id |-> SortedIds(T)[k], value |-> ReprValue(T[SortedIds(T)[k]], TRUE)]
<1>1. DOMAIN SortedIds(T) = 1..N
  <2>1. DOMAIN T = 0..(N - 1)
    BY DEF TableOf
  <2> QED  BY <2>1, SortedIdsFacts
<1>2. Pairs(T) = [k \in 1..N |-> [id |-> SortedIds(T)[k], value |-> ReprValue(T[SortedIds(T)[k]], TRUE)]]
  BY <1>1 DEF Pairs
<1>3. Len(Pairs(T)) = N
  <2> DEFINE e(k) == [id |-> SortedIds(T)[k], value |-> ReprValue(T[SortedIds(T)[k]], TRUE)]
             P == [k \in 1..N |-> e(k)]
             R == {e(k) : k \in 1..N}
  <2> HIDE DEF e
  <2>1. P \in Seq(R)
    OBVIOUS
  <2>2. DOMAIN P = 1..N
    OBVIOUS
  <2>3. Len(P) = N
    <3> HIDE DEF P, R
    <3>1. Len(P) \in Nat /\ DOMAIN P = 1..Len(P)
      BY <2>1, LenProperties
    <3> QED  BY <2>2, <3>1
  <2> QED  BY <1>2, <2>3 DEF e
<1> QED
  BY <1>2, <1>3

\* What has been read of a table when a pair comes is all that this pair needs.
LEMMA PartFacts ==
  ASSUME NEW T, NEW N \in Nat, TableOf(T, N)
  PROVE  /\ Part(T, 0) = Empty /\ Part(T, N) = T
         /\ \A k \in 0..N : /\ DOMAIN Part(T, k) \in SUBSET (0..(N - 1))
                            /\ \A i \in DOMAIN Part(T, k) : Part(T, k)[i] = T[i]
         /\ \A k \in 0..(N - 1) :
              /\ SortedIds(T)[k + 1] \in 0..(N - 1)
              /\ \A i \in 0..(N - 1) : i < SortedIds(T)[k + 1] => i \in DOMAIN Part(T, k)
              /\ Part(T, k + 1) = Insert(Part(T, k), SortedIds(T)[k + 1], T[SortedIds(T)[k + 1]])
<1>1. PICK s : s = SortedIds(T)
  OBVIOUS
<1>2. /\ s \in [1..N -> 0..(N - 1)]
      /\ \A i, j \in 1..N : i < j => s[i] < s[j]
      /\ \A i \in 0..(N - 1) : \E j \in 1..N : s[j] = i
  <2>1. DOMAIN T = 0..(N - 1)
    BY DEF TableOf
  <2> QED  BY <1>1, <2>1, SortedIdsFacts
<1> DEFINE P(k) == {s[j] : j \in 1..k}
<1>3. \A k : Part(T, k) = [i \in P(k) |-> T[i]]
  BY <1>1 DEF Part
<1>4. P(0) = {} /\ P(N) = 0..(N - 1) /\ \A k \in 0..N : P(k) \in SUBSET (0..(N - 1))
  <2>1. P(0) = {}
    OBVIOUS
  <2>2. ASSUME NEW k \in 0..N  PROVE P(k) \in SUBSET (0..(N - 1))
    <3>1. \A j \in 1..k : j \in 1..N
      OBVIOUS
    <3> QED  BY <1>2, <3>1
  <2>3. 0..(N - 1) \subseteq P(N)
    BY <1>2
  <2>4. N \in 0..N
    OBVIOUS
  <2> HIDE DEF P
  <2> QED  BY <2>1, <2>2, <2>3, <2>4
<1>5. \A k \in 0..(N - 1) : P(k + 1) = P(k) \cup {s[k + 1]}
  <2> SUFFICES ASSUME NEW k \in 0..(N - 1)  PROVE P(k + 1) = P(k) \cup {s[k + 1]}
    OBVIOUS
  <2>1. 1..(k + 1) = (1..k) \cup {k + 1}
    OBVIOUS
  <2> QED  BY <2>1
<1>6. \A k \in 0..(N - 1) : s[k + 1] \in 0..(N - 1) /\ \A i \in 0..(N - 1) : i < s[k + 1] => i \in P(k)
  <2> SUFFICES ASSUME NEW k \in 0..(N - 1)
               PROVE  s[k + 1] \in 0..(N - 1) /\ \A i \in 0..(N - 1) : i < s[k + 1] => i \in P(k)
    OBVIOUS
  <2>1. k + 1 \in 1..N /\ s[k + 1] \in 0..(N - 1)
    BY <1>2
  <2>2. ASSUME NEW i \in 0..(N - 1), i < s[k + 1]  PROVE i \in P(k)
    <3>1. PICK j \in 1..N : s[j] = i
      BY <1>2
    <3>2. ~(k + 1 <= j)
      <4>1. k + 1 < j => s[k + 1] < i
        BY <1>2, <2>1, <3>1
      <4>2. k + 1 = j => s[k + 1] = i
        BY <3>1
      <4>3. s[k + 1] \in Int /\ i \in Int /\ k + 1 \in Int /\ j \in Int
        BY <2>1
      <4> QED  BY <2>2, <4>1, <4>2, <4>3
    <3>3. j \in 1..k
      BY <2>1, <3>2
    <3> QED  BY <3>1, <3>3
  <2> QED  BY <2>1, <2>2
<1> HIDE DEF P
<1>7. Part(T, 0) = Empty
  BY <1>3, <1>4 DEF Empty
<1>8. Part(T, N) = T
  BY <1>3, <1>4 DEF TableOf
<1>9. \A k \in 0..(N - 1) : Part(T, k + 1) = Insert(Part(T, k), s[k + 1], T[s[k + 1]])
  BY <1>3, <1>5 DEF Insert
<1>10. \A k \in 0..N : DOMAIN Part(T, k) = P(k) /\ \A i \in DOMAIN Part(T, k) : Part(T, k)[i] = T[i]
  BY <1>3
<1>11. \A k \in 0..(N - 1) : k \in 0..N
  OBVIOUS
<1> QED
  BY <1>1, <1>4, <1>6, <1>7, <1>8, <1>9, <1>10, <1>11

-----------------------------------------------------------------------------
(***************************************************************************)
(* Resolving ids.                                                          *)
(***************************************************************************)
Lookup(n, t) == IF n.value # None THEN n ELSE [n EXCEPT !.value = t[n.id]]
Known(n, t) == n.id \in DOMAIN t /\ t[n.id].type = n.type

\* Nodes written as ids are found in any part of their table that has these ids, and are then the same.
LEMMA IdsResolve ==
  ASSUME NEW T, NEW N \in Nat, TableOf(T, N), NEW t, \A i \in DOMAIN t : t[i] = T[i],
         NEW S, \A n \in S : NodeOf(n, T) /\ n.id \in DOMAIN t,
         NEW R, R = AsIds(S)
  PROVE  /\ \A r \in R : r.value = None /\ Known(r, t)
         /\ {Lookup(r, t) : r \in R} = S
<1>1. ASSUME NEW n \in S
      PROVE  /\ Repr(n, TRUE).value = None /\ Known(Repr(n, TRUE), t)
             /\ Lookup(Repr(n, TRUE), t) = n
  <2>1. PICK r : r = Repr(n, TRUE)
    OBVIOUS
  <2>2. r.value = None /\ r.id = n.id /\ r.type = n.type /\ n.type = T[n.id].type /\ [r EXCEPT !.value = T[n.id]] = n
    BY <2>1, NodeFacts
  <2>3. r.id \in DOMAIN t /\ t[r.id] = T[n.id]
    BY <2>2
  <2>4. Known(r, t)
    BY <2>2, <2>3 DEF Known
  <2>5. Lookup(r, t) = n
    BY <2>2, <2>3 DEF Lookup
  <2> QED  BY <2>1, <2>2, <2>4, <2>5
<1>2. \A r \in R : \E n \in S : r = Repr(n, TRUE)
  BY DEF AsIds
<1>3. \A n \in S : Repr(n, TRUE) \in R
  BY DEF AsIds
<1>4. \A r \in R : Lookup(r, t) \in S
  BY <1>1, <1>2
<1> QED  BY <1>1, <1>2, <1>3, <1>4

-----------------------------------------------------------------------------
(***************************************************************************)
(* Messages.                                                               *)
(***************************************************************************)
SelfContained(m) ==
  LET nodes == m.root \cup UNION {m.pairs[k].value.sub : k \in DOMAIN m.pairs}
  IN  /\ \A j, k \in DOMAIN m.pairs : m.pairs[j].id = m.pairs[k].id => j = k
      /\ \A n \in nodes : n.value = None =>
           \E k \in DOMAIN m.pairs : m.pairs[k].id = n.id /\ m.pairs[k].value.type = n.type

\* What the pairs of a table hold: each id with its value, the nodes in it written as ids.
LEMMA PairIs ==
  ASSUME NEW T, NEW N \in Nat, TableOf(T, N), NEW k \in 1..N, NEW i, i = SortedIds(T)[k]
  PROVE  /\ i \in 0..(N - 1) /\ Pairs(T)[k].id = i
         /\ Pairs(T)[k].value = [type |-> T[i].type, data |-> T[i].data, sub |-> AsIds(T[i].sub)]
<1>1. i \in 0..(N - 1)
  <2>1. DOMAIN T = 0..(N - 1)
    BY DEF TableOf
  <2> QED  BY <2>1, SortedIdsFacts
<1>2. PICK v : v = T[i]
  OBVIOUS
<1>3. v = [type |-> v.type, data |-> v.data, sub |-> v.sub]
  BY <1>1, <1>2 DEF TableOf, IsValue
<1>4. PICK R : R = AsIds(v.sub)
  OBVIOUS
<1>5. ReprValue(v, TRUE) = [type |-> v.type, data |-> v.data, sub |-> R]
  <2>1. ReprValue(v, TRUE) = [v EXCEPT !.sub = R]
    BY <1>4 DEF ReprValue, AsIds
  <2> QED  BY <1>3, <2>1
<1>6. PICK w : w = ReprValue(v, TRUE)
  OBVIOUS
<1>7. Pairs(T)[k].id = i /\ Pairs(T)[k].value = w
  <2>1. Pairs(T)[k] = [id |-> i, value |-> w]
    BY <1>2, <1>6, PairsFacts
  <2> QED  BY <2>1
<1> QED
  BY <1>1, <1>2, <1>4, <1>5, <1>6, <1>7

LEMMA PairHolds ==
  ASSUME NEW T, NEW N \in Nat, TableOf(T, N), NEW k \in 1..N, NEW i, i = SortedIds(T)[k]
  PROVE  /\ i \in 0..(N - 1) /\ Pairs(T)[k].id = i /\ Pairs(T)[k].value.type = T[i].type
         /\ Pairs(T)[k].value.sub = AsIds(T[i].sub)
<1>1. PICK v, w : v = Pairs(T)[k].value /\ w = [type |-> T[i].type, data |-> T[i].data, sub |-> AsIds(T[i].sub)]
  OBVIOUS
<1>2. i \in 0..(N - 1) /\ Pairs(T)[k].id = i /\ v = w
  BY <1>1, PairIs
<1>3. w.type = T[i].type /\ w.sub = AsIds(T[i].sub)
  BY <1>1
<1> QED
  BY <1>1, <1>2, <1>3

\* A document written with its table tells all.
LEMMA WithTableSelfContained ==
  ASSUME NEW T, NEW N \in Nat, TableOf(T, N), NEW root, \A n \in root : NodeOf(n, T),
         NEW m, m = WithTable(T, root)
  PROVE  SelfContained(m)
<1>1. PICK P : P = Pairs(T)
  OBVIOUS
<1>2. PICK s : s = SortedIds(T)
  OBVIOUS
<1>3. m.pairs = P /\ m.root = AsIds(root)
  BY <1>1 DEF WithTable, AsIds
<1>4. DOMAIN P = 1..N
  BY <1>1, PairsFacts
<1>5. /\ \A i, j \in 1..N : i < j => s[i] < s[j]
      /\ s \in [1..N -> 0..(N - 1)]
      /\ \A i \in 0..(N - 1) : \E j \in 1..N : s[j] = i
  <2>1. DOMAIN T = 0..(N - 1)
    BY DEF TableOf
  <2> QED  BY <1>2, <2>1, SortedIdsFacts
<1>6. \A k \in 1..N : /\ P[k].id = s[k] /\ P[k].value.type = T[s[k]].type
                      /\ P[k].value.sub = AsIds(T[s[k]].sub)
  <2> SUFFICES ASSUME NEW k \in 1..N
               PROVE  /\ P[k].id = s[k] /\ P[k].value.type = T[s[k]].type
                      /\ P[k].value.sub = AsIds(T[s[k]].sub)
    OBVIOUS
  <2> QED  BY <1>1, <1>2, PairHolds
<1>7. \A j, k \in DOMAIN P : P[j].id = P[k].id => j = k
  <2>1. ASSUME NEW j \in 1..N, NEW k \in 1..N, s[j] = s[k]  PROVE j = k
    <3>1. s[j] \in Int /\ s[k] \in Int
      BY <1>5
    <3>2. ~(j < k) /\ ~(k < j)
      BY <1>5, <2>1, <3>1
    <3> QED  BY <3>2
  <2>2. \A k \in 1..N : P[k].id = s[k]
    BY <1>6
  <2> QED  BY <1>4, <2>1, <2>2
<1>8. ASSUME NEW n, NodeOf(n, T)
      PROVE  \E k \in DOMAIN P : P[k].id = Repr(n, TRUE).id /\ P[k].value.type = Repr(n, TRUE).type
  <2>1. Repr(n, TRUE).id = n.id /\ Repr(n, TRUE).type = T[n.id].type /\ n.id \in 0..(N - 1)
    BY <1>8, NodeFacts
  <2>2. PICK k \in 1..N : s[k] = n.id
    BY <1>5, <2>1
  <2> QED  BY <1>4, <1>6, <2>1, <2>2
<1>9. ASSUME NEW x \in m.root \cup UNION {m.pairs[k].value.sub : k \in DOMAIN m.pairs}
      PROVE  \E k \in DOMAIN P : P[k].id = x.id /\ P[k].value.type = x.type
  <2>1. CASE x \in m.root
    <3>1. PICK n \in root : x = Repr(n, TRUE)
      BY <1>3, <2>1 DEF AsIds
    <3> QED  BY <1>8, <3>1
  <2>2. ASSUME NEW k \in 1..N, x \in P[k].value.sub
        PROVE  \E n : NodeOf(n, T) /\ x = Repr(n, TRUE)
    <3>1. PICK n \in T[s[k]].sub : x = Repr(n, TRUE)
      BY <1>6, <2>2 DEF AsIds
    <3>2. s[k] \in 0..(N - 1)
      BY <1>5
    <3>3. NodeOf(n, T)
      BY <3>2 DEF TableOf
    <3> QED  BY <3>1, <3>3
  <2>3. x \in m.root \/ \E k \in 1..N : x \in P[k].value.sub
    BY <1>3, <1>4
  <2> QED  BY <1>8, <2>1, <2>2, <2>3
<1> QED
  BY <1>3, <1>7, <1>9 DEF SelfContained

\* A document written without ids has no table and tells all.
LEMMA AloneSelfContained ==
  ASSUME NEW T, NEW N \in Nat, TableOf(T, N), NEW root, \A n \in root : NodeOf(n, T),
         NEW m, m = Alone(root, FALSE)
  PROVE  SelfContained(m)
<1>1. m.pairs = << >> /\ m.root = {Repr(n, FALSE) : n \in root}
  BY DEF Alone
<1>2. ASSUME NEW n \in root  PROVE Repr(n, FALSE).value # None
  <2>1. NodeOf(n, T)
    OBVIOUS
  <2>2. Repr(n, FALSE) = n /\ n.value # None
    BY <2>1, NodeFacts
  <2> QED  BY <2>2
<1>3. \A x \in m.root : x.value # None
  BY <1>1, <1>2
<1>4. DOMAIN m.pairs = {}
  <2>1. DOMAIN << >> = {}
    OBVIOUS
  <2> QED  BY <1>1, <2>1
<1> QED
  BY <1>3, <1>4 DEF SelfContained

-----------------------------------------------------------------------------
(***************************************************************************)
(* The inductive invariant.  No writing is under way between the steps; a  *)
(* session's nodes and table are of the ids given so far; each file is     *)
(* that of a document; a reader has a part of its document's table, and    *)
(* between two documents nothing; and the two properties about what is     *)
(* read and sent.                                                          *)
(***************************************************************************)
IsSeq(s) == \E S : s \in Seq(S)

Phases == {"export", "open", "read", "have", "asked", "end"}
NoState == [p \in Process |-> Empty]

Moments ==
  /\ command \in Commands /\ crate \in 1..Crates /\ proc \in Process /\ at \in Phases
  /\ useIds = [p \in Process |-> FALSE]

Sessions ==
  /\ session = [next |-> session.next, table |-> session.table]
  /\ session.next \in Nat /\ session.next <= MaxNodes[crate]
  /\ TableOf(session.table, session.next)
  /\ IsFiniteSet(held) /\ Cardinality(held) = session.next
  /\ \A n \in held : NodeOf(n, session.table)
  /\ at # "export" => session = NewSession /\ held = {}

Exported ==
  /\ IsSeq(original) /\ IsSeq(file) /\ Len(file) = Len(original)
  /\ Len(original) = IF at = "export" THEN crate - 1 ELSE Crates
  /\ \A c \in 1..Len(original) :
       IsDocument(original[c]) /\ file[c] = WithTable(original[c].table, original[c].root)

\* A message about a document is being read by the process.
ReadingOf(d) ==
  /\ kept \subseteq d.root
  /\ reading.pos \in 0..Len(Pairs(d.table))
  /\ reading = [msg |-> WithTable(d.table, kept), pos |-> reading.pos,
                table |-> Part(d.table, reading.pos), saved |-> Empty]
  /\ state = [NoState EXCEPT ![proc] = reading.table]

Readers ==
  /\ at = "read" => ReadingOf(original[crate])
  /\ at # "read" => reading = NotReading /\ state = NoState

IInv == Moments /\ Sessions /\ Exported /\ Readers /\ RoundTrip /\ MessagesSelfContained

-----------------------------------------------------------------------------
LEMMA AppendFacts ==
  ASSUME NEW s, IsSeq(s), NEW x, NEW t, t = Append(s, x)
  PROVE  /\ IsSeq(t) /\ Len(s) \in Nat /\ Len(t) = Len(s) + 1 /\ t[Len(s) + 1] = x
         /\ \A k \in 1..Len(s) : t[k] = s[k]
<1>1. PICK S : s \in Seq(S)
  BY DEF IsSeq
<1>2. PICK S2 : S2 = S \cup {x}
  OBVIOUS
<1>3. s \in Seq(S2) /\ x \in S2
  <2>1. S \subseteq S2
    BY <1>2
  <2> QED  BY <1>1, <1>2, <2>1
<1>4. t \in Seq(S2) /\ Len(s) \in Nat /\ Len(t) = Len(s) + 1 /\ t[Len(s) + 1] = x /\ \A k \in 1..Len(s) : t[k] = s[k]
  BY <1>3
<1> QED
  BY <1>4 DEF IsSeq

LEMMA EmptyTable == TableOf(Empty, 0) /\ DOMAIN Empty = {}
BY DEF TableOf, Empty

\* The table after one more node; what was in it stays.
LEMMA TableGrows ==
  ASSUME NEW T, NEW N \in Nat, TableOf(T, N),
         NEW v, IsValue(v), \A n \in v.sub : NodeOf(n, T), NEW U, U = Insert(T, N, v)
  PROVE  TableOf(U, N + 1) /\ NodeOf(Node(N, v), U) /\ \A n : NodeOf(n, T) => NodeOf(n, U)
<1>1. DOMAIN T = 0..(N - 1)
  BY DEF TableOf
<1>2. U = [i \in 0..N |-> IF i = N THEN v ELSE T[i]]
  <2>1. DOMAIN T \cup {N} = 0..N
    BY <1>1
  <2> QED  BY <2>1 DEF Insert
<1>3. DOMAIN U = 0..N /\ U[N] = v /\ \A i \in 0..(N - 1) : U[i] = T[i]
  BY <1>2
<1>4. ASSUME NEW n, NodeOf(n, T)  PROVE NodeOf(n, U) /\ n.id \in 0..(N - 1)
  BY <1>1, <1>3, <1>4 DEF NodeOf
<1>5. ASSUME NEW i \in 0..N
      PROVE  IsValue(U[i]) /\ \A n \in U[i].sub : NodeOf(n, U) /\ n.id < i
  <2>1. CASE i = N
    BY <1>3, <1>4, <2>1
  <2>2. CASE i # N
    <3>1. i \in 0..(N - 1) /\ U[i] = T[i]
      BY <1>3, <2>2
    <3>2. IsValue(T[i]) /\ \A n \in T[i].sub : NodeOf(n, T) /\ n.id < i
      BY <3>1 DEF TableOf
    <3> QED  BY <1>4, <3>1, <3>2
  <2> QED  BY <2>1, <2>2
<1>6. TableOf(U, N + 1)
  <2>1. 0..(N + 1 - 1) = 0..N
    OBVIOUS
  <2>2. U = [i \in 0..N |-> U[i]]
    BY <1>2
  <2> QED  BY <1>5, <2>1, <2>2 DEF TableOf
<1>7. NodeOf(Node(N, v), U)
  <2>1. Node(N, v).id = N
    BY DEF Node
  <2>2. N \in DOMAIN U
    BY <1>3
  <2> QED  BY <1>3, <2>1, <2>2 DEF NodeOf
<1> QED
  BY <1>4, <1>6, <1>7

LEMMA InitIInv == Init => IInv
<1> SUFFICES ASSUME Init  PROVE IInv
  OBVIOUS
<1>1. Moments
  BY BoundsAssumption DEF Init, Moments, Process, Phases
<1>2. Sessions
  <2>1. session = [next |-> 0, table |-> Empty] /\ held = {} /\ at = "export" /\ crate = 1
    BY DEF Init, NewSession
  <2>2. MaxNodes[1] \in Nat
    BY BoundsAssumption
  <2> QED  BY <2>1, <2>2, EmptyTable, FS_EmptySet DEF Sessions, NewSession
<1>3. Exported
  <2>1. IsSeq(<< >>)
    <3>1. << >> \in Seq({})
      OBVIOUS
    <3> QED  BY <3>1 DEF IsSeq
  <2> QED  BY <2>1 DEF Init, Exported
<1>4. Readers /\ RoundTrip /\ MessagesSelfContained
  BY DEF Init, Readers, RoundTrip, MessagesSelfContained, NoState
<1> QED
  BY <1>1, <1>2, <1>3, <1>4 DEF IInv

LEMMA NewStep ==
  ASSUME IInv, NEW type \in Type, NEW sub \in SUBSET held, New(type, sub)
  PROVE  IInv'
<1>1. PICK N, T : N = session.next /\ T = session.table
  OBVIOUS
<1>2. PICK v : v = [type |-> type, data |-> Cardinality(held), sub |-> sub]
  OBVIOUS
<1>3. PICK n0, U : n0 = Node(N, v) /\ U = Insert(T, N, v)
  OBVIOUS
<1>4. /\ session = [next |-> N, table |-> T] /\ N \in Nat /\ TableOf(T, N)
      /\ IsFiniteSet(held) /\ Cardinality(held) = N /\ \A n \in held : NodeOf(n, T)
  BY <1>1 DEF IInv, Sessions
<1>5. /\ at = "export" /\ Cardinality(held) < MaxNodes[crate]
      /\ session' = [FreshId(session) EXCEPT !.table = Insert(@, session.next, v)]
      /\ held' = held \cup {Node(session.next, v)}
      /\ UNCHANGED <<command, crate, at, proc, original, file, useIds, readVars, kept, wire>>
  BY <1>2 DEF New
<1>6. session' = [next |-> N + 1, table |-> U] /\ held' = held \cup {n0}
  <2>1. FreshId(session) = [next |-> N + 1, table |-> T]
    BY <1>4 DEF FreshId
  <2> QED  BY <1>1, <1>3, <1>5, <2>1
<1>7. IsValue(v) /\ \A n \in v.sub : NodeOf(n, T)
  <2>1. IsValue(v)
    BY <1>2 DEF IsValue
  <2>2. v.sub = sub
    BY <1>2
  <2> QED  BY <1>4, <2>1, <2>2
<1>8. TableOf(U, N + 1) /\ NodeOf(n0, U) /\ \A n : NodeOf(n, T) => NodeOf(n, U)
  BY <1>3, <1>4, <1>7, TableGrows
<1>9. n0 \notin held
  <2>1. ASSUME NEW n \in held  PROVE n.id \in 0..(N - 1)
    BY <1>4, NodeFacts
  <2>2. n0.id = N
    BY <1>3 DEF Node
  <2> QED  BY <1>4, <2>1, <2>2
<1>10. Sessions'
  <2>1. IsFiniteSet(held') /\ Cardinality(held') = N + 1
    BY <1>4, <1>6, <1>9, FS_AddElement
  <2>2. N + 1 \in Nat /\ N + 1 <= MaxNodes[crate]
    BY <1>4, <1>5, BoundsAssumption DEF IInv, Moments
  <2>3. \A n \in held' : NodeOf(n, U)
    BY <1>4, <1>6, <1>8
  <2>4. crate' = crate /\ at' = "export"
    BY <1>5
  <2>5. session'.next = N + 1 /\ session'.table = U /\ session' = [next |-> session'.next, table |-> session'.table]
    BY <1>6
  <2> QED  BY <1>8, <2>1, <2>2, <2>3, <2>4, <2>5 DEF Sessions
<1>11. Moments'
  BY <1>5 DEF IInv, Moments
<1>12. Exported'
  BY <1>5 DEF IInv, Exported
<1>13. Readers' /\ RoundTrip' /\ MessagesSelfContained'
  <2>1. Readers'
    BY <1>5 DEF IInv, Readers, readVars
  <2>2. RoundTrip'
    BY <1>5 DEF RoundTrip
  <2>3. MessagesSelfContained'
    BY <1>5 DEF IInv, MessagesSelfContained
  <2> QED  BY <2>1, <2>2, <2>3
<1> QED
  BY <1>10, <1>11, <1>12, <1>13 DEF IInv

LEMMA ExportStep ==
  ASSUME IInv, NEW root \in SUBSET held, Export(root)
  PROVE  IInv'
<1>1. PICK d : d = [table |-> session.table, root |-> root]
  OBVIOUS
<1>2. PICK f : f = WithTable(session.table, root)
  OBVIOUS
<1>3. /\ at = "export" /\ original' = Append(original, d) /\ file' = Append(file, f)
      /\ session' = NewSession /\ held' = {}
      /\ IF crate < Crates THEN crate' = crate + 1 /\ at' = at ELSE crate' = 1 /\ at' = "open"
      /\ UNCHANGED <<command, proc, useIds, readVars, kept, wire>>
  BY <1>1, <1>2 DEF Export
<1>4. crate \in 1..Crates /\ Crates \in Nat
  BY BoundsAssumption DEF IInv, Moments
<1>5. crate' \in 1..Crates /\ at' \in {"export", "open"} /\ (IF at' = "export" THEN crate' - 1 ELSE Crates) = crate
  BY <1>3, <1>4
<1>6. Moments'
  BY <1>3, <1>5 DEF IInv, Moments, Phases
<1>7. Sessions'
  <2>1. session' = [next |-> 0, table |-> Empty] /\ held' = {}
    BY <1>3 DEF NewSession
  <2>2. MaxNodes[crate'] \in Nat
    BY <1>5, BoundsAssumption
  <2> QED  BY <2>1, <2>2, EmptyTable, FS_EmptySet DEF Sessions, NewSession
<1>8. Exported'
  <2>1. IsSeq(original) /\ IsSeq(file) /\ Len(file) = Len(original) /\ Len(original) = crate - 1
    BY <1>3 DEF IInv, Exported
  <2>2. /\ IsSeq(original') /\ Len(original') = crate /\ original'[crate] = d
        /\ \A c \in 1..(crate - 1) : original'[c] = original[c]
    <3>1. Len(original) = crate - 1 /\ crate - 1 + 1 = crate
      BY <1>4, <2>1
    <3>2. original' = Append(original, d) /\ IsSeq(original)
      BY <1>3, <2>1
    <3>3. IsSeq(original') /\ Len(original') = Len(original) + 1
      BY <3>2, AppendFacts
    <3>4. original'[Len(original) + 1] = d /\ \A c \in 1..Len(original) : original'[c] = original[c]
      BY <3>2, AppendFacts
    <3> QED  BY <3>1, <3>3, <3>4
  <2>3. /\ IsSeq(file') /\ Len(file') = crate /\ file'[crate] = f
        /\ \A c \in 1..(crate - 1) : file'[c] = file[c]
    <3>1. Len(file) = crate - 1 /\ crate - 1 + 1 = crate
      BY <1>4, <2>1
    <3>2. file' = Append(file, f) /\ IsSeq(file)
      BY <1>3, <2>1
    <3>3. IsSeq(file') /\ Len(file') = Len(file) + 1
      BY <3>2, AppendFacts
    <3>4. file'[Len(file) + 1] = f /\ \A c \in 1..Len(file) : file'[c] = file[c]
      BY <3>2, AppendFacts
    <3> QED  BY <3>1, <3>3, <3>4
  <2>4. IsDocument(d) /\ f = WithTable(d.table, d.root)
    <3>1. d.table = session.table /\ d.root = root
      BY <1>1
    <3>2. session.next \in Nat /\ TableOf(session.table, session.next) /\ \A n \in root : NodeOf(n, session.table)
      BY DEF IInv, Sessions
    <3> QED  BY <1>2, <3>1, <3>2 DEF IsDocument
  <2>5. ASSUME NEW c \in 1..crate
        PROVE  IsDocument(original'[c]) /\ file'[c] = WithTable(original'[c].table, original'[c].root)
    <3>1. CASE c = crate
      BY <2>2, <2>3, <2>4, <3>1
    <3>2. CASE c # crate
      <4>1. c \in 1..(crate - 1)
        BY <1>4, <3>2
      <4>2. IsDocument(original[c]) /\ file[c] = WithTable(original[c].table, original[c].root)
        BY <2>1, <4>1 DEF IInv, Exported
      <4> QED  BY <2>2, <2>3, <4>1, <4>2
    <3> QED  BY <3>1, <3>2
  <2> QED  BY <1>5, <2>2, <2>3, <2>5 DEF Exported
<1>9. Readers' /\ RoundTrip' /\ MessagesSelfContained'
  <2>1. Readers'
    BY <1>3, <1>5 DEF IInv, Readers, readVars
  <2>2. RoundTrip'
    BY <1>5 DEF RoundTrip
  <2>3. MessagesSelfContained'
    BY <1>3 DEF IInv, MessagesSelfContained
  <2> QED  BY <2>1, <2>2, <2>3
<1> QED
  BY <1>6, <1>7, <1>8, <1>9 DEF IInv

-----------------------------------------------------------------------------
(***************************************************************************)
(* After the exports: the files stay as they are.                          *)
(***************************************************************************)
LEMMA LaterFrame ==
  ASSUME IInv, at # "export", at' \in Phases \ {"export"}, crate' \in 1..Crates, UNCHANGED exportVars
  PROVE  Sessions' /\ Exported'
<1>1. UNCHANGED <<session, held, original, file>>
  BY DEF exportVars
<1>2. Sessions'
  <2>1. session = [next |-> 0, table |-> Empty] /\ held = {} /\ session = NewSession
    BY DEF IInv, Sessions, NewSession
  <2>2. MaxNodes[crate'] \in Nat
    BY BoundsAssumption
  <2> QED  BY <1>1, <2>1, <2>2, EmptyTable, FS_EmptySet DEF Sessions
<1>3. Exported'
  BY <1>1 DEF IInv, Exported
<1> QED  BY <1>2, <1>3

\* The document of the crate being read.
LEMMA TheDocument ==
  ASSUME IInv, at # "export"
  PROVE  /\ IsDocument(original[crate]) /\ file[crate] = WithTable(original[crate].table, original[crate].root)
         /\ \E N \in Nat : TableOf(original[crate].table, N)
         /\ \A n \in original[crate].root : NodeOf(n, original[crate].table)
<1>1. crate \in 1..Len(original)
  BY DEF IInv, Moments, Exported
<1>2. IsDocument(original[crate]) /\ file[crate] = WithTable(original[crate].table, original[crate].root)
  BY <1>1 DEF IInv, Exported
<1> QED
  BY <1>2 DEF IsDocument

LEMMA OpenStep == ASSUME IInv, OpenFile  PROVE IInv'
<1>1. /\ at = "open" /\ at' = "read" /\ kept' = original[crate].root
      /\ reading' = [msg |-> file[crate], pos |-> 0, table |-> Empty, saved |-> state[proc]]
      /\ state' = [state EXCEPT ![proc] = Empty]
      /\ UNCHANGED <<command, crate, proc, exportVars, useIds, doc, wire>>
  BY DEF OpenFile, Open
<1>2. PICK d : d = original[crate]
  OBVIOUS
<1>3. file[crate] = WithTable(d.table, d.root) /\ \E N \in Nat : TableOf(d.table, N)
  BY <1>1, <1>2, TheDocument
<1>4. PICK N \in Nat : TableOf(d.table, N)
  BY <1>3
<1>5. Moments'
  BY <1>1 DEF IInv, Moments, Phases
<1>6. Sessions' /\ Exported'
  BY <1>1, <1>5, LaterFrame DEF Moments, Phases
<1>7. Readers'
  <2>1. original'[crate'] = d
    BY <1>1, <1>2 DEF exportVars
  <2>2. proc \in Process /\ state = NoState
    BY <1>1 DEF IInv, Moments, Readers
  <2>3. state[proc] = Empty
    BY <2>2 DEF NoState
  <2>4. Part(d.table, 0) = Empty /\ 0 \in 0..Len(Pairs(d.table))
    BY <1>4, PartFacts, PairsFacts
  <2>5. reading' = [msg |-> WithTable(d.table, d.root), pos |-> 0, table |-> Empty, saved |-> Empty]
    BY <1>1, <1>3, <2>3
  <2>6. reading'.pos = 0 /\ reading'.table = Empty
    BY <2>5
  <2>7. kept' = d.root /\ proc' = proc /\ state' = [NoState EXCEPT ![proc] = Empty]
    BY <1>1, <1>2, <2>2
  <2>8. ReadingOf(d)'
    BY <2>4, <2>5, <2>6, <2>7 DEF ReadingOf, NoState
  <2> QED  BY <1>1, <2>1, <2>8 DEF Readers, ReadingOf
<1>8. RoundTrip' /\ MessagesSelfContained'
  BY <1>1 DEF IInv, RoundTrip, MessagesSelfContained
<1> QED  BY <1>5, <1>6, <1>7, <1>8 DEF IInv

\* What a reader of a document has to go on.
LEMMA ReadingFacts ==
  ASSUME IInv, at = "read", NEW d, d = original[crate], NEW T, T = d.table, NEW k, k = reading.pos,
         NEW N \in Nat, TableOf(T, N)
  PROVE  /\ kept \subseteq d.root /\ k \in 0..N
         /\ reading = [msg |-> WithTable(T, kept), pos |-> k, table |-> Part(T, k), saved |-> Empty]
         /\ reading.msg.pairs = Pairs(T) /\ reading.msg.root = AsIds(kept) /\ Len(reading.msg.pairs) = N
         /\ reading.saved = Empty /\ reading.table = Part(T, k)
         /\ proc \in Process /\ state[proc] = Part(T, k) /\ state = [NoState EXCEPT ![proc] = Part(T, k)]
         /\ \A n : Resolves(n) <=> n.value # None \/ Known(n, Part(T, k))
         /\ \A n : Resolve(n) = Lookup(n, Part(T, k))
<1>1. /\ kept \subseteq d.root /\ k \in 0..Len(Pairs(T))
      /\ reading = [msg |-> WithTable(T, kept), pos |-> k, table |-> Part(T, k), saved |-> Empty]
      /\ state = [NoState EXCEPT ![proc] = reading.table]
  BY DEF IInv, Readers, ReadingOf
<1>2. Len(Pairs(T)) = N
  BY PairsFacts
<1>3. PICK m : m = WithTable(T, kept)
  OBVIOUS
<1>4. m.pairs = Pairs(T) /\ m.root = AsIds(kept)
  BY <1>3 DEF WithTable, AsIds
<1>5. PICK P : P = Part(T, k)
  OBVIOUS
<1>6. reading.msg = m /\ reading.table = P /\ reading.saved = Empty
  BY <1>1, <1>3, <1>5
<1>7. proc \in Process
  BY DEF IInv, Moments
<1>8. state = [NoState EXCEPT ![proc] = P] /\ state[proc] = P
  BY <1>1, <1>6, <1>7 DEF NoState
<1>9. /\ \A n : Resolves(n) <=> n.value # None \/ Known(n, P)
      /\ \A n : Resolve(n) = Lookup(n, P)
  BY <1>8 DEF Resolves, Resolve, Known, Lookup
<1> QED  BY <1>1, <1>2, <1>4, <1>5, <1>6, <1>7, <1>8, <1>9

\* The next pair is one of the table with only ids read before it; it is read to the value the table has.
LEMMA NextPair ==
  ASSUME NEW T, NEW N \in Nat, TableOf(T, N), NEW k \in 0..(N - 1), NEW P, P = Part(T, k),
         NEW i, i = SortedIds(T)[k + 1], NEW pair, pair = Pairs(T)[k + 1]
  PROVE  /\ pair.id = i /\ \A n \in pair.value.sub : Known(n, P)
         /\ [pair.value EXCEPT !.sub = {Lookup(n, P) : n \in @}] = T[i]
<1>1. k + 1 \in 1..N /\ k \in 0..N
  OBVIOUS
<1>2. PICK v, S : v = T[i] /\ S = T[i].sub
  OBVIOUS
<1>3. PICK w, R : w = pair.value /\ R = AsIds(S)
  OBVIOUS
<1>4. i \in 0..(N - 1) /\ pair.id = i /\ w = [type |-> v.type, data |-> v.data, sub |-> R]
  BY <1>1, <1>2, <1>3, PairIs
<1>5. v = [type |-> v.type, data |-> v.data, sub |-> S] /\ \A n \in S : NodeOf(n, T) /\ n.id < i
  BY <1>2, <1>4 DEF TableOf, IsValue
<1>6. \A j \in DOMAIN P : P[j] = T[j]
  BY <1>1, PartFacts
<1>7. ASSUME NEW n \in S  PROVE NodeOf(n, T) /\ n.id \in DOMAIN P
  <2>1. n.id \in 0..(N - 1) /\ n.id < i
    BY <1>5, NodeFacts
  <2>2. \A j \in 0..(N - 1) : j < SortedIds(T)[k + 1] => j \in DOMAIN Part(T, k)
    BY PartFacts
  <2> QED  BY <1>5, <2>1, <2>2
<1>8. (\A r \in R : r.value = None /\ Known(r, P)) /\ {Lookup(r, P) : r \in R} = S
  BY <1>3, <1>6, <1>7, IdsResolve
<1>9. w.sub = R /\ \A X : [w EXCEPT !.sub = X] = [type |-> v.type, data |-> v.data, sub |-> X]
  BY <1>4
<1>10. [w EXCEPT !.sub = {Lookup(n, P) : n \in @}] = [w EXCEPT !.sub = S]
  BY <1>8, <1>9
<1> QED
  BY <1>2, <1>3, <1>4, <1>5, <1>8, <1>9, <1>10

LEMMA ReadPairStep == ASSUME IInv, ReadPair  PROVE IInv'
<1>1. /\ at = "read" /\ reading.pos < Len(reading.msg.pairs)
      /\ UNCHANGED <<command, crate, proc, exportVars, useIds, doc, kept, wire>>
  BY DEF ReadPair
<1>2. PICK d, T, k : d = original[crate] /\ T = d.table /\ k = reading.pos
  OBVIOUS
<1>3. PICK N \in Nat : TableOf(T, N)
  BY <1>1, <1>2, TheDocument
<1>4. PICK P : P = Part(T, k)
  OBVIOUS
<1>5. /\ kept \subseteq d.root /\ k \in 0..N
      /\ reading = [msg |-> WithTable(T, kept), pos |-> k, table |-> P, saved |-> Empty]
      /\ reading.msg.pairs = Pairs(T) /\ Len(reading.msg.pairs) = N
      /\ proc \in Process /\ state = [NoState EXCEPT ![proc] = P]
  BY <1>1, <1>2, <1>3, <1>4, ReadingFacts
<1>6. (\A n : Resolves(n) <=> n.value # None \/ Known(n, P)) /\ \A n : Resolve(n) = Lookup(n, P)
  BY <1>1, <1>2, <1>3, <1>4, ReadingFacts
<1>7. k \in 0..(N - 1)
  BY <1>1, <1>2, <1>5
<1>8. PICK i, pair : i = SortedIds(T)[k + 1] /\ pair = Pairs(T)[k + 1]
  OBVIOUS
<1>9. /\ pair.id = i /\ \A n \in pair.value.sub : Known(n, P)
      /\ [pair.value EXCEPT !.sub = {Lookup(n, P) : n \in @}] = T[i]
  BY <1>3, <1>4, <1>7, <1>8, NextPair
<1>10. PICK P1 : P1 = Part(T, k + 1)
  OBVIOUS
<1>11. P1 = Insert(P, i, T[i])
  BY <1>3, <1>4, <1>7, <1>8, <1>10, PartFacts
<1>12. [pair.value EXCEPT !.sub = {Resolve(n) : n \in @}] = T[i]
  <2>1. {Resolve(n) : n \in pair.value.sub} = {Lookup(n, P) : n \in pair.value.sub}
    BY <1>6
  <2> QED  BY <1>9, <2>1
<1>13. /\ state' = [state EXCEPT ![proc] = Insert(@, i, T[i])]
       /\ reading' = [reading EXCEPT !.pos = @ + 1, !.table = Insert(@, i, T[i])]
       /\ at' = at
  <2>1. reading.msg.pairs[reading.pos + 1] = pair
    BY <1>2, <1>5, <1>8
  <2>2. \A n \in pair.value.sub : Resolves(n)
    BY <1>6, <1>9
  <2> QED  BY <1>9, <1>12, <2>1, <2>2 DEF ReadPair
<1>14. state' = [NoState EXCEPT ![proc] = P1]
  BY <1>5, <1>11, <1>13 DEF NoState
<1>15. reading' = [msg |-> WithTable(T, kept), pos |-> k + 1, table |-> P1, saved |-> Empty]
  BY <1>5, <1>11, <1>13
<1>16. Moments'
  BY <1>1, <1>13 DEF IInv, Moments
<1>17. Sessions' /\ Exported'
  BY <1>1, <1>13, <1>16, LaterFrame DEF Moments, Phases
<1>18. Readers'
  <2>1. original'[crate'] = d
    BY <1>1, <1>2 DEF exportVars
  <2>2. reading'.pos = k + 1 /\ reading'.table = P1
    BY <1>15
  <2>3. k + 1 \in 0..Len(Pairs(T))
    BY <1>5, <1>7
  <2>4. ReadingOf(d)'
    BY <1>1, <1>2, <1>5, <1>10, <1>14, <1>15, <2>2, <2>3 DEF ReadingOf, NoState
  <2> QED  BY <1>1, <1>13, <2>1, <2>4 DEF Readers, ReadingOf
<1>19. RoundTrip' /\ MessagesSelfContained'
  BY <1>1, <1>13 DEF IInv, RoundTrip, MessagesSelfContained
<1> QED  BY <1>16, <1>17, <1>18, <1>19 DEF IInv

LEMMA ReadRootStep == ASSUME IInv, ReadRoot  PROVE IInv'
<1>1. /\ at = "read" /\ reading.pos = Len(reading.msg.pairs)
      /\ state' = [state EXCEPT ![proc] = reading.saved] /\ reading' = NotReading
      /\ UNCHANGED <<command, crate, proc, exportVars, useIds, kept, wire>>
  BY DEF ReadRoot
<1>2. PICK d, T : d = original[crate] /\ T = d.table
  OBVIOUS
<1>3. (\E N \in Nat : TableOf(T, N)) /\ \A n \in d.root : NodeOf(n, T)
  BY <1>1, <1>2, TheDocument
<1>4. PICK N \in Nat : TableOf(T, N)
  BY <1>3
<1>5. PICK P : P = Part(T, reading.pos)
  OBVIOUS
<1>6. /\ kept \subseteq d.root /\ reading.msg.root = AsIds(kept) /\ Len(reading.msg.pairs) = N
      /\ reading.table = P /\ reading.saved = Empty
      /\ proc \in Process /\ state = [NoState EXCEPT ![proc] = P]
  BY <1>1, <1>2, <1>4, <1>5, ReadingFacts
<1>7. (\A n : Resolves(n) <=> n.value # None \/ Known(n, P)) /\ \A n : Resolve(n) = Lookup(n, P)
  BY <1>1, <1>2, <1>4, <1>5, ReadingFacts
<1>8. P = T
  BY <1>1, <1>4, <1>5, <1>6, PartFacts
<1>9. PICK R : R = AsIds(kept)
  OBVIOUS
<1>10. (\A r \in R : r.value = None /\ Known(r, T)) /\ {Lookup(r, T) : r \in R} = kept
  <2>1. \A n \in kept : NodeOf(n, T) /\ n.id \in DOMAIN T
    BY <1>3, <1>6 DEF NodeOf
  <2>2. \A i \in DOMAIN T : T[i] = T[i]
    OBVIOUS
  <2> QED  BY <1>4, <1>9, <2>1, <2>2, IdsResolve
<1>11. doc' = [table |-> T, root |-> kept] /\ at' = "have"
  <2>1. \A n \in reading.msg.root : Resolves(n)
    BY <1>6, <1>7, <1>8, <1>9, <1>10
  <2>2. {Resolve(n) : n \in reading.msg.root} = kept
    BY <1>6, <1>7, <1>8, <1>9, <1>10
  <2> QED  BY <1>6, <1>8, <2>1, <2>2 DEF ReadRoot
<1>12. Moments'
  BY <1>1, <1>11 DEF IInv, Moments, Phases
<1>13. Sessions' /\ Exported'
  BY <1>1, <1>11, <1>12, LaterFrame DEF Moments, Phases
<1>14. Readers'
  <2>1. state' = NoState
    BY <1>1, <1>6 DEF NoState
  <2> QED  BY <1>1, <1>11, <2>1 DEF Readers, NoState
<1>15. RoundTrip'
  <2>1. doc'.table = T /\ doc'.root = kept
    BY <1>11
  <2> QED  BY <1>1, <1>2, <1>6, <2>1 DEF RoundTrip, exportVars
<1>16. MessagesSelfContained'
  BY <1>1 DEF IInv, MessagesSelfContained
<1> QED  BY <1>12, <1>13, <1>14, <1>15, <1>16 DEF IInv

-----------------------------------------------------------------------------
(***************************************************************************)
(* Sending a document further.                                             *)
(***************************************************************************)
\* The document a process has is one, and every part of it can be sent.
LEMMA HavingFacts ==
  ASSUME IInv, at \in {"have", "asked"}
  PROVE  /\ (\E N \in Nat : TableOf(doc.table, N)) /\ \A n \in doc.root : NodeOf(n, doc.table)
         /\ doc.table = original[crate].table /\ doc.root \subseteq original[crate].root
         /\ \A p \in Process : ~useIds[p]
         /\ \A root \in SUBSET doc.root : /\ SelfContained(WithTable(doc.table, root))
                                          /\ SelfContained(Alone(root, FALSE))
<1>1. doc.table = original[crate].table /\ doc.root \subseteq original[crate].root
  BY DEF IInv, RoundTrip
<1>2. (\E N \in Nat : TableOf(doc.table, N)) /\ \A n \in doc.root : NodeOf(n, doc.table)
  BY <1>1, TheDocument
<1>3. PICK N \in Nat : TableOf(doc.table, N)
  BY <1>2
<1>4. ASSUME NEW root \in SUBSET doc.root
      PROVE  SelfContained(WithTable(doc.table, root)) /\ SelfContained(Alone(root, FALSE))
  <2>1. \A n \in root : NodeOf(n, doc.table)
    BY <1>2
  <2> QED  BY <1>3, <2>1, WithTableSelfContained, AloneSelfContained
<1>5. \A p \in Process : ~useIds[p]
  BY DEF IInv, Moments
<1> QED  BY <1>1, <1>2, <1>4, <1>5

LEMMA SelfContainedIs == MessagesSelfContained <=> (wire # None => SelfContained(wire))
BY DEF MessagesSelfContained, SelfContained

\* Steps after which a message that tells all was sent, if one was, and nothing is being read.
LEMMA SentFrame ==
  ASSUME IInv, at \in {"have", "asked"}, at' \in {"open", "asked", "end"},
         UNCHANGED <<command, exportVars, readVars, kept>>,
         crate' \in 1..Crates, proc' \in Process, useIds' = useIds,
         at' = "asked" => crate' = crate,
         SelfContained(wire')
  PROVE  IInv'
<1>1. Moments'
  BY DEF IInv, Moments, Phases
<1>2. Sessions' /\ Exported'
  BY LaterFrame DEF Phases
<1>3. Readers'
  BY DEF IInv, Readers, readVars, NoState
<1>4. RoundTrip'
  BY DEF IInv, RoundTrip, readVars, exportVars
<1>5. MessagesSelfContained'
  BY DEF MessagesSelfContained, SelfContained
<1> QED  BY <1>1, <1>2, <1>3, <1>4, <1>5 DEF IInv

LEMMA ForwardStep == ASSUME IInv, NEW root \in SUBSET doc.root, Forward(root)  PROVE IInv'
<1>1. /\ at = "have" /\ proc = "cargo-hax" /\ Run(proc, "read") /\ proc' = "engine" /\ kept' = root
      /\ state' = [state EXCEPT !["engine"] = Empty]
      /\ reading' = [msg |-> WithTable(doc.table, root), pos |-> 0, table |-> Empty, saved |-> Empty]
      /\ UNCHANGED <<command, crate, exportVars, doc, wire>>
  BY DEF Forward
<1>2. /\ (\E N \in Nat : TableOf(doc.table, N)) /\ doc.table = original[crate].table
      /\ doc.root \subseteq original[crate].root /\ \A p \in Process : ~useIds[p]
  BY <1>1, HavingFacts
<1>3. PICK N \in Nat : TableOf(doc.table, N)
  BY <1>2
<1>4. proc \in Process /\ "engine" \in Process /\ useIds = [p \in Process |-> FALSE] /\ state = NoState
  BY <1>1 DEF IInv, Moments, Readers, Process
<1>5. at' = "read" /\ useIds' = [p \in Process |-> FALSE]
  <2>1. useIds[proc] = FALSE
    BY <1>4
  <2>2. at' = "read" /\ useIds' = [useIds EXCEPT ![proc] = FALSE]
    BY <1>1, <2>1 DEF Run, FlagAfterRun
  <2> QED  BY <1>4, <2>2
<1>6. Moments'
  BY <1>1, <1>4, <1>5 DEF IInv, Moments, Phases
<1>7. Sessions' /\ Exported'
  BY <1>1, <1>5, <1>6, LaterFrame DEF Moments, Phases
<1>8. Readers'
  <2>1. PICK d : d = original[crate]
    OBVIOUS
  <2>2. original'[crate'] = d
    BY <1>1, <2>1 DEF exportVars
  <2>3. Part(d.table, 0) = Empty /\ 0 \in 0..Len(Pairs(d.table))
    BY <1>2, <1>3, <2>1, PartFacts, PairsFacts
  <2>4. reading' = [msg |-> WithTable(d.table, root), pos |-> 0, table |-> Empty, saved |-> Empty]
    BY <1>1, <1>2, <2>1
  <2>5. reading'.pos = 0 /\ reading'.table = Empty
    BY <2>4
  <2>6. state' = [NoState EXCEPT !["engine"] = Empty]
    BY <1>1, <1>4
  <2>7. kept' = root /\ root \subseteq d.root /\ proc' = "engine"
    BY <1>1, <1>2, <2>1
  <2>8. ReadingOf(d)'
    BY <2>3, <2>4, <2>5, <2>6, <2>7 DEF ReadingOf, NoState
  <2> QED  BY <1>5, <2>2, <2>8 DEF Readers, ReadingOf
<1>9. RoundTrip' /\ MessagesSelfContained'
  BY <1>1, <1>5 DEF IInv, RoundTrip, MessagesSelfContained
<1> QED  BY <1>6, <1>7, <1>8, <1>9 DEF IInv

LEMMA NextCrateFacts ==
  ASSUME IInv, NextCrate  PROVE crate' \in 1..Crates /\ Done \in {"open", "end"}
BY BoundsAssumption DEF IInv, Moments, NextCrate, Done

\* `run` finds the mode off and leaves it off.
LEMMA RunFacts ==
  ASSUME IInv, NEW p \in Process, NEW to, Run(p, to)
  PROVE  at' = to /\ useIds' = useIds /\ \A m : Written(p, m) = m
<1>1. useIds = [q \in Process |-> FALSE] /\ useIds[p] = FALSE
  BY DEF IInv, Moments
<1>2. at' = to /\ useIds' = [useIds EXCEPT ![p] = FALSE]
  BY <1>1 DEF Run, FlagAfterRun
<1> QED  BY <1>1, <1>2 DEF Written

LEMMA WriteStep ==
  ASSUME IInv, \/ \E root \in SUBSET doc.root : WriteWithTable(root)
               \/ WriteAlone \/ QueryImport \/ QueryPlain
  PROVE  IInv'
<1>0. proc \in Process /\ crate \in 1..Crates /\ useIds = [p \in Process |-> FALSE]
  BY DEF IInv, Moments
<1>1. ASSUME NEW root \in SUBSET doc.root, WriteWithTable(root)  PROVE IInv'
  <2>1. /\ at = "have" /\ Run(proc, Done) /\ wire' = Written(proc, WithTable(doc.table, root)) /\ NextCrate
        /\ UNCHANGED <<command, proc, exportVars, readVars, kept>>
    BY <1>1 DEF WriteWithTable
  <2>2. at' = Done /\ useIds' = useIds /\ wire' = WithTable(doc.table, root)
    BY <1>0, <2>1, RunFacts
  <2>3. SelfContained(wire')
    BY <2>1, <2>2, HavingFacts
  <2> QED  BY <1>0, <2>1, <2>2, <2>3, NextCrateFacts, SentFrame
<1>2. CASE WriteAlone
  <2>1. /\ at = "have" /\ wire' = Alone(doc.root, useIds[proc]) /\ at' = Done /\ NextCrate
        /\ UNCHANGED <<command, proc, exportVars, useIds, readVars, kept>>
    BY <1>2 DEF WriteAlone
  <2>2. wire' = Alone(doc.root, FALSE)
    BY <1>0, <2>1
  <2>3. SelfContained(wire')
    BY <2>1, <2>2, HavingFacts
  <2> QED  BY <1>0, <2>1, <2>3, NextCrateFacts, SentFrame
<1>3. CASE QueryImport
  <2>1. /\ at = "have" /\ Run(proc, "asked") /\ wire' = Written(proc, WithTable(doc.table, doc.root))
        /\ UNCHANGED <<command, crate, proc, exportVars, readVars, kept>>
    BY <1>3 DEF QueryImport
  <2>2. at' = "asked" /\ useIds' = useIds /\ wire' = WithTable(doc.table, doc.root)
    BY <1>0, <2>1, RunFacts
  <2>3. SelfContained(wire')
    BY <2>1, <2>2, HavingFacts
  <2> QED  BY <1>0, <2>1, <2>2, <2>3, SentFrame
<1>4. CASE QueryPlain
  <2>1. /\ at = "asked" /\ wire' = Alone(doc.root, useIds[proc]) /\ at' = Done /\ proc' = "cargo-hax"
        /\ useIds' = [useIds EXCEPT !["engine"] = FALSE] /\ NextCrate
        /\ UNCHANGED <<command, exportVars, readVars, kept>>
    BY <1>4 DEF QueryPlain
  <2>2. wire' = Alone(doc.root, FALSE) /\ useIds' = useIds /\ proc' \in Process
    BY <1>0, <2>1 DEF Process
  <2>3. SelfContained(wire')
    BY <2>1, <2>2, HavingFacts
  <2> QED  BY <2>1, <2>2, <2>3, NextCrateFacts, SentFrame
<1> QED  BY <1>1, <1>2, <1>3, <1>4

LEMMA StepIInv == IInv /\ [Next]_vars => IInv'
<1> SUFFICES ASSUME IInv, [Next]_vars  PROVE IInv'
  OBVIOUS
<1>1. CASE UNCHANGED vars
  <2>1. UNCHANGED <<command, crate, at, proc, session, held, original, file, useIds, state, reading, doc, kept, wire>>
    BY <1>1 DEF vars, exportVars, readVars
  <2>2. Moments' /\ Sessions' /\ Exported'
    BY <2>1 DEF IInv, Moments, Sessions, Exported
  <2>3. Readers'
    BY <2>1 DEF IInv, Readers, ReadingOf
  <2>4. RoundTrip' /\ MessagesSelfContained'
    BY <2>1 DEF IInv, RoundTrip, MessagesSelfContained
  <2> QED  BY <2>2, <2>3, <2>4 DEF IInv
<1>2. CASE Driver
  BY <1>2, NewStep, ExportStep DEF Driver
<1>3. CASE Reader
  BY <1>3, OpenStep, ReadPairStep, ReadRootStep DEF Reader
<1>4. CASE Writer
  BY <1>4, ForwardStep, WriteStep DEF Writer
<1> QED
  BY <1>1, <1>2, <1>3, <1>4 DEF Next, Ended

-----------------------------------------------------------------------------
(***************************************************************************)
(* The invariant holds in every state of every execution.                  *)
(***************************************************************************)
THEOREM Invariance == Spec => []IInv
BY InitIInv, StepIInv, PTL DEF Spec

\* Every table in memory is made of a prefix of the ids in the order they are
\* read, whose values have their types; and at no moment panics a reader.
LEMMA TablesFollow == IInv => TablesOK
<1> SUFFICES ASSUME IInv  PROVE TypeOK /\ EveryIdResolves
  BY DEF TablesOK
<1>1. ASSUME NEW T, NEW N \in Nat, TableOf(T, N)
      PROVE  IsTable(T) /\ DOMAIN T = 0..(N - 1) /\ \A k \in 0..N : IsTable(Part(T, k))
  <2>1. DOMAIN T = 0..(N - 1) /\ \A i \in DOMAIN T : T[i].type \in Type
    BY <1>1 DEF TableOf, IsValue
  <2>2. ASSUME NEW k \in 0..N  PROVE IsTable(Part(T, k))
    BY <1>1, <2>1, PartFacts DEF IsTable
  <2> QED  BY <2>1, <2>2 DEF IsTable
<1>2. EveryIdResolves
  BY DEF IInv, Moments, Phases, EveryIdResolves
<1>3. IsTable(Empty)
  BY <1>1, EmptyTable
<1>4. /\ session.next \in 0..MaxNodes[crate] /\ DOMAIN session.table = 0..(session.next - 1)
      /\ IsTable(session.table)
  <2>1. MaxNodes[crate] \in Nat
    BY BoundsAssumption DEF IInv, Moments
  <2>2. session.next \in Nat /\ session.next <= MaxNodes[crate] /\ TableOf(session.table, session.next)
    BY DEF IInv, Sessions
  <2> QED  BY <1>1, <2>1, <2>2
<1>5. Len(original) \in 0..Crates /\ Len(file) = Len(original)
  BY BoundsAssumption DEF IInv, Moments, Exported
<1>6. IsTable(reading.table) /\ \A p \in Process : IsTable(state[p])
  <2>1. CASE at = "read"
    <3>1. PICK d, T : d = original[crate] /\ T = d.table
      OBVIOUS
    <3>2. PICK N \in Nat : TableOf(T, N)
      BY <2>1, <3>1, TheDocument
    <3>3. PICK P : P = Part(T, reading.pos)
      OBVIOUS
    <3>4. /\ reading.pos \in 0..N /\ reading.table = P /\ proc \in Process
          /\ state = [NoState EXCEPT ![proc] = P]
      BY <2>1, <3>1, <3>2, <3>3, ReadingFacts
    <3>5. IsTable(P)
      BY <1>1, <3>2, <3>3, <3>4
    <3>6. \A p \in Process : state[p] = P \/ state[p] = Empty
      BY <3>4 DEF NoState
    <3> QED  BY <1>3, <3>4, <3>5, <3>6
  <2>2. CASE at # "read"
    <3>1. reading = NotReading /\ state = NoState
      BY <2>2 DEF IInv, Readers
    <3>2. reading.table = Empty /\ \A p \in Process : state[p] = Empty
      BY <3>1 DEF NotReading, NoState
    <3> QED  BY <1>3, <3>2
  <2> QED  BY <2>1, <2>2
<1>7. command \in Commands /\ crate \in 1..Crates /\ proc \in Process
      /\ at \in {"export", "open", "read", "have", "asked", "end", "panic"} /\ useIds \in [Process -> BOOLEAN]
  BY DEF IInv, Moments, Phases
<1> QED
  BY <1>2, <1>4, <1>5, <1>6, <1>7 DEF TypeOK

(***************************************************************************)
(* No reader panics over an id it does not know, or knows at another type  *)
(* (Node::try_from), and `run` never finds the mode on; every table in     *)
(* memory is one of nodes with their types.                                *)
(***************************************************************************)
THEOREM TablesAreOK == Spec => []TablesOK
BY Invariance, TablesFollow, PTL

(***************************************************************************)
(* What a process has read is what the driver exported, but for the items  *)
(* pruned: the ids lead to the values they were given for.                 *)
(***************************************************************************)
THEOREM ReadBackAsWritten == Spec => []RoundTrip
<1>1. IInv => RoundTrip
  BY DEF IInv
<1> QED  BY <1>1, Invariance, PTL

(***************************************************************************)
(* A message that leaves hax's own readers tells all: each id in it is in  *)
(* its table, once and at its type.                                        *)
(***************************************************************************)
THEOREM MessagesTellAll == Spec => []MessagesSelfContained
<1>1. IInv => MessagesSelfContained
  BY DEF IInv
<1> QED  BY <1>1, Invariance, PTL
=============================================================================
