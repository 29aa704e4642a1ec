--------------------------- MODULE InterningProofs ---------------------------
(***************************************************************************)
(* Proofs about the interning table, for every set of values, every list   *)
(* of predefined ones and every capacity.                                  *)
(***************************************************************************)
EXTENDS Interning, TLAPS

(***************************************************************************)
(* The inductive invariant.  HandlesCanonical speaks of pairs of handles;  *)
(* what a step preserves is that the map of the table knows each handle's  *)
(* value at the handle's index, and that the vector inverts the map.       *)
(***************************************************************************)
\* The vector holds, at the index the map gives to a value, that value.
Inverse(seq, map) ==
  /\ seq \in Seq(Value)
  /\ DOMAIN map \subseteq Value
  /\ \A v \in DOMAIN map : map[v] \in 0..(Len(seq) - 1) /\ seq[map[v] + 1] = v

TableInverse == forced \in BOOLEAN /\ (forced => Inverse(items, ids))

HandlesKnown ==
  /\ handles \subseteq [index : Nat, value : Value]
  /\ \A h \in handles : h.value \in DOMAIN Ids /\ Ids[h.value] = h.index

\* A name is remembered only once the table is locked.
NamesKnown ==
  /\ DOMAIN names \subseteq Tuple
  /\ DOMAIN names # {} => forced
  /\ \A t \in DOMAIN names : /\ names[t].index \in Nat
       /\ Render[t] \in DOMAIN ids /\ ids[Render[t]] = names[t].index

IInv == TableInverse /\ HandlesKnown /\ NamesKnown

-----------------------------------------------------------------------------
\* The table the LazyLock makes, and the one it has made, are inverted by their maps.
LEMMA TableFacts ==
  ASSUME TableInverse
  PROVE  Inverse(Items, Ids)
<1>1. CASE forced
  BY <1>1 DEF TableInverse, Items, Ids
<1>2. CASE ~forced
  <2>1. Items = Predefined /\ DOMAIN Ids = {Predefined[i] : i \in 1..Len(Predefined)}
    BY <1>2 DEF Items, Ids
  <2>2. ASSUME NEW v \in DOMAIN Ids
        PROVE  Ids[v] \in 0..(Len(Predefined) - 1) /\ Predefined[Ids[v] + 1] = v
    <3>1. Ids[v] = Place(v)
      BY <1>2, <2>1 DEF Ids
    <3>2. \E i \in 1..Len(Predefined) : Predefined[i] = v
      BY <2>1
    <3>3. PICK i \in 1..Len(Predefined) : Predefined[i] = v /\ Place(v) = i - 1
      BY <3>2 DEF Place
    <3>4. Len(Predefined) \in Nat
      BY PredefinedAssumption
    <3> QED  BY <3>1, <3>3, <3>4
  <2>3. Predefined \in Seq(Value) /\ DOMAIN Ids \subseteq Value
    BY <2>1, PredefinedAssumption
  <2> QED  BY <2>1, <2>2, <2>3 DEF Inverse
<1> QED
  BY <1>1, <1>2 DEF TableInverse

\* What a step that locks the table, and may add a value to it, leaves of it.
Extends ==
  /\ forced' /\ Inverse(items', ids')
  /\ Items' = items' /\ Ids' = ids'
  /\ \A k \in 1..Len(Items) : k \in 1..Len(items') /\ items'[k] = Items[k]
  /\ \A v \in DOMAIN Ids : v \in DOMAIN ids' /\ ids'[v] = Ids[v]

LEMMA LockExtends ==
  ASSUME TableInverse, Lock
  PROVE  Extends
<1>1. forced' /\ items' = Items /\ ids' = Ids
  BY DEF Lock
<1>2. Items' = items' /\ Ids' = ids'
  BY <1>1 DEF Items, Ids
<1> QED
  BY <1>1, <1>2, TableFacts DEF Extends, Inverse

(***************************************************************************)
(* `try_intern` only ever adds at the end, and the value it was given is   *)
(* then in the table, at the index it returns, unless it panics.           *)
(***************************************************************************)
LEMMA InternExtends ==
  ASSUME TableInverse, NEW v \in Value, NEW moves, panic = "no", TryIntern(v, moves)
  PROVE  /\ Extends
         /\ Index(v) \in Nat
         /\ panic' = "no" => v \in DOMAIN ids' /\ ids'[v] = Index(v)
<1>0. Inverse(Items, Ids)
  BY TableFacts
<1>1. CASE Known(v)
  <2>1. Lock
    BY <1>1 DEF TryIntern
  <2>2. v \in DOMAIN Ids /\ Index(v) = Ids[v]
    BY <1>1 DEF Known, Index
  <2> QED  BY <1>0, <2>1, <2>2, LockExtends DEF Extends, Inverse
<1>2. CASE ~Known(v)
  <2>1. /\ forced' /\ items' = Append(Items, v) /\ Index(v) = Len(Items)
        /\ \/ ids' = Extend(Ids, v, Len(Items))
           \/ ids' = Ids /\ panic' = "full"
    BY <1>2 DEF TryIntern, Pushed, Index
  <2>2. Items' = items' /\ Ids' = ids'
    BY <2>1 DEF Items, Ids
  <2>3. Items \in Seq(Value) /\ Len(Items) \in Nat /\ v \notin DOMAIN Ids
    BY <1>0, <1>2 DEF Inverse, Known
  <2>4. /\ items' \in Seq(Value) /\ Len(items') = Len(Items) + 1 /\ items'[Len(Items) + 1] = v
        /\ \A k \in 1..Len(Items) : k \in 1..Len(items') /\ items'[k] = Items[k]
    BY <2>1, <2>3
  <2>5. \A w \in DOMAIN Ids : /\ Ids[w] \in 0..(Len(Items) - 1)
                              /\ Ids[w] + 1 \in 1..Len(Items) /\ Items[Ids[w] + 1] = w
    BY <1>0, <2>3 DEF Inverse
  <2>6. CASE ids' = Extend(Ids, v, Len(Items))
    <3>1. DOMAIN ids' = DOMAIN Ids \cup {v} /\ ids'[v] = Len(Items)
      BY <2>6 DEF Extend
    <3>2. \A w \in DOMAIN Ids : ids'[w] = Ids[w]
      BY <2>3, <2>6 DEF Extend
    <3>3. ASSUME NEW w \in DOMAIN ids'
          PROVE  ids'[w] \in 0..(Len(items') - 1) /\ items'[ids'[w] + 1] = w
      <4>1. CASE w = v
        BY <2>3, <2>4, <3>1, <4>1
      <4>2. CASE w \in DOMAIN Ids
        BY <2>3, <2>4, <2>5, <3>2, <4>2
      <4> QED  BY <3>1, <4>1, <4>2
    <3>4. DOMAIN ids' \subseteq Value
      BY <1>0, <3>1 DEF Inverse
    <3>5. Inverse(items', ids')
      BY <2>4, <3>3, <3>4 DEF Inverse
    <3> QED  BY <2>1, <2>2, <2>3, <2>4, <3>1, <3>2, <3>5 DEF Extends
  <2>7. CASE ids' = Ids /\ panic' = "full"
    <3>1. ASSUME NEW w \in DOMAIN ids'
          PROVE  ids'[w] \in 0..(Len(items') - 1) /\ items'[ids'[w] + 1] = w
      BY <2>3, <2>4, <2>5, <2>7
    <3>2. Inverse(items', ids')
      BY <1>0, <2>4, <2>7, <3>1 DEF Inverse
    <3> QED  BY <2>1, <2>2, <2>3, <2>4, <2>7, <3>2 DEF Extends
  <2> QED  BY <2>1, <2>6, <2>7
<1> QED
  BY <1>1, <1>2

\* The handles and names of before are still known.
LEMMA OldKnown ==
  ASSUME IInv, Extends
  PROVE  /\ TableInverse'
         /\ \A h \in handles : h.value \in DOMAIN Ids' /\ Ids'[h.value] = h.index
         /\ \A t \in DOMAIN names : Render[t] \in DOMAIN ids' /\ ids'[Render[t]] = names[t].index
<1>1. TableInverse'
  BY DEF Extends, TableInverse, Inverse
<1>2. \A h \in handles : h.value \in DOMAIN Ids' /\ Ids'[h.value] = h.index
  BY DEF IInv, HandlesKnown, Extends
<1>3. \A t \in DOMAIN names : Render[t] \in DOMAIN ids' /\ ids'[Render[t]] = names[t].index
  <2>1. SUFFICES ASSUME NEW t \in DOMAIN names
                 PROVE  Render[t] \in DOMAIN ids' /\ ids'[Render[t]] = names[t].index
    OBVIOUS
  <2>2. forced /\ Render[t] \in DOMAIN ids /\ ids[Render[t]] = names[t].index
    BY DEF IInv, NamesKnown
  <2> QED  BY <2>2 DEF Ids, Extends
<1> QED
  BY <1>1, <1>2, <1>3

-----------------------------------------------------------------------------
\* The handles fixed at compile time are those of the table the LazyLock will make.
LEMMA InitIInv == InternInit => IInv
<1> SUFFICES ASSUME InternInit PROVE IInv
  OBVIOUS
<1>1. forced = FALSE /\ Items = Predefined /\ DOMAIN names = {}
  BY DEF InternInit, Items, Nothing
<1>2. TableInverse /\ NamesKnown
  BY <1>1 DEF TableInverse, NamesKnown
<1>3. ASSUME NEW h \in handles
      PROVE  h \in [index : Nat, value : Value] /\ h.value \in DOMAIN Ids /\ Ids[h.value] = h.index
  <2>1. PICK i \in 1..Len(Predefined) : h = [index |-> i - 1, value |-> Predefined[i]]
    BY <1>3 DEF InternInit, Handle
  <2>2. Len(Predefined) \in Nat /\ Predefined[i] \in Value /\ i - 1 \in Nat
    BY PredefinedAssumption
  <2>3. h.value \in DOMAIN Ids /\ Ids[h.value] = Place(h.value)
    BY <1>1, <2>1 DEF Ids
  <2>4. Place(h.value) = i - 1
    <3> DEFINE j == CHOOSE k \in 1..Len(Predefined) : Predefined[k] = h.value
    <3>1. j \in 1..Len(Predefined) /\ Predefined[j] = Predefined[i]
      BY <2>1
    <3>2. j = i
      BY <3>1, PredefinedAssumption
    <3> QED  BY <3>2 DEF Place
  <2> QED  BY <2>1, <2>2, <2>3, <2>4
<1>4. HandlesKnown
  BY <1>3 DEF HandlesKnown
<1> QED
  BY <1>2, <1>4 DEF IInv

\* Interning a value leaves every handle known, the one it returns included.
LEMMA InternKnown ==
  ASSUME IInv, NEW v \in Value, NEW moves, panic = "no",
         TryIntern(v, moves), handles' = handles \cup Returned(v)
  PROVE  Extends /\ TableInverse' /\ HandlesKnown'
<1>1. /\ Extends /\ Index(v) \in Nat
      /\ panic' = "no" => v \in DOMAIN ids' /\ ids'[v] = Index(v)
  BY InternExtends DEF IInv
<1>2. TableInverse'
  BY <1>1, OldKnown
<1>3. \A h \in Returned(v) :
        /\ h \in [index : Nat, value : Value]
        /\ h.value \in DOMAIN Ids' /\ Ids'[h.value] = h.index
  BY <1>1 DEF Returned, Handle, Extends
<1>4. \A h \in handles :
        /\ h \in [index : Nat, value : Value]
        /\ h.value \in DOMAIN Ids' /\ Ids'[h.value] = h.index
  BY <1>1, OldKnown DEF IInv, HandlesKnown
<1>5. HandlesKnown'
  BY <1>3, <1>4 DEF HandlesKnown
<1> QED
  BY <1>1, <1>2, <1>5

\* Names that a step leaves alone are still those of their renderings.
LEMMA OldNames ==
  ASSUME IInv, Extends, names' = names
  PROVE  NamesKnown'
BY OldKnown DEF IInv, NamesKnown, Extends

LEMMA StepIInv == IInv /\ [InternNext]_internVars => IInv'
<1> SUFFICES ASSUME IInv, [InternNext]_internVars PROVE IInv'
  OBVIOUS
<1>1. ASSUME NEW moves \in BOOLEAN, NEW v \in Value, Intern(v, moves)
      PROVE  IInv'
  <2>1. Extends /\ TableInverse' /\ HandlesKnown'
    BY <1>1, InternKnown DEF Intern
  <2>2. NamesKnown'
    BY <1>1, <2>1, OldNames DEF Intern
  <2> QED  BY <2>1, <2>2 DEF IInv
<1>2. ASSUME NEW moves \in BOOLEAN, NEW t \in Tuple, AsConcreteId(t, moves)
      PROVE  IInv'
  <2> DEFINE v == Named(t)
  <2>1. v = Render[t] /\ v \in Value
    BY ValuesAssumption DEF Named, Value
  <2>2. panic = "no" /\ TryIntern(v, moves) /\ handles' = handles \cup Returned(v)
    BY <1>2 DEF AsConcreteId
  <2> HIDE DEF v
  <2>3. Extends /\ TableInverse' /\ HandlesKnown'
    BY <2>1, <2>2, InternKnown
  <2>4. CASE panic' = "no"
    <3>1. names' = Extend(names, t, Ref(Index(v)))
      BY <1>2, <2>4 DEF AsConcreteId, v
    <3>2. Index(v) \in Nat /\ v \in DOMAIN ids' /\ ids'[v] = Index(v)
      BY <2>1, <2>2, <2>4, InternExtends DEF IInv
    <3>3. \A u \in DOMAIN names : /\ names[u].index \in Nat
            /\ Render[u] \in DOMAIN ids' /\ ids'[Render[u]] = names[u].index
      BY <2>3, OldKnown DEF IInv, NamesKnown
    <3>4. DOMAIN names' = DOMAIN names \cup {t} /\ DOMAIN names' \subseteq Tuple
      BY <3>1 DEF Extend, IInv, NamesKnown
    <3>5. names'[t].index = Index(v) /\ \A u \in DOMAIN names : u # t => names'[u] = names[u]
      BY <3>1 DEF Extend, Ref
    <3>6. ASSUME NEW u \in DOMAIN names'
          PROVE  /\ names'[u].index \in Nat
                 /\ Render[u] \in DOMAIN ids' /\ ids'[Render[u]] = names'[u].index
      <4>1. CASE u = t
        BY <2>1, <3>2, <3>5, <4>1
      <4>2. CASE u # t
        BY <3>3, <3>4, <3>5, <4>2
      <4> QED  BY <4>1, <4>2
    <3>7. NamesKnown'
      BY <2>3, <3>4, <3>6 DEF NamesKnown, Extends
    <3> QED  BY <2>3, <3>7 DEF IInv
  <2>5. CASE panic' # "no"
    <3>1. names' = names
      BY <1>2, <2>5 DEF AsConcreteId
    <3> QED  BY <2>3, <3>1, OldNames DEF IInv
  <2> QED  BY <2>4, <2>5
<1>3. ASSUME NEW h \in handles, FromConcrete(h) \/ FromTuple(h)
      PROVE  IInv'
  <2>1. Lock /\ handles' = handles /\ names' = names
    BY <1>3 DEF FromConcrete, FromTuple
  <2>2. Extends
    BY <2>1, LockExtends DEF IInv
  <2>3. TableInverse' /\ NamesKnown'
    BY <2>1, <2>2, OldKnown, OldNames
  <2>4. HandlesKnown'
    BY <2>1, <2>2, OldKnown DEF IInv, HandlesKnown
  <2> QED  BY <2>3, <2>4 DEF IInv
<1>4. ASSUME UNCHANGED internVars
      PROVE  IInv'
  BY <1>4 DEF internVars, table, IInv, TableInverse, HandlesKnown, NamesKnown, Ids, Inverse
<1> QED
  BY <1>1, <1>2, <1>3, <1>4 DEF InternNext, Panicked

-----------------------------------------------------------------------------
\* The vector of the table inverts its map, and the map knows every handle and
\* every remembered name, in every state of the engine.
THEOREM Invariance == InternSpec => []IInv
BY InitIInv, StepIInv, PTL DEF InternSpec

\* Two handles are equal exactly when they stand for equal values: comparing and
\* hashing an Interned<T> by its index is comparing and hashing values.
THEOREM Canonical == InternSpec => []HandlesCanonical
<1>1. IInv => HandlesCanonical
  <2> SUFFICES ASSUME IInv, NEW g \in handles, NEW h \in handles
               PROVE  g.index = h.index <=> g.value = h.value
    BY DEF HandlesCanonical
  <2>1. Inverse(Items, Ids)
    BY TableFacts DEF IInv
  <2>2. g.value \in DOMAIN Ids /\ Ids[g.value] = g.index /\ h.value \in DOMAIN Ids /\ Ids[h.value] = h.index
    BY DEF IInv, HandlesKnown
  <2>3. Items[g.index + 1] = g.value /\ Items[h.index + 1] = h.value
    BY <2>1, <2>2 DEF Inverse
  <2> QED  BY <2>2, <2>3
<1> QED
  BY <1>1, Invariance, PTL

\* Interned::get gives back, at any later time, the value the handle was made
\* for, also when the handle was computed at compile time.
THEOREM Denote == InternSpec => []HandlesDenote
<1>1. IInv => HandlesDenote
  <2> SUFFICES ASSUME IInv, NEW h \in handles
               PROVE  h.index < Len(Items) /\ Items[h.index + 1] = h.value
    BY DEF HandlesDenote
  <2>1. Inverse(Items, Ids)
    BY TableFacts DEF IInv
  <2>2. h.value \in DOMAIN Ids /\ Ids[h.value] = h.index
    BY DEF IInv, HandlesKnown
  <2>3. Len(Items) \in Nat
    BY <2>1 DEF Inverse
  <2> QED  BY <2>1, <2>2, <2>3 DEF Inverse
<1> QED
  BY <1>1, Invariance, PTL

\* TupleId::as_concreteid keeps giving the entry of the tuple's concrete rendering.
THEOREM NamesStay == InternSpec => []NamesDenote
<1>1. IInv => NamesDenote
  <2> SUFFICES ASSUME IInv, NEW t \in DOMAIN names
               PROVE  names[t].index < Len(items) /\ items[names[t].index + 1] = Render[t]
    BY DEF NamesDenote
  <2>1. forced /\ Render[t] \in DOMAIN ids /\ ids[Render[t]] = names[t].index
    BY DEF IInv, NamesKnown
  <2>2. Inverse(items, ids)
    BY <2>1 DEF IInv, TableInverse
  <2>3. Len(items) \in Nat
    BY <2>2 DEF Inverse
  <2> QED  BY <2>1, <2>2, <2>3 DEF Inverse
<1> QED
  BY <1>1, Invariance, PTL

\* What was ever looked up in the table, by handle or by tuple identifier, is still there.
THEOREM EntriesStay == InternSpec => []EntriesDenote
BY Denote, NamesStay, PTL DEF EntriesDenote

\* The table only grows, at its end: no step of the engine removes a value or
\* gives it another index, the step that first locks the table included.
THEOREM OnlyGrows == InternSpec => NeverRemoved
<1> DEFINE Kept == \A i \in 1..Len(Items) : i \in DOMAIN items' /\ items'[i] = Items[i]
<1>1. ASSUME IInv, InternNext, ~UNCHANGED internVars
      PROVE  Kept
  <2>1. Extends => Kept
    <3> SUFFICES ASSUME Extends PROVE Kept
      OBVIOUS
    <3>1. items' \in Seq(Value) /\ \A k \in 1..Len(Items) : k \in 1..Len(items') /\ items'[k] = Items[k]
      BY DEF Extends, Inverse
    <3> QED  BY <3>1
  <2>2. ASSUME NEW moves \in BOOLEAN, NEW v \in Value, Intern(v, moves)
        PROVE  Extends
    BY <1>1, <2>2, InternExtends DEF Intern, IInv
  <2>3. ASSUME NEW moves \in BOOLEAN, NEW t \in Tuple, AsConcreteId(t, moves)
        PROVE  Extends
    <3>1. Named(t) \in Value
      BY ValuesAssumption DEF Named, Value
    <3>2. panic = "no" /\ TryIntern(Named(t), moves)
      BY <2>3 DEF AsConcreteId
    <3> QED  BY <1>1, <3>1, <3>2, InternExtends DEF IInv
  <2>4. ASSUME NEW h \in handles, FromConcrete(h) \/ FromTuple(h)
        PROVE  Extends
    BY <1>1, <2>4, LockExtends DEF FromConcrete, FromTuple, IInv
  <2> QED  BY <1>1, <2>1, <2>2, <2>3, <2>4 DEF InternNext, Panicked
<1>2. IInv /\ [InternNext]_internVars => [Kept]_internVars
  BY <1>1
<1> QED
  BY <1>2, Invariance, PTL DEF InternSpec, NeverRemoved
=============================================================================
