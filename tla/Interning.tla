------------------------------- MODULE Interning -------------------------------
(***************************************************************************)
(* The interning of global identifiers in the Rust engine.                 *)
(*                                                                         *)
(* A value is interned in a table that lives as long as the engine; its    *)
(* handle is its index.  The handles of the identifiers hax knows by name  *)
(* are computed when the engine is compiled, and the table is filled with  *)
(* their values when it is first locked.  `get` turns a handle into a      *)
(* `&'static` reference to the element of the table's vector.  Two memo    *)
(* tables keep such references: `as_concreteid` for the concrete name of a *)
(* tuple identifier, `from_global_id` for the concrete identifier behind a *)
(* handle.                                                                 *)
(*                                                                         *)
(* A vector that is full is given twice the room, and its elements may     *)
(* move: `buffer` tells the successive places apart.  The identifiers of   *)
(* fresh modules are interned like the others and have no memo: they are   *)
(* left out.                                                               *)
(***************************************************************************)
EXTENDS Integers, Sequences, FiniteSets

CONSTANTS
  Concrete,    \* values GlobalIdInner::Concrete
  Tuple,       \* values GlobalIdInner::Tuple
  Render,      \* Render[t]: the concrete identifier of the tuple identifier t
  Predefined,  \* the values of `new_with_values`, in order
  MinCapacity, \* capacity of a vector after its first push
  MaxIndex     \* u32::MAX

Value == Concrete \cup Tuple
ASSUME ValuesAssumption == Concrete \cap Tuple = {} /\ Render \in [Tuple -> Concrete]
\* `new_with_values` panics on duplicates and asserts that the length is below u32::MAX.
ASSUME PredefinedAssumption ==
  /\ Predefined \in Seq(Value)
  /\ \A i, j \in 1..Len(Predefined) : Predefined[i] = Predefined[j] => i = j
  /\ MaxIndex \in Nat /\ Len(Predefined) < MaxIndex
ASSUME CapacityAssumption == MinCapacity \in Nat \ {0}

VARIABLES
  forced,    \* the LazyLock has filled the table
  items,     \* the vector of the table
  ids,       \* its map from values to indexes
  capacity,  \* the capacity of the vector
  buffer,    \* where its elements are
  handles,   \* the handles in the program, each with the value it was made for
  names,     \* the memo of as_concreteid: references by tuple identifier
  concretes, \* the memo of from_global_id: references by index
  panic      \* "no", "full" or "unreachable"

table == <<forced, items, ids, capacity, buffer>>
internVars == <<table, handles, names, concretes, panic>>

Handle(i, v) == [index |-> i, value |-> v]
Ref(i) == [buffer |-> buffer', index |-> i]
Extend(f, x, y) == [z \in DOMAIN f \cup {x} |-> IF z = x THEN y ELSE f[z]]
Nothing == [x \in {} |-> x]

InternInit ==
  /\ forced = FALSE
  /\ items = << >> /\ ids = Nothing /\ capacity = 0 /\ buffer = 0
  /\ handles = {Handle(i - 1, Predefined[i]) : i \in 1..Len(Predefined)}
  /\ names = Nothing /\ concretes = Nothing
  /\ panic = "no"

(***************************************************************************)
(* The table, as it is once locked.                                        *)
(***************************************************************************)
\* Variant: the table starts empty.
Items_Lazy == items
Items == IF forced THEN items ELSE Predefined
\* Index of a predefined value.
Place(v) == (CHOOSE i \in 1..Len(Predefined) : Predefined[i] = v) - 1
Ids == IF forced THEN ids ELSE [v \in {Predefined[i] : i \in 1..Len(Predefined)} |-> Place(v)]

\* The capacity a vector reaches with n pushes from empty.
Capacity(n) ==
  IF n = 0 THEN 0
  ELSE CHOOSE c \in {MinCapacity * 2^k : k \in 0..n} : n <= c /\ (c = MinCapacity \/ c < 2 * n)
Room == IF forced THEN capacity ELSE Capacity(Len(Predefined))
Full == Len(Items) = Room

Lock ==
  /\ forced' = TRUE /\ items' = Items /\ ids' = Ids /\ capacity' = Room
  /\ UNCHANGED buffer

\* Variant: the table is emptied when its vector is full.
Pushed_Reset(v) == IF Full THEN <<v>> ELSE Append(Items, v)
Pushed(v) == Append(Items, v)

\* Variant: every value gets a new index.
Known_Never(v) == FALSE
Known(v) == v \in DOMAIN Ids

Index(v) == IF Known(v) THEN Ids[v] ELSE Len(Items)

\* `try_intern`: the value is pushed before its index is seen to fit.
TryIntern(v, moves) ==
  IF Known(v)
  THEN Lock /\ UNCHANGED panic
  ELSE /\ forced' = TRUE
       /\ items' = Pushed(v)
       /\ capacity' = IF ~Full THEN Room ELSE IF Room = 0 THEN MinCapacity ELSE 2 * Room
       /\ buffer' = IF Full /\ moves THEN buffer + 1 ELSE buffer
       /\ IF Len(Items) <= MaxIndex
          THEN ids' = Extend(Ids, v, Len(Items)) /\ UNCHANGED panic
          ELSE ids' = Ids /\ panic' = "full"

\* The handle `intern` returns, unless it panics.
Returned(v) == IF panic' = "no" THEN {Handle(Index(v), v)} ELSE {}

(***************************************************************************)
(* The engine.                                                             *)
(***************************************************************************)
Intern(v, moves) ==
  /\ panic = "no"
  /\ TryIntern(v, moves)
  /\ handles' = handles \cup Returned(v)
  /\ UNCHANGED <<names, concretes>>

\* The concrete identifier of the tuple.
Named(t) == Render[t]

\* `as_concreteid`, on a tuple identifier met in the program.
AsConcreteId(t, moves) ==
  /\ panic = "no"
  /\ \E h \in handles : h.value = t
  /\ t \notin DOMAIN names
  /\ TryIntern(Named(t), moves)
  /\ handles' = handles \cup Returned(Named(t))
  /\ names' = IF panic' = "no" THEN Extend(names, t, Ref(Index(Named(t)))) ELSE names
  /\ UNCHANGED concretes

\* `from_global_id`, on a concrete identifier.
FromConcrete(h) ==
  /\ panic = "no"
  /\ h.index \notin DOMAIN concretes
  /\ h.value \in Concrete
  /\ Lock
  /\ concretes' = Extend(concretes, h.index, Ref(h.index))
  /\ UNCHANGED <<handles, names, panic>>

\* And on a tuple identifier: `GlobalId::from` interns it again and finds it, a tuple.
FromTuple(h) ==
  /\ panic = "no"
  /\ h.index \notin DOMAIN concretes
  /\ h.value \in Tuple
  /\ Lock
  /\ panic' = "unreachable"
  /\ UNCHANGED <<handles, names, concretes>>

Panicked == panic # "no" /\ UNCHANGED internVars

InternNext ==
  \/ \E moves \in BOOLEAN :
       \/ \E v \in Value : Intern(v, moves)
       \/ \E t \in Tuple : AsConcreteId(t, moves)
  \/ \E h \in handles : FromConcrete(h) \/ FromTuple(h)
  \/ Panicked

InternSpec == InternInit /\ [][InternNext]_internVars

(***************************************************************************)
(* Properties.                                                             *)
(***************************************************************************)
\* Equal handles are handles of equal values and conversely, the ones fixed at
\* compile time included, whether the table is locked before they are used or
\* after other values were interned: what lets Interned<T> compare indexes.
HandlesCanonical ==
  \A g, h \in handles : g.index = h.index <=> g.value = h.value

\* `get` of a handle, at any later time, gives the value it was made for.
HandlesDenote ==
  \A h \in handles : h.index < Len(Items) /\ Items[h.index + 1] = h.value

\* The name remembered for a tuple identifier stays the entry of its concrete rendering.
NamesDenote ==
  \A t \in DOMAIN names :
    names[t].index < Len(items) /\ items[names[t].index + 1] = Render[t]

\* Both: everything that was ever looked up in the table is still found there.
EntriesDenote == HandlesDenote /\ NamesDenote

\* A value is never removed from the table nor given another index, which is
\* what the comment on `get` rests the lifetime of references on.
NeverRemoved ==
  [][\A i \in 1..Len(Items) : i \in DOMAIN items' /\ items'[i] = Items[i]]_internVars

\* A `&'static` reference that a memo table keeps, and will hand out again, is
\* to an element of the vector the table has now.  "The `'static` reference is
\* sound as long as values are never removed from that table."
ReferencesStay ==
  /\ \A t \in DOMAIN names : names[t].buffer = buffer
  /\ \A i \in DOMAIN concretes : concretes[i].buffer = buffer
=============================================================================
