------------------------------ MODULE CoreIter ------------------------------
(***************************************************************************)
(* The iterators of core-models (iter.rs, and those of slices in slice.rs):*)
(* adapters over adapters, whose `next` drives the `next` of what they     *)
(* hold, and the methods that consume an iterator in a loop.  Items says   *)
(* what the iterator of std yields.  The variables are those of one loop.  *)
(***************************************************************************)
EXTENDS CoreInt, Sequences, FiniteSets

CONSTANTS
  Iterators,  \* the iterators a caller builds
  Calls,      \* the methods it consumes them with
  Usages      \* how many items the argument of nth skips

VARIABLES
  iter,    \* the iterator a loop owns
  call,    \* the method the loop is of
  skips,   \* the argument of nth
  acc,     \* the local variable of the loop
  result,  \* what it returned
  items    \* what the iterator of std yields; only the properties read it

iterVars == <<iter, call, skips, acc, result, items>>

-------------------------------------------------------------------------------
(* The closures of the caller. *)

Odd(x) == x % 2 = 1
Twice(x) == 2 * x + 1
Combined(a, x) == 3 * a + x
Key(x) == x \div 2  \* what Ord::cmp compares: equal items need not be the same item

-------------------------------------------------------------------------------
(* The iterators. *)

Iter(s) == [kind |-> "iter", seq |-> s]
RangeTo(n) == [kind |-> "range", from |-> 0, to |-> n]
Chunks(s, size) == [kind |-> "chunks", seq |-> s, size |-> size]
ChunksExact(s, size) == [kind |-> "chunks_exact", seq |-> s, size |-> size]
Windows(s, size) == [kind |-> "windows", seq |-> s, size |-> size]
Enumerate(i) == [kind |-> "enumerate", of |-> i, count |-> 0]
StepBy(i, step) == [kind |-> "step_by", of |-> i, step |-> step]
Map(i) == [kind |-> "map", of |-> i]
Take(i, n) == [kind |-> "take", of |-> i, n |-> n]
Skip(i, n) == [kind |-> "skip", of |-> i, n |-> n]
Filter(i) == [kind |-> "filter", of |-> i]
FlatMap(i) == [kind |-> "flat_map", of |-> i, current |-> None]
Flatten(i) == [kind |-> "flatten", of |-> i, current |-> None]
Zip(i, j) == [kind |-> "zip", of |-> i, with |-> j]
Chain(i, j) == [kind |-> "chain", a |-> Some(i), b |-> j]

RECURSIVE Advance(_)  \* next: the item and the iterator afterwards

Yield(i, x) == [item |-> Some(x), then |-> i]
Stop(i) == [item |-> None, then |-> i]

IterNext(i) == IF i.seq = <<>> THEN Stop(i) ELSE Yield(Iter(Tail(i.seq)), Head(i.seq))

RangeStep(i) == IF i.from >= i.to THEN Stop(i) ELSE Yield([i EXCEPT !.from = @ + 1], i.from)

\* Variant: the incomplete chunk at the end is dropped.
ChunksNext_Exact(i) ==
  IF Len(i.seq) < i.size THEN Stop(i)
  ELSE Yield([i EXCEPT !.seq = SubSeq(@, i.size + 1, Len(@))], SubSeq(i.seq, 1, i.size))

ChunksNext(i) ==
  IF i.seq = <<>> THEN Stop(i)
  ELSE IF Len(i.seq) < i.size THEN Yield([i EXCEPT !.seq = <<>>], i.seq)
  ELSE Yield([i EXCEPT !.seq = SubSeq(@, i.size + 1, Len(@))], SubSeq(i.seq, 1, i.size))

ChunksExactNext(i) ==
  IF Len(i.seq) < i.size THEN Stop(i)
  ELSE Yield([i EXCEPT !.seq = SubSeq(@, i.size + 1, Len(@))], SubSeq(i.seq, 1, i.size))

WindowsNext(i) ==
  IF Len(i.seq) < i.size THEN Stop(i)
  ELSE Yield([i EXCEPT !.seq = Tail(@)], SubSeq(i.seq, 1, i.size))

\* The adapters move what they hold to where its `next` left it.
Moved(i, n) == [i EXCEPT !.of = n.then]

EnumerateNext(i) ==
  LET n == Advance(i.of)
  IN  IF n.item.some THEN Yield([Moved(i, n) EXCEPT !.count = @ + 1], <<i.count, n.item.value>>)
      ELSE Stop(Moved(i, n))

\* `for _ in 1..step`, then one more.
StepByNext(i) ==
  LET Drop[k \in Nat] == IF k <= 1 THEN [item |-> Some(0), then |-> i.of]
                         ELSE IF Drop[k - 1].item.some THEN Advance(Drop[k - 1].then) ELSE Drop[k - 1]
      n == IF Drop[i.step].item.some THEN Advance(Drop[i.step].then) ELSE Drop[i.step]
  IN  [item |-> n.item, then |-> Moved(i, n)]

MapNext(i) ==
  LET n == Advance(i.of)
  IN  IF n.item.some THEN Yield(Moved(i, n), Twice(n.item.value)) ELSE Stop(Moved(i, n))

TakeNext(i) ==
  IF i.n = 0 THEN Stop(i)
  ELSE LET n == Advance(i.of) IN [item |-> n.item, then |-> [Moved(i, n) EXCEPT !.n = @ - 1]]

RECURSIVE SkipNext(_)
SkipNext(i) ==
  LET n == Advance(i.of)
      moved == Moved(i, n)
  IN  IF i.n = 0 THEN [item |-> n.item, then |-> moved]
      ELSE IF n.item.some THEN SkipNext([moved EXCEPT !.n = @ - 1])
      ELSE Stop([moved EXCEPT !.n = @ - 1])

RECURSIVE FilterNext(_)
FilterNext(i) ==
  LET n == Advance(i.of)
  IN  IF ~n.item.some THEN Stop(Moved(i, n))
      ELSE IF Odd(n.item.value) THEN Yield(Moved(i, n), n.item.value)
      ELSE FilterNext(Moved(i, n))

\* flat_map and flatten: the current inner iterator is exhausted before the next one.
RECURSIVE FlatNext(_)
FlatNext(i) ==
  LET inner == Advance(i.current.value)
      outer == Advance(i.of)
      opened == IF i.kind = "flat_map" THEN RangeTo(outer.item.value) ELSE Iter(outer.item.value)
  IN  IF i.current.some /\ inner.item.some
      THEN Yield([i EXCEPT !.current = Some(inner.then)], inner.item.value)
      ELSE IF outer.item.some
      THEN FlatNext([Moved(i, outer) EXCEPT !.current = Some(opened)])
      ELSE Stop([Moved(i, outer) EXCEPT
                   !.current = IF i.current.some THEN Some(inner.then) ELSE None])

\* The second iterator moves only when the first has an item.
ZipNext(i) ==
  LET n == Advance(i.of)
      m == Advance(i.with)
  IN  IF ~n.item.some THEN Stop(Moved(i, n))
      ELSE LET moved == [Moved(i, n) EXCEPT !.with = m.then]
           IN  IF m.item.some THEN Yield(moved, <<n.item.value, m.item.value>>) ELSE Stop(moved)

\* The first iterator is dropped at its first None.
ChainNext(i) ==
  LET n == Advance(i.a.value)
      m == Advance(i.b)
  IN  IF i.a.some /\ n.item.some THEN Yield([i EXCEPT !.a = Some(n.then)], n.item.value)
      ELSE [item |-> m.item, then |-> [i EXCEPT !.a = None, !.b = m.then]]

Advance(i) ==
  CASE i.kind = "iter" -> IterNext(i)
    [] i.kind = "range" -> RangeStep(i)
    [] i.kind = "chunks" -> ChunksNext(i)
    [] i.kind = "chunks_exact" -> ChunksExactNext(i)
    [] i.kind = "windows" -> WindowsNext(i)
    [] i.kind = "enumerate" -> EnumerateNext(i)
    [] i.kind = "step_by" -> StepByNext(i)
    [] i.kind = "map" -> MapNext(i)
    [] i.kind = "take" -> TakeNext(i)
    [] i.kind = "skip" -> SkipNext(i)
    [] i.kind = "filter" -> FilterNext(i)
    [] i.kind \in {"flat_map", "flatten"} -> FlatNext(i)
    [] i.kind = "zip" -> ZipNext(i)
    [] i.kind = "chain" -> ChainNext(i)

-------------------------------------------------------------------------------
(* What std's iterators yield, from their documentation. *)

Smaller(m, n) == IF m < n THEN m ELSE n
RECURSIVE Concatenated(_)
Concatenated(ss) == IF ss = <<>> THEN <<>> ELSE Head(ss) \o Concatenated(Tail(ss))
UpTo(n) == [k \in 1..n |-> k - 1]
Cut(s, size, count) ==
  [k \in 1..count |-> SubSeq(s, (k - 1) * size + 1, Smaller(k * size, Len(s)))]

RECURSIVE Items(_)
Items(i) ==
  CASE i.kind = "iter" -> i.seq
    [] i.kind = "range" -> UpTo(i.to)
    [] i.kind = "chunks" -> Cut(i.seq, i.size, (Len(i.seq) + i.size - 1) \div i.size)
    [] i.kind = "chunks_exact" -> Cut(i.seq, i.size, Len(i.seq) \div i.size)
    [] i.kind = "windows" ->
         [k \in 1..(IF Len(i.seq) < i.size THEN 0 ELSE Len(i.seq) - i.size + 1)
            |-> SubSeq(i.seq, k, k + i.size - 1)]
    [] i.kind = "enumerate" -> [k \in 1..Len(Items(i.of)) |-> <<k - 1, Items(i.of)[k]>>]
    [] i.kind = "step_by" ->
         [k \in 1..((Len(Items(i.of)) + i.step - 1) \div i.step) |-> Items(i.of)[(k - 1) * i.step + 1]]
    [] i.kind = "map" -> [k \in 1..Len(Items(i.of)) |-> Twice(Items(i.of)[k])]
    [] i.kind = "take" -> SubSeq(Items(i.of), 1, Smaller(i.n, Len(Items(i.of))))
    [] i.kind = "skip" -> SubSeq(Items(i.of), i.n + 1, Len(Items(i.of)))
    [] i.kind = "filter" -> SelectSeq(Items(i.of), Odd)
    [] i.kind = "flat_map" -> Concatenated([k \in 1..Len(Items(i.of)) |-> UpTo(Items(i.of)[k])])
    [] i.kind = "flatten" -> Concatenated(Items(i.of))
    [] i.kind = "zip" ->
         [k \in 1..Smaller(Len(Items(i.of)), Len(Items(i.with))) |-> <<Items(i.of)[k], Items(i.with)[k]>>]
    [] i.kind = "chain" -> Items(i.a.value) \o Items(i.b)

-------------------------------------------------------------------------------
(* The methods that consume an iterator. *)

IterInit ==
  /\ iter \in Iterators /\ items = Items(iter)
  /\ call \in Calls
  /\ skips \in (IF call = "nth" THEN Usages ELSE {0})
  /\ acc = CASE call \in {"fold", "collect", "for_each"} -> <<>>
             [] call \in {"position", "count", "nth"} -> 0
             [] OTHER -> None  \* no item yet: last, reduce, min, max
  /\ result = None

\* What the loop does with an item x: it returns, or goes on with another acc.
Answer(x) ==
  CASE call = "all" -> IF Odd(x) THEN None ELSE Some(FALSE)
    [] call = "any" -> IF Odd(x) THEN Some(TRUE) ELSE None
    [] call = "find" -> IF Odd(x) THEN Some(Some(x)) ELSE None
    [] call = "find_map" -> IF Odd(x) THEN Some(Some(Twice(x))) ELSE None
    [] call = "position" -> IF Odd(x) THEN Some(Some(acc)) ELSE None
    [] call = "nth" -> IF acc = skips THEN Some(Some(x)) ELSE None
    [] OTHER -> None

Absorbed(x) ==
  CASE call \in {"fold", "collect", "for_each"} -> Append(acc, x)
    [] call \in {"position", "count", "nth"} -> acc + 1
    [] call = "last" -> Some(x)
    [] call = "reduce" -> IF acc.some THEN Some(Combined(acc.value, x)) ELSE Some(x)
    [] call = "min" -> IF acc.some /\ ~(Key(x) < Key(acc.value)) THEN acc ELSE Some(x)
    [] call = "max" -> IF acc.some /\ ~(Key(x) > Key(acc.value)) THEN acc ELSE Some(x)
    [] OTHER -> acc

LoopItem ==
  LET n == Advance(iter)
  IN  /\ ~result.some /\ n.item.some
      /\ iter' = n.then
      /\ result' = Answer(n.item.value)
      /\ acc' = IF result'.some THEN acc ELSE Absorbed(n.item.value)
      /\ UNCHANGED <<call, skips, items>>

\* The loop ends at the first None.
LoopEnds ==
  LET n == Advance(iter)
  IN  /\ ~result.some /\ ~n.item.some
      /\ iter' = n.then
      /\ result' = CASE call \in {"all", "any"} -> Some(call = "all")
                     [] call \in {"find", "find_map", "position", "nth"} -> Some(None)
                     [] OTHER -> Some(acc)
      /\ UNCHANGED <<call, skips, acc, items>>

IterationStep == LoopItem \/ LoopEnds
IterSpec == IterInit /\ [][IterationStep]_iterVars

-------------------------------------------------------------------------------
(* Properties. *)

OddPlaces == {k \in 1..Len(items) : Odd(items[k])}
FirstOdd == CHOOSE k \in OddPlaces : \A j \in OddPlaces : k <= j
RECURSIVE Reduced(_)
Reduced(k) == IF k = 1 THEN items[1] ELSE Combined(Reduced(k - 1), items[k])

\* Each method returns what the method of std returns of the same items, in their order;
\* max only one of the greatest items (iter.rs keeps the first of several, std the last).
ReturnsAgree ==
  result.some =>
    LET r == result.value
    IN  CASE call \in {"fold", "collect", "for_each"} -> r = items
          [] call = "all" -> r = (OddPlaces = 1..Len(items))
          [] call = "any" -> r = (OddPlaces # {})
          [] call = "find" -> r = IF OddPlaces = {} THEN None ELSE Some(items[FirstOdd])
          [] call = "find_map" -> r = IF OddPlaces = {} THEN None ELSE Some(Twice(items[FirstOdd]))
          [] call = "position" -> r = IF OddPlaces = {} THEN None ELSE Some(FirstOdd - 1)
          [] call = "count" -> r = Len(items)
          [] call = "nth" -> r = IF skips < Len(items) THEN Some(items[skips + 1]) ELSE None
          [] call = "last" -> r = IF items = <<>> THEN None ELSE Some(items[Len(items)])
          [] call = "reduce" -> r = IF items = <<>> THEN None ELSE Some(Reduced(Len(items)))
          [] call = "min" ->
               IF items = <<>> THEN r = None
               ELSE \E k \in 1..Len(items) :
                      /\ r = Some(items[k])
                      /\ \A j \in 1..Len(items) : Key(items[k]) <= Key(items[j])
                      /\ \A j \in 1..(k - 1) : Key(items[k]) < Key(items[j])
          [] call = "max" ->
               IF items = <<>> THEN r = None
               ELSE \E k \in 1..Len(items) :
                      r = Some(items[k]) /\ \A j \in 1..Len(items) : Key(items[j]) <= Key(items[k])

CallsAgain == 3  \* bound: how often next is called after a None

\* An iterator that has returned its None returns no item when it is asked again, although
\* the adapters in it then call the next of what they hold again (flat_map of both the
\* current and the outer one, chain of its second, skip what is left to skip): std's
\* adapters are fused when what they hold is.
StaysEmpty ==
  call = "count" /\ result.some =>
    LET After[k \in 0..CallsAgain] == IF k = 0 THEN iter ELSE Advance(After[k - 1]).then
    IN  \A k \in 0..(CallsAgain - 1) : ~Advance(After[k]).item.some

\* Every consuming method of a composition of adapters returns what std's does of the same
\* items, and what it leaves behind is at its end, as std's is.
MethodsAgree == ReturnsAgree /\ StaysEmpty
===============================================================================
