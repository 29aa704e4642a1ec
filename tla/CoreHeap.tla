------------------------------ MODULE CoreHeap ------------------------------
(***************************************************************************)
(* The BinaryHeap of core-models (alloc/src/lib.rs, collections::          *)
(* binary_heap): not a heap but a vector, of which peek and pop look for a *)
(* greatest element with a loop each.  The F* extraction assumes without a *)
(* proof that they agree (lemma_peek_pop).                                 *)
(***************************************************************************)
EXTENDS Integers, Sequences, RustOption

CONSTANTS
  Elem,    \* the elements
  Rank,    \* what their Ord compares: different elements may be equal for it
  MaxLen   \* usize::MAX

ASSUME HeapAssumption == Rank \in [Elem -> Int] /\ MaxLen \in Nat

VARIABLES
  heap,      \* the vector
  running,   \* the method whose loop runs: "none", "peek" or "pop"
  seen,      \* how many elements the loop has seen
  max,       \* the greatest of them
  index,     \* its index
  returned,  \* what the last method returned
  promised   \* what peek has said of the heap as it is; only the properties read it

heapVars == <<heap, running, seen, max, index, returned, promised>>

HeapInit ==
  /\ heap = <<>> /\ running = "none"
  /\ seen = 0 /\ max = None /\ index = 0
  /\ returned = None /\ promised = {}

\* The precondition of push (`requires`) keeps the length a usize.
Push(v) ==
  /\ running = "none" /\ Len(heap) < MaxLen
  /\ heap' = Append(heap, v)
  /\ promised' = {}
  /\ UNCHANGED <<running, seen, max, index, returned>>

Call(method) ==
  /\ running = "none" /\ running' = method
  /\ seen' = 0 /\ max' = None /\ index' = 0
  /\ UNCHANGED <<heap, returned, promised>>

\* Variant: pop prefers the last of equal elements.
Greater_OrEqual(v) ==
  max.some => IF running = "pop" THEN Rank[v] >= Rank[max.value] ELSE Rank[v] > Rank[max.value]

\* max.is_none_or(|max| v > *max)
Greater(v) == max.some => Rank[v] > Rank[max.value]

Look ==
  /\ running # "none" /\ seen < Len(heap)
  /\ LET v == heap[seen + 1]
     IN  IF Greater(v) THEN max' = Some(v) /\ index' = seen ELSE UNCHANGED <<max, index>>
  /\ seen' = seen + 1
  /\ UNCHANGED <<heap, running, returned, promised>>

\* remove(index): the elements after it move down.
Without(s, k) == [j \in 1..(Len(s) - 1) |-> IF j <= k THEN s[j] ELSE s[j + 1]]

PopReturns ==
  /\ running = "pop" /\ seen = Len(heap)
  /\ heap' = IF max.some THEN Without(heap, index) ELSE heap
  /\ returned' = max
  /\ running' = "none" /\ promised' = {}
  /\ UNCHANGED <<seen, max, index>>

PeekReturns ==
  /\ running = "peek" /\ seen = Len(heap)
  /\ returned' = max
  /\ running' = "none" /\ promised' = {max}
  /\ UNCHANGED <<heap, seen, max, index>>

HeapNext ==
  \/ \E v \in Elem : Push(v)
  \/ \E method \in {"peek", "pop"} : Call(method)
  \/ Look \/ PopReturns \/ PeekReturns

HeapSpec == HeapInit /\ [][HeapNext]_heapVars

-------------------------------------------------------------------------------
(* Properties. *)

HeapTypeOK ==
  /\ heap \in Seq(Elem) /\ Len(heap) <= MaxLen
  /\ running \in {"none", "peek", "pop"} /\ seen \in 0..MaxLen
  /\ max = None \/ \E v \in Elem : max = Some(v)
  /\ index \in Nat
  /\ returned = None \/ \E v \in Elem : returned = Some(v)
  /\ \A m \in promised : m = None \/ \E v \in Elem : m = Some(v)

\* Element k is the first of the greatest among the first n.
IsFirstGreatest(n, k) ==
  /\ k \in 1..n
  /\ \A j \in 1..n : Rank[heap[j]] <= Rank[heap[k]]
  /\ \A j \in 1..(k - 1) : Rank[heap[j]] < Rank[heap[k]]

\* What the two loops keep: the greatest element seen is the one at index, and there is
\* one as soon as one was seen (the loop_invariant of the source).
LoopInvariant ==
  running # "none" =>
    /\ seen <= Len(heap)
    /\ IF seen = 0 THEN max = None
       ELSE max = Some(heap[index + 1]) /\ IsFirstGreatest(seen, index + 1)

\* lemma_peek_pop, which the extraction assumes: pop returns what peek returned when
\* nothing was pushed or popped in between, even among elements their Ord cannot tell.
PeekIsPop == [][PopReturns => \A m \in promised : returned' = m]_heapVars

\* pop takes one greatest element and leaves the others, in their order; it returns None
\* only of an empty heap (the `ensures` of the source).
PopTakesGreatest ==
  [][PopReturns =>
       IF heap = <<>> THEN returned' = None /\ heap' = heap
       ELSE \E k \in 1..Len(heap) :
              /\ returned' = Some(heap[k])
              /\ \A j \in 1..Len(heap) : Rank[heap[j]] <= Rank[heap[k]]
              /\ Len(heap') = Len(heap) - 1
              /\ \A j \in 1..(k - 1) : heap'[j] = heap[j]
              /\ \A j \in k..Len(heap') : heap'[j] = heap[j + 1]]_heapVars

\* The heap is a priority queue: what pop takes is greatest, and what peek promised.
PriorityQueue == PeekIsPop /\ PopTakesGreatest
=============================================================================
