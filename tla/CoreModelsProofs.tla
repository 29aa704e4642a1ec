--------------------------- MODULE CoreModelsProofs ---------------------------
(***************************************************************************)
(* Proofs about two of the models of core and alloc.                       *)
(***************************************************************************)
EXTENDS CoreInt, CoreHeap, TLAPS

(***************************************************************************)
(* The integers are exact for every width of the types and of usize, not   *)
(* only for those a run can enumerate.  Each theorem about a property      *)
(* rests on a lemma about the operation, for any two operands.             *)
(***************************************************************************)
Types == Narrow \cup Wide

\* Every half range is a positive number, on its side of usize's.
LEMMA Widths ==
  ASSUME NEW h \in Types
  PROVE  /\ h \in Nat \ {0} /\ Usize \in Nat \ {0}
         /\ h \in Narrow => h <= Usize
         /\ h \notin Narrow => 2 * Usize <= h
BY IntAssumption, SMT DEF Types

\* Range::next stays within the type: its addition cannot overflow.
THEOREM RangeTyped == Spec => []TypeOK
<1>1. Init => TypeOK
  BY DEF Init, TypeOK
<1>2. TypeOK /\ [Next]_vars => TypeOK'
  <2> SUFFICES ASSUME TypeOK, [Next]_vars PROVE TypeOK'
    OBVIOUS
  <2>1. half \in Nat \ {0}
    BY Widths DEF TypeOK, Types
  <2>2. CASE RangeNext
    BY <2>1, <2>2, SMT DEF RangeNext, TypeOK, Values, Lowest, Highest
  <2>3. CASE UNCHANGED vars
    BY <2>3 DEF vars, TypeOK
  <2> QED BY <2>2, <2>3 DEF Next, RangeOver
<1> QED BY <1>1, <1>2, PTL DEF Spec

-------------------------------------------------------------------------------
(* One operation at a time. *)

\* Adding or subtracting a value of the same type is checked exactly.
LEMMA CheckedExact ==
  ASSUME NEW s \in BOOLEAN, NEW h \in Types, NEW v \in Int
  PROVE  Checked(s, h, v) = Exact(s, h, v)
BY Widths, SMT DEF Checked, Exact, Overflows, Wrapped, Values, Lowest, Highest

\* The Step implementations of the narrow types, forward.
LEMMA ForwardNarrowExact ==
  ASSUME NEW s \in BOOLEAN, NEW h \in Narrow, NEW v \in Values(s, h), NEW n \in Counts
  PROVE  ForwardNarrow(s, h, v, n) = Exact(s, h, v + n)
<1>1. h \in Nat \ {0} /\ Usize \in Nat \ {0} /\ h <= Usize
  BY Widths DEF Types
<1>2. v \in Int /\ n \in Int /\ v + n \in Int /\ n >= 0 /\ n < 2 * Usize
  BY <1>1, SMT DEF Values, Lowest, Highest, Counts
<1>3. /\ n < 2 * h => TryFromUsize(h, n).some
      /\ ~(n < 2 * h) => ~TryFromUsize(h, n).some
  BY <1>1, <1>2, SMT DEF TryFromUsize, TryFromNarrowing, None, Some, Lowest, Highest
<1>4. CASE ~(n < 2 * h)
  <2>1. v + n \notin Values(s, h)
    BY <1>1, <1>2, <1>4, SMT DEF Values, Lowest, Highest
  <2> QED BY <1>3, <1>4, <2>1 DEF ForwardNarrow, Exact
<1>5. CASE n < 2 * h /\ ~s
  <2>1. Checked(FALSE, h, v + n) = Exact(FALSE, h, v + n)
    BY <1>2, CheckedExact DEF Types
  <2> QED BY <1>3, <1>5, <2>1 DEF ForwardNarrow, CheckedAdd
<1>6. CASE n < 2 * h /\ s
  BY <1>1, <1>2, <1>3, <1>6, SMT
     DEF ForwardNarrow, AsSigned, Wrapped, Exact, Values, Lowest, Highest
<1> QED BY <1>4, <1>5, <1>6

\* Backward.
LEMMA BackwardNarrowExact ==
  ASSUME NEW s \in BOOLEAN, NEW h \in Narrow, NEW v \in Values(s, h), NEW n \in Counts
  PROVE  BackwardNarrow(s, h, v, n) = Exact(s, h, v - n)
<1>1. h \in Nat \ {0} /\ Usize \in Nat \ {0} /\ h <= Usize
  BY Widths DEF Types
<1>2. v \in Int /\ n \in Int /\ v - n \in Int /\ n >= 0 /\ n < 2 * Usize
  BY <1>1, SMT DEF Values, Lowest, Highest, Counts
<1>3. /\ n < 2 * h => TryFromUsize(h, n).some
      /\ ~(n < 2 * h) => ~TryFromUsize(h, n).some
  BY <1>1, <1>2, SMT DEF TryFromUsize, TryFromNarrowing, None, Some, Lowest, Highest
<1>4. CASE ~(n < 2 * h)
  <2>1. v - n \notin Values(s, h)
    BY <1>1, <1>2, <1>4, SMT DEF Values, Lowest, Highest
  <2> QED BY <1>3, <1>4, <2>1 DEF BackwardNarrow, Exact
<1>5. CASE n < 2 * h /\ ~s
  <2>1. Checked(FALSE, h, v - n) = Exact(FALSE, h, v - n)
    BY <1>2, CheckedExact DEF Types
  <2> QED BY <1>3, <1>5, <2>1 DEF BackwardNarrow, CheckedSub
<1>6. CASE n < 2 * h /\ s
  BY <1>1, <1>2, <1>3, <1>6, SMT
     DEF BackwardNarrow, AsSigned, Wrapped, Exact, Values, Lowest, Highest
<1> QED BY <1>4, <1>5, <1>6

-------------------------------------------------------------------------------
(* The properties of the runs. *)

\* forward_checked is exact, at every width.
THEOREM ForwardIsExact == Spec => []ForwardExact
<1>1. TypeOK => ForwardExact
  <2> SUFFICES ASSUME TypeOK, NEW n \in Counts
               PROVE  ForwardChecked(signed, half, start, n) = Exact(signed, half, start + n)
    BY DEF ForwardExact
  <2>1. half \in Types /\ Usize \in Nat
    BY IntAssumption DEF TypeOK, Types
  <2>2. start + n \in Int
    BY <2>1, Widths, SMT DEF TypeOK, Values, Lowest, Highest, Counts
  <2>3. CASE half \in Narrow
    BY <2>3, ForwardNarrowExact DEF TypeOK, ForwardChecked
  <2>4. CASE half \notin Narrow
    BY <2>1, <2>2, <2>4, CheckedExact DEF TypeOK, ForwardChecked, CheckedAdd
  <2> QED BY <2>3, <2>4
<1> QED BY <1>1, RangeTyped, PTL

\* backward_checked is exact, at every width.
THEOREM BackwardIsExact == Spec => []BackwardExact
<1>1. TypeOK => BackwardExact
  <2> SUFFICES ASSUME TypeOK, NEW n \in Counts
               PROVE  BackwardChecked(signed, half, start, n) = Exact(signed, half, start - n)
    BY DEF BackwardExact
  <2>1. half \in Types /\ Usize \in Nat
    BY IntAssumption DEF TypeOK, Types
  <2>2. start - n \in Int
    BY <2>1, Widths, SMT DEF TypeOK, Values, Lowest, Highest, Counts
  <2>3. CASE half \in Narrow
    BY <2>3, BackwardNarrowExact DEF TypeOK, BackwardChecked
  <2>4. CASE half \notin Narrow
    BY <2>1, <2>2, <2>4, CheckedExact DEF TypeOK, BackwardChecked, CheckedSub
  <2> QED BY <2>3, <2>4
<1> QED BY <1>1, RangeTyped, PTL

\* The overflow flag of the signed operation with a cast operand, corrected by the side
\* of the signed maximum the operand was on, is the overflow of the exact result.
LEMMA MixedSign ==
  ASSUME NEW h \in Types, NEW x \in Values(TRUE, h), NEW y \in Values(FALSE, h)
  PROVE  /\ CheckedAddUnsigned(h, x, y) = Exact(TRUE, h, x + y)
         /\ CheckedSubUnsigned(h, x, y) = Exact(TRUE, h, x - y)
<1>1. h \in Nat \ {0} /\ x \in Int /\ y \in Int /\ x >= -h /\ x < h /\ y >= 0 /\ y < 2 * h
  BY Widths, SMT DEF Values, Lowest, Highest
<1>2. AsSigned(h, y) = IF y >= h THEN y - 2 * h ELSE y
  BY <1>1, SMT DEF AsSigned, Wrapped, Lowest, Highest
<1>3. CheckedAddUnsigned(h, x, y) = Exact(TRUE, h, x + y)
  BY <1>1, <1>2, SMT DEF CheckedAddUnsigned, Exact, Overflows, Wrapped, Values, Lowest, Highest
<1>4. CheckedSubUnsigned(h, x, y) = Exact(TRUE, h, x - y)
  BY <1>1, <1>2, SMT DEF CheckedSubUnsigned, Exact, Overflows, Wrapped, Values, Lowest, Highest
<1> QED BY <1>3, <1>4

\* checked_add_unsigned and checked_sub_unsigned are exact, at every width.
THEOREM MixedSignIsExact == Spec => []MixedSignExact
<1>1. TypeOK => MixedSignExact
  BY MixedSign DEF TypeOK, MixedSignExact, Types
<1> QED BY <1>1, RangeTyped, PTL

\* A conversion from a signed type looks at the value cast to an unsigned one.
LEMMA FromSigned ==
  ASSUME NEW from \in Types, NEW h \in Nat \ {0}, NEW v \in Values(TRUE, from)
  PROVE  TryFromSigned(from, h, v) = Exact(FALSE, h, v)
<1>1. /\ from \in Nat \ {0} /\ h \in Nat \ {0}
      /\ v \in Int /\ v >= -from /\ v < from
  BY Widths, SMT DEF Values, Lowest, Highest
<1>2. v >= 0 => AsUnsigned(from, v) = v
  BY <1>1, SMT DEF AsUnsigned, Wrapped, Lowest, Highest
<1> QED BY <1>1, <1>2, SMT DEF TryFromSigned, Exact, Values, Lowest, Highest

\* A conversion to a type that is not wider compares with the bounds of the target.
LEMMA ToNarrower ==
  ASSUME NEW s \in BOOLEAN, NEW from \in Types, NEW h \in Nat \ {0}, NEW v \in Values(s, from)
  PROVE  /\ TryFromNarrowing(s, h, v) = Exact(s, h, v)
         /\ ~s => TryFromUnsigned(h, v) = Exact(TRUE, h, v)
<1>1. h \in Nat \ {0} /\ from \in Nat \ {0}
  BY Widths
<1>2. v \in Int /\ (~s => v >= 0)
  BY <1>1, SMT DEF Values, Lowest, Highest
<1> QED BY <1>1, <1>2, SMT DEF TryFromNarrowing, TryFromUnsigned, Exact, Values, Lowest, Highest

\* TryFrom fails exactly on the values the target lacks, between any two types.
THEOREM ConversionsAreExact == Spec => []ConversionsExact
<1>1. TypeOK => ConversionsExact
  <2> SUFFICES ASSUME TypeOK, NEW h \in Types
               PROVE  /\ TryFromNarrowing(signed, h, start) = Exact(signed, h, start)
                      /\ ~signed => TryFromUnsigned(h, start) = Exact(TRUE, h, start)
                      /\ signed => TryFromSigned(half, h, start) = Exact(FALSE, h, start)
    BY DEF ConversionsExact, Types
  <2>1. half \in Types /\ signed \in BOOLEAN /\ start \in Values(signed, half)
    BY DEF TypeOK, Types
  <2>2. signed => start \in Values(TRUE, half)
    BY <2>1
  <2>3. h \in Nat \ {0}
    BY Widths
  <2> QED BY <2>1, <2>2, <2>3, ToNarrower, FromSigned
<1> QED BY <1>1, RangeTyped, PTL

\* What steps_between answers of two values in order: their distance when a usize holds
\* it.  A distance the type itself cannot hold is beyond usize too.
LEMMA Distance ==
  ASSUME NEW s \in BOOLEAN, NEW h \in Types, NEW from \in Values(s, h), NEW to \in Values(s, h),
         from <= to
  PROVE  StepsBetween(s, h, from, to) =
           IF to - from < 2 * Usize
           THEN [least |-> to - from, exact |-> Some(to - from)]
           ELSE [least |-> 2 * Usize - 1, exact |-> None]
<1>1. h \in Nat \ {0} /\ Usize \in Nat \ {0}
  BY Widths
<1>2. /\ from \in Int /\ to \in Int /\ to - from \in Int
      /\ to - from >= 0 /\ to - from < 2 * h
      /\ ~(from > to)
  BY <1>1, SMT DEF Values, Lowest, Highest
<1>3. Highest(FALSE, Usize) = 2 * Usize - 1
  BY DEF Highest
<1>4. Some(to - from).some /\ Some(to - from).value = to - from /\ ~None.some
  BY DEF Some, None
<1>5. CASE h \in Narrow
  <2>1. h <= Usize
    BY <1>5, Widths
  <2>2. StepsNarrow(s, h, from, to) = to - from
    BY <1>1, <1>2, <2>1, SMT DEF StepsNarrow, AsUnsigned, Wrapped, Lowest, Highest
  <2>3. to - from < 2 * Usize
    BY <1>1, <1>2, <2>1, SMT
  <2> QED BY <1>2, <1>4, <1>5, <2>2, <2>3 DEF StepsBetween
<1>6. CASE h \notin Narrow
  <2>1. 2 * Usize <= h
    BY <1>6, Widths
  <2>2. CheckedSub(s, h, to, from) = Exact(s, h, to - from)
    BY <1>2, CheckedExact DEF CheckedSub
  <2>3. CASE to - from < 2 * Usize
    <3>1. to - from \in Values(s, h) /\ to - from \in Values(TRUE, h)
      BY <1>1, <1>2, <2>1, <2>3, SMT DEF Values, Lowest, Highest
    <3>2. to - from \in Values(FALSE, Usize)
      BY <1>1, <1>2, <2>3, SMT DEF Values, Lowest, Highest
    <3>3. CheckedSub(s, h, to, from).some
      BY <1>4, <2>2, <3>1 DEF Exact
    <3>4. TryFromSigned(h, Usize, to - from) = Some(to - from)
      BY <1>1, <3>1, <3>2, FromSigned DEF Exact
    <3>5. ~s => TryFromNarrowing(FALSE, Usize, to - from) = Some(to - from)
      BY <1>1, <3>1, <3>2, ToNarrower DEF Exact
    <3>6. StepsWide(s, h, from, to) = Some(to - from)
      BY <3>3, <3>4, <3>5 DEF StepsWide
    <3> QED BY <1>2, <1>4, <1>6, <2>3, <3>6 DEF StepsBetween
  <2>4. CASE ~(to - from < 2 * Usize)
    <3>1. to - from \notin Values(FALSE, Usize)
      BY <1>1, <1>2, <2>4, SMT DEF Values, Lowest, Highest
    <3>2. CASE to - from \in Values(s, h)
      <4>1. s => TryFromSigned(h, Usize, to - from) = None
        BY <1>1, <3>1, <3>2, FromSigned DEF Exact
      <4>2. ~s => TryFromNarrowing(FALSE, Usize, to - from) = None
        BY <1>1, <3>1, <3>2, ToNarrower DEF Exact
      <4> QED BY <4>1, <4>2, <1>2, <1>3, <1>4, <1>6, <2>4 DEF StepsBetween, StepsWide
    <3>3. CASE to - from \notin Values(s, h)
      BY <3>3, <2>2, <1>2, <1>3, <1>4, <1>6, <2>4 DEF StepsBetween, StepsWide, Exact
    <3> QED BY <3>2, <3>3
  <2> QED BY <2>3, <2>4
<1> QED BY <1>5, <1>6

\* steps_between and forward_checked agree, at every width.
THEOREM StepsAreExact == Spec => []StepsExact
<1>1. TypeOK /\ ForwardExact => StepsExact
  <2> SUFFICES ASSUME TypeOK, ForwardExact PROVE StepsExact
    OBVIOUS
  <2> DEFINE steps == StepsBetween(signed, half, start, end)
  <2>1. /\ half \in Types /\ half \in Nat \ {0} /\ Usize \in Nat \ {0} /\ signed \in BOOLEAN
        /\ start \in Values(signed, half) /\ end \in Values(signed, half)
    BY Widths DEF TypeOK, Types
  <2>2. start \in Int /\ end \in Int
    BY <2>1, SMT DEF Values, Lowest, Highest
  <2>3. ~None.some
    BY DEF None
  <2>4. CASE start > end
    BY <2>3, <2>4 DEF StepsExact, StepsBetween
  <2>5. CASE start <= end /\ end - start < 2 * Usize
    <3>1. steps = [least |-> end - start, exact |-> Some(end - start)]
      BY <2>1, <2>5, Distance
    <3>2. end - start \in Counts
      BY <2>1, <2>2, <2>5, SMT DEF Counts, Values, Lowest, Highest
    <3>3. start + (end - start) = end
      BY <2>2, SMT
    <3>4. ForwardChecked(signed, half, start, end - start) = Some(end)
      BY <2>1, <3>2, <3>3 DEF ForwardExact, Exact
    <3>5. steps.exact.some /\ steps.exact.value = end - start /\ steps.least = end - start
      BY <3>1 DEF Some
    <3> QED BY <3>4, <3>5 DEF StepsExact
  <2>6. CASE start <= end /\ ~(end - start < 2 * Usize)
    <3>1. steps = [least |-> 2 * Usize - 1, exact |-> None]
      BY <2>1, <2>6, Distance
    <3>2. ~steps.exact.some /\ steps.least = 2 * Usize - 1
      BY <2>3, <3>1
    <3>3. end - start >= 2 * Usize
      BY <2>1, <2>2, <2>6, SMT
    <3> QED BY <3>2, <3>3 DEF StepsExact
  <2> QED BY <2>2, <2>4, <2>5, <2>6, SMT
<1> QED BY <1>1, RangeTyped, ForwardIsExact, PTL

\* Range::next is one step forward, and leaves one step less.
THEOREM NextStepsOnce == Spec => NextIsOneStep
<1> DEFINE A == start' # start =>
       LET before == StepsBetween(signed, half, start, end)
           after == StepsBetween(signed, half, start', end)
       IN  /\ ForwardChecked(signed, half, start, 1) = Some(start')
           /\ before.exact.some => after.exact = Some(before.exact.value - 1)
<1>1. TypeOK /\ TypeOK' /\ ForwardExact /\ [Next]_vars => A
  <2> SUFFICES ASSUME TypeOK, TypeOK', ForwardExact, [Next]_vars, start' # start PROVE A
    OBVIOUS
  <2>1. RangeNext
    BY DEF Next, RangeOver, vars
  <2>2. /\ half \in Types /\ half \in Nat \ {0} /\ Usize \in Nat \ {0} /\ signed \in BOOLEAN
        /\ start \in Values(signed, half) /\ end \in Values(signed, half)
    BY Widths DEF TypeOK, Types
  <2>3. start \in Int /\ end \in Int /\ start < end /\ start' = start + 1
    BY <2>1, <2>2, SMT DEF Values, Lowest, Highest, RangeNext
  <2>4. start' \in Values(signed, half)
    BY <2>1 DEF TypeOK, RangeNext
  <2>5. 1 \in Counts
    BY <2>2, SMT DEF Counts, Values, Lowest, Highest
  <2>6. ForwardChecked(signed, half, start, 1) = Some(start')
    BY <2>3, <2>4, <2>5 DEF ForwardExact, Exact
  <2>7. ASSUME StepsBetween(signed, half, start, end).exact.some
        PROVE  StepsBetween(signed, half, start', end).exact
                 = Some(StepsBetween(signed, half, start, end).exact.value - 1)
    <3>1. start <= end /\ start' <= end /\ end - start' = (end - start) - 1
      BY <2>3, SMT
    <3>2. ~None.some /\ Some(end - start).value = end - start
      BY DEF None, Some
    <3>3. end - start < 2 * Usize /\ StepsBetween(signed, half, start, end).exact = Some(end - start)
      BY <2>2, <2>7, <3>1, <3>2, Distance
    <3>4. end - start' < 2 * Usize
      BY <2>2, <2>3, <3>1, <3>3, SMT
    <3>5. StepsBetween(signed, half, start', end).exact = Some(end - start')
      BY <2>2, <2>4, <3>1, <3>4, Distance
    <3> QED BY <3>1, <3>2, <3>3, <3>5
  <2> QED BY <2>6, <2>7
<1>2. [](TypeOK /\ ForwardExact) /\ [][Next]_vars => [][A]_vars
  BY <1>1, PTL
<1> QED BY <1>2, RangeTyped, ForwardIsExact, PTL DEF Spec, NextIsOneStep

\* The addition of Range::next, forward_checked, backward_checked, steps_between, the
\* mixed-sign operations and the conversions are exact together, for all widths.
THEOREM ArithmeticIsExact == Spec => []ArithmeticExact
BY RangeTyped, ForwardIsExact, BackwardIsExact, StepsAreExact, MixedSignIsExact, ConversionsAreExact, PTL
   DEF ArithmeticExact

-----------------------------------------------------------------------------
(***************************************************************************)
(* BinaryHeap, for every type of elements and every order: in particular   *)
(* lemma_peek_pop, which the extraction to F* assumes.  The invariant says *)
(* what the two loops have found so far, and that what peek promised is    *)
(* what a loop that ends would find now.                                   *)
(***************************************************************************)
\* What peek said of a heap that has not changed is what its loop would find again.
PromiseKept ==
  \A m \in promised :
    /\ Len(heap) = 0 => m = None
    /\ Len(heap) # 0 => \E k \in 1..Len(heap) : m = Some(heap[k]) /\ IsFirstGreatest(Len(heap), k)

HeapInv == HeapTypeOK /\ LoopInvariant /\ PromiseKept

LEMMA Options == \A v : Some(v).some /\ Some(v).value = v /\ ~None.some
BY DEF Some, None

\* remove leaves a sequence shorter by one, its elements those at the other indices.
LEMMA Shortened ==
  ASSUME NEW s \in Seq(Elem), Len(s) # 0, NEW k \in Nat
  PROVE  /\ Without(s, k) \in Seq(Elem) /\ Len(Without(s, k)) = Len(s) - 1
         /\ \A j \in 1..(Len(s) - 1) : Without(s, k)[j] = IF j <= k THEN s[j] ELSE s[j + 1]
<1>1. Len(s) \in Nat /\ Len(s) - 1 \in Nat
  OBVIOUS
<1>2. \A j \in 1..(Len(s) - 1) : s[j] \in Elem /\ s[j + 1] \in Elem
  BY <1>1
<1>3. Without(s, k) \in [1..(Len(s) - 1) -> Elem]
  BY <1>2 DEF Without
<1> QED BY <1>1, <1>3 DEF Without

\* There is one first greatest element.
LEMMA FirstGreatestUnique ==
  ASSUME heap \in Seq(Elem), NEW n \in 0..Len(heap), NEW k \in Nat, NEW l \in Nat,
         IsFirstGreatest(n, k), IsFirstGreatest(n, l)
  PROVE  k = l
<1>1. \A j \in 1..n : Rank[heap[j]] \in Int
  BY HeapAssumption
<1>2. k \in 1..n /\ l \in 1..n
  BY DEF IsFirstGreatest
<1>3. ~(k < l)
  <2>1. k < l => Rank[heap[k]] < Rank[heap[l]] /\ Rank[heap[l]] <= Rank[heap[k]]
    BY <1>2 DEF IsFirstGreatest
  <2> QED BY <1>1, <1>2, <2>1
<1>4. ~(l < k)
  <2>1. l < k => Rank[heap[l]] < Rank[heap[k]] /\ Rank[heap[k]] <= Rank[heap[l]]
    BY <1>2 DEF IsFirstGreatest
  <2> QED BY <1>1, <1>2, <2>1
<1> QED BY <1>2, <1>3, <1>4

\* One turn of the loop keeps what it has found.
LEMMA LookFinds ==
  ASSUME HeapTypeOK, LoopInvariant, Look
  PROVE  LoopInvariant'
<1>1. /\ running # "none" /\ running' = running /\ heap' = heap
      /\ seen \in Nat /\ seen' = seen + 1 /\ seen < Len(heap) /\ Len(heap) \in Nat
      /\ heap \in Seq(Elem) /\ index \in Nat
  BY DEF Look, HeapTypeOK
<1> DEFINE v == heap[seen + 1]
<1>2. v \in Elem /\ Rank[v] \in Int
  BY <1>1, HeapAssumption
<1>3. \A j \in 1..Len(heap) : Rank[heap[j]] \in Int
  BY <1>1, HeapAssumption
<1>4. CASE seen = 0
  <2>1. max = None
    BY <1>1, <1>4 DEF LoopInvariant
  <2>2. Greater(v)
    BY <2>1, Options DEF Greater
  <2>3. max' = Some(v) /\ index' = seen
    BY <2>2 DEF Look
  <2>4. IsFirstGreatest(1, 1)
    BY <1>1, <1>3, <1>4 DEF IsFirstGreatest
  <2>5. seen' = 1 /\ index' + 1 = 1 /\ seen' <= Len(heap)
    BY <1>1, <1>4, <2>3
  <2> QED BY <1>1, <1>4, <2>3, <2>4, <2>5 DEF LoopInvariant, IsFirstGreatest
<1>5. CASE seen # 0
  <2>1. max = Some(heap[index + 1]) /\ IsFirstGreatest(seen, index + 1)
    BY <1>1, <1>5 DEF LoopInvariant
  <2>2. index + 1 \in 1..seen
    BY <2>1 DEF IsFirstGreatest
  <2>3. Greater(v) <=> Rank[v] > Rank[heap[index + 1]]
    BY <2>1, Options DEF Greater
  <2>4. CASE Greater(v)
    <3>1. max' = Some(v) /\ index' = seen
      BY <2>4 DEF Look
    <3>2. \A j \in 1..seen : Rank[heap[j]] < Rank[v]
      <4>1. \A j \in 1..seen : Rank[heap[j]] <= Rank[heap[index + 1]]
        BY <2>1 DEF IsFirstGreatest
      <4>2. \A j \in 1..seen : Rank[heap[j]] \in Int
        BY <1>1, <1>3
      <4> QED BY <1>2, <2>2, <2>3, <2>4, <4>1, <4>2
    <3>3. IsFirstGreatest(seen + 1, seen + 1)
      <4>1. \A j \in 1..(seen + 1) : j \in 1..seen \/ j = seen + 1
        BY <1>1
      <4>2. seen + 1 \in 1..(seen + 1) /\ (seen + 1) - 1 = seen
        BY <1>1
      <4>3. \A j \in 1..seen : Rank[heap[j]] \in Int
        BY <1>1, <1>3
      <4>4. \A j \in 1..(seen + 1) : Rank[heap[j]] <= Rank[v]
        BY <1>2, <3>2, <4>1, <4>3
      <4> QED BY <3>2, <4>2, <4>4 DEF IsFirstGreatest
    <3> QED BY <1>1, <3>1, <3>3 DEF LoopInvariant, IsFirstGreatest
  <2>5. CASE ~Greater(v)
    <3>1. max' = max /\ index' = index
      BY <2>5 DEF Look
    <3>2. IsFirstGreatest(seen + 1, index + 1)
      <4>1. \A j \in 1..(seen + 1) : j \in 1..seen \/ j = seen + 1
        BY <1>1
      <4>2. Rank[v] <= Rank[heap[index + 1]]
        BY <1>1, <1>2, <1>3, <2>2, <2>3, <2>5
      <4>3. index + 1 \in 1..(seen + 1)
        BY <1>1, <2>2
      <4> QED BY <2>1, <4>1, <4>2, <4>3 DEF IsFirstGreatest
    <3> QED BY <1>1, <2>1, <3>1, <3>2 DEF LoopInvariant, IsFirstGreatest
  <2> QED BY <2>4, <2>5
<1> QED BY <1>4, <1>5

\* The types, one action at a time.
LEMMA HeapTyped ==
  ASSUME HeapTypeOK, LoopInvariant, [HeapNext]_heapVars
  PROVE  HeapTypeOK'
<1>1. /\ heap \in Seq(Elem) /\ Len(heap) \in Nat /\ Len(heap) <= MaxLen /\ MaxLen \in Nat
      /\ seen \in Nat /\ index \in Nat
  BY HeapAssumption DEF HeapTypeOK
<1>2. ASSUME NEW v \in Elem, Push(v) PROVE HeapTypeOK'
  <2>1. heap' \in Seq(Elem) /\ Len(heap') = Len(heap) + 1 /\ Len(heap') <= MaxLen
    BY <1>1, <1>2 DEF Push
  <2> QED BY <1>2, <2>1 DEF Push, HeapTypeOK
<1>3. ASSUME NEW method \in {"peek", "pop"}, Call(method) PROVE HeapTypeOK'
  <2>1. 0 \in 0..MaxLen
    BY <1>1
  <2> QED BY <1>3, <2>1 DEF Call, HeapTypeOK
<1>4. CASE Look
  <2>1. seen' = seen + 1 /\ seen + 1 \in 0..MaxLen
    BY <1>1, <1>4 DEF Look
  <2>2. heap[seen + 1] \in Elem
    BY <1>1, <1>4 DEF Look
  <2>3. (max' = Some(heap[seen + 1]) /\ index' = seen) \/ (max' = max /\ index' = index)
    BY <1>4 DEF Look
  <2>4. (max' = None \/ \E v \in Elem : max' = Some(v)) /\ index' \in Nat
    BY <1>1, <2>2, <2>3 DEF HeapTypeOK
  <2>5. UNCHANGED <<heap, running, returned, promised>>
    BY <1>4 DEF Look
  <2> QED BY <2>1, <2>4, <2>5 DEF HeapTypeOK
<1>5. CASE PopReturns
  <2>1. max.some => Len(heap) # 0
    <3>1. running # "none" /\ seen = Len(heap)
      BY <1>5 DEF PopReturns
    <3>2. Len(heap) = 0 => max = None
      BY <3>1 DEF LoopInvariant
    <3> QED BY <3>2, Options
  <2>2. Len(heap) # 0 => Without(heap, index) \in Seq(Elem) /\ Len(Without(heap, index)) = Len(heap) - 1
    BY <1>1, Shortened
  <2>3. heap' \in Seq(Elem) /\ Len(heap') <= MaxLen
    BY <1>1, <1>5, <2>1, <2>2 DEF PopReturns
  <2> QED BY <1>5, <2>3 DEF PopReturns, HeapTypeOK
<1>6. CASE PeekReturns
  BY <1>6 DEF PeekReturns, HeapTypeOK
<1>7. CASE UNCHANGED heapVars
  BY <1>7 DEF heapVars, HeapTypeOK
<1> QED BY <1>2, <1>3, <1>4, <1>5, <1>6, <1>7 DEF HeapNext

\* What a loop that ends has found is what peek had promised.
LEMMA Promise ==
  ASSUME HeapInv, running # "none", seen = Len(heap), NEW m \in promised
  PROVE  m = max
<1>1. heap \in Seq(Elem) /\ Len(heap) \in Nat /\ index \in Nat
  BY DEF HeapInv, HeapTypeOK
<1>2. CASE Len(heap) = 0
  BY <1>2 DEF HeapInv, PromiseKept, LoopInvariant
<1>3. CASE Len(heap) # 0
  <2>1. max = Some(heap[index + 1]) /\ IsFirstGreatest(Len(heap), index + 1)
    BY <1>3 DEF HeapInv, LoopInvariant
  <2>2. PICK k \in 1..Len(heap) : m = Some(heap[k]) /\ IsFirstGreatest(Len(heap), k)
    BY <1>3 DEF HeapInv, PromiseKept
  <2>3. k = index + 1
    BY <1>1, <2>1, <2>2, FirstGreatestUnique
  <2> QED BY <2>1, <2>2, <2>3
<1> QED BY <1>2, <1>3

\* The invariant holds of every state.
THEOREM HeapInvariant == HeapSpec => []HeapInv
<1>1. HeapInit => HeapInv
  <2> SUFFICES ASSUME HeapInit PROVE HeapInv
    OBVIOUS
  <2>1. HeapTypeOK
    BY HeapAssumption DEF HeapInit, HeapTypeOK
  <2> QED BY <2>1 DEF HeapInit, HeapInv, LoopInvariant, PromiseKept
<1>2. HeapInv /\ [HeapNext]_heapVars => HeapInv'
  <2> SUFFICES ASSUME HeapInv, [HeapNext]_heapVars PROVE HeapInv'
    OBVIOUS
  <2> USE DEF HeapInv
  <2>1. HeapTypeOK'
    BY HeapTyped
  <2>2. LoopInvariant' /\ PromiseKept'
    <3>1. ASSUME NEW v \in Elem, Push(v) PROVE LoopInvariant' /\ PromiseKept'
      BY <3>1 DEF Push, LoopInvariant, PromiseKept
    <3>2. ASSUME NEW method \in {"peek", "pop"}, Call(method) PROVE LoopInvariant' /\ PromiseKept'
      <4>1. Len(heap) \in Nat /\ heap' = heap /\ promised' = promised /\ seen' = 0 /\ max' = None
        BY <3>2 DEF Call, HeapTypeOK
      <4> QED BY <4>1 DEF LoopInvariant, PromiseKept, IsFirstGreatest
    <3>3. CASE Look
      <4>1. heap' = heap /\ promised' = promised
        BY <3>3 DEF Look
      <4> QED BY <3>3, <4>1, LookFinds DEF PromiseKept, IsFirstGreatest
    <3>4. CASE PopReturns
      BY <3>4 DEF PopReturns, LoopInvariant, PromiseKept
    <3>5. CASE PeekReturns
      <4>1. heap' = heap /\ promised' = {max} /\ running' = "none" /\ seen = Len(heap) /\ running = "peek"
        BY <3>5 DEF PeekReturns
      <4>2. Len(heap) = 0 => max = None
        BY <4>1 DEF LoopInvariant
      <4>3. Len(heap) # 0 => max = Some(heap[index + 1]) /\ IsFirstGreatest(Len(heap), index + 1)
        BY <4>1 DEF LoopInvariant
      <4>4. Len(heap) # 0 => \E k \in 1..Len(heap) : max = Some(heap[k]) /\ IsFirstGreatest(Len(heap), k)
        BY <4>3 DEF IsFirstGreatest
      <4>5. LoopInvariant'
        BY <4>1 DEF LoopInvariant
      <4> QED BY <4>1, <4>2, <4>4, <4>5 DEF PromiseKept, IsFirstGreatest
    <3>6. CASE UNCHANGED heapVars
      BY <3>6 DEF heapVars, LoopInvariant, PromiseKept, IsFirstGreatest
    <3> QED BY <3>1, <3>2, <3>3, <3>4, <3>5, <3>6 DEF HeapNext
  <2> QED BY <2>1, <2>2
<1> QED BY <1>1, <1>2, PTL DEF HeapSpec

\* The loops of peek and pop keep their invariant, for every order on the elements.
THEOREM LoopsInvariant == HeapSpec => []LoopInvariant
<1>1. HeapInv => LoopInvariant
  BY DEF HeapInv
<1> QED BY <1>1, HeapInvariant, PTL

\* lemma_peek_pop: pop returns what peek said, whatever the order on the elements.
THEOREM PeekPop == HeapSpec => PeekIsPop
<1>1. HeapInv /\ [HeapNext]_heapVars => (PopReturns => \A m \in promised : returned' = m)
  BY Promise DEF PopReturns
<1>2. []HeapInv /\ [][HeapNext]_heapVars
        => [][PopReturns => \A m \in promised : returned' = m]_heapVars
  BY <1>1, PTL
<1> QED BY <1>2, HeapInvariant, PTL DEF HeapSpec, PeekIsPop

\* pop takes one greatest element and leaves the others in their order.
THEOREM PopGreatest == HeapSpec => PopTakesGreatest
<1> DEFINE A == PopReturns =>
       IF heap = <<>> THEN returned' = None /\ heap' = heap
       ELSE \E k \in 1..Len(heap) :
              /\ returned' = Some(heap[k])
              /\ \A j \in 1..Len(heap) : Rank[heap[j]] <= Rank[heap[k]]
              /\ Len(heap') = Len(heap) - 1
              /\ \A j \in 1..(k - 1) : heap'[j] = heap[j]
              /\ \A j \in k..Len(heap') : heap'[j] = heap[j + 1]
<1>1. HeapInv /\ [HeapNext]_heapVars => A
  <2> SUFFICES ASSUME HeapInv, PopReturns PROVE A
    OBVIOUS
  <2>1. /\ heap \in Seq(Elem) /\ Len(heap) \in Nat /\ index \in Nat
        /\ seen = Len(heap) /\ running # "none" /\ returned' = max
        /\ heap' = IF max.some THEN Without(heap, index) ELSE heap
    BY DEF HeapInv, HeapTypeOK, PopReturns
  <2>2. CASE heap = <<>>
    <3>1. max = None
      BY <2>1, <2>2 DEF HeapInv, LoopInvariant
    <3> QED BY <2>1, <2>2, <3>1, Options
  <2>3. CASE heap # <<>>
    <3>1. Len(heap) # 0
      BY <2>1, <2>3
    <3>2. max = Some(heap[index + 1]) /\ IsFirstGreatest(Len(heap), index + 1)
      BY <2>1, <3>1 DEF HeapInv, LoopInvariant
    <3>3. index + 1 \in 1..Len(heap) /\ \A j \in 1..Len(heap) : Rank[heap[j]] <= Rank[heap[index + 1]]
      BY <3>2 DEF IsFirstGreatest
    <3>4. heap' = Without(heap, index)
      BY <2>1, <3>2, Options
    <3>5. /\ Len(heap') = Len(heap) - 1
          /\ \A j \in 1..(Len(heap) - 1) : heap'[j] = IF j <= index THEN heap[j] ELSE heap[j + 1]
      BY <2>1, <3>1, <3>4, Shortened
    <3>6. PICK k \in 1..Len(heap) : k = index + 1
      BY <3>3
    <3>7. \A j \in 1..(k - 1) : heap'[j] = heap[j]
      BY <2>1, <3>5, <3>6
    <3>8. \A j \in k..Len(heap') : heap'[j] = heap[j + 1]
      BY <2>1, <3>5, <3>6
    <3>9. returned' = Some(heap[k]) /\ \A j \in 1..Len(heap) : Rank[heap[j]] <= Rank[heap[k]]
      BY <2>1, <3>2, <3>3, <3>6
    <3> QED BY <2>3, <3>5, <3>7, <3>8, <3>9
  <2> QED BY <2>2, <2>3
<1>2. []HeapInv /\ [][HeapNext]_heapVars => [][A]_heapVars
  BY <1>1, PTL
<1> QED BY <1>2, HeapInvariant, PTL DEF HeapSpec, PopTakesGreatest

\* The heap is a priority queue, for every order on the elements and every bound.
THEOREM QueueIsRight == HeapSpec => PriorityQueue
BY PeekPop, PopGreatest DEF PriorityQueue
=============================================================================
