------------------------------- MODULE CoreInt -------------------------------
(***************************************************************************)
(* The integers of core-models (num/mod.rs, convert.rs, and the Step and   *)
(* Range implementations of iter.rs and ops.rs).  The crate writes these   *)
(* functions once per type with macros, over the overflowing operations of *)
(* the machine; hax extracts them to the proof assistants as the meaning   *)
(* of Rust's.  A type is a sign and half of the size of its range, usize   *)
(* the number of its values.                                               *)
(***************************************************************************)
EXTENDS Integers, RustOption

CONSTANTS
  Narrow,  \* half ranges of the types not wider than usize: u8, i8 .. u64, i64
  Wide,    \* half ranges of the types wider than usize: u128, i128
  Usize    \* half range of usize and isize

ASSUME IntAssumption ==
  /\ Usize \in Nat \ {0}
  /\ Narrow \subseteq Nat \ {0} /\ Wide \subseteq Nat \ {0}
  /\ \A h \in Narrow : h <= Usize
  /\ \A h \in Wide : 2 * Usize <= h

VARIABLES signed, half, start, end  \* a type, and a Range of it

vars == <<signed, half, start, end>>

-------------------------------------------------------------------------------
(* The operations of the machine. *)

Lowest(s, h) == IF s THEN -h ELSE 0
Highest(s, h) == IF s THEN h - 1 ELSE 2 * h - 1
Values(s, h) == Lowest(s, h)..Highest(s, h)

\* A sum or a difference of two values of a type, brought back in its range.
Wrapped(s, h, v) ==
  IF v > Highest(s, h) THEN v - 2 * h ELSE IF v < Lowest(s, h) THEN v + 2 * h ELSE v
Overflows(s, h, v) == v \notin Values(s, h)

\* `as` between the two types of one width.
AsSigned(h, v) == Wrapped(TRUE, h, v)
AsUnsigned(h, v) == Wrapped(FALSE, h, v)

-------------------------------------------------------------------------------
(* num/mod.rs *)

\* checked_add, checked_sub: of the exact result v.
Checked(s, h, v) == IF Overflows(s, h, v) THEN None ELSE Some(Wrapped(s, h, v))
CheckedAdd(s, h, x, y) == Checked(s, h, x + y)
CheckedSub(s, h, x, y) == Checked(s, h, x - y)

\* A signed and an unsigned: an overflow of the signed sum is no overflow when the
\* unsigned operand was itself beyond the signed maximum.
CheckedAddUnsigned(h, x, y) ==
  LET sum == x + AsSigned(h, y)
  IN  IF Overflows(TRUE, h, sum) = (y > Highest(TRUE, h)) THEN Some(Wrapped(TRUE, h, sum)) ELSE None

CheckedSubUnsigned(h, x, y) ==
  LET difference == x - AsSigned(h, y)
  IN  IF Overflows(TRUE, h, difference) = (y > Highest(TRUE, h))
      THEN Some(Wrapped(TRUE, h, difference)) ELSE None

-------------------------------------------------------------------------------
(* convert.rs: TryFrom from a type to another, Err as None. *)

\* int_try_from: to a narrower type of the same sign.
TryFromNarrowing(s, h, v) == IF v > Highest(s, h) \/ v < Lowest(s, h) THEN None ELSE Some(v)

\* int_try_from_u_to_i: the target is not wider, so its maximum can be cast.
TryFromUnsigned(h, v) == IF v > Highest(TRUE, h) THEN None ELSE Some(v)

\* int_try_from_i_to_u: the target may be wider or narrower.
TryFromSigned(from, h, v) ==
  IF v < 0 \/ AsUnsigned(from, v) > Highest(FALSE, h) THEN None ELSE Some(v)

\* usize to an unsigned type that is not wider.
TryFromUsize(h, n) == IF h < Usize THEN TryFromNarrowing(FALSE, h, n) ELSE Some(n)

-------------------------------------------------------------------------------
(* iter.rs: Step.  `wide` types are those wider than usize. *)

\* Variant: without the detour by the unsigned type.
ForwardNarrow_Signed(s, h, v, n) == IF n > Highest(s, h) THEN None ELSE CheckedAdd(s, h, v, n)

\* Through a conversion of the count to the unsigned type; a signed sum wraps, and has
\* overflowed when it comes out below where it started.
ForwardNarrow(s, h, v, n) ==
  IF ~TryFromUsize(h, n).some THEN None
  ELSE IF ~s THEN CheckedAdd(FALSE, h, v, n)
  ELSE LET wrapped == Wrapped(TRUE, h, v + AsSigned(h, n))
       IN  IF wrapped >= v THEN Some(wrapped) ELSE None

BackwardNarrow(s, h, v, n) ==
  IF ~TryFromUsize(h, n).some THEN None
  ELSE IF ~s THEN CheckedSub(FALSE, h, v, n)
  ELSE LET wrapped == Wrapped(TRUE, h, v - AsSigned(h, n))
       IN  IF wrapped <= v THEN Some(wrapped) ELSE None

ForwardChecked(s, h, v, n) ==
  IF h \in Narrow THEN ForwardNarrow(s, h, v, n) ELSE CheckedAdd(s, h, v, n)
BackwardChecked(s, h, v, n) ==
  IF h \in Narrow THEN BackwardNarrow(s, h, v, n) ELSE CheckedSub(s, h, v, n)

\* Variant: the difference is taken in the type itself, then cast to usize.
StepsNarrow_Own(s, h, from, to) ==
  IF s THEN AsUnsigned(Usize, Wrapped(TRUE, h, to - from)) ELSE to - from

\* The steps of a narrow type: those of a signed one through isize.
StepsNarrow(s, h, from, to) ==
  IF s THEN AsUnsigned(Usize, Wrapped(TRUE, Usize, to - from)) ELSE to - from

\* The steps of a wide type, when a usize holds them.
StepsWide(s, h, from, to) ==
  IF ~CheckedSub(s, h, to, from).some THEN None
  ELSE IF s THEN TryFromSigned(h, Usize, to - from) ELSE TryFromNarrowing(FALSE, Usize, to - from)

\* The lower bound and, when it fits, the exact number of steps.
StepsBetween(s, h, from, to) ==
  IF from > to THEN [least |-> 0, exact |-> None]
  ELSE LET steps == IF h \in Narrow THEN Some(StepsNarrow(s, h, from, to)) ELSE StepsWide(s, h, from, to)
       IN  [least |-> IF steps.some THEN steps.value ELSE Highest(FALSE, Usize), exact |-> steps]

-------------------------------------------------------------------------------
(* ops.rs: a Range is an iterator. *)

Init ==
  /\ signed \in BOOLEAN /\ half \in Narrow \cup Wide
  /\ start \in Values(signed, half) /\ end \in Values(signed, half)

\* Range::next yields start and adds one to it, an addition that panics on overflow.
RangeNext ==
  /\ start < end
  /\ start' = start + 1
  /\ UNCHANGED <<signed, half, end>>

\* Range::next at the end yields nothing.
RangeOver == start >= end /\ UNCHANGED vars

Next == RangeNext \/ RangeOver
Spec == Init /\ [][Next]_vars

-------------------------------------------------------------------------------
(* Properties. *)

Counts == Values(FALSE, Usize)
Exact(s, h, v) == IF v \in Values(s, h) THEN Some(v) ELSE None

\* The addition of Range::next (ops.rs: start += 1) never overflows, whatever the bounds.
TypeOK ==
  /\ signed \in BOOLEAN /\ half \in Narrow \cup Wide
  /\ start \in Values(signed, half) /\ end \in Values(signed, half)

\* forward_checked gives start + n exactly when the type has it, for every count a usize
\* can hold, whatever the widths of the type and of usize and however the sum wraps.
ForwardExact ==
  \A n \in Counts : ForwardChecked(signed, half, start, n) = Exact(signed, half, start + n)

\* backward_checked, likewise.
BackwardExact ==
  \A n \in Counts : BackwardChecked(signed, half, start, n) = Exact(signed, half, start - n)

\* steps_between is the number of steps forward_checked needs from start to end, or says
\* that it does not fit in a usize.
StepsExact ==
  LET steps == StepsBetween(signed, half, start, end)
  IN  /\ steps.exact.some => /\ ForwardChecked(signed, half, start, steps.exact.value) = Some(end)
                             /\ steps.least = steps.exact.value
      /\ ~steps.exact.some => start > end \/ (steps.least = 2 * Usize - 1 /\ end - start >= 2 * Usize)

\* checked_add_unsigned and checked_sub_unsigned, whose overflow flag is that of a signed
\* operation on a cast operand, are exact.
MixedSignExact ==
  signed => \A y \in Values(FALSE, half) :
    /\ CheckedAddUnsigned(half, start, y) = Exact(TRUE, half, start + y)
    /\ CheckedSubUnsigned(half, start, y) = Exact(TRUE, half, start - y)

\* Every TryFrom fails exactly on the values the target type lacks, for every pair of
\* types the macros of convert.rs are called with.
ConversionsExact ==
  \A h \in Narrow \cup Wide :
    /\ h <= half => TryFromNarrowing(signed, h, start) = Exact(signed, h, start)
    /\ h <= half /\ ~signed => TryFromUnsigned(h, start) = Exact(TRUE, h, start)
    /\ signed => TryFromSigned(half, h, start) = Exact(FALSE, h, start)

\* The arithmetic and the conversions of the integer types, whatever their widths.
ArithmeticExact ==
  TypeOK /\ ForwardExact /\ BackwardExact /\ StepsExact /\ MixedSignExact /\ ConversionsExact

\* Range::next takes one step forward, and one is left less to do.
NextIsOneStep ==
  [][start' # start =>
       LET before == StepsBetween(signed, half, start, end)
           after == StepsBetween(signed, half, start', end)
       IN  /\ ForwardChecked(signed, half, start, 1) = Some(start')
           /\ before.exact.some => after.exact = Some(before.exact.value - 1)]_vars
===============================================================================
