------------------------------ MODULE MCCargoHax ------------------------------
(***************************************************************************)
(* A workspace of two packages, the second depending on the first, two     *)
(* backends and two versions of hax.                                       *)
(***************************************************************************)
EXTENDS CargoHax

CONSTANTS a, b, fstar, lean, v1, v2

MCDependsOn == [c \in {a, b} |-> IF c = b THEN {a} ELSE {}]
Backends == {[frontend |-> fstar, version |-> v1], [frontend |-> lean, version |-> v1]}
BackendsAndUpgrade == Backends \cup {[frontend |-> fstar, version |-> v2]}
Either == {{a}, {b}}
=============================================================================
