---------------------------- MODULE MCRustEngine -----------------------------
(***************************************************************************)
(* Small instances of RustEngine: the F* plan (full definitions imported   *)
(* in Rust, one group of OCaml phases, OCaml printer) and the Lean plan    *)
(* (legacy items imported by OCaml, OCaml phases, Rust phases and printer). *)
(***************************************************************************)
EXTENDS RustEngine

CONSTANTS i1, d1, d2, p1, c1

MCOwner == [d \in Diag |-> IF d = d1 THEN i1 ELSE NoOwner]
FStarPlan == {<<"Native", "ApplyPhases", "Print">>}
LeanPlan == {<<"ImportThir", "ApplyPhases", "Native">>}
BothPlans == FStarPlan \cup LeanPlan
=============================================================================
