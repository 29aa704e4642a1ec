---------------------------- MODULE MCOCamlEngine ----------------------------
(***************************************************************************)
(* A small instance of OCamlEngine: one item with a diagnostic of its own, *)
(* a diagnostic without owner, one output path with two contents.          *)
(***************************************************************************)
EXTENDS OCamlEngine

CONSTANTS i1, d1, d2, p1, c1, c2

MCOwner == (d1 :> i1) @@ (d2 :> NoOwner)
=============================================================================
