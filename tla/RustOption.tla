----------------------------- MODULE RustOption -----------------------------
(* Option of core-models (option.rs), an error of a Result being a None too. *)

None == [some |-> FALSE, value |-> 0]
Some(v) == [some |-> TRUE, value |-> v]
=============================================================================
