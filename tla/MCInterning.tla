------------------------------ MODULE MCInterning ------------------------------
(***************************************************************************)
(* Four concrete identifiers, two of them known at compile time, and two   *)
(* tuple identifiers with different renderings.                            *)
(***************************************************************************)
EXTENDS Interning

CONSTANTS Clone, Tuple2, Tuple3, name, tuple2, tuple3

MCRender == [t \in {tuple2, tuple3} |-> IF t = tuple2 THEN Tuple2 ELSE Tuple3]
MCPredefined == <<Clone, Tuple2>>
=============================================================================
