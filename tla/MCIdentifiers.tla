----------------------------- MODULE MCIdentifiers -----------------------------
(***************************************************************************)
(* What stands for a value by way of a global table: the ids of the nodes  *)
(* of two crates, of one node and of three, and the handles of the Rust    *)
(* engine's identifiers.  Nothing joins the two: subject says which one is *)
(* checked, and the variables of the other keep one first value.           *)
(***************************************************************************)
EXTENDS IdTable, MCInterning

VARIABLE subject

MCMaxNodes == <<1, 3>>

IdentifiersInit ==
  /\ Init /\ InternInit
  /\ \/ subject = "ids"
     \/ subject = "interning" /\ command = "rust"

IdentifiersNext ==
  \/ subject = "ids" /\ Next /\ UNCHANGED <<subject, internVars>>
  \/ subject = "interning" /\ InternNext /\ UNCHANGED <<subject, vars>>

IdentifiersSpec == IdentifiersInit /\ [][IdentifiersNext]_<<subject, vars, internVars>>
=============================================================================
