----------------------------- MODULE Extraction ------------------------------
(***************************************************************************)
(* What the extraction of one crate promises, whichever engine runs it.    *)
(*                                                                         *)
(* An engine produces messages; cargo-hax acts on them in order, each      *)
(* once, and its verdict is whether one of them was a diagnostic.  It      *)
(* returns normally only when the engine has finished and every message    *)
(* it produced was acted upon; otherwise the command fails.                *)
(***************************************************************************)
EXTENDS Naturals, Sequences

CONSTANT Message   \* records with a field `kind`

VARIABLES
  outputs,   \* the messages the engine has produced
  shown,     \* how many of them cargo-hax acted upon
  verdict,   \* was one of those a diagnostic?
  complete,  \* the engine finished its work
  outcome    \* "none", "returned", "exit1" or "panic"

vars == <<outputs, shown, verdict, complete, outcome>>

Init ==
  /\ outputs = << >>
  /\ shown = 0
  /\ verdict = FALSE
  /\ complete = FALSE
  /\ outcome = "none"

Produce ==
  /\ ~complete /\ outcome = "none"
  /\ \E m \in Message : outputs' = Append(outputs, m)
  /\ UNCHANGED <<shown, verdict, complete, outcome>>

Show ==
  /\ outcome = "none"
  /\ shown < Len(outputs)
  /\ shown' = shown + 1
  /\ verdict' = (verdict \/ outputs[shown + 1].kind = "Diagnostic")
  /\ UNCHANGED <<outputs, complete, outcome>>

Conclude ==
  /\ complete' = TRUE
  /\ UNCHANGED <<outputs, shown, verdict, outcome>>

Succeed ==
  /\ outcome = "none"
  /\ complete
  /\ shown = Len(outputs)
  /\ outcome' = "returned"
  /\ UNCHANGED <<outputs, shown, verdict, complete>>

\* The message at which cargo-hax gives up may have been taken from the pipe.
Fail ==
  /\ outcome = "none"
  /\ outcome' \in {"exit1", "panic"}
  /\ shown' = shown \/ (shown < Len(outputs) /\ shown' = shown + 1)
  /\ UNCHANGED <<outputs, verdict, complete>>

Next == Produce \/ Show \/ Conclude \/ Succeed \/ Fail

Spec == Init /\ [][Next]_vars
=============================================================================
