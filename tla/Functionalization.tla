--------------------------- MODULE Functionalization ---------------------------
(***************************************************************************)
(* The phases of the OCaml engine that leave no assignment, no early exit  *)
(* and no loop in an item, in the order of the F* backend: Hoist,          *)
(* Simplify_match_return, Local_mutation, Rewrite_control_flow,            *)
(* Drop_return_break_continue and Functionalize_loops.                     *)
(***************************************************************************)
EXTENDS SideEffects
LOCAL INSTANCE SequencesExt

CONSTANTS
  Bodies,     \* bodies of functions
  Arguments   \* what they are called with: values of their variables

VARIABLES
  imported,  \* a body
  inputs,    \* what it is called with
  reached,   \* the last phase
  code       \* what it made of the body

phaseVars == <<imported, inputs, reached, code>>

MapArgs(e, F(_)) == [e EXCEPT !.args = AsSeq([k \in DOMAIN e.args |-> F(e.args[k])])]
SomeArg(e, P(_)) == \E k \in DOMAIN e.args : P(e.args[k])

-------------------------------------------------------------------------------
(* Simplify_match_return: what follows `let p = match s { .., _ => return r }` *)
(* moves into the arm that goes on.                                            *)

RECURSIVE Replaced(_, _, _)
Replaced(p, x, q) ==
  IF p.p = "Binding" /\ p.name = x THEN q
  ELSE [p EXCEPT !.parts = AsSeq([k \in DOMAIN p.parts |-> Replaced(p.parts[k], x, q)])]

InlineMatch(e) ==
  IF /\ e.op = "Let"
     /\ e.args[1].op = "Match" /\ Len(e.args[1].pats) = 2 /\ e.args[1].args[3].op = "Return"
  THEN LET m == e.args[1]
           arm == m.args[2]
           isVar == arm.op = "LocalVar" /\ arm.name \in PatVars(m.pats[1])
       IN  Match(m.args[1],
                 <<IF isVar THEN Replaced(m.pats[1], arm.name, e.pats[1]) ELSE m.pats[1], m.pats[2]>>,
                 <<IF isVar THEN e.args[2] ELSE Let(e.pats[1], arm, e.args[2]), m.args[3]>>)
  ELSE e

RECURSIVE SimplifyMatchReturn(_)
SimplifyMatchReturn(e) == MapArgs(InlineMatch(e), SimplifyMatchReturn)

-------------------------------------------------------------------------------
(* Local_mutation: assignments become bindings, and what assigns returns the  *)
(* variables it assigned.                                                     *)

RECURSIVE FreeAssigned(_)
FreeAssigned(e) ==
  CASE e.op = "Assign" -> {e.name}
    [] e.op = "Let" -> FreeAssigned(e.args[1]) \cup (FreeAssigned(e.args[2]) \ PatVars(e.pats[1]))
    [] e.op = "Match" -> FreeAssigned(e.args[1])
         \cup UNION {FreeAssigned(e.args[k + 1]) \ PatVars(e.pats[k]) : k \in DOMAIN e.pats}
    [] OTHER -> UNION {FreeAssigned(e.args[k]) : k \in DOMAIN e.args}

\* What the expression must return: level, a sequence of variables, with its value unless
\* drop; and the variables of the loop around it.
Instructions(level, loop, drop) == [level |-> level, loop |-> loop, drop |-> drop]

\* What s asks for, when the variables have this value and the expression the value v.
WithValue(s, vars, v) == IF s.drop THEN vars ELSE Tuple(<<vars, v>>)

\* An expression that assigns nothing.
WithVariables(s, e) ==
  IF s.level = <<>> THEN e
  ELSE IF s.drop /\ ReadsOnly(Effects(e)) THEN LocalVars(s.level)
  ELSE IF s.drop THEN Let(Wild, e, LocalVars(s.level))
  ELSE Tuple(<<LocalVars(s.level), e>>)

RECURSIVE Mutated(_, _), MutatedLet(_, _), MutatedLoop(_, _)
Mutated(s, e) ==
  LET Plain(x) == Mutated(Instructions(<<>>, s.loop, FALSE), x)
      Same(x) == Mutated(s, x)
      Level(k) == IF s.level[k] = e.name THEN Plain(e.args[1]) ELSE LocalVar(s.level[k])
  IN CASE e.op = "Let" -> MutatedLet(s, e)
       [] e.op = "Loop" -> MutatedLoop(s, e)
       [] e.op = "Assign" -> WithValue(s, Tuple(AsSeq([k \in DOMAIN s.level |-> Level(k)])), Unit)
       [] e.op \in {"If", "Match"} ->
            [e EXCEPT !.args = AsSeq([k \in DOMAIN e.args |-> IF k = 1 THEN Plain(e.args[k]) ELSE Same(e.args[k])])]
       [] e.op = "Break" -> Break(<<Same(e.args[1]), LocalVars(s.loop)>>)
       [] e.op = "Continue" -> Continue(<<LocalVars(s.loop)>>)
       [] e.op = "Return" -> MapArgs(e, Plain)
       [] OTHER -> WithVariables(s, MapArgs(e, Plain))

MutatedLet(s, e) ==
  LET p == e.pats[1]
      rhs == e.args[1]
      body == Mutated(s, e.args[2])
      value == Mutated(Instructions(<<>>, s.loop, FALSE), rhs.args[1])
      vars == SetToSeq(FreeAssigned(rhs))
      lhs == IF vars = <<>> THEN p ELSE IF p = Wild THEN PVars(vars) ELSE PTuple(<<PVars(vars), p>>)
  IN  IF rhs.op = "Assign"
      THEN IF p = Wild THEN Let(Binding(rhs.name), value, body)
           ELSE Let(PTuple(<<p, Binding(rhs.name)>>), Tuple(<<Unit, value>>), body)
      ELSE Let(lhs, Mutated(Instructions(vars, s.loop, p = Wild), rhs), body)

\* The state of the loop are the variables it assigns.
MutatedLoop(s, e) ==
  LET exact == FreeAssigned(e) = Range(s.level)
      vars == IF exact THEN s.level ELSE SetToSeq(FreeAssigned(e))
      it == Mutated(Instructions(<<>>, vars, FALSE), e.args[1])
      body == Mutated(Instructions(vars, vars, TRUE), e.args[2])
      loop == IF vars = <<>> THEN Loop(e.name, e.pats, <<it, body>>)
              ELSE Loop(e.name, Append(e.pats, PVars(vars)), <<it, body, LocalVars(vars)>>)
  IN  WithValue(s, IF exact \/ s.level = <<>> THEN loop ELSE Let(PVars(vars), loop, LocalVars(s.level)), Unit)

LocalMutation(e) == Mutated(Instructions(<<>>, <<>>, FALSE), e)

-------------------------------------------------------------------------------
(* Rewrite_control_flow: what follows a statement that may leave moves into    *)
(* its branches, and a loop that returns is matched on.                        *)

RECURSIVE HasControlFlow(_, _), ReturnsValue(_)
HasControlFlow(breaks, e) ==
  \/ e.op = "Return" \/ (breaks /\ e.op \in {"Break", "Continue"})
  \/ SomeArg(e, LAMBDA x : HasControlFlow(breaks, x))
\* loop_return_type loses the `return` whose type is the unit.
ReturnsValue(e) == IF e.op = "Return" THEN e.args[1] # Unit ELSE SomeArg(e, ReturnsValue)

InlineInBranch(branch, p, after, final) ==
  LET end == Final(branch)
      noLet == (p = Wild /\ end = Unit) \/ (p.p = "Binding" /\ end = LocalVar(p.name))
  IN  MakeLets(Lets(branch) \o (IF noLet THEN <<>> ELSE <<<<p, end>>>>) \o after, final)

MayLeave_ReturnsOnly(inLoop, e) ==
  \/ e.op \in {"If", "Match", "Loop"} /\ HasControlFlow(FALSE, e)
  \/ e.op \in {"Return", "Break", "Continue"}

\* The statements that are rewritten.
MayLeave(inLoop, e) ==
  \/ e.op \in {"If", "Match"} /\ HasControlFlow(inLoop, e)
  \/ e.op = "Loop" /\ HasControlFlow(FALSE, e)
  \/ e.op \in {"Return", "Break", "Continue"}

RECURSIVE RewriteControlFlow(_, _)
RewriteControlFlow(inLoop, e) ==
  LET Again(x) == RewriteControlFlow(inLoop, x)
      LoopOf(l) == [l EXCEPT !.args[2] = RewriteControlFlow(TRUE, @)]
      LoopWithReturn(l, after, final, p) ==
        LET ret == LocalVar("ret")
            loop == LoopOf(l)
        IN  Match(loop, <<PConstruct("Break", <<Binding("ret")>>), PConstruct("Continue", <<p>>)>>,
                  <<IF ReturnsValue(loop) THEN Return(ret) ELSE ret, Again(MakeLets(after, final))>>)
      Sequence ==
        LET lets == Lets(e)
            final == Final(e)
            found == {k \in DOMAIN lets : MayLeave(inLoop, lets[k][2])}
            k == CHOOSE i \in found : \A j \in found : i <= j
            before == SubSeq(lets, 1, k - 1)
            after == SubSeq(lets, k + 1, Len(lets))
            p == lets[k][1]
            rhs == lets[k][2]
        IN  IF found = {} THEN MakeLets(AsSeq([i \in DOMAIN lets |-> <<lets[i][1], Again(lets[i][2])>>]), Again(final))
            ELSE IF rhs.op = "Loop" THEN MakeLets(before, LoopWithReturn(rhs, after, final, p))
            ELSE IF rhs.op \in {"If", "Match"}
            THEN Again(MakeLets(before,
                   [rhs EXCEPT !.args = AsSeq([i \in DOMAIN @ |->
                      IF i = 1 THEN @[i] ELSE InlineInBranch(@[i], p, after, final)])]))
            ELSE Again(MakeLets(before, rhs))
  IN  CASE ~HasControlFlow(TRUE, e) -> e
        [] HasControlFlow(TRUE, e) /\ e.op = "Loop" ->
             IF HasControlFlow(FALSE, e.args[2])
             THEN LoopWithReturn(e, <<>>, LocalVar("loop_res"), Binding("loop_res"))
             ELSE LoopOf(e)
        [] HasControlFlow(TRUE, e) /\ e.op = "Let" -> Sequence
        [] OTHER -> MapArgs(e, Again)

-------------------------------------------------------------------------------
(* Drop_return_break_continue: in exit position, they are values of            *)
(* ControlFlow; anywhere else they are an error.                               *)

RECURSIVE Exits(_)
Exits(e) ==
  CASE e.op \in {"Return", "Break"} -> {e.op}
    [] e.op = "Loop" -> Exits(e.args[2]) \ {"Break"}
    [] OTHER -> UNION {Exits(e.args[k]) : k \in DOMAIN e.args}

Breaks(e) == Construct("Break", <<e>>)
Continues(e) == Construct("Continue", <<e>>)

\* loop has the exits of the loop whose body e ends, or is empty outside of loops.
RECURSIVE InExit(_, _)
InExit(loop, e) ==
  LET exits == loop[1]
      Exit(k) == IF e.op = "Let" THEN k = 2 ELSE k > 1
  IN  CASE e.op \in {"Let", "Match", "If"} ->
             [e EXCEPT !.args = AsSeq([k \in DOMAIN @ |-> IF Exit(k) THEN InExit(loop, @[k]) ELSE @[k]])]
        [] e.op = "Return" -> IF loop = <<>> THEN e.args[1] ELSE Breaks(Breaks(e.args[1]))
        [] e.op = "Break" /\ loop # <<>> -> Breaks(IF "Return" \in exits THEN Continues(Tuple(e.args)) ELSE Tuple(e.args))
        [] e.op = "Continue" /\ loop # <<>> -> IF exits = {} THEN e.args[1] ELSE Continues(e.args[1])
        [] OTHER -> IF loop # <<>> /\ exits # {} THEN Continues(e) ELSE e

RejectedExpr == Expr("Rejected", "", <<>>, <<>>)

RECURSIVE Encoded(_), IsRejected(_)
Encoded(e) ==
  CASE e.op \in {"Return", "Break", "Continue"} -> RejectedExpr
    [] e.op = "Loop" ->
         LET exits == Exits(e.args[2])
         IN  [e EXCEPT !.cf = IF "Return" \in exits THEN "BreakOrReturn" ELSE IF exits # {} THEN "BreakOnly" ELSE "None",
                       !.args = AsSeq([k \in DOMAIN @ |-> Encoded(IF k = 2 THEN InExit(<<exits>>, @[k]) ELSE @[k])])]
    [] OTHER -> MapArgs(e, Encoded)
IsRejected(e) == e.op = "Rejected" \/ SomeArg(e, IsRejected)

DropReturnBreakContinue(e) == Encoded(InExit(<<>>, e))

-------------------------------------------------------------------------------
(* Functionalize_loops. *)

Suffix == [None |-> "", BreakOnly |-> "_cf", BreakOrReturn |-> "_return"]

RECURSIVE FunctionalizeLoops(_)
FunctionalizeLoops(e) ==
  LET inner == MapArgs(e, FunctionalizeLoops)
      bpat == IF Len(e.pats) = 2 THEN e.pats[2] ELSE Wild
      init == IF Len(e.args) = 3 THEN inner.args[3] ELSE Unit
      it == inner.args[1]
      body == inner.args[2]
      Fold(name, over, params) == CallTo(name \o Suffix[e.cf], over \o <<init, Closure(params, body)>>)
  IN  IF e.op # "Loop" THEN inner
      ELSE IF e.name = "While" THEN Fold("while_loop", <<Closure(<<bpat>>, it)>>, <<bpat>>)
      ELSE IF it.op = "Construct" /\ it.name = "Range" THEN Fold("fold_range", it.args, <<bpat, e.pats[1]>>)
      ELSE Fold("fold", <<it>>, <<bpat, e.pats[1]>>)

-------------------------------------------------------------------------------
PhasesInit ==
  /\ imported \in Bodies /\ inputs \in Arguments
  /\ reached = "import" /\ code = imported

\* An error of a phase puts a diagnostic in place of the item.
Phase(from, to, result) ==
  /\ reached = from /\ reached' = IF IsRejected(result) THEN "rejected" ELSE to
  /\ code' = result
  /\ UNCHANGED <<imported, inputs>>

HoistSideEffects == Phase("import", "Hoist", Hoist(code))
SimplifyMatches == Phase("Hoist", "Simplify_match_return", SimplifyMatchReturn(code))
MutateLocally == Phase("Simplify_match_return", "Local_mutation", LocalMutation(code))
Rewrite == Phase("Local_mutation", "Rewrite_control_flow", RewriteControlFlow(FALSE, code))
DropControlFlow == Phase("Rewrite_control_flow", "Drop_return_break_continue", DropReturnBreakContinue(code))
Functionalize == Phase("Drop_return_break_continue", "Functionalize_loops", FunctionalizeLoops(code))

PhasesNext ==
  HoistSideEffects \/ SimplifyMatches \/ MutateLocally \/ Rewrite \/ DropControlFlow \/ Functionalize

PhasesSpec == PhasesInit /\ [][PhasesNext]_phaseVars

-------------------------------------------------------------------------------
\* Where the code has a meaning of its own: between the two phases in between, a loop that
\* returns is matched on before its body says how it ends.
Readable == reached \in {"Hoist", "Simplify_match_return", "Local_mutation", "Functionalize_loops"}

\* No phase changes what a function computes, or that it panics, for the bodies it accepts:
\* operands stay in their order, a branch not taken assigns nothing, a loop left early keeps
\* what it assigned so far.
MeaningPreserved == Readable => Meaning(code, inputs) = Meaning(imported, inputs)

\* Rewrite_control_flow brings every return, break and continue to an exit position: the
\* next phase finds none elsewhere.
ExitsInExitPosition == reached # "rejected"

\* "If F* can typecheck your crate, your code never panics": what F* is given panics where
\* the function does.
NeverPanics ==
  (reached = "Functionalize_loops" /\ Meaning(code, inputs).out = "value") => Meaning(imported, inputs).out # "panic"
===============================================================================
