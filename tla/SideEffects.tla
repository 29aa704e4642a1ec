------------------------------ MODULE SideEffects ------------------------------
(***************************************************************************)
(* side_effect_utils.ml: what an expression does besides computing a value,*)
(* and the phase Hoist, which makes `let`s of the operands that do it.  An *)
(* effect is a pair: a variable read or written, or a way to leave.        *)
(***************************************************************************)
EXTENDS Imperative
LOCAL INSTANCE SequencesExt
LOCAL INSTANCE TLC

NoControlFlow(eff) == \A f \in eff : f[1] \in {"reads", "writes"}
ReadsOnly(eff) == \A f \in eff : f[1] = "reads"
WrittenVars(eff) == {f[2] : f \in {g \in eff : g[1] = "writes"}}
AccessedVars(eff) == {f[2] : f \in {g \in eff : g[1] \in {"reads", "writes"}}}
WithoutVars(vars, eff) == {f \in eff : f[2] \notin vars}

Commute_WritesOnly(x, y) ==
  IF NoControlFlow(x) /\ NoControlFlow(y) THEN WrittenVars(x) \cap WrittenVars(y) = {} ELSE ReadsOnly(x) \/ ReadsOnly(y)

Commute(x, y) ==
  IF NoControlFlow(x) /\ NoControlFlow(y)
  THEN WrittenVars(x) \cap AccessedVars(y) = {} /\ WrittenVars(y) \cap AccessedVars(x) = {}
  ELSE ReadsOnly(x) \/ ReadsOnly(y)

Hoisted(e, lets, eff) == [e |-> e, lets |-> lets, eff |-> eff]

\* HoistSeq.many: operands evaluated one after the other; what is not moved must commute
\* with all that follows.  The code numbers its fresh variables, at names the place.
Many(hs, at) ==
  LET After(k) == UNION {hs[j].eff : j \in k..Len(hs)}
      Stays(k) == ReadsOnly(hs[k].eff) /\ Commute(hs[k].eff, After(k + 1))
      Fresh(k) == "hoist" \o at \o ToString(k)
  IN  [es |-> AsSeq([k \in DOMAIN hs |-> IF Stays(k) THEN hs[k].e ELSE LocalVar(Fresh(k))]),
       lets |-> FlattenSeq([k \in DOMAIN hs |->
                  hs[k].lets \o (IF Stays(k) THEN <<>> ELSE <<<<Binding(Fresh(k)), hs[k].e>>>>)]),
       eff |-> After(1)]

\* The operands evaluated once, before the rest; the others are evaluated later or not at
\* all and keep their `let`s.
OperandsOf(e) ==
  CASE e.op \in {"If", "Match", "Break"} -> <<1>>
    [] e.op = "Loop" -> IF Len(e.args) = 3 THEN <<1, 3>> ELSE <<1>>
    [] e.op = "Closure" -> <<>>
    [] OTHER -> [k \in DOMAIN e.args |-> k]

OwnEffects(e) ==
  CASE e.op = "LocalVar" -> {<<"reads", e.name>>}
    [] e.op = "Assign" -> {<<"writes", e.name>>}
    [] e.op = "Return" -> {<<"return", "">>}
    [] e.op = "Break" -> {<<"break", "">>}
    [] e.op = "Continue" -> {<<"continue", "">>}
    [] OTHER -> {}

\* A loop handles break and continue, a closure return; an arm binds variables.
BranchEffects(e, k, eff) ==
  CASE e.op = "Loop" -> eff \ {<<"break", "">>, <<"continue", "">>}
    [] e.op = "Match" -> WithoutVars(PatVars(e.pats[k - 1]), eff)
    [] e.op = "Closure" -> WithoutVars(UNION {PatVars(e.pats[j]) : j \in DOMAIN e.pats}, eff) \ {<<"return", "">>}
    [] OTHER -> eff

RECURSIVE Collect(_, _)
Collect(e, at) ==
  LET sub == AsSeq([k \in DOMAIN e.args |-> Collect(e.args[k], at \o ToString(k) \o "_")])
      operands == OperandsOf(e)
      many == Many(AsSeq([i \in DOMAIN operands |-> sub[operands[i]]]), at)
      branches == IF e.op = "Break" THEN {} ELSE DOMAIN e.args \ Range(operands)
      Arg(k) == IF k \in branches THEN MakeLets(sub[k].lets, sub[k].e)
                ELSE IF k \in Range(operands) THEN many.es[CHOOSE i \in DOMAIN operands : operands[i] = k]
                ELSE e.args[k]
  IN  IF e.op = "Let"
      THEN Hoisted(sub[2].e, sub[1].lets \o <<<<e.pats[1], sub[1].e>>>> \o sub[2].lets, sub[1].eff \cup sub[2].eff)
      ELSE Hoisted([e EXCEPT !.args = AsSeq([k \in DOMAIN e.args |-> Arg(k)])], many.lets,
                   many.eff \cup OwnEffects(e) \cup UNION {BranchEffects(e, k, sub[k].eff) : k \in branches})

Effects(e) == Collect(e, "").eff
Hoist(e) == LET h == Collect(e, "") IN MakeLets(h.lets, h.e)
===============================================================================
