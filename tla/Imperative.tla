------------------------------ MODULE Imperative ------------------------------
(***************************************************************************)
(* The expressions (ast.ml) that the phases of the OCaml engine turn from  *)
(* imperative to functional, and what they compute.  An expression has a   *)
(* name, patterns and subexpressions; numbers, Booleans and tuples are all *)
(* the data.  Left out: types and spans, places other than a local         *)
(* variable, references, closures of the program, labels (the importers    *)
(* drop them), `loop` (the last phase refuses it), loop annotations.       *)
(***************************************************************************)
EXTENDS Naturals, Sequences
LOCAL INSTANCE SequencesExt
LOCAL INSTANCE TLC

\* The sequence f; TLC evaluates its elements here, and not again at each of its uses.
AsSeq(f) == f \o <<>>

Expr(op, name, pats, args) ==
  [op |-> op, name |-> name, n |-> 0, cf |-> "None", pats |-> pats, args |-> args]
LocalVar(x) == Expr("LocalVar", x, <<>>, <<>>)
Literal(n) == [Expr("Literal", "", <<>>, <<>>) EXCEPT !.n = n]
CallTo(f, args) == Expr("App", f, <<>>, args)
Construct(c, args) == Expr("Construct", c, <<>>, args)
Let(lhs, rhs, body) == Expr("Let", "", <<lhs>>, <<rhs, body>>)
Assign(x, e) == Expr("Assign", x, <<>>, <<e>>)
If(cond, then, else) == Expr("If", "", <<>>, <<cond, then, else>>)
Match(scrutinee, pats, bodies) == Expr("Match", "", pats, <<scrutinee>> \o bodies)
Return(e) == Expr("Return", "", <<>>, <<e>>)
Closure(params, body) == Expr("Closure", "", params, <<body>>)
\* Their value and, once there is one, the state of the loop.
Break(args) == Expr("Break", "", <<>>, args)
Continue(args) == Expr("Continue", "", <<>>, args)
\* kind is "For", over an iterator, or "While", on a condition; a loop with a state has a
\* second pattern for it and its initial value after the body.
Loop(kind, pats, args) == Expr("Loop", kind, pats, args)

Pattern(p, name, parts) == [p |-> p, name |-> name, parts |-> parts]
Wild == Pattern("Wild", "", <<>>)
Binding(x) == Pattern("Binding", x, <<>>)
PConstruct(c, parts) == Pattern("Construct", c, parts)

Tuple(es) == IF Len(es) = 1 THEN es[1] ELSE Construct("Tuple", es)
PTuple(ps) == IF Len(ps) = 1 THEN ps[1] ELSE PConstruct("Tuple", ps)
Unit == Tuple(<<>>)
LocalVars(xs) == Tuple(AsSeq([k \in DOMAIN xs |-> LocalVar(xs[k])]))
PVars(xs) == PTuple(AsSeq([k \in DOMAIN xs |-> Binding(xs[k])]))

RECURSIVE PatVars(_)
PatVars(p) == IF p.p = "Binding" THEN {p.name} ELSE UNION {PatVars(p.parts[k]) : k \in DOMAIN p.parts}

RECURSIVE PatIsExpr(_, _)
PatIsExpr(p, e) ==
  \/ p.p = "Binding" /\ e.op = "LocalVar" /\ p.name = e.name
  \/ /\ p.p = "Construct" /\ e.op = "Construct" /\ p.name = e.name /\ Len(p.parts) = Len(e.args)
     /\ \A k \in DOMAIN p.parts : PatIsExpr(p.parts[k], e.args[k])

\* A sequence of bindings around an expression; `let p = e in p` is e.
MakeLet(lhs, rhs, body) == IF PatIsExpr(lhs, body) THEN rhs ELSE Let(lhs, rhs, body)
MakeLets(lets, body) == FoldRight(LAMBDA b, e : MakeLet(b[1], b[2], e), lets, body)

RECURSIVE Lets(_), Final(_)
Lets(e) == IF e.op = "Let" THEN <<<<e.pats[1], e.args[1]>>>> \o Lets(e.args[2]) ELSE <<>>
Final(e) == IF e.op = "Let" THEN Final(e.args[2]) ELSE e

-------------------------------------------------------------------------------
(* What an expression computes: a value, or how it leaves. *)

Value(c, n, parts) == [c |-> c, n |-> n, parts |-> parts]
NumberOf(n) == Value("Number", n, <<>>)
TrueValue == Value("True", 0, <<>>)
FalseValue == Value("False", 0, <<>>)
Packed(vs) == IF Len(vs) = 1 THEN vs[1] ELSE Value("Tuple", 0, vs)

Result(out, value, env) == [out |-> out, value |-> value, env |-> env]
Done(value, env) == Result("value", value, env)
Fails(out, env) == Result(out, Packed(<<>>), env)

RECURSIVE Fits(_, _), Bound(_, _)
Fits(p, v) ==
  p.p = "Construct" => /\ p.name = v.c /\ Len(p.parts) = Len(v.parts)
                       /\ \A k \in DOMAIN p.parts : Fits(p.parts[k], v.parts[k])
Bound(p, v) ==
  IF p.p = "Binding" THEN p.name :> v
  ELSE FoldLeft(LAMBDA b, k : Bound(p.parts[k], v.parts[k]) @@ b, <<>>, [k \in DOMAIN p.parts |-> k])

\* check is what may panic, as an index, an arithmetic operation or a precondition do.
Applied(f, vs, env) ==
  CASE f = "inc" -> Done(NumberOf((vs[1].n + 1) % 4), env)
    [] f = "minus" -> Done(NumberOf((vs[1].n + 4 - vs[2].n) % 4), env)
    [] f = "small" -> Done(IF vs[1].n < 2 THEN TrueValue ELSE FalseValue, env)
    [] f = "never_to_any" -> Done(vs[1], env)
    [] f = "check" -> IF vs[1].n = 2 THEN Fails("panic", env) ELSE Done(Packed(<<>>), env)

\* The folds of Rust_primitives.Hax that a loop becomes.
Folds == [f \in {"fold_range", "fold", "while_loop"} |-> "None"]
  @@ [f \in {"fold_range_cf", "fold_cf", "while_loop_cf"} |-> "BreakOnly"]
  @@ [f \in {"fold_range_return", "fold_return", "while_loop_return"} |-> "BreakOrReturn"]

ItemsOf(v) ==
  IF v.c = "Range" THEN AsSeq([k \in 1..(v.parts[2].n - v.parts[1].n) |-> NumberOf(v.parts[1].n + k - 1)])
  ELSE v.parts

\* A turn of a loop goes on, from a new state, or ends it; how, its kind says.
Turn(cf, r) ==
  LET Ends(v) == [on |-> FALSE, result |-> Done(v, r.env)]
      GoesOn(v) == [on |-> TRUE, result |-> Done(v, r.env)]
      v == r.value
  IN  CASE r.out \in {"value", "continue"} /\ cf = "Loop" -> GoesOn(v)
        [] r.out = "break" /\ cf = "Loop" -> Ends(v)
        [] r.out = "value" /\ cf = "None" -> GoesOn(v)
        [] r.out = "value" /\ cf # "Loop" /\ v.c = "Continue" -> GoesOn(v.parts[1])
        [] r.out = "value" /\ cf = "BreakOnly" /\ v.c = "Break" -> Ends(v.parts[1].parts[2])
        [] r.out = "value" /\ cf = "BreakOrReturn" /\ v.c = "Break" ->
             Ends(IF v.parts[1].c = "Break" THEN v.parts[1]
                  ELSE Value("Continue", 0, <<v.parts[1].parts[1].parts[2]>>))
        [] r.out = "value" -> [on |-> FALSE, result |-> Fails("ill-typed", r.env)]
        [] OTHER -> [on |-> FALSE, result |-> r]

\* What the loop is worth when it was not left.
AtEnd(cf, v) == IF cf = "BreakOrReturn" THEN Value("Continue", 0, <<v>>) ELSE v

MaxTurns == 5  \* bound: a loop that takes more turns diverges

RECURSIVE Eval(_, _), EvalAll(_, _, _), Turns(_, _, _, _, _)

AndThen(r, K(_, _)) == IF r.out = "value" THEN K(r.value, r.env) ELSE r

\* The variables of the pattern hide those of the same name in e only.
In(p, v, e, env) ==
  IF ~Fits(p, v) THEN Fails("ill-typed", env)
  ELSE LET r == Eval(e, Bound(p, v) @@ env)
       IN  [r EXCEPT !.env = [x \in PatVars(p) \cap DOMAIN env |-> env[x]] @@ @]

EvalAll(es, vs, env) ==
  IF Len(vs) = Len(es) THEN Done(vs, env)
  ELSE AndThen(Eval(es[Len(vs) + 1], env), LAMBDA v, s : EvalAll(es, Append(vs, v), s))

\* The turns of a loop l that are left.
Turns(l, state, items, env, taken) ==
  LET Body(pats, vs, s) ==
        LET t == Turn(l.cf, In(PConstruct("Tuple", pats), Value("Tuple", 0, vs), l.body, s))
        IN  IF t.on THEN Turns(l, t.result.value, Tail(items), t.result.env, taken + 1) ELSE t.result
  IN  IF taken = MaxTurns THEN Fails("diverges", env)
      ELSE IF l.while
      THEN AndThen(In(l.bpat, state, l.cond, env), LAMBDA v, s :
             IF v = TrueValue THEN Body(<<l.bpat>>, <<state>>, s) ELSE Done(AtEnd(l.cf, state), s))
      ELSE IF items = <<>> THEN Done(AtEnd(l.cf, state), env)
      ELSE Body(<<l.bpat, l.pat>>, <<state, items[1]>>, env)

Forever == [k \in 1..MaxTurns |-> NumberOf(0)]

EvalLoop(e, env) ==
  LET bpat == IF Len(e.pats) = 2 THEN e.pats[2] ELSE Wild
      l == [while |-> e.name = "While", cond |-> e.args[1], bpat |-> bpat, pat |-> e.pats[1],
            body |-> e.args[2], cf |-> "Loop"]
      Init == IF Len(e.args) = 3 THEN e.args[3] ELSE Unit
  IN  IF l.while THEN AndThen(Eval(Init, env), LAMBDA v, s : Turns(l, v, Forever, s, 0))
      ELSE AndThen(EvalAll(<<e.args[1], Init>>, <<>>, env), LAMBDA vs, s : Turns(l, vs[2], ItemsOf(vs[1]), s, 0))

\* The last argument of a fold is the body, that of a while_loop before it the condition.
EvalFold(e, env) ==
  LET fn == Last(e.args)
      while == e.args[1].op = "Closure"
      l == [while |-> while, cond |-> IF while THEN e.args[1].args[1] ELSE fn, bpat |-> fn.pats[1], pat |-> Last(fn.pats),
            body |-> fn.args[1], cf |-> Folds[e.name]]
  IN  IF while THEN AndThen(Eval(e.args[2], env), LAMBDA v, s : Turns(l, v, Forever, s, 0))
      ELSE AndThen(EvalAll(Front(e.args), <<>>, env), LAMBDA vs, s :
             Turns(l, Last(vs), ItemsOf(IF Len(vs) = 3 THEN Value("Range", 0, Front(vs)) ELSE vs[1]), s, 0))

Eval(e, env) ==
  CASE e.op = "LocalVar" -> Done(env[e.name], env)
    [] e.op = "Literal" -> Done(NumberOf(e.n), env)
    [] e.op = "Construct" -> AndThen(EvalAll(e.args, <<>>, env), LAMBDA vs, s : Done(Value(e.name, 0, vs), s))
    [] e.op = "App" /\ e.name = "and" ->
         AndThen(Eval(e.args[1], env), LAMBDA v, s : IF v = TrueValue THEN Eval(e.args[2], s) ELSE Done(v, s))
    [] e.op = "App" /\ e.name \in DOMAIN Folds -> EvalFold(e, env)
    [] e.op = "App" /\ e.name # "and" /\ e.name \notin DOMAIN Folds ->
         AndThen(EvalAll(e.args, <<>>, env), LAMBDA vs, s : Applied(e.name, vs, s))
    [] e.op = "Let" -> AndThen(Eval(e.args[1], env), LAMBDA v, s : In(e.pats[1], v, e.args[2], s))
    [] e.op = "Assign" -> AndThen(Eval(e.args[1], env), LAMBDA v, s : Done(Packed(<<>>), [s EXCEPT ![e.name] = v]))
    [] e.op = "If" ->
         AndThen(Eval(e.args[1], env), LAMBDA v, s : Eval(e.args[IF v = TrueValue THEN 2 ELSE 3], s))
    [] e.op = "Match" ->
         AndThen(Eval(e.args[1], env), LAMBDA v, s :
           LET fits == {k \in DOMAIN e.pats : Fits(e.pats[k], v)}
           IN  IF fits = {} THEN Fails("ill-typed", s)
               ELSE LET k == CHOOSE i \in fits : \A j \in fits : i <= j IN In(e.pats[k], v, e.args[k + 1], s))
    [] e.op = "Loop" -> EvalLoop(e, env)
    [] e.op = "Return" -> AndThen(Eval(e.args[1], env), LAMBDA v, s : Result("return", v, s))
    [] e.op = "Break" ->
         AndThen(EvalAll(e.args, <<>>, env), LAMBDA vs, s : Result("break", Last(vs), s))
    [] e.op = "Continue" ->
         AndThen(EvalAll(e.args, <<>>, env), LAMBDA vs, s :
           Result("continue", IF vs = <<>> THEN Packed(<<>>) ELSE vs[1], s))
    [] e.op = "Rejected" -> Fails("rejected", env)

\* A body called with arguments.
Meaning(body, env) ==
  LET r == Eval(body, env)
  IN  [out |-> IF r.out = "return" THEN "value" ELSE r.out, value |-> r.value]
===============================================================================
