---------------------------- MODULE ExplicitMonadic ----------------------------
(***************************************************************************)
(* The monadic encoding of the Lean backend: import_thir.rs makes calls of *)
(* Rust's expressions, the phase ExplicitMonadic inserts `pure` and `lift` *)
(* so that a computation, which may panic, stands where the do-notation    *)
(* expects one, and the resugaring LetPure simplifies the result.  It is   *)
(* compared with Rust by evaluating both, Booleans, pairs and closures     *)
(* being all the data.  Match is If here, and an ascription, an array or a *)
(* struct are a tuple; what earlier phases remove (blocks, loops, returns, *)
(* references, assignments, guards) is left out.                           *)
(***************************************************************************)
EXTENDS Naturals, Sequences, RustOption

CONSTANT Programs  \* Rust expressions in one Boolean variable

VARIABLES program, argument, extracted

monadicVars == <<program, argument, extracted>>

\* An expression; the head of a call is its first argument.
Node(op, name, args) == [op |-> op, name |-> name, args |-> args]
Global(name) == Node("GlobalId", name, <<>>)
UnitExpr == Global("unit")
App(head, args) == Node("App", "", <<head>> \o args)

Projectors == {"fst"}
PureId == Global("pure")
LiftId == Global("lift")

-------------------------------------------------------------------------------
(* From Rust to Lean. *)

RECURSIVE Import(_)

\* Variant: a call without arguments stays one.
CallArgs_AsIs(args) == args

\* A function without parameters takes a unit.
CallArgs(args) == IF args = <<>> THEN <<UnitExpr>> ELSE args

\* Calls, operators and projections all become applications; an associated constant one
\* without arguments.
Import(e) ==
  LET args == [k \in DOMAIN e.args |-> Import(e.args[k])]
  IN  CASE e.op = "Call" -> App(args[1], CallArgs(Tail(args)))
        [] e.op \in {"LogicalOp", "Field", "AssocConst"} -> App(Global(e.name), args)
        [] OTHER -> [e EXCEPT !.args = args]

\* What the position of a subexpression expects.
Constraint(e, k) ==
  IF e.op \in {"Let", "Closure"} \/ (e.op = "If" /\ k # 1) THEN "Computation" ELSE "Value"

\* What an expression is, its subexpressions coerced.
Status(e) ==
  CASE e.op = "App" ->
         IF e.args[1].op = "GlobalId" /\ e.args[1].name \in Projectors THEN "Value"
         ELSE IF Len(e.args) = 1 THEN "Value"
         ELSE "Computation"
    [] e.op \in {"If", "Let"} -> "Computation"
    [] OTHER -> "Value"

Coerce(e, from, to) ==
  IF from = to THEN e ELSE App(IF to = "Computation" THEN PureId ELSE LiftId, <<e>>)

\* visit_expr_coerce.
RECURSIVE Visited(_, _)
Visited(e, constraint) ==
  LET inner == [e EXCEPT !.args = [k \in DOMAIN e.args |-> Visited(e.args[k], Constraint(e, k))]]
  IN  Coerce(inner, Status(inner), constraint)

RECURSIVE LetPure(_)
LetPure(e) ==
  LET args == [k \in DOMAIN e.args |-> LetPure(e.args[k])]
  IN  IF e.op = "Let" /\ args[1].op = "App" /\ args[1].args[1] = PureId
      THEN Node("LetPure", "", <<args[1].args[2], args[2]>>)
      ELSE [e EXCEPT !.args = args]

MonadicInit ==
  /\ program \in Programs /\ argument \in BOOLEAN
  /\ extracted = None

\* The body of a function is a computation.
ApplyPhase ==
  /\ ~extracted.some
  /\ extracted' = Some(LetPure(Visited(Import(program), "Computation")))
  /\ UNCHANGED <<program, argument>>

MonadicSpec == MonadicInit /\ [][ApplyPhase]_monadicVars

-------------------------------------------------------------------------------
(* What both languages compute: a value, or the panic of a function. *)

BoolValue(b) == [kind |-> "bool", bool |-> b]
PairValue(vs) == [kind |-> "pair", parts |-> vs]
UnitValue == [kind |-> "unit"]
ClosureValue(body, x) == [kind |-> "closure", body |-> body, x |-> x]
Returns(v) == [is |-> "value", value |-> v]
Panics(name) == [is |-> "panic", name |-> name]
Rejected == [is |-> "rejected"]  \* by the type checker of Lean

\* Arguments are evaluated from left to right; the first that does not return decides.
Strict(results, Apply(_)) ==
  IF \E k \in DOMAIN results : results[k].is # "value"
  THEN results[CHOOSE k \in DOMAIN results : results[k].is # "value" /\ \A j \in 1..(k - 1) : results[j].is = "value"]
  ELSE Apply([k \in DOMAIN results |-> results[k].value])

\* f panics on false and g on true; abort takes nothing, or a unit.
Called(name, vs) ==
  CASE name = "f" -> IF vs[1].bool THEN Returns(vs[1]) ELSE Panics("f")
    [] name = "g" -> IF vs[1].bool THEN Panics("g") ELSE Returns(BoolValue(TRUE))
    [] name = "abort" -> Panics("abort")
    [] name = "and" -> Returns(BoolValue(vs[1].bool /\ vs[2].bool))
    [] name = "or" -> Returns(BoolValue(vs[1].bool \/ vs[2].bool))
    [] name = "fst" -> Returns(vs[1].parts[1])
    [] name = "C" -> Returns(BoolValue(FALSE))
    [] name = "unit" -> Returns(UnitValue)

Simple(e, x) == IF e.op = "LocalId" THEN x ELSE BoolValue(e.name = "true")

RECURSIVE Rust(_, _)
Rust(e, x) ==
  LET Results == [k \in DOMAIN e.args |-> Rust(e.args[k], x)]
      Callee(c) == IF c.kind = "closure" THEN Rust(c.body, c.x) ELSE c
  IN  CASE e.op \in {"LocalId", "Literal"} -> Returns(Simple(e, x))
        [] e.op \in {"GlobalId", "AssocConst"} -> Called(e.name, <<>>)
        [] e.op = "Closure" -> Returns(ClosureValue(e.args[1], x))
        [] e.op = "Tuple" -> Strict(Results, LAMBDA vs : Returns(PairValue(vs)))
        [] e.op = "Field" -> Strict(Results, LAMBDA vs : Called("fst", vs))
        [] e.op = "Call" /\ e.args[1].op = "GlobalId" ->
             Strict([k \in 1..(Len(e.args) - 1) |-> Results[k + 1]], LAMBDA vs : Called(e.args[1].name, vs))
        [] e.op = "Call" -> Strict(Results, LAMBDA vs : Rust(vs[1].body, vs[1].x))
        [] e.op = "LogicalOp" ->
             Strict(<<Results[1]>>, LAMBDA vs :
               IF vs[1].bool = (e.name = "and") THEN Results[2] ELSE Returns(vs[1]))
        [] e.op = "If" ->
             Strict(<<Results[1]>>, LAMBDA vs : IF vs[1].bool THEN Results[2] ELSE Results[3])
        [] e.op = "Let" -> Strict(<<Results[1]>>, LAMBDA vs : Rust(e.args[2], vs[1]))

\* A term that stands for a value, where `(<- e)` runs e first, and one of the monad.
RECURSIVE Term(_, _), Do(_, _)
Term(e, x) ==
  LET Results == [k \in DOMAIN e.args |-> Term(e.args[k], x)]
  IN  CASE e.op \in {"LocalId", "Literal"} -> Returns(Simple(e, x))
        [] e.op = "GlobalId" -> Called(e.name, <<>>)
        [] e.op = "Closure" -> Returns(ClosureValue(e.args[1], x))
        [] e.op = "Tuple" -> Strict(Results, LAMBDA vs : Returns(PairValue(vs)))
        [] e.op = "App" /\ e.args[1] = LiftId -> Do(e.args[2], x)
        [] e.op = "App" /\ e.args[1] = Global("C") /\ Len(e.args) = 1 -> Called("C", <<>>)
        [] e.op = "App" /\ e.args[1] = Global("fst") ->
             Strict(<<Term(e.args[2], x)>>, LAMBDA vs : Called("fst", vs))
        [] OTHER -> Rejected

Do(e, x) ==
  LET Args == [k \in 1..(Len(e.args) - 1) |-> Term(e.args[k + 1], x)]
  IN  CASE e.op = "App" /\ e.args[1] = PureId -> Args[1]
        [] e.op = "App" /\ e.args[1].op = "GlobalId" /\ e.args[1].name \in {"f", "g", "abort", "and", "or"} ->
             IF Args = <<>> THEN Rejected ELSE Strict(Args, LAMBDA vs : Called(e.args[1].name, vs))
        [] e.op = "App" /\ e.args[1].op \notin {"GlobalId"} ->
             Strict(<<Term(e.args[1], x)>> \o Args, LAMBDA vs : Do(vs[1].body, vs[1].x))
        [] e.op = "If" ->
             Strict(<<Term(e.args[1], x)>>, LAMBDA vs : IF vs[1].bool THEN Do(e.args[2], x) ELSE Do(e.args[3], x))
        [] e.op = "Let" -> Strict(<<Do(e.args[1], x)>>, LAMBDA vs : Do(e.args[2], vs[1]))
        [] e.op = "LetPure" -> Strict(<<Term(e.args[1], x)>>, LAMBDA vs : Do(e.args[2], vs[1]))
        [] OTHER -> Rejected

\* The same outcome, but for the bodies of closures.
RECURSIVE Alike(_, _)
Alike(v, w) ==
  /\ v.kind = w.kind
  /\ v.kind = "bool" => v.bool = w.bool
  /\ v.kind = "pair" => \A k \in 1..2 : Alike(v.parts[k], w.parts[k])
Agree(r, l) ==
  /\ r.is = l.is
  /\ r.is = "panic" => r.name = l.name
  /\ r.is = "value" => Alike(r.value, l.value)

\* Lean evaluates both sides of && and ||, whose operators take values.
RECURSIVE Eager(_)
Eager(e) == e.op # "LogicalOp" /\ \A k \in DOMAIN e.args : Eager(e.args[k])

-------------------------------------------------------------------------------
\* What the extracted function returns is what the Rust function returns, so that what is
\* proved of one holds of the other; without lazy operators it panics when that one does,
\* at the same call.  Lean never rejects the coercions.
ExtractionRefines ==
  extracted.some =>
    LET x == BoolValue(argument)
        r == Rust(program, x)
        l == Do(extracted.value, x)
    IN  /\ l.is # "rejected"
        /\ l.is = "value" \/ Eager(program) => Agree(r, l)
=============================================================================
