-------------------------- MODULE MCMonadicPrograms --------------------------
(***************************************************************************)
(* The Rust expressions ExplicitMonadic is checked on: every operator,     *)
(* around every operator, around a leaf.                                   *)
(***************************************************************************)
EXTENDS ExplicitMonadic

VarX == Node("LocalId", "x", <<>>)
LitOf(n) == Node("Literal", n, <<>>)
CallOf(n, args) == Node("Call", "", <<Global(n)>> \o args)
Thunk(b) == Node("Closure", "", <<b>>)
First(a, b) == Node("Field", "fst", <<Node("Tuple", "", <<a, b>>)>>)
Choice(a, b, c) == Node("If", "", <<a, b, c>>)
Bind(a, b) == Node("Let", "", <<a, b>>)
Both(n, a, b) == Node("LogicalOp", n, <<a, b>>)

Leaves == {VarX, LitOf("true"), Global("C"), Node("AssocConst", "C", <<>>), CallOf("abort", <<>>)}
Rest == {VarX, CallOf("g", <<VarX>>)}

\* One more operator around the expressions of S, the other operands from R; a Let only
\* where earlier phases leave it, as a statement.
Statements(S, R) ==
  {Bind(a, b) : a \in {e \in S : e.op # "Let"}, b \in R} \cup {Bind(a, b) : a \in R, b \in S}
    \cup {Choice(a, b, c) : a \in R, b \in S, c \in R} \cup {Choice(a, b, c) : a \in R, b \in R, c \in S}
    \cup {Node("Call", "", <<Thunk(a)>>) : a \in S}
Operands(S, R) ==
  {CallOf(n, <<a>>) : n \in {"f", "g"}, a \in S}
    \cup {Both(n, a, b) : n \in {"and", "or"}, a \in S, b \in R}
    \cup {Both(n, a, b) : n \in {"and", "or"}, a \in R, b \in S}
    \cup {First(a, b) : a \in S, b \in R} \cup {First(a, b) : a \in R, b \in S}
    \cup {Choice(a, b, c) : a \in S, b \in R, c \in R}
    \cup {Node("Call", "", <<Choice(a, Thunk(b), Thunk(c))>>) : a \in S, b \in R, c \in R}
NoLet(S) == {e \in S : e.op # "Let"}

One == Leaves \cup Statements(Leaves, Rest) \cup Operands(Leaves, Rest)
MCPrograms == One \cup Statements(One, Rest) \cup Operands(NoLet(One), Rest)
=============================================================================
