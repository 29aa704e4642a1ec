------------------------- MODULE MCFunctionalPrograms -------------------------
(***************************************************************************)
(* Bodies of functions for the phases of Functionalization: statements on  *)
(* two variables, then a number.  Each body ends in a value; the bodies    *)
(* the phases are known not to carry over, and why, are under Left out in  *)
(* the README, and MCBodies has none of them.                              *)
(***************************************************************************)
EXTENDS Functionalization
LOCAL INSTANCE SequencesExt

LocalX == LocalVar("x")
LocalY == LocalVar("y")
Steps(statements, value) == FoldRight(LAMBDA s, e : Let(Wild, s, e), statements, value)
IsSmall(e) == CallTo("small", <<e>>)
Increment == Assign("x", CallTo("inc", <<LocalX>>))
Check == CallTo("check", <<LocalY>>)
Difference == CallTo("minus", <<LocalX, LocalY>>)
\* What never returns has any type.
NeverToAny(e) == CallTo("never_to_any", <<e>>)
ReturnY == NeverToAny(Return(LocalY))
BreakLoop == NeverToAny(Break(<<Unit>>))
ContinueLoop == NeverToAny(Continue(<<>>))

\* Statements whose value nobody looks at; one that may panic ends in a semicolon.
Assigning == {Increment, Steps(<<Increment>>, Unit), Steps(<<Check>>, Unit), Assign("y", LocalX)}
Branches(S) == {If(IsSmall(LocalX), s, Unit) : s \in S} \cup {If(IsSmall(LocalX), s, Assign("y", Literal(1))) : s \in S}
Straight == {Increment, Check} \cup Branches(Assigning \cup {ReturnY})

Loops(S) ==
  {Loop("For", <<Binding("i")>>, <<Construct("Range", <<Literal(0), LocalY>>), s>>) : s \in S}
    \cup {Loop("While", <<Wild>>, <<IsSmall(LocalX), s>>) : s \in S}
Exiting == Branches({ReturnY, BreakLoop, ContinueLoop})
Turning == {Increment} \cup Branches({Increment, ReturnY, BreakLoop, ContinueLoop, Steps(<<Check>>, Unit)})
Pairs(S, T) == {Steps(<<s, t>>, Unit) : s \in S, t \in T}
OneLoop == Loops(Pairs(Turning, Turning))
Nested == Loops(Pairs(Loops(Pairs(Exiting, {Increment})), Exiting))

\* A loop that is left by break only and precedes, in the same block, one that returns.
BreaksThenReturns(l, m) ==
  HasControlFlow(TRUE, l) /\ ~HasControlFlow(FALSE, l) /\ HasControlFlow(FALSE, m)
TwoLoops == {p \in Loops(Turning) \X Loops(Exiting) : ~BreaksThenReturns(p[1], p[2])}

\* Operands: none both assigns what another reads and leaves.
Steady == {LocalX, Steps(<<Check>>, LocalY), Steps(<<If(IsSmall(LocalX), ReturnY, Unit)>>, LocalY)}
AllOperands == Steady \cup
  {Steps(<<Assign("x", Literal(3))>>, LocalX),
   If(IsSmall(LocalY), LocalX, Steps(<<Assign("x", Literal(3))>>, LocalY)),
   Steps(<<Assign("y", Literal(0))>>, CallTo("inc", <<LocalY>>))}
\* What `?` becomes.
Tries(S, onOk(_)) ==
  {Match(If(IsSmall(LocalX), Construct("Ok", <<o>>), Construct("Err", <<LocalY>>)),
         <<PConstruct("Ok", <<Binding("v")>>), PConstruct("Err", <<Binding("w")>>)>>,
         <<onOk(LocalVar("v")), Return(LocalVar("w"))>>) : o \in S}

Around ==
  {Steps(<<s, l, t>>, Difference) : s \in Branches({Increment, ReturnY}), l \in Loops(Turning), t \in Branches({Increment, ReturnY})}

MCBodies == Around \cup
  {Steps(<<s, t>>, Difference) : s \in Straight, t \in Straight}
    \cup {Steps(<<l>>, Difference) : l \in OneLoop \cup Nested}
    \cup {Steps(<<p[1], p[2]>>, Difference) : p \in TwoLoops}
    \cup {CallTo("minus", <<o, p>>) : o \in AllOperands, p \in AllOperands}
    \cup {Steps(<<Assign("x", o)>>, Difference) : o \in AllOperands}
    \cup {Steps(<<If(IsSmall(o), Increment, Unit)>>, Difference) : o \in AllOperands}
    \cup {CallTo("minus", <<o, t>>) : o \in Steady, t \in Tries(Steady, LAMBDA v : v)}
    \cup {Let(Binding("z"), t, CallTo("minus", <<LocalVar("z"), o>>)) : o \in AllOperands,
            t \in Tries(AllOperands, LAMBDA v : v) \cup Tries(AllOperands, LAMBDA v : Steps(<<Assign("y", v)>>, Literal(1)))}

MCArguments == {[x |-> NumberOf(a), y |-> NumberOf(b)] : a \in {0, 3}, b \in {1, 2}}

\* A branch whose last expression may panic and has no semicolon.
PanickingBodies == {Steps(<<s, t>>, Difference) : s \in Branches({Check} \cup Assigning), t \in Branches(Assigning)}
===============================================================================
