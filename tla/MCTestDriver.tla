------------------------------ MODULE MCTestDriver ------------------------------
(***************************************************************************)
(* Two backends, of which one verifies, and two tests.  A world gives the  *)
(* file of each test, the lines of the files, the diagnostics of each      *)
(* extraction and the verifications that fail.                             *)
(***************************************************************************)
EXTENDS TestDriver

CONSTANTS fstar, coq, t1, t2, none

Names == {"f", "g", "h", "lost"}
MCInside == {<<i, i>> : i \in Names} \cup {<<"h", "f">>}

Blank == [is |-> "blank"]
Line(i) == [is |-> "item", name |-> i]
Lines == <<Blank, Line("f"), Line("h"), Line("g")>>
Fail(b, t, d) == [is |-> "directive", kind |-> "extraction", bang |-> FALSE,
                  marks |-> {[backend |-> b, test |-> t, diag |-> d]}]
Diag(owner, code) == [owner |-> owner, code |-> code]

\* A world where the files are apart and t2 extracts without diagnostic.
Apart(lines, f, c, bad) ==
  [file |-> (t1 :> "one" @@ t2 :> "two"),
   lines |-> ("one" :> lines @@ "two" :> <<Blank>>),
   output |-> (fstar :> (t1 :> f @@ t2 :> {}) @@ coq :> (t1 :> c @@ t2 :> {})),
   untypable |-> bad,
   off |-> (t1 :> {} @@ t2 :> {})]

Good == Apart(Lines, {}, {}, {})
Expected == Apart(<<Blank, Fail(fstar, t1, Diag("f", 1)), Line("f"), Line("g")>>, {Diag("f", 1)}, {}, {})
Superfluous == Apart(<<Blank, Fail(coq, t1, Diag("g", 2)), Line("g")>>, {}, {}, {})
Failing == Apart(Lines, {Diag("f", 1)}, {Diag("g", 1), Diag(None, 2)}, {})
TwoCodes == Apart(Lines, {Diag("f", 1), Diag("f", 2)}, {}, {})
Untypable == Apart(Lines, {}, {}, {<<fstar, t1>>})
Shifted == Apart(Lines, {}, {Diag("g", 1)}, {<<fstar, t1>>})
Nested == Apart(Lines, {Diag("f", 1), Diag("h", 1)}, {}, {})
Spanless == Apart(Lines, {Diag("lost", 1)}, {}, {})
Shared == [Good EXCEPT !.file = (t1 :> "one" @@ t2 :> "one"), !.lines = ("one" :> <<Blank, Line("f")>>)]
OneOff == [Failing EXCEPT !.off = (t1 :> {coq} @@ t2 :> {coq})]

\* An expectation of "f" that a diagnostic below "f" may meet, and one without owner.
Above == Apart(<<Blank, Fail(coq, t1, Diag("f", 1)), Line("f"), Line("h")>>, {}, {Diag("f", 1), Diag("h", 1)}, {})
Ownerless == Apart(Lines, {}, {Diag("f", 1), Diag("g", 1), Diag(None, 1)}, {})
\* One module is there twice.
Twice == [Shared EXCEPT !.output = (fstar :> (t1 :> {Diag("f", 1)} @@ t2 :> {Diag("f", 1)}) @@ coq :> (t1 :> {} @@ t2 :> {}))]

Worlds == {Above, Ownerless, Twice, Good, Expected, Superfluous, Failing, TwoCodes, Untypable, Shifted, Nested, Spanless, Shared, OneOff}
=================================================================================
