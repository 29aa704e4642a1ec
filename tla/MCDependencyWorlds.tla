------------------------- MODULE MCDependencyWorlds -------------------------
(***************************************************************************)
(* Crates and clauses for Dependencies.  ForSelection: three functions,    *)
(* each mentioning the next ones in its signature or its body.             *)
(* ForOrder: three items over one to three modules with every dependency   *)
(* between them, one of them a trait whose method may be what is           *)
(* mentioned, one a function, a type or a `use`, and a quote               *)
(* before or after the first.                                              *)
(***************************************************************************)
EXTENDS Dependencies

Ident(module, name) == [path |-> <<"k", module, name>>, ns |-> {module}]
Under(d, name) == [d EXCEPT !.path = Append(@, name)]
Decl(d, kind, signature, body) ==
  [ident |-> d, kind |-> kind, subs |-> {}, signature |-> signature, body |-> body,
   associated |-> {}, origin |-> NoIdent, position |-> "none", forced |-> FALSE]
Quote(d, origin, position) == [Decl(d, "Quote", {}, {}) EXCEPT !.origin = origin, !.position = position]

A == Ident("m", "a")
B == Ident("n", "b")
C == Ident("m", "c")
How == {"none", "signature", "body"}
Pick(how, d, where) == IF how = where THEN {d} ELSE {}
Fun(d, e, how1, f, how2) ==
  Decl(d, "Fn", Pick(how1, e, "signature") \cup Pick(how2, f, "signature"),
       Pick(how1, e, "body") \cup Pick(how2, f, "body"))

Q == Ident("m", "q")
ForSelection ==
  {<<[Fun(A, B, ab, C, ac) EXCEPT !.associated = quote, !.forced = forced],
     Decl(B, "Fn", Pick(bc, C, "signature"), Pick(bc, C, "body")), Decl(C, "Fn", {}, {})>>
     \o IF quote = {} THEN <<>> ELSE <<Quote(Q, A, "after")>> :
     ab \in How, ac \in How, bc \in How, <<quote, forced>> \in {<<{}, FALSE>>, <<{}, TRUE>>, <<{Q}, FALSE>>}}

Patterns == {<<"k", "m", "a">>, <<"k", "m", "*">>, <<"**", "b">>}
AllClauses == [kind : {"+", "+~", "+!", "+:", "-"}, pattern : Patterns]
Nothing == [kind |-> "-", pattern |-> <<"**">>]
Selections ==
  {<<c>> : c \in AllClauses} \cup {<<Nothing>>} \cup {<<Nothing, c>> : c \in AllClauses}
    \cup {<<Nothing, c, d>> : c, d \in {e \in AllClauses : Len(e.pattern) # 3 \/ e.pattern[3] = "a"}}


ForOrder ==
  UNION {LET a == Ident("m", "a")
             b == Ident(n, "b")
             c == Ident(o, "c")
             x == Under(b, "x")
             f == Under(c, "f")
             subs == IF kind \in {"Type", "Impl"} THEN {f} ELSE {}
         IN  {<<[Decl(a, "Fn", {}, A0) EXCEPT !.associated = IF position = "none" THEN {} ELSE {Ident("m", "q")}],
                [Decl(b, "Trait", B0, {}) EXCEPT !.subs = {x}],
                [Decl(c, kind, IF kind = "Use" THEN {} ELSE C0, {}) EXCEPT !.subs = subs]>>
              \o IF position = "none" THEN <<>> ELSE <<Quote(Ident("m", "q"), a, position)>> :
              A0 \in SUBSET ({a, x} \cup IF kind = "Use" THEN {} ELSE {c}),
              B0 \in SUBSET ({a} \cup IF kind = "Use" THEN {} ELSE {c}), C0 \in SUBSET {a, b}} :
         <<n, o>> \in {<<"m", "m">>, <<"n", "m">>, <<"n", "n">>, <<"n", "o">>}, kind \in {"Fn", "Type", "Use"},
         position \in {"none", "before", "after"}}

MCInputs ==
  [crate : ForSelection, clauses : Selections] \cup [crate : ForOrder, clauses : {<<>>}]
=============================================================================
