---------------------------- MODULE MCTraitWorlds ----------------------------
(***************************************************************************)
(* Items to search in: A and B are associated types of the trait Tr, Item  *)
(* is one of Iter.  Every predicate asked holds, as of a program rustc     *)
(* accepts.                                                                *)
(***************************************************************************)
EXTENDS TraitSearch, TLC

MCTraits == {"Tr", "Sub", "Iter", "Foo", "Bar"}
MCOwnerOf == "A" :> "Tr" @@ "B" :> "Tr" @@ "Item" :> "Iter"
Is(of, trait) == [of |-> of, trait |-> trait]
Type(root, path) == [root |-> root, path |-> path]
T == Type("T", <<>>)
U == Type("U", <<>>)
Self == Type("Self", <<>>)
Dyn == Type("_dyn", <<>>)

\* What the traits imply, and the bounds of the associated types.
Declared(tr, sub, iter, foo, a, b, item) ==
  [implied |-> ("Tr" :> tr @@ "Sub" :> sub @@ "Iter" :> iter @@ "Foo" :> foo @@ "Bar" :> <<>>),
   bounds |-> ("A" :> a @@ "B" :> b @@ "Item" :> item)]

World(decl, self, clauses, asks) ==
  [implied |-> decl.implied, bounds |-> decl.bounds, self |-> self, clauses |-> clauses,
   equal |-> {}, dyn |-> <<>>, dynEqual |-> {}, builtin |-> <<>>, concrete |-> {"u8"}, asks |-> asks, dynAsks |-> {}]

\* Tr: Foo, with type A: Iter; Sub: Tr; Iter<Item: Foo>; Foo: Bar.
Plain == Declared(<<Is(<<>>, "Foo")>>, <<Is(<<>>, "Bar"), Is(<<>>, "Tr")>>, <<>>, <<Is(<<>>, "Bar")>>,
                  <<Is(<<>>, "Iter")>>, <<Is(<<>>, "Iter")>>, <<Is(<<>>, "Foo")>>)

\* A type of a trait.
InTrait == World(Plain, <<Pred(Self, "Sub")>>, <<Pred(T, "Foo"), Pred(Self, "Foo"), Pred(T, "Tr"), Pred(T, "Bar")>>,
  {Pred(Self, "Tr"), Pred(Self, "Bar"), Pred(T, "Bar"), Pred(Projected(T, <<"A">>), "Iter"), Pred(Projected(T, <<"A", "Item">>), "Bar"),
   Pred(Projected(Self, <<"B", "Item">>), "Foo"), Pred(Type("u8", <<>>), "Foo")})

\* T: Tr<A = U>, and a closure type C.
Aside == [World(Plain, <<>>, <<Pred(T, "Sub"), Pred(U, "Foo"), Pred(T, "Tr")>>,
  {Pred(Projected(T, <<"A">>), "Foo"), Pred(Projected(T, <<"A">>), "Bar"), Pred(Projected(T, <<"B", "Item">>), "Bar"), Pred(T, "Bar"), Pred(Type("C", <<>>), "Iter")})
  EXCEPT !.equal = {[from |-> Projected(T, <<"A">>), to |-> U]},
         !.builtin = (Pred(Type("C", <<>>), "Iter") :> <<Pred(T, "Foo"), Pred(Type("C", <<>>), "Bar")>> @@ Pred(Type("C", <<>>), "Bar") :> <<>>)]

\* type B: Iter<Item: Foo> + Bar, and the item knows T::B: Iter by a clause of its own.
NestedDecl == Declared(<<>>, <<>>, <<>>, <<>>, <<>>, <<Is(<<>>, "Iter"), Is(<<"Item">>, "Foo"), Is(<<>>, "Bar")>>, <<>>)
NestedBounds == World(NestedDecl, <<>>, <<Pred(T, "Tr"), Pred(Projected(T, <<"B">>), "Iter")>>,
  {Pred(Projected(T, <<"B", "Item">>), "Foo"), Pred(Projected(T, <<"B">>), "Bar"), Pred(Projected(T, <<"B">>), "Iter")})

\* Tr where Self::A: Iter, <Self::A as Iter>::Item: Foo.
WhereDecl == Declared(<<Is(<<"A">>, "Iter"), Is(<<"A", "Item">>, "Foo")>>, <<Is(<<>>, "Tr"), Is(<<"A", "Item">>, "Bar")>>, <<>>, <<>>, <<>>,
                      <<Is(<<>>, "Sub")>>, <<Is(<<>>, "Bar")>>)
Where == World(WhereDecl, <<Pred(Self, "Tr")>>, <<Pred(T, "Sub")>>,
  {Pred(Projected(T, <<"A", "Item">>), "Foo"), Pred(Projected(T, <<"A", "Item">>), "Bar"), Pred(Projected(Self, <<"B", "A", "Item">>), "Foo"), Pred(Projected(Self, <<"B", "A">>), "Iter")})

\* dyn Iter + Sub<A = T>.
WithDyn == [World(Plain, <<>>, <<Pred(T, "Sub")>>, {Pred(Projected(T, <<"A">>), "Iter"), Pred(Projected(T, <<"A", "Item">>), "Foo")})
  EXCEPT !.dyn = <<Pred(Dyn, "Iter"), Pred(Dyn, "Sub")>>, !.dynEqual = {[from |-> Projected(Dyn, <<"A">>), to |-> T]},
         !.dynAsks = {Pred(Dyn, "Iter"), Pred(Dyn, "Tr"), Pred(Projected(Dyn, <<"B", "Item">>), "Foo"), Pred(Projected(Dyn, <<"A">>), "Tr")}]

NestedWorlds == {NestedBounds}
MCWorlds == {InTrait, Aside, NestedBounds, Where, WithDyn}
=============================================================================
