---------------------------- MODULE Dependencies ----------------------------
(***************************************************************************)
(* The dependency analysis of the OCaml engine, from the items of a crate  *)
(* to the order in which a printer gets them: the clauses of `-i` select   *)
(* items, items of mutually dependent modules move to a fresh module and   *)
(* leave aliases, and each module is sorted.  An identifier is its path    *)
(* and its module; a module is the set of the modules of the crate that    *)
(* were merged into it.  An item is what it declares and what it mentions: *)
(* in its signature, in its body (of a function) and through its           *)
(* attributes (an associated item).                                        *)
(***************************************************************************)
EXTENDS Naturals, FiniteSets, Sequences
LOCAL INSTANCE SequencesExt

CONSTANT Inputs  \* crates (sequences of items) with the clauses of `-i` (a sequence)

VARIABLES crate,     \* the items as imported
          clauses,   \* the option -i
          stage,     \* what was done last
          arranged,  \* the items, selected and then bundled
          printed    \* the items sorted so far

depVars == <<crate, clauses, stage, arranged, printed>>

NoIdent == [path |-> <<>>, ns |-> {}]

\* What declares a name (the fields of a type, the items of a trait or impl, included).
IdentsOf(item) == {item.ident} \cup item.subs

Mentions(item) == item.signature \cup item.body \cup item.associated \cup item.subs

-------------------------------------------------------------------------------
(* Graphs: a set of pairs. *)

RECURSIVE DependenciesOf(_, _)
DependenciesOf(edges, from) ==
  LET next == from \cup {e[2] : e \in {x \in edges : x[1] \in from}}
  IN  IF next = from THEN from ELSE DependenciesOf(edges, next)

Path(edges, x, y) == y \in DependenciesOf(edges, {x})
Component(edges, x) == {y \in DependenciesOf(edges, {x}) : Path(edges, y, x)}

\* Nodes all of whose successors are gone, or as good as gone: in a cycle.
Ready(edges, left) == {x \in left : \A y \in left : Path(edges, x, y) => Path(edges, y, x)}

\* The orders Topological.fold may visit the nodes in, successors first.
RECURSIVE Orders(_, _)
Orders(edges, left) ==
  IF left = {} THEN {<<>>}
  ELSE UNION {{<<x>> \o rest : rest \in Orders(edges, left \ {x})} : x \in Ready(edges, left)}

ItemGraph(items) == UNION {{i.ident} \X Mentions(i) : i \in Range(items)}
ModGraph(items) == {<<e[1].ns, e[2].ns>> : e \in ItemGraph(items)}
Modules(items) == {i.ident.ns : i \in Range(items)}

-------------------------------------------------------------------------------
(* Selection. *)

RECURSIVE MatchesNamespace(_, _)
MatchesNamespace(pattern, path) ==
  IF pattern = <<>> THEN path = <<>>
  ELSE CASE Head(pattern) = "**" ->
              \/ MatchesNamespace(Tail(pattern), path)
              \/ path # <<>> /\ MatchesNamespace(pattern, Tail(path))
         [] Head(pattern) = "*" -> path # <<>> /\ MatchesNamespace(Tail(pattern), Tail(path))
         [] OTHER -> path # <<>> /\ Head(pattern) = Head(path) /\ MatchesNamespace(Tail(pattern), Tail(path))

Matches(clause, ident) == MatchesNamespace(clause.pattern, ident.path)

\* A function is imported without its body when its last clause is `+:`.
TypeOnly(list, item) ==
  LET applying == SelectSeq(list, LAMBDA c : Matches(c, item.ident))
  IN  applying # <<>> /\ Last(applying).kind = "+:"

DropBody(item) == [item EXCEPT !.body = {}]

ImportItem(list, item) == IF TypeOnly(list, item) THEN DropBody(item) ELSE item

WithDeps == {"+", "+~"}
DropBodies == {"+~", "+:"}

ApplyClause(items, acc, clause) ==
  LET idents == {i.ident : i \in Range(items)}
      matched0 == {x \in idents : Matches(clause, x)}
      matched == IF clause.kind \in WithDeps THEN DependenciesOf(ItemGraph(items), matched0) ELSE matched0
      result == IF clause.kind = "-" THEN acc.chosen \ matched ELSE acc.chosen \cup matched
      forced == {i.ident : i \in {j \in Range(items) : j.forced /\ j.ident \in acc.chosen}}
  IN  [chosen |-> forced \cup result,
       dropped |-> IF clause.kind \in DropBodies THEN (acc.dropped \cup matched) \ matched0
                   ELSE acc.dropped]

OnePass(list, items) ==
  FoldLeft(LAMBDA acc, c : ApplyClause(items, acc, c),
           [chosen |-> {i.ident : i \in Range(items)}, dropped |-> {}], list)

Keep(items, chosen) == SelectSeq(items, LAMBDA i : i.ident \in chosen)

\* Variant: the first pass is all.
Selected_Once(list, items) == OnePass(list, items).chosen

\* The second pass does not see what is only mentioned in a body that is to be dropped.
Selected(list, items) ==
  LET first == OnePass(list, items)
      cut(i) == IF i.ident \in first.dropped THEN DropBody(i) ELSE i
      kept == Keep(items, first.chosen)
  IN  OnePass(list, [k \in DOMAIN kept |-> cut(kept[k])]).chosen \cap {i.ident : i \in Range(kept)}

\* The associated items of what was selected come along.
WithAssociated(items, kept) ==
  kept \o SelectSeq(items, LAMBDA i : i \notin Range(kept) /\ \E j \in Range(kept) : i.ident \in j.associated)

\* A quote whose origin was not selected is a function like any other.
Quoted(items) ==
  [k \in DOMAIN items |->
     IF items[k].kind = "Quote" /\ \A i \in Range(items) : i.ident # items[k].origin
     THEN [items[k] EXCEPT !.kind = "Fn"] ELSE items[k]]

DepInit ==
  /\ \E input \in Inputs : crate = input.crate /\ clauses = input.clauses
  /\ stage = "parsed" /\ arranged = <<>> /\ printed = <<>>

Select ==
  /\ stage = "parsed"
  /\ LET items == [k \in DOMAIN crate |-> ImportItem(clauses, crate[k])]
     IN  /\ crate' = items
         /\ arranged' = Quoted(WithAssociated(items, Keep(items, Selected(clauses, items))))
  /\ stage' = "selected"
  /\ UNCHANGED <<clauses, printed>>

-------------------------------------------------------------------------------
(* Bundling.  Neither `use` items nor what they declare move. *)

MovedTo(d, fresh) == [d EXCEPT !.ns = fresh]

\* What is moved but needs no alias: quotes, the fields of a type, the methods of an impl.
Exposed(item) ==
  IF item.kind = "Quote" THEN {} ELSE IF item.kind \in {"Type", "Impl"} THEN {item.ident} ELSE IdentsOf(item)

Alias(d, fresh) ==
  [ident |-> d, kind |-> "Alias", subs |-> {}, signature |-> {MovedTo(d, fresh)}, body |-> {},
   associated |-> {}, origin |-> NoIdent, position |-> "none", forced |-> FALSE]

\* Variant: only the items are renamed, not what is declared under them.
Renamed_Items(bundle) == {i.ident : i \in {j \in Range(bundle) : j.kind # "Use"}}

Renamed(bundle) == UNION {IdentsOf(i) : i \in {j \in Range(bundle) : j.kind # "Use"}}

FreshModuleFor(bundle) ==
  LET fresh == UNION Modules(bundle)
      moved == Renamed(bundle)
      Rename(d) == IF d \in moved THEN MovedTo(d, fresh) ELSE d
      RenameAll(D) == {Rename(d) : d \in D}
      RenameItem(i) ==
        [i EXCEPT !.ident = Rename(@), !.subs = RenameAll(@), !.signature = RenameAll(@),
                  !.body = RenameAll(@), !.associated = RenameAll(@), !.origin = Rename(@)]
      aliases == UNION {Exposed(i) : i \in {j \in Range(bundle) : j.kind # "Use"}}
  IN  [k \in DOMAIN bundle |-> RenameItem(bundle[k])] \o
      SetToSeq({Alias(d, fresh) : d \in aliases})

ModuleCycles(items) ==
  {Component(ModGraph(items), m) : m \in Modules(items)}

BundleOf(items, cycle) ==
  LET bundle == SelectSeq(items, LAMBDA i : i.ident.ns \in cycle)
  IN  IF Cardinality(cycle) > 1 THEN FreshModuleFor(bundle) ELSE bundle

\* Bundle_cycles.  The order of the components is that of scc_list; each module will be sorted.
BundleCyclicModules ==
  /\ stage = "selected"
  /\ LET cycles == SetToSeq(ModuleCycles(arranged))
     IN  arranged' = FlattenSeq([k \in DOMAIN cycles |-> BundleOf(arranged, cycles[k])])
  /\ stage' = "bundled"
  /\ UNCHANGED <<crate, clauses, printed>>

-------------------------------------------------------------------------------
(* Sorting. *)

ItemOf(items, d) == CHOOSE i \in Range(items) : i.ident = d

\* The edges of the items of one module among themselves.
LocalGraph(items) ==
  LET own == {i.ident : i \in Range(items)} IN {e \in ItemGraph(items) : e[2] \in own}

\* The components of several items, each in some order.
CycleLists(items) ==
  LET g == LocalGraph(items)
      cycles == {c \in {Component(g, i.ident) : i \in Range(items)} : Cardinality(c) > 1}
  IN  {S \in SUBSET UNION {SetToSeqs(c) : c \in cycles} :
         Cardinality(S) = Cardinality(cycles) /\ \A c \in cycles : \E l \in S : Range(l) = c}

\* Variant: a cycle is left where the topological order put its items.
Grouped_AsIs(order, lists) == order

\* A cycle takes the place of its last item, from which the fold begins.
Grouped(order, lists) ==
  FoldLeft(LAMBDA acc, d :
             IF d \in Range(acc) THEN acc
             ELSE IF \E l \in lists : d \in Range(l)
                  THEN (CHOOSE l \in lists : d \in Range(l)) \o acc
                  ELSE <<d>> \o acc,
           <<>>, Reverse(order))

\* Puts a quote beside its origin.
MoveQuote(order, quote, origin, before) ==
  FlattenSeq([k \in DOMAIN order |->
    IF order[k] = origin THEN IF before THEN <<quote, origin>> ELSE <<origin, quote>>
    ELSE IF order[k] = quote THEN <<>> ELSE <<order[k]>>])

WithQuotes(items, order) ==
  LET quotes(position) ==
        SelectSeq(order, LAMBDA d : LET i == ItemOf(items, d) IN i.kind = "Quote" /\ i.position = position)
      before == FoldLeft(LAMBDA acc, q : MoveQuote(acc, q, ItemOf(items, q).origin, TRUE),
                         order, Reverse(quotes("before")))
  IN  FoldLeft(LAMBDA acc, q : MoveQuote(acc, q, ItemOf(items, q).origin, FALSE), before, quotes("after"))

Sort(items) ==
  {[k \in DOMAIN order |-> ItemOf(items, order[k])] :
     order \in {WithQuotes(items, Grouped(o, lists)) :
                  o \in Orders(LocalGraph(items), {i.ident : i \in Range(items)}),
                  lists \in CycleLists(items)}}

\* Sort_items_namespace_wise, a module at a time.
SortModule ==
  /\ stage = "bundled"
  /\ \E m \in Ready(ModGraph(arranged), Modules(arranged) \ Modules(printed)) :
       \E sorted \in Sort(SelectSeq(arranged, LAMBDA i : i.ident.ns = m)) :
         printed' = printed \o sorted
  /\ UNCHANGED <<crate, clauses, stage, arranged>>

DepNext == Select \/ BundleCyclicModules \/ SortModule

\* What is printed as `let rec ... and ...`.
RecursiveBundles(items) ==
  LET g == ItemGraph(items)
  IN  {c \in {Component(g, i.ident) : i \in Range(items)} : Cardinality(c) > 1 \/ \E d \in c : <<d, d>> \in g}

-------------------------------------------------------------------------------
(* Properties. *)

AllNamed(kinds) == \A k \in DOMAIN clauses : clauses[k].kind \in kinds
Idents == {i.ident : i \in Range(crate)}
Chosen == {i.ident : i \in Range(arranged)}
Forced == {i.ident : i \in {j \in Range(crate) : j.forced}}
Named(c) == {d \in Idents : Matches(c, d)}
Mentioned(D, signatures) ==
  UNION {IF signatures THEN Mentions(DropBody(i)) ELSE Mentions(i) : i \in {j \in Range(crate) : j.ident \in D}}

\* Every item is there by default, because it must, as an associated item, or because a
\* clause names it or something that depends on it, and no later clause excludes it.
NothingUnasked ==
  \A d \in Chosen \ Forced :
    \/ \E i \in Range(arranged) : d \in i.associated
    \/ \A k \in DOMAIN clauses : clauses[k].kind = "-" => ~Matches(clauses[k], d)
    \/ \E k \in DOMAIN clauses :
         /\ clauses[k].kind # "-"
         /\ d \in IF clauses[k].kind \in WithDeps THEN DependenciesOf(ItemGraph(crate), Named(clauses[k]))
                  ELSE Named(clauses[k])
         /\ \A l \in k + 1 .. Len(clauses) : clauses[l].kind = "-" => ~Matches(clauses[l], d)

\* An item a clause names is there unless a later clause excludes it.
NamedAreChosen ==
  \A k \in DOMAIN clauses : \A d \in Named(clauses[k]) :
    /\ clauses[k].kind # "-"
    /\ \A l \in k + 1 .. Len(clauses) : clauses[l].kind = "-" => ~Matches(clauses[l], d)
    => d \in Chosen

\* The last clause brings what it promises: all dependencies when no other drops a body, or direct ones.
LastIsServed ==
  LET c == Last(clauses)
      direct == Named(c) \cup (Mentioned(Named(c), FALSE) \cap Idents)
  IN  clauses # <<>> =>
        /\ c.kind = "+" /\ AllNamed({"-", "+", "+!"})
             => DependenciesOf(ItemGraph(crate), Named(c)) \cap Idents \subseteq Chosen
        /\ c.kind = "+~" => direct \subseteq Chosen

\* After `-**`, `+~` brings nothing that only a body of a dependency mentions.
ShallowIsShallow ==
  /\ Len(clauses) = 2 /\ clauses[1] = [kind |-> "-", pattern |-> <<"**">>] /\ clauses[2].kind = "+~"
  => LET direct == Named(clauses[2]) \cup Mentioned(Named(clauses[2]), FALSE)
         signatures == UNION {{i.ident} \X Mentions(DropBody(i)) : i \in Range(crate)}
     IN  \A d \in Chosen \ Forced :
           d \in DependenciesOf(signatures, direct) \/ \E i \in Range(arranged) : d \in i.associated

(***************************************************************************)
(* The items extracted are those the clauses of `-i` ask for: none that no *)
(* clause asks for, all that are named and not excluded later, with the    *)
(* dependencies the last clause promises and no others.                    *)
(***************************************************************************)
SelectionFollowsClauses ==
  stage = "selected" => NothingUnasked /\ NamedAreChosen /\ LastIsServed /\ ShallowIsShallow

DeclaredBy(items) == UNION {IdentsOf(i) : i \in Range(items)}

\* Fields and methods of impls are found by their type, without an alias.
FoundByType == UNION {i.subs : i \in {j \in Range(crate) : j.kind \in {"Type", "Impl"}}}

Paths(D) == {d.path : d \in D}
Extracted == {i \in Range(crate) : i.ident.path \in Paths(DeclaredBy(arranged))}
KnownPaths == Paths(UNION {IdentsOf(i) : i \in Extracted})
AllMentioned == UNION {Mentions(i) : i \in Range(arranged)}

\* What is mentioned and not extracted keeps its old module, which may close a cycle again.
SelfContained == Paths(AllMentioned) \subseteq KnownPaths

(***************************************************************************)
(* Once bundled, every name an extracted item declared still has its       *)
(* declaration or an alias, so that what mentions it, inside the bundle or *)
(* outside, finds it; and no two modules depend on each other, as F* and   *)
(* Coq want, provided all that is mentioned is extracted.                  *)
(***************************************************************************)
BundlesAreClosed ==
  stage = "bundled" =>
    /\ \A d \in AllMentioned : d.path \in KnownPaths \ Paths(FoundByType) => d \in DeclaredBy(arranged)
    /\ SelfContained => \A m \in Modules(arranged) : Component(ModGraph(arranged), m) = {m}

Position(d) == CHOOSE k \in DOMAIN printed : printed[k].ident = d
Beside(quote, origin) ==
  \A k \in DOMAIN printed :
    (k > Position(quote) /\ k < Position(origin)) \/ (k < Position(quote) /\ k > Position(origin))
      => printed[k].kind = "Quote" /\ printed[k].origin = origin

(***************************************************************************)
(* When all that is mentioned is extracted, a printer gets every item once *)
(* and after all it depends on that does not depend on it too; what is     *)
(* mutually recursive comes in a row (quotes aside), as `let rec ... and`  *)
(* wants; and each quote comes beside its origin.                          *)
(***************************************************************************)
DependencyOrder ==
  stage = "bundled" /\ Modules(printed) = Modules(arranged) /\ SelfContained =>
    LET g == ItemGraph(printed)
    IN  /\ Len(printed) = Len(arranged) /\ Range(printed) = Range(arranged)
        /\ \A k, l \in {n \in DOMAIN printed : printed[n].kind # "Quote"} :
             k < l /\ Path(g, printed[k].ident, printed[l].ident) => Path(g, printed[l].ident, printed[k].ident)
        /\ \A c \in RecursiveBundles(printed) : \A x, y \in c : \A k \in Position(x) .. Position(y) :
             printed[k].ident \in c \/ printed[k].kind = "Quote"
        /\ \A k \in DOMAIN printed : printed[k].kind = "Quote" => Beside(printed[k].ident, printed[k].origin)
=============================================================================
