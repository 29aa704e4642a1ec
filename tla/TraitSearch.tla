------------------------------ MODULE TraitSearch ------------------------------
(***************************************************************************)
(* Trait resolution in the exporter (traits/resolution.rs): for a trait    *)
(* predicate known to hold, the clause of the item in scope it follows     *)
(* from, and the path of implied predicates that leads from one to the     *)
(* other.  A searcher knows the predicates reached so far, its candidates; *)
(* the bounds of an associated type join them when a predicate about the   *)
(* type is looked up.  A type is a root, often a parameter, and the path   *)
(* of associated types projected from it; a predicate a type and a trait.  *)
(* Clauses about anything else are dropped before they are numbered.       *)
(***************************************************************************)
EXTENDS Naturals, Sequences, RustOption

CONSTANTS
  Traits, Assocs,  \* the traits and the associated types
  OwnerOf,         \* the trait an associated type is declared in
  Worlds,          \* the items searched in, see SearchInit
  MaxLookups       \* bound: how often translation asks

Types == [root : STRING, path : Seq(Assocs)]
Preds == [ty : Types, trait : Traits]
Clauses == [of : Seq(Assocs), trait : Traits]  \* of a projection of Self

ASSUME SearchAssumption ==
  /\ OwnerOf \in [Assocs -> Traits]
  /\ \A w \in Worlds :
       /\ w.self \in Seq(Preds) /\ w.clauses \in Seq(Preds) /\ w.dyn \in Seq(Preds)
       /\ w.implied \in [Traits -> Seq(Clauses)] /\ w.bounds \in [Assocs -> Seq(Clauses)]
       /\ \A q \in w.equal \cup w.dynEqual : q.from \in Types /\ q.to \in Types
       /\ w.asks \subseteq Preds /\ w.dynAsks \subseteq Preds
       /\ \A p \in DOMAIN w.builtin : w.builtin[p] \in Seq(Preds)

VARIABLES
  world,
  ready,       \* whether the searcher of the item is built
  candidates,  \* HashMap from predicates to candidates, of the item's searcher and a dyn's
  env,         \* the equations its typing environment knows
  queue,       \* candidates to insert, in breadth-first order
  on,          \* the searcher that works
  goals,       \* what it is about to do, the innermost call first
  found,       \* what the last resolve_local returned
  asked,       \* the predicate translation waits for
  cache,       \* impl_exprs of the cache: predicates and their answers
  answers,     \* every answer given; only the properties read it
  lookups

searchVars == <<world, ready, candidates, env, queue, on, goals, found, asked, cache, answers, lookups>>

-------------------------------------------------------------------------------
(* rustc's types. *)

Pred(ty, trait) == [ty |-> ty, trait |-> trait]
Projected(ty, path) == [root |-> ty.root, path |-> ty.path \o path]
IsProjection(ty) == ty.path # <<>>
Starts(ty, prefix) ==
  /\ ty.root = prefix.root /\ Len(prefix.path) <= Len(ty.path)
  /\ SubSeq(ty.path, 1, Len(prefix.path)) = prefix.path

\* An equation `from = to` of the environment, as of T: Trait<A = U>.
Rewritten(eqs, ty) ==
  IF \E q \in eqs : Starts(ty, q.from)
  THEN LET q == CHOOSE q \in eqs : Starts(ty, q.from)
       IN  Projected(q.to, SubSeq(ty.path, Len(q.from.path) + 1, Len(ty.path)))
  ELSE ty

\* normalize_bound_val: through one equation and then, maybe, another.
Norm(eqs, p) == Pred(Rewritten(eqs, Rewritten(eqs, p.ty)), p.trait)

Instances(clauses, ty) ==
  [k \in 1..Len(clauses) |-> Pred(Projected(ty, clauses[k].of), clauses[k].trait)]

\* What the trait of p implies of its type: supertraits and where clauses.
ParentPreds(w, p) == Instances(w.implied[p.trait], p.ty)

\* The bounds declared on the associated type a projection ends with.
ItemBounds(w, ty) == Instances(w.bounds[ty.path[Len(ty.path)]], ty)

\* The trait reference of a projection: <T as Trait>::A needs T: Trait.
TraitRef(ty) ==
  Pred([ty EXCEPT !.path = SubSeq(@, 1, Len(@) - 1)], OwnerOf[ty.path[Len(ty.path)]])

-------------------------------------------------------------------------------
(* Candidates. *)

Searchers == {"item", "dyn"}
SelfPred(p) == [isSelf |-> TRUE, index |-> 0, clause |-> p]
Item(n, p) == [isSelf |-> FALSE, index |-> n, clause |-> p]
Candidate(p, path, origin) == [pred |-> p, path |-> path, origin |-> origin]

\* A chunk of a path: of the trait itself (Parent) or of one of its types (AssocItem).
Chunk(kind, p, index) == [kind |-> kind, pred |-> p, index |-> index]

Extended(c, kind, preds) ==
  [k \in 1..Len(preds) |->
     Candidate(preds[k], Append(c.path, Chunk(kind, preds[k], k - 1)), c.origin)]

SelfCandidates == [k \in 1..Len(world.self) |-> Candidate(world.self[k], <<>>, SelfPred(world.self[k]))]

\* Variant: the clauses of a dyn are numbered from 0 again.
BoundCandidates_Restart(clauses, count) ==
  [k \in 1..Len(clauses) |-> Candidate(clauses[k], <<>>, Item(k - 1, clauses[k]))]

\* insert_bound_predicates: every clause takes a number, duplicates too.
BoundCandidates(clauses, count) ==
  [k \in 1..Len(clauses) |-> Candidate(clauses[k], <<>>, Item(count + k - 1, clauses[k]))]

Known(p) == \E c \in candidates[on] : c.pred = p
Lookup(p) == IF Known(p) THEN Some(CHOOSE c \in candidates[on] : c.pred = p) ELSE None

-------------------------------------------------------------------------------
Goal(do, p) == [do |-> do, pred |-> p]
Error == [kind |-> "error"]
External == [kind |-> "external"]  \* a concrete impl, or one of the compiler
Local(c) == [kind |-> "local", candidate |-> c]

\* A world: the clauses of the item in scope, the `Self` clause if there is one, what the
\* traits and associated types declare, the equations, the clauses and equations of a dyn
\* type in the item, the implementations of the compiler with the predicates they need,
\* and what translation asks.
SearchInit ==
  /\ world \in Worlds
  /\ ready = FALSE
  /\ candidates = [s \in Searchers |-> {}]
  /\ env = [s \in Searchers |-> world.equal]
  /\ queue = SelfCandidates
  /\ on = "item" /\ goals = <<>> /\ found = None /\ asked = None
  /\ cache = {} /\ answers = {} /\ lookups = 0

\* Variant: a predicate that is known takes the new path.
InsertCandidate_Overwrite ==
  /\ queue # <<>>
  /\ LET c == [Head(queue) EXCEPT !.pred = Norm(env[on], @)]
     IN  IF Known(c.pred)
         THEN /\ candidates' = [candidates EXCEPT ![on] = {k \in @ : k.pred # c.pred} \cup {c}]
              /\ queue' = Tail(queue)
         ELSE /\ candidates' = [candidates EXCEPT ![on] = @ \cup {c}]
              /\ queue' = Tail(queue) \o Extended(c, "Parent", ParentPreds(world, c.pred))
  /\ UNCHANGED <<world, ready, env, on, goals, found, asked, cache, answers, lookups>>

\* insert_candidates and insert_candidate_parents: the first path to a predicate stays,
\* and the parents of the new ones follow when all the candidates of this level are in.
InsertCandidate ==
  /\ queue # <<>>
  /\ LET c == [Head(queue) EXCEPT !.pred = Norm(env[on], @)]
     IN  IF Known(c.pred)
         THEN queue' = Tail(queue) /\ UNCHANGED candidates
         ELSE /\ candidates' = [candidates EXCEPT ![on] = @ \cup {c}]
              /\ queue' = Tail(queue) \o Extended(c, "Parent", ParentPreds(world, c.pred))
  /\ UNCHANGED <<world, ready, env, on, goals, found, asked, cache, answers, lookups>>

\* new_for_owner: the clauses of the item, once the `Self` clause and its parents are in.
InsertBounds ==
  /\ ~ready /\ queue = <<>>
  /\ ready' = TRUE
  /\ queue' = BoundCandidates(world.clauses, 0)
  /\ UNCHANGED <<world, candidates, env, on, goals, found, asked, cache, answers, lookups>>

Idle == ready /\ queue = <<>> /\ goals = <<>>

\* solve_trait: a cached answer is returned as it is.
Ask(p) ==
  /\ Idle /\ lookups < MaxLookups
  /\ p \in world.asks /\ \A a \in cache : a.pred # p
  /\ on' = "item" /\ asked' = Some(p) /\ goals' = <<Goal("resolve", p)>>
  /\ lookups' = lookups + 1
  /\ UNCHANGED <<world, ready, candidates, env, queue, found, cache, answers>>

\* make_dyn: a copy of the searcher learns the clauses of the dyn type,
EnterDyn ==
  /\ Idle /\ candidates["dyn"] = {} /\ world.dyn # <<>>
  /\ on' = "dyn"
  /\ candidates' = [candidates EXCEPT !["dyn"] = candidates["item"]]
  /\ queue' = BoundCandidates(world.dyn, Len(world.clauses))
  /\ goals' = <<Goal("param_env", world.dyn[1])>>
  /\ UNCHANGED <<world, ready, env, found, asked, cache, answers, lookups>>

\* and only then its equations.
SetParamEnv ==
  /\ queue = <<>> /\ goals # <<>> /\ Head(goals).do = "param_env"
  /\ env' = [env EXCEPT ![on] = @ \cup world.dynEqual]
  /\ goals' = Tail(goals)
  /\ UNCHANGED <<world, ready, candidates, queue, on, found, asked, cache, answers, lookups>>

\* make_dyn asks its own searcher, past the cache; the outer one may be asked in between.
AskDyn(p) ==
  /\ Idle /\ candidates["dyn"] # {} /\ lookups < MaxLookups
  /\ p \in world.dynAsks
  /\ on' = "dyn" /\ goals' = <<Goal("resolve", p)>>
  /\ lookups' = lookups + 1
  /\ UNCHANGED <<world, ready, candidates, env, queue, found, asked, cache, answers>>

Doing(do) == queue = <<>> /\ goals # <<>> /\ Head(goals).do = do

\* solve_trait keeps the answer, an Error too, to what it asked; the answers to the
\* predicates an implementation of the compiler needs, and a dyn's, are not kept.
Answered(p, atom) ==
  /\ answers' = answers \cup {[on |-> on, pred |-> p, atom |-> atom]}
  /\ cache' = IF asked.some THEN cache \cup {[pred |-> asked.value, atom |-> atom]} ELSE cache
  /\ asked' = None

\* resolve: rustc says what kind of implementation it is, and only a clause of the
\* environment is searched for; for an implementation of the compiler the predicates it
\* needs are resolved in turn.
ResolveGoal ==
  /\ Doing("resolve")
  /\ LET p == Norm(env[on], Head(goals).pred)
         needs == IF p \in DOMAIN world.builtin THEN world.builtin[p] ELSE <<>>
     IN  IF p \in DOMAIN world.builtin \/ p.ty.root \in world.concrete
         THEN /\ goals' = [k \in 1..Len(needs) |-> Goal("resolve", needs[k])] \o Tail(goals)
              /\ Answered(p, External)
         ELSE /\ goals' = <<Goal("find", p), Goal("answer", p)>> \o Tail(goals)
              /\ UNCHANGED <<asked, cache, answers>>
  /\ UNCHANGED <<world, ready, candidates, env, queue, on, found, lookups>>

\* resolve_local: a predicate that is known, else the trait reference of the projection
\* the predicate is about.
Find ==
  /\ Doing("find")
  /\ LET p == Head(goals).pred
     IN  IF Known(p) \/ ~IsProjection(p.ty)
         THEN found' = Lookup(p) /\ goals' = Tail(goals)
         ELSE /\ goals' = <<Goal("find", TraitRef(p.ty)), Goal("add", p)>> \o Tail(goals)
              /\ UNCHANGED found
  /\ UNCHANGED <<world, ready, candidates, env, queue, on, asked, cache, answers, lookups>>

\* add_associated_type_refs: the bounds of the associated type follow from the trait.
AddBounds ==
  /\ Doing("add")
  /\ LET p == Head(goals).pred
     IN  /\ queue' = IF found.some THEN Extended(found.value, "AssocItem", ItemBounds(world, p.ty)) ELSE <<>>
         /\ goals' = <<Goal("again", p)>> \o Tail(goals)
  /\ UNCHANGED <<world, ready, candidates, env, on, found, asked, cache, answers, lookups>>

\* Variant: the search starts again, instead of a look at the candidates.
FindAgain_Search ==
  /\ Doing("again")
  /\ goals' = <<Goal("find", Head(goals).pred)>> \o Tail(goals)
  /\ UNCHANGED <<world, ready, candidates, env, queue, on, found, asked, cache, answers, lookups>>

FindAgain ==
  /\ Doing("again")
  /\ found' = Lookup(Head(goals).pred)
  /\ goals' = Tail(goals)
  /\ UNCHANGED <<world, ready, candidates, env, queue, on, asked, cache, answers, lookups>>

\* into_impl_expr, or an Error the user is warned of.
AnswerGoal ==
  /\ Doing("answer")
  /\ Answered(Head(goals).pred, IF found.some THEN Local(found.value) ELSE Error)
  /\ goals' = Tail(goals)
  /\ UNCHANGED <<world, ready, candidates, env, queue, on, found, lookups>>

Search ==
  \/ InsertCandidate \/ InsertBounds \/ SetParamEnv
  \/ ResolveGoal \/ Find \/ AddBounds \/ FindAgain \/ AnswerGoal

SearchNext == Search \/ EnterDyn \/ \E p \in world.asks \cup world.dynAsks : Ask(p) \/ AskDyn(p)

SearchSpec == SearchInit /\ [][SearchNext]_searchVars /\ WF_searchVars(Search)

-------------------------------------------------------------------------------
(* Properties. *)

\* The environments a searcher has had: a dyn's learns its equations after its clauses.
Envs(w, s) == {w.equal} \cup (IF s = "dyn" THEN {w.equal \cup w.dynEqual} ELSE {})

IsOrigin(w, s, o) ==
  IF o.isSelf THEN \E k \in 1..Len(w.self) : w.self[k] = o.clause
  ELSE LET clauses == IF s = "dyn" THEN w.clauses \o w.dyn ELSE w.clauses
       IN  o.index + 1 \in 1..Len(clauses) /\ clauses[o.index + 1] = o.clause

\* The predicate reached after k chunks, normalised in the environment e[k].
Written(c, k) == IF k = 0 THEN c.origin.clause ELSE c.path[k].pred
Reached(c, e, k) == Norm(e[k], Written(c, k))

\* A chunk names a predicate that the declaration of the trait of p, or of one of its
\* associated types, has at the index of the chunk.
Follows(w, p, chunk) ==
  \/ /\ chunk.kind = "Parent"
     /\ chunk.index + 1 \in 1..Len(ParentPreds(w, p)) /\ chunk.pred = ParentPreds(w, p)[chunk.index + 1]
  \/ /\ chunk.kind = "AssocItem"
     /\ \E a \in Assocs :
          LET bounds == ItemBounds(w, Projected(p.ty, <<a>>))
          IN  /\ OwnerOf[a] = p.trait
              /\ chunk.index + 1 \in 1..Len(bounds) /\ chunk.pred = bounds[chunk.index + 1]

Chains(w, c, e) == \A k \in 1..Len(c.path) : Follows(w, Reached(c, e, k - 1), c.path[k])
Valid(w, s, c) ==
  /\ IsOrigin(w, s, c.origin)
  /\ \E e \in [0..Len(c.path) -> Envs(w, s)] :
       c.pred = Reached(c, e, Len(c.path)) /\ Chains(w, c, e)

\* An implementation answered for a clause of the item (LocalBound, SelfImpl) is a proof
\* of the predicate: its origin is the clause of that number among those of the searcher's
\* own context, and the indices of its path lead from there to the predicate.
AnswersAreProofs ==
  \A a \in answers :
    a.atom.kind = "local" => a.atom.candidate.pred = a.pred /\ Valid(world, a.on, a.atom.candidate)

ElementsOf(f) == {f[k] : k \in DOMAIN f}
ImpliedBy(w, D) == {Norm(w.equal, q) : q \in UNION {ElementsOf(ParentPreds(w, p)) : p \in D}}

\* The predicates that at most n steps through traits imply.
Implied(w, starts, n) ==
  LET Within[k \in 0..n] ==
        IF k = 0 THEN {Norm(w.equal, p) : p \in starts} ELSE Within[k - 1] \cup ImpliedBy(w, Within[k - 1])
  IN  Within[n]

\* As insert_candidate_parents says, the path to a predicate that the clauses of the item
\* imply is one of the shortest (after those from the `Self` clause, inserted before).
PathsAreShortest ==
  \A c \in candidates["item"] :
    c.path # <<>> /\ (\A k \in 1..Len(c.path) : c.path[k].kind = "Parent") =>
      c.pred \notin Implied(world, IF c.origin.isSelf THEN ElementsOf(world.self)
                                   ELSE ElementsOf(world.self) \cup ElementsOf(world.clauses), Len(c.path) - 1)

\* What the bounds of its associated types say of a type <p.ty as p.trait>::A, and what
\* the trait of p implies of the type of p itself.
OnProjections(w, p) ==
  {q \in UNION {ElementsOf(ItemBounds(w, Projected(p.ty, <<a>>))) : a \in {b \in Assocs : OwnerOf[b] = p.trait}} :
     Len(q.ty.path) = Len(p.ty.path) + 1}
OnSameType(w, p) == {q \in ElementsOf(ParentPreds(w, p)) : q.ty = p.ty}
OnBounds(w, D) == {q \in UNION {OnProjections(w, p) \cup OnSameType(w, p) : p \in D} : Norm(w.equal, q) = q}

\* The predicates that the clauses of the item imply, and those on a projection of them
\* which a bound on its associated type, or a supertrait of that bound, gives.
Direct(w, depth) ==
  LET Within[k \in 0..depth] ==
        IF k = 0 THEN Implied(w, ElementsOf(w.self) \cup ElementsOf(w.clauses), depth)
        ELSE Within[k - 1] \cup OnBounds(w, Within[k - 1])
  IN  Within[depth]

\* A predicate with such a derivation is never answered with an Error, in whatever order
\* translation asks, although bounds join the candidates only when something is looked up.
DirectBoundsFound ==
  \A a \in answers : a.on = "item" /\ a.pred \in Direct(world, 4) => a.atom.kind # "error"

\* The candidates suffice: the nearest ones are kept, and bounds are found when needed.
CandidatesSuffice == PathsAreShortest /\ DirectBoundsFound

\* What clauses and bounds of associated types imply in n steps, bounds on the associated
\* types of a bound (type A: Iter<Item: Foo>) among them.
Derivable(w, n) ==
  LET Bounds(p) == UNION {ElementsOf(ItemBounds(w, Projected(p.ty, <<a>>))) : a \in {b \in Assocs : OwnerOf[b] = p.trait}}
      Within[k \in 0..n] ==
        IF k = 0 THEN {Norm(w.equal, p) : p \in ElementsOf(w.self) \cup ElementsOf(w.clauses)}
        ELSE Within[k - 1] \cup ImpliedBy(w, Within[k - 1])
               \cup {Norm(w.equal, q) : q \in UNION {Bounds(p) : p \in Within[k - 1]}}
  IN  Within[n]

\* "If the predicate applies to an associated type, we add the relevant implied associated
\* type bounds": no question about such a predicate is answered with an Error, whatever the
\* clauses already say of the type the associated type is of.
NestedBoundsFound ==
  \A a \in answers : a.on = "item" /\ a.pred \in Derivable(world, 4) => a.atom.kind # "error"

\* The descent through projections ends, and with it every question of the translation.
SearchEnds == goals # <<>> ~> goals = <<>>
=============================================================================
