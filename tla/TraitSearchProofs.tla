-------------------------- MODULE TraitSearchProofs --------------------------
(***************************************************************************)
(* Proofs about trait resolution, for every set of traits and of items:    *)
(* what the search answers for a clause is a proof of the predicate.  The  *)
(* invariant says what a candidate is while it waits to be inserted, and   *)
(* what the innermost call of resolve_local returns to its caller.         *)
(***************************************************************************)
EXTENDS TraitSearch, WellFoundedInduction, TLAPS

Chunks == [kind : {"Parent", "AssocItem"}, pred : Preds, index : Nat]
Origins == [isSelf : BOOLEAN, index : Nat, clause : Preds]
CandidateType == [pred : Preds, path : Seq(Chunks), origin : Origins]
Proven(w, s) == {c \in CandidateType : Valid(w, s, c)}

\* A candidate that waits in the queue, its predicate not normalised yet.
Pending(w, s) ==
  {c \in CandidateType :
     /\ IsOrigin(w, s, c.origin)
     /\ c.pred = Written(c, Len(c.path))
     /\ \E e \in [0..Len(c.path) -> Envs(w, s)] : Chains(w, c, e)}

LEMMA Options == \A v : Some(v).some /\ Some(v).value = v /\ ~None.some
BY DEF Some, None

LEMMA Joined ==
  ASSUME NEW S, NEW u \in Seq(S), NEW v \in Seq(S)
  PROVE  u \o v \in Seq(S)
OBVIOUS

LEMMA ProjectedTyped ==
  ASSUME NEW ty \in Types, NEW path \in Seq(Assocs)
  PROVE  Projected(ty, path) \in Types
BY DEF Projected, Types

LEMMA RewrittenTyped ==
  ASSUME NEW eqs, \A q \in eqs : q.from \in Types /\ q.to \in Types, NEW ty \in Types
  PROVE  Rewritten(eqs, ty) \in Types
<1>1. CASE \E q \in eqs : Starts(ty, q.from)
  <2> DEFINE q == CHOOSE q \in eqs : Starts(ty, q.from)
  <2>1. q \in eqs /\ Starts(ty, q.from)
    BY <1>1
  <2> HIDE DEF q
  <2> DEFINE rest == SubSeq(ty.path, Len(q.from.path) + 1, Len(ty.path))
  <2>2. q.from.path \in Seq(Assocs) /\ ty.path \in Seq(Assocs) /\ q.to \in Types
    BY <2>1 DEF Types
  <2>3. rest \in Seq(Assocs)
    BY <2>2
  <2>4. Rewritten(eqs, ty) = Projected(q.to, rest)
    BY <1>1 DEF Rewritten, q
  <2> QED BY <2>2, <2>3, <2>4, ProjectedTyped
<1>2. CASE ~\E q \in eqs : Starts(ty, q.from)
  BY <1>2 DEF Rewritten
<1> QED BY <1>1, <1>2

LEMMA EnvsTyped ==
  ASSUME NEW w \in Worlds, NEW s, NEW eqs \in Envs(w, s)
  PROVE  \A q \in eqs : q.from \in Types /\ q.to \in Types
BY SearchAssumption DEF Envs

LEMMA NormTyped ==
  ASSUME NEW w \in Worlds, NEW s, NEW eqs \in Envs(w, s), NEW p \in Preds
  PROVE  Norm(eqs, p) \in Preds
<1>1. p.ty \in Types /\ p.trait \in Traits
  BY DEF Preds
<1>2. Rewritten(eqs, p.ty) \in Types
  BY <1>1, EnvsTyped, RewrittenTyped
<1>3. Rewritten(eqs, Rewritten(eqs, p.ty)) \in Types
  BY <1>2, EnvsTyped, RewrittenTyped
<1> QED BY <1>1, <1>3 DEF Norm, Pred, Preds

LEMMA InstancesTyped ==
  ASSUME NEW clauses \in Seq(Clauses), NEW ty \in Types
  PROVE  Instances(clauses, ty) \in Seq(Preds)
<1>1. \A k \in 1..Len(clauses) : clauses[k].of \in Seq(Assocs) /\ clauses[k].trait \in Traits
  <2>1. \A k \in 1..Len(clauses) : clauses[k] \in Clauses
    OBVIOUS
  <2> QED BY <2>1 DEF Clauses
<1>2. \A k \in 1..Len(clauses) : Pred(Projected(ty, clauses[k].of), clauses[k].trait) \in Preds
  BY <1>1, ProjectedTyped DEF Pred, Preds
<1>3. Instances(clauses, ty) \in [1..Len(clauses) -> Preds]
  BY <1>2 DEF Instances
<1>4. Len(clauses) \in Nat
  OBVIOUS
<1> QED BY <1>3, <1>4

LEMMA ParentsTyped ==
  ASSUME NEW w \in Worlds, NEW p \in Preds
  PROVE  ParentPreds(w, p) \in Seq(Preds)
<1>1. p.ty \in Types /\ w.implied[p.trait] \in Seq(Clauses)
  BY SearchAssumption DEF Preds
<1> QED BY <1>1, InstancesTyped DEF ParentPreds

\* A projection is the one its trait reference projects, and nothing is lost.
LEMMA ProjectionSplit ==
  ASSUME NEW ty \in Types, IsProjection(ty)
  PROVE  LET a == ty.path[Len(ty.path)]
         IN  /\ a \in Assocs
             /\ TraitRef(ty) \in Preds /\ TraitRef(ty).trait = OwnerOf[a]
             /\ Projected(TraitRef(ty).ty, <<a>>) = ty
<1> DEFINE n == Len(ty.path)
           a == ty.path[n]
           front == SubSeq(ty.path, 1, n - 1)
<1>1. ty.path \in Seq(Assocs) /\ n \in Nat /\ n > 0
  BY DEF Types, IsProjection
<1>2. a \in Assocs /\ OwnerOf[a] \in Traits
  BY <1>1, SearchAssumption
<1>3. front \in Seq(Assocs) /\ Len(front) = n - 1 /\ \A k \in 1..(n - 1) : front[k] = ty.path[k]
  BY <1>1
<1>4. front \o <<a>> = ty.path
  <2>1. front \o <<a>> \in Seq(Assocs) /\ Len(front \o <<a>>) = n
    BY <1>1, <1>2, <1>3
  <2>2. \A k \in 1..n : (front \o <<a>>)[k] = ty.path[k]
    BY <1>1, <1>2, <1>3
  <2> QED BY <1>1, <2>1, <2>2
<1>5. [ty EXCEPT !.path = front] \in Types
  BY <1>3 DEF Types
<1>6. TraitRef(ty) = Pred([ty EXCEPT !.path = front], OwnerOf[a])
  BY DEF TraitRef
<1>7. TraitRef(ty) \in Preds /\ TraitRef(ty).trait = OwnerOf[a] /\ TraitRef(ty).ty = [ty EXCEPT !.path = front]
  BY <1>2, <1>5, <1>6 DEF Pred, Preds
<1>8. Projected(TraitRef(ty).ty, <<a>>) = ty
  BY <1>3, <1>4, <1>7 DEF Projected, Types
<1> QED BY <1>2, <1>7, <1>8

LEMMA BoundsTyped ==
  ASSUME NEW w \in Worlds, NEW ty \in Types, IsProjection(ty)
  PROVE  ItemBounds(w, ty) \in Seq(Preds)
<1>1. w.bounds[ty.path[Len(ty.path)]] \in Seq(Clauses)
  BY ProjectionSplit, SearchAssumption
<1> QED BY <1>1, InstancesTyped DEF ItemBounds

\* What follows from a proven candidate by a declaration may wait in the queue.
LEMMA ExtendedPending ==
  ASSUME NEW w \in Worlds, NEW s, NEW c \in Proven(w, s),
         NEW kind \in {"Parent", "AssocItem"}, NEW preds \in Seq(Preds),
         \A k \in 1..Len(preds) : Follows(w, c.pred, Chunk(kind, preds[k], k - 1))
  PROVE  Extended(c, kind, preds) \in Seq(Pending(w, s))
<1> DEFINE n == Len(c.path)
<1>1. /\ c \in CandidateType /\ IsOrigin(w, s, c.origin)
      /\ c.path \in Seq(Chunks) /\ n \in Nat /\ c.origin \in Origins
  BY DEF Proven, Valid, CandidateType
<1>2. PICK e \in [0..n -> Envs(w, s)] : c.pred = Reached(c, e, n) /\ Chains(w, c, e)
  BY DEF Proven, Valid
<1>3. ASSUME NEW k \in 1..Len(preds)
      PROVE  Extended(c, kind, preds)[k] \in Pending(w, s)
  <2> DEFINE chunk == Chunk(kind, preds[k], k - 1)
             d == Candidate(preds[k], Append(c.path, chunk), c.origin)
             f == [i \in 0..(n + 1) |-> IF i <= n THEN e[i] ELSE e[n]]
  <2>1. preds[k] \in Preds /\ k - 1 \in Nat /\ Follows(w, c.pred, chunk)
    OBVIOUS
  <2>2. chunk \in Chunks /\ chunk.pred = preds[k]
    BY <2>1 DEF Chunk, Chunks
  <2> HIDE DEF chunk
  <2>3. /\ Append(c.path, chunk) \in Seq(Chunks) /\ Len(Append(c.path, chunk)) = n + 1
        /\ \A i \in 1..n : Append(c.path, chunk)[i] = c.path[i]
        /\ Append(c.path, chunk)[n + 1] = chunk
    BY <1>1, <2>2
  <2>4. /\ d.pred = preds[k] /\ d.path = Append(c.path, chunk) /\ d.origin = c.origin
        /\ d \in CandidateType
    BY <1>1, <2>1, <2>3 DEF Candidate, CandidateType
  <2> HIDE DEF d
  <2>5. f \in [0..(n + 1) -> Envs(w, s)]
    BY <1>1, <1>2
  <2>6. \A i \in 0..n : f[i] = e[i] /\ Written(d, i) = Written(c, i)
    BY <1>1, <2>3, <2>4 DEF Written
  <2>7. \A i \in 0..n : Reached(d, f, i) = Reached(c, e, i)
    BY <2>6 DEF Reached
  <2>8. Chains(w, d, f)
    <3> SUFFICES ASSUME NEW i \in 1..(n + 1)
                 PROVE  Follows(w, Reached(d, f, i - 1), d.path[i])
      BY <2>3, <2>4 DEF Chains
    <3>1. i - 1 \in 0..n /\ Reached(d, f, i - 1) = Reached(c, e, i - 1)
      BY <1>1, <2>7
    <3>2. CASE i \in 1..n
      BY <1>2, <2>3, <2>4, <3>1, <3>2 DEF Chains
    <3>3. CASE i = n + 1
      BY <1>1, <1>2, <2>1, <2>3, <2>4, <3>1, <3>3
    <3> QED BY <1>1, <3>2, <3>3
  <2>9. d.pred = Written(d, n + 1)
    BY <1>1, <2>2, <2>3, <2>4 DEF Written
  <2>10. d \in Pending(w, s)
    BY <1>1, <2>3, <2>4, <2>5, <2>8, <2>9 DEF Pending
  <2> QED BY <2>10 DEF Extended, d, chunk
<1>4. Extended(c, kind, preds) \in [1..Len(preds) -> Pending(w, s)]
  BY <1>3 DEF Extended
<1>5. Len(preds) \in Nat
  OBVIOUS
<1> QED BY <1>4, <1>5

\* Normalising the predicate of a pending candidate completes its proof.
LEMMA Accepted ==
  ASSUME NEW w \in Worlds, NEW s, NEW c \in Pending(w, s), NEW eqs \in Envs(w, s)
  PROVE  [c EXCEPT !.pred = Norm(eqs, @)] \in Proven(w, s)
<1> DEFINE n == Len(c.path)
           d == [c EXCEPT !.pred = Norm(eqs, @)]
<1>1. /\ c \in CandidateType /\ IsOrigin(w, s, c.origin) /\ c.pred = Written(c, n)
      /\ c.path \in Seq(Chunks) /\ n \in Nat /\ c.pred \in Preds
  BY DEF Pending, CandidateType
<1>2. PICK e \in [0..n -> Envs(w, s)] : Chains(w, c, e)
  BY DEF Pending
<1> DEFINE f == [e EXCEPT ![n] = eqs]
<1>3. f \in [0..n -> Envs(w, s)] /\ f[n] = eqs /\ \A i \in 0..n : i # n => f[i] = e[i]
  BY <1>1
<1>4. d \in CandidateType /\ d.path = c.path /\ d.origin = c.origin /\ d.pred = Norm(eqs, c.pred)
  BY <1>1, NormTyped DEF CandidateType
<1> HIDE DEF d, f
<1>5. \A i \in 0..n : Written(d, i) = Written(c, i)
  BY <1>4 DEF Written
<1>6. d.pred = Reached(d, f, n)
  BY <1>1, <1>3, <1>4, <1>5 DEF Reached
<1>7. Chains(w, d, f)
  <2> SUFFICES ASSUME NEW i \in 1..n
               PROVE  Follows(w, Reached(d, f, i - 1), d.path[i])
    BY <1>4 DEF Chains
  <2>1. i - 1 \in 0..n /\ i - 1 # n
    BY <1>1
  <2>2. Reached(d, f, i - 1) = Reached(c, e, i - 1)
    BY <1>3, <1>5, <2>1 DEF Reached
  <2> QED BY <1>2, <1>4, <2>2 DEF Chains
<1>8. d \in Proven(w, s)
  BY <1>1, <1>3, <1>4, <1>6, <1>7 DEF Proven, Valid
<1> QED BY <1>8 DEF d

\* The clauses of the item are clauses of a dyn type in it, at the same indices.
LEMMA SharedOrigin ==
  ASSUME NEW w \in Worlds, NEW s, NEW o \in Origins, IsOrigin(w, "item", o)
  PROVE  IsOrigin(w, s, o)
<1>1. w.clauses \in Seq(Preds) /\ w.dyn \in Seq(Preds)
  BY SearchAssumption
<1>2. CASE o.isSelf
  BY <1>2 DEF IsOrigin
<1>3. CASE ~o.isSelf
  <2>1. o.index + 1 \in 1..Len(w.clauses) /\ w.clauses[o.index + 1] = o.clause
    BY <1>3 DEF IsOrigin
  <2>2. \A u, v \in Seq(Preds) : \A i \in 1..Len(u) :
          i \in 1..Len(u \o v) /\ (u \o v)[i] = u[i]
    OBVIOUS
  <2>3. /\ o.index + 1 \in 1..Len(w.clauses \o w.dyn)
        /\ (w.clauses \o w.dyn)[o.index + 1] = w.clauses[o.index + 1]
    BY <1>1, <2>1, <2>2
  <2> QED BY <1>3, <2>1, <2>3 DEF IsOrigin
<1> QED BY <1>2, <1>3

LEMMA SharedProven ==
  ASSUME NEW w \in Worlds, NEW c \in Proven(w, "item")
  PROVE  c \in Proven(w, "dyn")
<1>1. c \in CandidateType /\ c.origin \in Origins /\ IsOrigin(w, "item", c.origin)
  BY DEF Proven, Valid, CandidateType
<1>2. IsOrigin(w, "dyn", c.origin)
  BY <1>1, SharedOrigin
<1>3. PICK e \in [0..Len(c.path) -> Envs(w, "item")] :
        c.pred = Reached(c, e, Len(c.path)) /\ Chains(w, c, e)
  BY DEF Proven, Valid
<1>4. e \in [0..Len(c.path) -> Envs(w, "dyn")]
  BY <1>3 DEF Envs
<1> QED BY <1>1, <1>2, <1>3, <1>4 DEF Proven, Valid

\* A clause waits with no path; what it says is what is written.
LEMMA OriginPending ==
  ASSUME NEW w \in Worlds, NEW s, NEW o \in Origins, IsOrigin(w, s, o)
  PROVE  Candidate(o.clause, <<>>, o) \in Pending(w, s)
<1> DEFINE c == Candidate(o.clause, <<>>, o)
<1>1. c \in CandidateType /\ c.path = <<>> /\ c.origin = o /\ c.pred = o.clause
  BY DEF Candidate, CandidateType, Origins
<1> HIDE DEF c
<1>2. Len(c.path) = 0 /\ c.pred = Written(c, 0)
  BY <1>1 DEF Written
<1>3. [i \in 0..0 |-> w.equal] \in [0..0 -> Envs(w, s)]
  BY DEF Envs
<1>4. \A e : Chains(w, c, e)
  BY <1>2 DEF Chains
<1>5. c \in Pending(w, s)
  BY <1>1, <1>2, <1>3, <1>4 DEF Pending
<1> QED BY <1>5 DEF c

LEMMA BoundsPending ==
  ASSUME NEW w \in Worlds, NEW s, NEW clauses \in Seq(Preds), NEW count \in Nat,
         \A k \in 1..Len(clauses) : IsOrigin(w, s, Item(count + k - 1, clauses[k]))
  PROVE  BoundCandidates(clauses, count) \in Seq(Pending(w, s))
<1>1. ASSUME NEW k \in 1..Len(clauses)
      PROVE  BoundCandidates(clauses, count)[k] \in Pending(w, s)
  <2> DEFINE o == Item(count + k - 1, clauses[k])
  <2>1. o \in Origins /\ o.clause = clauses[k]
    BY DEF Item, Origins
  <2>2. IsOrigin(w, s, o)
    OBVIOUS
  <2> HIDE DEF o
  <2>3. Candidate(o.clause, <<>>, o) \in Pending(w, s)
    BY <2>1, <2>2, OriginPending
  <2> QED BY <2>1, <2>3 DEF BoundCandidates, o
<1>2. BoundCandidates(clauses, count) \in [1..Len(clauses) -> Pending(w, s)]
  BY <1>1 DEF BoundCandidates
<1>3. Len(clauses) \in Nat
  OBVIOUS
<1> QED BY <1>2, <1>3

-------------------------------------------------------------------------------
(* The calls in progress. *)

GoalType == [do : {"resolve", "find", "add", "again", "answer", "param_env"}, pred : Preds]

\* What a caller of resolve_local asked it for.
Awaited(g) == IF g.do = "add" THEN TraitRef(g.pred.ty) ELSE g.pred

\* A search in progress returns to the call that asked for this very predicate, and
\* nothing else returns to one.
Linked(g, h) ==
  IF g.do \in {"find", "add", "again"} THEN h.do \in {"add", "answer"} /\ g.pred = Awaited(h)
  ELSE h.do = "resolve"

Sound(s, g) ==
  /\ g.do = "add" => IsProjection(g.pred.ty)
  /\ g.do = "param_env" => s = "dyn"

Stacks(s) ==
  {gs \in Seq(GoalType) :
     /\ \A k \in 1..Len(gs) : Sound(s, gs[k])
     /\ \A k \in 1..(Len(gs) - 1) : Linked(gs[k], gs[k + 1])}

LEMMA Popped ==
  ASSUME NEW s, NEW gs \in Stacks(s), gs # <<>>
  PROVE  /\ Head(gs) \in GoalType /\ Sound(s, Head(gs))
         /\ Tail(gs) \in Stacks(s)
         /\ Tail(gs) # <<>> => Linked(Head(gs), Head(Tail(gs)))
<1>1. gs \in Seq(GoalType) /\ Len(gs) \in Nat /\ Len(gs) > 0
  BY DEF Stacks
<1>2. /\ Tail(gs) \in Seq(GoalType) /\ Len(Tail(gs)) = Len(gs) - 1
      /\ \A k \in 1..(Len(gs) - 1) : Tail(gs)[k] = gs[k + 1]
  BY <1>1
<1>3. Head(gs) = gs[1] /\ gs[1] \in GoalType /\ Sound(s, gs[1])
  BY <1>1 DEF Stacks
<1>4. \A k \in 1..Len(Tail(gs)) : Sound(s, Tail(gs)[k])
  BY <1>1, <1>2 DEF Stacks
<1>5. \A k \in 1..(Len(Tail(gs)) - 1) : Linked(Tail(gs)[k], Tail(gs)[k + 1])
  <2> SUFFICES ASSUME NEW k \in 1..(Len(gs) - 2)
               PROVE  Linked(gs[k + 1], gs[k + 2])
    BY <1>1, <1>2
  <2>1. k + 1 \in 1..(Len(gs) - 1) /\ (k + 1) + 1 = k + 2
    BY <1>1
  <2> QED BY <2>1 DEF Stacks
<1>6. ASSUME Tail(gs) # <<>>
      PROVE  Linked(Head(gs), Head(Tail(gs)))
  <2>1. 1 \in 1..(Len(gs) - 1) /\ Head(Tail(gs)) = gs[1 + 1]
    BY <1>1, <1>2, <1>6
  <2> QED BY <1>3, <2>1 DEF Stacks
<1> QED BY <1>2, <1>3, <1>4, <1>5, <1>6 DEF Stacks

LEMMA Pushed ==
  ASSUME NEW s, NEW gs \in Stacks(s), NEW g \in GoalType, Sound(s, g),
         gs # <<>> => Linked(g, Head(gs))
  PROVE  <<g>> \o gs \in Stacks(s)
<1> DEFINE hs == <<g>> \o gs
<1>1. gs \in Seq(GoalType) /\ Len(gs) \in Nat
  BY DEF Stacks
<1>2. /\ hs \in Seq(GoalType) /\ Len(hs) = Len(gs) + 1 /\ hs[1] = g
      /\ \A k \in 1..Len(gs) : hs[k + 1] = gs[k]
  BY <1>1
<1> HIDE DEF hs
<1>3. \A k \in 1..Len(hs) : Sound(s, hs[k])
  <2> SUFFICES ASSUME NEW k \in 1..Len(hs), k # 1
               PROVE  Sound(s, hs[k])
    BY <1>2
  <2>1. k - 1 \in 1..Len(gs) /\ hs[k] = gs[k - 1]
    BY <1>1, <1>2
  <2> QED BY <2>1 DEF Stacks
<1>4. \A k \in 1..(Len(hs) - 1) : Linked(hs[k], hs[k + 1])
  <2> SUFFICES ASSUME NEW k \in 1..Len(gs)
               PROVE  Linked(hs[k], gs[k])
    BY <1>1, <1>2
  <2>1. CASE k = 1
    <3>1. gs # <<>> /\ Head(gs) = gs[1]
      BY <1>1
    <3> QED BY <1>2, <2>1, <3>1
  <2>2. CASE k # 1
    <3>1. k - 1 \in 1..(Len(gs) - 1) /\ (k - 1) + 1 = k /\ k - 1 \in 1..Len(gs)
      BY <1>1, <2>2
    <3>2. hs[k] = gs[k - 1]
      BY <1>2, <3>1
    <3> QED BY <3>1, <3>2 DEF Stacks
  <2> QED BY <2>1, <2>2
<1>5. hs \in Stacks(s)
  BY <1>2, <1>3, <1>4 DEF Stacks
<1> QED BY <1>5 DEF hs

LEMMA PushedTwo ==
  ASSUME NEW s, NEW gs \in Stacks(s), NEW g \in GoalType, NEW h \in GoalType,
         Sound(s, g), Sound(s, h), Linked(g, h), gs # <<>> => Linked(h, Head(gs))
  PROVE  <<g, h>> \o gs \in Stacks(s) /\ Head(<<g, h>> \o gs) = g
<1>1. gs \in Seq(GoalType)
  BY DEF Stacks
<1>2. <<h>> \o gs \in Stacks(s)
  BY Pushed
<1>3. <<h>> \o gs # <<>> /\ Head(<<h>> \o gs) = h
  BY <1>1
<1>4. <<g>> \o (<<h>> \o gs) \in Stacks(s)
  BY <1>2, <1>3, Pushed
<1>5. <<g, h>> \o gs = <<g>> \o (<<h>> \o gs)
  <2> DEFINE a == <<g, h>> \o gs
             b == <<g>> \o (<<h>> \o gs)
  <2>1. a \in Seq(GoalType) /\ Len(a) = Len(gs) + 2 /\ Len(gs) \in Nat
    BY <1>1
  <2>2. b \in Seq(GoalType) /\ Len(b) = Len(gs) + 2
    BY <1>1
  <2>3. a[1] = g /\ a[2] = h /\ \A k \in 1..Len(gs) : a[k + 2] = gs[k]
    BY <1>1
  <2>4. b[1] = g /\ b[2] = h /\ \A k \in 1..Len(gs) : b[k + 2] = gs[k]
    <3>1. /\ <<h>> \o gs \in Seq(GoalType) /\ Len(<<h>> \o gs) = Len(gs) + 1
          /\ (<<h>> \o gs)[1] = h /\ \A k \in 1..Len(gs) : (<<h>> \o gs)[k + 1] = gs[k]
      BY <1>1
    <3>2. b[1] = g /\ \A k \in 1..(Len(gs) + 1) : b[k + 1] = (<<h>> \o gs)[k]
      BY <3>1
    <3>3. 1 \in 1..(Len(gs) + 1) /\ \A k \in 1..Len(gs) : k + 1 \in 1..(Len(gs) + 1) /\ k + 2 = (k + 1) + 1
      BY <2>1
    <3>4. b[2] = (<<h>> \o gs)[1]
      BY <3>2, <3>3
    <3> QED BY <3>1, <3>2, <3>3, <3>4
  <2> HIDE DEF a, b
  <2>5. \A k \in 1..(Len(gs) + 2) : a[k] = b[k]
    <3> SUFFICES ASSUME NEW k \in 1..(Len(gs) + 2), k # 1, k # 2
                 PROVE  a[k] = b[k]
      BY <2>3, <2>4
    <3>1. k - 2 \in 1..Len(gs) /\ (k - 2) + 2 = k
      BY <2>1
    <3> QED BY <2>3, <2>4, <3>1
  <2>6. a = b
    BY <2>1, <2>2, <2>5
  <2> QED BY <2>6 DEF a, b
<1>6. Head(<<g, h>> \o gs) = g
  BY <1>1
<1> QED BY <1>4, <1>5, <1>6

\* The predicates an implementation needs are resolved before the calls that wait.
LEMMA PushedAll ==
  ASSUME NEW s, NEW gs \in Stacks(s), NEW preds \in Seq(Preds),
         gs # <<>> => Head(gs).do = "resolve"
  PROVE  LET hs == [k \in 1..Len(preds) |-> Goal("resolve", preds[k])] \o gs
         IN  hs \in Stacks(s) /\ (hs # <<>> => Head(hs).do = "resolve")
<1> DEFINE n == Len(preds)
           new == [k \in 1..n |-> Goal("resolve", preds[k])]
           hs == new \o gs
<1>1. gs \in Seq(GoalType) /\ Len(gs) \in Nat /\ n \in Nat
  BY DEF Stacks
<1>2. \A k \in 1..n : preds[k] \in Preds
  OBVIOUS
<1>3. \A k \in 1..n : new[k] \in GoalType /\ new[k].do = "resolve"
  BY <1>2 DEF Goal, GoalType
<1>4. new \in [1..n -> GoalType]
  BY <1>3
<1>5. new \in Seq(GoalType) /\ Len(new) = n
  BY <1>1, <1>4
<1> HIDE DEF new
<1>6. /\ hs \in Seq(GoalType) /\ Len(hs) = n + Len(gs)
      /\ \A k \in 1..n : hs[k] = new[k]
      /\ \A k \in 1..Len(gs) : hs[n + k] = gs[k]
  BY <1>1, <1>5
<1> HIDE DEF hs
<1>7. \A k \in 1..Len(hs) : Sound(s, hs[k])
  <2> SUFFICES ASSUME NEW k \in 1..Len(hs)
               PROVE  Sound(s, hs[k])
    OBVIOUS
  <2>1. CASE k <= n
    BY <1>3, <1>6, <2>1 DEF Sound
  <2>2. CASE k > n
    <3>1. k - n \in 1..Len(gs) /\ n + (k - n) = k
      BY <1>1, <1>6, <2>2
    <3> QED BY <1>6, <3>1 DEF Stacks
  <2> QED BY <1>1, <1>6, <2>1, <2>2
<1>8. \A k \in 1..(Len(hs) - 1) : Linked(hs[k], hs[k + 1])
  <2> SUFFICES ASSUME NEW k \in 1..(Len(hs) - 1)
               PROVE  Linked(hs[k], hs[k + 1])
    OBVIOUS
  <2>1. CASE k < n
    <3>1. k \in 1..n /\ k + 1 \in 1..n
      BY <1>1, <2>1
    <3> QED BY <1>3, <1>6, <3>1 DEF Linked
  <2>2. CASE k = n
    <3>1. 1 \in 1..Len(gs) /\ gs # <<>> /\ Head(gs) = gs[1] /\ k \in 1..n
      BY <1>1, <1>6, <2>2
    <3>2. hs[k + 1] = gs[1] /\ hs[k].do = "resolve"
      BY <1>3, <1>6, <2>2, <3>1
    <3> QED BY <3>1, <3>2 DEF Linked
  <2>3. CASE k > n
    <3>1. /\ k - n \in 1..(Len(gs) - 1) /\ n + (k - n) = k
          /\ k - n \in 1..Len(gs) /\ (k - n) + 1 \in 1..Len(gs) /\ n + ((k - n) + 1) = k + 1
      BY <1>1, <1>6, <2>3
    <3> QED BY <1>6, <3>1 DEF Stacks
  <2> QED BY <1>1, <1>6, <2>1, <2>2, <2>3
<1>9. hs # <<>> => Head(hs).do = "resolve"
  <2> SUFFICES ASSUME hs # <<>>
               PROVE  hs[1].do = "resolve"
    BY <1>6
  <2>1. CASE n > 0
    BY <1>1, <1>3, <1>6, <2>1
  <2>2. CASE n = 0
    <3>1. Len(gs) > 0 /\ gs # <<>> /\ hs[1] = gs[1] /\ Head(gs) = gs[1]
      BY <1>1, <1>6, <2>2
    <3> QED BY <3>1
  <2> QED BY <1>1, <2>1, <2>2
<1>10. hs \in Stacks(s)
  BY <1>6, <1>7, <1>8 DEF Stacks
<1> QED BY <1>9, <1>10 DEF hs, new

-------------------------------------------------------------------------------
(* The invariant. *)

ContextInv == world \in Worlds /\ on \in Searchers
SearchersInv ==
  /\ env = [s \in Searchers |-> env[s]] /\ \A s \in Searchers : env[s] \in Envs(world, s)
  /\ candidates = [s \in Searchers |-> candidates[s]]
  /\ \A s \in Searchers : candidates[s] \subseteq Proven(world, s)
QueueInv == queue \in Seq(Pending(world, on))
CallsInv == goals \in Stacks(on)

\* What resolve_local returned is a proof of what its caller asked for.
ReturnInv ==
  goals # <<>> /\ Head(goals).do \in {"add", "answer"} /\ found.some =>
    found.value \in Proven(world, on) /\ found.value.pred = Awaited(Head(goals))

SearchInv == ContextInv /\ SearchersInv /\ QueueInv /\ CallsInv /\ ReturnInv /\ AnswersAreProofs

LEMMA EmptyStack == \A s : <<>> \in Stacks(s)
BY DEF Stacks

LEMMA SearchInvInit == SearchInit => SearchInv
<1> SUFFICES ASSUME SearchInit
             PROVE  SearchInv
  OBVIOUS
<1>1. ContextInv
  BY DEF SearchInit, ContextInv, Searchers
<1>2. SearchersInv
  BY DEF SearchInit, SearchersInv, Envs
<1>3. QueueInv
  <2>1. world.self \in Seq(Preds) /\ Len(world.self) \in Nat
    BY <1>1, SearchAssumption DEF ContextInv
  <2>2. ASSUME NEW k \in 1..Len(world.self)
        PROVE  SelfCandidates[k] \in Pending(world, on)
    <3> DEFINE o == SelfPred(world.self[k])
    <3>1. o \in Origins /\ o.clause = world.self[k] /\ o.isSelf
      BY <2>1 DEF SelfPred, Origins
    <3>2. IsOrigin(world, on, o)
      BY <3>1 DEF IsOrigin
    <3> HIDE DEF o
    <3>3. Candidate(o.clause, <<>>, o) \in Pending(world, on)
      BY <1>1, <3>1, <3>2, OriginPending DEF ContextInv
    <3> QED BY <3>1, <3>3 DEF SelfCandidates, o
  <2>3. SelfCandidates \in [1..Len(world.self) -> Pending(world, on)]
    BY <2>2 DEF SelfCandidates
  <2> QED BY <2>1, <2>3 DEF SearchInit, QueueInv
<1>4. CallsInv
  BY EmptyStack DEF SearchInit, CallsInv
<1>5. ReturnInv
  BY DEF SearchInit, ReturnInv
<1>6. AnswersAreProofs
  BY DEF SearchInit, AnswersAreProofs
<1> QED BY <1>1, <1>2, <1>3, <1>4, <1>5, <1>6 DEF SearchInv

\* The chunks of the parents of a candidate name what its trait declares.
LEMMA ParentsFollow ==
  ASSUME NEW w \in Worlds, NEW s, NEW c \in Proven(w, s)
  PROVE  Extended(c, "Parent", ParentPreds(w, c.pred)) \in Seq(Pending(w, s))
<1> DEFINE preds == ParentPreds(w, c.pred)
<1>1. c.pred \in Preds
  BY DEF Proven, CandidateType
<1>2. preds \in Seq(Preds)
  BY <1>1, ParentsTyped
<1>3. \A k \in 1..Len(preds) : Follows(w, c.pred, Chunk("Parent", preds[k], k - 1))
  BY <1>2 DEF Follows, Chunk
<1> HIDE DEF preds
<1>4. Extended(c, "Parent", preds) \in Seq(Pending(w, s))
  BY <1>2, <1>3, ExtendedPending
<1> QED BY <1>4 DEF preds

\* So do those of the bounds of an associated type, once its trait reference is proven.
LEMMA BoundsFollow ==
  ASSUME NEW w \in Worlds, NEW s, NEW c \in Proven(w, s),
         NEW ty \in Types, IsProjection(ty), c.pred = TraitRef(ty)
  PROVE  Extended(c, "AssocItem", ItemBounds(w, ty)) \in Seq(Pending(w, s))
<1> DEFINE preds == ItemBounds(w, ty)
           a == ty.path[Len(ty.path)]
<1>1. preds \in Seq(Preds)
  BY BoundsTyped
<1>2. a \in Assocs /\ c.pred.trait = OwnerOf[a] /\ Projected(c.pred.ty, <<a>>) = ty
  BY ProjectionSplit
<1> HIDE DEF a
<1>3. \A k \in 1..Len(preds) : Follows(w, c.pred, Chunk("AssocItem", preds[k], k - 1))
  BY <1>1, <1>2 DEF Follows, Chunk
<1> HIDE DEF preds
<1>4. Extended(c, "AssocItem", preds) \in Seq(Pending(w, s))
  BY <1>1, <1>3, ExtendedPending
<1> QED BY <1>4 DEF preds

LEMMA LookupProven ==
  ASSUME ContextInv, SearchersInv, NEW p, Lookup(p).some
  PROVE  Lookup(p).value \in Proven(world, on) /\ Lookup(p).value.pred = p
<1>1. Known(p)
  BY Options DEF Lookup
<1> DEFINE c == CHOOSE c \in candidates[on] : c.pred = p
<1>2. c \in candidates[on] /\ c.pred = p
  BY <1>1 DEF Known
<1>3. Lookup(p).value = c
  BY <1>1, Options DEF Lookup
<1> QED BY <1>2, <1>3 DEF ContextInv, SearchersInv

\* resolve_local returns to the call that waits for it.
LEMMA Returned ==
  ASSUME ContextInv, SearchersInv, CallsInv, NEW do \in {"find", "again"}, Doing(do),
         found' = Lookup(Head(goals).pred), goals' = Tail(goals), UNCHANGED <<world, on>>
  PROVE  CallsInv' /\ ReturnInv'
<1>1. /\ Head(goals) \in GoalType /\ Head(goals).do = do /\ Tail(goals) \in Stacks(on)
      /\ Tail(goals) # <<>> => Linked(Head(goals), Head(Tail(goals)))
  BY Popped DEF CallsInv, Doing
<1>2. CallsInv'
  BY <1>1 DEF CallsInv
<1>3. ASSUME Tail(goals) # <<>>, Lookup(Head(goals).pred).some
      PROVE  /\ Lookup(Head(goals).pred).value \in Proven(world, on)
             /\ Lookup(Head(goals).pred).value.pred = Awaited(Head(Tail(goals)))
  <2>1. Head(goals).pred = Awaited(Head(Tail(goals)))
    BY <1>1, <1>3 DEF Linked
  <2> QED BY <1>3, <2>1, LookupProven
<1>4. ReturnInv'
  BY <1>3 DEF ReturnInv
<1> QED BY <1>2, <1>4

-------------------------------------------------------------------------------
(* One step preserves the invariant. *)

LEMMA InsertCandidateInv == SearchInv /\ InsertCandidate => SearchInv'
<1> SUFFICES ASSUME SearchInv, InsertCandidate
             PROVE  SearchInv'
  OBVIOUS
<1> USE DEF SearchInv
<1>1. /\ queue # <<>> /\ queue \in Seq(Pending(world, on))
      /\ world \in Worlds /\ on \in Searchers /\ env[on] \in Envs(world, on)
      /\ UNCHANGED <<world, env, on, goals, found, answers>>
  BY DEF InsertCandidate, QueueInv, ContextInv, SearchersInv
<1>2. Head(queue) \in Pending(world, on) /\ Tail(queue) \in Seq(Pending(world, on))
  BY <1>1
<1> DEFINE c == [Head(queue) EXCEPT !.pred = Norm(env[on], @)]
<1>3. c \in Proven(world, on)
  BY <1>1, <1>2, Accepted
<1>4. Extended(c, "Parent", ParentPreds(world, c.pred)) \in Seq(Pending(world, on))
  BY <1>1, <1>3, ParentsFollow
<1>5. \/ queue' = Tail(queue) /\ candidates' = candidates
      \/ /\ candidates' = [candidates EXCEPT ![on] = @ \cup {c}]
         /\ queue' = Tail(queue) \o Extended(c, "Parent", ParentPreds(world, c.pred))
  BY DEF InsertCandidate
<1> HIDE DEF c
<1>6. ContextInv' /\ CallsInv' /\ ReturnInv' /\ AnswersAreProofs'
  BY <1>1 DEF ContextInv, CallsInv, ReturnInv, AnswersAreProofs
<1>7. SearchersInv'
  BY <1>1, <1>3, <1>5 DEF SearchersInv
<1>8. QueueInv'
  <2>1. queue' \in Seq(Pending(world, on))
    BY <1>2, <1>4, <1>5, Joined
  <2> QED BY <1>1, <2>1 DEF QueueInv
<1> QED BY <1>6, <1>7, <1>8

LEMMA InsertBoundsInv == SearchInv /\ InsertBounds => SearchInv'
<1> SUFFICES ASSUME SearchInv, InsertBounds
             PROVE  SearchInv'
  OBVIOUS
<1> USE DEF SearchInv
<1>1. /\ world \in Worlds /\ on \in Searchers
      /\ UNCHANGED <<world, env, candidates, on, goals, found, answers>>
      /\ queue' = BoundCandidates(world.clauses, 0)
  BY DEF InsertBounds, ContextInv
<1>2. world.clauses \in Seq(Preds)
  BY <1>1, SearchAssumption
<1>3. ASSUME NEW k \in 1..Len(world.clauses)
      PROVE  IsOrigin(world, on, Item(0 + k - 1, world.clauses[k]))
  <2> DEFINE o == Item(0 + k - 1, world.clauses[k])
  <2>1. o \in Origins /\ ~o.isSelf /\ o.index + 1 = k /\ o.clause = world.clauses[k]
    BY <1>2 DEF Item, Origins
  <2>2. IsOrigin(world, "item", o)
    BY <2>1 DEF IsOrigin
  <2> HIDE DEF o
  <2>3. IsOrigin(world, on, o)
    BY <1>1, <2>1, <2>2, SharedOrigin
  <2> QED BY <2>3 DEF o
<1>4. BoundCandidates(world.clauses, 0) \in Seq(Pending(world, on))
  BY <1>1, <1>2, <1>3, BoundsPending
<1>5. QueueInv'
  BY <1>1, <1>4 DEF QueueInv
<1>6. ContextInv' /\ SearchersInv' /\ CallsInv' /\ ReturnInv' /\ AnswersAreProofs'
  BY <1>1 DEF ContextInv, SearchersInv, CallsInv, ReturnInv, AnswersAreProofs
<1> QED BY <1>5, <1>6

\* A question starts a stack of one call.
LEMMA Question ==
  ASSUME SearchInv, queue = <<>>, NEW p \in Preds, goals' = <<Goal("resolve", p)>>,
         on' \in Searchers, UNCHANGED <<world, env, candidates, queue, found, answers>>
  PROVE  SearchInv'
<1> USE DEF SearchInv
<1>1. ContextInv' /\ SearchersInv' /\ AnswersAreProofs'
  BY DEF ContextInv, SearchersInv, AnswersAreProofs
<1>2. QueueInv'
  BY DEF QueueInv
<1> DEFINE g == Goal("resolve", p)
<1>3. g \in GoalType /\ g.do = "resolve"
  BY DEF Goal, GoalType
<1> HIDE DEF g
<1>4. <<g>> \in Seq(GoalType) /\ Len(<<g>>) = 1 /\ <<g>>[1] = g /\ Head(<<g>>) = g
  BY <1>3
<1>5. goals' \in Stacks(on') /\ Head(goals') = g
  BY <1>3, <1>4 DEF Stacks, Sound, g
<1>6. CallsInv' /\ ReturnInv'
  BY <1>3, <1>5 DEF CallsInv, ReturnInv
<1> QED BY <1>1, <1>2, <1>6

LEMMA QuestionsInv ==
  SearchInv /\ (\E p \in world.asks \cup world.dynAsks : Ask(p) \/ AskDyn(p)) => SearchInv'
<1> SUFFICES ASSUME SearchInv, NEW p \in world.asks \cup world.dynAsks, Ask(p) \/ AskDyn(p)
             PROVE  SearchInv'
  OBVIOUS
<1>1. p \in Preds
  BY SearchAssumption DEF SearchInv, ContextInv
<1> QED BY <1>1, Question DEF Ask, AskDyn, Idle, Searchers

LEMMA EnterDynInv == SearchInv /\ EnterDyn => SearchInv'
<1> SUFFICES ASSUME SearchInv, EnterDyn
             PROVE  SearchInv'
  OBVIOUS
<1> USE DEF SearchInv
<1>1. /\ world \in Worlds /\ world.dyn # <<>> /\ on' = "dyn"
      /\ candidates' = [candidates EXCEPT !["dyn"] = candidates["item"]]
      /\ queue' = BoundCandidates(world.dyn, Len(world.clauses))
      /\ goals' = <<Goal("param_env", world.dyn[1])>>
      /\ UNCHANGED <<world, env, found, answers>>
  BY DEF EnterDyn, ContextInv
<1>2. world.dyn \in Seq(Preds) /\ world.clauses \in Seq(Preds) /\ Len(world.clauses) \in Nat
  BY <1>1, SearchAssumption
<1>3. ContextInv' /\ AnswersAreProofs'
  BY <1>1 DEF ContextInv, AnswersAreProofs, Searchers
<1>4. SearchersInv'
  <2>1. candidates["item"] \subseteq Proven(world, "item")
    BY DEF SearchersInv, Searchers
  <2>2. candidates["item"] \subseteq Proven(world, "dyn")
    BY <1>1, <2>1, SharedProven
  <2> QED BY <1>1, <2>2 DEF SearchersInv
<1>5. QueueInv'
  <2>1. ASSUME NEW k \in 1..Len(world.dyn)
        PROVE  IsOrigin(world, "dyn", Item(Len(world.clauses) + k - 1, world.dyn[k]))
    <3>1. \A u, v \in Seq(Preds) : \A i \in 1..Len(v) :
            Len(u) + i \in 1..Len(u \o v) /\ (u \o v)[Len(u) + i] = v[i]
      OBVIOUS
    <3>2. /\ Len(world.clauses) + k \in 1..Len(world.clauses \o world.dyn)
          /\ (world.clauses \o world.dyn)[Len(world.clauses) + k] = world.dyn[k]
      BY <1>2, <3>1
    <3>3. (Len(world.clauses) + k - 1) + 1 = Len(world.clauses) + k
      BY <1>2
    <3> QED BY <3>2, <3>3 DEF IsOrigin, Item
  <2>2. BoundCandidates(world.dyn, Len(world.clauses)) \in Seq(Pending(world, "dyn"))
    BY <1>1, <1>2, <2>1, BoundsPending
  <2> QED BY <1>1, <2>2 DEF QueueInv
<1>6. CallsInv' /\ ReturnInv'
  <2> DEFINE g == Goal("param_env", world.dyn[1])
  <2>1. world.dyn[1] \in Preds
    BY <1>1, <1>2
  <2>2. g \in GoalType /\ g.do = "param_env"
    BY <2>1 DEF Goal, GoalType
  <2> HIDE DEF g
  <2>3. <<g>> \in Seq(GoalType) /\ Len(<<g>>) = 1 /\ <<g>>[1] = g /\ Head(<<g>>) = g
    BY <2>2
  <2>4. <<g>> \in Stacks("dyn")
    BY <2>2, <2>3 DEF Stacks, Sound
  <2>5. goals' = <<g>>
    BY <1>1 DEF g
  <2> QED BY <1>1, <2>2, <2>3, <2>4, <2>5 DEF CallsInv, ReturnInv
<1> QED BY <1>3, <1>4, <1>5, <1>6

LEMMA SetParamEnvInv == SearchInv /\ SetParamEnv => SearchInv'
<1> SUFFICES ASSUME SearchInv, SetParamEnv
             PROVE  SearchInv'
  OBVIOUS
<1> USE DEF SearchInv
<1>1. /\ on \in Searchers /\ goals # <<>> /\ Head(goals).do = "param_env"
      /\ env' = [env EXCEPT ![on] = @ \cup world.dynEqual] /\ goals' = Tail(goals)
      /\ UNCHANGED <<world, candidates, queue, on, found, answers>>
  BY DEF SetParamEnv, ContextInv
<1>2. /\ Tail(goals) \in Stacks(on) /\ on = "dyn"
      /\ Tail(goals) # <<>> => Linked(Head(goals), Head(Tail(goals)))
  BY <1>1, Popped DEF CallsInv, Sound
<1>3. ContextInv' /\ QueueInv' /\ AnswersAreProofs'
  BY <1>1 DEF ContextInv, QueueInv, AnswersAreProofs
<1>4. SearchersInv'
  <2>1. env[on] \in Envs(world, on)
    BY <1>1 DEF SearchersInv
  <2>2. env[on] \cup world.dynEqual \in Envs(world, on)
    <3>1. env[on] = world.equal \/ env[on] = world.equal \cup world.dynEqual
      BY <1>2, <2>1 DEF Envs
    <3>2. env[on] \cup world.dynEqual = world.equal \cup world.dynEqual
      BY <3>1
    <3> QED BY <1>2, <3>2 DEF Envs
  <2> QED BY <1>1, <2>2 DEF SearchersInv
<1>5. CallsInv' /\ ReturnInv'
  BY <1>1, <1>2 DEF CallsInv, ReturnInv, Linked
<1> QED BY <1>3, <1>4, <1>5

\* The four actions on the innermost call leave the context and the candidates alone.
LEMMA SearchersKept ==
  ASSUME SearchInv, UNCHANGED <<world, candidates, env, on>>
  PROVE  ContextInv' /\ SearchersInv'
BY DEF SearchInv, ContextInv, SearchersInv

LEMMA ResolveGoalInv == SearchInv /\ ResolveGoal => SearchInv'
<1> SUFFICES ASSUME SearchInv, ResolveGoal
             PROVE  SearchInv'
  OBVIOUS
<1> USE DEF SearchInv
<1> DEFINE p == Norm(env[on], Head(goals).pred)
           needs == IF p \in DOMAIN world.builtin THEN world.builtin[p] ELSE <<>>
<1>1. /\ Doing("resolve") /\ UNCHANGED <<world, candidates, env, queue, on, found>>
      /\ world \in Worlds /\ env[on] \in Envs(world, on)
  BY DEF ResolveGoal, ContextInv, SearchersInv
<1>2. /\ goals \in Stacks(on) /\ goals # <<>> /\ Head(goals).do = "resolve"
      /\ Head(goals) \in GoalType /\ Tail(goals) \in Stacks(on)
      /\ Tail(goals) # <<>> => Linked(Head(goals), Head(Tail(goals)))
  BY <1>1, Popped DEF CallsInv, Doing
<1>3. p \in Preds
  <2>1. Head(goals).pred \in Preds
    BY <1>2 DEF GoalType
  <2> QED BY <1>1, <2>1, NormTyped
<1>4. needs \in Seq(Preds)
  BY <1>1, SearchAssumption
<1>5. \/ /\ goals' = [k \in 1..Len(needs) |-> Goal("resolve", needs[k])] \o Tail(goals)
         /\ Answered(p, External)
      \/ goals' = <<Goal("find", p), Goal("answer", p)>> \o Tail(goals) /\ UNCHANGED answers
  BY DEF ResolveGoal
<1> HIDE DEF p, needs
<1>6. ContextInv' /\ SearchersInv' /\ QueueInv'
  BY <1>1, SearchersKept DEF QueueInv
<1>7. AnswersAreProofs'
  BY <1>1, <1>5 DEF AnswersAreProofs, Answered, External
<1>8. CallsInv' /\ ReturnInv'
  <2>1. CASE goals' = [k \in 1..Len(needs) |-> Goal("resolve", needs[k])] \o Tail(goals)
    <3>1. Tail(goals) # <<>> => Head(Tail(goals)).do = "resolve"
      BY <1>2 DEF Linked
    <3>2. goals' \in Stacks(on) /\ (goals' # <<>> => Head(goals').do = "resolve")
      BY <1>2, <1>4, <2>1, <3>1, PushedAll
    <3> QED BY <1>1, <3>2 DEF CallsInv, ReturnInv
  <2>2. CASE goals' = <<Goal("find", p), Goal("answer", p)>> \o Tail(goals)
    <3> DEFINE g == Goal("find", p)
               h == Goal("answer", p)
    <3>1. g \in GoalType /\ h \in GoalType /\ g.do = "find"
      BY <1>3 DEF Goal, GoalType
    <3>2. Sound(on, g) /\ Sound(on, h) /\ Linked(g, h)
      BY DEF Goal, Sound, Linked, Awaited
    <3>3. Tail(goals) # <<>> => Linked(h, Head(Tail(goals)))
      BY <1>2 DEF Goal, Linked
    <3> HIDE DEF g, h
    <3>4. <<g, h>> \o Tail(goals) \in Stacks(on) /\ Head(<<g, h>> \o Tail(goals)) = g
      BY <1>2, <3>1, <3>2, <3>3, PushedTwo
    <3>5. goals' = <<g, h>> \o Tail(goals)
      BY <2>2 DEF g, h
    <3> QED BY <1>1, <3>1, <3>4, <3>5 DEF CallsInv, ReturnInv
  <2> QED BY <1>5, <2>1, <2>2
<1> QED BY <1>6, <1>7, <1>8

LEMMA FindInv == SearchInv /\ Find => SearchInv'
<1> SUFFICES ASSUME SearchInv, Find
             PROVE  SearchInv'
  OBVIOUS
<1> USE DEF SearchInv
<1> DEFINE p == Head(goals).pred
<1>1. Doing("find") /\ UNCHANGED <<world, candidates, env, queue, on, answers>>
  BY DEF Find
<1>2. ContextInv' /\ SearchersInv' /\ QueueInv' /\ AnswersAreProofs'
  BY <1>1, SearchersKept DEF QueueInv, AnswersAreProofs
<1>3. CASE Known(p) \/ ~IsProjection(p.ty)
  <2>1. found' = Lookup(p) /\ goals' = Tail(goals)
    BY <1>3 DEF Find
  <2>2. CallsInv' /\ ReturnInv'
    BY <1>1, <2>1, Returned
  <2> QED BY <1>2, <2>2
<1>4. CASE ~Known(p) /\ IsProjection(p.ty)
  <2> DEFINE g == Goal("find", TraitRef(p.ty))
             h == Goal("add", p)
  <2>1. goals' = <<g, h>> \o Tail(goals)
    BY <1>4 DEF Find
  <2>2. /\ goals # <<>> /\ Head(goals).do = "find"
        /\ Head(goals) \in GoalType /\ Tail(goals) \in Stacks(on)
        /\ Tail(goals) # <<>> => Linked(Head(goals), Head(Tail(goals)))
    BY <1>1, Popped DEF CallsInv, Doing
  <2>3. p \in Preds /\ p.ty \in Types
    BY <2>2 DEF GoalType, Preds
  <2>4. TraitRef(p.ty) \in Preds
    BY <1>4, <2>3, ProjectionSplit
  <2>5. g \in GoalType /\ h \in GoalType /\ g.do = "find"
    BY <2>3, <2>4 DEF Goal, GoalType
  <2>6. Sound(on, g) /\ Sound(on, h) /\ Linked(g, h)
    BY <1>4 DEF Goal, Sound, Linked, Awaited
  <2>7. Tail(goals) # <<>> => Linked(h, Head(Tail(goals)))
    BY <2>2 DEF Goal, Linked, Awaited
  <2> HIDE DEF g, h
  <2>8. <<g, h>> \o Tail(goals) \in Stacks(on) /\ Head(<<g, h>> \o Tail(goals)) = g
    BY <2>2, <2>5, <2>6, <2>7, PushedTwo
  <2>9. CallsInv' /\ ReturnInv'
    BY <1>1, <2>1, <2>5, <2>8 DEF CallsInv, ReturnInv
  <2> QED BY <1>2, <2>9
<1> QED BY <1>3, <1>4

LEMMA AddBoundsInv == SearchInv /\ AddBounds => SearchInv'
<1> SUFFICES ASSUME SearchInv, AddBounds
             PROVE  SearchInv'
  OBVIOUS
<1> USE DEF SearchInv
<1> DEFINE p == Head(goals).pred
           g == Goal("again", p)
           bounds == Extended(found.value, "AssocItem", ItemBounds(world, p.ty))
<1>1. /\ Doing("add") /\ UNCHANGED <<world, candidates, env, on, found, answers>>
      /\ queue' = IF found.some THEN bounds ELSE <<>>
      /\ goals' = <<g>> \o Tail(goals) /\ world \in Worlds
  BY DEF AddBounds, ContextInv
<1>2. ContextInv' /\ SearchersInv' /\ AnswersAreProofs'
  BY <1>1, SearchersKept DEF AnswersAreProofs
<1>3. /\ goals # <<>> /\ Head(goals).do = "add" /\ Sound(on, Head(goals))
      /\ Head(goals) \in GoalType /\ Tail(goals) \in Stacks(on)
      /\ Tail(goals) # <<>> => Linked(Head(goals), Head(Tail(goals)))
  BY <1>1, Popped DEF CallsInv, Doing
<1>4. p \in Preds /\ p.ty \in Types /\ IsProjection(p.ty)
  BY <1>3 DEF GoalType, Preds, Sound
<1>5. QueueInv'
  <2>1. CASE found.some
    <3>1. found.value \in Proven(world, on) /\ found.value.pred = TraitRef(p.ty)
      BY <1>3, <2>1 DEF ReturnInv, Awaited
    <3>2. bounds \in Seq(Pending(world, on))
      BY <1>1, <1>4, <3>1, BoundsFollow
    <3> QED BY <1>1, <2>1, <3>2 DEF QueueInv
  <2>2. CASE ~found.some
    BY <1>1, <2>2 DEF QueueInv
  <2> QED BY <2>1, <2>2
<1>6. g \in GoalType /\ g.do = "again" /\ Sound(on, g)
  BY <1>4 DEF Goal, GoalType, Sound
<1>7. Tail(goals) # <<>> => Linked(g, Head(Tail(goals)))
  BY <1>3 DEF Goal, Linked, Awaited
<1> HIDE DEF g
<1>8. <<g>> \o Tail(goals) \in Stacks(on)
  BY <1>3, <1>6, <1>7, Pushed
<1>9. Head(<<g>> \o Tail(goals)) = g
  BY <1>3 DEF Stacks
<1>10. CallsInv' /\ ReturnInv'
  BY <1>1, <1>6, <1>8, <1>9 DEF CallsInv, ReturnInv
<1> QED BY <1>2, <1>5, <1>10

LEMMA FindAgainInv == SearchInv /\ FindAgain => SearchInv'
<1> SUFFICES ASSUME SearchInv, FindAgain
             PROVE  SearchInv'
  OBVIOUS
<1> USE DEF SearchInv
<1>1. /\ Doing("again") /\ UNCHANGED <<world, candidates, env, queue, on, answers>>
      /\ found' = Lookup(Head(goals).pred) /\ goals' = Tail(goals)
  BY DEF FindAgain
<1>2. CallsInv' /\ ReturnInv'
  BY <1>1, Returned
<1>3. ContextInv' /\ SearchersInv' /\ QueueInv' /\ AnswersAreProofs'
  BY <1>1, SearchersKept DEF QueueInv, AnswersAreProofs
<1> QED BY <1>2, <1>3

LEMMA AnswerGoalInv == SearchInv /\ AnswerGoal => SearchInv'
<1> SUFFICES ASSUME SearchInv, AnswerGoal
             PROVE  SearchInv'
  OBVIOUS
<1> USE DEF SearchInv
<1>1. /\ Doing("answer") /\ UNCHANGED <<world, candidates, env, queue, on, found>>
      /\ Answered(Head(goals).pred, IF found.some THEN Local(found.value) ELSE Error)
      /\ goals' = Tail(goals)
  BY DEF AnswerGoal
<1>2. /\ goals # <<>> /\ Head(goals).do = "answer" /\ Tail(goals) \in Stacks(on)
      /\ Tail(goals) # <<>> => Linked(Head(goals), Head(Tail(goals)))
  BY <1>1, Popped DEF CallsInv, Doing
<1>3. ContextInv' /\ SearchersInv' /\ QueueInv'
  BY <1>1, SearchersKept DEF QueueInv
<1>4. CallsInv' /\ ReturnInv'
  BY <1>1, <1>2 DEF CallsInv, ReturnInv, Linked
<1>5. AnswersAreProofs'
  <2> SUFFICES ASSUME NEW a \in answers', a.atom.kind = "local"
               PROVE  a.atom.candidate.pred = a.pred /\ Valid(world, a.on, a.atom.candidate)
    BY <1>1 DEF AnswersAreProofs
  <2>1. CASE a \in answers
    BY <2>1 DEF AnswersAreProofs
  <2>2. CASE a \notin answers
    <3>1. a = [on |-> on, pred |-> Head(goals).pred,
               atom |-> IF found.some THEN Local(found.value) ELSE Error]
      BY <1>1, <2>2 DEF Answered
    <3>2. found.some /\ a.atom = Local(found.value) /\ a.on = on /\ a.pred = Head(goals).pred
      BY <3>1 DEF Error
    <3>3. found.value \in Proven(world, on) /\ found.value.pred = Head(goals).pred
      BY <1>2, <3>2 DEF ReturnInv, Awaited
    <3> QED BY <3>2, <3>3 DEF Local, Proven
  <2> QED BY <2>1, <2>2
<1> QED BY <1>3, <1>4, <1>5

LEMMA StutterInv == SearchInv /\ UNCHANGED searchVars => SearchInv'
BY DEF SearchInv, searchVars, ContextInv, SearchersInv, QueueInv, CallsInv, ReturnInv, AnswersAreProofs

-------------------------------------------------------------------------------
(* Results. *)

\* The invariant: candidates are proven, what waits in the queue follows from a proven
\* candidate by one declaration, and a call returns to the one that asked for it.
THEOREM SearchInvariant == SearchSpec => []SearchInv
<1>1. SearchInv /\ [SearchNext]_searchVars => SearchInv'
  BY InsertCandidateInv, InsertBoundsInv, QuestionsInv, EnterDynInv, SetParamEnvInv, ResolveGoalInv,
     FindInv, AddBoundsInv, FindAgainInv, AnswerGoalInv, StutterInv DEF SearchNext, Search
<1> QED BY <1>1, SearchInvInit, PTL DEF SearchSpec

\* Whatever the traits, the clauses in scope and the questions, a clause answered for a
\* predicate (LocalBound, SelfImpl) is one of the item, under its own number, and the
\* indices of the path lead from it to the predicate.
THEOREM AnswersProven == SearchSpec => []AnswersAreProofs
<1>1. SearchInv => AnswersAreProofs
  BY DEF SearchInv
<1> QED BY <1>1, SearchInvariant, PTL
-------------------------------------------------------------------------------
(* Iterated implications. *)

LEMMA LeastNumber ==
  ASSUME NEW T, T \subseteq Nat, T # {}
  PROVE  \E x \in T : \A y \in T : x <= y
<1>1. PICK R : R = OpToRel(<, Nat)
  OBVIOUS
<1>2. IsWellFoundedOn(R, Nat)
  BY <1>1, NatLessThanWellFounded, Zenon
<1>3. \E x \in T : \A y \in T : ~(<<y, x>> \in R)
  BY <1>2, WFMin
<1>4. \A x, y \in Nat : <<y, x>> \in R <=> y < x
  BY <1>1, Zenon DEF OpToRel
<1>5. PICK x \in T : \A y \in T : ~(<<y, x>> \in R)
  BY <1>3
<1>6. \A y \in T : x <= y
  <2> SUFFICES ASSUME NEW y \in T  PROVE x <= y
    OBVIOUS
  <2>1. ~(y < x)
    BY <1>4, <1>5
  <2>2. x \in Nat /\ y \in Nat
    OBVIOUS
  <2> QED  BY <2>1, <2>2
<1> QED
  BY <1>6

\* The predicates that 0, 1, ... n steps imply, from those of base.
ImpliedSteps(w, base, n, f) ==
  f = [k \in 0..n |-> IF k = 0 THEN base ELSE f[k - 1] \cup ImpliedBy(w, f[k - 1])]

LEMMA ImpliedExists ==
  ASSUME NEW w, NEW base, NEW n \in Nat
  PROVE  \E f : ImpliedSteps(w, base, n, f)
<1> DEFINE Bad == {m \in Nat : ~\E f : ImpliedSteps(w, base, m, f)}
<1>1. ASSUME Bad # {}  PROVE FALSE
  <2>1. PICK m \in Bad : \A k \in Bad : m <= k
    <3>1. Bad \subseteq Nat
      OBVIOUS
    <3> HIDE DEF Bad
    <3> QED  BY <1>1, <3>1, LeastNumber
  <2>2. m \in Nat /\ ~\E f : ImpliedSteps(w, base, m, f)
    BY <2>1
  <2>3. CASE m = 0
    <3>1. PICK g : g = [k \in 0..m |-> base]
      OBVIOUS
    <3>2. ImpliedSteps(w, base, m, g)
      BY <2>3, <3>1 DEF ImpliedSteps
    <3> QED  BY <2>2, <3>2
  <2>4. CASE m # 0
    <3>1. m - 1 \in Nat /\ m - 1 \notin Bad
      BY <2>1, <2>2, <2>4
    <3>2. PICK f : ImpliedSteps(w, base, m - 1, f)
      BY <3>1
    <3>3. PICK g : g = [k \in 0..m |-> IF k = m THEN f[m - 1] \cup ImpliedBy(w, f[m - 1]) ELSE f[k]]
      OBVIOUS
    <3>4. ASSUME NEW k \in 0..m
          PROVE  g[k] = IF k = 0 THEN base ELSE g[k - 1] \cup ImpliedBy(w, g[k - 1])
      <4>1. CASE k = m
        <5>1. g[k - 1] = f[m - 1]
          BY <2>2, <2>4, <3>3, <4>1
        <5> QED  BY <2>4, <3>3, <4>1, <5>1
      <4>2. CASE k # m
        <5>1. k \in 0..(m - 1)
          BY <2>2, <4>2
        <5>2. f[k] = IF k = 0 THEN base ELSE f[k - 1] \cup ImpliedBy(w, f[k - 1])
          BY <3>2, <5>1 DEF ImpliedSteps
        <5>3. g[k] = f[k] /\ (k # 0 => g[k - 1] = f[k - 1])
          BY <2>2, <3>3, <4>2, <5>1
        <5> QED  BY <5>2, <5>3
      <4> QED  BY <4>1, <4>2
    <3>5. ImpliedSteps(w, base, m, g)
      BY <3>3, <3>4 DEF ImpliedSteps
    <3> QED  BY <2>2, <3>5
  <2> QED  BY <2>3, <2>4
<1> QED  BY <1>1

\* What holds of the starts, and of what is implied at the next step, holds of all of them.
LEMMA ImpliedIn ==
  ASSUME NEW w, NEW starts, NEW n \in Nat, NEW F,
         \A p \in starts : Norm(w.equal, p) \in F[0],
         \A k \in 0..(n - 1) : F[k] \subseteq F[k + 1] /\ ImpliedBy(w, F[k]) \subseteq F[k + 1]
  PROVE  Implied(w, starts, n) \subseteq F[n]
<1> DEFINE base == {Norm(w.equal, p) : p \in starts}
           f == CHOOSE f : ImpliedSteps(w, base, n, f)
<1>1. ImpliedSteps(w, base, n, f)
  BY ImpliedExists
<1>2. Implied(w, starts, n) = f[n]
  BY DEF Implied, ImpliedSteps
<1>3. base \subseteq F[0]
  OBVIOUS
<1> HIDE DEF f, base
<1>4. \A k \in 0..n : f[k] = IF k = 0 THEN base ELSE f[k - 1] \cup ImpliedBy(w, f[k - 1])
  BY <1>1 DEF ImpliedSteps
<1> DEFINE Bad == {k \in 0..n : ~(f[k] \subseteq F[k])}
<1>5. ASSUME Bad # {}  PROVE FALSE
  <2>1. PICK m \in Bad : \A k \in Bad : m <= k
    <3>1. Bad \subseteq Nat
      OBVIOUS
    <3> HIDE DEF Bad
    <3> QED  BY <1>5, <3>1, LeastNumber
  <2>2. m \in 0..n /\ ~(f[m] \subseteq F[m])
    BY <2>1
  <2>3. m # 0
    BY <1>3, <1>4, <2>2
  <2>4. m - 1 \in 0..(n - 1) /\ m - 1 \in 0..n /\ (m - 1) + 1 = m /\ m - 1 \notin Bad
    BY <2>1, <2>2, <2>3
  <2>5. f[m - 1] \subseteq F[m - 1]
    BY <2>4
  <2>6. ImpliedBy(w, f[m - 1]) \subseteq ImpliedBy(w, F[m - 1])
    BY <2>5 DEF ImpliedBy
  <2>7. F[m - 1] \subseteq F[m] /\ ImpliedBy(w, F[m - 1]) \subseteq F[m]
    BY <2>4
  <2>8. f[m] = f[m - 1] \cup ImpliedBy(w, f[m - 1])
    BY <1>4, <2>2, <2>3
  <2> QED  BY <2>2, <2>5, <2>6, <2>7, <2>8
<1>6. f[n] \subseteq F[n]
  BY <1>5
<1> QED  BY <1>2, <1>6

-------------------------------------------------------------------------------
(* Shortest paths.  While the clauses of the item are inserted, the queue  *)
(* is in the order of the length of its paths, and what follows in one     *)
(* step from a candidate is known, or waits, with a path one longer.       *)

OfParents(c) == \A k \in 1..Len(c.path) : c.path[k].kind = "Parent"

\* How far a candidate is; those of the `Self` clause are all in before the others come.
Rank(c) == IF ready /\ c.origin.isSelf THEN 0 ELSE Len(c.path)

Building == ~ready \/ (queue # <<>> /\ goals = <<>>)
Roots == ElementsOf(world.self) \cup (IF ready THEN ElementsOf(world.clauses) ELSE {})

Held(p, n) == \E c \in candidates["item"] : c.pred = p /\ Rank(c) <= n
Waits(p, n) == \E k \in 1..Len(queue) : Norm(world.equal, queue[k].pred) = p /\ Len(queue[k].path) <= n
Near(p, n) == Held(p, n) \/ Waits(p, n)

StageInv ==
  /\ ~ready => goals = <<>> /\ on = "item"
  /\ queue # <<>> /\ goals = <<>> => on = "item"
  /\ ready /\ on = "item" /\ goals # <<>> => \A k \in 1..Len(queue) : ~OfParents(queue[k])

InOrder ==
  /\ \A j, k \in 1..Len(queue) : j <= k => /\ Len(queue[j].path) <= Len(queue[k].path)
                                           /\ Len(queue[k].path) <= Len(queue[j].path) + 1
  /\ \A c \in candidates["item"] : \A k \in 1..Len(queue) : Rank(c) <= Len(queue[k].path)

Origin ==
  /\ \A k \in 1..Len(queue) : queue[k].origin.isSelf <=> ~ready
  /\ ~ready => \A c \in candidates["item"] : c.origin.isSelf

Spread ==
  /\ \A r \in Roots : Near(Norm(world.equal, r), 0)
  /\ \A c \in candidates["item"] : \A r \in ElementsOf(ParentPreds(world, c.pred)) :
       Near(Norm(world.equal, r), Rank(c) + 1)

BreadthFirst == Building => InOrder /\ Origin /\ Spread

PathsInv == StageInv /\ BreadthFirst /\ PathsAreShortest

LEMMA PathsInit == SearchInit => PathsInv
<1> SUFFICES ASSUME SearchInit  PROVE PathsInv
  OBVIOUS
<1>1. /\ world \in Worlds /\ ~ready /\ candidates = [s \in Searchers |-> {}]
      /\ queue = SelfCandidates /\ on = "item" /\ goals = <<>>
  BY DEF SearchInit
<1>2. candidates["item"] = {}
  BY <1>1 DEF Searchers
<1>3. world.self \in Seq(Preds) /\ Len(world.self) \in Nat /\ DOMAIN world.self = 1..Len(world.self)
  BY <1>1, SearchAssumption
<1>4. Len(queue) = Len(world.self)
  BY <1>1, <1>3 DEF SelfCandidates
<1>5. ASSUME NEW k \in 1..Len(queue)
      PROVE  queue[k].path = <<>> /\ queue[k].origin.isSelf /\ queue[k].pred = world.self[k]
  BY <1>1, <1>4, <1>5 DEF SelfCandidates, Candidate, SelfPred
<1>6. StageInv
  BY <1>1 DEF StageInv
<1>7. InOrder
  <2>1. Len(<<>>) = 0
    OBVIOUS
  <2> QED  BY <1>2, <1>5, <2>1 DEF InOrder
<1>8. Origin
  BY <1>1, <1>2, <1>5 DEF Origin
<1>9. Spread
  <2>1. Roots = ElementsOf(world.self)
    BY <1>1 DEF Roots
  <2>2. ASSUME NEW r \in ElementsOf(world.self)  PROVE Waits(Norm(world.equal, r), 0)
    <3>1. PICK k \in 1..Len(world.self) : r = world.self[k]
      BY <1>3 DEF ElementsOf
    <3>2. Len(queue[k].path) <= 0 /\ queue[k].pred = r
      BY <1>4, <1>5, <3>1
    <3> QED  BY <1>4, <3>2 DEF Waits
  <2> QED  BY <1>2, <2>1, <2>2 DEF Spread, Near
<1> QED
  BY <1>2, <1>6, <1>7, <1>8, <1>9 DEF PathsInv, BreadthFirst, PathsAreShortest

\* As long as all that waits is further away than n, the candidates have what n steps imply.
LEMMA NearOnes ==
  ASSUME SearchInv, InOrder, Spread, queue # <<>>, NEW n \in Nat, n < Len(Head(queue).path),
         NEW p \in Implied(world, Roots, n)
  PROVE  \E c \in candidates["item"] : c.pred = p
<1> DEFINE F == [k \in 0..n |-> {c.pred : c \in {d \in candidates["item"] : Rank(d) <= k}}]
<1>1. /\ queue \in Seq(Pending(world, on)) /\ Len(queue) \in Nat /\ Len(queue) >= 1 /\ Head(queue) = queue[1]
      /\ candidates["item"] \subseteq Proven(world, "item")
  BY DEF SearchInv, QueueInv, SearchersInv, Searchers
<1>2. \A c \in candidates["item"] : Rank(c) \in Nat
  <2> SUFFICES ASSUME NEW c \in candidates["item"]  PROVE Len(c.path) \in Nat
    BY DEF Rank
  <2>1. c.path \in Seq(Chunks)
    BY <1>1 DEF Proven, CandidateType
  <2> QED  BY <2>1
<1>3. \A k \in 1..Len(queue) : Len(queue[k].path) \in Nat
  <2> SUFFICES ASSUME NEW k \in 1..Len(queue)  PROVE Len(queue[k].path) \in Nat
    OBVIOUS
  <2>1. queue[k] \in Pending(world, on)
    BY <1>1
  <2>2. queue[k].path \in Seq(Chunks)
    BY <2>1 DEF Pending, CandidateType
  <2> QED  BY <2>2
<1>4. ASSUME NEW q, NEW k \in 0..n  PROVE ~Waits(q, k)
  <2> SUFFICES ASSUME NEW j \in 1..Len(queue), Len(queue[j].path) <= k  PROVE FALSE
    BY DEF Waits
  <2>1. Len(queue[1].path) <= Len(queue[j].path)
    BY <1>1 DEF InOrder
  <2>2. Len(queue[1].path) \in Nat /\ Len(queue[j].path) \in Nat
    BY <1>1, <1>3
  <2> QED  BY <1>1, <2>1, <2>2
<1>5. ASSUME NEW q, NEW k \in 0..n  PROVE Near(q, k) => q \in F[k]
  BY <1>4 DEF Near, Held
<1>6. \A r \in Roots : Norm(world.equal, r) \in F[0]
  BY <1>5 DEF Spread
<1>7. ASSUME NEW k \in 0..(n - 1)  PROVE F[k] \subseteq F[k + 1] /\ ImpliedBy(world, F[k]) \subseteq F[k + 1]
  <2>1. k \in 0..n /\ k + 1 \in 0..n
    OBVIOUS
  <2>2. F[k] \subseteq F[k + 1]
    <3> SUFFICES ASSUME NEW c \in candidates["item"], Rank(c) <= k  PROVE Rank(c) <= k + 1
      BY <2>1
    <3> QED  BY <1>2
  <2>3. ASSUME NEW q \in ImpliedBy(world, F[k])  PROVE q \in F[k + 1]
    <3>1. PICK d \in F[k] : \E r \in ElementsOf(ParentPreds(world, d)) : q = Norm(world.equal, r)
      BY DEF ImpliedBy
    <3>2. PICK r \in ElementsOf(ParentPreds(world, d)) : q = Norm(world.equal, r)
      BY <3>1
    <3>3. PICK c \in candidates["item"] : Rank(c) <= k /\ c.pred = d
      BY <2>1
    <3>4. Near(q, Rank(c) + 1)
      BY <3>2, <3>3 DEF Spread
    <3>5. Rank(c) \in Nat /\ Rank(c) + 1 \in 0..n
      BY <1>2, <3>3
    <3>6. q \in F[Rank(c) + 1]
      BY <1>5, <3>4, <3>5
    <3>7. \A e \in candidates["item"] : Rank(e) <= Rank(c) + 1 => Rank(e) <= k + 1
      BY <1>2, <3>3, <3>5
    <3> QED  BY <2>1, <3>5, <3>6, <3>7
  <2> QED  BY <2>2, <2>3
<1> HIDE DEF F
<1>8. p \in F[n]
  BY <1>6, <1>7, ImpliedIn
<1> QED  BY <1>8 DEF F

LEMMA ExtendedIs ==
  ASSUME NEW c, c.path \in Seq(Chunks), NEW kind \in {"Parent", "AssocItem"}, NEW preds \in Seq(Preds)
  PROVE  LET ext == Extended(c, kind, preds)
         IN  /\ Len(ext) = Len(preds)
             /\ \A k \in 1..Len(preds) :
                  /\ ext[k].pred = preds[k] /\ ext[k].origin = c.origin
                  /\ Len(ext[k].path) = Len(c.path) + 1
                  /\ ~OfParents(c) \/ kind = "AssocItem" => ~OfParents(ext[k])
<1> DEFINE ext == Extended(c, kind, preds)
<1>1. ext = [k \in 1..Len(preds) |-> Candidate(preds[k], Append(c.path, Chunk(kind, preds[k], k - 1)), c.origin)]
  BY DEF Extended
<1>2. Len(preds) \in Nat
  OBVIOUS
<1>3. Len(ext) = Len(preds)
  BY <1>1, <1>2
<1>4. ASSUME NEW k \in 1..Len(preds)
      PROVE  /\ ext[k].pred = preds[k] /\ ext[k].origin = c.origin
             /\ Len(ext[k].path) = Len(c.path) + 1
             /\ ~OfParents(c) \/ kind = "AssocItem" => ~OfParents(ext[k])
  <2> DEFINE chunk == Chunk(kind, preds[k], k - 1)
             path == Append(c.path, chunk)
  <2>1. ext[k] = Candidate(preds[k], path, c.origin)
    BY <1>1
  <2>2. chunk \in Chunks /\ chunk.kind = kind
    <3>1. preds[k] \in Preds /\ k - 1 \in Nat
      BY <1>2
    <3> QED  BY <3>1 DEF Chunk, Chunks
  <2> HIDE DEF chunk
  <2>3. /\ Len(path) = Len(c.path) + 1 /\ Len(c.path) \in Nat /\ path[Len(c.path) + 1] = chunk
        /\ \A j \in 1..Len(c.path) : path[j] = c.path[j]
    BY <2>2
  <2> HIDE DEF path
  <2>4. ext[k].pred = preds[k] /\ ext[k].origin = c.origin /\ ext[k].path = path
    BY <2>1 DEF Candidate
  <2>5. ASSUME ~OfParents(c)  PROVE ~OfParents(ext[k])
    <3>1. PICK j \in 1..Len(c.path) : c.path[j].kind # "Parent"
      BY <2>5 DEF OfParents
    <3>2. j \in 1..Len(path) /\ path[j].kind # "Parent"
      BY <2>3, <3>1
    <3> QED  BY <2>4, <3>2 DEF OfParents
  <2>6. ASSUME kind = "AssocItem"  PROVE ~OfParents(ext[k])
    <3>1. Len(c.path) + 1 \in 1..Len(path) /\ path[Len(c.path) + 1].kind # "Parent"
      BY <2>2, <2>3, <2>6
    <3> QED  BY <2>4, <3>1 DEF OfParents
  <2> QED  BY <2>3, <2>4, <2>5, <2>6
<1> HIDE DEF ext
<1> QED  BY <1>3, <1>4 DEF ext

\* What is in the queue after a candidate is taken out of it, and its parents put in.
LEMMA QueueAfter ==
  ASSUME NEW S, NEW q \in Seq(S), q # <<>>, NEW ext \in Seq(S)
  PROVE  /\ \A k \in 1..Len(Tail(q)) : k + 1 \in 1..Len(q) /\ Tail(q)[k] = q[k + 1]
         /\ Len(Tail(q)) = Len(q) - 1 /\ Len(q) \in Nat /\ Len(q) >= 1
         /\ Len(Tail(q) \o ext) = Len(q) - 1 + Len(ext)
         /\ \A k \in 1..(Len(q) - 1) : (Tail(q) \o ext)[k] = q[k + 1]
         /\ \A k \in 1..Len(ext) : (Tail(q) \o ext)[Len(q) - 1 + k] = ext[k]
<1>1. /\ Tail(q) \in Seq(S) /\ Len(Tail(q)) = Len(q) - 1 /\ Len(q) \in Nat /\ Len(q) >= 1
      /\ \A k \in 1..(Len(q) - 1) : Tail(q)[k] = q[k + 1]
  OBVIOUS
<1> DEFINE t == Tail(q)
<1> HIDE DEF t
<1>2. t \in Seq(S) /\ Len(t) = Len(q) - 1
  BY <1>1 DEF t
<1>3. Len(t \o ext) = Len(q) - 1 + Len(ext)
  BY <1>2
<1>4. \A k \in 1..(Len(q) - 1) : (t \o ext)[k] = t[k]
  BY <1>1, <1>2
<1>5. \A k \in 1..Len(ext) : (t \o ext)[Len(q) - 1 + k] = ext[k]
  BY <1>1, <1>2
<1> QED  BY <1>1, <1>3, <1>4, <1>5 DEF t

LEMMA PathsInsert == SearchInv /\ PathsInv /\ InsertCandidate => PathsInv'
<1> SUFFICES ASSUME SearchInv, PathsInv, InsertCandidate  PROVE PathsInv'
  OBVIOUS
<1> DEFINE c == [Head(queue) EXCEPT !.pred = Norm(env[on], @)]
           preds == ParentPreds(world, c.pred)
           ext == Extended(c, "Parent", preds)
           L == Len(c.path)
           isNew == ~Known(c.pred)
<1>1. /\ queue # <<>> /\ queue \in Seq(Pending(world, on))
      /\ world \in Worlds /\ on \in Searchers /\ env[on] \in Envs(world, on)
      /\ UNCHANGED <<world, ready, env, on, goals>>
  BY DEF InsertCandidate, SearchInv, QueueInv, ContextInv, SearchersInv
<1>2. /\ candidates = [s \in Searchers |-> candidates[s]]
      /\ \A s \in Searchers : candidates[s] \subseteq Proven(world, s)
  BY DEF SearchInv, SearchersInv
<1>3. Head(queue) \in Pending(world, on) /\ Head(queue) = queue[1]
  BY <1>1
<1>4. c \in Proven(world, on) /\ c.path = queue[1].path /\ c.origin = queue[1].origin
      /\ c.pred = Norm(env[on], queue[1].pred)
  BY <1>1, <1>3, Accepted DEF Pending, CandidateType
<1>5. c.path \in Seq(Chunks) /\ L \in Nat /\ c.pred \in Preds
  BY <1>4 DEF Proven, CandidateType
<1>6. preds \in Seq(Preds) /\ Len(preds) \in Nat
  BY <1>1, <1>5, ParentsTyped
<1>7. ext \in Seq(Pending(world, on)) /\ Len(ext) = Len(preds)
      /\ \A k \in 1..Len(preds) :
           /\ ext[k].pred = preds[k] /\ ext[k].origin = c.origin
           /\ Len(ext[k].path) = L + 1 /\ (~OfParents(c) => ~OfParents(ext[k]))
  <2>1. ext \in Seq(Pending(world, on))
    BY <1>1, <1>4, ParentsFollow
  <2> HIDE DEF preds, c
  <2>2. /\ Len(ext) = Len(preds)
        /\ \A k \in 1..Len(preds) :
             /\ ext[k].pred = preds[k] /\ ext[k].origin = c.origin
             /\ Len(ext[k].path) = L + 1 /\ (~OfParents(c) => ~OfParents(ext[k]))
    BY <1>5, <1>6, ExtendedIs
  <2> QED  BY <2>1, <2>2
<1>8. \/ ~isNew /\ queue' = Tail(queue) /\ candidates' = candidates
      \/ /\ isNew
         /\ candidates' = [candidates EXCEPT ![on] = @ \cup {c}]
         /\ queue' = Tail(queue) \o ext
  BY DEF InsertCandidate
<1> DEFINE cands == candidates["item"]
           more == IF isNew THEN Len(preds) ELSE 0
<1>9. /\ Len(queue) \in Nat /\ Len(queue) >= 1 /\ Len(queue') = Len(queue) - 1 + more
      /\ \A k \in 1..(Len(queue) - 1) : queue'[k] = queue[k + 1]
      /\ \A k \in 1..more : queue'[Len(queue) - 1 + k] = ext[k]
  <2> HIDE DEF ext, preds, c, isNew
  <2>1. /\ \A k \in 1..Len(Tail(queue)) : k + 1 \in 1..Len(queue) /\ Tail(queue)[k] = queue[k + 1]
        /\ Len(Tail(queue)) = Len(queue) - 1 /\ Len(queue) \in Nat /\ Len(queue) >= 1
        /\ Len(Tail(queue) \o ext) = Len(queue) - 1 + Len(ext)
        /\ \A k \in 1..(Len(queue) - 1) : (Tail(queue) \o ext)[k] = queue[k + 1]
        /\ \A k \in 1..Len(ext) : (Tail(queue) \o ext)[Len(queue) - 1 + k] = ext[k]
    <3>1. PICK S : S = Pending(world, on)
      OBVIOUS
    <3>2. queue \in Seq(S) /\ queue # <<>> /\ ext \in Seq(S)
      BY <1>1, <1>7, <3>1
    <3> QED  BY <3>2, QueueAfter
  <2>2. CASE isNew
    <3>1. queue' = Tail(queue) \o ext /\ more = Len(ext)
      BY <1>7, <1>8, <2>2
    <3> QED  BY <2>1, <3>1
  <2>3. CASE ~isNew
    <3>1. queue' = Tail(queue) /\ more = 0
      BY <1>8, <2>3
    <3> QED  BY <2>1, <3>1
  <2> QED  BY <2>2, <2>3
<1>10. /\ on = "item" => candidates'["item"] = IF isNew THEN cands \cup {c} ELSE cands
       /\ on # "item" => candidates'["item"] = cands
  BY <1>1, <1>2, <1>8 DEF Searchers
<1> HIDE DEF c, ext, preds, isNew
<1>11. ASSUME NEW k \in 1..Len(queue')
       PROVE  \/ k \in 1..(Len(queue) - 1) /\ k + 1 \in 1..Len(queue) /\ queue'[k] = queue[k + 1]
              \/ \E j \in 1..more : k = Len(queue) - 1 + j /\ queue'[k] = ext[j]
  <2>1. CASE k \in 1..(Len(queue) - 1)
    BY <1>9, <2>1
  <2>2. CASE k \notin 1..(Len(queue) - 1)
    <3>1. more \in Nat
      BY <1>6
    <3>2. k - (Len(queue) - 1) \in 1..more /\ k = Len(queue) - 1 + (k - (Len(queue) - 1))
      BY <1>9, <2>2, <3>1
    <3> QED  BY <1>9, <3>2
  <2> QED  BY <2>1, <2>2
<1>12. \A k \in 1..more : isNew /\ k \in 1..Len(preds)
  <2>1. CASE isNew
    BY <2>1
  <2>2. CASE ~isNew
    BY <2>2
  <2> QED  BY <2>1, <2>2
<1>13. 1 \in 1..Len(queue)
  BY <1>9
<1>14. StageInv'
  <2>1. ASSUME ready, on = "item", goals # <<>>, NEW k \in 1..Len(queue')
        PROVE  ~OfParents(queue'[k])
    <3>1. \A j \in 1..Len(queue) : ~OfParents(queue[j])
      BY <2>1 DEF PathsInv, StageInv
    <3>2. ~OfParents(c)
      BY <1>4, <1>13, <3>1 DEF OfParents
    <3> QED  BY <1>7, <1>11, <1>12, <3>1, <3>2
  <2>2. (\A k \in 1..Len(queue') : ready /\ on = "item" /\ goals # <<>> => ~OfParents(queue'[k]))
    BY <2>1
  <2>3. (OfParents(queue[1]))' <=> OfParents(queue'[1])
    BY DEF OfParents
  <2> QED  BY <1>1, <2>2 DEF PathsInv, StageInv, OfParents
<1>15. ASSUME Building
       PROVE  /\ on = "item" /\ env[on] = world.equal /\ Rank(c) = L
              /\ InOrder /\ Origin /\ Spread
  <2>1. InOrder /\ Origin /\ Spread
    BY <1>15 DEF PathsInv, BreadthFirst
  <2>2. on = "item"
    BY <1>15 DEF Building, PathsInv, StageInv
  <2>3. env[on] = world.equal
    BY <1>1, <2>2 DEF Envs
  <2>4. c.origin.isSelf <=> ~ready
    BY <1>4, <1>13, <2>1 DEF Origin
  <2> QED  BY <2>1, <2>2, <2>3, <2>4 DEF Rank
<1>16. ASSUME Building'  PROVE Building
  BY <1>1, <1>16 DEF Building
<1>17. /\ UNCHANGED Roots /\ \A d : Rank(d)' = Rank(d)
  BY <1>1 DEF Roots, Rank
<1>18. \A k \in 1..Len(queue) : Len(queue[k].path) \in Nat
  <2> SUFFICES ASSUME NEW k \in 1..Len(queue)  PROVE Len(queue[k].path) \in Nat
    OBVIOUS
  <2>1. queue[k] \in Pending(world, on)
    BY <1>1
  <2>2. queue[k].path \in Seq(Chunks)
    BY <2>1 DEF Pending, CandidateType
  <2> QED  BY <2>2
<1>19. \A d \in cands : Rank(d) \in Nat
  <2> SUFFICES ASSUME NEW d \in cands  PROVE Len(d.path) \in Nat
    BY DEF Rank
  <2>1. d.path \in Seq(Chunks)
    BY <1>2 DEF Proven, CandidateType, Searchers
  <2> QED  BY <2>1
<1>20. ASSUME Building  PROVE InOrder'
  <2>1. ASSUME NEW j \in 1..Len(queue'), NEW k \in 1..Len(queue'), j <= k
        PROVE  /\ Len(queue'[j].path) <= Len(queue'[k].path)
               /\ Len(queue'[k].path) <= Len(queue'[j].path) + 1
    <3>1. \A i \in 1..Len(queue) : L <= Len(queue[i].path) /\ Len(queue[i].path) <= L + 1
      BY <1>4, <1>13, <1>15, <1>20 DEF InOrder
    <3>2. CASE j \in 1..(Len(queue) - 1) /\ k \in 1..(Len(queue) - 1)
      <4>1. /\ queue'[j] = queue[j + 1] /\ queue'[k] = queue[k + 1]
            /\ j + 1 \in 1..Len(queue) /\ k + 1 \in 1..Len(queue) /\ j + 1 <= k + 1
        BY <1>9, <2>1, <3>2
      <4> QED  BY <1>15, <1>20, <4>1 DEF InOrder
    <3>3. CASE j \in 1..(Len(queue) - 1) /\ k \notin 1..(Len(queue) - 1)
      <4>1. queue'[j] = queue[j + 1] /\ j + 1 \in 1..Len(queue)
        BY <1>9, <3>3
      <4>2. Len(queue'[k].path) = L + 1
        BY <1>7, <1>11, <1>12, <3>3
      <4> QED  BY <1>5, <1>18, <3>1, <4>1, <4>2
    <3>4. CASE j \notin 1..(Len(queue) - 1)
      <4>1. k \notin 1..(Len(queue) - 1)
        BY <1>9, <2>1, <3>4
      <4>2. Len(queue'[k].path) = L + 1
        BY <1>7, <1>11, <1>12, <4>1
      <4>3. Len(queue'[j].path) = L + 1
        BY <1>7, <1>11, <1>12, <3>4
      <4> QED  BY <1>5, <4>2, <4>3
    <3> QED  BY <3>2, <3>3, <3>4
  <2>2. ASSUME NEW d \in candidates'["item"], NEW k \in 1..Len(queue')
        PROVE  Rank(d) <= Len(queue'[k].path)
    <3>1. \A i \in 1..Len(queue) : L <= Len(queue[i].path)
      BY <1>4, <1>13, <1>15, <1>20 DEF InOrder
    <3>2. Rank(d) <= L /\ Rank(d) \in Nat
      <4>1. CASE d \in cands
        BY <1>4, <1>13, <1>15, <1>19, <1>20, <4>1 DEF InOrder
      <4>2. CASE d \notin cands
        BY <1>5, <1>10, <1>15, <1>20, <4>2
      <4> QED  BY <4>1, <4>2
    <3>3. L <= Len(queue'[k].path) /\ Len(queue'[k].path) \in Nat
      <4>1. CASE k \in 1..(Len(queue) - 1)
        <5>1. k + 1 \in 1..Len(queue) /\ queue'[k] = queue[k + 1]
          BY <1>9, <4>1
        <5> QED  BY <1>18, <3>1, <5>1
      <4>2. CASE k \notin 1..(Len(queue) - 1)
        <5>1. Len(queue'[k].path) = L + 1
          BY <1>7, <1>11, <1>12, <4>2
        <5> QED  BY <1>5, <5>1
      <4> QED  BY <4>1, <4>2
    <3> QED  BY <1>5, <3>2, <3>3
  <2> QED  BY <1>17, <2>1, <2>2 DEF InOrder
<1>21. ASSUME Building  PROVE Origin'
  <2>1. c.origin.isSelf <=> ~ready
    BY <1>4, <1>13, <1>15, <1>21 DEF Origin
  <2>2. ASSUME NEW k \in 1..Len(queue')  PROVE queue'[k].origin.isSelf <=> ~ready
    <3>1. \A j \in 1..Len(queue) : queue[j].origin.isSelf <=> ~ready
      BY <1>15, <1>21 DEF Origin
    <3>2. \A j \in 1..more : ext[j].origin = c.origin
      BY <1>7, <1>12
    <3> QED  BY <1>11, <2>1, <3>1, <3>2
  <2>3. ASSUME ~ready, NEW d \in candidates'["item"]  PROVE d.origin.isSelf
    BY <1>10, <1>15, <1>21, <2>1, <2>3 DEF Origin
  <2> QED  BY <1>1, <2>2, <2>3 DEF Origin
<1>22. ASSUME Building, NEW p, NEW n \in Nat, Near(p, n)  PROVE Near(p, n)'
  <2>1. CASE Held(p, n)
    <3>1. Held(p, n)'
      BY <1>10, <1>15, <1>17, <1>22, <2>1 DEF Held
    <3> QED  BY <3>1 DEF Near
  <2>2. ASSUME NEW k \in 1..Len(queue), Norm(world.equal, queue[k].pred) = p, Len(queue[k].path) <= n
        PROVE  Near(p, n)'
    <3>1. CASE k = 1
      <4>1. c.pred = p /\ L <= n
        BY <1>4, <1>15, <1>22, <2>2, <3>1
      <4>2. PICK d \in candidates'["item"] : d.pred = p /\ Rank(d) <= L
        <5>1. CASE isNew
          BY <1>5, <1>10, <1>15, <1>22, <4>1, <5>1
        <5>2. CASE ~isNew
          <6>1. PICK d \in cands : d.pred = c.pred
            BY <1>15, <1>22, <5>2 DEF isNew, Known
          <6>2. Rank(d) <= L
            BY <1>4, <1>13, <1>15, <1>22, <6>1 DEF InOrder
          <6> QED  BY <1>10, <1>15, <1>22, <4>1, <5>2, <6>1, <6>2
        <5> QED  BY <5>1, <5>2
      <4>3. Rank(d) <= n
        <5>1. Rank(d) \in Nat
          BY <1>5, <1>10, <1>15, <1>19, <1>22, <4>2
        <5> QED  BY <1>5, <4>1, <4>2, <5>1
      <4>4. Held(p, n)'
        BY <1>17, <4>2, <4>3 DEF Held
      <4> QED  BY <4>4 DEF Near
    <3>2. CASE k # 1
      <4>1. k - 1 \in 1..(Len(queue) - 1) /\ (k - 1) + 1 = k
        BY <1>9, <3>2
      <4>2. k - 1 \in 1..Len(queue') /\ queue'[k - 1] = queue[k]
        <5>1. more \in Nat
          BY <1>6
        <5> QED  BY <1>9, <4>1, <5>1
      <4>3. Waits(p, n)'
        BY <1>1, <2>2, <4>2 DEF Waits
      <4> QED  BY <4>3 DEF Near
    <3> QED  BY <3>1, <3>2
  <2> QED  BY <1>22, <2>1, <2>2 DEF Near, Waits
<1>23. ASSUME Building  PROVE Spread'
  <2>1. \A r \in Roots : Near(Norm(world.equal, r), 0)'
    <3>1. \A r \in Roots : Near(Norm(world.equal, r), 0)
      BY <1>15, <1>23 DEF Spread
    <3>2. \A p : Near(p, 0) => Near(p, 0)'
      BY <1>22, <1>23
    <3> QED  BY <1>1, <3>1, <3>2
  <2>2. ASSUME NEW d \in candidates'["item"], NEW r \in ElementsOf(ParentPreds(world, d.pred))
        PROVE  Near(Norm(world.equal, r), Rank(d) + 1)'
    <3>1. CASE d \in cands
      <4>1. Near(Norm(world.equal, r), Rank(d) + 1) /\ Rank(d) + 1 \in Nat
        BY <1>15, <1>19, <1>23, <2>2, <3>1 DEF Spread
      <4>2. \A p : Near(p, Rank(d) + 1) => Near(p, Rank(d) + 1)'
        BY <1>17, <1>22, <1>23, <4>1
      <4> QED  BY <1>1, <4>1, <4>2
    <3>2. CASE d \notin cands
      <4>1. d = c /\ isNew
        BY <1>10, <1>15, <1>23, <3>2
      <4>2. PICK k \in 1..Len(preds) : r = preds[k]
        BY <1>6, <2>2, <4>1 DEF preds, ElementsOf
      <4>3. Len(queue) - 1 + k \in 1..Len(queue') /\ queue'[Len(queue) - 1 + k] = ext[k]
        BY <1>6, <1>9, <4>1, <4>2
      <4>4. ext[k].pred = r /\ Len(ext[k].path) = L + 1 /\ Rank(d) = L
        BY <1>7, <1>15, <1>23, <4>1, <4>2
      <4>5. Len(ext[k].path) <= Rank(d) + 1
        BY <1>5, <4>4
      <4>6. Waits(Norm(world.equal, r), Rank(d) + 1)'
        BY <1>1, <1>17, <4>3, <4>4, <4>5 DEF Waits
      <4> QED  BY <4>6 DEF Near
    <3> QED  BY <3>1, <3>2
  <2> QED  BY <1>1, <1>17, <2>1, <2>2 DEF Spread
<1>24. PathsAreShortest'
  <2> SUFFICES ASSUME NEW d \in candidates'["item"], d.path # <<>>,
                      \A k \in 1..Len(d.path) : d.path[k].kind = "Parent"
               PROVE  d.pred \notin Implied(world, IF d.origin.isSelf THEN ElementsOf(world.self)
                                   ELSE ElementsOf(world.self) \cup ElementsOf(world.clauses), Len(d.path) - 1)
    BY <1>1 DEF PathsAreShortest
  <2>1. CASE d \in cands
    BY <2>1 DEF PathsInv, PathsAreShortest
  <2>2. CASE d \notin cands
    <3>1. d = c /\ isNew /\ on = "item"
      BY <1>10, <2>2
    <3>2. goals = <<>>
      <4> SUFFICES ASSUME goals # <<>>  PROVE FALSE
        OBVIOUS
      <4>1. ready
        BY DEF PathsInv, StageInv
      <4>2. ~OfParents(queue[1])
        BY <1>13, <3>1, <4>1 DEF PathsInv, StageInv
      <4>3. OfParents(c)
        BY <3>1 DEF OfParents
      <4> QED  BY <1>4, <4>2, <4>3 DEF OfParents
    <3>3. Building
      BY <1>1, <3>2 DEF Building
    <3>4. L - 1 \in Nat /\ L - 1 < L
      BY <1>5, <3>1
    <3>5. Roots = IF c.origin.isSelf THEN ElementsOf(world.self)
                  ELSE ElementsOf(world.self) \cup ElementsOf(world.clauses)
      BY <1>4, <1>13, <1>15, <3>3 DEF Roots, Origin
    <3>6. c.pred \notin Implied(world, Roots, L - 1)
      <4>1. L = Len(Head(queue).path)
        BY <1>3, <1>4
      <4> SUFFICES ASSUME c.pred \in Implied(world, Roots, L - 1)  PROVE FALSE
        OBVIOUS
      <4>2. \E e \in candidates["item"] : e.pred = c.pred
        BY <1>1, <1>15, <3>3, <3>4, <4>1, NearOnes
      <4> QED  BY <3>1, <4>2 DEF isNew, Known
    <3> QED  BY <3>1, <3>5, <3>6
  <2> QED  BY <2>1, <2>2
<1> QED
  BY <1>14, <1>16, <1>20, <1>21, <1>23, <1>24 DEF PathsInv, BreadthFirst

LEMMA PathsBounds == SearchInv /\ PathsInv /\ InsertBounds => PathsInv'
<1> SUFFICES ASSUME SearchInv, PathsInv, InsertBounds  PROVE PathsInv'
  OBVIOUS
<1>1. /\ ~ready /\ queue = <<>> /\ ready' = TRUE /\ queue' = BoundCandidates(world.clauses, 0)
      /\ UNCHANGED <<world, candidates, on, goals>> /\ world \in Worlds
  BY DEF InsertBounds, SearchInv, ContextInv
<1>2. world.clauses \in Seq(Preds) /\ Len(world.clauses) \in Nat
  BY <1>1, SearchAssumption
<1>3. /\ Len(queue') = Len(world.clauses)
      /\ \A k \in 1..Len(queue') :
           queue'[k].pred = world.clauses[k] /\ queue'[k].path = <<>> /\ ~queue'[k].origin.isSelf
  BY <1>1, <1>2 DEF BoundCandidates, Candidate, Item
<1>4. Len(queue) = 0 /\ Len(<<>>) = 0
  BY <1>1
<1>5. Origin /\ Spread /\ goals = <<>> /\ on = "item"
  BY <1>1 DEF PathsInv, BreadthFirst, StageInv, Building
<1>6. StageInv'
  BY <1>1, <1>5 DEF StageInv
<1>7. \A d \in candidates["item"] : d.origin.isSelf /\ Rank(d)' = 0
  BY <1>1, <1>5 DEF Origin, Rank
<1>8. InOrder'
  BY <1>1, <1>3, <1>4, <1>7 DEF InOrder
<1>9. Origin'
  BY <1>1, <1>3 DEF Origin
<1>10. ASSUME NEW p, NEW n, Near(p, n), NEW m \in Nat  PROVE Near(p, m)'
  <2>1. PICK d \in candidates["item"] : d.pred = p
    BY <1>4, <1>10 DEF Near, Held, Waits
  <2>2. Held(p, m)'
    BY <1>1, <1>7, <2>1 DEF Held
  <2> QED  BY <2>2 DEF Near
<1>11. Spread'
  <2>1. ASSUME NEW r \in ElementsOf(world.self)  PROVE Near(Norm(world.equal, r), 0)'
    <3>1. Near(Norm(world.equal, r), 0)
      BY <1>1, <1>5 DEF Spread, Roots
    <3>2. \A p : Near(p, 0) => Near(p, 0)'
      BY <1>10
    <3> QED  BY <1>1, <3>1, <3>2
  <2>2. ASSUME NEW r \in ElementsOf(world.clauses)  PROVE Near(Norm(world.equal, r), 0)'
    <3>1. PICK k \in 1..Len(world.clauses) : r = world.clauses[k]
      BY <1>2 DEF ElementsOf
    <3>2. k \in 1..Len(queue') /\ queue'[k].pred = r /\ Len(queue'[k].path) <= 0
      BY <1>3, <1>4, <3>1
    <3>3. Waits(Norm(world.equal, r), 0)'
      BY <1>1, <3>2 DEF Waits
    <3> QED  BY <3>3 DEF Near
  <2>3. ASSUME NEW d \in candidates["item"], NEW r \in ElementsOf(ParentPreds(world, d.pred))
        PROVE  Near(Norm(world.equal, r), Rank(d) + 1)'
    <3>1. Near(Norm(world.equal, r), Rank(d) + 1)
      BY <1>5 DEF Spread
    <3>2. \A p : Near(p, Rank(d) + 1) => Near(p, 0 + 1)'
      BY <1>10
    <3> QED  BY <1>1, <1>7, <3>1, <3>2
  <2>4. Roots' = ElementsOf(world.self) \cup ElementsOf(world.clauses)
    BY <1>1 DEF Roots
  <2> QED  BY <1>1, <2>1, <2>2, <2>3, <2>4 DEF Spread
<1>12. PathsAreShortest'
  BY <1>1 DEF PathsInv, PathsAreShortest
<1> QED  BY <1>6, <1>8, <1>9, <1>11, <1>12 DEF PathsInv, BreadthFirst

\* Once the item's searcher is built, whatever joins its candidates comes from a bound.
LEMMA PathsStay ==
  ASSUME PathsInv, ready, UNCHANGED <<world, ready>>, candidates'["item"] = candidates["item"],
         queue' = <<>> \/ goals' # <<>>,
         on' = "item" => \A k \in 1..Len(queue') : ~OfParents(queue'[k])
  PROVE  PathsInv'
<1>1. PathsAreShortest'
  BY DEF PathsInv, PathsAreShortest
<1>2. ~Building'
  BY DEF Building
<1>3. StageInv'
  <2>1. on' = "item" => \A k \in 1..Len(queue') : ~OfParents(queue[k])'
    BY DEF OfParents
  <2> QED  BY <2>1 DEF StageInv, OfParents
<1> QED  BY <1>1, <1>2, <1>3 DEF PathsInv, BreadthFirst

LEMMA PathsAsk ==
  SearchInv /\ PathsInv /\ (\E p \in world.asks \cup world.dynAsks : Ask(p) \/ AskDyn(p)) => PathsInv'
<1> SUFFICES ASSUME PathsInv, NEW p, Ask(p) \/ AskDyn(p)  PROVE PathsInv'
  OBVIOUS
<1>1. /\ ready /\ queue = <<>> /\ UNCHANGED <<world, ready, candidates, queue>>
  BY DEF Ask, AskDyn, Idle
<1>2. \A k \in 1..Len(queue') : ~OfParents(queue'[k])
  BY <1>1
<1> QED  BY <1>1, <1>2, PathsStay

LEMMA PathsEnterDyn == SearchInv /\ PathsInv /\ EnterDyn => PathsInv'
<1> SUFFICES ASSUME SearchInv, PathsInv, EnterDyn  PROVE PathsInv'
  OBVIOUS
<1>1. /\ ready /\ UNCHANGED <<world, ready>> /\ on' = "dyn"
      /\ candidates' = [candidates EXCEPT !["dyn"] = candidates["item"]]
      /\ goals' = <<Goal("param_env", world.dyn[1])>>
  BY DEF EnterDyn, Idle
<1>2. candidates = [s \in Searchers |-> candidates[s]]
  BY DEF SearchInv, SearchersInv
<1>3. candidates'["item"] = candidates["item"] /\ goals' # <<>>
  BY <1>1, <1>2 DEF Searchers
<1> QED  BY <1>1, <1>3, PathsStay

LEMMA PathsSearch ==
  SearchInv /\ PathsInv /\ (SetParamEnv \/ ResolveGoal \/ Find \/ FindAgain \/ AnswerGoal) => PathsInv'
<1> SUFFICES ASSUME PathsInv, SetParamEnv \/ ResolveGoal \/ Find \/ FindAgain \/ AnswerGoal  PROVE PathsInv'
  OBVIOUS
<1>1. queue = <<>> /\ goals # <<>> /\ UNCHANGED <<world, ready, candidates, queue>>
  BY DEF SetParamEnv, ResolveGoal, Find, FindAgain, AnswerGoal, Doing
<1>2. ready
  BY <1>1 DEF PathsInv, StageInv
<1>3. \A k \in 1..Len(queue') : ~OfParents(queue'[k])
  BY <1>1
<1> QED  BY <1>1, <1>2, <1>3, PathsStay

LEMMA PathsAddBounds == SearchInv /\ PathsInv /\ AddBounds => PathsInv'
<1> SUFFICES ASSUME SearchInv, PathsInv, AddBounds  PROVE PathsInv'
  OBVIOUS
<1> DEFINE p == Head(goals).pred
           preds == ItemBounds(world, p.ty)
<1>1. /\ goals # <<>> /\ Head(goals).do = "add" /\ UNCHANGED <<world, ready, candidates>>
      /\ queue' = IF found.some THEN Extended(found.value, "AssocItem", preds) ELSE <<>>
      /\ goals' = <<Goal("again", p)>> \o Tail(goals) /\ world \in Worlds
  BY DEF AddBounds, Doing, SearchInv, ContextInv
<1>2. ready
  BY <1>1 DEF PathsInv, StageInv
<1>3. goals \in Stacks(on) /\ Head(goals) \in GoalType /\ Sound(on, Head(goals)) /\ Tail(goals) \in Stacks(on)
  BY <1>1, Popped DEF SearchInv, CallsInv
<1>4. goals' # <<>>
  <2>1. Tail(goals) \in Seq(GoalType)
    BY <1>3 DEF Stacks
  <2> QED  BY <1>1, <2>1
<1>5. preds \in Seq(Preds)
  BY <1>1, <1>3, BoundsTyped DEF GoalType, Preds, Sound
<1> HIDE DEF preds, p
<1>6. ASSUME NEW k \in 1..Len(queue')  PROVE ~OfParents(queue'[k])
  <2>1. CASE found.some
    <3>1. found.value \in Proven(world, on)
      BY <1>1, <2>1 DEF SearchInv, ReturnInv
    <3>2. found.value.path \in Seq(Chunks)
      BY <3>1 DEF Proven, CandidateType
    <3> QED  BY <1>1, <1>5, <2>1, <3>2, ExtendedIs
  <2>2. CASE ~found.some
    BY <1>1, <2>2
  <2> QED  BY <2>1, <2>2
<1> QED  BY <1>1, <1>2, <1>4, <1>6, PathsStay

LEMMA PathsStutter == PathsInv /\ UNCHANGED searchVars => PathsInv'
<1> SUFFICES ASSUME PathsInv, UNCHANGED searchVars  PROVE PathsInv'
  OBVIOUS
<1>1. UNCHANGED <<world, ready, candidates, queue, on, goals>>
  BY DEF searchVars
<1>2. StageInv'
  BY <1>1 DEF PathsInv, StageInv, OfParents
<1>3. PathsAreShortest'
  BY <1>1 DEF PathsInv, PathsAreShortest
<1>4. UNCHANGED <<Building, Roots, InOrder, Origin>>
  BY <1>1 DEF Building, Roots, InOrder, Origin, Rank
<1>5. \A q, n : Near(q, n)' <=> Near(q, n)
  BY <1>1 DEF Near, Held, Waits, Rank
<1>6. \A d : Rank(d)' = Rank(d)
  BY <1>1 DEF Rank
<1>7. Spread => Spread'
  BY <1>1, <1>4, <1>5, <1>6 DEF Spread
<1> QED  BY <1>2, <1>3, <1>4, <1>7 DEF PathsInv, BreadthFirst

\* The invariant of the breadth-first search.
THEOREM PathsInvariant == SearchSpec => []PathsInv
<1>1. SearchInv /\ PathsInv /\ [SearchNext]_searchVars => PathsInv'
  BY PathsInsert, PathsBounds, PathsAsk, PathsEnterDyn, PathsSearch, PathsAddBounds, PathsStutter
  DEF SearchNext, Search
<1> QED  BY <1>1, PathsInit, SearchInvariant, PTL DEF SearchSpec

-------------------------------------------------------------------------------
(* Bounds.  The candidates of the item are closed under what traits imply, *)
(* so that once the bounds of an associated type are in, whatever follows  *)
(* from them on this type is; and the trait reference they need is found   *)
(* first, by the call that waits for it.                                   *)

\* The predicates that 0, 1, ... n steps through bounds and traits give.
DirectSteps(w, base, n, f) ==
  f = [k \in 0..n |-> IF k = 0 THEN base ELSE f[k - 1] \cup OnBounds(w, f[k - 1])]

LEMMA DirectExists ==
  ASSUME NEW w, NEW base, NEW n \in Nat
  PROVE  \E f : DirectSteps(w, base, n, f)
<1> DEFINE Bad == {m \in Nat : ~\E f : DirectSteps(w, base, m, f)}
<1>1. ASSUME Bad # {}  PROVE FALSE
  <2>1. PICK m \in Bad : \A k \in Bad : m <= k
    <3>1. Bad \subseteq Nat
      OBVIOUS
    <3> HIDE DEF Bad
    <3> QED  BY <1>1, <3>1, LeastNumber
  <2>2. m \in Nat /\ ~\E f : DirectSteps(w, base, m, f)
    BY <2>1
  <2>3. CASE m = 0
    <3>1. PICK g : g = [k \in 0..m |-> base]
      OBVIOUS
    <3>2. DirectSteps(w, base, m, g)
      BY <2>3, <3>1 DEF DirectSteps
    <3> QED  BY <2>2, <3>2
  <2>4. CASE m # 0
    <3>1. m - 1 \in Nat /\ m - 1 \notin Bad
      BY <2>1, <2>2, <2>4
    <3>2. PICK f : DirectSteps(w, base, m - 1, f)
      BY <3>1
    <3>3. PICK g : g = [k \in 0..m |-> IF k = m THEN f[m - 1] \cup OnBounds(w, f[m - 1]) ELSE f[k]]
      OBVIOUS
    <3>4. ASSUME NEW k \in 0..m
          PROVE  g[k] = IF k = 0 THEN base ELSE g[k - 1] \cup OnBounds(w, g[k - 1])
      <4>1. CASE k = m
        <5>1. g[k - 1] = f[m - 1]
          BY <2>2, <2>4, <3>3, <4>1
        <5> QED  BY <2>4, <3>3, <4>1, <5>1
      <4>2. CASE k # m
        <5>1. k \in 0..(m - 1)
          BY <2>2, <4>2
        <5>2. f[k] = IF k = 0 THEN base ELSE f[k - 1] \cup OnBounds(w, f[k - 1])
          BY <3>2, <5>1 DEF DirectSteps
        <5>3. g[k] = f[k] /\ (k # 0 => g[k - 1] = f[k - 1])
          BY <2>2, <3>3, <4>2, <5>1
        <5> QED  BY <5>2, <5>3
      <4> QED  BY <4>1, <4>2
    <3>5. DirectSteps(w, base, m, g)
      BY <3>3, <3>4 DEF DirectSteps
    <3> QED  BY <2>2, <3>5
  <2> QED  BY <2>3, <2>4
<1> QED  BY <1>1

\* What holds of the predicates that are implied, and of what a bound or a trait gives of
\* one it holds of, holds of all that are given.
LEMMA DirectIn ==
  ASSUME NEW w, NEW n \in Nat, NEW G,
         Implied(w, ElementsOf(w.self) \cup ElementsOf(w.clauses), n) \subseteq G,
         \A p \in G \cap Direct(w, n) : OnBounds(w, {p}) \subseteq G
  PROVE  Direct(w, n) \subseteq G
<1> DEFINE base == Implied(w, ElementsOf(w.self) \cup ElementsOf(w.clauses), n)
           f == CHOOSE f : DirectSteps(w, base, n, f)
<1>1. DirectSteps(w, base, n, f)
  BY DirectExists
<1>2. Direct(w, n) = f[n]
  BY DEF Direct, DirectSteps
<1>3. base \subseteq G
  OBVIOUS
<1> HIDE DEF f, base
<1>4. \A k \in 0..n : f[k] = IF k = 0 THEN base ELSE f[k - 1] \cup OnBounds(w, f[k - 1])
  BY <1>1 DEF DirectSteps
<1>5. \A k \in 0..n : f[k] \subseteq f[n]
  <2> DEFINE Bad == {m \in Nat : m <= n /\ ~(f[n - m] \subseteq f[n])}
  <2>1. ASSUME Bad # {}  PROVE FALSE
    <3>1. PICK m \in Bad : \A k \in Bad : m <= k
      <4>1. Bad \subseteq Nat
        OBVIOUS
      <4> HIDE DEF Bad
      <4> QED  BY <2>1, <4>1, LeastNumber
    <3>2. m \in Nat /\ m <= n /\ ~(f[n - m] \subseteq f[n])
      BY <3>1
    <3>3. m # 0
      BY <3>2
    <3>4. m - 1 \in Nat /\ m - 1 \notin Bad /\ m - 1 <= n
      BY <3>1, <3>2, <3>3
    <3>5. n - m \in 0..n /\ n - (m - 1) \in 0..n /\ n - (m - 1) # 0 /\ (n - (m - 1)) - 1 = n - m
      BY <3>2, <3>3
    <3>6. f[n - m] \subseteq f[n - (m - 1)]
      BY <1>4, <3>5
    <3> QED  BY <3>2, <3>4, <3>6
  <2>2. ASSUME NEW k \in 0..n  PROVE f[k] \subseteq f[n]
    <3>1. n - k \in Nat /\ n - k <= n /\ n - (n - k) = k
      OBVIOUS
    <3>2. n - k \notin Bad
      BY <2>1
    <3> QED  BY <3>1, <3>2
  <2> QED  BY <2>2
<1> DEFINE Bad == {k \in 0..n : ~(f[k] \subseteq G)}
<1>6. ASSUME Bad # {}  PROVE FALSE
  <2>1. PICK m \in Bad : \A k \in Bad : m <= k
    <3>1. Bad \subseteq Nat
      OBVIOUS
    <3> HIDE DEF Bad
    <3> QED  BY <1>6, <3>1, LeastNumber
  <2>2. m \in 0..n /\ ~(f[m] \subseteq G)
    BY <2>1
  <2>3. m # 0
    BY <1>3, <1>4, <2>2
  <2>4. m - 1 \in 0..n /\ m - 1 \notin Bad
    BY <2>1, <2>2, <2>3
  <2>5. f[m - 1] \subseteq G /\ f[m - 1] \subseteq Direct(w, n)
    BY <1>2, <1>5, <2>4
  <2>6. ASSUME NEW q \in OnBounds(w, f[m - 1])  PROVE q \in G
    <3>1. PICK d \in f[m - 1] : q \in OnBounds(w, {d})
      BY DEF OnBounds
    <3> QED  BY <2>5, <3>1
  <2>7. f[m] = f[m - 1] \cup OnBounds(w, f[m - 1])
    BY <1>4, <2>2, <2>3
  <2> QED  BY <2>2, <2>5, <2>6, <2>7
<1>7. f[n] \subseteq G
  BY <1>6
<1> QED  BY <1>2, <1>7

\* A projection of the type of a predicate has this predicate for its trait reference.
LEMMA ProjectedBack ==
  ASSUME NEW p \in Preds, NEW a \in Assocs, OwnerOf[a] = p.trait
  PROVE  LET ty == Projected(p.ty, <<a>>)
         IN  /\ ty \in Types /\ IsProjection(ty) /\ TraitRef(ty) = p
             /\ Len(ty.path) = Len(p.ty.path) + 1 /\ Len(p.ty.path) \in Nat
<1> DEFINE ty == Projected(p.ty, <<a>>)
           n == Len(p.ty.path)
<1>1. p = [ty |-> p.ty, trait |-> p.trait] /\ p.ty \in Types
  BY DEF Preds
<1>2. p.ty = [root |-> p.ty.root, path |-> p.ty.path] /\ p.ty.path \in Seq(Assocs) /\ n \in Nat
  BY <1>1 DEF Types
<1>3. ty = [root |-> p.ty.root, path |-> p.ty.path \o <<a>>] /\ ty \in Types
  <2>1. <<a>> \in Seq(Assocs)
    OBVIOUS
  <2> QED  BY <1>1, <2>1, ProjectedTyped DEF Projected
<1>4. /\ p.ty.path \o <<a>> \in Seq(Assocs) /\ Len(p.ty.path \o <<a>>) = n + 1
      /\ (p.ty.path \o <<a>>)[n + 1] = a
      /\ \A k \in 1..n : (p.ty.path \o <<a>>)[k] = p.ty.path[k]
  BY <1>2
<1> DEFINE path == p.ty.path \o <<a>>
<1> HIDE DEF path
<1>5. path \in Seq(Assocs) /\ Len(path) = n + 1 /\ path[n + 1] = a
      /\ \A k \in 1..n : path[k] = p.ty.path[k]
  BY <1>4 DEF path
<1>6. SubSeq(path, 1, n) = p.ty.path
  <2>1. SubSeq(path, 1, n) \in Seq(Assocs) /\ Len(SubSeq(path, 1, n)) = n
        /\ \A k \in 1..n : SubSeq(path, 1, n)[k] = path[k]
    BY <1>2, <1>5
  <2> QED  BY <1>2, <1>5, <2>1
<1>7. ty.path = path /\ ty.root = p.ty.root
  BY <1>3 DEF path
<1>8. IsProjection(ty)
  BY <1>2, <1>5, <1>7 DEF IsProjection
<1>9. [ty EXCEPT !.path = SubSeq(@, 1, Len(@) - 1)] = p.ty
  <2>1. SubSeq(ty.path, 1, Len(ty.path) - 1) = p.ty.path
    BY <1>2, <1>5, <1>6, <1>7
  <2>2. ty = [root |-> p.ty.root, path |-> path]
    BY <1>3 DEF path
  <2> HIDE DEF ty
  <2>3. [ty EXCEPT !.path = SubSeq(@, 1, Len(@) - 1)] = [root |-> p.ty.root, path |-> p.ty.path]
    BY <2>1, <2>2
  <2> QED  BY <1>2, <2>3
<1>10. TraitRef(ty) = p
  BY <1>1, <1>2, <1>5, <1>7, <1>9 DEF TraitRef, Pred
<1> QED  BY <1>2, <1>3, <1>5, <1>7, <1>8, <1>10

LEMMA BoundOnType ==
  ASSUME NEW w \in Worlds, NEW ty \in Types, IsProjection(ty), NEW q \in ElementsOf(ItemBounds(w, ty)),
         Len(q.ty.path) = Len(ty.path)
  PROVE  q \in Preds /\ q.ty = ty
<1> DEFINE clauses == w.bounds[ty.path[Len(ty.path)]]
<1>1. clauses \in Seq(Clauses)
  BY ProjectionSplit, SearchAssumption
<1>2. ItemBounds(w, ty) = [k \in 1..Len(clauses) |-> Pred(Projected(ty, clauses[k].of), clauses[k].trait)]
  BY DEF ItemBounds, Instances
<1> HIDE DEF clauses
<1>3. PICK k \in 1..Len(clauses) : q = Pred(Projected(ty, clauses[k].of), clauses[k].trait)
  BY <1>2 DEF ElementsOf
<1>4. clauses[k].of \in Seq(Assocs) /\ clauses[k].trait \in Traits
  <2>1. clauses[k] \in Clauses
    BY <1>1
  <2> QED  BY <2>1 DEF Clauses
<1>5. PICK of \in Seq(Assocs) : of = clauses[k].of
  BY <1>4
<1>6. q.ty = [root |-> ty.root, path |-> ty.path \o of]
  BY <1>3, <1>5 DEF Pred, Projected
<1>7. ty = [root |-> ty.root, path |-> ty.path] /\ ty.path \in Seq(Assocs)
  BY DEF Types
<1>8. Len(of) = 0
  <2>1. Len(ty.path \o of) = Len(ty.path) + Len(of) /\ Len(ty.path) \in Nat /\ Len(of) \in Nat
    BY <1>7
  <2> QED  BY <1>6, <2>1
<1>9. ty.path \o of = ty.path
  <2>1. of = <<>>
    BY <1>8
  <2> QED  BY <1>7, <2>1
<1>10. q.ty = ty
  BY <1>6, <1>7, <1>9
<1> QED  BY <1>3, <1>4, <1>10 DEF Pred, Preds

\* Among the candidates, or on the way to them.
Has(p) == \E c \in candidates["item"] : c.pred = p
Comes(p) == Has(p) \/ (on = "item" /\ \E k \in 1..Len(queue) : Norm(world.equal, queue[k].pred) = p)

Closed ==
  /\ \A r \in Roots : Comes(Norm(world.equal, r))
  /\ \A c \in candidates["item"] : \A r \in ElementsOf(ParentPreds(world, c.pred)) : Comes(Norm(world.equal, r))

\* The bounds of the associated type a projection ends with.
BoundsCome(ty) == \A r \in ElementsOf(ItemBounds(world, ty)) : Comes(Norm(world.equal, r))

\* What a call that waits for a predicate of Direct, or has just added bounds, can count on.
CallsServed(n) ==
  on = "item" /\ goals # <<>> =>
    LET g == Head(goals)
    IN  /\ g.do \in {"add", "answer"} /\ Awaited(g) \in Direct(world, n) => found.some
        /\ g.do = "again" /\ TraitRef(g.pred.ty) \in Direct(world, n) => BoundsCome(g.pred.ty)

BoundsFound(n) == \A a \in answers : a.on = "item" /\ a.pred \in Direct(world, n) => a.atom.kind # "error"

BoundsInv(n) == Closed /\ CallsServed(n) /\ BoundsFound(n)

\* With nothing on the way, what the clauses imply is there.
LEMMA ImpliedThere ==
  ASSUME SearchInv, Closed, ready, queue = <<>>, NEW n \in Nat,
         NEW p \in Implied(world, ElementsOf(world.self) \cup ElementsOf(world.clauses), n)
  PROVE  Has(p)
<1> DEFINE preds == {c.pred : c \in candidates["item"]}
           F == [k \in 0..n |-> preds]
<1>1. \A q : Comes(q) => q \in preds
  BY DEF Comes, Has
<1>2. \A r \in ElementsOf(world.self) \cup ElementsOf(world.clauses) : Norm(world.equal, r) \in F[0]
  BY <1>1 DEF Closed, Roots
<1>3. ImpliedBy(world, preds) \subseteq preds
  BY <1>1 DEF Closed, ImpliedBy
<1>4. \A k \in 0..(n - 1) : F[k] \subseteq F[k + 1] /\ ImpliedBy(world, F[k]) \subseteq F[k + 1]
  BY <1>3
<1> HIDE DEF F
<1>5. p \in F[n]
  BY <1>2, <1>4, ImpliedIn
<1> QED  BY <1>5 DEF F, Has

\* What a predicate of Direct needs to be there: nothing, or the bounds on its type.
LEMMA DirectSplit ==
  ASSUME SearchInv, Closed, ready, queue = <<>>, NEW n \in Nat, NEW p \in Direct(world, n)
  PROVE  \/ Has(p)
         \/ /\ p.ty \in Types /\ IsProjection(p.ty) /\ TraitRef(p.ty) \in Direct(world, n)
            /\ BoundsCome(p.ty) => Has(p)
<1> DEFINE Good(q) ==
             /\ q \in Preds
             /\ \/ Has(q)
                \/ /\ IsProjection(q.ty) /\ TraitRef(q.ty) \in Direct(world, n)
                   /\ BoundsCome(q.ty) => Has(q)
           G == {q \in Preds : Good(q)}
<1>1. world \in Worlds /\ candidates["item"] \subseteq Proven(world, "item")
  BY DEF SearchInv, ContextInv, SearchersInv, Searchers
<1>2. \A q : Has(q) => q \in G
  BY <1>1 DEF Has, Proven, CandidateType
<1>3. \A q : Comes(q) => Has(q)
  BY DEF Comes
<1>4. Implied(world, ElementsOf(world.self) \cup ElementsOf(world.clauses), n) \subseteq G
  BY <1>2, ImpliedThere
<1>5. ASSUME NEW d \in G \cap Direct(world, n), NEW q \in OnBounds(world, {d})
      PROVE  q \in G
  <2>1. d \in Preds /\ Good(d) /\ Norm(world.equal, q) = q
        /\ (q \in OnProjections(world, d) \/ q \in OnSameType(world, d))
    BY DEF OnBounds
  <2>2. CASE q \in OnProjections(world, d)
    <3>1. PICK a \in Assocs : /\ OwnerOf[a] = d.trait
                              /\ q \in ElementsOf(ItemBounds(world, Projected(d.ty, <<a>>)))
                              /\ Len(q.ty.path) = Len(d.ty.path) + 1
      BY <2>2 DEF OnProjections
    <3> DEFINE ty == Projected(d.ty, <<a>>)
    <3>2. ty \in Types /\ IsProjection(ty) /\ TraitRef(ty) = d /\ Len(ty.path) = Len(q.ty.path)
      BY <2>1, <3>1, ProjectedBack
    <3> HIDE DEF ty
    <3>3. q \in ElementsOf(ItemBounds(world, ty))
      BY <3>1 DEF ty
    <3>4. q \in Preds /\ q.ty = ty
      BY <1>1, <3>2, <3>3, BoundOnType
    <3>5. BoundsCome(q.ty) => Has(q)
      BY <1>3, <2>1, <3>3, <3>4 DEF BoundsCome
    <3> QED  BY <3>2, <3>4, <3>5
  <2>3. CASE q \in OnSameType(world, d)
    <3>1. q \in ElementsOf(ParentPreds(world, d)) /\ q.ty = d.ty
      BY <2>3 DEF OnSameType
    <3>2. q \in Preds
      <4>1. ParentPreds(world, d) \in Seq(Preds)
        BY <1>1, <2>1, ParentsTyped
      <4> QED  BY <3>1, <4>1 DEF ElementsOf
    <3>3. Has(d) => Has(q)
      BY <1>3, <2>1, <3>1 DEF Closed, Has
    <3> QED  BY <1>2, <2>1, <3>1, <3>2, <3>3
  <2> QED  BY <2>1, <2>2, <2>3
<1> HIDE DEF G
<1>6. Direct(world, n) \subseteq G
  BY <1>4, <1>5, DirectIn
<1>7. Good(p)
  BY <1>6 DEF G
<1> QED  BY <1>7 DEF Preds

LEMMA BoundsInit ==
  ASSUME SearchInit, NEW n \in Nat
  PROVE  BoundsInv(n)
<1>1. /\ world \in Worlds /\ ~ready /\ candidates = [s \in Searchers |-> {}]
      /\ queue = SelfCandidates /\ on = "item" /\ goals = <<>> /\ answers = {}
  BY DEF SearchInit
<1>2. candidates["item"] = {}
  BY <1>1 DEF Searchers
<1>3. world.self \in Seq(Preds) /\ Len(world.self) \in Nat /\ DOMAIN world.self = 1..Len(world.self)
  BY <1>1, SearchAssumption
<1>4. Len(queue) = Len(world.self) /\ \A k \in 1..Len(queue) : queue[k].pred = world.self[k]
  BY <1>1, <1>3 DEF SelfCandidates, Candidate
<1>5. Roots = ElementsOf(world.self)
  BY <1>1 DEF Roots
<1>6. ASSUME NEW r \in ElementsOf(world.self)  PROVE Comes(Norm(world.equal, r))
  <2>1. PICK k \in 1..Len(queue) : queue[k].pred = r
    BY <1>3, <1>4 DEF ElementsOf
  <2> QED  BY <1>1, <2>1 DEF Comes
<1> QED  BY <1>1, <1>2, <1>5, <1>6 DEF BoundsInv, Closed, CallsServed, BoundsFound

\* What comes still comes, and nothing else changes.
LEMMA ClosedStays ==
  ASSUME Closed, UNCHANGED <<world, ready>>, candidates'["item"] = candidates["item"],
         \A p : Comes(p) => Comes(p)'
  PROVE  Closed'
<1>1. UNCHANGED Roots
  BY DEF Roots
<1> QED  BY <1>1 DEF Closed

LEMMA BoundsInsert ==
  ASSUME SearchInv, NEW n \in Nat, BoundsInv(n), InsertCandidate
  PROVE  BoundsInv(n)'
<1> DEFINE c == [Head(queue) EXCEPT !.pred = Norm(env[on], @)]
           preds == ParentPreds(world, c.pred)
           ext == Extended(c, "Parent", preds)
           isNew == ~Known(c.pred)
<1>1. /\ queue # <<>> /\ queue \in Seq(Pending(world, on))
      /\ world \in Worlds /\ on \in Searchers /\ env[on] \in Envs(world, on)
      /\ UNCHANGED <<world, ready, env, on, goals, found, answers>>
  BY DEF InsertCandidate, SearchInv, QueueInv, ContextInv, SearchersInv
<1>2. candidates = [s \in Searchers |-> candidates[s]]
  BY DEF SearchInv, SearchersInv
<1>3. Head(queue) \in Pending(world, on) /\ Head(queue) = queue[1] /\ Len(queue) \in Nat
  BY <1>1
<1>4. c \in Proven(world, on) /\ c.pred = Norm(env[on], queue[1].pred)
  BY <1>1, <1>3, Accepted DEF Pending, CandidateType
<1>5. c.path \in Seq(Chunks) /\ c.pred \in Preds
  BY <1>4 DEF Proven, CandidateType
<1>6. preds \in Seq(Preds) /\ Len(preds) \in Nat
  BY <1>1, <1>5, ParentsTyped
<1>7. ext \in Seq(Pending(world, on)) /\ Len(ext) = Len(preds)
      /\ \A k \in 1..Len(preds) : ext[k].pred = preds[k]
  <2>1. ext \in Seq(Pending(world, on))
    BY <1>1, <1>4, ParentsFollow
  <2> HIDE DEF preds, c
  <2>2. Len(ext) = Len(preds) /\ \A k \in 1..Len(preds) : ext[k].pred = preds[k]
    BY <1>5, <1>6, ExtendedIs
  <2> QED  BY <2>1, <2>2
<1>8. \/ ~isNew /\ queue' = Tail(queue) /\ candidates' = candidates
      \/ /\ isNew
         /\ candidates' = [candidates EXCEPT ![on] = @ \cup {c}]
         /\ queue' = Tail(queue) \o ext
  BY DEF InsertCandidate
<1>9. on = "item" => env[on] = world.equal
  BY <1>1 DEF Envs
<1>10. /\ on = "item" => candidates'["item"] = IF isNew THEN candidates["item"] \cup {c} ELSE candidates["item"]
       /\ on # "item" => candidates'["item"] = candidates["item"]
  BY <1>1, <1>2, <1>8 DEF Searchers
<1>11. on = "item" /\ ~isNew => Has(c.pred)
  BY DEF Known, Has
<1> HIDE DEF c, ext, preds, isNew
<1>12. /\ Len(queue') >= Len(queue) - 1 /\ Len(queue') \in Nat
       /\ \A k \in 1..(Len(queue) - 1) : queue'[k] = queue[k + 1]
       /\ isNew => \A k \in 1..Len(preds) : Len(queue) - 1 + k \in 1..Len(queue') /\ queue'[Len(queue) - 1 + k] = ext[k]
  <2>1. PICK S : S = Pending(world, on)
    OBVIOUS
  <2>2. queue \in Seq(S) /\ queue # <<>> /\ ext \in Seq(S)
    BY <1>1, <1>7, <2>1
  <2>3. /\ \A k \in 1..Len(Tail(queue)) : k + 1 \in 1..Len(queue) /\ Tail(queue)[k] = queue[k + 1]
        /\ Len(Tail(queue)) = Len(queue) - 1 /\ Len(queue) \in Nat /\ Len(queue) >= 1
        /\ Len(Tail(queue) \o ext) = Len(queue) - 1 + Len(ext)
        /\ \A k \in 1..(Len(queue) - 1) : (Tail(queue) \o ext)[k] = queue[k + 1]
        /\ \A k \in 1..Len(ext) : (Tail(queue) \o ext)[Len(queue) - 1 + k] = ext[k]
    BY <2>2, QueueAfter
  <2>4. CASE isNew
    BY <1>6, <1>7, <1>8, <2>3, <2>4
  <2>5. CASE ~isNew
    BY <1>8, <2>3, <2>5
  <2> QED  BY <2>4, <2>5
<1>13. ASSUME NEW p, Comes(p)  PROVE Comes(p)'
  <2>1. CASE Has(p)
    <3>1. Has(p)'
      BY <1>10, <2>1 DEF Has
    <3> QED  BY <3>1 DEF Comes
  <2>2. ASSUME on = "item", NEW k \in 1..Len(queue), Norm(world.equal, queue[k].pred) = p
        PROVE  Comes(p)'
    <3>1. CASE k = 1
      <4>1. c.pred = p
        BY <1>4, <1>9, <2>2, <3>1
      <4>2. Has(p)'
        BY <1>10, <1>11, <2>2, <4>1 DEF Has
      <4> QED  BY <4>2 DEF Comes
    <3>2. CASE k # 1
      <4>1. k - 1 \in 1..(Len(queue) - 1) /\ (k - 1) + 1 = k /\ k - 1 \in 1..Len(queue')
        BY <1>3, <1>12, <3>2
      <4>2. queue'[k - 1] = queue[k]
        BY <1>12, <4>1
      <4> QED  BY <1>1, <2>2, <4>1, <4>2 DEF Comes
    <3> QED  BY <3>1, <3>2
  <2> QED  BY <1>13, <2>1, <2>2 DEF Comes
<1>14. Closed'
  <2>1. UNCHANGED Roots
    BY <1>1 DEF Roots
  <2>2. \A r \in Roots : Comes(Norm(world.equal, r))'
    <3>1. \A r \in Roots : Comes(Norm(world.equal, r))
      BY DEF BoundsInv, Closed
    <3>2. \A p : Comes(p) => Comes(p)'
      BY <1>13
    <3> QED  BY <1>1, <3>1, <3>2
  <2>3. ASSUME NEW d \in candidates'["item"], NEW r \in ElementsOf(ParentPreds(world, d.pred))
        PROVE  Comes(Norm(world.equal, r))'
    <3>1. CASE d \in candidates["item"]
      <4>1. Comes(Norm(world.equal, r))
        BY <2>3, <3>1 DEF BoundsInv, Closed
      <4>2. \A p : Comes(p) => Comes(p)'
        BY <1>13
      <4> QED  BY <1>1, <4>1, <4>2
    <3>2. CASE d \notin candidates["item"]
      <4>1. d = c /\ isNew /\ on = "item"
        BY <1>10, <3>2
      <4>2. PICK k \in 1..Len(preds) : r = preds[k]
        BY <1>6, <2>3, <4>1 DEF preds, ElementsOf
      <4>3. Len(queue) - 1 + k \in 1..Len(queue') /\ queue'[Len(queue) - 1 + k].pred = r
        BY <1>7, <1>12, <4>1, <4>2
      <4> QED  BY <1>1, <4>1, <4>3 DEF Comes
    <3> QED  BY <3>1, <3>2
  <2> QED  BY <1>1, <2>1, <2>2, <2>3 DEF Closed
<1>15. CallsServed(n)'
  <2>1. \A ty : BoundsCome(ty) => BoundsCome(ty)'
    BY <1>1, <1>13 DEF BoundsCome
  <2> QED  BY <1>1, <2>1 DEF BoundsInv, CallsServed
<1>16. BoundsFound(n)'
  BY <1>1 DEF BoundsInv, BoundsFound
<1> QED  BY <1>14, <1>15, <1>16 DEF BoundsInv

LEMMA BoundsClauses ==
  ASSUME SearchInv, PathsInv, NEW n \in Nat, BoundsInv(n), InsertBounds
  PROVE  BoundsInv(n)'
<1>1. /\ ~ready /\ queue = <<>> /\ ready' /\ queue' = BoundCandidates(world.clauses, 0)
      /\ UNCHANGED <<world, candidates, on, goals, answers>> /\ world \in Worlds
  BY DEF InsertBounds, SearchInv, ContextInv
<1>2. on = "item" /\ goals = <<>>
  BY <1>1 DEF PathsInv, StageInv
<1>3. world.clauses \in Seq(Preds) /\ Len(world.clauses) \in Nat /\ DOMAIN world.clauses = 1..Len(world.clauses)
  BY <1>1, SearchAssumption
<1>4. Len(queue') = Len(world.clauses) /\ \A k \in 1..Len(queue') : queue'[k].pred = world.clauses[k]
  BY <1>1, <1>3 DEF BoundCandidates, Candidate
<1>5. ASSUME NEW p, Comes(p)  PROVE Comes(p)'
  <2>1. Has(p)
    BY <1>1, <1>5 DEF Comes
  <2> QED  BY <1>1, <2>1 DEF Comes, Has
<1>6. ASSUME NEW r \in ElementsOf(world.clauses)  PROVE Comes(Norm(world.equal, r))'
  <2>1. PICK k \in 1..Len(queue') : queue'[k].pred = r
    BY <1>3, <1>4 DEF ElementsOf
  <2> QED  BY <1>1, <1>2, <2>1 DEF Comes
<1>7. Roots = ElementsOf(world.self) /\ Roots' = ElementsOf(world.self) \cup ElementsOf(world.clauses)
  BY <1>1 DEF Roots
<1>8. Closed'
  <2>1. \A r \in Roots' : Comes(Norm(world.equal, r))'
    <3>1. \A r \in Roots : Comes(Norm(world.equal, r))
      BY DEF BoundsInv, Closed
    <3>2. \A p : Comes(p) => Comes(p)'
      BY <1>5
    <3> QED  BY <1>1, <1>6, <1>7, <3>1, <3>2
  <2>2. \A c \in candidates["item"] : \A r \in ElementsOf(ParentPreds(world, c.pred)) : Comes(Norm(world.equal, r))'
    <3>1. \A c \in candidates["item"] : \A r \in ElementsOf(ParentPreds(world, c.pred)) : Comes(Norm(world.equal, r))
      BY DEF BoundsInv, Closed
    <3>2. \A p : Comes(p) => Comes(p)'
      BY <1>5
    <3> QED  BY <1>1, <3>1, <3>2
  <2> QED  BY <1>1, <2>1, <2>2 DEF Closed
<1>9. CallsServed(n)' /\ BoundsFound(n)'
  BY <1>1, <1>2 DEF BoundsInv, CallsServed, BoundsFound
<1> QED  BY <1>8, <1>9 DEF BoundsInv

\* With nothing on the way, a step that leaves the candidates alone disturbs nothing.
LEMMA ClosedIdle ==
  ASSUME Closed, queue = <<>>, UNCHANGED <<world, ready>>, candidates'["item"] = candidates["item"]
  PROVE  Closed'
<1>1. ASSUME NEW p, Comes(p)  PROVE Comes(p)'
  <2>1. Has(p)
    BY <1>1 DEF Comes
  <2> QED  BY <2>1 DEF Comes, Has
<1> QED  BY <1>1, ClosedStays

LEMMA BoundsAsk ==
  ASSUME SearchInv, NEW n \in Nat, BoundsInv(n),
         (\E p \in world.asks \cup world.dynAsks : Ask(p) \/ AskDyn(p)) \/ EnterDyn
  PROVE  BoundsInv(n)'
<1>1. queue = <<>> /\ UNCHANGED <<world, ready, answers>>
  BY DEF Ask, AskDyn, EnterDyn, Idle
<1>2. candidates'["item"] = candidates["item"]
  <2>1. candidates = [s \in Searchers |-> candidates[s]]
    BY DEF SearchInv, SearchersInv
  <2>2. candidates' = candidates \/ candidates' = [candidates EXCEPT !["dyn"] = candidates["item"]]
    BY DEF Ask, AskDyn, EnterDyn
  <2> QED  BY <2>1, <2>2 DEF Searchers
<1>3. Closed' /\ BoundsFound(n)'
  BY <1>1, <1>2, ClosedIdle DEF BoundsInv, BoundsFound
<1>4. CallsServed(n)'
  <2>1. ASSUME NEW p, Ask(p) \/ AskDyn(p)  PROVE CallsServed(n)'
    <3>1. goals' = <<Goal("resolve", p)>>
      BY <2>1 DEF Ask, AskDyn
    <3>2. Head(goals').do = "resolve"
      BY <3>1 DEF Goal
    <3> QED  BY <3>2 DEF CallsServed
  <2>2. ASSUME EnterDyn  PROVE CallsServed(n)'
    BY <2>2 DEF EnterDyn, CallsServed
  <2> QED  BY <2>1, <2>2
<1> QED  BY <1>3, <1>4 DEF BoundsInv

LEMMA BoundsParamEnv ==
  ASSUME SearchInv, NEW n \in Nat, BoundsInv(n), SetParamEnv
  PROVE  BoundsInv(n)'
<1>1. /\ queue = <<>> /\ goals # <<>> /\ Head(goals).do = "param_env"
      /\ UNCHANGED <<world, ready, candidates, on, answers>>
  BY DEF SetParamEnv
<1>2. on = "dyn"
  BY <1>1, Popped DEF SearchInv, CallsInv, Sound
<1>3. Closed' /\ BoundsFound(n)'
  BY <1>1, ClosedIdle DEF BoundsInv, BoundsFound
<1> QED  BY <1>1, <1>2, <1>3 DEF BoundsInv, CallsServed

LEMMA BoundsResolve ==
  ASSUME SearchInv, NEW n \in Nat, BoundsInv(n), ResolveGoal
  PROVE  BoundsInv(n)'
<1> DEFINE p == Norm(env[on], Head(goals).pred)
           needs == IF p \in DOMAIN world.builtin THEN world.builtin[p] ELSE <<>>
<1>1. /\ Doing("resolve") /\ UNCHANGED <<world, ready, candidates, on>>
      /\ world \in Worlds /\ env[on] \in Envs(world, on)
  BY DEF ResolveGoal, SearchInv, ContextInv, SearchersInv
<1>2. /\ Tail(goals) \in Stacks(on)
      /\ Tail(goals) # <<>> => Linked(Head(goals), Head(Tail(goals)))
      /\ Head(goals).do = "resolve"
  BY <1>1, Popped DEF SearchInv, CallsInv, Doing
<1>3. Tail(goals) # <<>> => Head(Tail(goals)).do = "resolve"
  BY <1>2 DEF Linked
<1>4. needs \in Seq(Preds)
  BY <1>1, SearchAssumption
<1>5. \/ /\ goals' = [k \in 1..Len(needs) |-> Goal("resolve", needs[k])] \o Tail(goals)
         /\ Answered(p, External)
      \/ goals' = <<Goal("find", p), Goal("answer", p)>> \o Tail(goals) /\ UNCHANGED answers
  BY DEF ResolveGoal
<1> HIDE DEF p, needs
<1>6. Closed'
  BY <1>1, ClosedIdle DEF BoundsInv, Doing
<1>7. BoundsFound(n)'
  <2> SUFFICES ASSUME NEW a \in answers', a.on = "item", a.pred \in Direct(world, n)
               PROVE  a.atom.kind # "error"
    BY <1>1 DEF BoundsFound
  <2>1. CASE a \in answers
    BY <2>1 DEF BoundsInv, BoundsFound
  <2>2. CASE a \notin answers
    BY <1>5, <2>2 DEF Answered, External
  <2> QED  BY <2>1, <2>2
<1>8. CallsServed(n)'
  <2>1. goals' # <<>> => Head(goals').do \in {"resolve", "find"}
    <3>1. CASE goals' = [k \in 1..Len(needs) |-> Goal("resolve", needs[k])] \o Tail(goals)
      BY <1>2, <1>3, <1>4, <3>1, PushedAll
    <3>2. CASE goals' = <<Goal("find", p), Goal("answer", p)>> \o Tail(goals)
      <4>1. Tail(goals) \in Seq(GoalType)
        BY <1>2 DEF Stacks
      <4>2. Head(goals') = Goal("find", p)
        BY <3>2, <4>1
      <4> QED  BY <4>2 DEF Goal
    <3> QED  BY <1>5, <3>1, <3>2
  <2> QED  BY <2>1 DEF CallsServed
<1> QED  BY <1>6, <1>7, <1>8 DEF BoundsInv

\* A search that has its candidate returns it to the call that waits.
LEMMA Served ==
  ASSUME SearchInv, NEW n \in Nat, NEW do \in {"find", "again"}, Doing(do),
         found' = Lookup(Head(goals).pred), goals' = Tail(goals), UNCHANGED <<world, on>>,
         on = "item" /\ Head(goals).pred \in Direct(world, n) => Has(Head(goals).pred)
  PROVE  CallsServed(n)'
<1>1. /\ Head(goals).do = do
      /\ Tail(goals) # <<>> => Linked(Head(goals), Head(Tail(goals)))
  BY Popped DEF SearchInv, CallsInv, Doing
<1> SUFFICES ASSUME on = "item", Tail(goals) # <<>>
             PROVE  LET g == Head(Tail(goals))
                    IN  /\ g.do \in {"add", "answer"} /\ Awaited(g) \in Direct(world, n) => found'.some
                        /\ g.do # "again"
  BY DEF CallsServed
<1>2. Head(goals).pred = Awaited(Head(Tail(goals))) /\ Head(Tail(goals)).do \in {"add", "answer"}
  BY <1>1 DEF Linked
<1>3. Has(Head(goals).pred) => found'.some
  BY Options DEF Has, Known, Lookup
<1> QED  BY <1>2, <1>3

LEMMA BoundsFind ==
  ASSUME SearchInv, PathsInv, NEW n \in Nat, BoundsInv(n), Find
  PROVE  BoundsInv(n)'
<1> DEFINE p == Head(goals).pred
<1>1. Doing("find") /\ UNCHANGED <<world, ready, candidates, on, answers>>
  BY DEF Find
<1>2. queue = <<>> /\ goals # <<>> /\ ready
  BY <1>1 DEF Doing, PathsInv, StageInv
<1>3. Closed' /\ BoundsFound(n)'
  BY <1>1, <1>2, ClosedIdle DEF BoundsInv, BoundsFound
<1>4. CASE Known(p) \/ ~IsProjection(p.ty)
  <2>1. found' = Lookup(p) /\ goals' = Tail(goals)
    BY <1>4 DEF Find
  <2>2. on = "item" /\ p \in Direct(world, n) => Has(p)
    BY <1>2, <1>4, DirectSplit DEF BoundsInv, Known, Has
  <2>3. CallsServed(n)'
    BY <1>1, <2>1, <2>2, Served
  <2> QED  BY <1>3, <2>3 DEF BoundsInv
<1>5. CASE ~Known(p) /\ IsProjection(p.ty)
  <2>1. goals' = <<Goal("find", TraitRef(p.ty)), Goal("add", p)>> \o Tail(goals)
    BY <1>5 DEF Find
  <2>2. Tail(goals) \in Seq(GoalType)
    BY <1>2, Popped DEF SearchInv, CallsInv, Stacks
  <2>3. Head(goals') = Goal("find", TraitRef(p.ty))
    BY <2>1, <2>2
  <2>4. CallsServed(n)'
    BY <2>3 DEF CallsServed, Goal
  <2> QED  BY <1>3, <2>4 DEF BoundsInv
<1> QED  BY <1>4, <1>5

LEMMA BoundsAdd ==
  ASSUME SearchInv, NEW n \in Nat, BoundsInv(n), AddBounds
  PROVE  BoundsInv(n)'
<1> DEFINE p == Head(goals).pred
           preds == ItemBounds(world, p.ty)
           g == Goal("again", p)
<1>1. /\ queue = <<>> /\ goals # <<>> /\ Head(goals).do = "add" /\ UNCHANGED <<world, ready, candidates, on, answers>>
      /\ queue' = IF found.some THEN Extended(found.value, "AssocItem", preds) ELSE <<>>
      /\ goals' = <<g>> \o Tail(goals) /\ world \in Worlds
  BY DEF AddBounds, Doing, SearchInv, ContextInv
<1>2. goals \in Stacks(on) /\ Head(goals) \in GoalType /\ Sound(on, Head(goals)) /\ Tail(goals) \in Stacks(on)
  BY <1>1, Popped DEF SearchInv, CallsInv
<1>3. Head(goals') = g
  <2>1. Tail(goals) \in Seq(GoalType)
    BY <1>2 DEF Stacks
  <2> QED  BY <1>1, <2>1
<1>4. g.do = "again" /\ g.pred = p
  BY DEF Goal
<1>5. preds \in Seq(Preds) /\ Len(preds) \in Nat /\ DOMAIN preds = 1..Len(preds)
  <2>1. preds \in Seq(Preds)
    BY <1>1, <1>2, BoundsTyped DEF GoalType, Preds, Sound
  <2> HIDE DEF preds
  <2> QED  BY <2>1
<1>6. Closed' /\ BoundsFound(n)'
  BY <1>1, ClosedIdle DEF BoundsInv, BoundsFound
<1>7. ASSUME on = "item", TraitRef(p.ty) \in Direct(world, n), NEW r \in ElementsOf(preds)
      PROVE  Comes(Norm(world.equal, r))'
  <2>1. found.some
    BY <1>1, <1>7 DEF BoundsInv, CallsServed, Awaited
  <2>2. found.value.path \in Seq(Chunks)
    BY <1>1, <2>1 DEF SearchInv, ReturnInv, Proven, CandidateType
  <2> HIDE DEF preds, p
  <2>3. /\ Len(queue') = Len(preds)
        /\ \A k \in 1..Len(preds) : queue'[k].pred = preds[k]
    BY <1>1, <1>5, <2>1, <2>2, ExtendedIs
  <2>4. PICK k \in 1..Len(preds) : r = preds[k]
    BY <1>5, <1>7 DEF ElementsOf
  <2>5. k \in 1..Len(queue') /\ queue'[k].pred = r
    BY <2>3, <2>4
  <2> QED  BY <1>1, <1>7, <2>5 DEF Comes
<1>8. CallsServed(n)'
  <2>1. PICK ty : ty = p.ty
    OBVIOUS
  <2>2. ASSUME on = "item", TraitRef(ty) \in Direct(world, n)  PROVE BoundsCome(ty)'
    <3>1. \A r \in ElementsOf(ItemBounds(world, ty)) : Comes(Norm(world.equal, r))'
      BY <1>7, <2>1, <2>2
    <3> QED  BY <1>1, <3>1 DEF BoundsCome
  <2>3. Head(goals').do = "again" /\ Head(goals').pred.ty = ty
    BY <1>3, <1>4, <2>1
  <2> QED  BY <1>1, <2>2, <2>3 DEF CallsServed
<1> QED  BY <1>6, <1>8 DEF BoundsInv

LEMMA BoundsAgain ==
  ASSUME SearchInv, PathsInv, NEW n \in Nat, BoundsInv(n), FindAgain
  PROVE  BoundsInv(n)'
<1> DEFINE p == Head(goals).pred
<1>1. /\ Doing("again") /\ UNCHANGED <<world, ready, candidates, on, answers>>
      /\ found' = Lookup(p) /\ goals' = Tail(goals)
  BY DEF FindAgain
<1>2. queue = <<>> /\ goals # <<>> /\ ready /\ Head(goals).do = "again"
  BY <1>1 DEF Doing, PathsInv, StageInv
<1>3. Closed' /\ BoundsFound(n)'
  BY <1>1, <1>2, ClosedIdle DEF BoundsInv, BoundsFound
<1>4. ASSUME on = "item", p \in Direct(world, n)  PROVE Has(p)
  <2>1. CASE Has(p)
    BY <2>1
  <2>2. CASE TraitRef(p.ty) \in Direct(world, n) /\ (BoundsCome(p.ty) => Has(p))
    BY <1>2, <1>4, <2>2 DEF BoundsInv, CallsServed
  <2> QED  BY <1>2, <1>4, <2>1, <2>2, DirectSplit DEF BoundsInv
<1>5. CallsServed(n)'
  BY <1>1, <1>4, Served
<1> QED  BY <1>3, <1>5 DEF BoundsInv

LEMMA BoundsAnswer ==
  ASSUME SearchInv, NEW n \in Nat, BoundsInv(n), AnswerGoal
  PROVE  BoundsInv(n)'
<1> DEFINE atom == IF found.some THEN Local(found.value) ELSE Error
<1>1. /\ Doing("answer") /\ UNCHANGED <<world, ready, candidates, on>>
      /\ Answered(Head(goals).pred, atom) /\ goals' = Tail(goals)
  BY DEF AnswerGoal
<1>2. /\ queue = <<>> /\ goals # <<>> /\ Head(goals).do = "answer"
      /\ Tail(goals) # <<>> => Linked(Head(goals), Head(Tail(goals)))
  BY <1>1, Popped DEF SearchInv, CallsInv, Doing
<1>3. Closed'
  BY <1>1, <1>2, ClosedIdle DEF BoundsInv
<1>4. CallsServed(n)'
  BY <1>1, <1>2 DEF CallsServed, Linked
<1>5. BoundsFound(n)'
  <2> SUFFICES ASSUME NEW a \in answers', a.on = "item", a.pred \in Direct(world, n)
               PROVE  a.atom.kind # "error"
    BY <1>1 DEF BoundsFound
  <2>1. CASE a \in answers
    BY <2>1 DEF BoundsInv, BoundsFound
  <2>2. CASE a \notin answers
    <3>1. a = [on |-> on, pred |-> Head(goals).pred, atom |-> atom]
      BY <1>1, <2>2 DEF Answered
    <3>2. found.some
      BY <1>2, <3>1 DEF BoundsInv, CallsServed, Awaited
    <3> QED  BY <3>1, <3>2 DEF Local
  <2> QED  BY <2>1, <2>2
<1> QED  BY <1>3, <1>4, <1>5 DEF BoundsInv

LEMMA BoundsStutter ==
  ASSUME NEW n \in Nat, BoundsInv(n), UNCHANGED searchVars
  PROVE  BoundsInv(n)'
<1>1. UNCHANGED <<world, ready, candidates, queue, on, goals, found, answers>>
  BY DEF searchVars
<1>2. \A p : Comes(p) <=> Comes(p)'
  BY <1>1 DEF Comes, Has
<1>3. Closed'
  BY <1>1, <1>2, ClosedStays DEF BoundsInv
<1>4. \A ty : BoundsCome(ty) => BoundsCome(ty)'
  BY <1>1, <1>2 DEF BoundsCome
<1>5. CallsServed(n)' /\ BoundsFound(n)'
  BY <1>1, <1>4 DEF BoundsInv, CallsServed, BoundsFound
<1> QED  BY <1>3, <1>5 DEF BoundsInv

LEMMA BoundsInductive ==
  ASSUME NEW n \in Nat
  PROVE  /\ SearchInit => BoundsInv(n)
         /\ SearchInv /\ PathsInv /\ BoundsInv(n) /\ [SearchNext]_searchVars => BoundsInv(n)'
         /\ BoundsInv(n) => BoundsFound(n)
<1>1. SearchInit => BoundsInv(n)
  BY BoundsInit
<1>2. SearchInv /\ PathsInv /\ BoundsInv(n) /\ [SearchNext]_searchVars => BoundsInv(n)'
  BY BoundsInsert, BoundsClauses, BoundsAsk, BoundsParamEnv, BoundsResolve, BoundsFind, BoundsAdd,
     BoundsAgain, BoundsAnswer, BoundsStutter DEF SearchNext, Search
<1>3. BoundsInv(n) => BoundsFound(n)
  BY DEF BoundsInv
<1> QED  BY <1>1, <1>2, <1>3

\* Whatever the number of bounds and supertraits on the way, a predicate they give is
\* never answered with an Error, in whatever order translation asks.
THEOREM BoundsAreFound ==
  ASSUME NEW n \in Nat
  PROVE  SearchSpec => []BoundsFound(n)
BY BoundsInductive, SearchInvariant, PathsInvariant, PTL DEF SearchSpec

\* The candidates suffice: the path to a predicate the clauses of the item imply is one of
\* the shortest, and what four bounds or supertraits give of it is found.
THEOREM CandidatesAreEnough == SearchSpec => []CandidatesSuffice
<1>1. /\ SearchInit => BoundsInv(4)
      /\ SearchInv /\ PathsInv /\ BoundsInv(4) /\ [SearchNext]_searchVars => BoundsInv(4)'
      /\ BoundsInv(4) => BoundsFound(4)
  <2>1. 4 \in Nat
    OBVIOUS
  <2> QED  BY <2>1, BoundsInductive
<1>2. PathsInv /\ BoundsFound(4) => CandidatesSuffice
  BY DEF PathsInv, BoundsFound, DirectBoundsFound, CandidatesSuffice
<1> QED  BY <1>1, <1>2, SearchInvariant, PathsInvariant, PTL DEF SearchSpec
=============================================================================
