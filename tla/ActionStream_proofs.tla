------------------------ MODULE ActionStream_proofs ------------------------
(***************************************************************************)
(* That a client of WatchActions sees the part of the run its filter asks  *)
(* for, whatever the shape of the run, in whatever order the rows of the   *)
(* run arrive, and in whatever order upsertActions walks its maps.         *)
(***************************************************************************)
EXTENDS ActionStream, FiniteSetTheorems, SequenceTheorems, TLAPS

-----------------------------------------------------------------------------
(* Ancestors                                                               *)

(* A set with all parents has all ancestors.                               *)
LEMMA AncestorsHeld ==
    ASSUME NEW S \in SUBSET Actions, HasParents(S), NEW a \in S
    PROVE  Ancestors[a] \subseteq S
  <1>1. a # Root => Parent[a] \in S
      BY DEF HasParents
  <1>2. \A b \in Ancestors[a] : a # Root /\ (Parent[a] \in S /\ HasParents(S) => b \in S)
      BY DEF Ancestors
  <1> QED BY <1>1, <1>2

LEMMA AncestorsTyped == \A a \in Actions : Ancestors[a] \subseteq Actions
  <1> QED BY DEF Ancestors

LEMMA AncestorsPass ==
    ASSUME NEW a \in Actions, NEW b \in Ancestors[a]
    PROVE  Ancestors[b] \subseteq Ancestors[a]
  <1> SUFFICES ASSUME NEW c \in Ancestors[b] PROVE c \in Ancestors[a]
      OBVIOUS
  <1>1. b \in Actions /\ c \in Actions /\ a # Root /\ b # Root
      BY AncestorsTyped DEF Ancestors
  <1>2. ASSUME NEW S \in SUBSET Actions, Parent[a] \in S, HasParents(S) PROVE c \in S
    <2>1. b \in S
        BY <1>2 DEF Ancestors
    <2> QED BY <1>2, <2>1, AncestorsHeld
  <1> QED BY <1>1, <1>2 DEF Ancestors

LEMMA DescendantsFinite ==
    ASSUME NEW a \in Actions, NEW S
    PROVE  /\ IsFiniteSet(Descendants(a)) /\ IsFiniteSet(S \cap Descendants(a))
           /\ Descendants(a) \subseteq Actions
  <1>1. Descendants(a) \subseteq Actions
      BY DEF Descendants
  <1>2. IsFiniteSet(Descendants(a))
      BY <1>1, TreeAssumption, FS_Subset
  <1> QED BY <1>1, <1>2, FS_Intersection

(* What is changed is changed up to the root.                              *)
LEMMA ChangedClosed ==
    ASSUME NEW batch, \A r \in ToSet(batch) : r.action \in Actions
    PROVE  /\ Changed(batch) \subseteq Actions /\ Touched(batch) \subseteq Changed(batch)
           /\ \A d \in Changed(batch) : Ancestors[d] \subseteq Changed(batch)
  <1>1. Touched(batch) \subseteq Actions
      BY DEF Touched
  <1>2. ASSUME NEW d \in Changed(batch) PROVE d \in Actions /\ Ancestors[d] \subseteq Changed(batch)
    <2>1. PICK a \in Touched(batch) : d \in {a} \cup Ancestors[a]
        BY DEF Changed
    <2>2. Ancestors[a] \subseteq Changed(batch)
        BY <2>1 DEF Changed
    <2>3. Ancestors[d] \subseteq Ancestors[a]
        BY <1>1, <2>1, AncestorsPass
    <2> QED BY <1>1, <2>1, <2>2, <2>3, AncestorsTyped
  <1> QED BY <1>2 DEF Changed

-----------------------------------------------------------------------------
(* Counting                                                                *)

(* A set is counted by what comes and what goes.                           *)
LEMMA Recount ==
    ASSUME NEW X, NEW Y, IsFiniteSet(X), IsFiniteSet(Y)
    PROVE  /\ Cardinality(X) \in Nat /\ Cardinality(Y) \in Nat
           /\ Cardinality(X) + Cardinality(Y \ X) - Cardinality(X \ Y) = Cardinality(Y)
  <1>1. /\ Cardinality(X) \in Nat /\ Cardinality(Y) \in Nat
        /\ IsFiniteSet(X \cap Y) /\ Cardinality(X \cap Y) \in Nat
      BY FS_CardinalityType, FS_Intersection
  <1>2. Cardinality(X \ Y) = Cardinality(X) - Cardinality(X \cap Y)
      BY FS_Difference
  <1>3. Cardinality(Y \ X) = Cardinality(Y) - Cardinality(X \cap Y)
    <2>1. Y \cap X = X \cap Y
        OBVIOUS
    <2> QED BY <2>1, FS_Difference
  <1> QED BY <1>1, <1>2, <1>3

LEMMA NeverNegative == \A n \in Nat : Max({0, n}) = n
  <1> TAKE n \in Nat
  <1>1. n \in {0, n} /\ \A y \in {0, n} : n >= y
      OBVIOUS
  <1>2. \A x \in {0, n} : (\A y \in {0, n} : x >= y) => x = n
      OBVIOUS
  <1> QED BY <1>1, <1>2 DEF Max

-----------------------------------------------------------------------------
(* The tree and its view                                                   *)

Tree == [phase : [Actions -> Phases \cup {UNSPECIFIED}], counts : [Actions -> [Phases -> Nat]],
         matching : SUBSET Actions, below : [Actions -> Nat], visible : SUBSET Actions]

(* The parents of all nodes are nodes.                                     *)
Rooted(t) == HasParents({a \in Actions : InTree(t, a)})

(* The counters have what there is below each node.                        *)
Counted(t) ==
    \A a \in Actions, p \in Phases :
        t.counts[a][p] = Cardinality({d \in Descendants(a) : t.phase[d] = p})

CountedBelow(t) ==
    \A a \in Actions : t.below[a] = Cardinality(t.matching \cap Descendants(a))

Filtered(t, f) ==
    /\ t.matching = {a \in Actions : doesActionMatchFilters(a, t.phase, f)}
    /\ CountedBelow(t)

(* What a client should be shown, as the handler's counters tell it.       *)
Relevant(t) == {a \in Actions : a \in t.matching \/ t.below[a] > 0}

Current(t, a) == [phase |-> t.phase[a], counts |-> t.counts[a]]

(* Between batches.                                                        *)
Shown(t, v) ==
    /\ t.visible = Relevant(t)
    /\ v = [a \in Actions |-> IF a \in Relevant(t) THEN Current(t, a) ELSE Hidden]

(* While the nodes of rest are still to be visited: the client has what    *)
(* was relevant before the batch, and every other node has been decided.   *)
Visiting(t, v, c, rest) ==
    /\ c.visible = (t.visible \ c.hidden) \cup c.shown
    /\ c.shown \subseteq Relevant(t) /\ c.hidden \cap Relevant(t) = {}
    /\ \A d \in t.visible : Ancestors[d] \subseteq t.visible
    /\ \A d \in c.shown : Ancestors[d] \subseteq t.visible \cup c.shown
    /\ \A a \in Actions \ t.visible : v[a] = Hidden
    /\ \A a \in Actions \ rest :
         /\ a \in t.visible \cap Relevant(t) => a \in c.shown \/ v[a] = Current(t, a)
         /\ a \in t.matching \ t.visible => a \in c.shown
         /\ a \in t.visible \ Relevant(t) => a \in c.hidden

(* A node leads to a match when its counter says so.                       *)
LEMMA BelowCounts ==
    ASSUME NEW t \in Tree, CountedBelow(t), NEW a \in Actions
    PROVE  t.below[a] > 0 <=> \E d \in t.matching : a \in Ancestors[d]
  <1> DEFINE M == t.matching \cap Descendants(a)
  <1>1. t.matching \subseteq Actions
      BY DEF Tree
  <1>2. IsFiniteSet(M)
      BY DescendantsFinite
  <1>3. Cardinality(M) \in Nat /\ (Cardinality(M) = 0 <=> M = {})
      BY <1>2, FS_CardinalityType, FS_EmptySet
  <1>4. t.below[a] = Cardinality(M)
      BY DEF CountedBelow
  <1>5. M # {} <=> \E d \in t.matching : a \in Ancestors[d]
      BY <1>1 DEF Descendants
  <1> QED BY <1>3, <1>4, <1>5

(* What is relevant is relevant up to the root.                            *)
LEMMA RelevantClosed ==
    ASSUME NEW t \in Tree, CountedBelow(t)
    PROVE  \A d \in Relevant(t) : Ancestors[d] \subseteq Relevant(t)
  <1> SUFFICES ASSUME NEW d \in Relevant(t), NEW b \in Ancestors[d] PROVE b \in Relevant(t)
      OBVIOUS
  <1>1. d \in Actions /\ b \in Actions
      BY AncestorsTyped DEF Relevant
  <1>2. PICK m \in t.matching : m = d \/ d \in Ancestors[m]
      BY <1>1, BelowCounts DEF Relevant
  <1>3. m \in Actions
      BY DEF Tree
  <1>4. b \in Ancestors[m]
      BY <1>2, <1>3, AncestorsPass
  <1> QED BY <1>1, <1>4, BelowCounts DEF Relevant

(* What a settled stream shows is what it should.                          *)
LEMMA ShownIsRendered ==
    ASSUME NEW t \in Tree, NEW f, NEW v, Counted(t), Filtered(t, f), Rooted(t), Shown(t, v)
    PROVE  v = Rendered(t.phase, f)
  <1> DEFINE want(a) ==
                 /\ t.phase[a] # UNSPECIFIED
                 /\ \E d \in {a} \cup Descendants(a) : doesActionMatchFilters(d, t.phase, f)
             below(a) == [p \in Phases |-> Cardinality({d \in Descendants(a) : t.phase[d] = p})]
  <1>1. CountedBelow(t) /\ t.matching = {a \in Actions : doesActionMatchFilters(a, t.phase, f)}
      BY DEF Filtered
  <1>2. ASSUME NEW a \in Actions PROVE t.counts[a] = below(a)
    <2>1. t.counts[a] \in [Phases -> Nat]
        BY DEF Tree
    <2>2. \A p \in Phases : t.counts[a][p] = below(a)[p]
        BY DEF Counted
    <2> QED BY <2>1, <2>2
  <1>3. ASSUME NEW a \in Actions PROVE a \in Relevant(t) <=> want(a)
    <2>1. ASSUME a \in Relevant(t) PROVE want(a)
      <3>1. PICK m \in t.matching : m = a \/ a \in Ancestors[m]
          BY <1>1, <2>1, BelowCounts DEF Relevant
      <3>2. m \in Actions /\ doesActionMatchFilters(m, t.phase, f)
          BY <1>1
      <3>3. InTree(t, m)
          BY <3>2 DEF doesActionMatchFilters, InTree
      <3>4. InTree(t, a)
          BY <3>1, <3>2, <3>3, AncestorsHeld DEF Rooted
      <3> QED BY <3>1, <3>2, <3>4 DEF InTree, Descendants
    <2>2. ASSUME want(a) PROVE a \in Relevant(t)
      <3>1. PICK d \in {a} \cup Descendants(a) : doesActionMatchFilters(d, t.phase, f)
          BY <2>2
      <3>2. d \in t.matching
          BY <1>1, <3>1 DEF Descendants
      <3>3. d = a \/ a \in Ancestors[d]
          BY <3>1 DEF Descendants
      <3> QED BY <1>1, <3>2, <3>3, BelowCounts DEF Relevant
    <2> QED BY <2>1, <2>2
  <1>4. \A a \in Actions : (IF a \in Relevant(t) THEN Current(t, a) ELSE Hidden)
                           = (IF want(a) THEN [phase |-> t.phase[a], counts |-> below(a)]
                              ELSE Hidden)
      BY <1>2, <1>3 DEF Current
  <1>5. v = [a \in Actions |-> IF want(a) THEN [phase |-> t.phase[a], counts |-> below(a)]
                              ELSE Hidden]
      BY <1>4 DEF Shown
  <1> QED BY <1>5 DEF Rendered

-----------------------------------------------------------------------------
(* The first two passes                                                    *)

Update == [action : Actions, phase : Phases]

LEMMA UpdatesTyped ==
    ASSUME NEW batch \in Seq(Update)
    PROVE  /\ \A r \in ToSet(batch) : r \in Update
           /\ Touched(batch) = {batch[i].action : i \in DOMAIN batch}
           /\ \A i \in DOMAIN batch : batch[i].action \in Actions
  <1>1. ToSet(batch) = {batch[i] : i \in DOMAIN batch}
      BY DEF ToSet
  <1>2. \A i \in DOMAIN batch : batch[i] \in Update
      OBVIOUS
  <1>3. \A i \in DOMAIN batch : batch[i].action \in Actions
      BY <1>2 DEF Update
  <1> QED BY <1>1, <1>2, <1>3 DEF Touched

LEMMA UpsertedPhases ==
    ASSUME NEW t \in Tree, NEW batch \in Seq(Update), NEW u, u = upsertRows(t, batch)
    PROVE  /\ u.phase \in [Actions -> Phases \cup {UNSPECIFIED}]
           /\ \A a \in Actions \ Touched(batch) : u.phase[a] = t.phase[a]
           /\ \A a \in Actions \cap Touched(batch) : u.phase[a] \in Phases
           /\ u.counts = modifyPhaseCounters(t.counts, t.phase, u.phase)
           /\ u = [phase |-> u.phase, counts |-> u.counts, matching |-> t.matching,
                   below |-> t.below, visible |-> t.visible]
  <1> DEFINE new(a) == (CHOOSE r \in ToSet(batch) : r.action = a).phase
             phase == [a \in Actions |-> IF a \in Touched(batch) THEN new(a) ELSE t.phase[a]]
  <1>1. ASSUME NEW a \in Touched(batch) PROVE new(a) \in Phases
    <2>1. \E r \in ToSet(batch) : r.action = a
        BY DEF Touched
    <2>2. (CHOOSE r \in ToSet(batch) : r.action = a) \in ToSet(batch)
        BY <2>1
    <2> QED BY <2>2, UpdatesTyped DEF Update
  <1>2. phase \in [Actions -> Phases \cup {UNSPECIFIED}]
      BY <1>1 DEF Tree
  <1>3. u = [t EXCEPT !.phase = phase, !.counts = modifyPhaseCounters(t.counts, t.phase, phase)]
      BY DEF upsertRows
  <1> HIDE DEF phase
  <1>4. /\ u.phase = phase /\ u.counts = modifyPhaseCounters(t.counts, t.phase, u.phase)
        /\ u = [phase |-> u.phase, counts |-> u.counts, matching |-> t.matching,
                below |-> t.below, visible |-> t.visible]
      BY <1>3 DEF Tree
  <1>5. \A a \in Actions : phase[a] = IF a \in Touched(batch) THEN new(a) ELSE t.phase[a]
      BY DEF phase
  <1> QED BY <1>1, <1>2, <1>4, <1>5

(* The counters follow the phases.                                         *)
LEMMA CountersFollow ==
    ASSUME NEW t \in Tree, Counted(t), NEW new \in [Actions -> Phases \cup {UNSPECIFIED}],
           NEW c, c = modifyPhaseCounters(t.counts, t.phase, new)
    PROVE  /\ c \in [Actions -> [Phases -> Nat]]
           /\ \A a \in Actions, p \in Phases :
                c[a][p] = Cardinality({d \in Descendants(a) : new[d] = p})
  <1> DEFINE E(a, p) == Cardinality({d \in Descendants(a) : new[d] = p /\ t.phase[d] # p})
             L(a, p) == Cardinality({d \in Descendants(a) : t.phase[d] = p /\ new[d] # p})
             N(a, p) == Cardinality({d \in Descendants(a) : new[d] = p})
  <1>1. ASSUME NEW a \in Actions, NEW p \in Phases
        PROVE  N(a, p) \in Nat /\ t.counts[a][p] + E(a, p) - L(a, p) = N(a, p)
    <2> DEFINE X == {d \in Descendants(a) : t.phase[d] = p}
               Y == {d \in Descendants(a) : new[d] = p}
    <2>1. IsFiniteSet(X) /\ IsFiniteSet(Y)
        BY DescendantsFinite, FS_Subset
    <2>2. Y \ X = {d \in Descendants(a) : new[d] = p /\ t.phase[d] # p}
        OBVIOUS
    <2>3. X \ Y = {d \in Descendants(a) : t.phase[d] = p /\ new[d] # p}
        OBVIOUS
    <2>4. t.counts[a][p] = Cardinality(X)
        BY DEF Counted
    <2> HIDE DEF X, Y
    <2>5. Cardinality(Y) \in Nat /\ Cardinality(X) + Cardinality(Y \ X) - Cardinality(X \ Y) = Cardinality(Y)
        BY <2>1, Recount
    <2> QED BY <2>2, <2>3, <2>4, <2>5 DEF Y
  <1>2. ASSUME NEW a \in Actions, NEW p \in Phases
        PROVE  Max({0, t.counts[a][p] + E(a, p) - L(a, p)}) = N(a, p)
      BY <1>1, NeverNegative
  <1>3. c = [a \in Actions |-> [p \in Phases |-> Max({0, t.counts[a][p] + E(a, p) - L(a, p)})]]
      BY DEF modifyPhaseCounters
  <1> HIDE DEF E, L, N
  <1>4. c = [a \in Actions |-> [p \in Phases |-> N(a, p)]]
      BY <1>2, <1>3
  <1>5. c \in [Actions -> [Phases -> Nat]] /\ \A a \in Actions, p \in Phases : c[a][p] = N(a, p)
      BY <1>1, <1>4
  <1> QED BY <1>5 DEF N

(* Only nodes at or above a row are touched by it.                         *)
LEMMA Upserted ==
    ASSUME NEW t \in Tree, Counted(t), Rooted(t), NEW batch \in Seq(Update), ~HasOrphan(t, batch),
           NEW u, u = upsertRows(t, batch)
    PROVE  /\ u \in Tree /\ Counted(u) /\ Rooted(u)
           /\ u.matching = t.matching /\ u.below = t.below /\ u.visible = t.visible
           /\ \A a \in Actions \ Changed(batch) : Current(u, a) = Current(t, a)
  <1>1. /\ u.phase \in [Actions -> Phases \cup {UNSPECIFIED}]
        /\ \A a \in Actions \ Touched(batch) : u.phase[a] = t.phase[a]
        /\ \A a \in Actions \cap Touched(batch) : u.phase[a] \in Phases
        /\ u.counts = modifyPhaseCounters(t.counts, t.phase, u.phase)
        /\ u = [phase |-> u.phase, counts |-> u.counts, matching |-> t.matching,
                below |-> t.below, visible |-> t.visible]
      BY UpsertedPhases
  <1>2. u.counts \in [Actions -> [Phases -> Nat]] /\ Counted(u)
    <2>1. /\ u.counts \in [Actions -> [Phases -> Nat]]
          /\ \A a \in Actions, p \in Phases :
               u.counts[a][p] = Cardinality({d \in Descendants(a) : u.phase[d] = p})
        BY <1>1, CountersFollow
    <2> QED BY <2>1 DEF Counted
  <1>3. u \in Tree /\ u.matching = t.matching /\ u.below = t.below /\ u.visible = t.visible
    <2>1. u.matching = t.matching /\ u.below = t.below /\ u.visible = t.visible
        BY <1>1
    <2>2. t.matching \in SUBSET Actions /\ t.below \in [Actions -> Nat] /\ t.visible \in SUBSET Actions
        BY DEF Tree
    <2> QED BY <1>1, <1>2, <2>1, <2>2 DEF Tree
  <1>4. ASSUME NEW a \in Actions, InTree(u, a), a # Root PROVE InTree(u, Parent[a])
    <2>1. Parent[a] \in Actions /\ \A p \in Phases : p # UNSPECIFIED
        BY <1>4, TreeAssumption DEF UNSPECIFIED, RECOVERED
    <2>2. InTree(t, Parent[a]) => InTree(u, Parent[a])
        BY <1>1, <2>1 DEF InTree
    <2>3. CASE a \notin Touched(batch)
        BY <1>1, <1>4, <2>2, <2>3 DEF InTree, Rooted, HasParents
    <2>4. CASE a \in Touched(batch)
      <3>1. PICK i \in DOMAIN batch : batch[i].action = a
          BY <2>4, UpdatesTyped
      <3>2. InTree(t, Parent[a]) \/ \E j \in 1..(i - 1) : batch[j].action = Parent[a]
          BY <1>4, <3>1 DEF HasOrphan
      <3>3. ASSUME NEW j \in 1..(i - 1), batch[j].action = Parent[a] PROVE Parent[a] \in Touched(batch)
        <4>1. i \in 1..Len(batch) /\ DOMAIN batch = 1..Len(batch) /\ Len(batch) \in Nat
            BY <3>1
        <4>2. j \in DOMAIN batch
            BY <4>1
        <4> QED BY <3>3, <4>2, UpdatesTyped
      <3>4. Parent[a] \in Touched(batch) => InTree(u, Parent[a])
          BY <1>1, <2>1 DEF InTree
      <3> QED BY <2>2, <3>2, <3>3, <3>4
    <2> QED BY <2>3, <2>4
  <1>5. Rooted(u)
    <2>1. \A a \in Actions \ {Root} : Parent[a] \in Actions
        BY TreeAssumption
    <2> QED BY <1>4, <2>1 DEF Rooted, HasParents
  <1>6. ASSUME NEW a \in Actions \ Changed(batch) PROVE Current(u, a) = Current(t, a)
    <2>1. \A d \in Descendants(a) : d \in Actions \ Touched(batch)
        BY DEF Descendants, Changed
    <2>2. \A d \in Descendants(a) : u.phase[d] = t.phase[d]
        BY <1>1, <2>1
    <2>3. a \notin Touched(batch)
        BY DEF Changed
    <2>4. ASSUME NEW p \in Phases PROVE u.counts[a][p] = t.counts[a][p]
      <3>1. {d \in Descendants(a) : u.phase[d] = p} = {d \in Descendants(a) : t.phase[d] = p}
          BY <2>2
      <3>2. u.counts[a][p] = Cardinality({d \in Descendants(a) : u.phase[d] = p})
          BY <1>2 DEF Counted
      <3>3. t.counts[a][p] = Cardinality({d \in Descendants(a) : t.phase[d] = p})
          BY DEF Counted
      <3> QED BY <3>1, <3>2, <3>3
    <2>5. u.counts[a] \in [Phases -> Nat] /\ t.counts[a] \in [Phases -> Nat]
        BY <1>2 DEF Tree
    <2>6. u.counts[a] = t.counts[a]
        BY <2>4, <2>5
    <2> QED BY <1>1, <2>3, <2>6 DEF Current
  <1> QED BY <1>2, <1>3, <1>5, <1>6

(* The filter is asked again for what has changed, and only matters there. *)
LEMMA Rematched ==
    ASSUME NEW u \in Tree, CountedBelow(u), NEW f,
           NEW C \in SUBSET Actions, \A d \in C : Ancestors[d] \subseteq C,
           \A a \in Actions \ C : a \in u.matching <=> doesActionMatchFilters(a, u.phase, f),
           NEW r, r = Rematch(u, C, f)
    PROVE  /\ r \in Tree /\ Filtered(r, f)
           /\ r.phase = u.phase /\ r.counts = u.counts /\ r.visible = u.visible
           /\ \A a \in Actions \ C : (a \in r.matching <=> a \in u.matching) /\ r.below[a] = u.below[a]
  <1> DEFINE now == {a \in C : doesActionMatchFilters(a, u.phase, f)}
             came == now \ u.matching
             went == (C \ now) \cap u.matching
             in(a, S) == Cardinality(S \cap Descendants(a))
             M == (u.matching \ went) \cup came
             below == [a \in Actions |-> u.below[a] + in(a, came) - in(a, went)]
  <1>1. u.matching \subseteq Actions /\ u.below \in [Actions -> Nat]
      BY DEF Tree
  <1>2. r = [u EXCEPT !.matching = M, !.below = below]
      BY DEF Rematch
  <1>3. M = {a \in Actions : doesActionMatchFilters(a, u.phase, f)}
      BY <1>1
  <1>4. ASSUME NEW a \in Actions
        PROVE  u.below[a] + in(a, came) - in(a, went) = in(a, M) /\ in(a, M) \in Nat
    <2> DEFINE X == u.matching \cap Descendants(a)
               Y == M \cap Descendants(a)
    <2>1. IsFiniteSet(X) /\ IsFiniteSet(Y)
        BY DescendantsFinite
    <2>2. Y \ X = came \cap Descendants(a)
        OBVIOUS
    <2>3. X \ Y = went \cap Descendants(a)
        OBVIOUS
    <2>4. u.below[a] = Cardinality(X)
        BY DEF CountedBelow
    <2>5. in(a, M) = Cardinality(Y) /\ in(a, came) = Cardinality(Y \ X) /\ in(a, went) = Cardinality(X \ Y)
        BY <2>2, <2>3
    <2> HIDE DEF X, Y, in, M, came, went
    <2>6. Cardinality(Y) \in Nat /\ Cardinality(X) + Cardinality(Y \ X) - Cardinality(X \ Y) = Cardinality(Y)
        BY <2>1, Recount
    <2> QED BY <2>4, <2>5, <2>6
  <1>5. ASSUME NEW a \in Actions \ C
        PROVE  (a \in M <=> a \in u.matching) /\ in(a, M) = in(a, u.matching)
    <2>1. \A d \in Descendants(a) : d \notin C
        BY DEF Descendants
    <2>2. M \cap Descendants(a) = u.matching \cap Descendants(a)
        BY <2>1
    <2> QED BY <2>2
  <1>6. /\ r.matching = M /\ r.phase = u.phase /\ r.counts = u.counts /\ r.visible = u.visible
        /\ r.below = below
        /\ r = [phase |-> u.phase, counts |-> u.counts, matching |-> M, below |-> below,
                visible |-> u.visible]
    <2> HIDE DEF M, below
    <2> QED BY <1>2 DEF Tree
  <1>7. ASSUME NEW a \in Actions PROVE below[a] = in(a, M)
      BY <1>4
  <1>8. below \in [Actions -> Nat]
    <2> HIDE DEF in
    <2> QED BY <1>4
  <1> HIDE DEF in, M, below
  <1>9. M \subseteq Actions
      BY <1>3
  <1>10. r \in Tree
      BY <1>6, <1>8, <1>9 DEF Tree
  <1>11. \A a \in Actions : r.below[a] = in(a, r.matching) 
      BY <1>6, <1>7
  <1>12. CountedBelow(r)
      BY <1>11 DEF CountedBelow, in
  <1>13. Filtered(r, f)
      BY <1>3, <1>6, <1>12 DEF Filtered
  <1>14. \A a \in Actions : u.below[a] = in(a, u.matching)
      BY DEF CountedBelow, in
  <1> QED BY <1>5, <1>6, <1>10, <1>11, <1>13, <1>14

-----------------------------------------------------------------------------
(* The third pass                                                          *)

Result == [visible : SUBSET Actions, shown : SUBSET Actions, hidden : SUBSET Actions]

(* A batch starts from a view that shows the old tree.                     *)
LEMMA VisitingStarts ==
    ASSUME NEW t \in Tree, NEW v, Shown(t, v), CountedBelow(t), NEW r \in Tree,
           NEW C \in SUBSET Actions, r.visible = t.visible,
           \A a \in Actions \ C :
               /\ a \in r.matching <=> a \in t.matching
               /\ r.below[a] = t.below[a] /\ Current(r, a) = Current(t, a)
    PROVE  NoResult(t) \in Result /\ Visiting(r, v, NoResult(t), C)
  <1> DEFINE c == NoResult(t)
  <1>1. c.visible = t.visible /\ c.shown = {} /\ c.hidden = {} /\ t.visible \subseteq Actions
      BY DEF NoResult, Tree
  <1>2. NoResult(t) \in Result
      BY DEF NoResult, Tree, Result
  <1>3. t.visible = Relevant(t) /\ \A a \in Actions : v[a] = IF a \in Relevant(t) THEN Current(t, a) ELSE Hidden
      BY DEF Shown
  <1>4. \A d \in r.visible : Ancestors[d] \subseteq r.visible
      BY <1>3, RelevantClosed
  <1>5. \A a \in Actions \ r.visible : v[a] = Hidden
      BY <1>3
  <1>6. ASSUME NEW a \in Actions \ C
        PROVE  /\ a \in r.visible \cap Relevant(r) => v[a] = Current(r, a)
               /\ a \in r.matching \ r.visible => FALSE
               /\ a \in r.visible \ Relevant(r) => FALSE
    <2>1. /\ a \in r.matching <=> a \in t.matching
          /\ r.below[a] = t.below[a] /\ Current(r, a) = Current(t, a)
        OBVIOUS
    <2>2. a \in Relevant(r) <=> a \in Relevant(t)
        BY <2>1 DEF Relevant
    <2> QED BY <1>3, <2>1, <2>2 DEF Relevant
  <1>7. Visiting(r, v, c, C)
    <2> HIDE DEF c
    <2> QED BY <1>1, <1>4, <1>5, <1>6 DEF Visiting
  <1> QED BY <1>2, <1>7

(* What is shown stays relevant and rooted; what is hidden is not relevant.*)
LEMMA ShowKeeps ==
    ASSUME NEW t \in Tree, NEW v, NEW c \in Result, NEW rest \in SUBSET Actions, NEW a \in rest,
           Visiting(t, v, c, rest), NEW S \in SUBSET Relevant(t), a \in S,
           \A d \in S : Ancestors[d] \subseteq t.visible \cup c.shown \cup S,
           NEW n, n = Show(c, S)
    PROVE  n \in Result /\ Visiting(t, v, n, rest \ {a})
  <1>1. /\ n = [visible |-> c.visible \cup S, shown |-> c.shown \cup S, hidden |-> c.hidden \ S]
        /\ n.visible = c.visible \cup S /\ n.shown = c.shown \cup S /\ n.hidden = c.hidden \ S
      BY DEF Show
  <1>2. Relevant(t) \subseteq Actions
      BY DEF Relevant
  <1>3. n \in Result
      BY <1>1, <1>2 DEF Result
  <1>4. /\ c.visible = (t.visible \ c.hidden) \cup c.shown
        /\ c.shown \subseteq Relevant(t) /\ c.hidden \cap Relevant(t) = {}
        /\ \A d \in t.visible : Ancestors[d] \subseteq t.visible
        /\ \A d \in c.shown : Ancestors[d] \subseteq t.visible \cup c.shown
        /\ \A b \in Actions \ t.visible : v[b] = Hidden
      BY DEF Visiting
  <1>5. c.hidden \ S = c.hidden
      BY <1>4
  <1>6. \A d \in n.shown : Ancestors[d] \subseteq t.visible \cup n.shown
      BY <1>1, <1>4
  <1>7. ASSUME NEW b \in Actions \ (rest \ {a})
        PROVE  /\ b \in t.visible \cap Relevant(t) => b \in n.shown \/ v[b] = Current(t, b)
               /\ b \in t.matching \ t.visible => b \in n.shown
               /\ b \in t.visible \ Relevant(t) => b \in n.hidden
    <2>1. CASE b = a
        BY <1>1, <2>1
    <2>2. CASE b \in Actions \ rest
        BY <1>1, <1>5, <2>2 DEF Visiting
    <2> QED BY <2>1, <2>2
  <1> QED BY <1>1, <1>3, <1>4, <1>5, <1>6, <1>7 DEF Visiting

LEMMA HideKeeps ==
    ASSUME NEW t \in Tree, NEW v, NEW c \in Result, NEW rest \in SUBSET Actions, NEW a \in rest,
           Visiting(t, v, c, rest), a \notin Relevant(t),
           NEW n, n = Hide(t, c, a)
    PROVE  n \in Result /\ Visiting(t, v, n, rest \ {a})
  <1> DEFINE P == pruneAncestors(t, c, a)
             S == {a} \cup P
  <1>1. ASSUME NEW b \in P PROVE b \in Actions /\ b \notin Relevant(t)
    <2>1. b \in Ancestors[a] /\ \A d \in Ancestors[a] \cap ({b} \cup Descendants(b)) :
                                   d \in c.visible /\ t.below[d] = 0 /\ d \notin t.matching
        BY DEF pruneAncestors
    <2>2. t.below[b] = 0 /\ b \notin t.matching
        BY <2>1
    <2> QED BY <2>1, <2>2, AncestorsTyped DEF Relevant
  <1>2. S \subseteq Actions /\ S \cap Relevant(t) = {}
      BY <1>1
  <1>3. /\ c.visible = (t.visible \ c.hidden) \cup c.shown
        /\ c.shown \subseteq Relevant(t) /\ c.hidden \cap Relevant(t) = {}
        /\ \A d \in t.visible : Ancestors[d] \subseteq t.visible
        /\ \A d \in c.shown : Ancestors[d] \subseteq t.visible \cup c.shown
        /\ \A b \in Actions \ t.visible : v[b] = Hidden
      BY DEF Visiting
  <1>4. /\ n = [visible |-> c.visible \ S, shown |-> c.shown,
                hidden |-> c.hidden \cup {a} \cup (P \ c.shown)]
        /\ n.visible = c.visible \ S /\ n.shown = c.shown
        /\ n.hidden = c.hidden \cup {a} \cup (P \ c.shown)
      BY DEF Hide
  <1> HIDE DEF P
  <1>5. P \ c.shown = P /\ n.hidden = c.hidden \cup S
      BY <1>2, <1>3, <1>4
  <1>6. n \in Result
      BY <1>2, <1>4, <1>5 DEF Result
  <1>7. n.visible = (t.visible \ n.hidden) \cup n.shown
      BY <1>2, <1>3, <1>4, <1>5
  <1>8. ASSUME NEW b \in Actions \ (rest \ {a})
        PROVE  /\ b \in t.visible \cap Relevant(t) => b \in n.shown \/ v[b] = Current(t, b)
               /\ b \in t.matching \ t.visible => b \in n.shown
               /\ b \in t.visible \ Relevant(t) => b \in n.hidden
    <2>1. CASE b = a
        BY <1>5, <2>1 DEF Relevant
    <2>2. CASE b \in Actions \ rest
        BY <1>4, <1>5, <2>2 DEF Visiting
    <2> QED BY <2>1, <2>2
  <1> QED BY <1>2, <1>3, <1>4, <1>5, <1>6, <1>7, <1>8 DEF Visiting

LEMMA VisitKeeps ==
    ASSUME NEW t \in Tree, CountedBelow(t), NEW v, NEW c \in Result,
           NEW rest \in SUBSET Actions, NEW a \in rest, Visiting(t, v, c, rest),
           NEW n, n = Visit(t, c, a)
    PROVE  n \in Result /\ Visiting(t, v, n, rest \ {a})
  <1>1. /\ c.visible = (t.visible \ c.hidden) \cup c.shown
        /\ c.shown \subseteq Relevant(t) /\ c.hidden \cap Relevant(t) = {}
        /\ \A d \in t.visible : Ancestors[d] \subseteq t.visible
        /\ \A d \in c.shown : Ancestors[d] \subseteq t.visible \cup c.shown
      BY DEF Visiting
  <1>2. a \in Actions /\ t.below[a] \in Nat
      BY DEF Tree
  <1>3. ASSUME n = c, a \in c.shown \cup c.hidden \/ a \notin c.visible \cup t.matching
        PROVE  n \in Result /\ Visiting(t, v, n, rest \ {a})
    <2>1. ASSUME NEW b \in Actions \ (rest \ {a})
          PROVE  /\ b \in t.visible \cap Relevant(t) => b \in c.shown \/ v[b] = Current(t, b)
                 /\ b \in t.matching \ t.visible => b \in c.shown
                 /\ b \in t.visible \ Relevant(t) => b \in c.hidden
      <3>1. CASE b = a
          BY <1>1, <1>3, <3>1 DEF Relevant
      <3>2. CASE b \in Actions \ rest
          BY <3>2 DEF Visiting
      <3> QED BY <3>1, <3>2
    <2> QED BY <1>3, <2>1 DEF Visiting
  <1>4. CASE a \in c.shown \cup c.hidden
    <2>1. n = c
        BY <1>1, <1>4 DEF Visit
    <2> QED BY <1>3, <1>4, <2>1
  <1>5. CASE a \in t.matching \ (c.shown \cup c.hidden)
    <2> DEFINE S == {a} \cup (Ancestors[a] \ c.visible)
    <2>1. n = Show(c, S)
        BY <1>5 DEF Visit
    <2>2. a \in Relevant(t) /\ Ancestors[a] \subseteq Relevant(t)
        BY <1>2, <1>5, RelevantClosed DEF Relevant
    <2>3. ASSUME NEW d \in S PROVE Ancestors[d] \subseteq t.visible \cup c.shown \cup S
      <3>1. Ancestors[d] \subseteq Ancestors[a]
          BY <1>2, AncestorsPass
      <3>2. Ancestors[a] \subseteq t.visible \cup c.shown \cup S
          BY <1>1
      <3> QED BY <3>1, <3>2
    <2> HIDE DEF S
    <2>4. S \in SUBSET Relevant(t) /\ a \in S
        BY <2>2 DEF S
    <2> QED BY <2>1, <2>3, <2>4, ShowKeeps
  <1>6. CASE a \in c.visible \ (t.matching \cup c.shown) /\ t.below[a] > 0
    <2>1. a \notin c.shown \cup c.hidden
        BY <1>1, <1>6
    <2>2. n = Show(c, {a})
        BY <1>6, <2>1 DEF Visit
    <2>3. a \in Relevant(t) /\ a \in t.visible
        BY <1>1, <1>2, <1>6 DEF Relevant
    <2> QED BY <1>1, <2>2, <2>3, ShowKeeps
  <1>7. CASE a \in c.visible \ (t.matching \cup c.shown) /\ ~(t.below[a] > 0)
    <2>1. a \notin c.shown \cup c.hidden
        BY <1>1, <1>7
    <2>2. n = Hide(t, c, a)
        BY <1>7, <2>1 DEF Visit
    <2>3. a \notin Relevant(t)
        BY <1>7 DEF Relevant
    <2> QED BY <2>2, <2>3, HideKeeps
  <1>8. CASE a \notin c.shown \cup c.hidden \cup t.matching \cup c.visible
    <2>1. n = c
        BY <1>8 DEF Visit
    <2> QED BY <1>3, <1>8, <2>1
  <1> QED BY <1>4, <1>5, <1>6, <1>7, <1>8

(* When all have been visited, the client is sent what it lacks.           *)
LEMMA VisitingEnds ==
    ASSUME NEW t \in Tree, CountedBelow(t), NEW v, NEW c \in Result, Visiting(t, v, c, {})
    PROVE  Shown([t EXCEPT !.visible = c.visible], Received(v, t, c))
  <1>1. /\ c.visible = (t.visible \ c.hidden) \cup c.shown
        /\ c.shown \subseteq Relevant(t) /\ c.hidden \cap Relevant(t) = {}
        /\ \A d \in t.visible : Ancestors[d] \subseteq t.visible
        /\ \A d \in c.shown : Ancestors[d] \subseteq t.visible \cup c.shown
        /\ \A b \in Actions \ t.visible : v[b] = Hidden
        /\ \A a \in Actions :
             /\ a \in t.visible \cap Relevant(t) => a \in c.shown \/ v[a] = Current(t, a)
             /\ a \in t.matching \ t.visible => a \in c.shown
             /\ a \in t.visible \ Relevant(t) => a \in c.hidden
      BY DEF Visiting
  <1>2. t.matching \subseteq Actions /\ t.visible \subseteq Actions
      BY DEF Tree
  <1>3. Relevant(t) \subseteq c.visible
    <2> SUFFICES ASSUME NEW a \in Relevant(t) PROVE a \in t.visible \cup c.shown
        BY <1>1
    <2>1. PICK m \in t.matching : m = a \/ a \in Ancestors[m]
        BY BelowCounts DEF Relevant
    <2>2. m \in t.visible \cup c.shown
        BY <1>1, <1>2
    <2> QED BY <1>1, <2>1, <2>2
  <1>4. c.visible \subseteq Relevant(t)
      BY <1>1, <1>2
  <1>5. ASSUME NEW a \in Actions
        PROVE  Received(v, t, c)[a] = IF a \in Relevant(t) THEN Current(t, a) ELSE Hidden
    <2>1. Received(v, t, c)[a] = IF a \in c.shown THEN Current(t, a)
                                 ELSE IF a \in c.hidden THEN Hidden ELSE v[a]
        BY DEF Received, Current
    <2>2. CASE a \in c.shown
        BY <1>1, <2>1, <2>2
    <2>3. CASE a \in c.hidden /\ a \notin c.shown
        BY <1>1, <2>1, <2>3
    <2>4. CASE a \notin c.hidden \cup c.shown
      <3>1. CASE a \in Relevant(t)
          BY <1>1, <1>3, <2>1, <2>4, <3>1
      <3>2. CASE a \notin Relevant(t)
          BY <1>1, <2>1, <2>4, <3>2
      <3> QED BY <3>1, <3>2
    <2> QED BY <2>2, <2>3, <2>4
  <1> DEFINE n == [t EXCEPT !.visible = c.visible]
  <1>6. /\ n.visible = c.visible /\ n.matching = t.matching /\ n.below = t.below
        /\ n.phase = t.phase /\ n.counts = t.counts
      BY DEF Tree
  <1> HIDE DEF n
  <1>7. Relevant(n) = Relevant(t) /\ \A a : Current(n, a) = Current(t, a)
      BY <1>6 DEF Relevant, Current
  <1>8. Received(v, t, c) = [a \in Actions |-> IF a \in Relevant(t) THEN Current(t, a) ELSE Hidden]
    <2>1. Received(v, t, c) = [a \in Actions |-> Received(v, t, c)[a]]
        BY DEF Received
    <2> QED BY <1>5, <2>1
  <1>9. Shown(n, Received(v, t, c))
      BY <1>3, <1>4, <1>6, <1>7, <1>8 DEF Shown
  <1> QED BY <1>9 DEF n

-----------------------------------------------------------------------------
(* The invariant                                                           *)

Rows == {a \in Actions : row[a].exists}

(* Whatever waits to be read is in the table.                              *)
RowsOK ==
    /\ \A a \in Rows : row[a].phase \in Phases
    /\ \A a \in Actions : notes[a] > 0 => a \in Rows
    /\ \A a \in Actions : notes[a] + writes <= MaxWrites
    /\ buffer \in Seq(Rows) /\ pending \subseteq Rows /\ unread \in Seq(Rows)

StreamOK ==
    /\ tree \in Tree
    /\ Rooted(tree) /\ Counted(tree) /\ Filtered(tree, filter)
    /\ IF todo = {} THEN Shown(tree, view) ELSE Visiting(tree, view, acc, todo)

IInv == TypeOK /\ RowsOK /\ StreamOK

LEMMA StreamKept == ASSUME StreamOK, UNCHANGED run PROVE StreamOK'
  <1>1. filter' = filter /\ tree' = tree /\ view' = view /\ todo' = todo /\ acc' = acc
      BY DEF run
  <1>2. /\ tree' \in Tree /\ Rooted(tree') /\ Counted(tree') /\ Filtered(tree', filter')
        /\ IF todo' = {} THEN Shown(tree', view') ELSE Visiting(tree', view', acc', todo')
      BY <1>1 DEF StreamOK
  <1> QED BY <1>2 DEF StreamOK, Tree, Rooted, HasParents, InTree, Counted, Filtered, CountedBelow,
          doesActionMatchFilters, Shown, Visiting, Relevant, Current

(* A batch is rejected, changes nothing, or is to be visited.              *)
LEMMA ApplyKeeps ==
    ASSUME StreamOK, acc \in Result, Settled, NEW batch \in Seq(Update), NEW next,
           Apply(batch, next), UNCHANGED <<filter, view>>
    PROVE  StreamOK' /\ acc' \in Result /\ todo' \subseteq Actions /\ pc' \in {next, "ended"}
  <1> DEFINE C == Changed(batch)
             u == upsertRows(tree, batch)
             r == Rematch(u, C, filter)
  <1>1. /\ tree \in Tree /\ Rooted(tree) /\ Counted(tree) /\ Filtered(tree, filter)
        /\ todo = {} /\ Shown(tree, view)
      BY DEF StreamOK, Settled
  <1>2. CASE HasOrphan(tree, batch)
    <2>1. pc' = "ended" /\ UNCHANGED run
        BY <1>2 DEF Apply, run
    <2> QED BY <1>1, <2>1, StreamKept DEF run
  <1>3. CASE ~HasOrphan(tree, batch)
    <2>1. pc' = next /\ todo' = C /\ tree' = r /\ acc' = NoResult(tree)
        BY <1>3 DEF Apply
    <2>2. C \subseteq Actions /\ \A d \in C : Ancestors[d] \subseteq C
        BY UpdatesTyped, ChangedClosed DEF Update
    <2>3. CountedBelow(tree) /\ tree.matching = {a \in Actions : doesActionMatchFilters(a, tree.phase, filter)}
        BY <1>1 DEF Filtered
    <2>4. /\ u \in Tree /\ Counted(u) /\ Rooted(u)
          /\ u.matching = tree.matching /\ u.below = tree.below /\ u.visible = tree.visible
          /\ \A a \in Actions \ C : Current(u, a) = Current(tree, a)
        BY <1>1, <1>3, Upserted
    <2> HIDE DEF u, C
    <2>5. CountedBelow(u)
        BY <2>3, <2>4 DEF CountedBelow
    <2>6. ASSUME NEW a \in Actions \ C
          PROVE  a \in u.matching <=> doesActionMatchFilters(a, u.phase, filter)
      <3>1. u.phase[a] = tree.phase[a]
          BY <2>4 DEF Current
      <3>2. doesActionMatchFilters(a, u.phase, filter) <=> doesActionMatchFilters(a, tree.phase, filter)
          BY <3>1 DEF doesActionMatchFilters
      <3>3. a \in tree.matching <=> doesActionMatchFilters(a, tree.phase, filter)
          BY <2>3
      <3> QED BY <2>4, <3>2, <3>3
    <2>7. /\ r \in Tree /\ Filtered(r, filter)
          /\ r.phase = u.phase /\ r.counts = u.counts /\ r.visible = u.visible
          /\ \A a \in Actions \ C : (a \in r.matching <=> a \in u.matching) /\ r.below[a] = u.below[a]
        BY <2>2, <2>4, <2>5, <2>6, Rematched
    <2> HIDE DEF r
    <2>8. Rooted(r) /\ Counted(r)
        BY <2>4, <2>7 DEF Rooted, InTree, Counted
    <2>9. \A a \in Actions \ C :
              /\ a \in r.matching <=> a \in tree.matching
              /\ r.below[a] = tree.below[a] /\ Current(r, a) = Current(tree, a)
        BY <2>4, <2>7 DEF Current
    <2>10. NoResult(tree) \in Result /\ Visiting(r, view, NoResult(tree), C)
        BY <1>1, <2>2, <2>3, <2>4, <2>7, <2>9, VisitingStarts
    <2>11. C = {} => Shown(r, view)
      <3> DEFINE c == NoResult(tree)
                 n == [r EXCEPT !.visible = c.visible]
      <3>1. c.visible = tree.visible /\ c.shown = {} /\ c.hidden = {}
          BY DEF NoResult
      <3>2. n = r
        <4>1. c.visible = r.visible
            BY <2>4, <2>7, <3>1
        <4> QED BY <2>7, <4>1 DEF Tree
      <3>3. Received(view, r, c) = view
        <4>1. \E f : view = [a \in Actions |-> f[a]]
            BY <1>1 DEF Shown
        <4>2. Received(view, r, c) = [a \in Actions |-> view[a]]
            BY <3>1 DEF Received
        <4> QED BY <4>1, <4>2
      <3>4. CountedBelow(r)
          BY <2>7 DEF Filtered
      <3>5. C = {} => Shown(n, Received(view, r, c))
          BY <2>7, <2>10, <3>4, VisitingEnds
      <3> HIDE DEF c, n
      <3> QED BY <3>2, <3>3, <3>5
    <2>12. IF C = {} THEN Shown(r, view) ELSE Visiting(r, view, NoResult(tree), C)
        BY <2>10, <2>11
    <2>13. StreamOK'
      <3>1. /\ tree' \in Tree /\ Rooted(tree') /\ Counted(tree') /\ Filtered(tree', filter')
            /\ IF todo' = {} THEN Shown(tree', view') ELSE Visiting(tree', view', acc', todo')
          BY <2>1, <2>7, <2>8, <2>12
      <3> QED BY <3>1 DEF StreamOK, Tree, Rooted, HasParents, InTree, Counted, Filtered, CountedBelow,
              doesActionMatchFilters, Shown, Visiting, Relevant, Current
    <2> QED BY <2>1, <2>2, <2>10, <2>13
  <1> QED BY <1>2, <1>3

LEMMA VisitNodeKeeps ==
    ASSUME StreamOK, acc \in Result, todo \subseteq Actions, NEW a \in Actions, VisitNode(a)
    PROVE  StreamOK' /\ acc' \in Result /\ todo' \subseteq Actions
  <1>1. /\ a \in todo /\ todo' = todo \ {a} /\ acc' = Visit(tree, acc, a) /\ filter' = filter
        /\ IF todo = {a}
           THEN tree' = [tree EXCEPT !.visible = acc'.visible] /\ view' = Received(view, tree, acc')
           ELSE tree' = tree /\ view' = view
      BY DEF VisitNode
  <1>2. /\ tree \in Tree /\ Rooted(tree) /\ Counted(tree) /\ Filtered(tree, filter)
        /\ CountedBelow(tree) /\ Visiting(tree, view, acc, todo)
      BY <1>1 DEF StreamOK, Filtered
  <1>3. acc' \in Result /\ Visiting(tree, view, acc', todo \ {a})
      BY <1>1, <1>2, VisitKeeps
  <1>4. /\ tree' \in Tree /\ Rooted(tree') /\ Counted(tree') /\ Filtered(tree', filter)
        /\ IF todo' = {} THEN Shown(tree', view') ELSE Visiting(tree', view', acc', todo')
    <2>1. CASE todo = {a}
      <3>1. todo \ {a} = {} /\ todo' = {}
          BY <1>1, <2>1
      <3>2. Shown(tree', view')
          BY <1>1, <1>2, <1>3, <2>1, <3>1, VisitingEnds
      <3>3. /\ tree' = [phase |-> tree.phase, counts |-> tree.counts, matching |-> tree.matching,
                        below |-> tree.below, visible |-> acc'.visible]
            /\ acc'.visible \in SUBSET Actions
          BY <1>1, <1>2, <1>3, <2>1 DEF Tree, Result
      <3>4. /\ tree' \in Tree /\ tree'.phase = tree.phase /\ tree'.counts = tree.counts
            /\ tree'.matching = tree.matching /\ tree'.below = tree.below
          BY <1>2, <3>3 DEF Tree
      <3>5. Rooted(tree') /\ Counted(tree') /\ Filtered(tree', filter)
          BY <1>2, <3>4 DEF Rooted, InTree, Counted, Filtered, CountedBelow
      <3> QED BY <3>1, <3>2, <3>4, <3>5
    <2>2. CASE todo # {a}
        BY <1>1, <1>2, <1>3, <2>2
    <2> QED BY <2>1, <2>2
  <1>5. StreamOK'
      BY <1>1, <1>4 DEF StreamOK, Tree, Rooted, HasParents, InTree, Counted, Filtered, CountedBelow,
         doesActionMatchFilters, Shown, Visiting, Relevant, Current
  <1> QED BY <1>1, <1>3, <1>5

-----------------------------------------------------------------------------
(* Sequences                                                               *)

LEMMA Removed ==
    ASSUME NEW S, NEW s \in Seq(S), NEW j \in DOMAIN s
    PROVE  RemoveAt(s, j) \in Seq(S) /\ Len(RemoveAt(s, j)) = Len(s) - 1
  <1>1. Len(s) \in Nat /\ DOMAIN s = 1..Len(s) /\ j \in 1..Len(s)
      BY LenProperties
  <1>2. \A i \in 1..Len(s) : s[i] \in S
      BY ElementOfSeq
  <1>3. SubSeq(s, 1, j - 1) \in Seq(S) /\ Len(SubSeq(s, 1, j - 1)) = j - 1
    <2>1. 1 \in Int /\ j - 1 \in Int /\ \A i \in 1..(j - 1) : s[i] \in S
        BY <1>1, <1>2
    <2>2. /\ SubSeq(s, 1, j - 1) \in Seq(S)
          /\ Len(SubSeq(s, 1, j - 1)) = IF 1 <= j - 1 THEN j - 1 - 1 + 1 ELSE 0
        BY <2>1, SubSeqProperties
    <2> QED BY <1>1, <2>2
  <1>4. SubSeq(s, j + 1, Len(s)) \in Seq(S) /\ Len(SubSeq(s, j + 1, Len(s))) = Len(s) - j
    <2>1. j + 1 \in Int /\ Len(s) \in Int /\ \A i \in (j + 1)..Len(s) : s[i] \in S
        BY <1>1, <1>2
    <2>2. /\ SubSeq(s, j + 1, Len(s)) \in Seq(S)
          /\ Len(SubSeq(s, j + 1, Len(s))) = IF j + 1 <= Len(s) THEN Len(s) - (j + 1) + 1 ELSE 0
        BY <2>1, SubSeqProperties
    <2> QED BY <1>1, <2>2
  <1> DEFINE x == SubSeq(s, 1, j - 1)
             y == SubSeq(s, j + 1, Len(s))
  <1>5. RemoveAt(s, j) = x \o y
      BY DEF RemoveAt
  <1> HIDE DEF x, y
  <1>6. x \o y \in Seq(S) /\ Len(x \o y) = Len(x) + Len(y)
      BY <1>3, <1>4, ConcatProperties DEF x, y
  <1>7. Len(x) = j - 1 /\ Len(y) = Len(s) - j
      BY <1>3, <1>4 DEF x, y
  <1> QED BY <1>1, <1>5, <1>6, <1>7

LEMMA Inserted ==
    ASSUME NEW S, NEW s \in Seq(S), NEW e \in S, NEW i \in 1..Len(s)
    PROVE  InsertAt(s, i, e) \in Seq(S)
  <1>1. Len(s) \in Nat /\ \A k \in 1..Len(s) : s[k] \in S
      BY LenProperties, ElementOfSeq
  <1>2. SubSeq(s, 1, i - 1) \in Seq(S)
    <2>1. 1 \in Int /\ i - 1 \in Int /\ \A k \in 1..(i - 1) : s[k] \in S
        BY <1>1
    <2> QED BY <2>1, SubSeqProperties
  <1>3. SubSeq(s, i, Len(s)) \in Seq(S)
    <2>1. i \in Int /\ Len(s) \in Int /\ \A k \in i..Len(s) : s[k] \in S
        BY <1>1
    <2> QED BY <2>1, SubSeqProperties
  <1>4. <<e>> \in Seq(S)
      OBVIOUS
  <1> QED BY <1>2, <1>3, <1>4, ConcatProperties DEF InsertAt

LEMMA MembersOfSeq ==
    ASSUME NEW S, NEW s \in Seq(S) PROVE ToSet(s) \subseteq S
  BY ElementOfSeq, LenProperties DEF ToSet

-----------------------------------------------------------------------------
(* The table and the notifications                                         *)

LEMMA RowsTyped ==
    ASSUME NEW phase \in Phases
    PROVE  /\ CreateAction(NoRow) \in RowType(1, 0) /\ CreateAction(NoRow).exists
           /\ CreateAction(NoRow).phase = QUEUED
           /\ \A r \in RowType(1, 0) :
                /\ UpdateActionPhase(r, phase, 1) \in RowType(1, 0)
                /\ UpdateActionPhase(r, phase, 1).exists = r.exists
                /\ ~r.exists => CreateAction(r) = CreateAction(NoRow)
  <1>1. phase \in UNSPECIFIED..RECOVERED
      BY TreeAssumption DEF UNSPECIFIED, RECOVERED
  <1>2. /\ CreateAction(NoRow) \in RowType(1, 0) /\ CreateAction(NoRow).exists
        /\ CreateAction(NoRow).phase = QUEUED
    <2>1. CreateAction(NoRow) = [exists |-> TRUE, phase |-> QUEUED, attempts |-> 1,
                                 abortRequested |-> FALSE, abortAttempts |-> 0]
        BY DEF CreateAction, NoRow
    <2> QED BY <2>1 DEF RowType, QUEUED, UNSPECIFIED, RECOVERED
  <1>3. ASSUME NEW r \in RowType(1, 0)
        PROVE  /\ UpdateActionPhase(r, phase, 1) \in RowType(1, 0)
               /\ UpdateActionPhase(r, phase, 1).exists = r.exists
               /\ ~r.exists => CreateAction(r) = CreateAction(NoRow)
    <2>1. ~r.exists => CreateAction(r) = CreateAction(NoRow)
        BY DEF CreateAction, NoRow
    <2>2. CASE r.exists /\ (r.phase <= phase \/ r.phase \in {FAILED, TIMED_OUT})
      <3>1. UpdateActionPhase(r, phase, 1) = [r EXCEPT !.phase = phase, !.attempts = 1]
          BY <2>2 DEF UpdateActionPhase
      <3>2. /\ r.exists \in BOOLEAN /\ r.abortRequested \in BOOLEAN /\ r.abortAttempts \in 0..0
            /\ UpdateActionPhase(r, phase, 1) =
                 [exists |-> r.exists, phase |-> phase, attempts |-> 1,
                  abortRequested |-> r.abortRequested, abortAttempts |-> r.abortAttempts]
          BY <3>1 DEF RowType
      <3> QED BY <1>1, <2>1, <3>2 DEF RowType
    <2>3. CASE ~(r.exists /\ (r.phase <= phase \/ r.phase \in {FAILED, TIMED_OUT}))
      <3>1. UpdateActionPhase(r, phase, 1) = r
          BY <2>3 DEF UpdateActionPhase
      <3> QED BY <2>1, <3>1
    <2> QED BY <2>2, <2>3
  <1> QED BY <1>2, <1>3

(* A write puts a row that exists, and one notification of it.             *)
LEMMA RowWritten ==
    ASSUME TypeOK, RowsOK, NEW a \in Actions, NEW r \in RowType(1, 0), r.exists, r.phase \in Phases,
           row' = [row EXCEPT ![a] = r], writes > 0, writes' = writes - 1, notifyActionUpdate(a)
    PROVE  /\ row' \in [Actions -> RowType(1, 0)] /\ notes' \in [Actions -> 0..MaxWrites]
           /\ writes' \in 0..MaxWrites
           /\ Rows' = Rows \cup {a}
           /\ \A b \in Rows' : row'[b].phase \in Phases
           /\ \A b \in Actions : notes'[b] > 0 => b \in Rows'
           /\ \A b \in Actions : notes'[b] + writes' <= MaxWrites
  <1>1. /\ row \in [Actions -> RowType(1, 0)] /\ notes \in [Actions -> 0..MaxWrites]
        /\ writes \in 0..MaxWrites /\ MaxWrites \in Nat
      BY StreamAssumption DEF TypeOK
  <1>2. row' \in [Actions -> RowType(1, 0)] /\ row'[a] = r /\ \A b \in Actions \ {a} : row'[b] = row[b]
      BY <1>1
  <1>3. Rows' = Rows \cup {a}
      BY <1>2 DEF Rows
  <1>4. notes'[a] = notes[a] + 1 /\ \A b \in Actions \ {a} : notes'[b] = notes[b]
      BY <1>1 DEF notifyActionUpdate
  <1>5. \A b \in Actions : notes[b] \in Nat /\ notes[b] + writes <= MaxWrites
      BY <1>1 DEF RowsOK
  <1>6. \A b \in Actions : notes'[b] \in 0..MaxWrites /\ notes'[b] + writes' <= MaxWrites
      BY <1>1, <1>4, <1>5
  <1>7. notes' \in [Actions -> 0..MaxWrites]
      BY <1>1, <1>6 DEF notifyActionUpdate
  <1>8. \A b \in Rows' : row'[b].phase \in Phases
      BY <1>2, <1>3 DEF RowsOK, Rows
  <1>9. \A b \in Actions : notes'[b] > 0 => b \in Rows'
      BY <1>3, <1>4 DEF RowsOK
  <1> QED BY <1>1, <1>2, <1>3, <1>6, <1>7, <1>8, <1>9

LEMMA NoteTaken ==
    ASSUME TypeOK, RowsOK, NEW a \in Actions, notes[a] > 0, notes' = [notes EXCEPT ![a] = @ - 1],
           row' = row, writes' = writes
    PROVE  /\ notes' \in [Actions -> 0..MaxWrites] /\ a \in Rows
           /\ \A b \in Actions : notes'[b] > 0 => b \in Rows'
           /\ \A b \in Actions : notes'[b] + writes' <= MaxWrites
  <1>1. notes \in [Actions -> 0..MaxWrites] /\ writes \in 0..MaxWrites /\ MaxWrites \in Nat
      BY StreamAssumption DEF TypeOK
  <1>2. notes'[a] = notes[a] - 1 /\ \A b \in Actions \ {a} : notes'[b] = notes[b]
      BY <1>1
  <1>3. \A b \in Actions : notes[b] \in Nat /\ notes[b] + writes <= MaxWrites /\ (notes[b] > 0 => b \in Rows)
      BY <1>1 DEF RowsOK
  <1>4. \A b \in Actions : notes'[b] \in 0..MaxWrites /\ notes'[b] <= notes[b]
      BY <1>1, <1>2, <1>3
  <1>5. notes' \in [Actions -> 0..MaxWrites]
      BY <1>1, <1>4
  <1>6. Rows' = Rows
      BY DEF Rows
  <1>7. ASSUME NEW b \in Actions PROVE (notes'[b] > 0 => b \in Rows') /\ notes'[b] + writes' <= MaxWrites
    <2>1. /\ notes'[b] \in Nat /\ notes[b] \in Nat /\ notes'[b] <= notes[b] /\ writes \in Nat
          /\ notes[b] + writes <= MaxWrites /\ (notes[b] > 0 => b \in Rows)
        BY <1>1, <1>3, <1>4
    <2> QED BY <1>1, <1>6, <2>1
  <1> QED BY <1>3, <1>5, <1>7

-----------------------------------------------------------------------------
(* Every step keeps the invariant                                          *)

LEMMA InitOK == Init => IInv
  <1> SUFFICES ASSUME Init PROVE IInv
      OBVIOUS
  <1>1. PICK S \in SUBSET Actions :
            /\ HasParents(S) /\ Root \in S
            /\ row = [a \in Actions |-> IF a \in S THEN CreateAction(NoRow) ELSE NoRow]
            /\ unread \in {s \in SetToSeqs(S) : ParentsFirst(s)}
      BY DEF Init
  <1>2. /\ notes = [a \in Actions |-> 0]
        /\ subscribed = FALSE /\ buffer = <<>> /\ pending = {} /\ updates = <<>>
        /\ pc = "list" /\ filter \in Filters
        /\ tree = NewTree /\ view = [a \in Actions |-> Hidden]
        /\ todo = {} /\ acc = NoResult(NewTree)
        /\ missed = FALSE
        /\ writes = MaxWrites /\ moves = MaxMoves /\ losses = MaxLosses
      BY DEF Init
  <1>3. /\ CreateAction(NoRow) \in RowType(1, 0) /\ CreateAction(NoRow).exists
        /\ CreateAction(NoRow).phase = QUEUED /\ QUEUED \in Phases
      BY TreeAssumption, RowsTyped
  <1>4. NoRow \in RowType(1, 0) /\ ~NoRow.exists
      BY DEF NoRow, RowType, UNSPECIFIED, RECOVERED
  <1>5. row \in [Actions -> RowType(1, 0)] /\ Rows = S /\ \A a \in Rows : row[a].phase \in Phases
      BY <1>1, <1>3, <1>4 DEF Rows
  <1>6. unread \in Seq(S)
    <2>1. IsFiniteSet(S)
        BY TreeAssumption, FS_Subset
    <2>2. Cardinality(S) \in Nat
        BY <2>1, FS_CardinalityType
    <2>3. unread \in [1..Cardinality(S) -> S]
        BY <1>1 DEF SetToSeqs
    <2> QED BY <2>2, <2>3
  <1>7. unread \in Seq(Actions)
      BY <1>6, SeqMonotonic
  <1>8. /\ NewTree \in Tree /\ NewTree.visible = {} /\ NewTree.matching = {}
        /\ \A a \in Actions : NewTree.phase[a] = UNSPECIFIED /\ NewTree.below[a] = 0
        /\ \A a \in Actions, p \in Phases : NewTree.counts[a][p] = 0
      BY DEF NewTree, Tree
  <1>9. NoResult(NewTree) \in Result
      BY <1>8 DEF NoResult, Result
  <1>10. Rooted(NewTree)
      BY <1>8 DEF Rooted, HasParents, InTree
  <1>11. Counted(NewTree)
    <2>1. ASSUME NEW a \in Actions, NEW p \in Phases
          PROVE  Cardinality({d \in Descendants(a) : NewTree.phase[d] = p}) = 0
      <3>1. p # UNSPECIFIED
          BY TreeAssumption DEF UNSPECIFIED, RECOVERED
      <3>2. {d \in Descendants(a) : NewTree.phase[d] = p} = {}
          BY <1>8, <3>1 DEF Descendants
      <3>3. Cardinality({}) = 0
          BY FS_EmptySet
      <3> QED BY <3>2, <3>3
    <2> QED BY <1>8, <2>1 DEF Counted
  <1>12. Filtered(NewTree, filter)
    <2>1. {a \in Actions : doesActionMatchFilters(a, NewTree.phase, filter)} = {}
        BY <1>8 DEF doesActionMatchFilters
    <2>2. ASSUME NEW a \in Actions PROVE NewTree.below[a] = Cardinality(NewTree.matching \cap Descendants(a))
      <3>1. NewTree.matching \cap Descendants(a) = {}
          BY <1>8
      <3>2. Cardinality({}) = 0
          BY FS_EmptySet
      <3> QED BY <1>8, <3>1, <3>2
    <2> QED BY <1>8, <2>1, <2>2 DEF Filtered, CountedBelow
  <1>13. Shown(NewTree, view)
    <2>1. Relevant(NewTree) = {}
        BY <1>8 DEF Relevant
    <2> QED BY <1>2, <1>8, <2>1 DEF Shown
  <1>14. StreamOK
      BY <1>2, <1>8, <1>10, <1>11, <1>12, <1>13 DEF StreamOK
  <1>15. RowsOK
    <2>1. \A a \in Actions : notes[a] = 0 /\ writes = MaxWrites /\ MaxWrites \in Nat
        BY <1>2, StreamAssumption
    <2>2. buffer \in Seq(Rows) /\ pending \subseteq Rows /\ unread \in Seq(Rows)
        BY <1>2, <1>5, <1>6
    <2> QED BY <1>5, <2>1, <2>2 DEF RowsOK
  <1>16. TypeOK
    <2>1. MaxWrites \in Nat /\ MaxMoves \in Nat /\ MaxLosses \in Nat /\ BufferSize \in Nat /\ UpdatesSize \in Nat
        BY StreamAssumption
    <2>2. notes \in [Actions -> 0..MaxWrites]
        BY <1>2, <2>1
    <2>3. writes \in 0..MaxWrites /\ moves \in 0..MaxMoves /\ losses \in 0..MaxLosses
        BY <1>2, <2>1
    <2>4. buffer \in Seq(Actions) /\ Len(buffer) <= BufferSize
        BY <1>2, <2>1
    <2>5. updates \in Seq([action : Actions, phase : Phases]) /\ Len(updates) <= UpdatesSize + 1
        BY <1>2, <2>1
    <2>6. acc \in [visible : SUBSET Actions, shown : SUBSET Actions, hidden : SUBSET Actions]
        BY <1>2, <1>9 DEF Result
    <2>7. \A a \in Actions : tree.phase[a] \in Phases \cup {UNSPECIFIED}
        BY <1>2, <1>8
    <2> QED BY <1>2, <1>5, <1>7, <2>2, <2>3, <2>4, <2>5, <2>6, <2>7 DEF TypeOK
  <1> QED BY <1>14, <1>15, <1>16 DEF IInv

(* What is not read any further stays where it was.                        *)
LEMMA WaitsOn ==
    ASSUME RowsOK, Rows \subseteq Rows'
    PROVE  buffer \in Seq(Rows') /\ pending \subseteq Rows' /\ unread \in Seq(Rows')
  BY SeqMonotonic DEF RowsOK

LEMMA CreateRowOK == ASSUME IInv, NEW a \in Actions, CreateRow(a) PROVE IInv'
  <1> USE DEF IInv
  <1>1. /\ writes > 0 /\ writes' = writes - 1 /\ ~row[a].exists /\ notifyActionUpdate(a)
        /\ row' = [row EXCEPT ![a] = CreateAction(@)]
        /\ unread' = IF pc = "list" THEN Append(unread, a) ELSE unread
        /\ UNCHANGED <<moves, subscribed, buffer, pending, updates, pc, missed, losses>> /\ UNCHANGED run
      BY DEF CreateRow, subscriber
  <1>2. row[a] \in RowType(1, 0) /\ QUEUED \in Phases
      BY TreeAssumption DEF TypeOK
  <1>3. /\ row' = [row EXCEPT ![a] = CreateAction(NoRow)] /\ CreateAction(NoRow) \in RowType(1, 0)
        /\ CreateAction(NoRow).exists /\ CreateAction(NoRow).phase \in Phases
      BY <1>1, <1>2, RowsTyped
  <1>4. /\ row' \in [Actions -> RowType(1, 0)] /\ notes' \in [Actions -> 0..MaxWrites]
        /\ writes' \in 0..MaxWrites
        /\ Rows' = Rows \cup {a}
        /\ \A b \in Rows' : row'[b].phase \in Phases
        /\ \A b \in Actions : notes'[b] > 0 => b \in Rows'
        /\ \A b \in Actions : notes'[b] + writes' <= MaxWrites
      BY <1>1, <1>3, RowWritten
  <1>5. Rows' \subseteq Actions
      BY <1>4 DEF Rows
  <1>6. buffer' \in Seq(Rows') /\ pending' \subseteq Rows' /\ unread \in Seq(Rows')
      BY <1>1, <1>4, WaitsOn
  <1>7. unread' \in Seq(Rows') /\ unread' \in Seq(Actions)
    <2>1. unread' \in Seq(Rows')
        BY <1>1, <1>4, <1>6, AppendProperties
    <2> QED BY <1>5, <2>1, SeqMonotonic
  <1>8. RowsOK'
      BY <1>4, <1>6, <1>7 DEF RowsOK
  <1>9. TypeOK'
      BY <1>1, <1>4, <1>7 DEF TypeOK, run
  <1> QED BY <1>1, <1>8, <1>9, StreamKept

LEMMA UpdateRowOK ==
    ASSUME IInv, NEW a \in Actions, NEW phase \in Phases, UpdateRow(a, phase)
    PROVE  /\ row' \in [Actions -> RowType(1, 0)] /\ notes' \in [Actions -> 0..MaxWrites]
           /\ writes' \in 0..MaxWrites
           /\ Rows' = Rows /\ a \in Rows
           /\ \A b \in Rows' : row'[b].phase \in Phases
           /\ \A b \in Actions : notes'[b] > 0 => b \in Rows'
           /\ \A b \in Actions : notes'[b] + writes' <= MaxWrites
  <1> USE DEF IInv
  <1> DEFINE r == UpdateActionPhase(row[a], phase, 1)
  <1>1. /\ writes > 0 /\ writes' = writes - 1 /\ row[a].exists /\ notifyActionUpdate(a)
        /\ row' = [row EXCEPT ![a] = r] /\ row'[a].phase = phase
      BY DEF UpdateRow
  <1>2. row[a] \in RowType(1, 0) /\ row \in [Actions -> RowType(1, 0)]
      BY DEF TypeOK
  <1>3. r \in RowType(1, 0) /\ r.exists
      BY <1>1, <1>2, RowsTyped
  <1> HIDE DEF r
  <1>4. r.phase \in Phases
      BY <1>1, <1>2
  <1>5. a \in Rows
      BY <1>1 DEF Rows
  <1> QED BY <1>1, <1>3, <1>4, <1>5, RowWritten

LEMMA SetPhaseOK == ASSUME IInv, NEW a \in Actions, SetPhase(a) PROVE IInv'
  <1> USE DEF IInv
  <1>1. /\ UNCHANGED <<moves, subscribed, buffer, pending, updates, unread, pc, missed, losses>>
        /\ UNCHANGED run
      BY DEF SetPhase, subscriber, handler
  <1>2. PICK phase \in Phases : UpdateRow(a, phase)
      BY DEF SetPhase
  <1>3. /\ row' \in [Actions -> RowType(1, 0)] /\ notes' \in [Actions -> 0..MaxWrites]
        /\ writes' \in 0..MaxWrites
        /\ Rows' = Rows
        /\ \A b \in Rows' : row'[b].phase \in Phases
        /\ \A b \in Actions : notes'[b] > 0 => b \in Rows'
        /\ \A b \in Actions : notes'[b] + writes' <= MaxWrites
      BY <1>2, UpdateRowOK
  <1>4. RowsOK'
      BY <1>1, <1>3 DEF RowsOK
  <1>5. TypeOK'
      BY <1>1, <1>3 DEF TypeOK, run
  <1> QED BY <1>1, <1>4, <1>5, StreamKept

LEMMA SetPhaseAndMoveOK == ASSUME IInv, NEW a \in Actions, SetPhaseAndMove(a) PROVE IInv'
  <1> USE DEF IInv
  <1>1. /\ moves > 0 /\ moves' = moves - 1 /\ RUNNING \in Phases /\ UpdateRow(a, RUNNING)
        /\ UNCHANGED <<subscribed, buffer, pending, updates, pc, missed, losses>> /\ UNCHANGED run
      BY DEF SetPhaseAndMove, subscriber
  <1>2. /\ row' \in [Actions -> RowType(1, 0)] /\ notes' \in [Actions -> 0..MaxWrites]
        /\ writes' \in 0..MaxWrites
        /\ Rows' = Rows /\ a \in Rows
        /\ \A b \in Rows' : row'[b].phase \in Phases
        /\ \A b \in Actions : notes'[b] > 0 => b \in Rows'
        /\ \A b \in Actions : notes'[b] + writes' <= MaxWrites
      BY <1>1, UpdateRowOK
  <1>3. unread' \in Seq(Rows)
    <2>1. PICK j \in DOMAIN unread :
              \/ unread' = RemoveAt(unread, j)
              \/ \E i \in 1..(j - 1) : unread' = InsertAt(RemoveAt(unread, j), i, a)
        BY DEF SetPhaseAndMove
    <2>2. unread \in Seq(Rows)
        BY DEF RowsOK
    <2>3. RemoveAt(unread, j) \in Seq(Rows) /\ Len(RemoveAt(unread, j)) = Len(unread) - 1
        BY <2>2, Removed
    <2>4. j \in 1..Len(unread) /\ Len(unread) \in Nat
        BY <2>2
    <2>5. ASSUME NEW i \in 1..(j - 1) PROVE i \in 1..Len(RemoveAt(unread, j))
        BY <2>3, <2>4
    <2>6. ASSUME NEW i \in 1..(j - 1) PROVE InsertAt(RemoveAt(unread, j), i, a) \in Seq(Rows)
        BY <1>2, <2>3, <2>5, Inserted
    <2> QED BY <2>1, <2>3, <2>6
  <1>4. unread' \in Seq(Actions)
      BY <1>3, SeqMonotonic DEF Rows
  <1>5. moves' \in 0..MaxMoves
      BY <1>1, StreamAssumption DEF TypeOK
  <1>6. RowsOK'
      BY <1>1, <1>2, <1>3 DEF RowsOK
  <1>7. TypeOK'
      BY <1>1, <1>2, <1>4, <1>5 DEF TypeOK, run
  <1> QED BY <1>1, <1>6, <1>7, StreamKept

LEMMA RowsSame == ASSUME row' = row PROVE Rows' = Rows
  BY DEF Rows

LEMMA SubscribeOK == ASSUME IInv, Subscribe PROVE IInv'
  <1> USE DEF IInv
  <1>1. /\ subscribed' = TRUE
        /\ UNCHANGED <<row, writes, moves, notes, buffer, pending, updates, unread, pc, missed, losses>>
        /\ UNCHANGED run
      BY DEF Subscribe, table, handler
  <1>2. RowsOK'
      BY <1>1, RowsSame DEF RowsOK
  <1>3. TypeOK'
      BY <1>1 DEF TypeOK, run
  <1> QED BY <1>1, <1>2, <1>3, StreamKept

LEMMA BroadcastOK == ASSUME IInv, NEW a \in Actions, Broadcast(a) PROVE IInv'
  <1> USE DEF IInv
  <1>1. /\ notes[a] > 0 /\ notes' = [notes EXCEPT ![a] = @ - 1]
        /\ UNCHANGED <<row, writes, moves, subscribed, pending, updates, unread, pc, losses>>
        /\ UNCHANGED run
      BY DEF Broadcast, table, handler
  <1>2. missed' \in BOOLEAN
      BY DEF Broadcast, Lost, TypeOK
  <1>3. /\ notes' \in [Actions -> 0..MaxWrites] /\ a \in Rows
        /\ \A b \in Actions : notes'[b] > 0 => b \in Rows'
        /\ \A b \in Actions : notes'[b] + writes' <= MaxWrites
      BY <1>1, NoteTaken
  <1>4. buffer' = buffer \/ (buffer' = Append(buffer, a) /\ Len(buffer) < BufferSize)
      BY DEF Broadcast
  <1>5. buffer \in Seq(Rows) /\ Len(buffer) <= BufferSize /\ BufferSize \in Nat
      BY StreamAssumption DEF RowsOK, TypeOK
  <1>6. buffer' \in Seq(Rows) /\ Len(buffer') <= BufferSize
    <2>1. CASE buffer' = buffer
        BY <1>5, <2>1
    <2>2. CASE buffer' = Append(buffer, a) /\ Len(buffer) < BufferSize
      <3>1. Append(buffer, a) \in Seq(Rows) /\ Len(Append(buffer, a)) = Len(buffer) + 1
          BY <1>3, <1>5, AppendProperties
      <3>2. Len(buffer) \in Nat
          BY <1>5, LenProperties
      <3> QED BY <1>5, <2>2, <3>1, <3>2
    <2> QED BY <1>4, <2>1, <2>2
  <1>7. buffer' \in Seq(Actions)
      BY <1>6, SeqMonotonic DEF Rows
  <1>8. RowsOK'
      BY <1>1, <1>3, <1>6, RowsSame DEF RowsOK
  <1>9. TypeOK'
      BY <1>1, <1>2, <1>3, <1>6, <1>7 DEF TypeOK, run
  <1> QED BY <1>1, <1>8, <1>9, StreamKept

LEMMA NotifyFailsOK == ASSUME IInv, NEW a \in Actions, NotifyFails(a) PROVE IInv'
  <1> USE DEF IInv
  <1>1. /\ notes[a] > 0 /\ notes' = [notes EXCEPT ![a] = @ - 1] /\ losses > 0 /\ losses' = losses - 1
        /\ UNCHANGED <<row, writes, moves, subscribed, buffer, pending, updates, unread, pc>>
        /\ UNCHANGED run
      BY DEF NotifyFails, table, subscriber, handler
  <1>2. missed' \in BOOLEAN /\ losses' \in 0..MaxLosses
      BY <1>1, StreamAssumption DEF NotifyFails, Lost, TypeOK
  <1>3. /\ notes' \in [Actions -> 0..MaxWrites]
        /\ \A b \in Actions : notes'[b] > 0 => b \in Rows'
        /\ \A b \in Actions : notes'[b] + writes' <= MaxWrites
      BY <1>1, NoteTaken
  <1>4. RowsOK'
      BY <1>1, <1>3, RowsSame DEF RowsOK
  <1>5. TypeOK'
      BY <1>1, <1>2, <1>3 DEF TypeOK, run
  <1> QED BY <1>1, <1>4, <1>5, StreamKept

LEMMA TakeBurstOK == ASSUME IInv, TakeBurst PROVE IInv'
  <1> USE DEF IInv
  <1>1. /\ pending' = ToSet(buffer) /\ buffer' = <<>>
        /\ UNCHANGED <<row, writes, moves, notes, subscribed, updates, unread, pc, missed, losses>>
        /\ UNCHANGED run
      BY DEF TakeBurst, table, handler
  <1>2. pending' \subseteq Rows /\ pending' \subseteq Actions
      BY <1>1, MembersOfSeq DEF RowsOK, Rows
  <1>3. /\ buffer' \in Seq(Rows) /\ buffer' \in Seq(Actions)
        /\ Len(buffer') = 0 /\ Len(buffer') <= BufferSize
      BY <1>1, StreamAssumption
  <1>4. RowsOK'
      BY <1>1, <1>2, <1>3, RowsSame DEF RowsOK
  <1>5. TypeOK'
      BY <1>1, <1>2, <1>3 DEF TypeOK, run
  <1> QED BY <1>1, <1>4, <1>5, StreamKept

LEMMA ForwardOK == ASSUME IInv, NEW a \in Actions, Forward(a) PROVE IInv'
  <1> USE DEF IInv
  <1>1. /\ a \in pending /\ Len(updates) <= UpdatesSize /\ pending' = pending \ {a}
        /\ updates' = Append(updates, [action |-> a, phase |-> row[a].phase])
        /\ UNCHANGED <<row, writes, moves, notes, subscribed, buffer, unread, pc, missed, losses>>
        /\ UNCHANGED run
      BY DEF Forward, table, handler
  <1>2. pending' \subseteq Rows /\ pending' \subseteq Actions
      BY <1>1 DEF RowsOK, Rows
  <1>3. [action |-> a, phase |-> row[a].phase] \in Update
      BY <1>1 DEF RowsOK, Update
  <1>4. updates \in Seq(Update) /\ UpdatesSize \in Nat /\ Len(updates) \in Nat
      BY StreamAssumption DEF TypeOK, Update
  <1>5. updates' \in Seq(Update) /\ Len(updates') = Len(updates) + 1
      BY <1>1, <1>3, <1>4, AppendProperties
  <1>6. updates' \in Seq([action : Actions, phase : Phases]) /\ Len(updates') <= UpdatesSize + 1
      BY <1>1, <1>4, <1>5 DEF Update
  <1>7. RowsOK'
      BY <1>1, <1>2, RowsSame DEF RowsOK
  <1>8. TypeOK'
      BY <1>1, <1>2, <1>6 DEF TypeOK, run
  <1> QED BY <1>1, <1>7, <1>8, StreamKept

LEMMA ForwardFailsOK == ASSUME IInv, NEW a \in Actions, ForwardFails(a) PROVE IInv'
  <1> USE DEF IInv
  <1>1. /\ pending' = pending \ {a} /\ losses > 0 /\ losses' = losses - 1
        /\ UNCHANGED <<row, writes, moves, notes, subscribed, buffer, updates, unread, pc>>
        /\ UNCHANGED run
      BY DEF ForwardFails, table, handler
  <1>2. missed' \in BOOLEAN /\ losses' \in 0..MaxLosses
      BY <1>1, StreamAssumption DEF ForwardFails, Lost, TypeOK
  <1>3. RowsOK'
      BY <1>1, RowsSame DEF RowsOK
  <1>4. TypeOK'
      BY <1>1, <1>2 DEF TypeOK, run
  <1> QED BY <1>1, <1>3, <1>4, StreamKept

LEMMA VisitNodeOK == ASSUME IInv, NEW a \in Actions, VisitNode(a) PROVE IInv'
  <1> USE DEF IInv
  <1>1. UNCHANGED <<row, writes, moves, notes, subscribed, buffer, pending, updates, unread, pc,
                    filter, missed, losses>>
      BY DEF VisitNode, table, subscriber
  <1>2. acc \in Result /\ todo \subseteq Actions
      BY DEF TypeOK, Result
  <1>3. StreamOK' /\ acc' \in Result /\ todo' \subseteq Actions
      BY <1>2, VisitNodeKeeps
  <1>4. tree' \in Tree
      BY <1>3 DEF StreamOK, Tree
  <1>5. \A b \in Actions : tree'.phase[b] \in Phases \cup {UNSPECIFIED}
      BY <1>4 DEF Tree
  <1>6. RowsOK'
      BY <1>1, RowsSame DEF RowsOK
  <1>7. TypeOK'
      BY <1>1, <1>3, <1>5 DEF TypeOK, Result
  <1> QED BY <1>3, <1>6, <1>7

LEMMA ReadPageOK == ASSUME IInv, ReadPage PROVE IInv'
  <1> USE DEF IInv
  <1> DEFINE size == Min({PageSize, Len(unread)})
             page == [i \in 1..size |-> [action |-> unread[i], phase |-> row[unread[i]].phase]]
             next == IF Len(unread) > PageSize THEN "list" ELSE "stream"
  <1>1. /\ Settled /\ unread' = SubSeq(unread, size + 1, Len(unread)) /\ Apply(page, next)
        /\ UNCHANGED <<row, writes, moves, notes, subscribed, buffer, pending, updates, filter, view,
                       missed, losses>>
      BY DEF ReadPage, table, subscriber
  <1>2. unread \in Seq(Rows) /\ Len(unread) \in Nat /\ PageSize \in Nat
      BY StreamAssumption DEF RowsOK
  <1>3. size \in Nat /\ size <= Len(unread)
    <2>1. \E x \in {PageSize, Len(unread)} : \A y \in {PageSize, Len(unread)} : x =< y
        BY <1>2
    <2>2. size \in {PageSize, Len(unread)} /\ size =< Len(unread)
        BY <2>1 DEF Min
    <2> QED BY <1>2, <2>2
  <1> HIDE DEF size
  <1>4. page \in Seq(Update)
    <2>1. ASSUME NEW i \in 1..size PROVE [action |-> unread[i], phase |-> row[unread[i]].phase] \in Update
      <3>1. unread[i] \in Rows
          BY <1>2, <1>3
      <3> QED BY <3>1 DEF RowsOK, Rows, Update
    <2>2. page \in [1..size -> Update]
        BY <2>1
    <2> QED BY <1>3, <2>2
  <1>5. unread' \in Seq(Rows)
    <2>1. size + 1 \in Int /\ Len(unread) \in Int /\ \A i \in (size + 1)..Len(unread) : unread[i] \in Rows
        BY <1>2, <1>3
    <2> QED BY <1>1, <2>1, SubSeqProperties
  <1>6. unread' \in Seq(Actions)
      BY <1>5, SeqMonotonic DEF Rows
  <1>7. acc \in Result
      BY DEF TypeOK, Result
  <1> HIDE DEF page, next
  <1>8. StreamOK' /\ acc' \in Result /\ todo' \subseteq Actions /\ pc' \in {next, "ended"}
      BY <1>1, <1>4, <1>7, ApplyKeeps
  <1>9. pc' \in {"list", "stream", "ended"}
      BY <1>8 DEF next
  <1>10. tree' \in Tree
      BY <1>8 DEF StreamOK, Tree
  <1>11. \A b \in Actions : tree'.phase[b] \in Phases \cup {UNSPECIFIED}
      BY <1>10 DEF Tree
  <1>12. RowsOK'
      BY <1>1, <1>5, RowsSame DEF RowsOK
  <1>13. TypeOK'
      BY <1>1, <1>6, <1>8, <1>9, <1>11 DEF TypeOK, Result
  <1> QED BY <1>8, <1>12, <1>13

LEMMA ReadPageFailsOK == ASSUME IInv, ReadPageFails PROVE IInv'
  <1> USE DEF IInv
  <1>1. /\ pc' = "ended" /\ losses > 0 /\ losses' = losses - 1
        /\ UNCHANGED <<row, writes, moves, notes, subscribed, buffer, pending, updates, unread, missed>>
        /\ UNCHANGED run
      BY DEF ReadPageFails, table, subscriber
  <1>2. losses' \in 0..MaxLosses
      BY <1>1, StreamAssumption DEF TypeOK
  <1>3. RowsOK'
      BY <1>1, RowsSame DEF RowsOK
  <1>4. TypeOK'
      BY <1>1, <1>2 DEF TypeOK, run
  <1> QED BY <1>1, <1>3, <1>4, StreamKept

LEMMA HandleUpdateOK == ASSUME IInv, HandleUpdate PROVE IInv'
  <1> USE DEF IInv
  <1>1. /\ Settled /\ updates # <<>> /\ updates' = Tail(updates) /\ Apply(<<Head(updates)>>, "stream")
        /\ UNCHANGED <<row, writes, moves, notes, subscribed, buffer, pending, unread, filter, view,
                       missed, losses>>
      BY DEF HandleUpdate, table
  <1>2. updates \in Seq(Update) /\ Len(updates) <= UpdatesSize + 1 /\ UpdatesSize \in Nat
      BY StreamAssumption DEF TypeOK, Update
  <1>3. Head(updates) \in Update /\ Tail(updates) \in Seq(Update) /\ Len(Tail(updates)) = Len(updates) - 1
      BY <1>1, <1>2, HeadTailProperties
  <1>4. /\ updates' \in Seq([action : Actions, phase : Phases]) /\ Len(updates') <= UpdatesSize + 1
        /\ <<Head(updates)>> \in Seq(Update)
    <2>1. Len(updates) \in Nat
        BY <1>2, LenProperties
    <2> QED BY <1>1, <1>2, <1>3, <2>1 DEF Update
  <1>5. acc \in Result
      BY DEF TypeOK, Result
  <1>6. StreamOK' /\ acc' \in Result /\ todo' \subseteq Actions /\ pc' \in {"stream", "ended"}
      BY <1>1, <1>4, <1>5, ApplyKeeps
  <1>7. tree' \in Tree
      BY <1>6 DEF StreamOK, Tree
  <1>8. \A b \in Actions : tree'.phase[b] \in Phases \cup {UNSPECIFIED}
      BY <1>7 DEF Tree
  <1>9. RowsOK'
      BY <1>1, RowsSame DEF RowsOK
  <1>10. TypeOK'
      BY <1>1, <1>4, <1>6, <1>8 DEF TypeOK, Result
  <1> QED BY <1>6, <1>9, <1>10

LEMMA NextOK == IInv /\ [Next]_vars => IInv'
  <1> SUFFICES ASSUME IInv, [Next]_vars PROVE IInv'
      OBVIOUS
  <1>1. CASE Subscribe
      BY <1>1, SubscribeOK
  <1>2. CASE TakeBurst
      BY <1>2, TakeBurstOK
  <1>3. CASE ReadPage
      BY <1>3, ReadPageOK
  <1>4. CASE ReadPageFails
      BY <1>4, ReadPageFailsOK
  <1>5. CASE HandleUpdate
      BY <1>5, HandleUpdateOK
  <1>6. ASSUME NEW a \in Actions,
               \/ CreateRow(a) \/ SetPhase(a) \/ SetPhaseAndMove(a) \/ VisitNode(a)
               \/ Broadcast(a) \/ NotifyFails(a) \/ Forward(a) \/ ForwardFails(a)
        PROVE  IInv'
    <2>1. CASE CreateRow(a)
        BY <2>1, CreateRowOK
    <2>2. CASE SetPhase(a)
        BY <2>2, SetPhaseOK
    <2>3. CASE SetPhaseAndMove(a)
        BY <2>3, SetPhaseAndMoveOK
    <2>4. CASE VisitNode(a)
        BY <2>4, VisitNodeOK
    <2>5. CASE Broadcast(a)
        BY <2>5, BroadcastOK
    <2>6. CASE NotifyFails(a)
        BY <2>6, NotifyFailsOK
    <2>7. CASE Forward(a)
        BY <2>7, ForwardOK
    <2>8. CASE ForwardFails(a)
        BY <2>8, ForwardFailsOK
    <2> QED BY <1>6, <2>1, <2>2, <2>3, <2>4, <2>5, <2>6, <2>7, <2>8
  <1>7. CASE UNCHANGED vars
    <2>1. /\ UNCHANGED <<row, writes, moves, notes, subscribed, buffer, pending, updates, unread, pc,
                         missed, losses>>
          /\ UNCHANGED run
        BY <1>7 DEF vars, run
    <2>2. RowsOK'
        BY <2>1, RowsSame DEF RowsOK, IInv
    <2>3. TypeOK'
        BY <2>1 DEF TypeOK, IInv, run
    <2> QED BY <2>1, <2>2, <2>3, StreamKept DEF IInv
  <1> QED BY <1>1, <1>2, <1>3, <1>4, <1>5, <1>6, <1>7 DEF Next

-----------------------------------------------------------------------------
(* The theorems                                                            *)

THEOREM Invariance == Spec => []IInv
  <1> QED BY InitOK, NextOK, PTL DEF Spec

(* The stream's channels, maps and cursor stay what they are declared as,  *)
(* with no more in a channel than its capacity.                            *)
THEOREM StreamTyped == Spec => []TypeOK
  <1>1. IInv => TypeOK
      BY DEF IInv
  <1> QED BY <1>1, Invariance, PTL

(* Of every run, of any shape and size, and under every filter, a client   *)
(* of WatchActions is shown exactly what RunStateManager's tree holds that *)
(* matches or leads to a match, with its true counters: in whatever order  *)
(* rows are written, moved, notified, lost and read, and in whatever order *)
(* upsertActions walks its maps.                                           *)
THEOREM ClientSeesTree == Spec => []ViewIsTree
  <1>1. IInv => ViewIsTree
      BY ShownIsRendered DEF IInv, StreamOK, ViewIsTree, Settled
  <1> QED BY <1>1, Invariance, PTL
==============================================================================
