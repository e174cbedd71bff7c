--------------------------- MODULE RunStateManager ---------------------------
(***************************************************************************)
(* What one WatchActions stream keeps of its run: the tree of actions with *)
(* the phases below each, and the part of it that the client is shown,     *)
(* which is whatever matches the filter and the way to it from the root.   *)
(*                                                                         *)
(* The tree is updated row by row, but visibility is settled once per      *)
(* batch, in loops over Go maps: the order of the last loop is any order.  *)
(***************************************************************************)
EXTENDS ActionStore, FiniteSetsExt, SequencesExt

CONSTANTS
    Actions,
    Root,
    Parent,   \* the parent of each other action
    Named,    \* the actions whose name contains the filter's text
    Phases    \* bound: the phases a row takes

ASSUME TreeAssumption ==
    /\ IsFiniteSet(Actions) /\ Root \in Actions /\ Named \subseteq Actions
    /\ Parent \in [Actions \ {Root} -> Actions]
    /\ Phases \subseteq (UNSPECIFIED + 1)..RECOVERED /\ QUEUED \in Phases

(* A set of actions with the parents of all its members.                   *)
HasParents(S) == \A a \in S \ {Root} : Parent[a] \in S

(* What the way from a to the root passes: no more than must be in a set   *)
(* that has a's parent and all parents.                                    *)
Ancestors ==
    [a \in Actions |->
        {b \in Actions : a # Root /\ \A S \in SUBSET Actions :
                            Parent[a] \in S /\ HasParents(S) => b \in S}]

Descendants(a) == {d \in Actions : a \in Ancestors[d]}

(* A node is in the tree once it has a phase.                              *)
NewTree == [phase |-> [a \in Actions |-> UNSPECIFIED],
            counts |-> [a \in Actions |-> [p \in Phases |-> 0]],
            matching |-> {}, below |-> [a \in Actions |-> 0], visible |-> {}]

InTree(tree, a) == tree.phase[a] # UNSPECIFIED

(* An empty filter lets every phase pass.                                  *)
doesActionMatchFilters(a, phase, filter) ==
    phase[a] # UNSPECIFIED /\ (filter = {} \/ phase[a] \in filter) /\ a \in Named

-----------------------------------------------------------------------------
(* First pass: the rows                                                    *)

(* Each changed row leaves its old phase, if it had one, at every ancestor *)
(* and enters its new one.                                                 *)
modifyPhaseCounters(counts, old, new) ==
    LET entering(a, p) == Cardinality({d \in Descendants(a) : new[d] = p /\ old[d] # p})
        leaving(a, p) == Cardinality({d \in Descendants(a) : old[d] = p /\ new[d] # p}) IN
    [a \in Actions |-> [p \in Phases |->
        Max({0, counts[a][p] + entering(a, p) - leaving(a, p)})]]

(* A row whose parent is neither in the tree nor before it in its batch    *)
(* fails the batch.                                                        *)
HasOrphan(tree, batch) ==
    \E i \in DOMAIN batch :
        /\ batch[i].action # Root /\ ~InTree(tree, Parent[batch[i].action])
        /\ \A j \in 1..(i - 1) : batch[j].action # Parent[batch[i].action]

Touched(batch) == {r.action : r \in ToSet(batch)}

Changed(batch) == UNION {{a} \cup Ancestors[a] : a \in Touched(batch)}

upsertRows(tree, batch) ==
    LET phase == [a \in Actions |->
            IF a \in Touched(batch) THEN (CHOOSE r \in ToSet(batch) : r.action = a).phase
            ELSE tree.phase[a]] IN
    [tree EXCEPT !.phase = phase, !.counts = modifyPhaseCounters(@, tree.phase, phase)]

-----------------------------------------------------------------------------
(* Second pass: the filter                                                 *)

(* Mutation: only the parent counts a descendant that stopped matching.    *)
RematchAtParent(tree, changed, filter) ==
    LET now == {a \in changed : doesActionMatchFilters(a, tree.phase, filter)}
        came == now \ tree.matching
        went == (changed \ now) \cap tree.matching
        in(a, S) == Cardinality(S \cap Descendants(a)) IN
    [tree EXCEPT
        !.matching = (@ \ went) \cup came,
        !.below = [a \in Actions |->
            @[a] + in(a, came) - Cardinality({d \in went \ {Root} : Parent[d] = a})]]

Rematch(tree, changed, filter) ==
    LET now == {a \in changed : doesActionMatchFilters(a, tree.phase, filter)}
        came == now \ tree.matching
        went == (changed \ now) \cap tree.matching
        in(a, S) == Cardinality(S \cap Descendants(a)) IN
    [tree EXCEPT
        !.matching = (@ \ went) \cup came,
        !.below = [a \in Actions |-> @[a] + in(a, came) - in(a, went)]]

-----------------------------------------------------------------------------
(* Third pass: what to show and what to take back, node by node.  acc has  *)
(* the nodes visible so far, those to show and those to hide.              *)

NoResult(tree) == [visible |-> tree.visible, shown |-> {}, hidden |-> {}]

(* The ancestors that led to nothing but a, up to the first that stays.    *)
pruneAncestors(tree, acc, a) ==
    LET goes(b) == b \in acc.visible /\ tree.below[b] = 0 /\ b \notin tree.matching IN
    {b \in Ancestors[a] : \A c \in Ancestors[a] \cap ({b} \cup Descendants(b)) : goes(c)}

Show(acc, S) ==
    [visible |-> acc.visible \cup S, shown |-> acc.shown \cup S, hidden |-> acc.hidden \ S]

Hide(tree, acc, a) ==
    LET pruned == pruneAncestors(tree, acc, a) IN
    [visible |-> acc.visible \ ({a} \cup pruned), shown |-> acc.shown,
     hidden |-> acc.hidden \cup {a} \cup (pruned \ acc.shown)]

Visit(tree, acc, a) ==
    CASE a \in acc.shown \cup acc.hidden -> acc
      [] a \in tree.matching \ (acc.shown \cup acc.hidden) ->
           Show(acc, {a} \cup (Ancestors[a] \ acc.visible))
      [] a \in acc.visible \ (tree.matching \cup acc.shown) ->
           IF tree.below[a] > 0 THEN Show(acc, {a}) ELSE Hide(tree, acc, a)
      [] OTHER -> acc

-----------------------------------------------------------------------------
(* The client                                                              *)

Hidden == [phase |-> UNSPECIFIED, counts |-> [p \in Phases |-> 0]]

(* It replaces the nodes it is told to show and drops those taken back.    *)
Received(view, tree, acc) ==
    [a \in Actions |->
        IF a \in acc.shown THEN [phase |-> tree.phase[a], counts |-> tree.counts[a]]
        ELSE IF a \in acc.hidden THEN Hidden ELSE view[a]]

(* What the client should see of rows with these phases.                   *)
Rendered(phase, filter) ==
    [a \in Actions |->
        IF phase[a] # UNSPECIFIED
             /\ \E d \in {a} \cup Descendants(a) : doesActionMatchFilters(d, phase, filter)
        THEN [phase |-> phase[a],
              counts |-> [p \in Phases |-> Cardinality({d \in Descendants(a) : phase[d] = p})]]
        ELSE Hidden]
==============================================================================
