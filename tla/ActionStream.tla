----------------------------- MODULE ActionStream -----------------------------
(***************************************************************************)
(* One WatchActions stream: a goroutine subscribes to the notifications of *)
(* the action table while the handler reads a snapshot page by page; then  *)
(* the handler applies the rows the goroutine read again for each          *)
(* notification.  The table, the notifications and the client surround it. *)
(*                                                                         *)
(* Notifications carry a name only and are posted after the commit by      *)
(* whoever wrote, so those of different writers arrive in any order.  They *)
(* are notified over one connection and broadcast by one goroutine, which  *)
(* never waits for a subscriber.                                           *)
(***************************************************************************)
EXTENDS RunStateManager

CONSTANTS
    Filters,      \* the phase filters a client may ask for
    PageSize,     \* rows of a page of the snapshot
    BufferSize,   \* notifications a subscriber's channel holds
    UpdatesSize,  \* rows the handler's channel holds
    MaxWrites,    \* bound: writes to the table
    MaxMoves,     \* bound: writes that lower created_at
    MaxLosses     \* bound: notifications and reads that fail

ASSUME StreamAssumption ==
    /\ Filters \subseteq SUBSET Phases
    /\ PageSize \in Nat \ {0} /\ BufferSize \in Nat \ {0} /\ UpdatesSize \in Nat \ {0}
    /\ MaxWrites \in Nat /\ MaxMoves \in Nat /\ MaxLosses \in Nat

VARIABLES
    row,         \* the table
    notes,       \* notifications on their way, of each action
    subscribed,  \* the goroutine's channel is registered
    buffer,      \* notifications in it
    pending,     \* the names of the burst the goroutine works on
    updates,     \* rows it read for the handler
    unread,      \* the rows behind the snapshot's cursor, in its order
    pc,          \* the handler: "list", "stream" or "ended"
    filter, tree, view,
    todo, acc,   \* the nodes upsertActions still visits, and its result so far
    missed,      \* history: some change will be read by nobody
    writes, moves, losses   \* what is left of the bounds

vars == <<row, notes, subscribed, buffer, pending, updates, unread, pc, filter, tree, view,
          todo, acc, missed, writes, moves, losses>>
table == <<row, writes, moves>>
subscriber == <<subscribed, buffer, pending, updates>>
run == <<filter, tree, view, todo, acc>>
handler == <<unread, pc, run>>

(* The stream is opened on a run of some actions; parents come first.      *)
ParentsFirst(s) ==
    \A i, j \in DOMAIN s : s[j] \in Ancestors[s[i]] => j < i

Init ==
    /\ \E S \in SUBSET Actions :
         /\ HasParents(S) /\ Root \in S
         /\ row = [a \in Actions |-> IF a \in S THEN CreateAction(NoRow) ELSE NoRow]
         /\ unread \in {s \in SetToSeqs(S) : ParentsFirst(s)}
    /\ notes = [a \in Actions |-> 0]
    /\ subscribed = FALSE /\ buffer = <<>> /\ pending = {} /\ updates = <<>>
    /\ pc = "list" /\ filter \in Filters
    /\ tree = NewTree /\ view = [a \in Actions |-> Hidden]
    /\ todo = {} /\ acc = NoResult(NewTree)
    /\ missed = FALSE
    /\ writes = MaxWrites /\ moves = MaxMoves /\ losses = MaxLosses

(* No batch is being visited, see VisitNode.                               *)
Settled == todo = {}

-----------------------------------------------------------------------------
(* The table                                                               *)

notifyActionUpdate(a) == notes' = [notes EXCEPT ![a] = @ + 1]

(* A new row sorts behind all others, so an unfinished snapshot reads it.  *)
CreateRow(a) ==
    /\ Settled /\ writes > 0 /\ writes' = writes - 1
    /\ ~row[a].exists /\ a # Root /\ row[Parent[a]].exists
    /\ row' = [row EXCEPT ![a] = CreateAction(@)]
    /\ unread' = IF pc = "list" THEN Append(unread, a) ELSE unread
    /\ notifyActionUpdate(a)
    /\ UNCHANGED <<moves, subscriber, pc, run, missed, losses>>

UpdateRow(a, phase) ==
    /\ Settled /\ writes > 0 /\ writes' = writes - 1
    /\ row[a].exists
    /\ row' = [row EXCEPT ![a] = UpdateActionPhase(@, phase, 1)]
    /\ row[a].phase # phase /\ row'[a].phase = phase
    /\ notifyActionUpdate(a)

SetPhase(a) ==
    /\ \E phase \in Phases : UpdateRow(a, phase)
    /\ UNCHANGED <<moves, subscriber, handler, missed, losses>>

(* The start time reported with the first RUNNING lowers created_at: the   *)
(* row moves to the front, maybe to before the cursor, but not past Root.  *)
SetPhaseAndMove(a) ==
    /\ moves > 0 /\ moves' = moves - 1
    /\ RUNNING \in Phases /\ UpdateRow(a, RUNNING)
    /\ a # Root
    /\ \E j \in DOMAIN unread :
         LET rest == RemoveAt(unread, j) IN
         /\ unread[j] = a
         /\ \/ InTree(tree, Root) /\ unread' = rest
            \/ \E i \in 1..(j - 1) :
                 /\ i > 1 \/ InTree(tree, Root)
                 /\ unread' = InsertAt(rest, i, a)
    /\ UNCHANGED <<subscriber, pc, run, missed, losses>>

-----------------------------------------------------------------------------
(* The subscriber                                                          *)

(* Nobody shows a's latest state unless its row is still to be read, and   *)
(* by the snapshot only if no older row of a waits behind it.              *)
Lost(a, names) ==
    LET older == {updates[i].action : i \in DOMAIN updates} IN
    missed' = (missed \/ a \notin names \cup (ToSet(unread) \ older))

Subscribe ==
    /\ Settled /\ ~subscribed /\ subscribed' = TRUE
    /\ UNCHANGED <<table, notes, buffer, pending, updates, handler, missed, losses>>

(* Mutation: the broadcaster does not look whether there is room.          *)
BroadcastAnyway(a) ==
    /\ Settled /\ notes[a] > 0 /\ notes' = [notes EXCEPT ![a] = @ - 1]
    /\ IF subscribed /\ Len(buffer) <= BufferSize
       THEN buffer' = Append(buffer, a) /\ UNCHANGED missed
       ELSE UNCHANGED buffer /\ Lost(a, ToSet(buffer) \cup pending)
    /\ UNCHANGED <<table, subscribed, pending, updates, handler, losses>>

(* processNotifications: a full channel is passed over.                    *)
Broadcast(a) ==
    /\ Settled /\ notes[a] > 0 /\ notes' = [notes EXCEPT ![a] = @ - 1]
    /\ IF subscribed /\ Len(buffer) < BufferSize
       THEN buffer' = Append(buffer, a) /\ UNCHANGED missed
       ELSE UNCHANGED buffer /\ Lost(a, ToSet(buffer) \cup pending)
    /\ UNCHANGED <<table, subscribed, pending, updates, handler, losses>>

(* The notification cannot be posted, or the writer's context ends.        *)
NotifyFails(a) ==
    /\ Settled /\ losses > 0 /\ losses' = losses - 1
    /\ notes[a] > 0 /\ notes' = [notes EXCEPT ![a] = @ - 1]
    /\ Lost(a, ToSet(buffer) \cup pending)
    /\ UNCHANGED <<table, subscriber, handler>>

(* All that is queued is drained into a set of names.                      *)
TakeBurst ==
    /\ Settled /\ buffer # <<>> /\ pending = {}
    /\ pending' = ToSet(buffer) /\ buffer' = <<>>
    /\ UNCHANGED <<table, notes, subscribed, updates, handler, missed, losses>>

(* The row is read and sent; a row the channel has no room for yet is the  *)
(* last of updates.                                                        *)
Forward(a) ==
    /\ Settled /\ a \in pending /\ Len(updates) <= UpdatesSize
    /\ pending' = pending \ {a}
    /\ updates' = Append(updates, [action |-> a, phase |-> row[a].phase])
    /\ UNCHANGED <<table, notes, subscribed, buffer, handler, missed, losses>>

(* A read that fails is logged.                                            *)
ForwardFails(a) ==
    /\ Settled /\ losses > 0 /\ losses' = losses - 1
    /\ a \in pending /\ pending' = pending \ {a}
    /\ Lost(a, ToSet(buffer))
    /\ UNCHANGED <<table, notes, subscribed, buffer, updates, handler>>

-----------------------------------------------------------------------------
(* The handler                                                             *)

(* The first two passes of upsertActions; an orphan ends the stream.       *)
Apply(batch, next) ==
    IF HasOrphan(tree, batch)
    THEN pc' = "ended" /\ UNCHANGED <<tree, todo, acc>>
    ELSE /\ pc' = next /\ todo' = Changed(batch)
         /\ \E upserted \in {upsertRows(tree, batch)} :
              tree' = Rematch(upserted, Changed(batch), filter)
         /\ acc' = NoResult(tree)

(* The third pass visits the nodes in any order, and what it decided is    *)
(* sent at its end.  It touches nothing others see, so nobody's step needs *)
(* to come in between.                                                     *)
VisitNode(a) ==
    /\ a \in todo /\ todo' = todo \ {a}
    /\ acc' = Visit(tree, acc, a)
    /\ IF todo = {a}
       THEN tree' = [tree EXCEPT !.visible = acc'.visible] /\ view' = Received(view, tree, acc')
       ELSE UNCHANGED <<tree, view>>
    /\ UNCHANGED <<table, notes, subscriber, unread, pc, filter, missed, losses>>

(* Mutation: the cursor is set to the row that only shows there are more.  *)
ReadPageAndProbe ==
    LET size == Min({PageSize, Len(unread)})
        page == [i \in 1..size |-> [action |-> unread[i], phase |-> row[unread[i]].phase]] IN
    /\ Settled /\ pc = "list"
    /\ unread' = SubSeq(unread, size + 2, Len(unread))
    /\ Apply(page, IF Len(unread) > PageSize + 1 THEN "list" ELSE "stream")
    /\ UNCHANGED <<table, notes, subscriber, filter, view, missed, losses>>

(* One page of listAndSendAllActions, in one query.                        *)
ReadPage ==
    LET size == Min({PageSize, Len(unread)})
        page == [i \in 1..size |-> [action |-> unread[i], phase |-> row[unread[i]].phase]] IN
    /\ Settled /\ pc = "list"
    /\ unread' = SubSeq(unread, size + 1, Len(unread))
    /\ Apply(page, IF Len(unread) > PageSize THEN "list" ELSE "stream")
    /\ UNCHANGED <<table, notes, subscriber, filter, view, missed, losses>>

(* A page that cannot be read ends the stream.                             *)
ReadPageFails ==
    /\ Settled /\ losses > 0 /\ losses' = losses - 1
    /\ pc = "list" /\ pc' = "ended"
    /\ UNCHANGED <<table, notes, subscriber, unread, run, missed>>

HandleUpdate ==
    /\ Settled /\ pc = "stream" /\ updates # <<>>
    /\ updates' = Tail(updates)
    /\ Apply(<<Head(updates)>>, "stream")
    /\ UNCHANGED <<table, notes, subscribed, buffer, pending, unread, filter, view, missed, losses>>

-----------------------------------------------------------------------------

Next ==
    \/ Subscribe \/ TakeBurst \/ ReadPage \/ ReadPageFails \/ HandleUpdate
    \/ \E a \in Actions :
         \/ CreateRow(a) \/ SetPhase(a) \/ SetPhaseAndMove(a) \/ VisitNode(a)
         \/ Broadcast(a) \/ NotifyFails(a) \/ Forward(a) \/ ForwardFails(a)

Spec == Init /\ [][Next]_vars

(* The goroutines and the handler run on.                                  *)
Fairness ==
    /\ WF_vars(Subscribe) /\ WF_vars(TakeBurst) /\ WF_vars(ReadPage) /\ WF_vars(HandleUpdate)
    /\ \A a \in Actions :
         WF_vars(Broadcast(a)) /\ WF_vars(Forward(a)) /\ WF_vars(VisitNode(a))

FairSpec == Spec /\ Fairness

-----------------------------------------------------------------------------
(* Properties                                                              *)

TypeOK ==
    /\ row \in [Actions -> RowType(1, 0)]
    /\ notes \in [Actions -> 0..MaxWrites]
    /\ subscribed \in BOOLEAN /\ pending \subseteq Actions /\ missed \in BOOLEAN
    /\ buffer \in Seq(Actions) /\ Len(buffer) <= BufferSize
    /\ updates \in Seq([action : Actions, phase : Phases]) /\ Len(updates) <= UpdatesSize + 1
    /\ todo \subseteq Actions /\ acc \in [visible : SUBSET Actions, shown : SUBSET Actions,
                                            hidden : SUBSET Actions]
    /\ unread \in Seq(Actions) /\ pc \in {"list", "stream", "ended"} /\ filter \in Filters
    /\ \A a \in Actions : tree.phase[a] \in Phases \cup {UNSPECIFIED}
    /\ writes \in 0..MaxWrites /\ moves \in 0..MaxMoves /\ losses \in 0..MaxLosses

(* In whatever order rows arrive and maps are walked, the client sees      *)
(* exactly the nodes of the stream's tree that match the filter or lead to *)
(* one that does, each with its present phase and with the true number of  *)
(* descendants in each phase.                                              *)
ViewIsTree == Settled => view = Rendered(tree.phase, filter)

PhaseOf == [a \in Actions |-> row[a].phase]

(* The stream catches up with the table once the table rests: a change     *)
(* during the snapshot, a burst, or a stale row in the channel does not    *)
(* stay on the screen, unless a notification was lost or the stream ended  *)
(* and has to be opened again.                                             *)
StreamCatchesUp ==
    <>[](pc = "ended" \/ missed \/ view = Rendered(PhaseOf, filter))
==============================================================================
