----------------------------- MODULE ActionWatch -----------------------------
(***************************************************************************)
(* How the actions service carries what happens to TaskActions over to the *)
(* runs service's rows: informer -> dispatchEvent -> a worker's channel -> *)
(* handleWatchEvent -> RecordAction and UpdateActionStatus -> the label    *)
(* that says the terminal status is recorded.                              *)
(*                                                                         *)
(* A root action and its children, each on a shard of its own: the names   *)
(* of a parent and a child may hash to different workers, and sharing one  *)
(* only removes interleavings.  A channel holds at most one coalesced      *)
(* update of an action and, behind it, its deletion, because a resource's  *)
(* name is not used twice.  Subscribers are left out.                      *)
(***************************************************************************)
EXTENDS ActionStore, FiniteSets

CONSTANTS
    Root, Children,  \* the actions
    Conditions,      \* the children that wait for a signal instead of a pod
    Watched,         \* bound: the actions whose events the informer is followed on
    TaskPhases,      \* bound: the phases a task reports
    MaxAttempts,     \* attempts of a task
    MaxFaults,       \* bound: calls that return an error, RecordAction apart
    MaxStoreFaults,  \* bound: failures that may leave a row unwritten for good:
                     \* RecordAction's, and database errors in a response's status
    MaxRestarts      \* bound: restarts of the actions service

ASSUME WatchAssumption ==
    /\ Root \notin Children /\ Conditions \subseteq Children
    /\ Watched \subseteq {Root} \cup Children
    /\ TaskPhases \subseteq {QUEUED, INITIALIZING, RUNNING} \cup Outcomes
    /\ MaxAttempts \in Nat \ {0}
    /\ MaxFaults \in Nat /\ MaxStoreFaults \in Nat /\ MaxRestarts \in Nat

Actions == {Root} \cup Children

VARIABLES
    cr,          \* the TaskAction of each action in the API server
    cache,       \* the informer's copy
    inbox,       \* what the worker's channel holds of each action
    dispatched,  \* dispatchedActions
    worker,      \* the event each worker handles, and its next call
    filter,      \* recordedFilter
    row,         \* the action's row in the runs service
    faults, storeFaults, restarts   \* what is left of the bounds

vars == <<cr, cache, inbox, dispatched, worker, filter, row, faults, storeFaults, restarts>>
informer == <<cache, inbox, dispatched>>
budgets == <<faults, storeFaults, restarts>>

-----------------------------------------------------------------------------

Absent == [state |-> "absent", phase |-> UNSPECIFIED, attempts |-> 0, recorded |-> FALSE]
Idle == [pc |-> "idle", deleted |-> FALSE, phase |-> UNSPECIFIED, attempts |-> 0]

Terminal(r) == r.phase \in Outcomes

Init ==
    /\ cr = [a \in Actions |-> IF a = Root THEN [Absent EXCEPT !.state = "present"] ELSE Absent]
    /\ cache = [a \in Actions |-> Absent]
    /\ inbox = [a \in Actions |-> {}]
    /\ dispatched = {}
    /\ worker = [a \in Actions |-> Idle]
    /\ filter = {}
    /\ row = [a \in Actions |-> IF a = Root THEN CreateAction(NoRow) ELSE NoRow]
    /\ faults = MaxFaults /\ storeFaults = MaxStoreFaults /\ restarts = MaxRestarts

-----------------------------------------------------------------------------
(* The resources                                                           *)

(* A running parent enqueues a child.                                      *)
Enqueue(a) ==
    /\ a \in Children /\ cr[a].state = "absent"
    /\ cr[Root].state = "present" /\ cr[Root].phase = RUNNING
    /\ cr' = [cr EXCEPT ![a].state = "present"]
    /\ UNCHANGED <<informer, worker, filter, row, budgets>>

(* A task counts its attempts; a condition action has none.                *)
attemptsAfter(a, again) ==
    IF a \in Conditions THEN 0
    ELSE IF again THEN cr[a].attempts + 1
    ELSE IF cr[a].attempts = 0 THEN 1 ELSE cr[a].attempts

(* Mutation: restarts are not counted against the limit.                   *)
ReportWithoutLimit(a) ==
    /\ cr[a].state = "present" /\ ~Terminal(cr[a])
    /\ \E phase \in TaskPhases :
         LET again == phase = QUEUED /\ cr[a].phase = RUNNING IN
         /\ cr[a].phase < phase \/ again
         /\ cr' = [cr EXCEPT ![a].phase = phase, ![a].attempts = attemptsAfter(a, again)]
    /\ UNCHANGED <<informer, worker, filter, row, budgets>>

(* The executor stores a status; GetPhaseFromConditions reads a phase off  *)
(* it.  A task moves up or, restarted in place, back to QUEUED; a          *)
(* condition waits and is signalled, found invalid or timed out.           *)
Report(a) ==
    /\ cr[a].state = "present" /\ ~Terminal(cr[a])
    /\ \E phase \in (IF a \in Conditions THEN {PAUSED, SUCCEEDED, FAILED, TIMED_OUT}
                     ELSE TaskPhases) :
         LET again == phase = QUEUED /\ cr[a].phase = RUNNING IN
         /\ cr[a].phase < phase \/ (cr[a].phase = PAUSED /\ phase # PAUSED)
              \/ (again /\ cr[a].attempts < MaxAttempts)
         /\ cr' = [cr EXCEPT ![a].phase = phase,
                             ![a].attempts = attemptsAfter(a, again)]
    /\ UNCHANGED <<informer, worker, filter, row, budgets>>

Remove(a) == cr[a].state = "present" /\ cr' = [cr EXCEPT ![a].state = "gone"]

(* AbortRun or AbortAction marks the row; the abort reconciler deletes the *)
(* resource later.                                                         *)
RequestAbort(a) ==
    /\ row[a].exists /\ ~row[a].abortRequested
    /\ row' = [row EXCEPT ![a] = AbortAction(@)]
    /\ UNCHANGED <<cr, informer, worker, filter, budgets>>

DeleteAborted(a) ==
    /\ row[a].abortRequested /\ Remove(a)
    /\ UNCHANGED <<informer, worker, filter, row, budgets>>

(* The executor's collector deletes a finished resource.                   *)
Collect(a) ==
    /\ Terminal(cr[a]) /\ Remove(a)
    /\ UNCHANGED <<informer, worker, filter, row, budgets>>

(* Children go with their owner.                                           *)
Cascade(a) ==
    /\ a \in Children /\ cr[Root].state = "gone" /\ Remove(a)
    /\ UNCHANGED <<informer, worker, filter, row, budgets>>

-----------------------------------------------------------------------------
(* The informer                                                            *)

shouldSkipTaskAction(r) == r.recorded

(* dispatchEvent drops an update while one is dispatched already; a        *)
(* deletion always goes through.                                           *)
dispatchEvent(a, event) ==
    IF event = "deleted"
    THEN inbox' = [inbox EXCEPT ![a] = @ \cup {"deleted"}] /\ UNCHANGED dispatched
    ELSE IF a \in dispatched
    THEN UNCHANGED <<inbox, dispatched>>
    ELSE inbox' = [inbox EXCEPT ![a] = @ \cup {"update"}] /\ dispatched' = dispatched \cup {a}

(* The cache moves to a newer state and calls the handler.  The object of  *)
(* a deletion is the final one or, in a tombstone, the last one cached.    *)
CacheSync(a) ==
    /\ a \in Watched /\ cache[a] # cr[a]
    /\ \/ /\ cr[a].state = "present" \/ cache[a].state = "absent"
          /\ cache' = [cache EXCEPT ![a] = [cr[a] EXCEPT !.state = "present"]]
          /\ IF shouldSkipTaskAction(cr[a]) THEN UNCHANGED <<inbox, dispatched>>
             ELSE dispatchEvent(a, "update")
       \/ /\ cr[a].state = "gone" /\ cache[a].state = "present"
          /\ \E object \in {cr[a], [cache[a] EXCEPT !.state = "gone"]} :
               /\ cache' = [cache EXCEPT ![a] = object]
               /\ IF shouldSkipTaskAction(object) THEN UNCHANGED <<inbox, dispatched>>
                  ELSE dispatchEvent(a, "deleted")
    /\ UNCHANGED <<cr, worker, filter, row, budgets>>

(* The informer replays what it holds every now and then.                  *)
Resync(a) ==
    /\ cache[a].state = "present" /\ ~shouldSkipTaskAction(cache[a])
    /\ dispatchEvent(a, "update")
    /\ UNCHANGED <<cr, cache, worker, filter, row, budgets>>

-----------------------------------------------------------------------------
(* handleWatchEvent                                                        *)

Fault == faults > 0 /\ faults' = faults - 1 /\ UNCHANGED <<storeFaults, restarts>>
StoreFault == storeFaults > 0 /\ storeFaults' = storeFaults - 1 /\ UNCHANGED <<faults, restarts>>
NoFault == UNCHANGED budgets

Goto(a, step) == worker' = [worker EXCEPT ![a].pc = step]
Done(a) == worker' = [worker EXCEPT ![a] = Idle]

(* Mutation: the mark of an update that is being handled stays.            *)
TakeAndKeepMark(a) ==
    /\ worker[a].pc = "idle" /\ "update" \in inbox[a]
    /\ inbox' = [inbox EXCEPT ![a] = @ \ {"update"}]
    /\ Goto(a, "read")
    /\ UNCHANGED <<cr, cache, dispatched, filter, row, budgets>>

(* A worker takes an update and clears its mark before it reads the state, *)
(* so a change after the read is dispatched again.                         *)
TakeUpdate(a) ==
    /\ worker[a].pc = "idle" /\ "update" \in inbox[a]
    /\ inbox' = [inbox EXCEPT ![a] = @ \ {"update"}]
    /\ dispatched' = dispatched \ {a}
    /\ Goto(a, "read")
    /\ UNCHANGED <<cr, cache, filter, row, budgets>>

ReadLatest(a) ==
    /\ worker[a].pc = "read"
    /\ IF cache[a].state = "present" /\ ~shouldSkipTaskAction(cache[a])
       THEN worker' = [worker EXCEPT ![a] = [pc |-> "record", deleted |-> FALSE,
                                             phase |-> cache[a].phase,
                                             attempts |-> cache[a].attempts]]
       ELSE Done(a)
    /\ UNCHANGED <<cr, informer, filter, row, budgets>>

(* Mutation: a deletion always means ABORTED.                              *)
TakeDeletionAsAbort(a) ==
    /\ worker[a].pc = "idle" /\ inbox[a] = {"deleted"}
    /\ inbox' = [inbox EXCEPT ![a] = {}]
    /\ dispatched' = dispatched \ {a}
    /\ worker' = [worker EXCEPT ![a] = [pc |-> "record", deleted |-> TRUE, phase |-> ABORTED,
                                        attempts |-> cache[a].attempts]]
    /\ UNCHANGED <<cr, cache, filter, row, budgets>>

(* A deletion carries its object; a phase that is not terminal is ABORTED. *)
TakeDeletion(a) ==
    /\ worker[a].pc = "idle" /\ inbox[a] = {"deleted"}
    /\ inbox' = [inbox EXCEPT ![a] = {}]
    /\ dispatched' = dispatched \ {a}
    /\ worker' = [worker EXCEPT ![a] =
           [pc |-> "record", deleted |-> TRUE,
            phase |-> IF Terminal(cache[a]) THEN cache[a].phase ELSE ABORTED,
            attempts |-> cache[a].attempts]]
    /\ UNCHANGED <<cr, cache, filter, row, budgets>>

(* A call, made in handling a, that would make b's row new.  A database    *)
(* error comes back inside a response, which the caller takes for success; *)
(* after a transport error the call may have been carried out.             *)
Succeeds(b, new) ==
    \/ row' = [row EXCEPT ![b] = new] /\ NoFault
    \/ UNCHANGED row /\ StoreFault
Fails(b, new) == row' \in {row, [row EXCEPT ![b] = new]}

AfterRecord(a) ==
    IF a \in Children /\ ~worker[a].deleted THEN Goto(a, "promote") ELSE Goto(a, "update")

(* Mutation: only updates record the action.                               *)
RecordUpdates(a) ==
    /\ worker[a].pc = "record"
    /\ IF a \in filter \/ worker[a].deleted
       THEN Goto(a, "update") /\ UNCHANGED <<filter, row>> /\ NoFault
       ELSE /\ Succeeds(a, CreateAction(row[a])) /\ filter' = filter \cup {a}
            /\ AfterRecord(a)
    /\ UNCHANGED <<cr, informer>>

Record(a) ==
    /\ worker[a].pc = "record"
    /\ IF a \in filter
       THEN Goto(a, "update") /\ UNCHANGED <<filter, row>> /\ NoFault
       ELSE /\ \/ Succeeds(a, CreateAction(row[a])) /\ filter' = filter \cup {a}
               \/ Fails(a, CreateAction(row[a])) /\ StoreFault /\ UNCHANGED filter
            /\ AfterRecord(a)
    /\ UNCHANGED <<cr, informer>>

(* The first sight of a child promotes its parent; the request names no    *)
(* attempt.                                                                *)
PromoteParent(a) ==
    /\ worker[a].pc = "promote"
    /\ LET promoted == UpdateActionPhase(row[Root], RUNNING, 0) IN
       Succeeds(Root, promoted) \/ (Fails(Root, promoted) /\ Fault)
    /\ Goto(a, "update")
    /\ UNCHANGED <<cr, informer, filter>>

(* Mutation: the label is set whatever became of the call.                 *)
UpdateStatusAndLabel(a) ==
    LET updated == UpdateActionPhase(row[a], worker[a].phase, worker[a].attempts) IN
    /\ worker[a].pc = "update"
    /\ Succeeds(a, updated) \/ (Fails(a, updated) /\ Fault)
    /\ IF worker[a].phase \in TerminalPhases /\ ~worker[a].deleted
       THEN Goto(a, "label") ELSE Done(a)
    /\ UNCHANGED <<cr, informer, filter>>

UpdateStatus(a) ==
    LET updated == UpdateActionPhase(row[a], worker[a].phase, worker[a].attempts) IN
    /\ worker[a].pc = "update"
    /\ \/ worker[a].phase = UNSPECIFIED /\ UNCHANGED row /\ Done(a) /\ NoFault
       \/ /\ worker[a].phase # UNSPECIFIED /\ Succeeds(a, updated)
          /\ IF worker[a].phase \in TerminalPhases /\ ~worker[a].deleted
             THEN Goto(a, "label") ELSE Done(a)
       \/ worker[a].phase # UNSPECIFIED /\ Fails(a, updated) /\ Fault /\ Done(a)
    /\ UNCHANGED <<cr, informer, filter>>

(* markTerminalStatusRecorded patches the resource if it is still there.   *)
MarkRecorded(a) ==
    /\ worker[a].pc = "label"
    /\ \/ cr' = [cr EXCEPT ![a].recorded = @ \/ cr[a].state = "present"] /\ NoFault
       \/ UNCHANGED cr /\ Fault
    /\ Done(a)
    /\ UNCHANGED <<informer, filter, row>>

(* A restart drops channels, marks, the events in hand and the filter.     *)
(* The new informer lists what exists; what is gone leaves no trace.       *)
Restart ==
    LET listed == {a \in Watched : cr[a].state = "present" /\ ~shouldSkipTaskAction(cr[a])} IN
    /\ restarts > 0 /\ restarts' = restarts - 1 /\ UNCHANGED <<faults, storeFaults>>
    /\ cache' = [a \in Actions |-> IF a \in Watched THEN cr[a] ELSE cache[a]]
    /\ dispatched' = listed
    /\ inbox' = [a \in Actions |-> IF a \in listed THEN {"update"} ELSE {}]
    /\ worker' = [a \in Actions |-> Idle]
    /\ filter' = {}
    /\ UNCHANGED <<cr, row>>

(* Another action's key takes this one's place in the recordedFilter.      *)
Evict(a) ==
    /\ a \in filter /\ filter' = filter \ {a}
    /\ UNCHANGED <<cr, informer, worker, row, budgets>>

-----------------------------------------------------------------------------

Handle(a) ==
    \/ TakeUpdate(a) \/ ReadLatest(a) \/ TakeDeletion(a)
    \/ Record(a) \/ PromoteParent(a) \/ UpdateStatus(a) \/ MarkRecorded(a)

Next ==
    \/ Restart
    \/ \E a \in Actions :
         \/ Enqueue(a) \/ Report(a) \/ RequestAbort(a) \/ DeleteAborted(a) \/ Collect(a) \/ Cascade(a)
         \/ CacheSync(a) \/ Resync(a) \/ Evict(a) \/ Handle(a)

Spec == Init /\ [][Next]_vars

(* The informer and the workers run on.                                    *)
Fairness == \A a \in Actions : WF_vars(CacheSync(a)) /\ WF_vars(Handle(a))

FairSpec == Spec /\ Fairness

(* The informer's resync comes round again and again.                      *)
ResyncSpec == FairSpec /\ \A a \in Actions : SF_vars(Resync(a))

-----------------------------------------------------------------------------
(* Properties                                                              *)

ObjectType == [state : {"absent", "present", "gone"}, phase : UNSPECIFIED..RECOVERED,
               attempts : 0..MaxAttempts, recorded : BOOLEAN]

TypeOK ==
    /\ cr \in [Actions -> ObjectType] /\ cache \in [Actions -> ObjectType]
    /\ inbox \in [Actions -> SUBSET {"update", "deleted"}]
    /\ dispatched \subseteq Actions
    /\ worker \in [Actions -> [pc : {"idle", "read", "record", "promote", "update", "label"},
                               deleted : BOOLEAN, phase : UNSPECIFIED..RECOVERED,
                               attempts : 0..MaxAttempts]]
    /\ filter \subseteq Actions
    /\ row \in [Actions -> RowType(MaxAttempts, 0)]
    /\ faults \in 0..MaxFaults /\ storeFaults \in 0..MaxStoreFaults
    /\ restarts \in 0..MaxRestarts

(* A response that hid a database error said that the row was written, and *)
(* a failing RecordAction is followed by an update of no row.              *)
Deceived == storeFaults < MaxStoreFaults

(* The label takes a resource out of the watch for good, so it may only be *)
(* set once the action's row is there and terminal.  This and the next     *)
(* properties are of children: a finished parent's row can be reopened by  *)
(* PromoteParent.                                                          *)
RecordedIsStored ==
    \A a \in Children :
        cr[a].recorded => (row[a].exists /\ row[a].phase \in TerminalPhases) \/ Deceived

(* While no call fails and nothing restarts, coalescing loses no state:    *)
(* once the informer and the worker are done with a finished task, its row *)
(* is terminal.                                                            *)
Settled(a) == cache[a] = cr[a] /\ inbox[a] = {} /\ worker[a].pc = "idle"
CoalescedUpdateIsNotLost ==
    faults = MaxFaults /\ storeFaults = MaxStoreFaults /\ restarts = MaxRestarts =>
        \A a \in Children : Settled(a) /\ Terminal(cr[a]) => row[a].phase \in TerminalPhases

(* The outcome a child's row holds is never replaced, whatever is replayed *)
(* after restarts and failing calls, except by a user's abort.             *)
OutcomeIsFinal ==
    [][\A a \in Children :
          row[a].phase \in Outcomes /\ ~row'[a].abortRequested
             => row'[a].phase = row[a].phase]_vars

(* A terminal status reaches the row in spite of restarts, failing status *)
(* updates and failing patches, as long as its resource is there.          *)
TerminalReachesStore ==
    \A a \in Children :
        Terminal(cr[a]) ~>
            (row[a].phase \in TerminalPhases \/ cr[a].state = "gone" \/ Deceived)

(* The row of a child whose resource was deleted becomes terminal, that of *)
(* one created and deleted before it was recorded included, unless a call  *)
(* failed, which nothing repeats, or the service was down meanwhile.       *)
Disturbed == faults < MaxFaults \/ storeFaults < MaxStoreFaults \/ restarts < MaxRestarts
DeletionReachesStore ==
    \A a \in Children :
        cr[a].state = "gone" ~> (row[a].phase \in TerminalPhases \/ Disturbed)
==============================================================================
