--------------------------- MODULE ActionWatch_proofs ---------------------------
(***************************************************************************)
(* What the actions service guarantees about the rows of a root's          *)
(* children, for every number of actions, attempts, failing calls and      *)
(* restarts: nothing a watch event carries is applied out of date, and a   *)
(* resource leaves the watch only when its row is done.                    *)
(***************************************************************************)
EXTENDS ActionWatch, TLAPS

PhaseNumbers == UNSPECIFIED..RECOVERED

WorkerType == [pc : {"idle", "read", "record", "promote", "update", "label"},
               deleted : BOOLEAN, phase : PhaseNumbers, attempts : 0..MaxAttempts]

LEMMA Numbers ==
    /\ PhaseNumbers = 0..10
    /\ Outcomes = {5, 6, 8} /\ TerminalPhases = {5, 6, 7, 8, 10}
    /\ Outcomes \subseteq TerminalPhases
    /\ TaskPhases \subseteq 1..8
    /\ MaxAttempts \in Nat /\ MaxAttempts >= 1
    /\ MaxFaults \in Nat /\ MaxStoreFaults \in Nat /\ MaxRestarts \in Nat
    /\ Children \subseteq Actions /\ Watched \subseteq Actions /\ Root \in Actions
    /\ Root \notin Children
BY WatchAssumption
   DEF WatchAssumption, PhaseNumbers, Outcomes, TerminalPhases, UNSPECIFIED, QUEUED, WAITING,
       INITIALIZING, RUNNING, SUCCEEDED, FAILED, ABORTED, TIMED_OUT, PAUSED, RECOVERED, Actions

-----------------------------------------------------------------------------
(* The statements on a row                                                 *)

Row == RowType(MaxAttempts, 0)

LEMMA RowStatements ==
    ASSUME NEW r \in Row, NEW phase \in PhaseNumbers, NEW n \in 0..MaxAttempts
    PROVE  /\ CreateAction(r) \in Row /\ AbortAction(r) \in Row
           /\ UpdateActionPhase(r, phase, n) \in Row
<1>1. 1 \in 0..MaxAttempts /\ 0 \in 0..MaxAttempts /\ 0 \in 0..0
  BY Numbers
<1>2. QUEUED \in PhaseNumbers /\ ABORTED \in PhaseNumbers /\ UNSPECIFIED \in PhaseNumbers
  BY DEF PhaseNumbers, UNSPECIFIED, QUEUED, ABORTED, RECOVERED
<1>3. CreateAction(r) \in Row
  BY <1>1, <1>2 DEF Row, RowType, CreateAction, NoRow, PhaseNumbers
<1>4. AbortAction(r) \in Row
  BY <1>1, <1>2 DEF Row, RowType, AbortAction, PhaseNumbers
<1>5. UpdateActionPhase(r, phase, n) \in Row
  BY DEF Row, RowType, UpdateActionPhase, PhaseNumbers
<1> QED BY <1>3, <1>4, <1>5

-----------------------------------------------------------------------------
(* Types                                                                   *)

ResourcesOK == cr \in [Actions -> ObjectType]
InformerOK ==
    /\ cache \in [Actions -> ObjectType]
    /\ inbox \in [Actions -> SUBSET {"update", "deleted"}]
    /\ dispatched \subseteq Actions
WorkersOK == worker \in [Actions -> WorkerType] /\ filter \subseteq Actions
RowsOK == row \in [Actions -> Row]
BudgetsOK ==
    /\ faults \in 0..MaxFaults /\ storeFaults \in 0..MaxStoreFaults
    /\ restarts \in 0..MaxRestarts

LEMMA Split ==
    /\ TypeOK <=> ResourcesOK /\ InformerOK /\ WorkersOK /\ RowsOK /\ BudgetsOK
    /\ TypeOK' <=> ResourcesOK' /\ InformerOK' /\ WorkersOK' /\ RowsOK' /\ BudgetsOK'
BY DEF TypeOK, ResourcesOK, InformerOK, WorkersOK, RowsOK, BudgetsOK, Row, WorkerType, PhaseNumbers

LEMMA TypeInit == Init => TypeOK
<1> SUFFICES ASSUME Init PROVE TypeOK
  OBVIOUS
<1>1. 0 \in 0..MaxAttempts /\ 1 \in 0..MaxAttempts /\ 0 \in 0..0 /\ 0 \in PhaseNumbers /\ 1 \in PhaseNumbers
  BY Numbers
<1>2. Absent \in ObjectType /\ [Absent EXCEPT !.state = "present"] \in ObjectType
  BY <1>1 DEF Absent, ObjectType, PhaseNumbers, UNSPECIFIED
<1>3. NoRow \in Row
  BY <1>1 DEF NoRow, Row, RowType, PhaseNumbers, UNSPECIFIED
<1>4. CreateAction(NoRow) \in Row
  BY <1>1, <1>3, RowStatements
<1>5. Idle \in WorkerType
  BY <1>1 DEF Idle, WorkerType, UNSPECIFIED
<1>6. /\ MaxFaults \in 0..MaxFaults /\ MaxStoreFaults \in 0..MaxStoreFaults
      /\ MaxRestarts \in 0..MaxRestarts
  BY Numbers
<1> QED BY <1>2, <1>3, <1>4, <1>5, <1>6, Split
        DEF Init, ResourcesOK, InformerOK, WorkersOK, RowsOK, BudgetsOK

LEMMA DispatchType ==
    ASSUME InformerOK, NEW a \in Actions, NEW event \in {"update", "deleted"}, dispatchEvent(a, event)
    PROVE  inbox' \in [Actions -> SUBSET {"update", "deleted"}] /\ dispatched' \subseteq Actions
BY DEF InformerOK, dispatchEvent

LEMMA StoreType ==
    ASSUME RowsOK, BudgetsOK, NEW b \in Actions, NEW new \in Row,
           Succeeds(b, new) \/ (Fails(b, new) /\ (Fault \/ StoreFault))
    PROVE  RowsOK' /\ BudgetsOK'
<1>1. RowsOK'
  BY DEF Succeeds, Fails, RowsOK
<1>2. BudgetsOK'
  BY Numbers DEF Succeeds, NoFault, Fault, StoreFault, budgets, BudgetsOK
<1> QED BY <1>1, <1>2

LEMMA WorkerGoes ==
    ASSUME WorkersOK, NEW a \in Actions,
           \/ Done(a)
           \/ \E step \in {"read", "record", "promote", "update", "label"} : Goto(a, step)
    PROVE  worker' \in [Actions -> WorkerType]
<1>1. Idle \in WorkerType
  BY Numbers DEF Idle, WorkerType, UNSPECIFIED
<1>2. CASE Done(a)
  BY <1>1, <1>2 DEF Done, WorkersOK
<1>3. ASSUME NEW step \in {"read", "record", "promote", "update", "label"}, Goto(a, step)
      PROVE  worker' \in [Actions -> WorkerType]
  <2>1. [worker[a] EXCEPT !.pc = step] \in WorkerType
    BY DEF WorkersOK, WorkerType
  <2>2. worker' = [worker EXCEPT ![a] = [worker[a] EXCEPT !.pc = step]]
    BY <1>3 DEF Goto
  <2> QED BY <2>1, <2>2 DEF WorkersOK
<1> QED BY <1>2, <1>3

LEMMA TypeResources ==
    ASSUME TypeOK, NEW a \in Actions,
           Enqueue(a) \/ Report(a) \/ DeleteAborted(a) \/ Collect(a) \/ Cascade(a) \/ RequestAbort(a)
    PROVE  TypeOK'
<1> USE Split
<1>0. cr \in [Actions -> ObjectType] /\ cr[a] \in ObjectType
  BY DEF ResourcesOK
<1>1. CASE Enqueue(a)
  <2>1. ResourcesOK'
    BY <1>0, <1>1 DEF Enqueue, ResourcesOK, ObjectType
  <2> QED BY <1>1, <2>1 DEF Enqueue, informer, budgets, InformerOK, WorkersOK, RowsOK, BudgetsOK
<1>2. CASE Report(a)
  <2>1. PICK phase \in (IF a \in Conditions THEN {PAUSED, SUCCEEDED, FAILED, TIMED_OUT} ELSE TaskPhases) :
          LET again == phase = QUEUED /\ cr[a].phase = RUNNING IN
          /\ cr[a].phase < phase \/ (cr[a].phase = PAUSED /\ phase # PAUSED)
               \/ (again /\ cr[a].attempts < MaxAttempts)
          /\ cr' = [cr EXCEPT ![a].phase = phase, ![a].attempts = attemptsAfter(a, again)]
    BY <1>2 DEF Report
  <2> DEFINE again == phase = QUEUED /\ cr[a].phase = RUNNING
  <2>2. phase \in PhaseNumbers /\ cr[a].phase \in PhaseNumbers /\ cr[a].attempts \in 0..MaxAttempts
    BY <1>0, Numbers DEF PAUSED, SUCCEEDED, FAILED, TIMED_OUT, ObjectType, PhaseNumbers
  <2>3. again => cr[a].attempts < MaxAttempts
    BY <2>1 DEF QUEUED, RUNNING, PAUSED
  <2>4. attemptsAfter(a, again) \in 0..MaxAttempts
    BY <2>2, <2>3, Numbers DEF attemptsAfter
  <2>5. [cr[a] EXCEPT !.phase = phase, !.attempts = attemptsAfter(a, again)] \in ObjectType
    BY <1>0, <2>2, <2>4 DEF ObjectType, PhaseNumbers
  <2>6. cr' = [cr EXCEPT ![a] = [cr[a] EXCEPT !.phase = phase, !.attempts = attemptsAfter(a, again)]]
    BY <2>1, <1>0
  <2>7. ResourcesOK'
    BY <1>0, <2>5, <2>6 DEF ResourcesOK
  <2> QED BY <1>2, <2>7 DEF Report, informer, budgets, InformerOK, WorkersOK, RowsOK, BudgetsOK
<1>3. CASE DeleteAborted(a) \/ Collect(a) \/ Cascade(a)
  <2>1. ResourcesOK'
    BY <1>0, <1>3 DEF DeleteAborted, Collect, Cascade, Remove, ResourcesOK, ObjectType
  <2> QED BY <1>3, <2>1 DEF DeleteAborted, Collect, Cascade, informer, budgets, InformerOK,
                            WorkersOK, RowsOK, BudgetsOK
<1>4. CASE RequestAbort(a)
  <2>1. AbortAction(row[a]) \in Row
    BY RowStatements, Numbers DEF RowsOK
  <2>2. RowsOK'
    BY <1>4, <2>1 DEF RequestAbort, RowsOK
  <2> QED BY <1>4, <2>2 DEF RequestAbort, informer, budgets, ResourcesOK, InformerOK, WorkersOK, BudgetsOK
<1> QED BY <1>1, <1>2, <1>3, <1>4

LEMMA TypeInformer ==
    ASSUME TypeOK, NEW a \in Actions, CacheSync(a) \/ Resync(a) \/ Evict(a)
    PROVE  TypeOK'
<1> USE Split
<1>0. cr[a] \in ObjectType /\ cache[a] \in ObjectType
  BY DEF ResourcesOK, InformerOK
<1>1. CASE CacheSync(a)
  <2>1. \/ cache' = [cache EXCEPT ![a] = [cr[a] EXCEPT !.state = "present"]]
        \/ cache' = [cache EXCEPT ![a] = cr[a]]
        \/ cache' = [cache EXCEPT ![a] = [cache[a] EXCEPT !.state = "gone"]]
    BY <1>1 DEF CacheSync
  <2>2. [cr[a] EXCEPT !.state = "present"] \in ObjectType /\ [cache[a] EXCEPT !.state = "gone"] \in ObjectType
    BY <1>0 DEF ObjectType
  <2>3. cache' \in [Actions -> ObjectType]
    BY <1>0, <2>1, <2>2 DEF InformerOK
  <2>4. UNCHANGED <<inbox, dispatched>> \/ \E event \in {"update", "deleted"} : dispatchEvent(a, event)
    BY <1>1 DEF CacheSync
  <2>5. InformerOK'
    BY <2>3, <2>4, DispatchType DEF InformerOK
  <2> QED BY <1>1, <2>5 DEF CacheSync, budgets, ResourcesOK, WorkersOK, RowsOK, BudgetsOK
<1>2. CASE Resync(a)
  <2>1. InformerOK'
    BY <1>2, DispatchType DEF Resync, InformerOK
  <2> QED BY <1>2, <2>1 DEF Resync, budgets, ResourcesOK, WorkersOK, RowsOK, BudgetsOK
<1>3. CASE Evict(a)
  BY <1>3 DEF Evict, informer, budgets, ResourcesOK, InformerOK, WorkersOK, RowsOK, BudgetsOK
<1> QED BY <1>1, <1>2, <1>3

LEMMA TypeHandle == ASSUME TypeOK, NEW a \in Actions, Handle(a) PROVE TypeOK'
<1> USE Split
<1>0. /\ worker[a] \in WorkerType /\ row[a] \in Row /\ cache[a] \in ObjectType /\ cr[a] \in ObjectType
      /\ cr \in [Actions -> ObjectType] /\ worker \in [Actions -> WorkerType]
      /\ row[Root] \in Row /\ filter \subseteq Actions
  BY Numbers DEF WorkersOK, RowsOK, InformerOK, ResourcesOK
<1>1. CASE TakeUpdate(a)
  <2>1. worker' \in [Actions -> WorkerType]
    BY <1>1, WorkerGoes DEF TakeUpdate
  <2> QED BY <1>1, <2>1 DEF TakeUpdate, budgets, ResourcesOK, InformerOK, WorkersOK, RowsOK, BudgetsOK
<1>2. CASE ReadLatest(a)
  <2>1. [pc |-> "record", deleted |-> FALSE, phase |-> cache[a].phase,
         attempts |-> cache[a].attempts] \in WorkerType
    BY <1>0 DEF ObjectType, WorkerType, PhaseNumbers
  <2>2. worker' \in [Actions -> WorkerType]
    BY <1>0, <1>2, <2>1, WorkerGoes DEF ReadLatest
  <2> QED BY <1>2, <2>2 DEF ReadLatest, informer, budgets, ResourcesOK, InformerOK, WorkersOK, RowsOK, BudgetsOK
<1>3. CASE TakeDeletion(a)
  <2> DEFINE phase == IF Terminal(cache[a]) THEN cache[a].phase ELSE ABORTED
  <2>1. phase \in PhaseNumbers
    BY <1>0 DEF ObjectType, PhaseNumbers, ABORTED, UNSPECIFIED, RECOVERED
  <2>2. [pc |-> "record", deleted |-> TRUE, phase |-> phase, attempts |-> cache[a].attempts] \in WorkerType
    BY <1>0, <2>1 DEF ObjectType, WorkerType
  <2>3. worker' = [worker EXCEPT ![a] = [pc |-> "record", deleted |-> TRUE, phase |-> phase,
                                         attempts |-> cache[a].attempts]]
    BY <1>3 DEF TakeDeletion
  <2>4. worker' \in [Actions -> WorkerType]
    BY <1>0, <2>2, <2>3
  <2> QED BY <1>3, <2>4 DEF TakeDeletion, budgets, ResourcesOK, InformerOK, WorkersOK, RowsOK, BudgetsOK
<1>4. CASE Record(a)
  <2>1. CreateAction(row[a]) \in Row
    BY <1>0, RowStatements, Numbers
  <2>2. RowsOK' /\ BudgetsOK'
    <3>1. CASE UNCHANGED row /\ NoFault
      BY <3>1 DEF NoFault, budgets, RowsOK, BudgetsOK
    <3>2. CASE ~(UNCHANGED row /\ NoFault)
      BY <1>4, <2>1, <3>2, StoreType DEF Record
    <3> QED BY <3>1, <3>2
  <2>3. worker' \in [Actions -> WorkerType] /\ filter' \subseteq Actions
    BY <1>0, <1>4, WorkerGoes DEF Record, AfterRecord
  <2> QED BY <1>4, <2>2, <2>3 DEF Record, informer, ResourcesOK, InformerOK, WorkersOK
<1>5. CASE PromoteParent(a)
  <2>1. UpdateActionPhase(row[Root], RUNNING, 0) \in Row
    BY <1>0, RowStatements, Numbers DEF RUNNING
  <2>2. RowsOK' /\ BudgetsOK'
    BY <1>5, <2>1, StoreType, Numbers DEF PromoteParent
  <2>3. worker' \in [Actions -> WorkerType]
    BY <1>5, WorkerGoes DEF PromoteParent
  <2> QED BY <1>0, <1>5, <2>2, <2>3 DEF PromoteParent, informer, ResourcesOK, InformerOK, WorkersOK
<1>6. CASE UpdateStatus(a)
  <2> DEFINE updated == UpdateActionPhase(row[a], worker[a].phase, worker[a].attempts)
  <2>1. updated \in Row
    BY <1>0, RowStatements DEF WorkerType
  <2>2. \/ UNCHANGED row /\ NoFault
        \/ Succeeds(a, updated)
        \/ Fails(a, updated) /\ Fault
    BY <1>6 DEF UpdateStatus
  <2>3. Goto(a, "label") \/ Done(a)
    BY <1>6 DEF UpdateStatus
  <2> HIDE DEF updated
  <2>4. RowsOK' /\ BudgetsOK'
    <3>1. CASE UNCHANGED row /\ NoFault
      BY <3>1 DEF NoFault, budgets, RowsOK, BudgetsOK
    <3>2. CASE Succeeds(a, updated) \/ (Fails(a, updated) /\ Fault)
      BY <2>1, <3>2, StoreType
    <3> QED BY <2>2, <3>1, <3>2
  <2>5. worker' \in [Actions -> WorkerType]
    BY <2>3, WorkerGoes
  <2> QED BY <1>0, <1>6, <2>4, <2>5 DEF UpdateStatus, informer, ResourcesOK, InformerOK, WorkersOK
<1>7. CASE MarkRecorded(a)
  <2>a. \A b \in BOOLEAN : [cr[a] EXCEPT !.recorded = b] \in ObjectType
    BY <1>0 DEF ObjectType
  <2>b. UNCHANGED cr \/ \E b \in BOOLEAN : cr' = [cr EXCEPT ![a] = [cr[a] EXCEPT !.recorded = b]]
    <3>1. (cr[a].recorded \/ cr[a].state = "present") \in BOOLEAN
      OBVIOUS
    <3> QED BY <1>0, <1>7, <3>1 DEF MarkRecorded
  <2>1. ResourcesOK'
    BY <1>0, <2>a, <2>b DEF ResourcesOK
  <2>2. BudgetsOK'
    BY <1>7, Numbers DEF MarkRecorded, NoFault, Fault, budgets, BudgetsOK
  <2>3. worker' \in [Actions -> WorkerType]
    BY <1>7, WorkerGoes DEF MarkRecorded
  <2> QED BY <1>0, <1>7, <2>1, <2>2, <2>3 DEF MarkRecorded, informer, InformerOK, WorkersOK, RowsOK
<1> QED BY <1>1, <1>2, <1>3, <1>4, <1>5, <1>6, <1>7 DEF Handle

LEMMA TypeRestart == ASSUME TypeOK, Restart PROVE TypeOK'
<1> USE Split
<1>1. Idle \in WorkerType
  BY Numbers DEF Idle, WorkerType, UNSPECIFIED
<1>2. cache' \in [Actions -> ObjectType]
  BY DEF Restart, ResourcesOK, InformerOK
<1>3. InformerOK'
  BY <1>2, Numbers DEF Restart, InformerOK
<1>4. WorkersOK'
  BY <1>1 DEF Restart, WorkersOK
<1>5. BudgetsOK'
  BY Numbers DEF Restart, BudgetsOK
<1> QED BY <1>3, <1>4, <1>5 DEF Restart, ResourcesOK, RowsOK

LEMMA TypeStep == TypeOK /\ [Next]_vars => TypeOK'
<1> SUFFICES ASSUME TypeOK, [Next]_vars PROVE TypeOK'
  OBVIOUS
<1>1. CASE Next
  BY <1>1, TypeResources, TypeInformer, TypeHandle, TypeRestart DEF Next
<1>2. CASE UNCHANGED vars
  BY <1>2 DEF vars, TypeOK
<1> QED BY <1>1, <1>2

(* Rows, cached copies and the events in hand keep their shape: no attempt *)
(* beyond the task's and no phase the runs service does not know.          *)
THEOREM WatchTyped == Spec => []TypeOK
BY TypeInit, TypeStep, PTL DEF Spec

-----------------------------------------------------------------------------
(* An action's own state moves in its own steps and in a restart           *)

Own(a) ==
    \/ Enqueue(a) \/ Report(a) \/ RequestAbort(a) \/ DeleteAborted(a) \/ Collect(a) \/ Cascade(a)
    \/ CacheSync(a) \/ Resync(a) \/ Evict(a) \/ Handle(a)

Elsewhere(a) ==
    /\ cr'[a] = cr[a] /\ cache'[a] = cache[a] /\ inbox'[a] = inbox[a]
    /\ worker'[a] = worker[a] /\ row'[a] = row[a]
    /\ a \in dispatched' <=> a \in dispatched
    /\ a \in filter' <=> a \in filter

(* A child's row is not even touched by the promotion of its parent.       *)
LEMMA Locality ==
    ASSUME TypeOK, [Next]_vars, NEW a \in Children
    PROVE  Restart \/ Own(a) \/ Elsewhere(a)
<1> USE Split DEF ResourcesOK, InformerOK, WorkersOK, RowsOK
<1>0. a \in Actions /\ a # Root
  BY Numbers
<1>1. ASSUME NEW b \in Actions, b # a, Own(b) PROVE Elsewhere(a)
  <2>1. CASE Enqueue(b) \/ Report(b) \/ RequestAbort(b) \/ DeleteAborted(b) \/ Collect(b) \/ Cascade(b)
    BY <1>0, <1>1, <2>1 DEF Enqueue, Report, RequestAbort, DeleteAborted, Collect, Cascade, Remove,
       informer, Elsewhere
  <2>2. CASE CacheSync(b) \/ Resync(b) \/ Evict(b)
    BY <1>0, <1>1, <2>2 DEF CacheSync, Resync, Evict, dispatchEvent, informer, Elsewhere
  <2>3. CASE TakeUpdate(b) \/ ReadLatest(b) \/ TakeDeletion(b)
    BY <1>0, <1>1, <2>3 DEF TakeUpdate, ReadLatest, TakeDeletion, Goto, Done, informer, Elsewhere
  <2>4. CASE Record(b)
    BY <1>0, <1>1, <2>4 DEF Record, AfterRecord, Succeeds, Fails, Goto, informer, Elsewhere
  <2>5. CASE PromoteParent(b)
    <3> DEFINE promoted == UpdateActionPhase(row[Root], RUNNING, 0)
    <3>1. UNCHANGED row \/ row' = [row EXCEPT ![Root] = promoted]
      BY <2>5 DEF PromoteParent, Succeeds, Fails
    <3> HIDE DEF promoted
    <3>2. row'[a] = row[a]
      BY <1>0, <3>1
    <3> QED BY <1>0, <1>1, <2>5, <3>2 DEF PromoteParent, Goto, informer, Elsewhere
  <2>6. CASE UpdateStatus(b)
    <3> DEFINE updated == UpdateActionPhase(row[b], worker[b].phase, worker[b].attempts)
    <3>1. UNCHANGED row \/ row' = [row EXCEPT ![b] = updated]
      BY <2>6 DEF UpdateStatus, Succeeds, Fails
    <3> HIDE DEF updated
    <3>2. row'[a] = row[a]
      BY <1>0, <1>1, <3>1
    <3>3. Goto(b, "label") \/ Done(b)
      BY <2>6 DEF UpdateStatus
    <3> QED BY <1>0, <1>1, <2>6, <3>2, <3>3 DEF UpdateStatus, Goto, Done, informer, Elsewhere
  <2>7. CASE MarkRecorded(b)
    BY <1>0, <1>1, <2>7 DEF MarkRecorded, Done, informer, Elsewhere
  <2> QED BY <1>1, <2>1, <2>2, <2>3, <2>4, <2>5, <2>6, <2>7 DEF Own, Handle
<1>2. CASE UNCHANGED vars
  BY <1>2 DEF vars, Elsewhere
<1> QED BY <1>0, <1>1, <1>2 DEF Next, Own

(* What a handled event does to the action's row: nothing, an insertion,   *)
(* or the update with what the event carries.                              *)
LEMMA HandledRow ==
    ASSUME TypeOK, NEW a \in Children, Handle(a)
    PROVE  \/ row'[a] = row[a] /\ ~UpdateStatus(a)
           \/ Record(a) /\ ~UpdateStatus(a) /\ row'[a] = CreateAction(row[a])
           \/ UpdateStatus(a) /\ worker[a].phase = UNSPECIFIED /\ row'[a] = row[a]
           \/ UpdateStatus(a) /\ worker[a].phase # UNSPECIFIED
              /\ row'[a] \in {row[a], UpdateActionPhase(row[a], worker[a].phase, worker[a].attempts)}
<1> USE Split DEF RowsOK
<1>0. a \in Actions /\ a # Root
  BY Numbers
<1>1. CASE TakeUpdate(a) \/ ReadLatest(a) \/ TakeDeletion(a) \/ MarkRecorded(a)
  BY <1>1 DEF TakeUpdate, ReadLatest, TakeDeletion, MarkRecorded, UpdateStatus
<1>2. CASE Record(a)
  <2>1. row' \in {row, [row EXCEPT ![a] = CreateAction(row[a])]} /\ ~UpdateStatus(a)
    BY <1>2 DEF Record, Succeeds, Fails, UpdateStatus
  <2> QED BY <1>0, <1>2, <2>1
<1>3. CASE PromoteParent(a)
  <2> DEFINE promoted == UpdateActionPhase(row[Root], RUNNING, 0)
  <2>1. UNCHANGED row \/ row' = [row EXCEPT ![Root] = promoted]
    BY <1>3 DEF PromoteParent, Succeeds, Fails
  <2> HIDE DEF promoted
  <2> QED BY <1>0, <1>3, <2>1 DEF PromoteParent, UpdateStatus
<1>4. CASE UpdateStatus(a)
  <2> DEFINE updated == UpdateActionPhase(row[a], worker[a].phase, worker[a].attempts)
  <2>1. \/ worker[a].phase = UNSPECIFIED /\ UNCHANGED row
        \/ worker[a].phase # UNSPECIFIED /\ row' \in {row, [row EXCEPT ![a] = updated]}
    BY <1>4 DEF UpdateStatus, Succeeds, Fails
  <2> QED BY <1>0, <1>4, <2>1
<1> QED BY <1>1, <1>2, <1>3, <1>4 DEF Handle

(* A row that has its outcome keeps it if the event says the same.         *)
LEMMA SameOutcome ==
    ASSUME NEW r \in Row, NEW n, r.phase \in Outcomes
    PROVE  UpdateActionPhase(r, r.phase, n).phase = r.phase
BY DEF Row, RowType, UpdateActionPhase

LEMMA RowUpdated ==
    ASSUME NEW r \in Row, NEW phase \in PhaseNumbers, NEW n \in 0..MaxAttempts
    PROVE  /\ UpdateActionPhase(r, phase, n).exists = r.exists
           /\ UpdateActionPhase(r, phase, n).phase \in {r.phase, phase}
           /\ ~r.exists => UpdateActionPhase(r, phase, n) = r
BY DEF Row, RowType, UpdateActionPhase

LEMMA RowCreated ==
    ASSUME NEW r \in Row
    PROVE  /\ CreateAction(r).exists
           /\ r.exists => CreateAction(r) = r
           /\ ~r.exists => CreateAction(r).phase = QUEUED
BY DEF Row, RowType, CreateAction, NoRow

LEMMA RowAborted ==
    ASSUME NEW r \in Row
    PROVE  /\ ~r.exists => AbortAction(r) = r
           /\ r.exists => AbortAction(r).phase = ABORTED /\ AbortAction(r).exists
BY DEF Row, RowType, AbortAction

(* What it does to the worker.                                             *)
LEMMA HandledWorker ==
    ASSUME TypeOK, NEW a \in Children, Handle(a)
    PROVE  /\ cache' = cache /\ cr'[a].phase = cr[a].phase /\ cr'[a].state = cr[a].state
           /\ \/ TakeUpdate(a) /\ worker[a].pc = "idle" /\ worker'[a].pc = "read"
              \/ ReadLatest(a) /\ worker[a].pc = "read" /\ worker'[a].pc = "record"
                 /\ worker'[a].phase = cache[a].phase
              \/ ReadLatest(a) /\ worker[a].pc = "read" /\ worker'[a].pc = "idle"
                 /\ (cache[a].state # "present" \/ cache[a].recorded)
              \/ TakeDeletion(a) /\ worker[a].pc = "idle" /\ worker'[a].pc = "record"
                 /\ worker'[a].phase = (IF Terminal(cache[a]) THEN cache[a].phase ELSE ABORTED)
              \/ (Record(a) \/ PromoteParent(a)) /\ worker[a].pc \in {"record", "promote"}
                 /\ worker'[a].pc \in {"promote", "update"} /\ worker'[a].phase = worker[a].phase
              \/ UpdateStatus(a) /\ worker[a].pc = "update" /\ worker'[a].pc = "label"
                 /\ worker'[a].phase = worker[a].phase /\ worker[a].phase \in TerminalPhases
                 /\ Succeeds(a, UpdateActionPhase(row[a], worker[a].phase, worker[a].attempts))
              \/ UpdateStatus(a) /\ worker[a].pc = "update" /\ worker'[a].pc = "idle"
              \/ MarkRecorded(a) /\ worker[a].pc = "label" /\ worker'[a].pc = "idle"
<1> USE Split DEF WorkersOK, ResourcesOK
<1>0. a \in Actions /\ a # Root /\ worker[a] \in WorkerType
  BY Numbers
<1>1. CASE TakeUpdate(a)
  BY <1>0, <1>1 DEF TakeUpdate, Goto, WorkerType
<1>2. CASE ReadLatest(a)
  BY <1>0, <1>2 DEF ReadLatest, Done, Idle, informer, shouldSkipTaskAction
<1>3. CASE TakeDeletion(a)
  BY <1>0, <1>3 DEF TakeDeletion
<1>4. CASE Record(a)
  BY <1>0, <1>4 DEF Record, AfterRecord, Goto, informer, WorkerType
<1>5. CASE PromoteParent(a)
  BY <1>0, <1>5 DEF PromoteParent, Goto, informer, WorkerType
<1>6. CASE UpdateStatus(a)
  <2> DEFINE updated == UpdateActionPhase(row[a], worker[a].phase, worker[a].attempts)
  <2>1. \/ Goto(a, "label") /\ worker[a].phase \in TerminalPhases /\ Succeeds(a, updated)
        \/ Done(a)
    BY <1>6 DEF UpdateStatus
  <2>2. worker[a].pc = "update" /\ UNCHANGED <<cr, cache>>
    BY <1>6 DEF UpdateStatus, informer
  <2> HIDE DEF updated
  <2>3. \/ worker'[a].pc = "label" /\ worker'[a].phase = worker[a].phase
           /\ worker[a].phase \in TerminalPhases /\ Succeeds(a, updated)
        \/ worker'[a].pc = "idle"
    BY <1>0, <2>1 DEF Goto, Done, Idle, WorkerType
  <2> QED BY <1>6, <2>2, <2>3 DEF updated
<1>7. CASE MarkRecorded(a)
  <2>1. worker[a].pc = "label" /\ worker'[a].pc = "idle" /\ cache' = cache
    BY <1>0, <1>7 DEF MarkRecorded, Done, Idle, informer
  <2>2. cr'[a].phase = cr[a].phase /\ cr'[a].state = cr[a].state
    BY <1>0, <1>7 DEF MarkRecorded, ObjectType
  <2> QED BY <1>7, <2>1, <2>2
<1> QED BY <1>1, <1>2, <1>3, <1>4, <1>5, <1>6, <1>7 DEF Handle

(* The resource of an action never leaves its outcome, and is not replaced.*)
LEMMA ResourceMoves ==
    ASSUME TypeOK, NEW a \in Children, Own(a), ~Handle(a)
    PROVE  /\ Terminal(cr[a]) => cr'[a].phase = cr[a].phase
           /\ cr[a].state = "gone" => cr'[a].state = "gone"
           /\ cr'[a].recorded = cr[a].recorded
           /\ worker' = worker
<1> USE Split DEF ResourcesOK
<1>0. a \in Actions /\ cr[a] \in ObjectType
  BY Numbers
<1>1. CASE Enqueue(a)
  BY <1>0, <1>1 DEF Enqueue, ObjectType
<1>2. CASE Report(a)
  <2> DEFINE new(phase) ==
          [cr[a] EXCEPT !.phase = phase,
                        !.attempts = attemptsAfter(a, phase = QUEUED /\ cr[a].phase = RUNNING)]
  <2>1. PICK phase : cr' = [cr EXCEPT ![a] = new(phase)]
    BY <1>0, <1>2 DEF Report
  <2>2. new(phase).recorded = cr[a].recorded
    BY <1>0 DEF ObjectType
  <2>3. ~Terminal(cr[a]) /\ cr[a].state = "present" /\ worker' = worker
    BY <1>2 DEF Report
  <2> HIDE DEF new
  <2> QED BY <1>0, <2>1, <2>2, <2>3
<1>3. CASE DeleteAborted(a) \/ Collect(a) \/ Cascade(a)
  BY <1>0, <1>3 DEF DeleteAborted, Collect, Cascade, Remove, ObjectType
<1>4. CASE RequestAbort(a) \/ CacheSync(a) \/ Resync(a) \/ Evict(a)
  BY <1>4 DEF RequestAbort, CacheSync, Resync, Evict
<1> QED BY <1>1, <1>2, <1>3, <1>4 DEF Own

(* The informer's copy is the resource or an earlier state of it.          *)
LEMMA CacheMoves ==
    ASSUME TypeOK, NEW a \in Children, Own(a), ~Handle(a)
    PROVE  \/ cache'[a] = cache[a]
           \/ CacheSync(a) /\ cr' = cr /\ cache'[a].phase = cr[a].phase
              /\ cache'[a].recorded = cr[a].recorded /\ cache'[a].state = "present"
              /\ (cr[a].state = "present" \/ cache[a].state = "absent")
           \/ CacheSync(a) /\ cr' = cr /\ cache'[a].state = "gone" /\ cr[a].state = "gone"
              /\ \/ cache'[a].phase = cr[a].phase /\ cache'[a].recorded = cr[a].recorded
                 \/ cache'[a].phase = cache[a].phase /\ cache'[a].recorded = cache[a].recorded
<1> USE Split DEF ResourcesOK, InformerOK
<1>0. a \in Actions /\ cr[a] \in ObjectType /\ cache[a] \in ObjectType
  BY Numbers
<1>1. CASE Enqueue(a) \/ Report(a) \/ RequestAbort(a) \/ DeleteAborted(a) \/ Collect(a) \/ Cascade(a)
  BY <1>1 DEF Enqueue, Report, RequestAbort, DeleteAborted, Collect, Cascade, informer
<1>2. CASE Resync(a) \/ Evict(a)
  BY <1>2 DEF Resync, Evict, informer
<1>3. CASE CacheSync(a)
  <2>1. \/ (cr[a].state = "present" \/ cache[a].state = "absent")
           /\ cache' = [cache EXCEPT ![a] = [cr[a] EXCEPT !.state = "present"]]
        \/ cr[a].state = "gone" /\ cache' = [cache EXCEPT ![a] = cr[a]]
        \/ cr[a].state = "gone" /\ cache' = [cache EXCEPT ![a] = [cache[a] EXCEPT !.state = "gone"]]
    BY <1>3 DEF CacheSync
  <2> QED BY <1>0, <1>3, <2>1 DEF CacheSync, ObjectType
<1> QED BY <1>1, <1>2, <1>3 DEF Own

-----------------------------------------------------------------------------
(* A child's outcome is final                                              *)

Busy == {"record", "promote", "update", "label"}

(* An outcome has come the whole way: what the row holds the cache has,    *)
(* what the cache has the resource has, and the event in hand was read     *)
(* after the one that was written.                                         *)
OutcomeOf(a) ==
    /\ Terminal(cache[a]) => cr[a].phase = cache[a].phase
    /\ worker[a].pc \in Busy /\ worker[a].phase \in Outcomes => cache[a].phase = worker[a].phase
    /\ row[a].phase \in Outcomes =>
         /\ row[a].exists /\ cache[a].phase = row[a].phase
         /\ worker[a].pc \in Busy => worker[a].phase = row[a].phase

OutcomeInv == \A a \in Children : OutcomeOf(a)

LEMMA OutcomeInit == Init => OutcomeInv
<1> SUFFICES ASSUME Init, NEW a \in Children PROVE OutcomeOf(a)
  BY DEF OutcomeInv
<1>1. cache[a] = Absent /\ worker[a] = Idle /\ row[a] = NoRow
  BY Numbers DEF Init
<1>2. UNSPECIFIED \notin Outcomes
  BY Numbers DEF UNSPECIFIED
<1> QED BY <1>1, <1>2 DEF OutcomeOf, Busy, Terminal, Absent, Idle, NoRow

LEMMA OutcomeHandle ==
    ASSUME TypeOK, NEW a \in Children, OutcomeOf(a), Handle(a)
    PROVE  OutcomeOf(a)'
<1>0. /\ row[a] \in Row /\ worker[a].phase \in PhaseNumbers /\ worker[a].attempts \in 0..MaxAttempts
      /\ cache'[a] = cache[a] /\ cr'[a].phase = cr[a].phase
  BY HandledWorker, Split, Numbers DEF RowsOK, WorkersOK, WorkerType
<1>1. ABORTED \notin Outcomes /\ QUEUED \notin Outcomes
  BY Numbers DEF ABORTED, QUEUED
<1>2. worker'[a].pc \in Busy =>
         \/ worker'[a].phase = cache[a].phase
         \/ worker'[a].phase = ABORTED /\ ~Terminal(cache[a])
         \/ worker[a].pc \in Busy /\ worker'[a].phase = worker[a].phase
  BY HandledWorker DEF Busy
<1>3. CASE row'[a].phase = row[a].phase /\ row'[a].exists = row[a].exists
  BY <1>0, <1>1, <1>2, <1>3 DEF OutcomeOf, Terminal
<1>4. CASE row'[a].phase # row[a].phase \/ row'[a].exists # row[a].exists
  <2>1. CASE Record(a) /\ row'[a] = CreateAction(row[a])
    BY <1>0, <1>1, <1>2, <1>4, <2>1, RowCreated DEF OutcomeOf, Terminal
  <2>2. CASE UpdateStatus(a) /\ row'[a] = UpdateActionPhase(row[a], worker[a].phase, worker[a].attempts)
    <3>1. row[a].exists /\ row'[a].exists /\ row'[a].phase = worker[a].phase
      BY <1>0, <1>4, <2>2, RowUpdated
    <3>2. worker[a].pc \in Busy
      BY <2>2 DEF UpdateStatus, Busy
    <3> QED BY <1>0, <1>1, <1>2, <3>1, <3>2 DEF OutcomeOf, Terminal
  <2> QED BY <1>4, <2>1, <2>2, HandledRow
<1> QED BY <1>3, <1>4

LEMMA OutcomeOwn ==
    ASSUME TypeOK, NEW a \in Children, OutcomeOf(a), Own(a), ~Handle(a)
    PROVE  OutcomeOf(a)'
<1>1. row[a] \in Row /\ ABORTED \notin Outcomes /\ a \in Actions /\ row \in [Actions -> Row]
  BY Split, Numbers DEF RowsOK, ABORTED
<1>2. \/ row'[a] = row[a]
      \/ row[a].exists /\ row'[a].phase = ABORTED /\ cache' = cache
  <2>1. CASE RequestAbort(a)
    <3>1. row'[a] = AbortAction(row[a]) /\ row[a].exists /\ cache' = cache
      BY <1>1, <2>1 DEF RequestAbort, informer
    <3> QED BY <1>1, <3>1, RowAborted, Numbers DEF ABORTED
  <2>2. CASE Enqueue(a) \/ Report(a) \/ DeleteAborted(a) \/ Collect(a) \/ Cascade(a)
    BY <2>2 DEF Enqueue, Report, DeleteAborted, Collect, Cascade
  <2>3. CASE CacheSync(a) \/ Resync(a) \/ Evict(a)
    BY <2>3 DEF CacheSync, Resync, Evict
  <2> QED BY <2>1, <2>2, <2>3 DEF Own
<1> QED BY <1>1, <1>2, ResourceMoves, CacheMoves DEF OutcomeOf, Terminal

LEMMA OutcomeStep == TypeOK /\ OutcomeInv /\ [Next]_vars => OutcomeInv'
<1> SUFFICES ASSUME TypeOK, OutcomeInv, [Next]_vars, NEW a \in Children PROVE OutcomeOf(a)'
  BY DEF OutcomeInv
<1>0. OutcomeOf(a) /\ a \in Actions
  BY Numbers DEF OutcomeInv
<1>1. CASE Restart
  <2>1. worker'[a].pc = "idle" /\ row'[a] = row[a] /\ cr'[a] = cr[a]
    BY <1>0, <1>1 DEF Restart, Idle
  <2>2. cache'[a] \in {cr[a], cache[a]}
    BY <1>0, <1>1 DEF Restart
  <2> QED BY <1>0, <2>1, <2>2 DEF OutcomeOf, Terminal, Busy
<1>2. CASE Own(a)
  BY <1>0, <1>2, OutcomeHandle, OutcomeOwn
<1>3. CASE Elsewhere(a)
  BY <1>0, <1>3 DEF Elsewhere, OutcomeOf, Terminal
<1> QED BY <1>1, <1>2, <1>3, Locality

(* UpdateActionPhase lets a retryable outcome be left, yet no child's is:  *)
(* an event is read after the marks are cleared and handled in order, so   *)
(* none brings a phase from before the outcome.  Only AbortAction replaces *)
(* it.                                                                     *)
THEOREM OutcomeStands == Spec => OutcomeIsFinal
<1>1. TypeOK /\ OutcomeInv /\ [Next]_vars =>
        [\A a \in Children : row[a].phase \in Outcomes /\ ~row'[a].abortRequested
             => row'[a].phase = row[a].phase]_vars
  <2> SUFFICES ASSUME TypeOK, OutcomeInv, [Next]_vars, NEW a \in Children,
                      row[a].phase \in Outcomes, ~row'[a].abortRequested
               PROVE  row'[a].phase = row[a].phase
    OBVIOUS
  <2>0. /\ OutcomeOf(a) /\ a \in Actions /\ row[a] \in Row /\ row \in [Actions -> Row]
        /\ worker[a].attempts \in 0..MaxAttempts
    BY Numbers, Split DEF OutcomeInv, RowsOK, WorkersOK, WorkerType
  <2>1. CASE Restart
    BY <2>1 DEF Restart
  <2>2. CASE Handle(a)
    <3>1. row[a].exists
      BY <2>0 DEF OutcomeOf
    <3>2. CASE UpdateStatus(a)
      <4>1. worker[a].phase = row[a].phase
        BY <2>0, <3>2 DEF OutcomeOf, UpdateStatus, Busy
      <4>2. UpdateActionPhase(row[a], worker[a].phase, worker[a].attempts).phase = row[a].phase
        BY <2>0, <4>1, SameOutcome
      <4> QED BY <2>2, <3>2, <4>2, HandledRow
    <3>3. CASE ~UpdateStatus(a)
      <4>1. CreateAction(row[a]) = row[a]
        BY <3>1 DEF CreateAction
      <4> QED BY <2>2, <3>3, <4>1, HandledRow
    <3> QED BY <3>2, <3>3
  <2>3. CASE RequestAbort(a)
    <3>1. row'[a] = AbortAction(row[a]) /\ row[a].exists
      BY <2>0, <2>3 DEF RequestAbort
    <3>2. AbortAction(row[a]).abortRequested
      BY <2>0, <3>1 DEF AbortAction, Row, RowType
    <3> QED BY <3>1, <3>2
  <2>4. CASE Enqueue(a) \/ Report(a) \/ DeleteAborted(a) \/ Collect(a) \/ Cascade(a)
             \/ CacheSync(a) \/ Resync(a) \/ Evict(a)
    BY <2>4 DEF Enqueue, Report, DeleteAborted, Collect, Cascade, CacheSync, Resync, Evict
  <2>5. CASE Elsewhere(a)
    BY <2>5 DEF Elsewhere
  <2> QED BY <2>1, <2>2, <2>3, <2>4, <2>5, Locality DEF Own
<1> QED BY TypeInit, TypeStep, OutcomeInit, OutcomeStep, <1>1, PTL DEF Spec, OutcomeIsFinal

-----------------------------------------------------------------------------
(* A resource leaves the watch only when its row is done                   *)

(* The children that run a task.  A condition's row stays PAUSED under the *)
(* phase guard, so the next properties are not true of it.                 *)
Tasks == Children \ Conditions

Closed(a) == row[a].exists /\ row[a].phase \in TerminalPhases

TaskPhase == UNSPECIFIED..TIMED_OUT

(* No phase of a task is above its outcomes, so the guard lets them in.    *)
PhasesOf(a) ==
    /\ cr[a].phase \in TaskPhase /\ cache[a].phase \in TaskPhase
    /\ worker[a].phase \in TaskPhase /\ row[a].phase \in TaskPhase

PhasesInv == \A a \in Tasks : PhasesOf(a)

LEMMA TaskNumbers ==
    /\ TaskPhase = 0..8 /\ TaskPhases \subseteq TaskPhase
    /\ Tasks \subseteq Children /\ \A a \in Tasks : a \notin Conditions
    /\ \A p \in TaskPhase : p \in TerminalPhases <=> p >= 5
    /\ UNSPECIFIED \in TaskPhase /\ QUEUED \in TaskPhase /\ ABORTED \in TaskPhase
BY Numbers DEF TaskPhase, Tasks, UNSPECIFIED, QUEUED, ABORTED, TIMED_OUT

LEMMA PhasesInit == Init => PhasesInv
<1> SUFFICES ASSUME Init, NEW a \in Tasks PROVE PhasesOf(a)
  BY DEF PhasesInv
<1>1. /\ cache[a] = Absent /\ worker[a] = Idle /\ row[a] = NoRow /\ cr[a] = Absent
  BY Numbers, TaskNumbers DEF Init
<1> QED BY <1>1, TaskNumbers DEF PhasesOf, Absent, Idle, NoRow

LEMMA PhasesStep == TypeOK /\ PhasesInv /\ [Next]_vars => PhasesInv'
<1> SUFFICES ASSUME TypeOK, PhasesInv, [Next]_vars, NEW a \in Tasks PROVE PhasesOf(a)'
  BY DEF PhasesInv
<1> USE TaskNumbers
<1>0. /\ PhasesOf(a) /\ a \in Actions /\ row[a] \in Row /\ cr[a] \in ObjectType
      /\ worker[a] \in WorkerType /\ a \in Children
      /\ row \in [Actions -> Row] /\ cr \in [Actions -> ObjectType] /\ worker \in [Actions -> WorkerType]
  BY Numbers, Split DEF PhasesInv, RowsOK, WorkersOK, ResourcesOK
<1>1. CASE Restart
  BY <1>0, <1>1 DEF Restart, PhasesOf, Idle
<1>2. CASE Handle(a)
  <2>1. row'[a].phase \in TaskPhase
    BY <1>0, <1>2, HandledRow, RowUpdated, RowCreated DEF PhasesOf, WorkerType
  <2>2. worker'[a].phase \in TaskPhase
    <3>1. CASE TakeUpdate(a)
      BY <1>0, <3>1 DEF TakeUpdate, Goto, PhasesOf, WorkerType
    <3>2. CASE ReadLatest(a)
      BY <1>0, <3>2 DEF ReadLatest, Done, Idle, PhasesOf
    <3>3. CASE UpdateStatus(a)
      <4>1. Goto(a, "label") \/ Done(a)
        BY <3>3 DEF UpdateStatus
      <4> QED BY <1>0, <4>1 DEF Goto, Done, Idle, PhasesOf, WorkerType
    <3>4. CASE MarkRecorded(a)
      BY <1>0, <3>4 DEF MarkRecorded, Done, Idle
    <3>5. CASE TakeDeletion(a) \/ Record(a) \/ PromoteParent(a)
      BY <1>0, <1>2, <3>5, HandledWorker
         DEF PhasesOf, TakeDeletion, Record, PromoteParent, TakeUpdate, ReadLatest, UpdateStatus, MarkRecorded
    <3> QED BY <1>2, <3>1, <3>2, <3>3, <3>4, <3>5 DEF Handle
  <2> QED BY <1>0, <1>2, <2>1, <2>2, HandledWorker DEF PhasesOf
<1>3. CASE Own(a) /\ ~Handle(a)
  <2>1. worker' = worker /\ cache'[a].phase \in TaskPhase
    BY <1>0, <1>3, ResourceMoves, CacheMoves DEF PhasesOf
  <2>2. cr'[a].phase \in TaskPhase
    <3>1. CASE Report(a)
      <4> DEFINE new(phase) ==
              [cr[a] EXCEPT !.phase = phase,
                            !.attempts = attemptsAfter(a, phase = QUEUED /\ cr[a].phase = RUNNING)]
      <4>1. PICK phase \in TaskPhases : cr' = [cr EXCEPT ![a] = new(phase)]
        BY <1>0, <3>1 DEF Report
      <4>2. new(phase).phase = phase
        BY <1>0 DEF ObjectType
      <4> HIDE DEF new
      <4> QED BY <1>0, <4>1, <4>2
    <3>2. CASE Enqueue(a) \/ DeleteAborted(a) \/ Collect(a) \/ Cascade(a)
      BY <1>0, <3>2 DEF Enqueue, DeleteAborted, Collect, Cascade, Remove, ObjectType, PhasesOf
    <3>3. CASE RequestAbort(a) \/ CacheSync(a) \/ Resync(a) \/ Evict(a)
      BY <1>0, <3>3 DEF RequestAbort, CacheSync, Resync, Evict, PhasesOf
    <3> QED BY <1>3, <3>1, <3>2, <3>3 DEF Own
  <2>3. row'[a].phase \in TaskPhase
    <3>1. CASE RequestAbort(a)
      BY <1>0, <3>1, RowAborted DEF RequestAbort, PhasesOf
    <3>2. CASE ~RequestAbort(a)
      BY <1>0, <1>3, <3>2 DEF Own, Enqueue, Report, DeleteAborted, Collect, Cascade, CacheSync,
                              Resync, Evict, PhasesOf
    <3> QED BY <3>1, <3>2
  <2> QED BY <1>0, <2>1, <2>2, <2>3 DEF PhasesOf
<1>4. CASE Elsewhere(a)
  BY <1>0, <1>4 DEF Elsewhere, PhasesOf
<1> QED BY <1>0, <1>1, <1>2, <1>3, <1>4, Locality

(* A terminal update closes an existing row, whatever the row holds.       *)
LEMMA TerminalCloses ==
    ASSUME NEW r \in Row, NEW phase \in TaskPhase, NEW n \in 0..MaxAttempts,
           r.phase \in TaskPhase, phase \in TerminalPhases, r.exists
    PROVE  UpdateActionPhase(r, phase, n).phase \in TerminalPhases
BY TaskNumbers, Numbers DEF UpdateActionPhase, Row, RowType

(* No call can have been taken for a success that left its row unwritten:  *)
(* then the filter knows only rows that are there.                         *)
StoredOf(a) ==
    /\ a \in filter => row[a].exists
    /\ worker[a].pc \in {"promote", "update", "label"} => row[a].exists
    /\ worker[a].pc = "label" => Closed(a)
    /\ cr[a].recorded => Closed(a)

StoredInv == ~Deceived => \A a \in Tasks : StoredOf(a)

LEMMA StoredInit == Init => StoredInv
<1> SUFFICES ASSUME Init, NEW a \in Tasks PROVE StoredOf(a)
  BY DEF StoredInv
<1>1. worker[a] = Idle /\ filter = {} /\ cr[a] = Absent
  BY Numbers, TaskNumbers DEF Init
<1> QED BY <1>1 DEF StoredOf, Idle, Absent

(* What is spent stays spent.                                              *)
LEMMA Spent ==
    ASSUME TypeOK, [Next]_vars
    PROVE  /\ faults' <= faults /\ storeFaults' <= storeFaults /\ restarts' <= restarts
           /\ Restart => restarts' < restarts
<1>0. faults \in Int /\ storeFaults \in Int /\ restarts \in Int
  BY Numbers DEF TypeOK
<1>1. CASE Restart
  BY <1>0, <1>1 DEF Restart
<1>2. ASSUME NEW a \in Actions, Own(a)
      PROVE  UNCHANGED budgets \/ Fault \/ StoreFault
  <2>1. CASE Handle(a)
    BY <2>1 DEF Handle, TakeUpdate, ReadLatest, TakeDeletion, Record, PromoteParent, UpdateStatus,
                MarkRecorded, Succeeds, NoFault
  <2>2. CASE ~Handle(a)
    BY <1>2, <2>2 DEF Own, Enqueue, Report, RequestAbort, DeleteAborted, Collect, Cascade,
                      CacheSync, Resync, Evict
  <2> QED BY <2>1, <2>2
<1>3. UNCHANGED budgets \/ Fault \/ StoreFault => /\ faults' <= faults /\ storeFaults' <= storeFaults
                                                  /\ restarts' <= restarts /\ restarts' = restarts
  BY <1>0 DEF budgets, Fault, StoreFault
<1>4. CASE UNCHANGED vars
  BY <1>0, <1>4 DEF vars, Restart
<1>5. Restart => restarts' < restarts
  BY <1>0 DEF Restart
<1> QED BY <1>1, <1>2, <1>3, <1>4, <1>5 DEF Next, Own

(* A closed row stays closed.                                              *)
LEMMA StaysClosed ==
    ASSUME TypeOK, PhasesInv, OutcomeInv, [Next]_vars, NEW a \in Tasks
    PROVE  /\ row[a].exists => row'[a].exists
           /\ Closed(a) => Closed(a)'
<1> USE TaskNumbers
<1>0. /\ PhasesOf(a) /\ OutcomeOf(a) /\ a \in Actions /\ row[a] \in Row /\ a \in Children
      /\ row \in [Actions -> Row] /\ worker[a] \in WorkerType
  BY Numbers, Split DEF PhasesInv, OutcomeInv, RowsOK, WorkersOK
<1>1. CASE Handle(a)
  <2>1. CASE row'[a] = row[a]
    BY <2>1 DEF Closed
  <2>2. CASE Record(a) /\ row'[a] = CreateAction(row[a])
    BY <1>0, <2>2, RowCreated DEF Closed
  <2>3. CASE UpdateStatus(a) /\ row'[a] = UpdateActionPhase(row[a], worker[a].phase, worker[a].attempts)
    <3>1. worker[a].pc \in Busy
      BY <2>3 DEF UpdateStatus, Busy
    <3>2. CASE row[a].phase \in Outcomes
      <4>1. worker[a].phase = row[a].phase
        BY <1>0, <3>1, <3>2 DEF OutcomeOf
      <4> QED BY <1>0, <2>3, <3>2, <4>1, SameOutcome, RowUpdated DEF Closed, WorkerType
    <3>3. CASE row[a].phase \notin Outcomes
      <4>1. row[a].phase \in TerminalPhases => row[a].phase = 7
        BY <1>0, <3>3, Numbers DEF PhasesOf
      <4>2. row'[a].phase = row[a].phase \/ (row[a].phase <= worker[a].phase /\ row'[a].phase = worker[a].phase)
        BY <1>0, <2>3, <3>3, Numbers DEF UpdateActionPhase, Row, RowType, FAILED, TIMED_OUT
      <4>3. row'[a].exists = row[a].exists
        BY <1>0, <2>3, RowUpdated DEF WorkerType
      <4>4. row[a].phase \in TerminalPhases => row'[a].phase \in TerminalPhases
        BY <1>0, <4>1, <4>2 DEF PhasesOf
      <4> QED BY <4>3, <4>4 DEF Closed
    <3> QED BY <3>2, <3>3
  <2> QED BY <1>0, <1>1, <2>1, <2>2, <2>3, HandledRow
<1>2. CASE RequestAbort(a)
  BY <1>0, <1>2, RowAborted, Numbers DEF RequestAbort, Closed, ABORTED
<1>3. CASE Restart \/ Elsewhere(a)
  BY <1>3 DEF Restart, Elsewhere, Closed
<1>4. CASE Own(a) /\ ~Handle(a) /\ ~RequestAbort(a)
  BY <1>4 DEF Own, Enqueue, Report, DeleteAborted, Collect, Cascade, CacheSync, Resync, Evict, Closed
<1> QED BY <1>0, <1>1, <1>2, <1>3, <1>4, Locality

LEMMA StoredStep ==
    TypeOK /\ PhasesInv /\ OutcomeInv /\ StoredInv /\ [Next]_vars => StoredInv'
<1> SUFFICES ASSUME TypeOK, PhasesInv, OutcomeInv, StoredInv, [Next]_vars, ~Deceived', NEW a \in Tasks
             PROVE  StoredOf(a)'
  BY DEF StoredInv
<1> USE TaskNumbers
<1>0. /\ storeFaults' <= storeFaults /\ storeFaults \in 0..MaxStoreFaults
      /\ storeFaults' \in 0..MaxStoreFaults /\ MaxStoreFaults \in Nat
  BY Spent, Numbers, TypeStep DEF TypeOK
<1>1. ~StoreFault /\ ~Deceived
  BY <1>0 DEF StoreFault, Deceived
<1>2. /\ StoredOf(a) /\ PhasesOf(a) /\ a \in Actions /\ row[a] \in Row /\ a \in Children
      /\ row \in [Actions -> Row] /\ worker[a] \in WorkerType /\ cr \in [Actions -> ObjectType]
  BY <1>1, Numbers, Split DEF StoredInv, PhasesInv, RowsOK, WorkersOK, ResourcesOK
<1>3. (row[a].exists => row'[a].exists) /\ (Closed(a) => Closed(a)')
  BY StaysClosed
<1>4. CASE Restart
  BY <1>2, <1>3, <1>4 DEF Restart, StoredOf, Idle
<1>5. CASE Handle(a)
  <2>1. a \in filter' => row'[a].exists
    <3>1. CASE Record(a)
      <4>1. (a \in filter /\ row' = row) \/ row' = [row EXCEPT ![a] = CreateAction(row[a])]
        BY <1>1, <3>1 DEF Record, Succeeds
      <4> QED BY <1>2, <4>1, RowCreated DEF StoredOf
    <3>2. CASE ~Record(a)
      BY <1>2, <1>3, <1>5, <3>2 DEF Handle, TakeUpdate, ReadLatest, TakeDeletion, PromoteParent,
                                    UpdateStatus, MarkRecorded, StoredOf
    <3> QED BY <3>1, <3>2
  <2>2. worker'[a].pc \in {"promote", "update", "label"} => row'[a].exists
    <3>1. CASE Record(a)
      <4>1. (a \in filter /\ row' = row) \/ row' = [row EXCEPT ![a] = CreateAction(row[a])]
        BY <1>1, <3>1 DEF Record, Succeeds
      <4> QED BY <1>2, <4>1, RowCreated DEF StoredOf
    <3>2. CASE ~Record(a)
      BY <1>2, <1>3, <1>5, <3>2, HandledWorker
         DEF StoredOf, TakeUpdate, ReadLatest, TakeDeletion, PromoteParent, UpdateStatus, MarkRecorded
    <3> QED BY <3>1, <3>2
  <2>3. worker'[a].pc = "label" => Closed(a)'
    <3> SUFFICES ASSUME worker'[a].pc = "label" PROVE Closed(a)'
      OBVIOUS
    <3> DEFINE updated == UpdateActionPhase(row[a], worker[a].phase, worker[a].attempts)
    <3>1. /\ worker[a].pc = "update" /\ worker[a].phase \in TerminalPhases
          /\ Succeeds(a, updated)
      BY <1>2, <1>5, HandledWorker
    <3>2. row[a].exists
      BY <1>2, <3>1 DEF StoredOf
    <3>3. updated.phase \in TerminalPhases /\ updated.exists
      BY <1>2, <3>1, <3>2, TerminalCloses, RowUpdated DEF PhasesOf, WorkerType
    <3> HIDE DEF updated
    <3>4. row' = [row EXCEPT ![a] = updated]
      BY <1>1, <3>1 DEF Succeeds
    <3> QED BY <1>2, <3>3, <3>4 DEF Closed
  <2>4. cr'[a].recorded => Closed(a)'
    <3>1. CASE MarkRecorded(a)
      <4>1. worker[a].pc = "label"
        BY <3>1 DEF MarkRecorded
      <4> QED BY <1>2, <1>3, <4>1 DEF StoredOf
    <3>2. CASE ~MarkRecorded(a)
      BY <1>2, <1>3, <1>5, <3>2 DEF Handle, TakeUpdate, ReadLatest, TakeDeletion, Record,
                                    PromoteParent, UpdateStatus, StoredOf
    <3> QED BY <3>1, <3>2
  <2> QED BY <2>1, <2>2, <2>3, <2>4 DEF StoredOf
<1>6. CASE Own(a) /\ ~Handle(a)
  <2>1. worker' = worker /\ cr'[a].recorded = cr[a].recorded
    BY <1>2, <1>6, ResourceMoves
  <2>2. filter' \subseteq filter
    BY <1>6 DEF Own, Enqueue, Report, RequestAbort, DeleteAborted, Collect, Cascade, CacheSync,
                Resync, Evict
  <2> QED BY <1>2, <1>3, <2>1, <2>2 DEF StoredOf
<1>7. CASE Elsewhere(a)
  BY <1>2, <1>3, <1>7 DEF Elsewhere, StoredOf
<1> QED BY <1>2, <1>4, <1>5, <1>6, <1>7, Locality

LEMMA StoredHolds == Spec => [](TypeOK /\ PhasesInv /\ OutcomeInv /\ StoredInv)
BY TypeInit, TypeStep, PhasesInit, PhasesStep, OutcomeInit, OutcomeStep, StoredInit, StoredStep, PTL DEF Spec

(* markTerminalStatusRecorded labels a task's resource only after its row  *)
(* is there and terminal, and the row stays so, whatever conditions run    *)
(* beside the task.  (A condition's may not: the guard of                  *)
(* UpdateActionPhase refuses the outcome of a paused row.)                 *)
THEOREM LabelledTaskIsStored == Spec => [](\A a \in Tasks : cr[a].recorded => Closed(a) \/ Deceived)
<1>1. StoredInv => \A a \in Tasks : cr[a].recorded => Closed(a) \/ Deceived
  BY DEF StoredInv, StoredOf
<1> QED BY <1>1, StoredHolds, PTL

(* So in a run of tasks every labelled resource is stored.                 *)
THEOREM LabelledIsStored == ASSUME Conditions = {} PROVE Spec => []RecordedIsStored
<1>1. (\A a \in Tasks : cr[a].recorded => Closed(a) \/ Deceived) => RecordedIsStored
  BY DEF Closed, RecordedIsStored, Tasks
<1> QED BY <1>1, LabelledTaskIsStored, PTL

-----------------------------------------------------------------------------
(* Coalescing loses nothing                                                *)

(* A mark stands for an update that is still in the channel.               *)
MarksOf(a) ==
    /\ cache[a].recorded => cr[a].recorded
    /\ a \in dispatched => "update" \in inbox[a]
    /\ cache[a].state = "gone" => cr[a].state = "gone"

MarksInv == \A a \in Children : MarksOf(a)

LEMMA MarksInit == Init => MarksInv
<1> SUFFICES ASSUME Init, NEW a \in Children PROVE MarksOf(a)
  BY DEF MarksInv
<1>1. cache[a] = Absent /\ dispatched = {}
  BY Numbers DEF Init
<1> QED BY <1>1 DEF MarksOf, Absent

(* What a handler of the informer may do to the channel.                   *)
LEMMA Dispatched ==
    ASSUME TypeOK, NEW a \in Children, NEW event \in {"update", "deleted"}, dispatchEvent(a, event),
           MarksOf(a)
    PROVE  /\ a \in dispatched' => "update" \in inbox'[a]
           /\ event \in inbox'[a] /\ inbox[a] \subseteq inbox'[a]
<1>1. inbox \in [Actions -> SUBSET {"update", "deleted"}] /\ a \in Actions
  BY Numbers DEF TypeOK
<1> QED BY <1>1 DEF dispatchEvent, MarksOf

LEMMA InboxHandled ==
    ASSUME TypeOK, NEW a \in Children, Handle(a)
    PROVE  \/ inbox' = inbox /\ dispatched' = dispatched /\ ~TakeUpdate(a) /\ ~TakeDeletion(a)
           \/ TakeUpdate(a) /\ inbox'[a] = inbox[a] \ {"update"} /\ a \notin dispatched'
           \/ TakeDeletion(a) /\ inbox[a] = {"deleted"} /\ inbox'[a] = {} /\ a \notin dispatched'
<1>1. inbox \in [Actions -> SUBSET {"update", "deleted"}] /\ a \in Actions
  BY Numbers DEF TypeOK
<1>2. CASE TakeUpdate(a)
  BY <1>1, <1>2 DEF TakeUpdate
<1>3. CASE TakeDeletion(a)
  BY <1>1, <1>3 DEF TakeDeletion
<1>4. CASE ReadLatest(a) \/ Record(a) \/ PromoteParent(a) \/ UpdateStatus(a) \/ MarkRecorded(a)
  BY <1>4 DEF ReadLatest, Record, PromoteParent, UpdateStatus, MarkRecorded, informer,
              TakeUpdate, TakeDeletion
<1> QED BY <1>2, <1>3, <1>4 DEF Handle

LEMMA MarksStep == TypeOK /\ MarksInv /\ [Next]_vars => MarksInv'
<1> SUFFICES ASSUME TypeOK, MarksInv, [Next]_vars, NEW a \in Children PROVE MarksOf(a)'
  BY DEF MarksInv
<1>0. MarksOf(a) /\ a \in Actions /\ cr \in [Actions -> ObjectType]
  BY Numbers, Split DEF MarksInv, ResourcesOK
<1>1. CASE Restart
  <2>1. cr' = cr /\ cache'[a] \in {cr[a], cache[a]} /\ (a \in dispatched' => "update" \in inbox'[a])
    BY <1>0, <1>1 DEF Restart
  <2> QED BY <1>0, <2>1 DEF MarksOf
<1>2. CASE Handle(a)
  <2>1. cr[a].recorded => cr'[a].recorded
    <3>1. CASE MarkRecorded(a)
      BY <1>0, <3>1 DEF MarkRecorded, ObjectType
    <3>2. CASE ~MarkRecorded(a)
      BY <1>2, <3>2 DEF Handle, TakeUpdate, ReadLatest, TakeDeletion, Record, PromoteParent, UpdateStatus
    <3> QED BY <3>1, <3>2
  <2>2. cache' = cache /\ cr'[a].state = cr[a].state
    BY <1>2, HandledWorker
  <2>3. a \in dispatched' => "update" \in inbox'[a]
    BY <1>0, <1>2, InboxHandled DEF MarksOf
  <2> QED BY <1>0, <2>1, <2>2, <2>3 DEF MarksOf
<1>3. CASE Own(a) /\ ~Handle(a)
  <2>1. a \in dispatched' => "update" \in inbox'[a]
    <3>1. CASE UNCHANGED <<inbox, dispatched>>
      BY <1>0, <3>1 DEF MarksOf
    <3>2. CASE \E event \in {"update", "deleted"} : dispatchEvent(a, event)
      BY <1>0, <3>2, Dispatched
    <3> QED BY <1>3, <3>1, <3>2 DEF Own, Enqueue, Report, RequestAbort, DeleteAborted, Collect,
               Cascade, CacheSync, Resync, Evict, informer
  <2>2. (cr[a].state = "gone" => cr'[a].state = "gone") /\ cr'[a].recorded = cr[a].recorded
    BY <1>3, ResourceMoves
  <2> QED BY <1>0, <1>3, <2>1, <2>2, CacheMoves DEF MarksOf
<1>4. CASE Elsewhere(a)
  BY <1>0, <1>4 DEF Elsewhere, MarksOf
<1> QED BY <1>1, <1>2, <1>3, <1>4, Locality

Undisturbed == faults = MaxFaults /\ storeFaults = MaxStoreFaults /\ restarts = MaxRestarts

Carrying(a) == worker[a].pc \in {"record", "promote", "update"} /\ worker[a].phase \in TerminalPhases

(* What the cache knows to be over is in the row, in the worker's hands,   *)
(* or in the channel; and once the cache has the deletion no update alone  *)
(* will do, because ReadLatest finds nothing to read.                      *)
DueOf(a) ==
    /\ cache[a].state = "absent" => ~Terminal(cache[a])
    /\ Terminal(cache[a]) \/ cache[a].state = "gone" =>
         \/ Closed(a) \/ Carrying(a) \/ "deleted" \in inbox[a]
         \/ cache[a].state # "gone" /\ ("update" \in inbox[a] \/ worker[a].pc = "read")

DueInv == Undisturbed => \A a \in Tasks : DueOf(a)

LEMMA DueInit == Init => DueInv
<1> SUFFICES ASSUME Init, NEW a \in Tasks PROVE DueOf(a)
  BY DEF DueInv
<1>1. cache[a] = Absent /\ UNSPECIFIED \notin Outcomes
  BY Numbers, TaskNumbers DEF Init, UNSPECIFIED
<1> QED BY <1>1 DEF DueOf, Absent, Terminal

LEMMA DueHandle ==
    ASSUME TypeOK, PhasesInv, StoredInv, MarksInv, Undisturbed, ~StoreFault, ~Fault, NEW a \in Tasks,
           DueOf(a), Handle(a), ~Closed(a), ~Closed(a)'
    PROVE  DueOf(a)'
<1> USE TaskNumbers
<1>0. /\ StoredOf(a) /\ MarksOf(a) /\ PhasesOf(a) /\ a \in Actions /\ a \in Children
      /\ row \in [Actions -> Row] /\ row[a] \in Row /\ worker[a] \in WorkerType
  BY Numbers, Split DEF Undisturbed, Deceived, StoredInv, MarksInv, PhasesInv, RowsOK, WorkersOK
<1>1. cache' = cache
  BY <1>0, HandledWorker
<1>2. CASE TakeUpdate(a)
  <2>1. inbox'[a] = inbox[a] \ {"update"} /\ worker[a].pc = "idle"
    BY <1>0, <1>2, Split DEF TakeUpdate, InformerOK
  <2>2. worker'[a].pc = "read"
    BY <1>0, <1>2, Split DEF TakeUpdate, Goto, WorkersOK, WorkerType
  <2> QED BY <1>1, <2>1, <2>2 DEF DueOf, Carrying, Terminal
<1>3. CASE ReadLatest(a)
  <2>1. inbox' = inbox /\ worker[a].pc = "read"
    BY <1>0, <1>3, InboxHandled DEF ReadLatest, TakeUpdate, TakeDeletion
  <2>2. \/ worker'[a].pc = "record" /\ worker'[a].phase = cache[a].phase
        \/ cache[a].state # "present" \/ cache[a].recorded
    BY <1>0, <1>3, HandledWorker
       DEF ReadLatest, TakeUpdate, TakeDeletion, Record, PromoteParent, UpdateStatus, MarkRecorded
  <2>3. ~cache[a].recorded
    BY <1>0 DEF StoredOf, MarksOf
  <2>4. cache[a].state \in {"absent", "present", "gone"}
    BY <1>0, Split DEF InformerOK, ObjectType
  <2>5. Terminal(cache[a]) => cache[a].phase \in TerminalPhases
    BY Numbers DEF Terminal
  <2> QED BY <1>1, <2>1, <2>2, <2>3, <2>4, <2>5 DEF DueOf, Carrying, Terminal
<1>4. CASE TakeDeletion(a)
  <2>1. worker'[a].pc = "record"
        /\ worker'[a].phase = (IF Terminal(cache[a]) THEN cache[a].phase ELSE ABORTED)
    BY <1>0, <1>4, HandledWorker
       DEF TakeDeletion, ReadLatest, TakeUpdate, Record, PromoteParent, UpdateStatus, MarkRecorded
  <2>2. worker'[a].phase \in TerminalPhases
    BY <2>1, Numbers DEF Terminal, ABORTED
  <2> QED BY <1>1, <2>1, <2>2 DEF DueOf, Carrying, Terminal
<1>5. CASE Record(a) \/ PromoteParent(a)
  <2>1. inbox' = inbox
    BY <1>5 DEF Record, PromoteParent, informer
  <2>2. /\ worker[a].pc \in {"record", "promote"} /\ worker'[a].pc \in {"promote", "update"}
        /\ worker'[a].phase = worker[a].phase
    BY <1>0, <1>5, HandledWorker
       DEF TakeDeletion, ReadLatest, TakeUpdate, Record, PromoteParent, UpdateStatus, MarkRecorded
  <2> QED BY <1>1, <2>1, <2>2 DEF DueOf, Carrying, Terminal
<1>6. CASE UpdateStatus(a)
  <2> DEFINE updated == UpdateActionPhase(row[a], worker[a].phase, worker[a].attempts)
  <2>1. inbox' = inbox /\ worker[a].pc = "update"
    BY <1>6 DEF UpdateStatus, informer
  <2>2. CASE Carrying(a)
    <3>1. Succeeds(a, updated)
      BY <1>6, <2>2, Numbers DEF UpdateStatus, Carrying, UNSPECIFIED
    <3>2. row[a].exists
      BY <1>0, <2>1 DEF StoredOf
    <3>3. updated.phase \in TerminalPhases /\ updated.exists
      BY <1>0, <2>2, <3>2, TerminalCloses, RowUpdated DEF PhasesOf, WorkerType, Carrying
    <3> HIDE DEF updated
    <3>4. row' = [row EXCEPT ![a] = updated]
      BY <3>1 DEF Succeeds
    <3> QED BY <1>0, <3>3, <3>4 DEF Closed
  <2>3. CASE ~Carrying(a)
    BY <1>1, <2>1, <2>3 DEF DueOf, Terminal
  <2> QED BY <2>2, <2>3
<1>7. CASE MarkRecorded(a)
  BY <1>0, <1>7 DEF MarkRecorded, StoredOf
<1> QED BY <1>2, <1>3, <1>4, <1>5, <1>6, <1>7 DEF Handle

LEMMA DueSync ==
    ASSUME TypeOK, StoredInv, MarksInv, Undisturbed, NEW a \in Tasks, CacheSync(a), ~Closed(a)
    PROVE  DueOf(a)'
<1> USE TaskNumbers
<1>0. /\ StoredOf(a) /\ MarksOf(a) /\ a \in Actions /\ a \in Children
      /\ cr[a] \in ObjectType /\ cache[a] \in ObjectType /\ cache \in [Actions -> ObjectType]
  BY Numbers, Split DEF Undisturbed, Deceived, StoredInv, MarksInv, ResourcesOK, InformerOK
<1>1. ~cr[a].recorded /\ ~cache[a].recorded
  BY <1>0 DEF StoredOf, MarksOf
<1>2. CASE /\ cache' = [cache EXCEPT ![a] = [cr[a] EXCEPT !.state = "present"]]
           /\ IF shouldSkipTaskAction(cr[a]) THEN UNCHANGED <<inbox, dispatched>>
              ELSE dispatchEvent(a, "update")
  <2>1. "update" \in inbox'[a]
    BY <1>0, <1>1, <1>2, Dispatched DEF shouldSkipTaskAction
  <2>2. cache'[a].state = "present"
    BY <1>0, <1>2 DEF ObjectType
  <2> QED BY <2>1, <2>2 DEF DueOf
<1>3. ASSUME NEW object \in {cr[a], [cache[a] EXCEPT !.state = "gone"]}, cr[a].state = "gone",
             cache' = [cache EXCEPT ![a] = object],
             IF shouldSkipTaskAction(object) THEN UNCHANGED <<inbox, dispatched>>
             ELSE dispatchEvent(a, "deleted")
      PROVE  DueOf(a)'
  <2>1. ~object.recorded /\ object.state = "gone"
    BY <1>0, <1>1, <1>3 DEF ObjectType
  <2>2. "deleted" \in inbox'[a]
    BY <1>0, <1>3, <2>1, Dispatched DEF shouldSkipTaskAction
  <2>3. cache'[a].state = "gone"
    BY <1>0, <1>3, <2>1
  <2> QED BY <2>2, <2>3 DEF DueOf
<1> QED BY <1>2, <1>3 DEF CacheSync

LEMMA DueStep ==
    TypeOK /\ PhasesInv /\ OutcomeInv /\ StoredInv /\ MarksInv /\ DueInv /\ [Next]_vars => DueInv'
<1> SUFFICES ASSUME TypeOK, PhasesInv, OutcomeInv, StoredInv, MarksInv, DueInv, [Next]_vars,
                    Undisturbed', NEW a \in Tasks
             PROVE  DueOf(a)'
  BY DEF DueInv
<1>0. /\ faults \in 0..MaxFaults /\ storeFaults \in 0..MaxStoreFaults /\ restarts \in 0..MaxRestarts
      /\ faults' = MaxFaults /\ storeFaults' = MaxStoreFaults /\ restarts' = MaxRestarts
      /\ faults' <= faults /\ storeFaults' <= storeFaults /\ restarts' <= restarts
      /\ Restart => restarts' < restarts
      /\ MaxFaults \in Nat /\ MaxStoreFaults \in Nat /\ MaxRestarts \in Nat
  BY Spent, Numbers DEF TypeOK, Undisturbed
<1>1. Undisturbed /\ ~Restart /\ ~Fault /\ ~StoreFault
  BY <1>0 DEF Undisturbed, Fault, StoreFault
<1>2. DueOf(a) /\ MarksOf(a) /\ a \in Actions /\ a \in Children
  BY <1>1, Numbers, TaskNumbers DEF DueInv, MarksInv
<1>3. Closed(a) => Closed(a)'
  BY StaysClosed
<1>4. CASE Closed(a)'
  <2>1. cache'[a].state = "absent" => ~Terminal(cache'[a])
    <3>1. CASE Handle(a)
      BY <1>2, <3>1, HandledWorker DEF DueOf, Terminal
    <3>2. CASE Own(a) /\ ~Handle(a)
      BY <1>2, <3>2, CacheMoves DEF DueOf, Terminal
    <3>3. CASE Elsewhere(a)
      BY <1>2, <3>3 DEF Elsewhere, DueOf, Terminal
    <3> QED BY <1>1, <1>2, <3>1, <3>2, <3>3, Locality
  <2> QED BY <1>4, <2>1 DEF DueOf, Terminal
<1>5. CASE ~Closed(a)'
  <2>0. ~Closed(a)
    BY <1>3, <1>5
  <2>1. CASE Handle(a)
    BY <1>1, <1>2, <1>5, <2>0, <2>1, DueHandle
  <2>2. CASE CacheSync(a)
    BY <1>1, <2>0, <2>2, DueSync
  <2>3. CASE Resync(a)
    <3>1. inbox[a] \subseteq inbox'[a] /\ cache' = cache /\ worker' = worker
      BY <1>2, <2>3, Dispatched DEF Resync
    <3> QED BY <1>2, <2>0, <3>1 DEF DueOf, Carrying, Terminal
  <2>4. CASE Enqueue(a) \/ Report(a) \/ RequestAbort(a) \/ DeleteAborted(a) \/ Collect(a) \/ Cascade(a)
             \/ Evict(a)
    <3>1. inbox' = inbox /\ cache' = cache /\ worker' = worker
      BY <2>4 DEF Enqueue, Report, RequestAbort, DeleteAborted, Collect, Cascade, Evict, informer
    <3> QED BY <1>2, <2>0, <3>1 DEF DueOf, Carrying, Terminal
  <2>5. CASE Elsewhere(a)
    BY <1>2, <2>0, <2>5 DEF Elsewhere, DueOf, Carrying, Terminal
  <2> QED BY <1>1, <1>2, <2>1, <2>2, <2>3, <2>4, <2>5, Locality DEF Own
<1> QED BY <1>4, <1>5

(* dispatchEvent drops an update while another waits, and the worker clears *)
(* the mark before it reads the state: so when the informer and the worker *)
(* are done with a finished task and nothing failed, its row is terminal.  *)
THEOREM TasksAreNotLost ==
    Spec => [](Undisturbed =>
                 \A a \in Tasks : Settled(a) /\ Terminal(cr[a]) => row[a].phase \in TerminalPhases)
<1>1. DueInv => (Undisturbed =>
        \A a \in Tasks : Settled(a) /\ Terminal(cr[a]) => row[a].phase \in TerminalPhases)
  BY DEF DueInv, Settled, DueOf, Carrying, Closed, Terminal
<1> QED BY <1>1, StoredHolds, MarksInit, MarksStep, DueInit, DueStep, PTL DEF Spec

(* So in a run of tasks coalescing loses nothing.                          *)
THEOREM CoalescingLosesNothing == ASSUME Conditions = {} PROVE Spec => []CoalescedUpdateIsNotLost
<1>1. (Undisturbed =>
         \A a \in Tasks : Settled(a) /\ Terminal(cr[a]) => row[a].phase \in TerminalPhases)
      => CoalescedUpdateIsNotLost
  BY DEF CoalescedUpdateIsNotLost, Undisturbed, Tasks
<1> QED BY <1>1, TasksAreNotLost, PTL
==============================================================================
