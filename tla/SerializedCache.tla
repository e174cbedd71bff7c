--------------------------- MODULE SerializedCache ---------------------------
(***************************************************************************)
(* Task actions that compute the same cached result: the executor's cache  *)
(* gate, the catalog client and the cache service's manager over its two   *)
(* tables, one row of each (the actions share one key).                    *)
(*                                                                         *)
(* Every statement of the manager and every call of a reconcile is a step, *)
(* so the steps of several actions interleave.  Time counts ticks that     *)
(* remain: of the reservation (lease.left) and until an action must have   *)
(* been reconciled again (due).  Calls take no time of their own; what     *)
(* they take is part of RequeueDuration.  A pod being deleted counts as    *)
(* stopped.  What else a reconcile does is TaskActionController's matter.  *)
(***************************************************************************)
EXTENDS Integers, FiniteSets

CONSTANTS
    Actions,          \* the task actions with this key, the owners' names
    NoAction,         \* no owner, no entry
    Serializable,     \* cache_serializable of the task
    RequeueDuration,  \* of the reconciler, in ticks
    MaxHeartbeat,     \* maxReservationHeartbeatInterval, in ticks
    GraceMultiplier,  \* heartbeatGracePeriodMultiplier
    Downtime,         \* bound: ticks a restart of the executor may take
    Upsets,           \* bound: what may go wrong or interfere ...
    MaxUpsets         \* ... and how often

AllUpsets == {"lookup", "reserve", "plugin", "put", "release", "status",
              "lost", "retry", "timeout", "abort", "crash", "delete", "age"}

(* resolvedHeartbeat of a heartbeat that is the requeue duration.          *)
Heartbeat == IF RequeueDuration < MaxHeartbeat THEN RequeueDuration ELSE MaxHeartbeat
Lease == Heartbeat * GraceMultiplier

ASSUME CacheAssumption ==
    /\ NoAction \notin Actions /\ Serializable \in BOOLEAN
    /\ RequeueDuration \in Nat \ {0} /\ MaxHeartbeat \in Nat \ {0}
    /\ GraceMultiplier \in Nat \ {0}
    /\ Downtime \in Nat
    /\ Upsets \subseteq AllUpsets /\ MaxUpsets \in Nat

VARIABLES
    entry,     \* cache_service_outputs: who computed it, and whether it is over age
    lease,     \* cache_service_reservations
    status,    \* the stored status of each action
    deleting,  \* the actions with a deletion mark
    pod,       \* the pod of each action's current attempt
    queued,    \* the actions the workqueue holds
    pc, out,   \* the next call of each reconcile, the status it has worked out
    due,       \* ticks until the next reconcile of each action
    upsets     \* what is left of MaxUpsets

vars == <<entry, lease, status, deleting, pod, queued, pc, out, due, upsets>>
tables == <<entry, lease>>
actionVars == <<status, deleting, pod>>

NoEntry == [by |-> NoAction, old |-> FALSE]
NoLease == [owner |-> NoAction, left |-> 0]
NewStatus == [phase |-> "queued", started |-> FALSE, ran |-> FALSE, report |-> "none"]

Init ==
    /\ entry = NoEntry /\ lease = NoLease
    /\ status = [a \in Actions |-> NewStatus] /\ deleting = {}
    /\ pod = [a \in Actions |-> "none"]
    /\ queued = Actions
    /\ pc = [a \in Actions |-> "idle"] /\ out = status
    /\ due = [a \in Actions |-> RequeueDuration]
    /\ upsets = MaxUpsets

-----------------------------------------------------------------------------
(* How a reconcile goes on and ends                                        *)

Finished(a) == status[a].phase \in {"succeeded", "failed", "gone"}
Active(a) == ~Finished(a) \/ (a \in deleting /\ status[a].phase # "gone")

Upset(kind) == kind \in Upsets /\ upsets > 0 /\ upsets' = upsets - 1
NoUpset == UNCHANGED upsets

Goto(a, step) == pc' = [pc EXCEPT ![a] = step] /\ UNCHANGED <<status, deleting, queued, out, due>>

(* The status is worked out and only remains to be released for or stored. *)
Conclude(a, step, s) ==
    /\ pc' = [pc EXCEPT ![a] = step] /\ out' = [out EXCEPT ![a] = s]
    /\ UNCHANGED <<status, deleting, queued, due>>

Persist(a, s) == Conclude(a, "persist", s)

(* A reconcile ends with RequeueAfter, or with an error that requeues now. *)
End(a, s, again) ==
    /\ status' = [status EXCEPT ![a] = s]
    /\ pc' = [pc EXCEPT ![a] = "idle"] /\ out' = [out EXCEPT ![a] = s]
    /\ due' = [due EXCEPT ![a] = RequeueDuration]
    /\ queued' = IF again THEN queued \cup {a} ELSE queued
    /\ UNCHANGED deleting

RequeueAfter(a) == End(a, status[a], FALSE)

-----------------------------------------------------------------------------
(* The start of a reconcile                                                *)

AfterMiss == IF Serializable THEN "reserve" ELSE "handle"

(* A task that is running already is not looked up.                        *)
FirstStep(a) ==
    CASE a \in deleting -> "abort"
      [] a \notin deleting /\ status[a].phase = "running" -> AfterMiss
      [] OTHER -> "lookup"

Reconcile(a) ==
    /\ Active(a) /\ pc[a] = "idle" /\ (a \in queued \/ due[a] = 0)
    /\ pc' = [pc EXCEPT ![a] = FirstStep(a)]
    /\ queued' = queued \ {a}
    /\ UNCHANGED <<tables, actionVars, out, due, upsets>>

(* A reconcile ends before it reaches the cache: its context cannot be     *)
(* built, or the pod of an expired task not be aborted.                    *)
ReconcileFails(a) ==
    /\ ~Finished(a) /\ a \notin deleting
    /\ pc[a] = "idle" /\ (a \in queued \/ due[a] = 0)
    /\ Upset("plugin")
    /\ queued' = queued \ {a}
    /\ due' = [due EXCEPT ![a] = RequeueDuration]
    /\ UNCHANGED <<tables, actionVars, pc, out>>

(* timeoutRunningActionIfExpired: abort the pod and report, nothing else.  *)
ExpireTask(a) ==
    /\ ~Finished(a) /\ a \notin deleting /\ status[a].ran
    /\ pc[a] = "idle" /\ (a \in queued \/ due[a] = 0)
    /\ Upset("timeout")
    /\ pod' = [pod EXCEPT ![a] = "none"]
    /\ pc' = [pc EXCEPT ![a] = "persist"]
    /\ out' = [out EXCEPT ![a].phase = "failed", ![a].started = FALSE, ![a].report = "none"]
    /\ queued' = queued \ {a}
    /\ UNCHANGED <<tables, status, deleting, due>>

-----------------------------------------------------------------------------
(* evaluateCacheBeforeExecution                                            *)

Usable == entry # NoEntry /\ ~entry.old

(* A lookup that fails goes on with the execution; outputs of a hit that   *)
(* cannot be written end the reconcile.                                    *)
Lookup(a) ==
    /\ pc[a] = "lookup"
    /\ \/ /\ Usable /\ NoUpset
          /\ Persist(a, [out[a] EXCEPT !.phase = "succeeded", !.report = "hit"])
       \/ ~Usable /\ Goto(a, AfterMiss) /\ NoUpset
       \/ Upset("lookup") /\ (Goto(a, "handle") \/ (Usable /\ RequeueAfter(a)))
    /\ UNCHANGED <<tables, pod>>

(* GetOrExtendReservation: read the row, ...                               *)
GetReservation(a) ==
    /\ pc[a] = "reserve"
    /\ \/ lease = NoLease /\ Goto(a, "create") /\ NoUpset
       \/ lease # NoLease /\ Goto(a, "update") /\ NoUpset
       \/ RequeueAfter(a) /\ Upset("reserve")
    /\ UNCHANGED <<tables, pod>>

(* Mutation: a claim is added to what is left of the last one.             *)
ClaimedOnTop(a) == [owner |-> a, left |-> lease.left + Lease]

Claimed(a) == [owner |-> a, left |-> Lease]

(* ... insert one unless there is one by now, ...                          *)
CreateReservation(a) ==
    /\ pc[a] = "create"
    /\ \/ /\ lease = NoLease /\ lease' = Claimed(a)
          /\ Goto(a, "handle") /\ NoUpset
       \/ lease # NoLease /\ Goto(a, "reread") /\ UNCHANGED lease /\ NoUpset
       \/ /\ lease' \in {lease, IF lease = NoLease THEN Claimed(a) ELSE lease}
          /\ RequeueAfter(a) /\ Upset("reserve")
    /\ UNCHANGED <<entry, pod>>

Claimable(a) == lease # NoLease /\ (lease.left = 0 \/ lease.owner = a)

(* Mutation: the update takes the reservation of any owner.                *)
UpdateReservation(a) ==
    /\ pc[a] = "update"
    /\ lease' = Claimed(a) /\ Goto(a, "handle") /\ NoUpset
    /\ UNCHANGED <<entry, pod>>

(* Mutation: the reservation of another owner never expires.               *)
UpdateIfOwned(a) ==
    /\ pc[a] = "update"
    /\ \/ lease.owner = a /\ lease' = Claimed(a) /\ Goto(a, "handle") /\ NoUpset
       \/ lease.owner # a /\ Goto(a, "reread") /\ UNCHANGED lease /\ NoUpset
    /\ UNCHANGED <<entry, pod>>

(* ... or update one that has expired or is the caller's own, ...          *)
UpdateIfExpiredOrOwned(a) ==
    /\ pc[a] = "update"
    /\ \/ /\ Claimable(a) /\ lease' = Claimed(a)
          /\ Goto(a, "handle") /\ NoUpset
       \/ ~Claimable(a) /\ Goto(a, "reread") /\ UNCHANGED lease /\ NoUpset
       \/ /\ lease' \in {lease, IF Claimable(a) THEN Claimed(a) ELSE lease}
          /\ RequeueAfter(a) /\ Upset("reserve")
    /\ UNCHANGED <<entry, pod>>

(* ... or return the current one, if it has not been released meanwhile.   *)
RereadReservation(a) ==
    /\ pc[a] = "reread"
    /\ \/ lease = NoLease /\ RequeueAfter(a) /\ NoUpset
       \/ lease.owner = a /\ Goto(a, "handle") /\ NoUpset
       \/ /\ lease.owner \notin {a, NoAction} /\ NoUpset
          /\ Persist(a, [out[a] EXCEPT !.phase = "queued", !.report = "miss"])
       \/ RequeueAfter(a) /\ Upset("reserve")
    /\ UNCHANGED <<tables, pod>>

-----------------------------------------------------------------------------
(* The plugin's Handle and finalizeCacheAfterExecution                     *)

AfterExecution == IF Serializable THEN "release" ELSE "persist"

(* recordSystemError: the counter decides whether it is the last one.      *)
SystemError(a) ==
    \/ RequeueAfter(a)
    \/ Persist(a, [out[a] EXCEPT !.phase = "failed"])

LaunchPod(a) ==
    /\ pc[a] = "handle" /\ ~out[a].started
    /\ \/ /\ pod' = [pod EXCEPT ![a] = IF @ = "none" THEN "pending" ELSE @]
          /\ Persist(a, [out[a] EXCEPT !.phase = "queued", !.started = TRUE, !.report = "none"])
          /\ NoUpset
       \/ UNCHANGED pod /\ Upset("plugin") /\ SystemError(a)
    /\ UNCHANGED tables

ObservePod(a) ==
    /\ pc[a] = "handle" /\ out[a].started
    /\ \/ /\ pod[a] = "pending" /\ NoUpset
          /\ Persist(a, [out[a] EXCEPT !.phase = "queued", !.report = "none"])
       \/ /\ pod[a] = "running" /\ NoUpset
          /\ Persist(a, [out[a] EXCEPT !.phase = "running", !.ran = TRUE, !.report = "none"])
       \/ /\ pod[a] = "succeeded" /\ NoUpset
          /\ Conclude(a, "putGet", [out[a] EXCEPT !.phase = "succeeded"])
       \/ /\ pod[a] = "failed" /\ NoUpset
          /\ Conclude(a, AfterExecution, [out[a] EXCEPT !.phase = "failed", !.report = "none"])
       \/ Upset("plugin") /\ SystemError(a)
    /\ UNCHANGED <<tables, pod>>

(* A failure with attempts left: the reservation goes as after any other,  *)
(* the failed pod as well, and the next reconcile launches another.        *)
RetryTask(a) ==
    /\ pc[a] = "handle" /\ out[a].started /\ pod[a] = "failed"
    /\ Upset("retry")
    /\ pod' = [pod EXCEPT ![a] = "none"]
    /\ Conclude(a, AfterExecution, [out[a] EXCEPT !.phase = "queued", !.started = FALSE, !.report = "none"])
    /\ UNCHANGED tables

(* A pod that is gone is a system failure: the reservation goes, the       *)
(* plugin's state is reset, and the phase stays what it was.               *)
PodGone(a) ==
    /\ pc[a] = "handle" /\ out[a].started /\ pod[a] = "none"
    /\ \E phase \in {out[a].phase, "failed"} :
         Conclude(a, AfterExecution, [out[a] EXCEPT !.phase = phase, !.started = FALSE])
    /\ UNCHANGED <<tables, pod, upsets>>

Reported(a, report) == [out[a] EXCEPT !.report = report]

(* Mutation: an entry that is there is replaced.                           *)
PutAnyway(a) ==
    /\ pc[a] = "putGet"
    /\ Goto(a, "putWrite") /\ NoUpset
    /\ UNCHANGED <<tables, pod>>

(* Put: an entry that is there is not replaced, and the executor takes the *)
(* connect error for a failure, since it looks for a gRPC code.            *)
PutGet(a) ==
    /\ pc[a] = "putGet"
    /\ \/ entry = NoEntry /\ Goto(a, "putWrite") /\ NoUpset
       \/ entry # NoEntry /\ Conclude(a, AfterExecution, Reported(a, "put_failure")) /\ NoUpset
       \/ Conclude(a, AfterExecution, Reported(a, "put_failure")) /\ Upset("put")
    /\ UNCHANGED <<tables, pod>>

PutWrite(a) ==
    LET written == [by |-> a, old |-> FALSE] IN
    /\ pc[a] = "putWrite"
    /\ \/ entry' = written /\ Conclude(a, AfterExecution, Reported(a, "populated")) /\ NoUpset
       \/ /\ entry' \in {entry, written}
          /\ Conclude(a, AfterExecution, Reported(a, "put_failure")) /\ Upset("put")
    /\ UNCHANGED <<lease, pod>>

(* ReleaseReservation deletes the caller's own row; errors are logged.     *)
ReleaseReservation(a) ==
    LET released == IF lease.owner = a THEN NoLease ELSE lease IN
    /\ pc[a] = "release"
    /\ \/ lease' = released /\ NoUpset
       \/ lease' \in {lease, released} /\ Upset("release")
    /\ Goto(a, "persist")
    /\ UNCHANGED <<entry, pod>>

-----------------------------------------------------------------------------
(* The end of a reconcile                                                  *)

(* updateTaskActionStatus, or the abort event and removeFinalizer.         *)
PersistStatus(a) ==
    /\ pc[a] = "persist"
    /\ \/ End(a, out[a], out[a] # status[a]) /\ NoUpset
       \/ /\ Upset("status")
          /\ \E again \in {TRUE, out[a].phase # "gone"} : End(a, status[a], again)
    /\ UNCHANGED <<tables, pod>>

(* handleAbortAndFinalize up to the release.                               *)
AbortAndFinalize(a) ==
    /\ pc[a] = "abort"
    /\ \/ /\ pod' = [pod EXCEPT ![a] = "none"] /\ NoUpset
          /\ Conclude(a, AfterExecution, [out[a] EXCEPT !.phase = "gone"])
       \/ UNCHANGED pod /\ RequeueAfter(a) /\ Upset("plugin")
    /\ UNCHANGED tables

-----------------------------------------------------------------------------
(* The surroundings                                                        *)

PodMoves(a) ==
    /\ \E next \in {"running", "succeeded", "failed"} :
         /\ IF next = "running" THEN pod[a] = "pending" ELSE pod[a] = "running"
         /\ pod' = [pod EXCEPT ![a] = next]
    /\ queued' = queued \cup {a}
    /\ UNCHANGED <<tables, status, deleting, pc, out, due, upsets>>

LosePod(a) ==
    /\ pod[a] # "none" /\ Upset("lost")
    /\ pod' = [pod EXCEPT ![a] = "none"]
    /\ queued' = queued \cup {a}
    /\ UNCHANGED <<tables, status, deleting, pc, out, due>>

Delete(a) ==
    /\ status[a].phase # "gone" /\ a \notin deleting /\ Upset("abort")
    /\ deleting' = deleting \cup {a}
    /\ queued' = queued \cup {a}
    /\ UNCHANGED <<tables, status, pod, pc, out, due>>

(* The executor restarts and lists all resources.                          *)
Crash ==
    /\ Upset("crash")
    /\ pc' = [a \in Actions |-> "idle"] /\ out' = status
    /\ queued' = Actions
    /\ due' = [a \in Actions |-> Downtime]
    /\ UNCHANGED <<tables, actionVars>>

(* The service's Delete, and the age limit of the catalog client.          *)
DeleteEntry ==
    /\ entry # NoEntry /\ Upset("delete") /\ entry' = NoEntry
    /\ UNCHANGED <<lease, actionVars, queued, pc, out, due>>
EntryAges ==
    /\ Usable /\ Upset("age") /\ entry' = [entry EXCEPT !.old = TRUE]
    /\ UNCHANGED <<lease, actionVars, queued, pc, out, due>>

Before(n) == IF n > 0 THEN n - 1 ELSE 0

(* Time passes between reconciles, until one of them is due.               *)
Tick ==
    /\ \A a \in Actions : pc[a] = "idle" /\ (Active(a) => due[a] > 0)
    /\ (\E a \in Actions : Active(a)) \/ lease.left > 0
    /\ lease' = [lease EXCEPT !.left = Before(@)]
    /\ due' = [a \in Actions |-> Before(due[a])]
    /\ UNCHANGED <<entry, actionVars, queued, pc, out, upsets>>

reconcile(a) ==
    \/ Lookup(a) \/ GetReservation(a) \/ CreateReservation(a)
    \/ UpdateIfExpiredOrOwned(a) \/ RereadReservation(a)
    \/ LaunchPod(a) \/ ObservePod(a) \/ RetryTask(a) \/ PodGone(a)
    \/ PutGet(a) \/ PutWrite(a) \/ ReleaseReservation(a)
    \/ PersistStatus(a) \/ AbortAndFinalize(a)

Next ==
    \/ Crash \/ DeleteEntry \/ EntryAges \/ Tick
    \/ \E a \in Actions :
         \/ Reconcile(a) \/ ReconcileFails(a) \/ ExpireTask(a) \/ reconcile(a)
         \/ PodMoves(a) \/ LosePod(a) \/ Delete(a)

Spec == Init /\ [][Next]_vars

(* The workqueue serves its keys, pods end and the clock runs.             *)
Fairness ==
    /\ WF_vars(Tick)
    /\ \A a \in Actions :
         WF_vars(Reconcile(a)) /\ WF_vars(reconcile(a)) /\ WF_vars(PodMoves(a))

FairSpec == Spec /\ Fairness

-----------------------------------------------------------------------------
(* Properties                                                              *)

Steps == {"idle", "lookup", "reserve", "create", "update", "reread", "handle",
          "putGet", "putWrite", "release", "persist", "abort"}
StatusType == [phase : {"queued", "running", "succeeded", "failed", "gone"},
               started : BOOLEAN, ran : BOOLEAN,
               report : {"none", "hit", "miss", "populated", "put_failure"}]
Ticks == 0..(RequeueDuration + Downtime)

TypeOK ==
    /\ entry \in [by : Actions \cup {NoAction}, old : BOOLEAN]
    /\ lease \in [owner : Actions \cup {NoAction}, left : 0..Lease]
    /\ status \in [Actions -> StatusType] /\ out \in [Actions -> StatusType]
    /\ deleting \subseteq Actions /\ queued \subseteq Actions
    /\ pod \in [Actions -> {"none", "pending", "running", "succeeded", "failed"}]
    /\ pc \in [Actions -> Steps]
    /\ due \in [Actions -> Ticks]
    /\ upsets \in 0..MaxUpsets

Executes(a) == pod[a] \in {"pending", "running"} /\ ~Finished(a)

(* The task is serializable, every lookup answers, and the reservation     *)
(* outlasts a requeue and as many missed heartbeats and restarts as there  *)
(* are upsets.                                                             *)
Timely ==
    /\ Serializable /\ "lookup" \notin Upsets
    /\ Downtime <= RequeueDuration
    /\ RequeueDuration + MaxUpsets * RequeueDuration < Lease

(* Only the owner of the reservation executes, so no two actions compute   *)
(* at a time, as long as heartbeats are missed less often than the grace   *)
(* multiplier allows, Timely (heartbeatGracePeriodMultiplier).             *)
OnlyOwnerExecutes ==
    \A a \in Actions : Executes(a) => lease.owner = a /\ lease.left > 0

(* A stored result is never replaced by another action's (Put without      *)
(* Overwrite).                                                             *)
EntryIsKept ==
    [][entry # NoEntry /\ entry' # NoEntry => entry'.by = entry.by]_vars

(* Every action ends, also one that waits for an owner that never          *)
(* releases its reservation.                                               *)
EveryActionEnds == \A a \in Actions : <>Finished(a)
==============================================================================
