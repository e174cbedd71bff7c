------------------------ MODULE TaskActionController ------------------------
(***************************************************************************)
(* The executor's reconciliation of one task TaskAction.                   *)
(*                                                                         *)
(* The reconciler reads the resource from the informer's copy (seen), acts *)
(* on the attempt's pod, records an ActionEvent, and only then writes the  *)
(* status back to the API server (cr).  Each of those calls is a step of   *)
(* its own: the process may crash, a call may fail, the resource may be    *)
(* deleted and its pod may be killed between any two of them.  Reconciles  *)
(* of one resource never overlap (the workqueue serialises a key), so one  *)
(* working copy (ta, read as base) is enough.                              *)
(*                                                                         *)
(* A resourceVersion is compared by content: a conflicting write is one    *)
(* whose copy differs from cr.  Messages, timestamps, phase versions and   *)
(* the catalog's data are abstracted; SerializedCache has the catalog.     *)
(***************************************************************************)
EXTENDS Integers, Sequences, FiniteSets

CONSTANTS
    MaxAttempts,        \* retries + 1 of the task template
    MaxSystemFailures,  \* the reconciler's MaxSystemFailures
    Discoverable,       \* the task template uses the cache
    StaleReads,         \* reads may return an informer copy that lags cr
    MaxFaults,          \* bound: failing API, event and plugin calls
    MaxKills,           \* bound: pods deleted by somebody else or given up on
    MaxCrashes,         \* bound: executor restarts
    MaxWaits            \* bound: reservations found held by another owner

ASSUME ConstantsAssumption ==
    /\ MaxAttempts \in Nat \ {0}
    /\ MaxSystemFailures \in Nat \ {0}
    /\ Discoverable \in BOOLEAN /\ StaleReads \in BOOLEAN
    /\ MaxFaults \in Nat /\ MaxKills \in Nat /\ MaxCrashes \in Nat /\ MaxWaits \in Nat

Attempts == 1..MaxAttempts

Phases == {"Queued", "WaitingForCache", "Initializing", "Running",
           "Success", "PermanentFailure", "TimedOut"}
Reasons == {"Queued", "Initializing", "Executing",
            "Completed", "PermanentFailure", "TimedOut"}
PodStates == {"none", "pending", "stuck", "running", "succeeded",
              "failed", "broken", "terminating"}
Steps == {"idle", "expire", "catalog", "handle", "reset", "sysError", "restart",
          "event", "persist", "label", "abort", "finalize", "abortEvent", "removeFinalizer"}

Transition == [reason : Reasons, attempt : Attempts]
StatusType == [phase : Phases \cup {""}, attempts : 0..MaxAttempts,
               sys : 0..(MaxSystemFailures + 1), started : BOOLEAN,
               outcome : {"none", "succeeded", "failed"}, hist : Seq(Transition)]
ResourceType == [exists : BOOLEAN, deleting : BOOLEAN, finalizer : BOOLEAN,
                 labelled : BOOLEAN, valid : BOOLEAN, status : StatusType]

VARIABLES
    cr,        \* the TaskAction in the API server
    seen,      \* the informer's copy, which every Get returns
    pods,      \* the pod of each attempt
    events,    \* ActionEvents durably recorded
    pc,        \* the call the running reconcile makes next
    ta,        \* its working copy of the TaskAction
    base,      \* originalTaskActionInstance
    queued,    \* the workqueue holds the resource's key
    overdue,   \* how many Executing entries are older than the task's timeout
    faults, kills, crashes, waits,  \* what is left of the bounds
    leaked,    \* history: attempts whose pod the in-place restart failed to abort
    lost       \* history: system failures since a pod was last seen alive

vars == <<cr, seen, pods, events, pc, ta, base, queued, overdue,
          faults, kills, crashes, waits, leaked, lost>>
copies == <<ta, base>>
budgets == <<faults, kills, crashes, waits>>
history == <<leaked, lost>>

-----------------------------------------------------------------------------
(* Status arithmetic                                                       *)

InitStatus == [phase |-> "", attempts |-> 0, sys |-> 0, started |-> FALSE,
               outcome |-> "none", hist |-> <<>>]

isTerminal(s) == s.outcome # "none"

observedAttempts(s) == IF s.attempts > 0 THEN s.attempts ELSE 1

ReasonOf(phase) ==
    CASE phase \in {"Queued", "WaitingForCache"} -> "Queued"
      [] phase = "Running" -> "Executing"
      [] phase = "Success" -> "Completed"
      [] OTHER -> phase

(* The log drops a transition that repeats its last entry.                 *)
appendPhaseHistory(s, phase) ==
    LET n == Len(s.hist) IN
    IF n > 0 /\ s.hist[n].reason = ReasonOf(phase)
    THEN s.hist
    ELSE Append(s.hist, [reason |-> ReasonOf(phase), attempt |-> observedAttempts(s)])

mapPhaseToConditions(s, phase) ==
    [s EXCEPT !.phase = phase,
              !.outcome = CASE phase = "Success" -> "succeeded"
                            [] phase \in {"PermanentFailure", "TimedOut"} -> "failed"
                            [] OTHER -> @,
              !.hist = appendPhaseHistory(s, phase)]

(* The tail of reconcileTask: a transition that is no system error resets  *)
(* the counter and fills in the attempt.                                   *)
Advance(s, phase) ==
    [mapPhaseToConditions(s, phase) EXCEPT !.sys = 0, !.attempts = observedAttempts(s)]

taskActionStatusChanged(old, new) ==
    \/ old.started # new.started \/ old.phase # new.phase
    \/ old.attempts # new.attempts \/ old.sys # new.sys
    \/ Len(old.hist) # Len(new.hist) \/ old.outcome # new.outcome

ExecutingEntries(s) == {i \in 1..Len(s.hist) : s.hist[i].reason = "Executing"}

(* The newest Executing entry decides, whichever attempt it belongs to.    *)
TimeoutExpired(s) ==
    /\ ExecutingEntries(s) # {}
    /\ Cardinality(ExecutingEntries(s)) <= overdue

Live(n) == pods[n] \in {"pending", "stuck", "running"}

-----------------------------------------------------------------------------
(* Init: the actions service has just created the resource.                *)

Blank == [exists |-> FALSE, deleting |-> FALSE, finalizer |-> FALSE,
          labelled |-> FALSE, valid |-> TRUE, status |-> InitStatus]

Init ==
    /\ cr \in {[Blank EXCEPT !.exists = TRUE, !.valid = v] : v \in BOOLEAN}
    /\ seen = cr
    /\ pods = [n \in Attempts |-> "none"]
    /\ events = {}
    /\ pc = "idle" /\ ta = Blank /\ base = Blank /\ queued = TRUE
    /\ overdue = 0
    /\ faults = MaxFaults /\ kills = MaxKills /\ crashes = MaxCrashes /\ waits = MaxWaits
    /\ leaked = {} /\ lost = 0

-----------------------------------------------------------------------------
(* How a reconcile goes on and ends                                        *)

Fault == faults > 0 /\ faults' = faults - 1 /\ UNCHANGED <<kills, crashes, waits>>
NoFault == UNCHANGED budgets

Return(requeue) ==
    /\ pc' = "idle" /\ ta' = Blank /\ base' = Blank
    /\ queued' = (queued \/ requeue)

Goto(step) == pc' = step /\ UNCHANGED <<copies, queued>>

(* updateTaskActionStatus with the new status: a changed one is announced  *)
(* and stored, an unchanged one ends the reconcile.                        *)
Update(status) ==
    IF taskActionStatusChanged(base.status, status)
    THEN /\ pc' = "event" /\ ta' = [ta EXCEPT !.status = status]
         /\ UNCHANGED <<base, queued>>
    ELSE Return(TRUE)

(* finalizePermanentFailure: neither the attempt nor the counter is reset. *)
finalizePermanentFailure(status) == Update(mapPhaseToConditions(status, "PermanentFailure"))

(* The reconciler starts on the informer's copy.                           *)
Start(step) ==
    /\ pc = "idle" /\ queued /\ (StaleReads \/ seen = cr)
    /\ pc' = step /\ queued' = FALSE
    /\ IF step = "idle" THEN UNCHANGED copies ELSE ta' = seen /\ base' = seen

-----------------------------------------------------------------------------
(* Reconcile: dispatch on the copy                                         *)

NothingToDo ==
    /\ \/ ~seen.exists
       \/ seen.deleting /\ ~seen.finalizer
       \/ ~seen.deleting /\ isTerminal(seen.status) /\ seen.labelled
    /\ Start("idle")
    /\ UNCHANGED <<cr, seen, pods, events, overdue, budgets, history>>

StartFinalize ==
    /\ seen.exists /\ seen.deleting /\ seen.finalizer
    /\ Start("abort")
    /\ UNCHANGED <<cr, seen, pods, events, overdue, budgets, history>>

StartLabels ==
    /\ seen.exists /\ ~seen.deleting /\ isTerminal(seen.status) /\ ~seen.labelled
    /\ Start("label")
    /\ UNCHANGED <<cr, seen, pods, events, overdue, budgets, history>>

(* Mutation: a finished action is reconciled like any other.               *)
RunningUnlessDeleted(r) == r.exists /\ ~r.deleting

Running(r) == r.exists /\ ~r.deleting /\ ~isTerminal(r.status)

(* The spec is invalid or its plugin unknown: mark it failed, drop any     *)
(* error of the write, do not requeue.                                     *)
FailValidation ==
    /\ Running(seen) /\ ~seen.valid
    /\ Start("idle")
    /\ \/ seen = cr /\ cr' = [cr EXCEPT !.status.outcome = "failed"] /\ NoFault
       \/ seen # cr /\ UNCHANGED cr /\ NoFault
       \/ UNCHANGED cr /\ Fault
    /\ UNCHANGED <<seen, pods, events, overdue, history>>

AddFinalizer ==
    /\ Running(seen) /\ seen.valid /\ ~seen.finalizer
    /\ pc = "idle" /\ queued /\ (StaleReads \/ seen = cr)
    /\ \/ seen = cr /\ cr' = [cr EXCEPT !.finalizer = TRUE] /\ queued' = FALSE /\ NoFault
       \/ seen # cr /\ UNCHANGED cr /\ queued' = TRUE /\ NoFault
       \/ UNCHANGED cr /\ queued' = TRUE /\ Fault
    /\ UNCHANGED <<seen, pods, events, pc, copies, overdue, history>>

StartTask ==
    /\ Running(seen) /\ seen.valid /\ seen.finalizer
    /\ Start(IF TimeoutExpired(seen.status) THEN "expire"
             ELSE IF Discoverable THEN "catalog" ELSE "handle")
    /\ UNCHANGED <<cr, seen, pods, events, overdue, budgets, history>>

-----------------------------------------------------------------------------
(* The attempt's pod, as the plugin manager drives it                      *)

Attempt == observedAttempts(ta.status)

(* Deleting a pod is graceful while it lives; a missing one is no error.   *)
Abort(n) == pods' = [pods EXCEPT ![n] = IF @ \in {"none", "succeeded", "failed", "broken"}
                                        THEN "none" ELSE "terminating"]

(* timeoutRunningActionIfExpired, once the deadline has passed.            *)
ExpireTask ==
    /\ pc = "expire"
    /\ \/ /\ Abort(Attempt) /\ NoFault
          /\ Update([Advance(ta.status, "TimedOut") EXCEPT !.started = FALSE])
       \/ UNCHANGED pods /\ Fault /\ Return(TRUE)
    /\ UNCHANGED <<cr, seen, events, overdue, history>>

(* Mutation: a catalog error is reported without asking for a requeue.     *)
EvaluateCacheOnce ==
    /\ pc = "catalog"
    /\ \/ Goto("handle") /\ NoFault
       \/ Return(FALSE) /\ Fault
    /\ UNCHANGED <<cr, seen, pods, events, overdue, history>>

(* evaluateCacheBeforeExecution, the catalog's answer left open: run the   *)
(* task, hit, wait for the owner of the reservation, or fail to reserve.   *)
EvaluateCache ==
    /\ pc = "catalog"
    /\ \/ Goto("handle") /\ NoFault
       \/ ta.status.phase # "Running" /\ Update(Advance(ta.status, "Success")) /\ NoFault
       \/ ta.status.phase # "Running" /\ Goto("handle") /\ Fault
       \/ /\ waits > 0 /\ waits' = waits - 1 /\ UNCHANGED <<faults, kills, crashes>>
          /\ Update(Advance(ta.status, "WaitingForCache"))
       \/ Return(TRUE) /\ Fault
    /\ UNCHANGED <<cr, seen, pods, events, overdue, history>>

(* Mutation: retries are not counted.                                      *)
UserFailureUncounted == Goto("restart")

(* A user-kind retryable failure: another attempt, or the end.             *)
UserFailure ==
    IF Attempt < MaxAttempts
    THEN Goto("restart")
    ELSE Update(Advance(ta.status, "PermanentFailure"))

(* launchResource; a pod that is already there counts as launched.         *)
LaunchPod ==
    /\ pc = "handle" /\ ~ta.status.started
    /\ \/ /\ pods' = [pods EXCEPT ![Attempt] = IF @ = "none" THEN "pending" ELSE @]
          /\ Update([Advance(ta.status, "Queued") EXCEPT !.started = TRUE])
          /\ NoFault
       \/ /\ UNCHANGED pods /\ Fault
          /\ \/ Goto("sysError")                                 \* any other API error
             \/ UserFailure                                      \* forbidden
             \/ Update(Advance(ta.status, "PermanentFailure"))   \* invalid, too large
             \/ finalizePermanentFailure(ta.status)              \* non-retryable code
    /\ UNCHANGED <<cr, seen, events, overdue, history>>

(* checkResourcePhase: a pod that vanished or is being deleted by somebody *)
(* else is a system failure, and the plugin may call one that cannot start *)
(* (a rate-limited image pull, a pending timeout) a system failure too.    *)
SystemRetryable ==
    /\ Goto("reset")
    /\ lost' = IF lost > MaxSystemFailures THEN lost ELSE lost + 1
    /\ UNCHANGED <<cr, seen, pods, events, overdue, leaked>>

PodLost ==
    /\ pc = "handle" /\ ta.status.started /\ pods[Attempt] \in {"none", "terminating"}
    /\ SystemRetryable /\ NoFault

PodGivenUp ==
    /\ pc = "handle" /\ ta.status.started /\ pods[Attempt] = "stuck"
    /\ kills > 0 /\ kills' = kills - 1 /\ UNCHANGED <<faults, crashes, waits>>
    /\ SystemRetryable

PodObserved ==
    /\ pc = "handle" /\ ta.status.started
    /\ \/ pods[Attempt] = "pending" /\ Update(Advance(ta.status, "Initializing"))
       \/ pods[Attempt] = "running" /\ Update(Advance(ta.status, "Running"))
       \/ pods[Attempt] = "succeeded" /\ Update(Advance(ta.status, "Success"))
       \/ pods[Attempt] \in {"broken", "stuck"} /\ Update(Advance(ta.status, "PermanentFailure"))
       \/ pods[Attempt] \in {"failed", "stuck"} /\ UserFailure
    /\ lost' = 0
    /\ UNCHANGED <<cr, seen, pods, events, overdue, budgets, leaked>>

PodUnreadable ==
    /\ pc = "handle" /\ ta.status.started
    /\ Goto("sysError") /\ Fault
    /\ UNCHANGED <<cr, seen, pods, events, overdue, history>>

(* resetPluginResource: an error of the abort is only logged.              *)
ResetPlugin ==
    /\ pc = "reset"
    /\ \/ Abort(Attempt) /\ NoFault
       \/ UNCHANGED pods /\ Fault
    /\ ta' = [ta EXCEPT !.status.started = FALSE]
    /\ pc' = "sysError"
    /\ UNCHANGED <<cr, seen, events, base, queued, overdue, history>>

(* recordSystemError: count the failure with a plain status update, whose  *)
(* error is only logged, until there have been too many.                   *)
RecordSystemError ==
    LET counted == [ta.status EXCEPT !.sys = @ + 1] IN
    /\ pc = "sysError"
    /\ IF counted.sys > MaxSystemFailures
       THEN finalizePermanentFailure(counted) /\ NoFault /\ UNCHANGED cr
       ELSE /\ \/ base = cr /\ cr' = [cr EXCEPT !.status = counted] /\ NoFault
               \/ base # cr /\ UNCHANGED cr /\ NoFault
               \/ UNCHANGED cr /\ Fault
            /\ Return(TRUE)
    /\ UNCHANGED <<seen, pods, events, overdue, history>>

(* Mutation: the pod of the failed attempt is left alone.                  *)
RestartWithoutAbort ==
    /\ pc = "restart"
    /\ Update([Advance(ta.status, "Queued") EXCEPT !.attempts = Attempt + 1, !.started = FALSE])
    /\ UNCHANGED <<cr, seen, pods, events, overdue, budgets, history>>

(* The in-place restart: abort the attempt's pod (an error is only         *)
(* logged), then go back to Queued under the next attempt.                 *)
RestartInPlace ==
    /\ pc = "restart"
    /\ \/ Abort(Attempt) /\ NoFault /\ UNCHANGED leaked
       \/ UNCHANGED pods /\ Fault /\ leaked' = leaked \cup {Attempt}
    /\ Update([Advance(ta.status, "Queued") EXCEPT !.attempts = Attempt + 1,
                                                    !.started = FALSE])
    /\ UNCHANGED <<cr, seen, events, overdue, lost>>

-----------------------------------------------------------------------------
(* updateTaskActionStatus and the labels                                   *)

EventOf(status) == [attempt |-> observedAttempts(status), phase |-> status.phase]

(* Mutation: the status is stored although the event was not.              *)
RecordEventAndIgnoreError ==
    /\ pc = "event"
    /\ \/ events' = events \cup {EventOf(ta.status)} /\ NoFault
       \/ UNCHANGED events /\ Fault
    /\ Goto("persist")
    /\ UNCHANGED <<cr, seen, pods, overdue, history>>

(* A failed call may still have recorded the event.                        *)
RecordEvent ==
    /\ pc = "event"
    /\ \/ events' = events \cup {EventOf(ta.status)} /\ Goto("persist") /\ NoFault
       \/ events' \in {events, events \cup {EventOf(ta.status)}} /\ Return(TRUE) /\ Fault
    /\ UNCHANGED <<cr, seen, pods, overdue, history>>

(* Mutation: a terminal status is labelled even if it was not stored.      *)
PersistStatusOrLabel ==
    /\ pc = "persist"
    /\ \/ seen = cr /\ cr' = [cr EXCEPT !.status = ta.status] /\ NoFault
       \/ UNCHANGED cr /\ Fault
    /\ IF isTerminal(ta.status) THEN Goto("label") ELSE Return(TRUE)
    /\ UNCHANGED <<seen, pods, events, overdue, history>>

(* Mutation: a status that could not be stored is given up.                *)
PersistStatusOnce ==
    /\ pc = "persist"
    /\ \/ /\ seen = cr
          /\ cr' = [cr EXCEPT !.status = ta.status]
          /\ IF isTerminal(ta.status) THEN Goto("label") ELSE Return(TRUE)
          /\ NoFault
       \/ seen # cr /\ UNCHANGED cr /\ Return(FALSE) /\ NoFault
       \/ UNCHANGED cr /\ Return(FALSE) /\ Fault
    /\ UNCHANGED <<seen, pods, events, overdue, history>>

(* persistStatusWithRetry puts the whole status on the resource it reads   *)
(* back; the read is the informer's, so a lagging one is a conflict.       *)
PersistStatus ==
    /\ pc = "persist"
    /\ \/ /\ seen = cr /\ cr.exists
          /\ cr' = [cr EXCEPT !.status = ta.status]
          /\ IF isTerminal(ta.status) THEN Goto("label") ELSE Return(TRUE)
          /\ NoFault
       \/ (seen # cr \/ ~cr.exists) /\ UNCHANGED cr /\ Return(TRUE) /\ NoFault
       \/ UNCHANGED cr /\ Return(TRUE) /\ Fault
    /\ UNCHANGED <<seen, pods, events, overdue, history>>

(* Mutation: a failed patch is not retried.                                *)
EnsureTerminalLabelsOnce ==
    /\ pc = "label"
    /\ \/ cr' = [cr EXCEPT !.labelled = cr.exists \/ @] /\ NoFault
       \/ UNCHANGED cr /\ Fault
    /\ Return(FALSE)
    /\ UNCHANGED <<seen, pods, events, overdue, history>>

(* ensureTerminalLabels patches the labels alone, whatever the version.    *)
EnsureTerminalLabels ==
    /\ pc = "label"
    /\ \/ cr' = [cr EXCEPT !.labelled = cr.exists \/ @] /\ NoFault
       \/ UNCHANGED cr /\ Fault
    /\ Return(TRUE)
    /\ UNCHANGED <<seen, pods, events, overdue, history>>

-----------------------------------------------------------------------------
(* handleAbortAndFinalize                                                  *)

(* Mutation: a failed abort does not stop the finalization.                *)
AbortAndIgnoreError ==
    /\ pc = "abort"
    /\ \/ Abort(Attempt) /\ NoFault
       \/ UNCHANGED pods /\ Fault
    /\ Goto("finalize")
    /\ UNCHANGED <<cr, seen, events, overdue, history>>

AbortForDeletion ==
    /\ pc = "abort"
    /\ \/ Abort(Attempt) /\ Goto("finalize") /\ NoFault
       \/ UNCHANGED pods /\ Return(TRUE) /\ Fault
    /\ UNCHANGED <<cr, seen, events, overdue, history>>

FinalizePlugin ==
    /\ pc = "finalize"
    /\ \/ Goto("abortEvent") /\ NoFault
       \/ Return(TRUE) /\ Fault
    /\ UNCHANGED <<cr, seen, pods, events, overdue, history>>

AbortEvent(status) == [attempt |-> observedAttempts(status), phase |-> "Aborted"]

RecordAbortEvent ==
    /\ pc = "abortEvent"
    /\ \/ events' = events \cup {AbortEvent(ta.status)} /\ Goto("removeFinalizer") /\ NoFault
       \/ events' \in {events, events \cup {AbortEvent(ta.status)}} /\ Return(TRUE) /\ Fault
    /\ UNCHANGED <<cr, seen, pods, overdue, history>>

(* Mutation: a failed update is not retried.                               *)
RemoveFinalizerOnce ==
    /\ pc = "removeFinalizer"
    /\ \/ base = cr /\ cr' = [cr EXCEPT !.exists = FALSE, !.finalizer = FALSE] /\ NoFault
       \/ UNCHANGED cr /\ Fault
    /\ Return(FALSE)
    /\ UNCHANGED <<seen, pods, events, overdue, history>>

RemoveFinalizer ==
    /\ pc = "removeFinalizer"
    /\ \/ base = cr /\ cr' = [cr EXCEPT !.exists = FALSE, !.finalizer = FALSE]
          /\ Return(FALSE) /\ NoFault
       \/ base # cr /\ UNCHANGED cr /\ Return(TRUE) /\ NoFault
       \/ UNCHANGED cr /\ Return(TRUE) /\ Fault
    /\ UNCHANGED <<seen, pods, events, overdue, history>>

-----------------------------------------------------------------------------
(* The surroundings                                                        *)

CacheSync ==
    /\ seen # cr /\ seen' = cr /\ queued' = TRUE
    /\ UNCHANGED <<cr, pods, events, pc, copies, overdue, budgets, history>>

(* A pod's change enqueues its owner.                                      *)
PodChange(n, new) ==
    /\ pods' = [pods EXCEPT ![n] = new]
    /\ queued' = TRUE
    /\ UNCHANGED <<cr, seen, events, pc, copies, overdue, history>>

PodProgress(n) ==
    /\ \/ pods[n] = "pending" /\ \E new \in {"running", "stuck"} : PodChange(n, new)
       \/ pods[n] = "stuck" /\ PodChange(n, "running")
       \/ pods[n] = "running" /\ \E new \in {"succeeded", "failed", "broken"} : PodChange(n, new)
       \/ pods[n] = "terminating" /\ PodChange(n, "none")
    /\ UNCHANGED budgets

PodKilled(n) ==
    /\ Live(n) /\ kills > 0 /\ kills' = kills - 1
    /\ \E new \in {"terminating", "none"} : PodChange(n, new)
    /\ UNCHANGED <<faults, crashes, waits>>

(* The owner reference takes the pods of a removed resource with it.       *)
PodCascade(n) ==
    /\ ~cr.exists /\ Live(n)
    /\ PodChange(n, "terminating")
    /\ UNCHANGED budgets

Delete ==
    /\ cr.exists /\ ~cr.deleting
    /\ cr' = IF cr.finalizer THEN [cr EXCEPT !.deleting = TRUE] ELSE [cr EXCEPT !.exists = FALSE]
    /\ UNCHANGED <<seen, pods, events, pc, copies, queued, overdue, budgets, history>>

(* An abort, or the cascade of a parent's deletion, at any time.           *)
DeleteResource == Delete

(* The garbage collector deletes what carries the terminal labels.         *)
CollectGarbage == cr.labelled /\ Delete

(* The newest Executing entry outlives the task's timeout.                 *)
TimeoutPasses ==
    /\ overdue < Cardinality(ExecutingEntries(cr.status))
    /\ overdue' = Cardinality(ExecutingEntries(cr.status))
    /\ UNCHANGED <<cr, seen, pods, events, pc, copies, queued, budgets, history>>

(* The executor restarts: its working copy is gone, its informer relists.  *)
Crash ==
    /\ crashes > 0 /\ crashes' = crashes - 1 /\ UNCHANGED <<faults, kills, waits>>
    /\ seen' = cr /\ Return(TRUE)
    /\ UNCHANGED <<cr, pods, events, overdue, history>>

-----------------------------------------------------------------------------

Reconcile ==
    \/ NothingToDo \/ StartFinalize \/ StartLabels \/ FailValidation \/ AddFinalizer \/ StartTask
    \/ ExpireTask \/ EvaluateCache \/ LaunchPod \/ PodLost \/ PodGivenUp \/ PodObserved \/ PodUnreadable
    \/ ResetPlugin \/ RecordSystemError \/ RestartInPlace
    \/ RecordEvent \/ PersistStatus \/ EnsureTerminalLabels
    \/ AbortForDeletion \/ FinalizePlugin \/ RecordAbortEvent \/ RemoveFinalizer

Next ==
    \/ Reconcile \/ CacheSync \/ DeleteResource \/ CollectGarbage \/ TimeoutPasses \/ Crash
    \/ \E n \in Attempts : PodProgress(n) \/ PodKilled(n) \/ PodCascade(n)

Spec == Init /\ [][Next]_vars

(* The workqueue keeps calling the reconciler, the informer catches up,    *)
(* pods end one way or another, and the collector's ticker keeps ticking.  *)
Fairness ==
    /\ WF_vars(Reconcile) /\ WF_vars(CacheSync) /\ WF_vars(CollectGarbage)
    /\ \A n \in Attempts : WF_vars(PodProgress(n))

FairSpec == Spec /\ Fairness

-----------------------------------------------------------------------------
(* Properties                                                              *)

EventType == [attempt : Attempts, phase : Phases \cup {"Aborted"}]

TypeOK ==
    /\ cr \in ResourceType /\ seen \in ResourceType
    /\ ta \in ResourceType /\ base \in ResourceType
    /\ pods \in [Attempts -> PodStates]
    /\ events \subseteq EventType
    /\ pc \in Steps /\ queued \in BOOLEAN /\ overdue \in Nat
    /\ faults \in 0..MaxFaults /\ kills \in 0..MaxKills
    /\ crashes \in 0..MaxCrashes /\ waits \in 0..MaxWaits
    /\ leaked \subseteq Attempts /\ lost \in 0..(MaxSystemFailures + 1)

(* Events are write-ahead: whatever phase the stored status claims for an  *)
(* attempt, the event that announces it was recorded before, so a crash    *)
(* between the two calls can repeat an event but never lose one.           *)
EventPrecedesStatus == cr.status.phase # "" => EventOf(cr.status) \in events

(* A pod that runs belongs to the attempt the stored status names, unless  *)
(* the in-place restart failed to abort it: two attempts of one action     *)
(* never compute side by side for any other reason.                        *)
OnlyCurrentAttemptLives ==
    \A n \in Attempts : Live(n) => n = observedAttempts(cr.status) \/ n \in leaked

(* The finalizer holds the resource until its pod is aborted: once the     *)
(* resource is gone, no pod runs but one a restart failed to abort.        *)
PodAbortedBeforeRemoval ==
    ~cr.exists => \A n \in Attempts : Live(n) => n \in leaked

(* The collector selects by label, so the label must never be on a         *)
(* resource whose stored status is still running.                          *)
LabelledIsTerminal == cr.labelled => isTerminal(cr.status)

(* A resource with a valid spec that is left alone - no reconcile running, *)
(* none queued, the informer up to date - has nothing left to do.          *)
Quiet == cr.exists /\ pc = "idle" /\ ~queued /\ seen = cr
NeverForgotten == Quiet /\ cr.valid => isTerminal(cr.status) /\ cr.labelled /\ ~cr.deleting

(* A terminal outcome is final: no later write of the reconciler takes it  *)
(* back or turns a success into a failure.                                 *)
TerminalIsFinal ==
    [][isTerminal(cr.status) => cr'.status.outcome = cr.status.outcome]_vars

(* A pod is created only for the current attempt of an unfinished action.  *)
NoLaunchAfterTerminal ==
    [][\A n \in Attempts : pods[n] = "none" /\ pods'[n] = "pending" =>
          ~isTerminal(cr.status) /\ n = observedAttempts(cr.status)]_vars

(* The task's timeout bounds one attempt's running phase: an attempt that  *)
(* is timed out has itself been running.                                   *)
TimeoutIsPerAttempt ==
    cr.status.phase = "TimedOut" =>
        \E i \in ExecutingEntries(cr.status) :
            cr.status.hist[i].attempt = cr.status.attempts

(* A deletion is carried out in spite of failing calls and crashes.        *)
DeletionCompletes == cr.deleting ~> ~cr.exists

(* A valid action reaches an outcome unless it is deleted first.           *)
ReachesOutcome == cr.valid ~> (isTerminal(cr.status) \/ cr.deleting \/ ~cr.exists)

(* A finished action is collected.                                         *)
TerminalIsCollected == isTerminal(cr.status) ~> ~cr.exists
=============================================================================
