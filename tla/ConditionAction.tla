-------------------------- MODULE ConditionAction --------------------------
(***************************************************************************)
(* A condition action: a resource without plugin and pod that waits for a  *)
(* person.  Two writers share its status.  Signal, called by whoever       *)
(* answers, stores the value with optimistic locking; the reconciler reads *)
(* a cache that lags, decides what became of the condition, and writes its *)
(* own fields onto the newest version, which may not be the one it judged. *)
(*                                                                         *)
(* "log" holds every version of the resource in the API server, the last   *)
(* one is current, and the reconciler's cache shows version "seen".        *)
(***************************************************************************)
EXTENDS Naturals, Sequences, SequencesExt

CONSTANTS
    Signallers,     \* calls of Signal
    Values,         \* what they may answer
    Value,          \* the answer of each caller
    NoValue,        \* signalValue before any signal
    MaxRestarts,    \* bound: restarts of the executor
    MaxFaults       \* bound: failing writes of the reconciler

ASSUME ConditionAssumption ==
    /\ Value \in [Signallers -> Values]
    /\ NoValue \notin Values
    /\ MaxRestarts \in Nat
    /\ MaxFaults \in Nat

VARIABLES
    hasDeadline,    \* whether the spec declares a timeout
    overdue,        \* whether that deadline has passed
    log,            \* the versions of the resource
    seen,           \* the version in the reconciler's cache
    queued,         \* whether the work queue holds the resource
    timer,          \* whether a requeue is due at the deadline
    pc,             \* the step of the reconcile in progress
    verdict,        \* the reason it decided on
    call,           \* where each Signal stands: "out", "update", "ok", "refused"
    rv,             \* the version each Signal has read
    restarts, faults

conditionVars == <<hasDeadline, overdue, log, seen, queued, timer, pc, verdict, call, rv,
          restarts, faults>>
reconciler == <<queued, timer, pc, verdict>>
signals == <<call, rv>>
clock == <<hasDeadline, overdue>>
faulty == <<restarts, faults>>

Reasons == {"Created", "Paused", "Signaled", "TimedOut"}
Resource == [exists : BOOLEAN, signal : Values \cup {NoValue}, reason : Reasons,
             labelled : BOOLEAN]

Now == Last(log)
Cached == log[seen]
isTerminal(r) == r.reason \in {"Signaled", "TimedOut"}

\* A write that changes nothing makes no version.
Write(r) == log' = IF r = Now THEN log ELSE Append(log, r)

ConditionInit ==
    /\ hasDeadline \in BOOLEAN
    /\ overdue = FALSE
    /\ log = <<[exists |-> TRUE, signal |-> NoValue, reason |-> "Created",
                labelled |-> FALSE]>>
    /\ seen = 1
    /\ queued = TRUE
    /\ timer = FALSE
    /\ pc = "idle"
    /\ verdict = "Created"
    /\ call = [c \in Signallers |-> "out"]
    /\ rv = [c \in Signallers |-> 1]
    /\ restarts = 0
    /\ faults = 0

-----------------------------------------------------------------------------
(* Signal.                                                                 *)

Reply(c, a) == call' = [call EXCEPT ![c] = a] /\ UNCHANGED rv

\* The same value again is a retry, and answered as a success.
SignalRead(c) ==
    /\ call[c] = "out"
    /\ \/ /\ ~Now.exists
          /\ Reply(c, "refused")
       \/ /\ Now.exists /\ Now.signal = Value[c]
          /\ Reply(c, "ok")
       \/ /\ Now.exists
          /\ \/ Now.signal \notin {NoValue, Value[c]}
             \/ Now.signal = NoValue /\ isTerminal(Now)
          /\ Reply(c, "refused")
       \/ /\ Now.exists /\ Now.signal = NoValue /\ ~isTerminal(Now)
          /\ call' = [call EXCEPT ![c] = "update"]
          /\ rv' = [rv EXCEPT ![c] = Len(log)]
    /\ UNCHANGED <<clock, log, seen, reconciler, faulty>>

\* The answer may be lost, and the caller calls again.
SignalUpdate(c) ==
    /\ call[c] = "update"
    /\ rv[c] = Len(log)
    /\ Write([Now EXCEPT !.signal = Value[c]])
    /\ \E a \in {"ok", "out"} : Reply(c, a)
    /\ UNCHANGED <<clock, seen, reconciler, faulty>>

\* A conflict is retried from the read, by RetryOnConflict or by the caller.
SignalConflict(c) ==
    /\ call[c] = "update"
    /\ rv[c] # Len(log)
    /\ Reply(c, "out")
    /\ UNCHANGED <<clock, log, seen, reconciler, faulty>>

-----------------------------------------------------------------------------
(* The reconciler.                                                         *)

\* The cache moves to a later version, and its event queues the resource.
Observe ==
    /\ \E n \in seen + 1 .. Len(log) : seen' = n
    /\ queued' = TRUE
    /\ UNCHANGED <<clock, log, timer, pc, verdict, signals, faulty>>

Decide(r) ==
    IF r.signal # NoValue THEN "Signaled"
    ELSE IF hasDeadline /\ overdue THEN "TimedOut"
    ELSE "Paused"

\* A reconciler that leaves a paused condition to its events.
NoRequeue(decision) == UNCHANGED timer

\* A requeue that is due already is none.
WaitForDeadline(decision) ==
    timer' = (timer \/ (decision = "Paused" /\ hasDeadline /\ ~overdue))

\* A status that does not change is not written; the deadline is waited for.
Reconcile ==
    /\ pc = "idle"
    /\ queued
    /\ queued' = FALSE
    /\ IF Cached.exists /\ ~isTerminal(Cached)
       THEN LET d == Decide(Cached) IN
            /\ verdict' = d
            /\ pc' = IF d = Cached.reason THEN "idle" ELSE "write"
            /\ IF d = Cached.reason THEN WaitForDeadline(d) ELSE UNCHANGED timer
       ELSE /\ pc' = IF Cached.exists /\ ~Cached.labelled THEN "label" ELSE "idle"
            /\ UNCHANGED <<verdict, timer>>
    /\ UNCHANGED <<clock, log, seen, signals, faulty>>

AfterWrite == IF verdict = "Paused" THEN "idle" ELSE "label"

\* An update that stores the whole status it worked out, as the one of task
\* actions does.
PersistWholeStatus ==
    /\ pc = "write"
    /\ seen = Len(log)
    /\ Now.exists
    /\ Write([Now EXCEPT !.reason = verdict,
                         !.signal = IF verdict = "Signaled" THEN @ ELSE NoValue])
    /\ pc' = AfterWrite
    /\ WaitForDeadline(verdict)
    /\ UNCHANGED <<clock, seen, queued, verdict, signals, faulty>>

\* updateConditionStatus replaces its own fields of the version it refetches
\* from the cache, which only succeeds on the current one.
PersistStatus ==
    /\ pc = "write"
    /\ seen = Len(log)
    /\ Now.exists
    /\ Write([Now EXCEPT !.reason = verdict])
    /\ pc' = AfterWrite
    /\ WaitForDeadline(verdict)
    /\ UNCHANGED <<clock, seen, queued, verdict, signals, faulty>>

\* Conflicts exhaust their retries, the resource is gone, or the call fails;
\* the error requeues the resource.
PersistFails ==
    /\ pc = "write"
    /\ \/ seen # Len(log) /\ UNCHANGED faults
       \/ ~Cached.exists /\ UNCHANGED faults
       \/ faults < MaxFaults /\ faults' = faults + 1
    /\ pc' = "idle"
    /\ queued' = TRUE
    /\ UNCHANGED <<clock, log, seen, timer, verdict, signals, restarts>>

\* ensureTerminalLabels is a patch and meets no conflict.
EnsureTerminalLabels ==
    /\ pc = "label"
    /\ IF Now.exists
       THEN Write([Now EXCEPT !.labelled = TRUE]) /\ UNCHANGED queued
       ELSE queued' = TRUE /\ UNCHANGED log
    /\ pc' = "idle"
    /\ UNCHANGED <<clock, seen, timer, verdict, signals, faulty>>

LabelFails ==
    /\ pc = "label"
    /\ faults < MaxFaults
    /\ faults' = faults + 1
    /\ pc' = "idle"
    /\ queued' = TRUE
    /\ UNCHANGED <<clock, log, seen, timer, verdict, signals, restarts>>

TimerFires ==
    /\ timer
    /\ overdue
    /\ timer' = FALSE
    /\ queued' = TRUE
    /\ UNCHANGED <<clock, log, seen, pc, verdict, signals, faulty>>

DeadlinePasses ==
    /\ hasDeadline
    /\ ~overdue
    /\ overdue' = TRUE
    /\ UNCHANGED <<hasDeadline, log, seen, reconciler, signals, faulty>>

\* A new process lists the resource and queues it.
RestartExecutor ==
    /\ restarts < MaxRestarts
    /\ restarts' = restarts + 1
    /\ pc' = "idle"
    /\ timer' = FALSE
    /\ queued' = TRUE
    /\ seen' = Len(log)
    /\ UNCHANGED <<clock, log, verdict, signals, faults>>

\* An abort deletes the resource, and so does the collector of labelled ones;
\* there is no finalizer.
Delete ==
    /\ Now.exists
    /\ Write([Now EXCEPT !.exists = FALSE])
    /\ UNCHANGED <<clock, seen, reconciler, signals, faulty>>

-----------------------------------------------------------------------------

ConditionNext ==
    \/ \E c \in Signallers : SignalRead(c) \/ SignalUpdate(c) \/ SignalConflict(c)
    \/ Observe
    \/ Reconcile
    \/ PersistStatus
    \/ PersistFails
    \/ EnsureTerminalLabels
    \/ LabelFails
    \/ TimerFires
    \/ DeadlinePasses
    \/ RestartExecutor
    \/ Delete

ConditionSpec == ConditionInit /\ [][ConditionNext]_conditionVars

\* The informer catches up, the workers of the queue go on and the timer
\* fires; nobody has to signal, to abort, to fail or to restart.
ConditionFairSpec ==
    /\ ConditionSpec
    /\ WF_conditionVars(Observe)
    /\ WF_conditionVars(Reconcile)
    /\ WF_conditionVars(PersistStatus \/ PersistFails)
    /\ WF_conditionVars(EnsureTerminalLabels)
    /\ WF_conditionVars(TimerFires)

-----------------------------------------------------------------------------
(* Properties.                                                             *)

\* The types, and that only a condition with an outcome carries the labels
\* that let it be collected.
ConditionTypeOK ==
    /\ hasDeadline \in BOOLEAN /\ overdue \in BOOLEAN
    /\ log \in Seq(Resource) /\ log # <<>>
    /\ \A i \in DOMAIN log : log[i].labelled => isTerminal(log[i])
    /\ seen \in 1..Len(log)
    /\ queued \in BOOLEAN /\ timer \in BOOLEAN
    /\ pc \in {"idle", "write", "label"}
    /\ verdict \in Reasons
    /\ call \in [Signallers -> {"out", "update", "ok", "refused"}]
    /\ rv \in [Signallers -> 1..Len(log)]
    /\ restarts \in 0..MaxRestarts /\ faults \in 0..MaxFaults

\* A signal that was accepted is neither erased by the reconciler, which may
\* have read the status before, nor replaced by another signal: whoever got a
\* success finds the own value in the resource as long as that is there.
AcceptedSignalStands ==
    \A c \in Signallers : call[c] = "ok" /\ Now.exists => Now.signal = Value[c]

\* A condition that was found signalled stays so, although a later reconcile
\* may read an older version and the deadline passes.
SignaledIsFinal ==
    [][Now.exists /\ Now.reason = "Signaled" =>
        ~Now'.exists \/ Now'.reason = "Signaled"]_conditionVars

\* Nobody waits for ever on a condition that was signalled or is past its
\* deadline: it gets an outcome and its labels, or is deleted.
ConditionSettles ==
    (Now.signal # NoValue \/ overdue) ~>
        (~Now.exists \/ (isTerminal(Now) /\ Now.labelled))
=============================================================================
