-------------------------- MODULE TriggerScheduler --------------------------
(***************************************************************************)
(* The trigger scheduler of the runs service: the rows of the triggers     *)
(* table and the statements on them, the cron jobs that the scheduler      *)
(* derives from the rows, its boot (list, register, catch up) and its      *)
(* periodic resync, and the CreateRun calls of both.                       *)
(*                                                                         *)
(* Time.  Schedules fire at the whole numbers, called slots.  The clock    *)
(* `now' is n from the moment slot n has come until slot n + 1 comes, so   *)
(* an instant n is after slot n and before slot n + 1, and no instant of   *)
(* the program coincides with a slot.                                      *)
(***************************************************************************)
EXTENDS Naturals, FiniteSets

CONSTANTS
    Triggers,      \* keys project/domain/task/name
    Schedules,     \* the schedules a trigger may be deployed with
    Cap,           \* MaxCatchupRunsPerLoop
    MaxTime,       \* bound: the last slot considered
    MaxEdits,      \* bound: changes of trigger rows
    MaxCrashes,    \* bound: restarts of the scheduler
    MaxFailures    \* bound: CreateRun calls that fail

VARIABLES
    now,        \* the clock
    row,        \* the triggers table
    jobs,       \* GoCronScheduler.jobs with the next time of each cron entry
    pc,         \* where the worker of Start is
    listed,     \* the rows its last listing returned
    todo,       \* executions CatchupAll has not started yet
    fired,      \* executions CatchupAll has started
    inflight,   \* executions started by cron jobs and not answered
    runs,       \* root actions that scheduled executions have created
    edits, crashes, failures,
    listedAt,   \* history: the instant of the last listing
    idle,       \* history: slots that came while their trigger was not active
    dropped     \* history: executions due or started that were given up

rowVars  == <<row, edits>>
boundVars == <<crashes, failures>>
catchVars == <<todo, fired>>
syncVars == <<listed, listedAt>>
vars == <<now, row, jobs, pc, listed, todo, fired, inflight, runs, edits,
          crashes, failures, listedAt, idle, dropped>>

(***************************************************************************)
(* Schedules.  A cron expression is the set of its slots; a fixed rate has *)
(* a period and, when it is given a start time, the slot it counts from.   *)
(***************************************************************************)
NoStart == 0
Never   == MaxTime + 1

Cron == [kind : {"cron"}, at : SUBSET (1..MaxTime)]
Rate == [kind : {"rate"}, every : 1..MaxTime, from : 0..MaxTime]

ASSUME ScheduleAssumption ==
    /\ Schedules \subseteq Cron \cup Rate
    /\ MaxTime \in Nat /\ MaxEdits \in Nat
    /\ MaxCrashes \in Nat /\ MaxFailures \in Nat /\ Cap \in Nat

Executions == [trigger : Triggers, slot : 1..Never]

Earliest(S) == IF S = {} THEN Never ELSE CHOOSE s \in S : \A u \in S : s <= u

(* The slots of a schedule; those of a fixed rate count from start. *)
Slots(sched, start) ==
    IF sched.kind = "cron" THEN sched.at
    ELSE {s \in 1..MaxTime : s >= start /\ (s - start) % sched.every = 0}

FirstAfter(sched, start, t) == Earliest({s \in Slots(sched, start) : s > t})

LastExecIgnoresEdits(r) == r.triggeredAt  \* mutant: updated_at is not a baseline

(* startTimeFallback: the last execution, or the last (de)activation. *)
LastExec(r) == IF r.triggeredAt > r.updatedAt THEN r.triggeredAt ELSE r.updatedAt

StartTime(r) ==
    IF r.sched.kind = "rate" /\ r.sched.from # NoStart
    THEN FirstAfter(r.sched, r.sched.from, LastExec(r))
    ELSE LastExec(r)

SlotsOf(r) == Slots(r.sched, StartTime(r))

\* mutants: the last slot is left out; a slot is caught up before it comes
CatchUpStopsShort(r, to) == {s \in SlotsOf(r) : s > LastExec(r) /\ s < to}
(* Of the slots since the last execution those that have come: to is later *)
(* than slot to, so Before(to) includes it.                                *)
GetCatchUpTimes(r, to) == {s \in SlotsOf(r) : s > LastExec(r) /\ s <= to}

(***************************************************************************)
(* The triggers table.                                                     *)
(***************************************************************************)
NoRow == [state |-> "none"]
Rows == [state : {"live", "deleted"}, active : BOOLEAN, revision : Nat,
         updatedAt : 0..MaxTime, triggeredAt : 0..MaxTime, sched : Schedules]

Live(t) == row[t].state = "live"
Active(t) == Live(t) /\ row[t].active
Present == {t \in Triggers : Active(t)}
At(t, r) == row[t] # NoRow /\ row[t].revision = r

Edit == edits < MaxEdits /\ edits' = edits + 1

Write(t, r) ==
    /\ row' = [row EXCEPT ![t] = r]
    /\ UNCHANGED <<now, jobs, pc, syncVars, catchVars, inflight, runs,
                   boundVars, idle, dropped>>

(* upsertTrigger, from DeployTrigger or from the deployment of a task: a   *)
(* change of `active', and nothing else, moves updated_at.                 *)
Upsert(t, sched, active) ==
    IF row[t] = NoRow
    THEN [state |-> "live", active |-> active, revision |-> 1,
          updatedAt |-> now, triggeredAt |-> 0, sched |-> sched]
    ELSE [row[t] EXCEPT !.state = "live", !.active = active, !.sched = sched,
                        !.revision = @ + 1,
                        !.updatedAt = IF row[t].active # active THEN now ELSE @]

Deploy(t, sched, active) == Edit /\ Write(t, Upsert(t, sched, active))

UpdateTriggers(t, active) ==
    /\ Live(t) /\ row[t].active # active
    /\ Edit
    /\ Write(t, [row[t] EXCEPT !.active = active, !.updatedAt = now,
                               !.revision = @ + 1])

DeleteTriggers(t) ==
    /\ Live(t)
    /\ Edit
    /\ Write(t, [row[t] EXCEPT !.state = "deleted", !.active = FALSE,
                               !.revision = @ + 1])

(***************************************************************************)
(* Executions: one CreateRun by the trigger's name.  The name of the run   *)
(* is a function of the trigger and the slot; a name that is taken is not  *)
(* created again and leaves triggered_at alone.                            *)
(***************************************************************************)
RunNameByClock(t, slot) == <<t, now>>  \* mutant: the name is not of the slot

RunName(t, slot) == <<t, slot>>
HasRun(t, slot) == \E r \in runs : r.trigger = t /\ r.slot = slot

CreateAction(e) ==
    LET name == RunName(e.trigger, e.slot)
    IN IF \E r \in runs : r.name = name
       THEN UNCHANGED <<runs, row>>
       ELSE /\ runs' = runs \cup {[name |-> name, trigger |-> e.trigger,
                                   slot |-> e.slot]}
            /\ row' = [row EXCEPT ![e.trigger].triggeredAt = now]

CreateRun(e) ==
    /\ Live(e.trigger)
    /\ CreateAction(e)
    /\ UNCHANGED <<failures, dropped>>

(* The trigger is gone, or the call fails: it is logged and not retried.   *)
CreateRunFails(e) ==
    /\ IF Live(e.trigger)
       THEN failures < MaxFailures /\ failures' = failures + 1
       ELSE UNCHANGED failures
    /\ dropped' = dropped \cup {e}
    /\ UNCHANGED <<runs, row>>

(***************************************************************************)
(* Cron jobs.                                                              *)
(***************************************************************************)
NewJob(r) == [revision |-> r.revision, sched |-> r.sched,
              next |-> FirstAfter(r.sched, StartTime(r), now)]

\* mutant: a job that is there is kept whatever its revision
RegisteredOnce ==
    [t \in DOMAIN listed |->
        IF t \in DOMAIN jobs THEN jobs[t] ELSE NewJob(listed[t])]

(* UpdateSchedules with the listed rows: jobs of other triggers go, a job  *)
(* of the same revision stays as it is, the others are registered anew.    *)
Registered ==
    [t \in DOMAIN listed |->
        IF t \in DOMAIN jobs /\ jobs[t].revision = listed[t].revision
        THEN jobs[t] ELSE NewJob(listed[t])]

Empty == [t \in {} |-> NoRow]

ListActive == listed' = [t \in Present |-> row[t]] /\ listedAt' = now

UpdateSchedules ==
    /\ jobs' = Registered
    /\ UNCHANGED <<now, rowVars, listedAt, catchVars, inflight, runs,
                   boundVars, idle, dropped>>

(* When a slot comes the cron loop starts the jobs registered for it, each *)
(* in a goroutine of its own, and moves them on.                           *)
Due(t, slot) == t \in DOMAIN jobs /\ jobs[t].next = slot

Fire(slot) ==
    /\ inflight' = inflight \cup {[trigger |-> t, slot |-> slot] :
                                     t \in {u \in Triggers : Due(u, slot)}}
    /\ jobs' = [t \in DOMAIN jobs |->
                   IF Due(t, slot)
                   THEN [jobs[t] EXCEPT !.next = FirstAfter(jobs[t].sched, slot, slot)]
                   ELSE jobs[t]]

Answer(e) ==
    /\ e \in inflight
    /\ inflight' = inflight \ {e}
    /\ CreateRun(e) \/ CreateRunFails(e)
    /\ UNCHANGED <<now, edits, jobs, pc, syncVars, catchVars, crashes, idle>>

(***************************************************************************)
(* The worker of Start.                                                    *)
(***************************************************************************)
BootList ==
    /\ pc = "down" /\ pc' = "boot"
    /\ ListActive
    /\ UNCHANGED <<now, rowVars, jobs, catchVars, inflight, runs,
                   boundVars, idle, dropped>>

BootUpdate ==
    pc = "boot" /\ pc' = "catchup" /\ UpdateSchedules /\ UNCHANGED listed

MissedOf(list) ==
    UNION {{[trigger |-> t, slot |-> s] : s \in GetCatchUpTimes(list[t], now)} :
              t \in DOMAIN list}

StartCatchUp ==
    /\ pc = "catchup" /\ pc' = "catching"
    /\ todo' = MissedOf(listed) /\ fired' = 0
    /\ UNCHANGED <<now, rowVars, jobs, syncVars, inflight, runs, boundVars,
                   idle, dropped>>

(* Rows are listed by falling updated_at; the slots of a row rise. *)
ComesFirst(e) ==
    \A d \in todo :
        /\ listed[d.trigger].updatedAt <= listed[e.trigger].updatedAt
        /\ d.trigger = e.trigger => e.slot <= d.slot

CatchUp(e) ==
    /\ pc = "catching" /\ fired < Cap
    /\ e \in todo /\ ComesFirst(e)
    /\ todo' = todo \ {e} /\ fired' = fired + 1
    /\ CreateRun(e) \/ CreateRunFails(e)
    /\ UNCHANGED <<now, edits, jobs, pc, syncVars, inflight, crashes, idle>>

EndCatchUp ==
    /\ pc = "catching" /\ (todo = {} \/ fired >= Cap)
    /\ pc' = "run" /\ listed' = Empty
    /\ todo' = {} /\ fired' = 0 /\ dropped' = dropped \cup todo
    /\ UNCHANGED <<now, rowVars, jobs, listedAt, inflight, runs,
                   boundVars, idle>>

SyncList ==
    /\ pc = "run" /\ pc' = "sync"
    /\ ListActive
    /\ UNCHANGED <<now, rowVars, jobs, catchVars, inflight, runs,
                   boundVars, idle, dropped>>

SyncUpdate ==
    pc = "sync" /\ pc' = "run" /\ UpdateSchedules /\ listed' = Empty

(* What a crash cuts short: executions under way, and what a boot has      *)
(* listed and has not caught up.                                           *)
Interrupted ==
    inflight \cup (IF pc \in {"boot", "catchup"} THEN MissedOf(listed) ELSE todo)

Crash ==
    /\ pc # "down" /\ pc' = "down"
    /\ crashes < MaxCrashes /\ crashes' = crashes + 1
    /\ jobs' = Empty /\ listed' = Empty
    /\ todo' = {} /\ inflight' = {} /\ fired' = 0
    /\ dropped' = dropped \cup Interrupted
    /\ UNCHANGED <<now, rowVars, listedAt, runs, failures, idle>>

(* The next slot comes. *)
Tick ==
    /\ now < MaxTime
    /\ now' = now + 1
    /\ Fire(now + 1)
    /\ idle' = idle \cup {[trigger |-> t, slot |-> now + 1] : t \in Triggers \ Present}
    /\ UNCHANGED <<rowVars, pc, syncVars, catchVars, runs, boundVars, dropped>>

(* At first a trigger is not there, or is deployed and has never fired. *)
Deployed ==
    {[state |-> "live", active |-> active, revision |-> 1, updatedAt |-> 0,
      triggeredAt |-> 0, sched |-> sched] : active \in BOOLEAN, sched \in Schedules}

Init ==
    /\ now = 0 /\ row \in [Triggers -> {NoRow} \cup Deployed]
    /\ jobs = Empty /\ listed = Empty /\ pc = "down"
    /\ todo = {} /\ fired = 0 /\ inflight = {} /\ runs = {}
    /\ edits = 0 /\ crashes = 0 /\ failures = 0
    /\ listedAt = 0 /\ idle = {} /\ dropped = {}

Worker == \/ BootList \/ BootUpdate \/ StartCatchUp \/ EndCatchUp
          \/ SyncList \/ SyncUpdate

Users ==
    \E t \in Triggers :
        \/ \E sched \in Schedules, active \in BOOLEAN : Deploy(t, sched, active)
        \/ \E active \in BOOLEAN : UpdateTriggers(t, active)
        \/ DeleteTriggers(t)

Next ==
    \/ Users
    \/ Worker
    \/ \E e \in todo : CatchUp(e)
    \/ \E e \in inflight : Answer(e)
    \/ Crash
    \/ Tick

Spec == Init /\ [][Next]_vars

(* The worker goes on and resyncs, calls are answered, the process is      *)
(* restarted after a crash, and time passes.                               *)
Fairness ==
    /\ WF_vars(Worker)
    /\ WF_vars(\E e \in todo : CatchUp(e))
    /\ \A t \in Triggers, s \in 1..MaxTime :
          WF_vars(Answer([trigger |-> t, slot |-> s]))
    /\ WF_vars(Tick)

FairSpec == Spec /\ Fairness

(***************************************************************************)
(* Properties.                                                             *)
(***************************************************************************)
Jobs == [revision : Nat, sched : Schedules, next : 1..Never]

(* Every variable holds values of its type; the executions of a boot and   *)
(* of the cron loop are for slots that have come.                          *)
TypeOK ==
    /\ now \in 0..MaxTime /\ listedAt \in 0..now
    /\ row \in [Triggers -> Rows \cup {NoRow}]
    /\ DOMAIN jobs \subseteq Triggers /\ \A t \in DOMAIN jobs : jobs[t] \in Jobs
    /\ DOMAIN listed \subseteq Triggers /\ \A t \in DOMAIN listed : listed[t] \in Rows
    /\ pc \in {"down", "boot", "catchup", "catching", "run", "sync"}
    /\ todo \subseteq Executions /\ inflight \subseteq Executions
    /\ dropped \subseteq Executions /\ idle \subseteq Executions
    /\ \A e \in todo \cup inflight : e.slot <= now
    /\ \A r \in runs : r.trigger \in Triggers /\ r.slot \in 1..now
    /\ \A e \in idle : e.slot <= now
    /\ fired \in Nat /\ edits \in Nat /\ crashes \in Nat /\ failures \in Nat

(* A slot of a trigger has one run, although the cron job registered at    *)
(* boot and the catch-up of the same boot may both start it                *)
(* (trigger_executor.go:51 "duplicate executions are idempotent").         *)
SlotRunsOnce ==
    \A r1, r2 \in runs :
        r1.trigger = r2.trigger /\ r1.slot = r2.slot => r1 = r2

(* Catch-up leaves out the slots at which the trigger was not active, up   *)
(* to the moment the boot listed it: reactivating a trigger does not catch *)
(* up the time it was inactive (schedule_time.go:97), whatever edits,      *)
(* redeployments, deletions and restarts came between.                     *)
CatchUpSparesIdle == \A e \in todo \cap idle : e.slot > listedAt

(* A slot that a job of the trigger's current revision is registered for   *)
(* gets its run, whether the scheduler is up or down when it comes, unless *)
(* the trigger changes or the execution is one that failed or was cut.     *)
RegisteredSlotRuns ==
    \A t \in Triggers, s \in 1..MaxTime, r \in 1..(MaxEdits + 1) :
        (/\ t \in DOMAIN jobs /\ jobs[t].next = s
         /\ jobs[t].revision = r /\ At(t, r))
        ~> \/ HasRun(t, s) \/ ~At(t, r)
           \/ [trigger |-> t, slot |-> s] \in dropped

(* Whatever order edits, listings, updates and restarts come in, the jobs  *)
(* end up those of the active triggers, each with its row's schedule:      *)
(* skipping a job whose revision is unchanged never keeps a stale one.     *)
JobsFollowRows ==
    <>[](/\ DOMAIN jobs = Present
         /\ \A t \in DOMAIN jobs : jobs[t].sched = row[t].sched)
=============================================================================
