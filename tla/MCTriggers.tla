----------------------------- MODULE MCTriggers -----------------------------
(***************************************************************************)
(* Constants for TriggerScheduler, and what does not hold of it.           *)
(***************************************************************************)
EXTENDS TriggerScheduler

MCSchedules ==
    {[kind |-> "cron", at |-> 1..MaxTime],
     [kind |-> "rate", every |-> 2, from |-> 1]}

MCOneSchedule == {[kind |-> "cron", at |-> 1..MaxTime]}
MCLooseRate == {[kind |-> "rate", every |-> 2, from |-> NoStart]}

(* Not so: a registered slot runs even if its execution fails or a crash   *)
(* or the cap cuts it short.  The first run that is created moves          *)
(* triggered_at past the slots still to be caught up.                      *)
RegisteredSlotAlwaysRuns ==
    \A t \in Triggers, s \in 1..MaxTime, r \in 1..(MaxEdits + 1) :
        (/\ t \in DOMAIN jobs /\ jobs[t].next = s
         /\ jobs[t].revision = r /\ At(t, r))
        ~> HasRun(t, s) \/ ~At(t, r)

(* Not so, although the comment at scheduler.go:95 says that CatchupAll    *)
(* handles the runs missed when a job is registered: a slot of an active   *)
(* trigger that has come and has not run gets its run unless the trigger   *)
(* changes.                                                                *)
MissedRunsAreCaughtUp ==
    \A t \in Triggers, s \in 1..MaxTime, r \in 1..(MaxEdits + 1) :
        (/\ Active(t) /\ At(t, r)
         /\ s \in GetCatchUpTimes(row[t], now))
        ~> \/ HasRun(t, s) \/ ~At(t, r)
           \/ [trigger |-> t, slot |-> s] \in dropped
=============================================================================
