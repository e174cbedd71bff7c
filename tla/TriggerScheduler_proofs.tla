----------------------- MODULE TriggerScheduler_proofs -----------------------
(***************************************************************************)
(* Proofs about TriggerScheduler, for every set of triggers and schedules  *)
(* and every value of the bounds.                                          *)
(***************************************************************************)
EXTENDS TriggerScheduler, WellFoundedInduction, TLAPS

(***************************************************************************)
(* The inductive invariant.                                                *)
(***************************************************************************)
RunsAreNamed ==
    runs \subseteq {[name |-> RunName(t, s), trigger |-> t, slot |-> s] :
                      t \in Triggers, s \in 1..Never}

(* Only a live row is active, and no slot after its last change was idle.  *)
RowsAreCurrent ==
    \A t \in Triggers : row[t] # NoRow =>
        /\ row[t].updatedAt <= now
        /\ row[t].active => row[t].state = "live"
        /\ row[t].active => \A e \in idle :
                e.trigger = t => e.slot <= row[t].updatedAt

(* A listed row is an older one, or has the schedule of the present one.   *)
ListIsOlder ==
    \A t \in DOMAIN listed :
        /\ row[t] # NoRow /\ listed[t].revision <= row[t].revision
        /\ listed[t].revision = row[t].revision => listed[t].sched = row[t].sched
        /\ \A e \in idle :
                e.trigger = t /\ e.slot <= listedAt => e.slot <= listed[t].updatedAt

(* A job of the row's revision has the row's schedule: the premise on      *)
(* which UpdateSchedules keeps it (scheduler.go:73 "same LatestRevision =  *)
(* same spec").                                                            *)
RevisionNamesSchedule ==
    \A t \in DOMAIN jobs :
        /\ row[t] # NoRow /\ jobs[t].revision <= row[t].revision
        /\ jobs[t].revision = row[t].revision => jobs[t].sched = row[t].sched

Catching == pc # "catching" => todo = {}

IInv == /\ TypeOK /\ RunsAreNamed /\ RowsAreCurrent /\ ListIsOlder
        /\ RevisionNamesSchedule /\ Catching /\ CatchUpSparesIdle

(***************************************************************************)
(* Slots.                                                                  *)
(***************************************************************************)

(* A schedule has its slots within the bound. *)
LEMMA SlotsInRange ==
    ASSUME NEW sched \in Schedules, NEW start \in Nat
    PROVE  Slots(sched, start) \subseteq 1..MaxTime
BY ScheduleAssumption DEF Slots, Cron, Rate

(* The least of a set of slots is one of them. *)
LEMMA LeastSlot ==
    ASSUME NEW S, S \subseteq 1..MaxTime
    PROVE  Earliest(S) \in 1..Never
  <1> DEFINE Less == {ss \in Nat \X Nat : ss[1] < ss[2]}
             least == CHOOSE s \in S : \A u \in S : s <= u
  <1>1. CASE S = {}
      BY <1>1, ScheduleAssumption DEF Earliest, Never
  <1>2. CASE S # {}
    <2>1. IsWellFoundedOn(Less, Nat)
        BY NatLessThanWellFounded DEF OpToRel
    <2>2. S \subseteq Nat
        OBVIOUS
    <2>3. \E s \in S : \A u \in S : ~(<<u, s>> \in Less)
      <3> HIDE DEF Less
      <3> QED BY <1>2, <2>1, <2>2, WFMin
    <2>4. PICK s \in S : \A u \in S : ~(<<u, s>> \in Less)
        BY <2>3
    <2>5. \A u \in S : s <= u
      <3> SUFFICES ASSUME NEW u \in S PROVE s <= u
          OBVIOUS
      <3>1. u \in Nat /\ s \in Nat /\ ~(u < s)
          BY <2>2, <2>4
      <3> QED BY <3>1
    <2>6. least \in S
        BY <2>5
    <2>7. Earliest(S) = least
        BY <1>2 DEF Earliest
    <2>8. least \in 1..Never
      <3> HIDE DEF least
      <3> QED BY <2>6, ScheduleAssumption DEF Never
    <2> QED BY <2>7, <2>8
  <1> QED BY <1>1, <1>2

LEMMA NextInRange ==
    ASSUME NEW sched \in Schedules, NEW start \in Nat, NEW t
    PROVE  FirstAfter(sched, start, t) \in 1..Never
  <1>1. {s \in Slots(sched, start) : s > t} \subseteq 1..MaxTime
      BY SlotsInRange
  <1> QED BY <1>1, LeastSlot DEF FirstAfter

LEMMA RowTimes ==
    ASSUME NEW r \in Rows
    PROVE  /\ LastExec(r) \in 0..MaxTime /\ r.updatedAt <= LastExec(r)
           /\ StartTime(r) \in Nat
           /\ SlotsOf(r) \subseteq 1..MaxTime
  <1>1. LastExec(r) \in 0..MaxTime /\ r.updatedAt <= LastExec(r)
      BY ScheduleAssumption DEF Rows, LastExec
  <1>2. r.sched \in Schedules
      BY DEF Rows
  <1>3. StartTime(r) \in Nat
    <2>1. CASE r.sched.kind = "rate" /\ r.sched.from # NoStart
      <3>1. r.sched.from \in Nat
          BY <1>2, <2>1, ScheduleAssumption DEF Cron, Rate
      <3>2. FirstAfter(r.sched, r.sched.from, LastExec(r)) \in 1..Never
          BY <1>2, <3>1, NextInRange
      <3> QED BY <2>1, <3>2, ScheduleAssumption DEF StartTime, Never
    <2>2. CASE ~(r.sched.kind = "rate" /\ r.sched.from # NoStart)
        BY <1>1, <2>2, ScheduleAssumption DEF StartTime
    <2> QED BY <2>1, <2>2
  <1>4. SlotsOf(r) \subseteq 1..MaxTime
      BY <1>2, <1>3, SlotsInRange DEF SlotsOf
  <1> QED BY <1>1, <1>3, <1>4

(* What is caught up has come, after the row's last change.                *)
LEMMA MissedHaveCome ==
    ASSUME TypeOK, NEW e \in MissedOf(listed)
    PROVE  /\ e \in Executions /\ e.slot <= now
           /\ e.trigger \in DOMAIN listed
           /\ e.slot > listed[e.trigger].updatedAt
  <1>1. PICK t \in DOMAIN listed : e \in {[trigger |-> t, slot |-> s] : s \in GetCatchUpTimes(listed[t], now)}
      BY DEF MissedOf
  <1>2. PICK s \in GetCatchUpTimes(listed[t], now) : e = [trigger |-> t, slot |-> s]
      BY <1>1
  <1>3. listed[t] \in Rows /\ t \in Triggers
      BY DEF TypeOK
  <1>4. s \in 1..MaxTime /\ s > LastExec(listed[t]) /\ s <= now
      BY <1>2, <1>3, RowTimes DEF GetCatchUpTimes
  <1>5. LastExec(listed[t]) \in 0..MaxTime /\ listed[t].updatedAt <= LastExec(listed[t])
      BY <1>3, RowTimes
  <1>6. listed[t].updatedAt \in Nat
      BY <1>3, ScheduleAssumption DEF Rows
  <1>7. s > listed[t].updatedAt
      BY <1>4, <1>5, <1>6, ScheduleAssumption
  <1>8. s \in 1..Never
      BY <1>4, ScheduleAssumption DEF Never
  <1> QED BY <1>2, <1>3, <1>4, <1>7, <1>8 DEF Executions

(***************************************************************************)
(* The table.                                                              *)
(***************************************************************************)

(* Changing fields of a row; the truth values are any set B here.          *)
LEMMA FieldsChange ==
    ASSUME NEW B, NEW S,
           NEW q \in [state : {"live", "deleted"}, active : B, revision : Nat,
                      updatedAt : 0..MaxTime, triggeredAt : 0..MaxTime, sched : S],
           NEW state \in {"live", "deleted"}, NEW active \in B, NEW sched \in S,
           NEW revision \in Nat, NEW updatedAt \in 0..MaxTime
    PROVE  /\ [q EXCEPT !.state = state, !.active = active, !.sched = sched,
                        !.revision = revision, !.updatedAt = updatedAt] \in
                [state : {"live", "deleted"}, active : B, revision : Nat,
                 updatedAt : 0..MaxTime, triggeredAt : 0..MaxTime, sched : S]
           /\ [q EXCEPT !.active = active, !.updatedAt = updatedAt,
                        !.revision = revision] \in
                [state : {"live", "deleted"}, active : B, revision : Nat,
                 updatedAt : 0..MaxTime, triggeredAt : 0..MaxTime, sched : S]
           /\ [q EXCEPT !.state = state, !.active = active,
                        !.revision = revision] \in
                [state : {"live", "deleted"}, active : B, revision : Nat,
                 updatedAt : 0..MaxTime, triggeredAt : 0..MaxTime, sched : S]
OBVIOUS

LEMMA TriggerTime ==
    ASSUME NEW B, NEW S, NEW at \in 0..MaxTime,
           NEW q \in [state : {"live", "deleted"}, active : B, revision : Nat,
                      updatedAt : 0..MaxTime, triggeredAt : 0..MaxTime, sched : S]
    PROVE  [q EXCEPT !.triggeredAt = at] \in
                [state : {"live", "deleted"}, active : B, revision : Nat,
                 updatedAt : 0..MaxTime, triggeredAt : 0..MaxTime, sched : S]
OBVIOUS

(* A statement on a row raises its revision and, if it leaves the row      *)
(* active after it was not, its updated_at.                                *)
LEMMA WriteKeeps ==
    ASSUME IInv, NEW t \in Triggers, NEW r \in Rows, Edit, Write(t, r),
           row[t] # NoRow => r.revision = row[t].revision + 1,
           r.updatedAt <= now,
           r.active => r.state = "live",
           r.active => \A e \in idle : e.trigger = t => e.slot <= r.updatedAt
    PROVE  IInv'
  <1> USE DEF IInv, Write, syncVars, catchVars, boundVars
  <1>0. /\ row' \in [Triggers -> Rows \cup {NoRow}]
        /\ row'[t] = r /\ \A u \in Triggers : u # t => row'[u] = row[u]
        /\ r # NoRow
    <2>1. r.state # "none" /\ NoRow.state = "none"
        BY DEF Rows, NoRow
    <2> QED BY <2>1 DEF TypeOK
  <1>1. TypeOK'
      BY <1>0 DEF TypeOK, Edit
  <1>2. RunsAreNamed'
      BY DEF RunsAreNamed, RunName
  <1>3. RowsAreCurrent'
    <2> SUFFICES ASSUME NEW u \in Triggers, row'[u] # NoRow
                 PROVE  /\ row'[u].updatedAt <= now
                        /\ row'[u].active => row'[u].state = "live"
                        /\ row'[u].active => \A e \in idle : e.trigger = u => e.slot <= row'[u].updatedAt
        BY DEF RowsAreCurrent
    <2>1. CASE u = t
        BY <1>0, <2>1
    <2>2. CASE u # t
        BY <1>0, <2>2 DEF RowsAreCurrent
    <2> QED BY <2>1, <2>2
  <1>4. row[t] # NoRow => row[t].revision \in Nat /\ r.revision \in Nat /\ r.revision > row[t].revision
      BY DEF TypeOK, Rows
  <1>5. ListIsOlder'
    <2> SUFFICES ASSUME NEW u \in DOMAIN listed
                 PROVE  /\ row'[u] # NoRow /\ listed[u].revision <= row'[u].revision
                        /\ listed[u].revision = row'[u].revision => listed[u].sched = row'[u].sched
        BY DEF ListIsOlder
    <2>1. /\ u \in Triggers /\ listed[u].revision \in Nat
          /\ row[u] # NoRow /\ listed[u].revision <= row[u].revision
        BY DEF ListIsOlder, TypeOK, Rows
    <2>2. CASE u = t
        BY <1>0, <1>4, <2>1, <2>2
    <2>3. CASE u # t
        BY <1>0, <2>1, <2>3 DEF ListIsOlder
    <2> QED BY <2>2, <2>3
  <1>6. RevisionNamesSchedule'
    <2> SUFFICES ASSUME NEW u \in DOMAIN jobs
                 PROVE  /\ row'[u] # NoRow /\ jobs[u].revision <= row'[u].revision
                        /\ jobs[u].revision = row'[u].revision => jobs[u].sched = row'[u].sched
        BY DEF RevisionNamesSchedule
    <2>1. /\ u \in Triggers /\ jobs[u].revision \in Nat
          /\ row[u] # NoRow /\ jobs[u].revision <= row[u].revision
        BY DEF RevisionNamesSchedule, TypeOK, Jobs
    <2>2. CASE u = t
        BY <1>0, <1>4, <2>1, <2>2
    <2>3. CASE u # t
        BY <1>0, <2>1, <2>3 DEF RevisionNamesSchedule
    <2> QED BY <2>2, <2>3
  <1> QED BY <1>1, <1>2, <1>3, <1>5, <1>6 DEF Catching, CatchUpSparesIdle

(* Slots that came while the trigger was idle came before now. *)
LEMMA IdleIsPast ==
    ASSUME IInv, NEW e \in idle
    PROVE  e.slot <= now /\ now \in Nat /\ now <= MaxTime /\ now \in 0..MaxTime
BY ScheduleAssumption DEF IInv, TypeOK

LEMMA DeployKeeps ==
    ASSUME IInv, NEW t \in Triggers, NEW sched \in Schedules,
           NEW active \in BOOLEAN, Deploy(t, sched, active)
    PROVE  IInv'
  <1> DEFINE r == Upsert(t, sched, active)
  <1>0. now \in 0..MaxTime /\ row \in [Triggers -> Rows \cup {NoRow}]
      BY DEF IInv, TypeOK
  <1>1. CASE row[t] = NoRow
    <2>1. r = [state |-> "live", active |-> active, revision |-> 1,
               updatedAt |-> now, triggeredAt |-> 0, sched |-> sched]
        BY <1>1 DEF Upsert
    <2>2. r \in Rows /\ r.updatedAt = now /\ r.state = "live"
        BY <1>0, <2>1, ScheduleAssumption DEF Rows
    <2>3. r.updatedAt <= now
        BY <2>2, <1>0
    <2>4. \A e \in idle : e.slot <= r.updatedAt
        BY <2>2, IdleIsPast
    <2> HIDE DEF r
    <2>5. Edit /\ Write(t, r)
        BY DEF Deploy, r
    <2> QED BY <1>1, <2>2, <2>3, <2>4, <2>5, WriteKeeps
  <1>2. CASE row[t] # NoRow
    <2>0. row[t] \in Rows
        BY <1>0, <1>2
    <2>1. r = [row[t] EXCEPT !.state = "live", !.active = active, !.sched = sched,
                        !.revision = row[t].revision + 1,
                        !.updatedAt = IF row[t].active # active THEN now ELSE row[t].updatedAt]
        BY <1>2 DEF Upsert
    <2>a. r.active = active
        BY <2>0, <2>1 DEF Rows
    <2>b. /\ r.state = "live" /\ r.revision = row[t].revision + 1
          /\ r.updatedAt = IF row[t].active # active THEN now ELSE row[t].updatedAt
        BY <2>0, <2>1 DEF Rows
    <2>c. r \in Rows
      <3> DEFINE changed == IF row[t].active # active THEN now ELSE row[t].updatedAt
      <3>1. row[t].revision + 1 \in Nat
          BY <2>0 DEF Rows
      <3>2. changed \in 0..MaxTime
          BY <1>0, <2>0 DEF Rows
      <3>3. r = [row[t] EXCEPT !.state = "live", !.active = active, !.sched = sched,
                    !.revision = row[t].revision + 1, !.updatedAt = changed]
          BY <2>1
      <3> HIDE DEF changed, r
      <3>4. "live" \in {"live", "deleted"}
          OBVIOUS
      <3>5. [row[t] EXCEPT !.state = "live", !.active = active, !.sched = sched,
                 !.revision = row[t].revision + 1, !.updatedAt = changed] \in Rows
          BY <2>0, <3>1, <3>2, <3>4, FieldsChange DEF Rows
      <3> QED BY <3>3, <3>5
    <2>2. /\ r \in Rows /\ r.state = "live" /\ r.revision = row[t].revision + 1
          /\ r.active = active
          /\ r.updatedAt = IF row[t].active # active THEN now ELSE row[t].updatedAt
        BY <2>a, <2>b, <2>c
    <2>3. r.updatedAt <= now
        BY <1>0, <1>2, <2>2 DEF IInv, RowsAreCurrent
    <2>4. r.active => \A e \in idle : e.trigger = t => e.slot <= r.updatedAt
        BY <1>2, <2>0, <2>2, IdleIsPast DEF IInv, RowsAreCurrent, Rows
    <2> HIDE DEF r
    <2>5. Edit /\ Write(t, r)
        BY DEF Deploy, r
    <2> QED BY <1>2, <2>2, <2>3, <2>4, <2>5, WriteKeeps
  <1> QED BY <1>1, <1>2

LEMMA UpdateKeeps ==
    ASSUME IInv, NEW t \in Triggers, NEW active \in BOOLEAN, UpdateTriggers(t, active)
    PROVE  IInv'
  <1> DEFINE r == [row[t] EXCEPT !.active = active, !.updatedAt = now,
                               !.revision = row[t].revision + 1]
  <1>0. now \in 0..MaxTime /\ row \in [Triggers -> Rows \cup {NoRow}]
      BY DEF IInv, TypeOK
  <1>1. row[t] \in Rows /\ row[t].state = "live"
      BY <1>0 DEF UpdateTriggers, Live, NoRow
  <1>a. r.state = "live" /\ r.revision = row[t].revision + 1 /\ r.updatedAt = now
      BY <1>1 DEF Rows
  <1>b. r \in Rows
    <2>1. row[t].revision + 1 \in Nat
        BY <1>1 DEF Rows
    <2> QED BY <1>0, <1>1, <2>1, FieldsChange DEF Rows
  <1>2. /\ r \in Rows /\ r.state = "live" /\ r.revision = row[t].revision + 1
        /\ r.updatedAt = now
      BY <1>a, <1>b
  <1> HIDE DEF r
  <1>3. r.updatedAt <= now
      BY <1>0, <1>2
  <1>4. \A e \in idle : e.slot <= r.updatedAt
      BY <1>2, IdleIsPast
  <1>5. Edit /\ Write(t, r)
      BY DEF UpdateTriggers, r
  <1> QED BY <1>2, <1>3, <1>4, <1>5, WriteKeeps

LEMMA DeleteKeeps ==
    ASSUME IInv, NEW t \in Triggers, DeleteTriggers(t)
    PROVE  IInv'
  <1> DEFINE r == [row[t] EXCEPT !.state = "deleted", !.active = FALSE,
                               !.revision = row[t].revision + 1]
  <1>0. now \in 0..MaxTime /\ row \in [Triggers -> Rows \cup {NoRow}]
      BY DEF IInv, TypeOK
  <1>1. row[t] \in Rows /\ row[t] # NoRow
      BY <1>0 DEF DeleteTriggers, Live, NoRow
  <1>a. r.active = FALSE
      BY <1>1 DEF Rows
  <1>b. r.revision = row[t].revision + 1 /\ r.updatedAt = row[t].updatedAt
      BY <1>1 DEF Rows
  <1>c. r \in Rows
    <2>1. row[t].revision + 1 \in Nat /\ FALSE \in BOOLEAN
        BY <1>1 DEF Rows
    <2> QED BY <1>1, <2>1, FieldsChange DEF Rows
  <1>2. /\ r \in Rows /\ ~r.active /\ r.revision = row[t].revision + 1
        /\ r.updatedAt = row[t].updatedAt
      BY <1>a, <1>b, <1>c
  <1> HIDE DEF r
  <1>3. r.updatedAt <= now
      BY <1>1, <1>2 DEF IInv, RowsAreCurrent
  <1>5. Edit /\ Write(t, r)
      BY DEF DeleteTriggers, r
  <1> QED BY <1>2, <1>3, <1>5, WriteKeeps

(***************************************************************************)
(* Executions.                                                             *)
(***************************************************************************)

(* CreateRun changes triggered_at of one row and nothing else of any row,  *)
(* and gives the new run its name.                                         *)
LEMMA ExecutionKeeps ==
    ASSUME IInv, NEW e \in Executions, e.slot <= now,
           CreateRun(e) \/ CreateRunFails(e)
    PROVE  /\ row' \in [Triggers -> Rows \cup {NoRow}]
           /\ \A r \in runs' : r.trigger \in Triggers /\ r.slot \in 1..now
           /\ RunsAreNamed' /\ dropped' \subseteq Executions /\ failures' \in Nat
           /\ \A t \in Triggers :
                 /\ row'[t] = NoRow <=> row[t] = NoRow
                 /\ row[t] # NoRow =>
                      /\ row'[t].state = row[t].state
                      /\ row'[t].active = row[t].active
                      /\ row'[t].revision = row[t].revision
                      /\ row'[t].updatedAt = row[t].updatedAt
                      /\ row'[t].sched = row[t].sched
  <1>0. /\ row \in [Triggers -> Rows \cup {NoRow}] /\ now \in 0..MaxTime
        /\ \A r \in runs : r.trigger \in Triggers /\ r.slot \in 1..now
        /\ RunsAreNamed /\ dropped \subseteq Executions /\ failures \in Nat
        /\ e.trigger \in Triggers /\ e.slot \in 1..Never
      BY DEF IInv, TypeOK, Executions
  <1>1. CASE UNCHANGED <<row, runs>>
    <2>1. dropped' \subseteq Executions /\ failures' \in Nat
        BY <1>0 DEF CreateRun, CreateRunFails
    <2> QED BY <1>0, <1>1, <2>1 DEF RunsAreNamed, RunName
  <1>2. CASE ~(UNCHANGED <<row, runs>>)
    <2>1. CreateRun(e)
        BY <1>2 DEF CreateRunFails
    <2>2. /\ runs' = runs \cup {[name |-> RunName(e.trigger, e.slot),
                                 trigger |-> e.trigger, slot |-> e.slot]}
          /\ row' = [row EXCEPT ![e.trigger].triggeredAt = now]
          /\ UNCHANGED <<failures, dropped>>
        BY <1>2, <2>1 DEF CreateRun, CreateAction
    <2>3. row[e.trigger] \in Rows
        BY <1>0, <2>1 DEF CreateRun, Live, NoRow
    <2> DEFINE r == [row[e.trigger] EXCEPT !.triggeredAt = now]
    <2>4. /\ r.state = row[e.trigger].state /\ r.revision = row[e.trigger].revision
          /\ r.updatedAt = row[e.trigger].updatedAt /\ r.sched = row[e.trigger].sched
        BY <2>3 DEF Rows
    <2>5. r.active = row[e.trigger].active
        BY <2>3 DEF Rows
    <2>6. r \in Rows
        BY <1>0, <2>3, TriggerTime DEF Rows
    <2>7. row' = [row EXCEPT ![e.trigger] = r]
        BY <2>2
    <2> HIDE DEF r
    <2>8. /\ row' \in [Triggers -> Rows \cup {NoRow}]
          /\ row'[e.trigger] = r
          /\ \A t \in Triggers : t # e.trigger => row'[t] = row[t]
        BY <1>0, <2>6, <2>7
    <2>9. \A q \in Rows : q # NoRow
      <3>1. \A q \in Rows : q.state # "none"
          BY DEF Rows
      <3>2. NoRow.state = "none"
          BY DEF NoRow
      <3> QED BY <3>1, <3>2
    <2>10. ASSUME NEW t \in Triggers
           PROVE  /\ row'[t] = NoRow <=> row[t] = NoRow
                  /\ row[t] # NoRow =>
                      /\ row'[t].state = row[t].state
                      /\ row'[t].active = row[t].active
                      /\ row'[t].revision = row[t].revision
                      /\ row'[t].updatedAt = row[t].updatedAt
                      /\ row'[t].sched = row[t].sched
      <3>1. CASE t = e.trigger
          BY <2>3, <2>4, <2>5, <2>6, <2>8, <2>9, <3>1
      <3>2. CASE t # e.trigger
          BY <2>8, <3>2
      <3> QED BY <3>1, <3>2
    <2>11. \A q \in runs' : q.trigger \in Triggers /\ q.slot \in 1..now
      <3>1. e.slot \in 1..now
          BY <1>0, ScheduleAssumption DEF Never
      <3> QED BY <1>0, <2>2, <3>1
    <2>12. RunsAreNamed'
        BY <1>0, <2>2 DEF RunsAreNamed, RunName
    <2> QED BY <1>0, <2>2, <2>8, <2>10, <2>11, <2>12
  <1> QED BY <1>1, <1>2

(* The conjuncts about rows survive a change of triggered_at.              *)
LEMMA SameRows ==
    ASSUME IInv, UNCHANGED <<now, idle, listed, listedAt, jobs>>,
           \A t \in Triggers :
                 /\ row'[t] = NoRow <=> row[t] = NoRow
                 /\ row[t] # NoRow =>
                      /\ row'[t].state = row[t].state
                      /\ row'[t].active = row[t].active
                      /\ row'[t].revision = row[t].revision
                      /\ row'[t].updatedAt = row[t].updatedAt
                      /\ row'[t].sched = row[t].sched
    PROVE  RowsAreCurrent' /\ ListIsOlder' /\ RevisionNamesSchedule'
  <1>0. DOMAIN listed \subseteq Triggers /\ DOMAIN jobs \subseteq Triggers
      BY DEF IInv, TypeOK
  <1>1. RowsAreCurrent'
      BY DEF IInv, RowsAreCurrent
  <1>2. ListIsOlder'
      BY <1>0 DEF IInv, ListIsOlder
  <1>3. RevisionNamesSchedule'
      BY <1>0 DEF IInv, RevisionNamesSchedule
  <1> QED BY <1>1, <1>2, <1>3

LEMMA AnswerKeeps ==
    ASSUME IInv, NEW e \in inflight, Answer(e)
    PROVE  IInv'
  <1>1. e \in Executions /\ e.slot <= now
      BY DEF IInv, TypeOK
  <1>2. CreateRun(e) \/ CreateRunFails(e)
      BY DEF Answer
  <1>3. RowsAreCurrent' /\ ListIsOlder' /\ RevisionNamesSchedule'
      BY <1>1, <1>2, ExecutionKeeps, SameRows DEF Answer, syncVars
  <1>4. TypeOK' /\ RunsAreNamed'
      BY <1>1, <1>2, ExecutionKeeps DEF IInv, TypeOK, Answer, syncVars, catchVars
  <1> QED BY <1>3, <1>4 DEF IInv, Catching, CatchUpSparesIdle, Answer, syncVars, catchVars

LEMMA CatchUpKeeps ==
    ASSUME IInv, NEW e \in todo, CatchUp(e)
    PROVE  IInv'
  <1>1. e \in Executions /\ e.slot <= now
      BY DEF IInv, TypeOK
  <1>2. CreateRun(e) \/ CreateRunFails(e)
      BY DEF CatchUp
  <1>3. RowsAreCurrent' /\ ListIsOlder' /\ RevisionNamesSchedule'
      BY <1>1, <1>2, ExecutionKeeps, SameRows DEF CatchUp, syncVars
  <1>4. TypeOK' /\ RunsAreNamed'
      BY <1>1, <1>2, ExecutionKeeps DEF IInv, TypeOK, CatchUp, syncVars
  <1> QED BY <1>3, <1>4 DEF IInv, Catching, CatchUpSparesIdle, CatchUp, syncVars

(***************************************************************************)
(* The worker and the cron loop.                                           *)
(***************************************************************************)

LEMMA ListKeeps ==
    ASSUME IInv, BootList \/ SyncList
    PROVE  IInv'
  <1> USE DEF BootList, SyncList, ListActive, rowVars, catchVars, boundVars
  <1>0. /\ row \in [Triggers -> Rows \cup {NoRow}] /\ now \in 0..MaxTime
        /\ Present \subseteq Triggers
        /\ \A t \in Present : row[t] \in Rows /\ row[t] # NoRow /\ row[t].active
      BY DEF IInv, TypeOK, Present, Active, Live, NoRow
  <1>1. listed' = [t \in Present |-> row[t]] /\ listedAt' = now /\ row' = row
      OBVIOUS
  <1>2. TypeOK'
      BY <1>0, <1>1 DEF IInv, TypeOK
  <1>3. ListIsOlder'
    <2>1. \A t \in Present : row[t].revision <= row[t].revision
        BY <1>0 DEF Rows
    <2>2. \A t \in Present : \A e \in idle : e.trigger = t => e.slot <= row[t].updatedAt
        BY <1>0 DEF IInv, RowsAreCurrent
    <2> QED BY <1>0, <1>1, <2>1, <2>2 DEF ListIsOlder
  <1>4. todo = {}
      BY DEF IInv, Catching
  <1> QED BY <1>1, <1>2, <1>3, <1>4 DEF IInv, RunsAreNamed, RunName, RowsAreCurrent,
             RevisionNamesSchedule, Catching, CatchUpSparesIdle

(* Jobs are kept by revision or made of a listed row.                      *)
LEMMA JobsRegistered ==
    ASSUME IInv, jobs' = Registered, UNCHANGED row
    PROVE  /\ DOMAIN jobs' \subseteq Triggers
           /\ \A t \in DOMAIN jobs' : jobs'[t] \in Jobs
           /\ RevisionNamesSchedule'
  <1>0. /\ DOMAIN listed \subseteq Triggers /\ DOMAIN jobs' = DOMAIN listed
        /\ \A t \in DOMAIN listed : listed[t] \in Rows
      BY DEF IInv, TypeOK, Registered
  <1>1. ASSUME NEW t \in DOMAIN listed
        PROVE  /\ jobs'[t] \in Jobs
               /\ row[t] # NoRow /\ jobs'[t].revision <= row[t].revision
               /\ jobs'[t].revision = row[t].revision => jobs'[t].sched = row[t].sched
    <2>1. CASE t \in DOMAIN jobs /\ jobs[t].revision = listed[t].revision
      <3>1. jobs'[t] = jobs[t]
          BY <2>1 DEF Registered
      <3> QED BY <2>1, <3>1 DEF IInv, TypeOK, RevisionNamesSchedule
    <2>2. CASE ~(t \in DOMAIN jobs /\ jobs[t].revision = listed[t].revision)
      <3>1. jobs'[t] = NewJob(listed[t])
          BY <2>2 DEF Registered
      <3>2. listed[t].sched \in Schedules /\ listed[t].revision \in Nat /\ StartTime(listed[t]) \in Nat
          BY <1>0, RowTimes DEF Rows
      <3>3. FirstAfter(listed[t].sched, StartTime(listed[t]), now) \in 1..Never
          BY <3>2, NextInRange
      <3>4. /\ jobs'[t] \in Jobs /\ jobs'[t].revision = listed[t].revision
            /\ jobs'[t].sched = listed[t].sched
          BY <3>1, <3>2, <3>3 DEF NewJob, Jobs
      <3> QED BY <3>4 DEF IInv, ListIsOlder
    <2> QED BY <2>1, <2>2
  <1> QED BY <1>0, <1>1 DEF RevisionNamesSchedule

LEMMA UpdateSchedulesKeeps ==
    ASSUME IInv, BootUpdate \/ SyncUpdate
    PROVE  IInv'
  <1> USE DEF BootUpdate, SyncUpdate, UpdateSchedules, rowVars, catchVars, boundVars
  <1>1. /\ DOMAIN jobs' \subseteq Triggers
        /\ \A t \in DOMAIN jobs' : jobs'[t] \in Jobs
        /\ RevisionNamesSchedule'
      BY JobsRegistered
  <1>2. listed' = listed \/ listed' = Empty
      OBVIOUS
  <1>3. TypeOK'
      BY <1>1, <1>2 DEF IInv, TypeOK, Empty
  <1>4. ListIsOlder'
      BY <1>2 DEF IInv, ListIsOlder, Empty
  <1> QED BY <1>1, <1>3, <1>4 DEF IInv, RunsAreNamed, RunName, RowsAreCurrent,
             Catching, CatchUpSparesIdle

LEMMA StartCatchUpKeeps ==
    ASSUME IInv, StartCatchUp
    PROVE  IInv'
  <1> USE DEF StartCatchUp, rowVars, syncVars, boundVars
  <1>1. \A e \in todo' :
            /\ e \in Executions /\ e.slot <= now /\ e.trigger \in DOMAIN listed
            /\ e.slot > listed[e.trigger].updatedAt
      BY MissedHaveCome DEF IInv
  <1>2. TypeOK'
      BY <1>1 DEF IInv, TypeOK
  <1>3. CatchUpSparesIdle'
    <2> SUFFICES ASSUME NEW e \in todo', e \in idle, ~(e.slot > listedAt)
                 PROVE  FALSE
        BY DEF CatchUpSparesIdle
    <2>1. /\ e.slot \in Nat /\ listedAt \in Nat /\ e.trigger \in DOMAIN listed
          /\ listed[e.trigger].updatedAt \in Nat
        BY <1>1, ScheduleAssumption DEF IInv, TypeOK, Executions, Rows
    <2>2. e.slot <= listedAt
        BY <2>1
    <2>3. e.slot <= listed[e.trigger].updatedAt
        BY <2>1, <2>2 DEF IInv, ListIsOlder
    <2> QED BY <1>1, <2>1, <2>3
  <1> QED BY <1>2, <1>3 DEF IInv, RunsAreNamed, RunName, RowsAreCurrent,
             ListIsOlder, RevisionNamesSchedule, Catching

LEMMA EndCatchUpKeeps ==
    ASSUME IInv, EndCatchUp
    PROVE  IInv'
  <1> USE DEF EndCatchUp, rowVars, boundVars
  <1>1. TypeOK'
      BY DEF IInv, TypeOK, Empty
  <1>2. ListIsOlder'
      BY DEF IInv, ListIsOlder, Empty
  <1> QED BY <1>1, <1>2 DEF IInv, RunsAreNamed, RunName, RowsAreCurrent,
             RevisionNamesSchedule, Catching, CatchUpSparesIdle

LEMMA CrashKeeps ==
    ASSUME IInv, Crash
    PROVE  IInv'
  <1> USE DEF Crash, rowVars
  <1>1. Interrupted \subseteq Executions
      BY MissedHaveCome DEF Interrupted, IInv, TypeOK
  <1>2. TypeOK'
      BY <1>1 DEF IInv, TypeOK, Empty
  <1>3. ListIsOlder' /\ RevisionNamesSchedule'
      BY DEF IInv, ListIsOlder, RevisionNamesSchedule, Empty
  <1> QED BY <1>2, <1>3 DEF IInv, RunsAreNamed, RunName, RowsAreCurrent,
             Catching, CatchUpSparesIdle

LEMMA TickKeeps ==
    ASSUME IInv, Tick
    PROVE  IInv'
  <1> USE DEF Tick, rowVars, syncVars, catchVars, boundVars
  <1>0. /\ now \in 0..MaxTime /\ now' = now + 1 /\ now' \in 0..MaxTime
        /\ now + 1 \in 1..Never /\ listedAt \in 0..now /\ MaxTime \in Nat
      BY ScheduleAssumption DEF IInv, TypeOK, Never
  <1>1. \A e \in idle' : e \in idle \/ (e \in Executions /\ e.slot = now + 1 /\ e.trigger \notin Present)
      BY <1>0 DEF Executions
  <1>2. /\ inflight' \subseteq Executions
        /\ \A e \in inflight' : e \in inflight \/ e.slot = now + 1
      BY <1>0 DEF Fire, Executions, IInv, TypeOK
  <1>3. /\ DOMAIN jobs' = DOMAIN jobs /\ DOMAIN jobs \subseteq Triggers
        /\ \A t \in DOMAIN jobs : /\ jobs'[t] \in Jobs
                                  /\ jobs'[t].revision = jobs[t].revision
                                  /\ jobs'[t].sched = jobs[t].sched
    <2>1. DOMAIN jobs' = DOMAIN jobs /\ DOMAIN jobs \subseteq Triggers
        BY DEF Fire, IInv, TypeOK
    <2>2. ASSUME NEW t \in DOMAIN jobs
          PROVE  /\ jobs'[t] \in Jobs /\ jobs'[t].revision = jobs[t].revision
                 /\ jobs'[t].sched = jobs[t].sched
      <3>1. jobs[t] \in Jobs
          BY DEF IInv, TypeOK
      <3>2. FirstAfter(jobs[t].sched, now + 1, now + 1) \in 1..Never
          BY <1>0, <3>1, NextInRange DEF Jobs
      <3>3. \/ jobs'[t] = jobs[t]
            \/ jobs'[t] = [jobs[t] EXCEPT !.next = FirstAfter(jobs[t].sched, now + 1, now + 1)]
          BY DEF Fire
      <3> QED BY <3>1, <3>2, <3>3 DEF Jobs
    <2> QED BY <2>1, <2>2
  <1>4. TypeOK'
    <2>1. \A e \in inflight' \cup todo' : e.slot <= now'
      <3>1. \A e \in inflight \cup todo : e.slot \in Nat /\ e.slot <= now
          BY ScheduleAssumption DEF IInv, TypeOK, Executions, Never
      <3> QED BY <1>0, <1>2, <3>1
    <2>2. idle' \subseteq Executions /\ \A e \in idle' : e.slot <= now'
      <3>1. \A e \in idle : e \in Executions /\ e.slot \in Nat /\ e.slot <= now
          BY ScheduleAssumption DEF IInv, TypeOK, Executions, Never
      <3> QED BY <1>0, <1>1, <3>1
    <2>3. \A r \in runs' : r.trigger \in Triggers /\ r.slot \in 1..now'
        BY <1>0 DEF IInv, TypeOK
    <2>4. listedAt' \in 0..now'
        BY <1>0
    <2> QED BY <1>0, <1>2, <1>3, <2>1, <2>2, <2>3, <2>4 DEF IInv, TypeOK
  <1>5. RowsAreCurrent'
    <2> SUFFICES ASSUME NEW t \in Triggers, row[t] # NoRow
                 PROVE  /\ row[t].updatedAt <= now'
                        /\ row[t].active => row[t].state = "live"
                        /\ row[t].active => \A e \in idle' : e.trigger = t => e.slot <= row[t].updatedAt
        BY DEF RowsAreCurrent
    <2>1. /\ row[t].updatedAt <= now /\ row[t].updatedAt \in Nat
          /\ row[t].active => row[t].state = "live"
          /\ row[t].active => \A e \in idle : e.trigger = t => e.slot <= row[t].updatedAt
        BY ScheduleAssumption DEF IInv, RowsAreCurrent, TypeOK, Rows
    <2>2. row[t].active => t \in Present
        BY <2>1 DEF Present, Active, Live
    <2> QED BY <1>0, <1>1, <2>1, <2>2
  <1>6. ListIsOlder'
    <2>1. \A e \in idle' : e.slot <= listedAt => e \in idle
        BY <1>0, <1>1
    <2> QED BY <2>1 DEF IInv, ListIsOlder
  <1>7. RevisionNamesSchedule'
      BY <1>3 DEF IInv, RevisionNamesSchedule
  <1>8. CatchUpSparesIdle'
      BY <1>0, <1>1 DEF IInv, CatchUpSparesIdle
  <1> QED BY <1>4, <1>5, <1>6, <1>7, <1>8 DEF IInv, RunsAreNamed, RunName, Catching

LEMMA InitEstablishes ==
    ASSUME Init
    PROVE  IInv
  <1>1. Deployed \subseteq Rows
      BY ScheduleAssumption DEF Deployed, Rows
  <1>2. \A r \in Deployed : r.updatedAt = 0 /\ r.state = "live"
      BY DEF Deployed
  <1>3. row \in [Triggers -> Rows \cup {NoRow}]
      BY <1>1 DEF Init
  <1>4. TypeOK
      BY <1>3, ScheduleAssumption DEF Init, TypeOK, Empty
  <1>5. RowsAreCurrent
    <2>1. \A t \in Triggers : row[t] # NoRow => row[t] \in Deployed
        BY DEF Init
    <2> QED BY <1>2, <2>1 DEF Init, RowsAreCurrent
  <1> QED BY <1>4, <1>5 DEF Init, IInv, RunsAreNamed, ListIsOlder, Empty,
             RevisionNamesSchedule, Catching, CatchUpSparesIdle

LEMMA StepKeeps ==
    ASSUME IInv, [Next]_vars
    PROVE  IInv'
  <1>1. CASE Users
      BY <1>1, DeployKeeps, UpdateKeeps, DeleteKeeps DEF Users
  <1>2. CASE Worker
      BY <1>2, ListKeeps, UpdateSchedulesKeeps, StartCatchUpKeeps, EndCatchUpKeeps DEF Worker
  <1>3. CASE \E e \in todo : CatchUp(e)
      BY <1>3, CatchUpKeeps
  <1>4. CASE \E e \in inflight : Answer(e)
      BY <1>4, AnswerKeeps
  <1>5. CASE Crash
      BY <1>5, CrashKeeps
  <1>6. CASE Tick
      BY <1>6, TickKeeps
  <1>7. CASE UNCHANGED vars
      BY <1>7 DEF vars, IInv, TypeOK, RunsAreNamed, RunName, RowsAreCurrent, ListIsOlder,
             RevisionNamesSchedule, Catching, CatchUpSparesIdle
  <1> QED BY <1>1, <1>2, <1>3, <1>4, <1>5, <1>6, <1>7 DEF Next

(***************************************************************************)
(* Theorems.                                                               *)
(***************************************************************************)

(* The inductive invariant holds in every reachable state. *)
THEOREM Inductive == Spec => []IInv
  <1>1. Init => IInv
      BY InitEstablishes
  <1>2. IInv /\ [Next]_vars => IInv'
      BY StepKeeps
  <1> QED BY <1>1, <1>2, PTL DEF Spec

(* The state of the scheduler keeps its type for any triggers, schedules,  *)
(* cap and number of edits, crashes and failing calls.                     *)
THEOREM SchedulerTyped == Spec => []TypeOK
  <1>1. IInv => TypeOK
      BY DEF IInv
  <1> QED BY <1>1, Inductive, PTL

(* A slot of a trigger never has two runs (trigger_executor.go:51).        *)
THEOREM OneRunPerSlot == Spec => []SlotRunsOnce
  <1>1. IInv => SlotRunsOnce
      BY DEF IInv, RunsAreNamed, SlotRunsOnce
  <1> QED BY <1>1, Inductive, PTL

(* No restart catches up a slot at which its trigger was not active        *)
(* (schedule_time.go:97).                                                  *)
THEOREM IdleSlotsAreSpared == Spec => []CatchUpSparesIdle
  <1>1. IInv => CatchUpSparesIdle
      BY DEF IInv
  <1> QED BY <1>1, Inductive, PTL

(* A job whose revision is its row's runs on the row's schedule, so that   *)
(* UpdateSchedules may keep it (scheduler.go:73).                          *)
THEOREM KeptJobsAreCurrent == Spec => []RevisionNamesSchedule
  <1>1. IInv => RevisionNamesSchedule
      BY DEF IInv
  <1> QED BY <1>1, Inductive, PTL

=============================================================================
