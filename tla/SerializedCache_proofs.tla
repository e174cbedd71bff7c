------------------------ MODULE SerializedCache_proofs ------------------------
(***************************************************************************)
(* That the reservation of the cache service keeps actions from computing  *)
(* one result at a time, for any number of them.                           *)
(***************************************************************************)
EXTENDS SerializedCache, TLAPS

(* What the owner may lose of its lease to u missed heartbeats.            *)
Budget(u) == u * RequeueDuration

LEMMA LeaseNat == Lease \in Nat \ {0}
  <1>1. Heartbeat \in Nat \ {0}
      BY CacheAssumption DEF Heartbeat
  <1>2. \A m, n \in Nat \ {0} : m * n \in Nat \ {0}
      OBVIOUS
  <1> QED BY <1>1, <1>2, CacheAssumption DEF Lease

LEMMA BudgetSuffices ==
    ASSUME Timely, NEW u \in 0..MaxUpsets
    PROVE  /\ Budget(u) \in Nat
           /\ RequeueDuration + Budget(u) < Lease
           /\ u > 0 => Budget(u) = Budget(u - 1) + RequeueDuration
  <1>1. \A m, n, r \in Nat : m <= n => m * r <= n * r /\ m * r \in Nat
      OBVIOUS
  <1>2. \A n, r \in Nat : n > 0 => n * r = (n - 1) * r + r
      OBVIOUS
  <1>3. u \in Nat /\ u <= MaxUpsets /\ MaxUpsets \in Nat /\ RequeueDuration \in Nat
      BY CacheAssumption
  <1>4. Budget(u) \in Nat /\ MaxUpsets * RequeueDuration \in Nat
        /\ Budget(u) <= MaxUpsets * RequeueDuration
      BY <1>1, <1>3 DEF Budget
  <1>5. RequeueDuration + MaxUpsets * RequeueDuration < Lease
      BY DEF Timely
  <1>6. \A b, m \in Nat : b <= m /\ RequeueDuration + m < Lease => RequeueDuration + b < Lease
      BY <1>3, LeaseNat
  <1>7. RequeueDuration + Budget(u) < Lease
      BY <1>4, <1>5, <1>6
  <1>8. u > 0 => Budget(u) = Budget(u - 1) + RequeueDuration
      BY <1>2, <1>3 DEF Budget
  <1> QED BY <1>4, <1>7, <1>8

-----------------------------------------------------------------------------
(* Types                                                                   *)

ControlType ==
    /\ status \in [Actions -> StatusType] /\ out \in [Actions -> StatusType]
    /\ deleting \subseteq Actions /\ queued \subseteq Actions
    /\ pc \in [Actions -> Steps]
    /\ due \in [Actions -> Ticks]

LEMMA ControlMoves ==
    ASSUME ControlType, NEW a \in Actions
    PROVE  /\ \A step \in Steps : Goto(a, step) => ControlType'
           /\ \A step \in Steps, s \in StatusType : Conclude(a, step, s) => ControlType'
           /\ \A s \in StatusType, again \in BOOLEAN : End(a, s, again) => ControlType'
           /\ RequeueAfter(a) => ControlType'
  <1>1. ASSUME NEW step \in Steps, Goto(a, step) PROVE ControlType'
      BY <1>1 DEF Goto, ControlType
  <1>2. ASSUME NEW step \in Steps, NEW s \in StatusType, Conclude(a, step, s) PROVE ControlType'
      BY <1>2 DEF Conclude, ControlType
  <1>3. ASSUME NEW s \in StatusType, NEW again \in BOOLEAN, End(a, s, again) PROVE ControlType'
    <2>1. RequeueDuration \in Ticks
        BY CacheAssumption DEF Ticks
    <2>2. "idle" \in Steps
        BY DEF Steps
    <2>3. queued' \subseteq Actions
        BY <1>3 DEF End, ControlType
    <2>4. UNCHANGED deleting /\ status' = [status EXCEPT ![a] = s] /\ out' = [out EXCEPT ![a] = s]
          /\ pc' = [pc EXCEPT ![a] = "idle"] /\ due' = [due EXCEPT ![a] = RequeueDuration]
        BY <1>3 DEF End
    <2> QED BY <2>1, <2>2, <2>3, <2>4 DEF ControlType
  <1>4. RequeueAfter(a) => ControlType'
      BY <1>3 DEF RequeueAfter, ControlType
  <1> QED BY <1>1, <1>2, <1>3, <1>4

LEMMA UpsetsTyped ==
    ASSUME NEW kind, upsets \in 0..MaxUpsets, Upset(kind) \/ NoUpset
    PROVE  upsets' \in 0..MaxUpsets
  <1> QED BY CacheAssumption DEF Upset, NoUpset

Entries == [by : Actions \cup {NoAction}, old : BOOLEAN]

LEMMA EntryTyped ==
    /\ NoEntry \in Entries
    /\ \A a \in Actions : [by |-> a, old |-> FALSE] \in Entries
    /\ \A e \in Entries : [e EXCEPT !.old = TRUE] \in Entries
  <1>1. NoEntry \in Entries
      BY DEF NoEntry, Entries
  <1>2. \A a \in Actions : [by |-> a, old |-> FALSE] \in Entries
      BY DEF Entries
  <1>3. \A e \in Entries : [e EXCEPT !.old = TRUE] \in Entries
      BY DEF Entries
  <1> QED BY <1>1, <1>2, <1>3

(* A claim, a release and a wait keep the reservation's type.              *)
LEMMA LeaseTyped ==
    /\ NoLease \in [owner : Actions \cup {NoAction}, left : 0..Lease]
    /\ \A a \in Actions : Claimed(a) \in [owner : Actions \cup {NoAction}, left : 0..Lease]
  <1> QED BY LeaseNat DEF NoLease, Claimed

LEMMA StatusMoves ==
    ASSUME NEW s \in StatusType
    PROVE  /\ \A p \in {"queued", "running", "succeeded", "failed", "gone"} :
                /\ [s EXCEPT !.phase = p] \in StatusType
                /\ [s EXCEPT !.phase = p, !.ran = TRUE, !.report = "none"] \in StatusType
                /\ \A b \in BOOLEAN : [s EXCEPT !.phase = p, !.started = b] \in StatusType
                /\ \A b \in BOOLEAN :
                     [s EXCEPT !.phase = p, !.started = b, !.report = "none"] \in StatusType
                /\ \A r \in {"none", "hit", "miss", "populated", "put_failure"} :
                     [s EXCEPT !.phase = p, !.report = r] \in StatusType
           /\ \A r \in {"none", "hit", "miss", "populated", "put_failure"} :
                [s EXCEPT !.report = r] \in StatusType
  <1> QED BY DEF StatusType

LEMMA InitTyped == Init => TypeOK
  <1> SUFFICES ASSUME Init PROVE TypeOK
      OBVIOUS
  <1>1. NewStatus \in StatusType
      BY DEF NewStatus, StatusType
  <1>2. RequeueDuration \in Ticks /\ MaxUpsets \in 0..MaxUpsets
      BY CacheAssumption DEF Ticks
  <1>3. entry \in [by : Actions \cup {NoAction}, old : BOOLEAN]
      BY DEF Init, NoEntry
  <1>4. lease \in [owner : Actions \cup {NoAction}, left : 0..Lease]
      BY LeaseTyped DEF Init
  <1> QED BY <1>1, <1>2, <1>3, <1>4 DEF Init, TypeOK, Steps

(* The calls of a reconcile to the cache service.                          *)
LEMMA CacheCallsTyped ==
    ASSUME TypeOK, NEW a \in Actions,
           \/ Lookup(a) \/ GetReservation(a) \/ CreateReservation(a)
           \/ UpdateIfExpiredOrOwned(a) \/ RereadReservation(a)
           \/ PutGet(a) \/ PutWrite(a) \/ ReleaseReservation(a)
    PROVE  TypeOK'
  <1>1. ControlType /\ out[a] \in StatusType
      BY DEF TypeOK, ControlType
  <1>2. AfterMiss \in Steps /\ AfterExecution \in Steps
      BY CacheAssumption DEF AfterMiss, AfterExecution, Steps
  <1>3. {"create", "update", "handle", "reread", "persist", "putWrite"} \subseteq Steps
      BY DEF Steps
  <1>4. pod' = pod
      BY DEF Lookup, GetReservation, CreateReservation, UpdateIfExpiredOrOwned,
             RereadReservation, PutGet, PutWrite, ReleaseReservation
  <1>5. CASE Lookup(a)
    <2>1. ControlType'
        BY <1>1, <1>2, <1>3, <1>5, ControlMoves, StatusMoves DEF Lookup, Persist
    <2>2. upsets' \in 0..MaxUpsets
        BY <1>5, UpsetsTyped DEF Lookup, TypeOK
    <2> QED BY <1>4, <1>5, <2>1, <2>2 DEF Lookup, tables, TypeOK, ControlType
  <1>6. CASE GetReservation(a)
    <2>1. ControlType'
        BY <1>1, <1>3, <1>6, ControlMoves DEF GetReservation
    <2>2. upsets' \in 0..MaxUpsets
        BY <1>6, UpsetsTyped DEF GetReservation, TypeOK
    <2> QED BY <1>4, <1>6, <2>1, <2>2 DEF GetReservation, tables, TypeOK, ControlType
  <1>7. CASE CreateReservation(a) \/ UpdateIfExpiredOrOwned(a)
    <2>1. ControlType'
        BY <1>1, <1>3, <1>7, ControlMoves DEF CreateReservation, UpdateIfExpiredOrOwned
    <2>2. upsets' \in 0..MaxUpsets
        BY <1>7, UpsetsTyped DEF CreateReservation, UpdateIfExpiredOrOwned, TypeOK
    <2>3. lease' \in {lease, Claimed(a)} /\ UNCHANGED entry
        BY <1>7 DEF CreateReservation, UpdateIfExpiredOrOwned
    <2> QED BY <1>4, <2>1, <2>2, <2>3, LeaseTyped DEF TypeOK, ControlType
  <1>8. CASE RereadReservation(a)
    <2>1. ControlType'
        BY <1>1, <1>3, <1>8, ControlMoves, StatusMoves DEF RereadReservation, Persist
    <2>2. upsets' \in 0..MaxUpsets
        BY <1>8, UpsetsTyped DEF RereadReservation, TypeOK
    <2> QED BY <1>4, <1>8, <2>1, <2>2 DEF RereadReservation, tables, TypeOK, ControlType
  <1>9. CASE PutGet(a) \/ PutWrite(a)
    <2>1. ControlType'
        BY <1>1, <1>2, <1>3, <1>9, ControlMoves, StatusMoves DEF PutGet, PutWrite, Reported
    <2>2. upsets' \in 0..MaxUpsets
        BY <1>9, UpsetsTyped DEF PutGet, PutWrite, TypeOK
    <2>3. entry' \in {entry, [by |-> a, old |-> FALSE]} /\ UNCHANGED lease
        BY <1>9 DEF PutGet, PutWrite, tables
    <2>4. entry \in Entries
        BY DEF TypeOK, Entries
    <2>5. entry' \in Entries
        BY <2>3, <2>4, EntryTyped
    <2> QED BY <1>4, <2>1, <2>2, <2>3, <2>5 DEF TypeOK, ControlType, Entries
  <1>10. CASE ReleaseReservation(a)
    <2>1. ControlType'
        BY <1>1, <1>3, <1>10, ControlMoves DEF ReleaseReservation
    <2>2. upsets' \in 0..MaxUpsets
        BY <1>10, UpsetsTyped DEF ReleaseReservation, TypeOK
    <2>3. lease' \in {lease, NoLease} /\ UNCHANGED entry
        BY <1>10 DEF ReleaseReservation
    <2> QED BY <1>4, <2>1, <2>2, <2>3, LeaseTyped DEF TypeOK, ControlType
  <1> QED BY <1>5, <1>6, <1>7, <1>8, <1>9, <1>10

(* The other calls of a reconcile, and its end.                            *)
LEMMA ExecutionTyped ==
    ASSUME TypeOK, NEW a \in Actions,
           \/ LaunchPod(a) \/ ObservePod(a) \/ RetryTask(a) \/ PodGone(a)
           \/ PersistStatus(a) \/ AbortAndFinalize(a)
    PROVE  TypeOK'
  <1>1. ControlType /\ out[a] \in StatusType /\ status[a] \in StatusType
      BY DEF TypeOK, ControlType
  <1>2. AfterExecution \in Steps /\ {"handle", "persist", "putGet"} \subseteq Steps
      BY CacheAssumption DEF AfterExecution, Steps
  <1>3. UNCHANGED tables
      BY DEF LaunchPod, ObservePod, RetryTask, PodGone, PersistStatus, AbortAndFinalize
  <1>4. pod' \in [Actions -> {"none", "pending", "running", "succeeded", "failed"}]
    <2>1. pod' \in {pod, [pod EXCEPT ![a] = "none"], [pod EXCEPT ![a] = "pending"]}
      <3>1. CASE LaunchPod(a)
          BY <3>1 DEF LaunchPod, TypeOK
      <3>2. CASE ~LaunchPod(a)
          BY <3>2 DEF ObservePod, RetryTask, PodGone, PersistStatus, AbortAndFinalize
      <3> QED BY <3>1, <3>2
    <2> QED BY <2>1 DEF TypeOK
  <1>5. upsets' \in 0..MaxUpsets
      BY UpsetsTyped DEF LaunchPod, ObservePod, RetryTask, PodGone, PersistStatus,
         AbortAndFinalize, TypeOK
  <1>6. out[a].phase \in {"queued", "running", "succeeded", "failed", "gone"}
      BY <1>1 DEF StatusType
  <1>7. ControlType'
    <2>1. SystemError(a) => ControlType'
        BY <1>1, <1>2, ControlMoves, StatusMoves DEF SystemError, Persist
    <2>2. CASE LaunchPod(a)
        BY <1>1, <1>2, <2>1, <2>2, ControlMoves, StatusMoves DEF LaunchPod, Persist
    <2>3. CASE ObservePod(a)
        BY <1>1, <1>2, <2>1, <2>3, ControlMoves, StatusMoves DEF ObservePod, Persist
    <2>4. CASE RetryTask(a)
        BY <1>1, <1>2, <2>4, ControlMoves, StatusMoves DEF RetryTask
    <2>5. CASE PodGone(a)
        BY <1>1, <1>2, <1>6, <2>5, ControlMoves, StatusMoves DEF PodGone
    <2>6. CASE PersistStatus(a)
        BY <1>1, <2>6, ControlMoves DEF PersistStatus
    <2>7. CASE AbortAndFinalize(a)
        BY <1>1, <1>2, <2>7, ControlMoves, StatusMoves DEF AbortAndFinalize
    <2> QED BY <2>2, <2>3, <2>4, <2>5, <2>6, <2>7
  <1> QED BY <1>3, <1>4, <1>5, <1>7 DEF tables, TypeOK, ControlType

(* The start of a reconcile.                                               *)
LEMMA StartTyped ==
    ASSUME TypeOK, NEW a \in Actions, Reconcile(a) \/ ReconcileFails(a) \/ ExpireTask(a)
    PROVE  TypeOK'
  <1>1. UNCHANGED <<entry, lease, status, deleting>> /\ queued' = queued \ {a}
      BY DEF Reconcile, ReconcileFails, ExpireTask, tables, actionVars
  <1>2. upsets' \in 0..MaxUpsets
      BY UpsetsTyped DEF Reconcile, ReconcileFails, ExpireTask, NoUpset, TypeOK
  <1>3. pod' \in [Actions -> {"none", "pending", "running", "succeeded", "failed"}]
      BY DEF Reconcile, ReconcileFails, ExpireTask, actionVars, TypeOK
  <1>4. pc' \in [Actions -> Steps]
    <2>1. FirstStep(a) \in Steps /\ "persist" \in Steps
        BY DEF FirstStep, AfterMiss, Steps
    <2> QED BY <2>1 DEF Reconcile, ReconcileFails, ExpireTask, TypeOK
  <1>5. out' \in [Actions -> StatusType]
    <2>1. CASE ExpireTask(a)
      <3>1. out' = [out EXCEPT ![a] = [out[a] EXCEPT !.phase = "failed", !.started = FALSE,
                                                     !.report = "none"]]
          BY <2>1 DEF ExpireTask, TypeOK
      <3> QED BY <3>1, StatusMoves DEF TypeOK
    <2> QED BY <2>1 DEF Reconcile, ReconcileFails, TypeOK
  <1>6. due' \in [Actions -> Ticks]
    <2>1. RequeueDuration \in Ticks
        BY CacheAssumption DEF Ticks
    <2> QED BY <2>1 DEF Reconcile, ReconcileFails, ExpireTask, TypeOK
  <1> QED BY <1>1, <1>2, <1>3, <1>4, <1>5, <1>6 DEF TypeOK

LEMMA SurroundingsTyped ==
    ASSUME TypeOK,
           \/ Crash \/ DeleteEntry \/ EntryAges \/ Tick
           \/ \E a \in Actions : PodMoves(a) \/ LosePod(a) \/ Delete(a)
    PROVE  TypeOK'
  <1>1. CASE Crash
    <2>1. Downtime \in Ticks /\ "idle" \in Steps
        BY CacheAssumption DEF Ticks, Steps
    <2>2. upsets' \in 0..MaxUpsets
        BY <1>1, UpsetsTyped DEF Crash, TypeOK
    <2> QED BY <1>1, <2>1, <2>2 DEF Crash, tables, actionVars, TypeOK
  <1>2. CASE DeleteEntry \/ EntryAges
    <2>1. upsets' \in 0..MaxUpsets
        BY <1>2, UpsetsTyped DEF DeleteEntry, EntryAges, TypeOK
    <2>2. entry \in Entries
        BY DEF TypeOK, Entries
    <2>3. entry' \in Entries
        BY <1>2, <2>2, EntryTyped DEF DeleteEntry, EntryAges
    <2> QED BY <1>2, <2>1, <2>3 DEF DeleteEntry, EntryAges, actionVars, TypeOK, Entries
  <1>3. CASE Tick
    <2>1. \A n \in Nat : \A m \in 0..n : Before(m) \in 0..n
        BY DEF Before
    <2>2. lease' \in [owner : Actions \cup {NoAction}, left : 0..Lease]
        BY <1>3, <2>1, LeaseNat DEF Tick, TypeOK
    <2>3. due' \in [Actions -> Ticks]
        BY <1>3, <2>1, CacheAssumption DEF Tick, TypeOK, Ticks
    <2> QED BY <1>3, <2>2, <2>3 DEF Tick, actionVars, TypeOK
  <1>4. ASSUME NEW a \in Actions, PodMoves(a) \/ LosePod(a) \/ Delete(a) PROVE TypeOK'
    <2>1. upsets' \in 0..MaxUpsets
        BY <1>4, UpsetsTyped DEF PodMoves, LosePod, Delete, NoUpset, TypeOK
    <2>2. pod' \in [Actions -> {"none", "pending", "running", "succeeded", "failed"}]
        BY <1>4 DEF PodMoves, LosePod, Delete, TypeOK
    <2> QED BY <1>4, <2>1, <2>2 DEF PodMoves, LosePod, Delete, tables, TypeOK
  <1> QED BY <1>1, <1>2, <1>3, <1>4

LEMMA StepTyped == TypeOK /\ [Next]_vars => TypeOK'
  <1>1. TypeOK /\ UNCHANGED vars => TypeOK'
      BY DEF vars, TypeOK
  <1>2. TypeOK /\ Next => TypeOK'
      BY CacheCallsTyped, ExecutionTyped, StartTyped, SurroundingsTyped DEF Next, reconcile
  <1> QED BY <1>1, <1>2

(* Every variable keeps its type, and the lease and the budget their       *)
(* bounds, whatever the constants.                                         *)
THEOREM CacheTyped == Spec => []TypeOK
  <1> QED BY InitTyped, StepTyped, PTL DEF Spec

-----------------------------------------------------------------------------
(* The reservation                                                         *)

PodRuns(c) == pod[c] \in {"pending", "running"}

(* An action is reconciled before long.                                    *)
Fits(c) == due[c] <= RequeueDuration

(* The lease of an action that executes outlasts its next reconcile, and   *)
(* that many more as may be missed.                                        *)
Covered(c) == Executes(c) => lease.owner = c /\ lease.left > due[c] + Budget(upsets)

(* A reconcile that leads to an execution has just claimed the lease.      *)
Fresh(c) ==
    pc[c] = "handle" \/ (pc[c] = "persist" /\ PodRuns(c) /\ out[c].phase \in {"queued", "running"})
        => lease = Claimed(c)

(* A lease that was found missing or another's is not the action's own,    *)
(* which nobody else claims for it; so the action does not execute.        *)
Unclaimed(c) == pc[c] \in {"create", "reread"} => lease.owner # c

(* The lease is given up only after the pod.                               *)
Stopped(c) == pc[c] \in {"putGet", "putWrite", "release"} => ~PodRuns(c)

(* A finished action is reconciled only to be removed.                     *)
Ended(c) ==
    Finished(c) => \/ pc[c] \in {"idle", "abort"}
                   \/ pc[c] \in {"release", "persist"} /\ out[c].phase = "gone"

Good(c) == Fits(c) /\ Covered(c) /\ Fresh(c) /\ Unclaimed(c) /\ Stopped(c) /\ Ended(c)

IInv == TypeOK /\ \A c \in Actions : Good(c)

Same(c) ==
    /\ pc'[c] = pc[c] /\ out'[c] = out[c] /\ status'[c] = status[c]
    /\ pod'[c] = pod[c] /\ due'[c] = due[c]

LEMMA InitGood ==
    ASSUME Timely, Init
    PROVE  \A c \in Actions : Good(c)
  <1> SUFFICES ASSUME NEW c \in Actions PROVE Good(c)
      OBVIOUS
  <1>1. pc[c] = "idle" /\ pod[c] = "none" /\ due[c] = RequeueDuration
      BY DEF Init
  <1>2. RequeueDuration <= RequeueDuration
      BY CacheAssumption
  <1> QED BY <1>1, <1>2 DEF Good, Fits, Covered, Fresh, Unclaimed, Stopped, Ended, Executes, PodRuns

(* What an upset costs is in the budget.                                   *)
LEMMA BudgetShrinks ==
    ASSUME Timely, TypeOK, upsets' \in {upsets, upsets - 1}, upsets' \in 0..MaxUpsets
    PROVE  /\ Budget(upsets) \in Nat /\ Budget(upsets') \in Nat
           /\ RequeueDuration + Budget(upsets') < Lease
           /\ Budget(upsets') <= Budget(upsets)
           /\ upsets' = upsets - 1 => Budget(upsets') + RequeueDuration = Budget(upsets)
  <1>1. upsets \in 0..MaxUpsets
      BY DEF TypeOK
  <1>2. upsets' = upsets - 1 => upsets > 0
      BY <1>1, CacheAssumption
  <1>3. /\ Budget(upsets) \in Nat /\ Budget(upsets') \in Nat
        /\ RequeueDuration + Budget(upsets') < Lease
        /\ upsets > 0 => Budget(upsets) = Budget(upsets - 1) + RequeueDuration
      BY <1>1, BudgetSuffices
  <1> QED BY <1>2, <1>3, CacheAssumption

(* The step of one action disturbs no other.                               *)
LEMMA OthersStayGood ==
    ASSUME Timely, TypeOK, TypeOK', NEW c \in Actions, Good(c), Same(c),
           upsets' \in {upsets, upsets - 1},
           \/ lease' = lease
           \/ lease'.owner # c /\ (lease.owner # c \/ lease.left = 0)
    PROVE  Good(c)'
  <1>1. /\ Budget(upsets) \in Nat /\ Budget(upsets') \in Nat
        /\ Budget(upsets') <= Budget(upsets)
      BY BudgetShrinks DEF TypeOK
  <1>2. /\ Executes(c)' = Executes(c) /\ Finished(c)' = Finished(c) /\ PodRuns(c)' = PodRuns(c)
        /\ due'[c] = due[c] /\ due[c] \in Nat
      BY CacheAssumption DEF Same, Executes, Finished, PodRuns, TypeOK, Ticks
  <1>3. Covered(c)'
    <2>1. Executes(c) => lease.left > due[c] + Budget(upsets) /\ lease.owner = c
        BY DEF Good, Covered
    <2>2. lease.left \in Nat
        BY LeaseNat DEF TypeOK
    <2>3. Executes(c) => lease' = lease
        BY <1>1, <1>2, <2>1, <2>2
    <2> QED BY <1>1, <1>2, <2>1, <2>2, <2>3 DEF Covered
  <1>4. Fresh(c)'
    <2>1. Claimed(c).owner = c /\ Claimed(c).left # 0 /\ Claimed(c)' = Claimed(c)
        BY LeaseNat DEF Claimed
    <2> QED BY <1>2, <2>1 DEF Good, Fresh, Same
  <1>5. Fits(c)' /\ Unclaimed(c)' /\ Stopped(c)' /\ Ended(c)'
      BY <1>2 DEF Good, Same, Fits, Unclaimed, Stopped, Ended
  <1> QED BY <1>3, <1>4, <1>5 DEF Good

(* A reconcile that goes on keeps the action covered.                      *)
LEMMA GoesOn ==
    ASSUME Timely, TypeOK, TypeOK', NEW a \in Actions, Good(a), ~Finished(a),
           status'[a] = status[a], due'[a] = due[a], upsets' \in {upsets, upsets - 1},
           Executes(a)' => lease' = Claimed(a) \/ (lease' = lease /\ Executes(a))
    PROVE  Fits(a)' /\ Covered(a)' /\ Ended(a)'
  <1>1. /\ Budget(upsets) \in Nat /\ Budget(upsets') \in Nat
        /\ Budget(upsets') <= Budget(upsets) /\ RequeueDuration + Budget(upsets') < Lease
      BY BudgetShrinks DEF TypeOK
  <1>2. due[a] \in Nat /\ due[a] <= RequeueDuration
      BY CacheAssumption DEF TypeOK, Ticks, Good, Fits
  <1>3. Covered(a)'
    <2>1. CASE lease' = Claimed(a)
      <3>1. lease'.owner = a /\ lease'.left = Lease
          BY <2>1 DEF Claimed
      <3> QED BY <1>1, <1>2, <3>1, LeaseNat, CacheAssumption DEF Covered
    <2>2. CASE lease' = lease /\ Executes(a)
      <3>1. lease.owner = a /\ lease.left > due[a] + Budget(upsets)
          BY <2>2 DEF Good, Covered
      <3>2. lease.left \in Nat
          BY LeaseNat DEF TypeOK
      <3> QED BY <1>1, <1>2, <2>2, <3>1, <3>2 DEF Covered
    <2> QED BY <2>1, <2>2 DEF Covered
  <1>4. Fits(a)' /\ Ended(a)'
      BY <1>2 DEF Fits, Ended, Finished
  <1> QED BY <1>3, <1>4

(* One that fails, having claimed the lease or not, is within the budget.  *)
LEMMA Fails ==
    ASSUME Timely, TypeOK, TypeOK', NEW a \in Actions, Good(a),
           status'[a] = status[a], due'[a] = RequeueDuration, upsets' = upsets - 1,
           pc'[a] = "idle", Executes(a)' => lease' = Claimed(a) \/ (lease' = lease /\ Executes(a))
    PROVE  Good(a)'
  <1>1. /\ Budget(upsets) \in Nat /\ Budget(upsets') \in Nat
        /\ Budget(upsets') + RequeueDuration = Budget(upsets)
        /\ RequeueDuration + Budget(upsets') < Lease
      BY BudgetShrinks DEF TypeOK
  <1>2. due[a] \in Nat /\ RequeueDuration \in Nat
      BY CacheAssumption DEF TypeOK, Ticks
  <1>3. Covered(a)'
    <2>1. CASE lease' = Claimed(a)
      <3>1. lease'.owner = a /\ lease'.left = Lease
          BY <2>1 DEF Claimed
      <3> QED BY <1>1, <1>2, <3>1, LeaseNat DEF Covered
    <2>2. CASE lease' = lease /\ Executes(a)
      <3>1. lease.owner = a /\ lease.left > due[a] + Budget(upsets)
          BY <2>2 DEF Good, Covered
      <3>2. lease.left \in Nat
          BY LeaseNat DEF TypeOK
      <3> QED BY <1>1, <1>2, <2>2, <3>1, <3>2 DEF Covered
    <2> QED BY <2>1, <2>2 DEF Covered
  <1> QED BY <1>2, <1>3 DEF Good, Fits, Fresh, Unclaimed, Stopped, Ended

SameControl(c) == pc'[c] = pc[c] /\ out'[c] = out[c] /\ status'[c] = status[c] /\ due'[c] = due[c]

LEMMA GotoMoves ==
    ASSUME TypeOK, NEW a \in Actions, NEW step, Goto(a, step)
    PROVE  /\ pc'[a] = step /\ out'[a] = out[a] /\ status'[a] = status[a] /\ due'[a] = due[a]
           /\ \A c \in Actions \ {a} : SameControl(c)
  <1> QED BY DEF Goto, TypeOK, SameControl

LEMMA ConcludeMoves ==
    ASSUME TypeOK, NEW a \in Actions, NEW step, NEW s, Conclude(a, step, s)
    PROVE  /\ pc'[a] = step /\ out'[a] = s /\ status'[a] = status[a] /\ due'[a] = due[a]
           /\ \A c \in Actions \ {a} : SameControl(c)
  <1> QED BY DEF Conclude, TypeOK, SameControl

LEMMA EndMoves ==
    ASSUME TypeOK, NEW a \in Actions, NEW s, NEW again, End(a, s, again)
    PROVE  /\ pc'[a] = "idle" /\ out'[a] = s /\ status'[a] = s /\ due'[a] = RequeueDuration
           /\ \A c \in Actions \ {a} : SameControl(c)
  <1> QED BY DEF End, TypeOK, SameControl

LEMMA RequeueMoves ==
    ASSUME TypeOK, NEW a \in Actions, RequeueAfter(a)
    PROVE  /\ pc'[a] = "idle" /\ status'[a] = status[a] /\ due'[a] = RequeueDuration
           /\ \A c \in Actions \ {a} : SameControl(c)
  <1> QED BY EndMoves DEF RequeueAfter

LEMMA SpendsOne ==
    ASSUME TypeOK, NEW kind, Upset(kind) \/ NoUpset
    PROVE  upsets' \in {upsets, upsets - 1}
  <1> QED BY DEF Upset, NoUpset

(* The next call of a reconcile moves the lease only if it is the action's *)
(* own or nobody's.                                                        *)
LEMMA ReconcileIsAlone ==
    ASSUME TypeOK, NEW a \in Actions, reconcile(a)
    PROVE  /\ upsets' \in {upsets, upsets - 1}
           /\ \A c \in Actions \ {a} : Same(c)
           /\ \/ lease' = lease
              \/ lease' \in {NoLease, Claimed(a)} /\ (lease.owner = a \/ lease.left = 0)
  <1> DEFINE alone == \A c \in Actions \ {a} : SameControl(c)
  <1>1. /\ \A step : Goto(a, step) => alone
        /\ \A step, s : Conclude(a, step, s) => alone
        /\ \A s, again : End(a, s, again) => alone
        /\ RequeueAfter(a) => alone
      BY GotoMoves, ConcludeMoves, EndMoves, RequeueMoves
  <1> HIDE DEF alone
  <1>2. SystemError(a) => alone
      BY <1>1 DEF SystemError, Persist
  <1>3. alone
    <2>1. CASE Lookup(a) \/ GetReservation(a) \/ CreateReservation(a)
               \/ UpdateIfExpiredOrOwned(a) \/ RereadReservation(a)
        BY <1>1, <2>1 DEF Lookup, GetReservation, CreateReservation, UpdateIfExpiredOrOwned,
           RereadReservation, Persist
    <2>2. CASE LaunchPod(a) \/ ObservePod(a) \/ RetryTask(a) \/ PodGone(a)
        BY <1>1, <1>2, <2>2 DEF LaunchPod, ObservePod, RetryTask, PodGone, Persist
    <2>3. CASE PutGet(a) \/ PutWrite(a) \/ ReleaseReservation(a) \/ PersistStatus(a)
               \/ AbortAndFinalize(a)
        BY <1>1, <2>3 DEF PutGet, PutWrite, ReleaseReservation, PersistStatus, AbortAndFinalize
    <2> QED BY <2>1, <2>2, <2>3 DEF reconcile
  <1>4. upsets' \in {upsets, upsets - 1}
    <2>1. CASE Lookup(a) \/ GetReservation(a) \/ CreateReservation(a)
               \/ UpdateIfExpiredOrOwned(a) \/ RereadReservation(a)
        BY <2>1, SpendsOne DEF Lookup, GetReservation, CreateReservation,
           UpdateIfExpiredOrOwned, RereadReservation
    <2>2. CASE LaunchPod(a) \/ ObservePod(a) \/ RetryTask(a) \/ PodGone(a)
        BY <2>2, SpendsOne DEF LaunchPod, ObservePod, RetryTask, PodGone
    <2>3. CASE PutGet(a) \/ PutWrite(a) \/ ReleaseReservation(a) \/ PersistStatus(a)
               \/ AbortAndFinalize(a)
        BY <2>3, SpendsOne DEF PutGet, PutWrite, ReleaseReservation, PersistStatus,
           AbortAndFinalize
    <2> QED BY <2>1, <2>2, <2>3 DEF reconcile
  <1>5. \A c \in Actions \ {a} : pod'[c] = pod[c]
    <2>1. pod' \in {pod, [pod EXCEPT ![a] = "none"], [pod EXCEPT ![a] = "pending"]}
      <3>1. CASE LaunchPod(a)
          BY <3>1 DEF LaunchPod, TypeOK
      <3>2. CASE ~LaunchPod(a)
          BY <3>2 DEF reconcile, Lookup, GetReservation, CreateReservation,
             UpdateIfExpiredOrOwned, RereadReservation, ObservePod, RetryTask, PodGone, PutGet,
             PutWrite, ReleaseReservation, PersistStatus, AbortAndFinalize
      <3> QED BY <3>1, <3>2
    <2> QED BY <2>1 DEF TypeOK
  <1>6. \/ lease' = lease
        \/ lease' \in {NoLease, Claimed(a)} /\ (lease.owner = a \/ lease.left = 0)
    <2>1. CASE CreateReservation(a)
        BY <2>1 DEF CreateReservation, NoLease
    <2>2. CASE UpdateIfExpiredOrOwned(a)
        BY <2>2 DEF UpdateIfExpiredOrOwned, Claimable
    <2>3. CASE ReleaseReservation(a)
        BY <2>3 DEF ReleaseReservation
    <2>4. CASE Lookup(a) \/ GetReservation(a) \/ RereadReservation(a) \/ PutGet(a) \/ PutWrite(a)
        BY <2>4 DEF Lookup, GetReservation, RereadReservation, PutGet, PutWrite, tables
    <2>5. CASE LaunchPod(a) \/ ObservePod(a) \/ RetryTask(a) \/ PodGone(a) \/ PersistStatus(a)
               \/ AbortAndFinalize(a)
        BY <2>5 DEF LaunchPod, ObservePod, RetryTask, PodGone, PersistStatus, AbortAndFinalize,
           tables
    <2> QED BY <2>1, <2>2, <2>3, <2>4, <2>5 DEF reconcile
  <1> QED BY <1>3, <1>4, <1>5, <1>6 DEF alone, SameControl, Same

(* The calls before the execution.                                         *)
LEMMA ReservingKeepsGood ==
    ASSUME Timely, TypeOK, TypeOK', NEW a \in Actions, Good(a),
           upsets' \in {upsets, upsets - 1},
           \/ Lookup(a) \/ GetReservation(a) \/ CreateReservation(a)
           \/ UpdateIfExpiredOrOwned(a) \/ RereadReservation(a)
    PROVE  Good(a)'
  <1>1. pc[a] \in {"lookup", "reserve", "create", "update", "reread"} /\ pod'[a] = pod[a]
      BY DEF Lookup, GetReservation, CreateReservation, UpdateIfExpiredOrOwned, RereadReservation
  <1>2. ~Finished(a)
      BY <1>1 DEF Good, Ended
  <1>3. lease' = lease \/ lease' = Claimed(a)
      BY DEF Lookup, GetReservation, CreateReservation, UpdateIfExpiredOrOwned,
         RereadReservation, tables
  <1>4. Claimed(a)' = Claimed(a)
      BY DEF Claimed
  <1>5. status'[a] = status[a] =>
          Executes(a)' = Executes(a) /\ PodRuns(a)' = PodRuns(a) /\ ~Finished(a)'
      BY <1>1, <1>2 DEF Executes, PodRuns, Finished
  <1>6. ASSUME RequeueAfter(a), NEW kind, Upset(kind) PROVE Good(a)'
      BY <1>3, <1>5, <1>6, RequeueMoves, Fails DEF Upset
  <1>7. ASSUME Goto(a, "handle"), lease' = Claimed(a) PROVE Good(a)'
    <2>1. pc'[a] = "handle" /\ status'[a] = status[a] /\ due'[a] = due[a]
        BY <1>7, GotoMoves
    <2> QED BY <1>2, <1>4, <1>7, <2>1, GoesOn DEF Good, Fresh, Unclaimed, Stopped
  <1>8. ASSUME NEW step \in {"reserve", "create", "update", "reread"}, Goto(a, step),
               lease' = lease, step \in {"create", "reread"} => lease.owner # a
        PROVE  Good(a)'
    <2>1. pc'[a] = step /\ status'[a] = status[a] /\ due'[a] = due[a]
        BY <1>8, GotoMoves
    <2> QED BY <1>2, <1>5, <1>8, <2>1, GoesOn DEF Good, Fresh, Unclaimed, Stopped
  <1>9. CASE Lookup(a)
    <2>1. lease' = lease /\ AfterMiss = "reserve"
        BY <1>9 DEF Lookup, tables, Timely, AfterMiss
    <2>2. CASE Goto(a, AfterMiss)
        BY <1>8, <2>1, <2>2
    <2>3. CASE Upset("lookup")
        BY <2>3 DEF Upset, Timely
    <2>4. CASE Persist(a, [out[a] EXCEPT !.phase = "succeeded", !.report = "hit"])
      <3> DEFINE hit == [out[a] EXCEPT !.phase = "succeeded", !.report = "hit"]
      <3>1. hit.phase = "succeeded" /\ Conclude(a, "persist", hit)
          BY <2>4 DEF TypeOK, StatusType, Persist
      <3> HIDE DEF hit
      <3>2. /\ pc'[a] = "persist" /\ out'[a].phase = "succeeded"
            /\ status'[a] = status[a] /\ due'[a] = due[a]
          BY <3>1, ConcludeMoves
      <3> QED BY <1>2, <1>5, <2>1, <3>2, GoesOn DEF Good, Fresh, Unclaimed, Stopped
    <2> QED BY <1>9, <2>2, <2>3, <2>4 DEF Lookup
  <1>10. CASE GetReservation(a)
    <2>1. lease' = lease
        BY <1>10 DEF GetReservation, tables
    <2>2. lease = NoLease => lease.owner # a
        BY CacheAssumption DEF NoLease
    <2> QED BY <1>6, <1>8, <1>10, <2>1, <2>2 DEF GetReservation
  <1>11. CASE CreateReservation(a)
    <2>1. lease.owner # a
        BY <1>11 DEF CreateReservation, Good, Unclaimed
    <2> QED BY <1>6, <1>7, <1>8, <1>11, <2>1 DEF CreateReservation
  <1>12. CASE UpdateIfExpiredOrOwned(a)
    <2>1. ~Claimable(a) => lease.owner # a
        BY CacheAssumption DEF Claimable, NoLease
    <2> QED BY <1>6, <1>7, <1>8, <1>12, <2>1 DEF UpdateIfExpiredOrOwned
  <1>13. CASE RereadReservation(a)
    <2>1. lease' = lease /\ lease.owner # a
        BY <1>13 DEF RereadReservation, tables, Good, Unclaimed
    <2>2. ~Executes(a)
        BY <2>1 DEF Good, Covered
    <2>3. CASE RequeueAfter(a)
      <3>1. pc'[a] = "idle" /\ status'[a] = status[a] /\ due'[a] = RequeueDuration
          BY <2>3, RequeueMoves
      <3>2. RequeueDuration <= RequeueDuration
          BY CacheAssumption
      <3> QED BY <1>5, <2>2, <3>1, <3>2 DEF Good, Fits, Covered, Fresh, Unclaimed, Stopped, Ended
    <2>4. CASE Persist(a, [out[a] EXCEPT !.phase = "queued", !.report = "miss"])
      <3>1. /\ pc'[a] = "persist" /\ status'[a] = status[a] /\ due'[a] = due[a]
          BY <2>4, ConcludeMoves DEF Persist
      <3>2. ~PodRuns(a)
          BY <1>2, <2>2 DEF Executes, PodRuns
      <3> QED BY <1>2, <1>5, <2>1, <2>2, <3>1, <3>2, GoesOn DEF Good, Fresh, Unclaimed, Stopped
    <2> QED BY <1>13, <2>1, <2>3, <2>4 DEF RereadReservation
  <1> QED BY <1>9, <1>10, <1>11, <1>12, <1>13

(* The execution.                                                          *)
LEMMA ExecutionKeepsGood ==
    ASSUME Timely, TypeOK, TypeOK', NEW a \in Actions, Good(a),
           upsets' \in {upsets, upsets - 1},
           LaunchPod(a) \/ ObservePod(a) \/ RetryTask(a) \/ PodGone(a)
    PROVE  Good(a)'
  <1>1. pc[a] = "handle" /\ lease' = lease
      BY DEF LaunchPod, ObservePod, RetryTask, PodGone, tables
  <1>2. ~Finished(a) /\ lease = Claimed(a) /\ Claimed(a)' = Claimed(a)
      BY <1>1 DEF Good, Ended, Fresh, Claimed
  <1>3. AfterExecution = "release"
      BY DEF AfterExecution, Timely
  <1>4. ASSUME NEW s, Persist(a, s) PROVE Good(a)'
    <2>1. /\ pc'[a] = "persist" /\ status'[a] = status[a] /\ due'[a] = due[a]
        BY <1>4, ConcludeMoves DEF Persist
    <2> QED BY <1>1, <1>2, <2>1, GoesOn DEF Good, Fresh, Unclaimed, Stopped
  <1>5. ASSUME NEW s, NEW step \in {"release", "putGet"}, Conclude(a, step, s), ~PodRuns(a)'
        PROVE  Good(a)'
    <2>1. /\ pc'[a] = step /\ status'[a] = status[a] /\ due'[a] = due[a]
        BY <1>5, ConcludeMoves
    <2> QED BY <1>1, <1>2, <1>5, <2>1, GoesOn DEF Good, Fresh, Unclaimed, Stopped
  <1>6. ASSUME SystemError(a), NEW kind, Upset(kind) PROVE Good(a)'
    <2>1. CASE RequeueAfter(a)
        BY <1>1, <1>2, <1>6, <2>1, RequeueMoves, Fails DEF Upset
    <2> QED BY <1>4, <1>6, <2>1 DEF SystemError
  <1>7. CASE LaunchPod(a)
      BY <1>4, <1>6, <1>7 DEF LaunchPod
  <1>8. CASE ObservePod(a)
    <2>1. pod[a] \in {"succeeded", "failed"} => ~PodRuns(a)'
        BY <1>8 DEF ObservePod, PodRuns
    <2> QED BY <1>3, <1>4, <1>5, <1>6, <1>8, <2>1 DEF ObservePod
  <1>9. CASE RetryTask(a)
    <2>1. ~PodRuns(a)'
        BY <1>9 DEF RetryTask, PodRuns, TypeOK
    <2> QED BY <1>3, <1>5, <1>9, <2>1 DEF RetryTask
  <1>10. CASE PodGone(a)
    <2>1. ~PodRuns(a)'
        BY <1>10 DEF PodGone, PodRuns
    <2> QED BY <1>3, <1>5, <1>10, <2>1 DEF PodGone
  <1> QED BY <1>7, <1>8, <1>9, <1>10

(* After the execution.                                                    *)
LEMMA EndingKeepsGood ==
    ASSUME Timely, TypeOK, TypeOK', NEW a \in Actions, Good(a),
           upsets' \in {upsets, upsets - 1},
           \/ PutGet(a) \/ PutWrite(a) \/ ReleaseReservation(a)
           \/ PersistStatus(a) \/ AbortAndFinalize(a)
    PROVE  Good(a)'
  <1>1. AfterExecution = "release"
      BY DEF AfterExecution, Timely
  <1>2. CASE PutGet(a) \/ PutWrite(a)
    <2>1. /\ pc[a] \in {"putGet", "putWrite"} /\ lease' = lease /\ pod' = pod
        BY <1>2 DEF PutGet, PutWrite, tables
    <2>2. ~Finished(a) /\ ~PodRuns(a)'
        BY <2>1 DEF Good, Ended, Stopped, PodRuns
    <2>3. pc'[a] \in {"putWrite", "release"} /\ status'[a] = status[a] /\ due'[a] = due[a]
        BY <1>1, <1>2, GotoMoves, ConcludeMoves DEF PutGet, PutWrite
    <2> QED BY <2>2, <2>3, GoesOn DEF Good, Fresh, Unclaimed, Stopped, Executes, PodRuns
  <1>3. CASE ReleaseReservation(a)
    <2>1. pc[a] = "release" /\ pod' = pod
        BY <1>3 DEF ReleaseReservation
    <2>2. /\ pc'[a] = "persist" /\ out'[a] = out[a] /\ status'[a] = status[a]
          /\ due'[a] = due[a]
        BY <1>3, GotoMoves DEF ReleaseReservation
    <2>3. ~PodRuns(a)'
        BY <2>1 DEF Good, Stopped, PodRuns
    <2> QED BY <2>1, <2>2, <2>3 DEF Good, Fits, Covered, Fresh, Unclaimed, Stopped, Ended,
               Executes, PodRuns, Finished
  <1>4. CASE PersistStatus(a)
    <2>1. pc[a] = "persist" /\ lease' = lease /\ pod' = pod
        BY <1>4 DEF PersistStatus, tables
    <2>2. ASSUME NEW again, End(a, status[a], again), Upset("status") PROVE Good(a)'
      <3>1. /\ pc'[a] = "idle" /\ status'[a] = status[a] /\ due'[a] = RequeueDuration
          BY <2>2, EndMoves
      <3> QED BY <2>1, <2>2, <3>1, Fails DEF Executes, Finished, Upset
    <2>3. ASSUME NEW again, End(a, out[a], again) PROVE Good(a)'
      <3>1. /\ pc'[a] = "idle" /\ status'[a] = out[a] /\ due'[a] = RequeueDuration
          BY <2>3, EndMoves
      <3>2. Executes(a)' => PodRuns(a) /\ out[a].phase \in {"queued", "running"}
          BY <2>1, <3>1 DEF Executes, Finished, PodRuns, TypeOK, StatusType
      <3>3. Executes(a)' => lease' = Claimed(a)
          BY <2>1, <3>2 DEF Good, Fresh
      <3>4. Covered(a)'
        <4>1. /\ Budget(upsets') \in Nat /\ RequeueDuration + Budget(upsets') < Lease
            BY BudgetShrinks DEF TypeOK
        <4>2. Claimed(a).owner = a /\ Claimed(a).left = Lease
            BY DEF Claimed
        <4> QED BY <3>1, <3>3, <4>1, <4>2, LeaseNat, CacheAssumption DEF Covered
      <3>5. RequeueDuration <= RequeueDuration
          BY CacheAssumption
      <3> QED BY <3>1, <3>4, <3>5 DEF Good, Fits, Fresh, Unclaimed, Stopped, Ended
    <2> QED BY <1>4, <2>2, <2>3 DEF PersistStatus
  <1>5. CASE AbortAndFinalize(a)
    <2>1. pc[a] = "abort" /\ lease' = lease
        BY <1>5 DEF AbortAndFinalize, tables
    <2>2. CASE RequeueAfter(a) /\ pod' = pod /\ Upset("plugin")
      <3>1. /\ pc'[a] = "idle" /\ status'[a] = status[a] /\ due'[a] = RequeueDuration
          BY <2>2, RequeueMoves
      <3> QED BY <2>1, <2>2, <3>1, Fails DEF Executes, Finished, Upset
    <2>3. CASE pod' = [pod EXCEPT ![a] = "none"]
               /\ Conclude(a, "release", [out[a] EXCEPT !.phase = "gone"])
      <3> DEFINE s == [out[a] EXCEPT !.phase = "gone"]
      <3>1. s.phase = "gone" /\ Conclude(a, "release", s)
          BY <2>3 DEF TypeOK, StatusType
      <3> HIDE DEF s
      <3>2. /\ pc'[a] = "release" /\ out'[a].phase = "gone" /\ due'[a] = due[a]
          BY <3>1, ConcludeMoves
      <3>3. ~PodRuns(a)'
          BY <2>3 DEF PodRuns, TypeOK
      <3> QED BY <3>2, <3>3 DEF Good, Fits, Covered, Fresh, Unclaimed, Stopped, Ended,
                 Executes, PodRuns
    <2> QED BY <1>1, <1>5, <2>2, <2>3 DEF AbortAndFinalize
  <1> QED BY <1>2, <1>3, <1>4, <1>5

(* The start of a reconcile.                                               *)
LEMMA StartKeepsGood ==
    ASSUME Timely, TypeOK, TypeOK', NEW a \in Actions, Good(a),
           Reconcile(a) \/ ReconcileFails(a) \/ ExpireTask(a)
    PROVE  Good(a)'
  <1>1. UNCHANGED <<lease, status>>
      BY DEF Reconcile, ReconcileFails, ExpireTask, tables, actionVars
  <1>2. CASE Reconcile(a)
    <2>1. /\ UNCHANGED <<pod, out, due, upsets>> /\ pc[a] = "idle"
          /\ pc'[a] = FirstStep(a) /\ Active(a)
        BY <1>2 DEF Reconcile, actionVars, TypeOK
    <2>2. FirstStep(a) \in {"abort", "lookup", "reserve"}
        BY DEF FirstStep, AfterMiss, Timely
    <2>3. Finished(a) => FirstStep(a) = "abort"
        BY <2>1 DEF Active, FirstStep
    <2> QED BY <1>1, <2>1, <2>2, <2>3 DEF Good, Fits, Covered, Fresh, Unclaimed, Stopped, Ended,
               Executes, PodRuns, Finished
  <1>3. CASE ReconcileFails(a)
    <2>1. /\ UNCHANGED <<pod, pc>> /\ pc[a] = "idle" /\ upsets' = upsets - 1
          /\ due'[a] = RequeueDuration
        BY <1>3 DEF ReconcileFails, actionVars, Upset, TypeOK
    <2> QED BY <1>1, <2>1, Fails DEF Executes, Finished
  <1>4. CASE ExpireTask(a)
    <2>1. /\ pc'[a] = "persist" /\ pod'[a] = "none" /\ due' = due /\ ~Finished(a)
        BY <1>4 DEF ExpireTask, TypeOK
    <2>2. ~PodRuns(a)'
        BY <2>1 DEF PodRuns
    <2> QED BY <1>1, <2>1, <2>2 DEF Good, Fits, Covered, Fresh, Unclaimed, Stopped, Ended,
               Executes, PodRuns, Finished
  <1> QED BY <1>2, <1>3, <1>4

LEMMA StartIsAlone ==
    ASSUME TypeOK, NEW a \in Actions, Reconcile(a) \/ ReconcileFails(a) \/ ExpireTask(a)
    PROVE  upsets' \in {upsets, upsets - 1} /\ lease' = lease /\ \A c \in Actions \ {a} : Same(c)
  <1>1. upsets' \in {upsets, upsets - 1} /\ lease' = lease /\ status' = status
      BY DEF Reconcile, ReconcileFails, ExpireTask, Upset, tables, actionVars
  <1>2. ASSUME NEW c \in Actions \ {a}
        PROVE  pc'[c] = pc[c] /\ out'[c] = out[c] /\ pod'[c] = pod[c] /\ due'[c] = due[c]
      BY DEF Reconcile, ReconcileFails, ExpireTask, actionVars, TypeOK
  <1> QED BY <1>1, <1>2 DEF Same

(* What happens to a pod or a resource.                                    *)
LEMMA PodsKeepGood ==
    ASSUME Timely, TypeOK, TypeOK', NEW a \in Actions, PodMoves(a) \/ LosePod(a) \/ Delete(a),
           \A c \in Actions : Good(c)
    PROVE  \A c \in Actions : Good(c)'
  <1>1. UNCHANGED <<lease, status, pc, out, due>>
      BY DEF PodMoves, LosePod, Delete, tables
  <1>2. upsets' \in {upsets, upsets - 1}
      BY DEF PodMoves, LosePod, Delete, Upset
  <1>3. \A c \in Actions \ {a} : pod'[c] = pod[c]
      BY DEF PodMoves, LosePod, Delete, TypeOK
  <1>4. PodRuns(a)' => PodRuns(a)
      BY DEF PodMoves, LosePod, Delete, PodRuns, TypeOK
  <1>5. Good(a)'
    <2>1. /\ Budget(upsets) \in Nat /\ Budget(upsets') \in Nat
          /\ Budget(upsets') <= Budget(upsets)
        BY <1>2, BudgetShrinks DEF TypeOK
    <2>2. lease.left \in Nat /\ due[a] \in Nat
        BY LeaseNat, CacheAssumption DEF TypeOK, Ticks
    <2>3. Executes(a)' => Executes(a)
        BY <1>1, <1>4 DEF Executes, Finished, PodRuns
    <2>4. Covered(a)'
        BY <1>1, <2>1, <2>2, <2>3 DEF Good, Covered
    <2> QED BY <1>1, <1>4, <2>4 DEF Good, Fits, Fresh, Unclaimed, Stopped, Ended, Finished, Claimed
  <1> QED BY <1>1, <1>2, <1>3, <1>5, OthersStayGood DEF Same

(* The executor is back before the leases of its actions end.              *)
LEMMA CrashKeepsGood ==
    ASSUME Timely, TypeOK, TypeOK', Crash, \A c \in Actions : Good(c)
    PROVE  \A c \in Actions : Good(c)'
  <1> SUFFICES ASSUME NEW c \in Actions PROVE Good(c)'
      OBVIOUS
  <1>1. /\ UNCHANGED <<lease, status, pod>> /\ pc'[c] = "idle" /\ due'[c] = Downtime
        /\ upsets' = upsets - 1
      BY DEF Crash, tables, actionVars, Upset
  <1>2. Budget(upsets') \in Nat /\ Budget(upsets') + RequeueDuration = Budget(upsets)
      BY <1>1, BudgetShrinks DEF TypeOK
  <1>3. /\ lease.left \in Nat /\ due[c] \in Nat /\ Downtime \in Nat
        /\ RequeueDuration \in Nat /\ Downtime <= RequeueDuration
      BY LeaseNat, CacheAssumption DEF TypeOK, Ticks, Timely
  <1>4. Executes(c)' => Executes(c)
      BY <1>1 DEF Executes, Finished
  <1>5. Executes(c) => lease.owner = c /\ lease.left > due[c] + Budget(upsets)
      BY DEF Good, Covered
  <1>6. Covered(c)'
      BY <1>1, <1>2, <1>3, <1>4, <1>5 DEF Covered
  <1> QED BY <1>1, <1>3, <1>6 DEF Good, Fits, Fresh, Unclaimed, Stopped, Ended

(* The lease and the time to the next reconcile pass alike.                *)
LEMMA TickKeepsGood ==
    ASSUME Timely, TypeOK, TypeOK', Tick, \A c \in Actions : Good(c)
    PROVE  \A c \in Actions : Good(c)'
  <1> SUFFICES ASSUME NEW c \in Actions PROVE Good(c)'
      OBVIOUS
  <1>1. /\ UNCHANGED <<status, pod, pc, upsets>> /\ pc[c] = "idle" /\ (Active(c) => due[c] > 0)
        /\ lease'.owner = lease.owner /\ lease'.left = Before(lease.left)
        /\ due'[c] = Before(due[c])
      BY DEF Tick, actionVars, TypeOK
  <1>2. /\ lease.left \in Nat /\ due[c] \in Nat /\ RequeueDuration \in Nat
        /\ due[c] <= RequeueDuration /\ Budget(upsets) \in Nat
      BY LeaseNat, CacheAssumption, BudgetSuffices DEF TypeOK, Ticks, Good, Fits
  <1>3. Covered(c)'
    <2>1. Executes(c)' => Executes(c) /\ Active(c)
        BY <1>1 DEF Executes, Finished, Active
    <2>2. Executes(c) => lease.owner = c /\ lease.left > due[c] + Budget(upsets)
        BY DEF Good, Covered
    <2> QED BY <1>1, <1>2, <2>1, <2>2 DEF Covered, Before
  <1>4. Fits(c)'
      BY <1>1, <1>2 DEF Fits, Before
  <1> QED BY <1>1, <1>3, <1>4 DEF Good, Fresh, Unclaimed, Stopped, Ended

LEMMA StepKeepsGood ==
    ASSUME Timely
    PROVE  IInv /\ [Next]_vars => IInv'
  <1> SUFFICES ASSUME IInv, [Next]_vars PROVE IInv'
      OBVIOUS
  <1>1. TypeOK /\ TypeOK' /\ \A c \in Actions : Good(c)
      BY StepTyped DEF IInv
  <1>2. \A a \in Actions : NoLease.owner # a /\ Claimed(a).owner = a
      BY CacheAssumption DEF NoLease, Claimed
  <1>3. ASSUME NEW a \in Actions, reconcile(a) PROVE \A c \in Actions : Good(c)'
    <2>1. /\ upsets' \in {upsets, upsets - 1} /\ \A c \in Actions \ {a} : Same(c)
          /\ \/ lease' = lease
             \/ lease' \in {NoLease, Claimed(a)} /\ (lease.owner = a \/ lease.left = 0)
        BY <1>1, <1>3, ReconcileIsAlone
    <2>2. Good(a)'
        BY <1>1, <1>3, <2>1, ReservingKeepsGood, ExecutionKeepsGood, EndingKeepsGood DEF reconcile
    <2>3. ASSUME NEW c \in Actions \ {a} PROVE Good(c)'
        BY <1>1, <1>2, <2>1, <2>3, OthersStayGood
    <2> QED BY <2>2, <2>3
  <1>4. ASSUME NEW a \in Actions, Reconcile(a) \/ ReconcileFails(a) \/ ExpireTask(a)
        PROVE  \A c \in Actions : Good(c)'
    <2>1. ASSUME NEW c \in Actions \ {a} PROVE Good(c)'
        BY <1>1, <1>4, <2>1, StartIsAlone, OthersStayGood
    <2>2. Good(a)'
        BY <1>1, <1>4, StartKeepsGood
    <2> QED BY <2>1, <2>2
  <1>5. ASSUME NEW a \in Actions, PodMoves(a) \/ LosePod(a) \/ Delete(a)
        PROVE  \A c \in Actions : Good(c)'
      BY <1>1, <1>5, PodsKeepGood
  <1>6. CASE Crash
      BY <1>1, <1>6, CrashKeepsGood DEF IInv
  <1>7. CASE Tick
      BY <1>1, <1>7, TickKeepsGood DEF IInv
  <1>8. CASE DeleteEntry \/ EntryAges
    <2>1. UNCHANGED <<lease, status, pod, pc, out, due>> /\ upsets' = upsets - 1
        BY <1>8 DEF DeleteEntry, EntryAges, actionVars, Upset
    <2> QED BY <1>1, <2>1, OthersStayGood DEF IInv, Same
  <1>9. CASE UNCHANGED vars
      BY <1>1, <1>9, OthersStayGood DEF vars, IInv, Same
  <1> QED BY <1>1, <1>3, <1>4, <1>5, <1>6, <1>7, <1>8, <1>9 DEF Next, IInv

(* Only the owner of the reservation executes, for any number of actions   *)
(* and of upsets, if the grace multiplier is large enough for that many    *)
(* missed heartbeats.                                                      *)
THEOREM OneComputes ==
    ASSUME Timely
    PROVE  Spec => []OnlyOwnerExecutes
  <1>1. Init => IInv
      BY InitTyped, InitGood DEF IInv
  <1>2. IInv /\ [Next]_vars => IInv'
      BY StepKeepsGood
  <1>3. IInv => OnlyOwnerExecutes
    <2> SUFFICES ASSUME IInv, NEW a \in Actions, Executes(a)
                 PROVE  lease.owner = a /\ lease.left > 0
        BY DEF OnlyOwnerExecutes
    <2>1. lease.owner = a /\ lease.left > due[a] + Budget(upsets)
        BY DEF IInv, Good, Covered
    <2>2. due[a] \in Nat /\ lease.left \in Nat /\ Budget(upsets) \in Nat
        BY LeaseNat, CacheAssumption, BudgetSuffices DEF IInv, TypeOK, Ticks
    <2> QED BY <2>1, <2>2
  <1> QED BY <1>1, <1>2, <1>3, PTL DEF Spec
-----------------------------------------------------------------------------
(* The entry                                                               *)

(* Every miss leads to the reservation.                                    *)
Serialized == Serializable /\ "lookup" \notin Upsets

(* No time passes during a reconcile, so the lease it has claimed is its   *)
(* own until the result is stored.                                         *)
HoldsLease(c) == pc[c] \in {"handle", "putGet", "putWrite"} => lease = Claimed(c)

(* Nobody stores a result between the check of Put and its write.          *)
FindsNone(c) == pc[c] = "putWrite" => entry = NoEntry

Guarded(c) == HoldsLease(c) /\ Unclaimed(c) /\ FindsNone(c)

LEMMA ClaimsDiffer ==
    \A a, c \in Actions : /\ Claimed(a)' = Claimed(a)
                          /\ Claimed(a).owner = a /\ Claimed(a).left > 0
                          /\ Claimed(a) = Claimed(c) => a = c
                          /\ NoLease.owner # a
  <1> QED BY LeaseNat, CacheAssumption DEF Claimed, NoLease

(* Only a write that found no entry stores one.                            *)
LEMMA EntryMoves ==
    ASSUME TypeOK, NEW a \in Actions, reconcile(a)
    PROVE  /\ entry' # entry => pc[a] = "putWrite" /\ entry' = [by |-> a, old |-> FALSE]
           /\ pc[a] = "putWrite" => lease' = lease /\ pc'[a] = AfterExecution
  <1>1. CASE PutWrite(a)
      BY <1>1, ConcludeMoves DEF PutWrite
  <1>2. CASE \/ Lookup(a) \/ GetReservation(a) \/ RereadReservation(a) \/ PutGet(a)
             \/ LaunchPod(a) \/ ObservePod(a) \/ RetryTask(a) \/ PodGone(a)
             \/ PersistStatus(a) \/ AbortAndFinalize(a)
      BY <1>2 DEF Lookup, GetReservation, RereadReservation, PutGet, LaunchPod, ObservePod,
         RetryTask, PodGone, PersistStatus, AbortAndFinalize, tables
  <1>3. CASE CreateReservation(a) \/ UpdateIfExpiredOrOwned(a) \/ ReleaseReservation(a)
      BY <1>3 DEF CreateReservation, UpdateIfExpiredOrOwned, ReleaseReservation
  <1> QED BY <1>1, <1>2, <1>3 DEF reconcile

(* The action that reconciles: it claims the lease on its way to the       *)
(* execution and checks the entry on its way to the write.                 *)
LEMMA ReconcileStaysGuarded ==
    ASSUME Serialized, TypeOK, NEW a \in Actions, Guarded(a), reconcile(a)
    PROVE  Guarded(a)'
  <1>1. AfterMiss = "reserve" /\ AfterExecution = "release"
      BY DEF Serialized, AfterMiss, AfterExecution
  <1>2. lease.owner # a => lease # Claimed(a)
      BY ClaimsDiffer
  <1>3. ASSUME pc'[a] \in {"idle", "reserve", "update", "release", "persist"} PROVE Guarded(a)'
      BY <1>3 DEF Guarded, HoldsLease, Unclaimed, FindsNone
  <1>4. ASSUME pc'[a] = "handle", lease' = Claimed(a) PROVE Guarded(a)'
      BY <1>4, ClaimsDiffer DEF Guarded, HoldsLease, Unclaimed, FindsNone
  <1>5. ASSUME pc'[a] \in {"create", "reread"}, lease' = lease, lease.owner # a PROVE Guarded(a)'
      BY <1>5 DEF Guarded, HoldsLease, Unclaimed, FindsNone
  <1>6. CASE Lookup(a)
    <2>1. ~Upset("lookup")
        BY DEF Upset, Serialized
    <2>2. pc'[a] \in {"persist", "reserve"}
        BY <1>1, <1>6, <2>1, GotoMoves, ConcludeMoves DEF Lookup, Persist
    <2> QED BY <1>3, <2>2
  <1>7. CASE GetReservation(a)
    <2>1. lease' = lease /\ (lease = NoLease => lease.owner # a)
        BY <1>7, ClaimsDiffer DEF GetReservation, tables
    <2>2. pc'[a] \in {"update", "idle"} \/ (pc'[a] = "create" /\ lease = NoLease)
        BY <1>7, GotoMoves, RequeueMoves DEF GetReservation
    <2> QED BY <1>3, <1>5, <2>1, <2>2
  <1>8. CASE CreateReservation(a)
    <2>1. lease.owner # a
        BY <1>8 DEF CreateReservation, Guarded, Unclaimed
    <2>2. \/ pc'[a] = "handle" /\ lease' = Claimed(a)
          \/ pc'[a] = "reread" /\ lease' = lease
          \/ pc'[a] = "idle"
        BY <1>8, GotoMoves, RequeueMoves DEF CreateReservation
    <2> QED BY <1>3, <1>4, <1>5, <2>1, <2>2
  <1>9. CASE UpdateIfExpiredOrOwned(a)
    <2>1. ~Claimable(a) => lease.owner # a
        BY ClaimsDiffer DEF Claimable
    <2>2. \/ pc'[a] = "handle" /\ lease' = Claimed(a)
          \/ pc'[a] = "reread" /\ lease' = lease /\ ~Claimable(a)
          \/ pc'[a] = "idle"
        BY <1>9, GotoMoves, RequeueMoves DEF UpdateIfExpiredOrOwned
    <2> QED BY <1>3, <1>4, <1>5, <2>1, <2>2
  <1>10. CASE RereadReservation(a)
    <2>1. lease.owner # a
        BY <1>10 DEF RereadReservation, Guarded, Unclaimed
    <2>2. pc'[a] \in {"idle", "persist"}
        BY <1>10, <2>1, GotoMoves, ConcludeMoves, RequeueMoves DEF RereadReservation, Persist
    <2> QED BY <1>3, <2>2
  <1>11. CASE LaunchPod(a) \/ ObservePod(a) \/ RetryTask(a) \/ PodGone(a)
    <2>1. lease' = lease /\ lease = Claimed(a)
        BY <1>11 DEF LaunchPod, ObservePod, RetryTask, PodGone, tables, Guarded, HoldsLease
    <2>2. SystemError(a) => pc'[a] \in {"idle", "persist"}
        BY RequeueMoves, ConcludeMoves DEF SystemError, Persist
    <2>3. pc'[a] \in {"idle", "persist", "release", "putGet"}
        BY <1>1, <1>11, <2>2, ConcludeMoves DEF LaunchPod, ObservePod, RetryTask, PodGone, Persist
    <2>4. pc'[a] = "putGet" => Guarded(a)'
        BY <2>1, ClaimsDiffer DEF Guarded, HoldsLease, Unclaimed, FindsNone
    <2> QED BY <1>3, <2>3, <2>4
  <1>12. CASE PutGet(a)
    <2>1. UNCHANGED tables /\ lease = Claimed(a)
        BY <1>12 DEF PutGet, Guarded, HoldsLease
    <2>2. pc'[a] = "release" \/ (pc'[a] = "putWrite" /\ entry = NoEntry)
        BY <1>1, <1>12, GotoMoves, ConcludeMoves DEF PutGet
    <2>3. pc'[a] = "putWrite" => Guarded(a)'
        BY <2>1, <2>2, ClaimsDiffer DEF Guarded, HoldsLease, Unclaimed, FindsNone, tables, NoEntry
    <2> QED BY <1>3, <2>2, <2>3
  <1>13. CASE PutWrite(a) \/ ReleaseReservation(a) \/ PersistStatus(a) \/ AbortAndFinalize(a)
    <2>1. pc'[a] \in {"release", "persist", "idle"}
        BY <1>1, <1>13, GotoMoves, ConcludeMoves, EndMoves, RequeueMoves
           DEF PutWrite, ReleaseReservation, PersistStatus, AbortAndFinalize
    <2> QED BY <1>3, <2>1
  <1> QED BY <1>6, <1>7, <1>8, <1>9, <1>10, <1>11, <1>12, <1>13 DEF reconcile

(* The others: a lease that is held is not claimed, so no two actions are  *)
(* between the claim and the write.                                        *)
LEMMA OthersStayGuarded ==
    ASSUME TypeOK, NEW a \in Actions, \A b \in Actions : Guarded(b), reconcile(a),
           NEW c \in Actions \ {a}
    PROVE  Guarded(c)'
  <1>1. /\ pc'[c] = pc[c]
        /\ \/ lease' = lease
           \/ lease' \in {NoLease, Claimed(a)} /\ (lease.owner = a \/ lease.left = 0)
      BY ReconcileIsAlone DEF Same
  <1>2. HoldsLease(c)'
      BY <1>1, ClaimsDiffer DEF Guarded, HoldsLease
  <1>3. Unclaimed(c)'
      BY <1>1, ClaimsDiffer DEF Guarded, Unclaimed
  <1>4. FindsNone(c)'
    <2> SUFFICES ASSUME pc[c] = "putWrite" PROVE entry' = NoEntry
        BY <1>1 DEF FindsNone, NoEntry
    <2>1. lease = Claimed(c) /\ entry = NoEntry
        BY DEF Guarded, HoldsLease, FindsNone
    <2>2. pc[a] # "putWrite"
        BY <2>1, ClaimsDiffer DEF Guarded, HoldsLease
    <2> QED BY <2>1, <2>2, EntryMoves
  <1> QED BY <1>2, <1>3, <1>4 DEF Guarded

(* No time passes while a reconcile is going on.                           *)
LEMMA NextStaysGuarded ==
    ASSUME Serialized, TypeOK, \A c \in Actions : Guarded(c), [Next]_vars
    PROVE  \A c \in Actions : Guarded(c)'
  <1>1. ASSUME NEW a \in Actions, reconcile(a) PROVE \A c \in Actions : Guarded(c)'
      BY <1>1, ReconcileStaysGuarded, OthersStayGuarded
  <1>2. ASSUME NEW a \in Actions, Reconcile(a) \/ ReconcileFails(a) \/ ExpireTask(a)
        PROVE  \A c \in Actions : Guarded(c)'
    <2>1. FirstStep(a) \in {"abort", "reserve", "lookup"}
        BY DEF FirstStep, AfterMiss, Serialized
    <2>2. UNCHANGED tables /\ \A c \in Actions : \/ pc'[c] = pc[c]
                                                \/ pc'[c] \in {"abort", "reserve", "lookup", "persist"}
        BY <1>2, <2>1 DEF Reconcile, ReconcileFails, ExpireTask, tables, TypeOK
    <2> QED BY <2>2, ClaimsDiffer DEF tables, Guarded, HoldsLease, Unclaimed, FindsNone, NoEntry
  <1>3. CASE Crash \/ Tick
    <2>1. \A c \in Actions : pc'[c] = "idle"
        BY <1>3 DEF Crash, Tick, actionVars, TypeOK
    <2> QED BY <2>1 DEF Guarded, HoldsLease, Unclaimed, FindsNone
  <1>4. CASE DeleteEntry \/ EntryAges
    <2>1. UNCHANGED <<lease, pc>> /\ (entry = NoEntry => entry' = NoEntry)
        BY <1>4 DEF DeleteEntry, EntryAges, Usable
    <2> QED BY <2>1, ClaimsDiffer DEF Guarded, HoldsLease, Unclaimed, FindsNone, NoEntry
  <1>5. ASSUME UNCHANGED <<entry, lease, pc>> PROVE \A c \in Actions : Guarded(c)'
      BY <1>5, ClaimsDiffer DEF Guarded, HoldsLease, Unclaimed, FindsNone, NoEntry
  <1>6. ASSUME NEW a \in Actions, PodMoves(a) \/ LosePod(a) \/ Delete(a)
        PROVE  \A c \in Actions : Guarded(c)'
      BY <1>5, <1>6 DEF PodMoves, LosePod, Delete, tables
  <1>7. CASE UNCHANGED vars
      BY <1>5, <1>7 DEF vars
  <1> QED BY <1>1, <1>2, <1>3, <1>4, <1>6, <1>7 DEF Next

(* A stored result is never replaced by another action's, for any number   *)
(* of actions and of upsets, and also if leases run out: it takes no more  *)
(* than that every action reserves the result before it executes.          *)
THEOREM ResultIsKept ==
    ASSUME Serialized
    PROVE  Spec => EntryIsKept
  <1> DEFINE Inv == TypeOK /\ \A c \in Actions : Guarded(c)
             Keeps == entry # NoEntry /\ entry' # NoEntry => entry'.by = entry.by
  <1>1. Init => Inv
      BY InitTyped DEF Init, Guarded, HoldsLease, Unclaimed, FindsNone
  <1>2. Inv /\ [Next]_vars => Inv'
      BY StepTyped, NextStaysGuarded
  <1>3. Inv /\ [Next]_vars => [Keeps]_vars
    <2> SUFFICES ASSUME Inv, Next, entry # NoEntry, entry' # NoEntry PROVE entry'.by = entry.by
        OBVIOUS
    <2>1. ASSUME NEW a \in Actions, reconcile(a) PROVE entry' = entry
        BY <2>1, EntryMoves DEF Guarded, FindsNone
    <2>2. CASE DeleteEntry \/ EntryAges
        BY <2>2 DEF DeleteEntry, EntryAges, TypeOK
    <2>3. CASE Crash \/ Tick
        BY <2>3 DEF Crash, Tick, tables
    <2>4. ASSUME NEW a \in Actions, \/ Reconcile(a) \/ ReconcileFails(a) \/ ExpireTask(a)
                                    \/ PodMoves(a) \/ LosePod(a) \/ Delete(a)
          PROVE  entry' = entry
        BY <2>4 DEF Reconcile, ReconcileFails, ExpireTask, PodMoves, LosePod, Delete, tables
    <2> QED BY <2>1, <2>2, <2>3, <2>4 DEF Next
  <1> QED BY <1>1, <1>2, <1>3, PTL DEF Spec, EntryIsKept
==============================================================================
