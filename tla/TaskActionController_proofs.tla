--------------------- MODULE TaskActionController_proofs ---------------------
(***************************************************************************)
(* What the reconciler guarantees for every number of attempts, of system  *)
(* failures, of failing calls, lost pods and crashes.                      *)
(***************************************************************************)
EXTENDS TaskActionController, TLAPS, FiniteSetTheorems

(* The steps on which the working copy is that of an unfinished task.      *)
Working == {"expire", "catalog", "handle", "reset", "sysError", "restart"}

(* Only a finished action has used up its system failures.                 *)
CounterFits(s) == s.sys <= MaxSystemFailures \/ isTerminal(s)

(* TypeOK is not inductive: the counter and the attempt stay in range only *)
(* because the reconciler stops at the last one.                           *)
InRange ==
    /\ CounterFits(cr.status) /\ CounterFits(seen.status)
    /\ CounterFits(ta.status) /\ CounterFits(base.status)
    /\ pc \in Working => ~isTerminal(ta.status)
    /\ pc = "restart" => observedAttempts(ta.status) < MaxAttempts
    /\ pc = "event" => ta.status.phase # ""

TypeInv == TypeOK /\ InRange

-----------------------------------------------------------------------------
(* The operators on a status                                               *)

LEMMA ObservedType ==
    ASSUME NEW s \in StatusType
    PROVE  observedAttempts(s) \in Attempts
<1>1. s.attempts \in 0..MaxAttempts
  BY DEF StatusType
<1>2. MaxAttempts \in Nat /\ MaxAttempts >= 1
  BY ConstantsAssumption DEF ConstantsAssumption
<1> QED BY <1>1, <1>2 DEF observedAttempts, Attempts

LEMMA ReasonType ==
    ASSUME NEW phase \in Phases
    PROVE  ReasonOf(phase) \in Reasons
BY DEF ReasonOf, Phases, Reasons

LEMMA HistoryType ==
    ASSUME NEW s \in StatusType, NEW phase \in Phases
    PROVE  appendPhaseHistory(s, phase) \in Seq(Transition)
<1>1. s.hist \in Seq(Transition)
  BY DEF StatusType
<1>2. [reason |-> ReasonOf(phase), attempt |-> observedAttempts(s)] \in Transition
  BY ObservedType, ReasonType DEF Transition
<1> QED BY <1>1, <1>2 DEF appendPhaseHistory

LEMMA MapPhaseType ==
    ASSUME NEW s \in StatusType, NEW phase \in Phases
    PROVE  /\ mapPhaseToConditions(s, phase) \in StatusType
           /\ mapPhaseToConditions(s, phase).sys = s.sys
           /\ mapPhaseToConditions(s, phase).phase = phase
           /\ phase = "PermanentFailure" => isTerminal(mapPhaseToConditions(s, phase))
<1>1. appendPhaseHistory(s, phase) \in Seq(Transition)
  BY HistoryType
<1>2. (CASE phase = "Success" -> "succeeded"
        [] phase \in {"PermanentFailure", "TimedOut"} -> "failed"
        [] OTHER -> s.outcome) \in {"none", "succeeded", "failed"}
  BY DEF StatusType
<1> QED BY <1>1, <1>2 DEF mapPhaseToConditions, StatusType, Phases, isTerminal

LEMMA AdvanceType ==
    ASSUME NEW s \in StatusType, NEW phase \in Phases
    PROVE  /\ Advance(s, phase) \in StatusType
           /\ Advance(s, phase).sys = 0 /\ Advance(s, phase).phase = phase
<1>1. /\ mapPhaseToConditions(s, phase) \in StatusType
      /\ mapPhaseToConditions(s, phase).phase = phase
  BY MapPhaseType
<1>2. observedAttempts(s) \in 0..MaxAttempts
  BY ObservedType DEF Attempts
<1>3. 0 \in 0..(MaxSystemFailures + 1)
  BY ConstantsAssumption DEF ConstantsAssumption
<1> QED BY <1>1, <1>2, <1>3 DEF Advance, StatusType

(* Advance with the plugin state and the attempt set on top.               *)
LEMMA AdjustType ==
    ASSUME NEW s \in StatusType, NEW phase \in Phases, NEW b \in BOOLEAN, NEW n \in 0..MaxAttempts
    PROVE  LET t == [Advance(s, phase) EXCEPT !.started = b]
               u == [Advance(s, phase) EXCEPT !.attempts = n, !.started = b] IN
           /\ t \in StatusType /\ CounterFits(t) /\ t.phase # ""
           /\ u \in StatusType /\ CounterFits(u) /\ u.phase # ""
<1> DEFINE a == Advance(s, phase)
<1>1. a \in StatusType /\ a.sys = 0 /\ a.phase # ""
  BY AdvanceType DEF Phases
<1> HIDE DEF a
<1>2. 0 <= MaxSystemFailures
  BY ConstantsAssumption DEF ConstantsAssumption
<1>3. /\ [a EXCEPT !.started = b] \in StatusType
      /\ [a EXCEPT !.started = b].sys = 0 /\ [a EXCEPT !.started = b].phase # ""
  BY <1>1 DEF StatusType
<1>4. /\ [a EXCEPT !.attempts = n, !.started = b] \in StatusType
      /\ [a EXCEPT !.attempts = n, !.started = b].sys = 0
      /\ [a EXCEPT !.attempts = n, !.started = b].phase # ""
  BY <1>1 DEF StatusType
<1>5. CounterFits([a EXCEPT !.started = b]) /\ CounterFits([a EXCEPT !.attempts = n, !.started = b])
  BY <1>2, <1>3, <1>4 DEF CounterFits
<1> QED BY <1>3, <1>4, <1>5 DEF a

LEMMA BlankType == Blank \in ResourceType /\ CounterFits(InitStatus)
BY ConstantsAssumption
   DEF ConstantsAssumption, Blank, InitStatus, ResourceType, StatusType, Phases, Transition, CounterFits, isTerminal

-----------------------------------------------------------------------------
(* The ways a step goes on: the working copies stay typed and in range     *)

(* What TypeInv says of the reconcile that is running.                     *)
CopiesOK ==
    /\ ta \in ResourceType /\ base \in ResourceType
    /\ pc \in Steps /\ queued \in BOOLEAN
    /\ CounterFits(ta.status) /\ CounterFits(base.status)
    /\ pc \in Working => ~isTerminal(ta.status)
    /\ pc = "restart" => observedAttempts(ta.status) < MaxAttempts
    /\ pc = "event" => ta.status.phase # ""

LEMMA SetStatus ==
    ASSUME NEW r \in ResourceType, NEW s \in StatusType
    PROVE  [r EXCEPT !.status = s] \in ResourceType /\ [r EXCEPT !.status = s].status = s
BY DEF ResourceType

LEMMA ReturnOK ==
    ASSUME TypeInv, NEW requeue \in BOOLEAN, Return(requeue)
    PROVE  CopiesOK'
BY BlankType DEF TypeInv, TypeOK, Return, CopiesOK, Steps, Working, CounterFits, isTerminal, Blank

LEMMA UpdateOK ==
    ASSUME TypeInv, NEW s \in StatusType, CounterFits(s), s.phase # "", Update(s)
    PROVE  CopiesOK'
<1>1. CASE taskActionStatusChanged(base.status, s)
  <2>1. ta' \in ResourceType /\ ta'.status = s
    BY <1>1, SetStatus DEF Update, TypeInv, TypeOK
  <2> QED BY <1>1, <2>1
          DEF Update, CopiesOK, TypeInv, TypeOK, InRange, Steps, Working, CounterFits, isTerminal
<1>2. CASE ~taskActionStatusChanged(base.status, s)
  BY <1>2, ReturnOK DEF Update
<1> QED BY <1>1, <1>2

LEMMA AdvanceOK ==
    ASSUME TypeInv, NEW phase \in Phases, Update(Advance(ta.status, phase))
    PROVE  CopiesOK'
<1>1. ta.status \in StatusType
  BY DEF TypeInv, TypeOK, ResourceType
<1>2. Advance(ta.status, phase) \in StatusType /\ CounterFits(Advance(ta.status, phase))
  BY <1>1, AdvanceType, ConstantsAssumption DEF CounterFits, ConstantsAssumption
<1>3. Advance(ta.status, phase).phase # ""
  BY <1>1, AdvanceType DEF Phases
<1> QED BY <1>2, <1>3, UpdateOK

LEMMA FailureOK ==
    ASSUME TypeInv, NEW s \in StatusType, finalizePermanentFailure(s)
    PROVE  CopiesOK'
<1>1. "PermanentFailure" \in Phases
  BY DEF Phases
<1>2. /\ mapPhaseToConditions(s, "PermanentFailure") \in StatusType
      /\ CounterFits(mapPhaseToConditions(s, "PermanentFailure"))
      /\ mapPhaseToConditions(s, "PermanentFailure").phase # ""
  BY <1>1, MapPhaseType DEF CounterFits
<1> QED BY <1>2, UpdateOK DEF finalizePermanentFailure

LEMMA GotoOK ==
    ASSUME TypeInv, NEW step \in Steps, Goto(step),
           step \in Working => ~isTerminal(ta.status),
           step = "restart" => observedAttempts(ta.status) < MaxAttempts, step # "event"
    PROVE  CopiesOK'
BY DEF TypeInv, TypeOK, InRange, Goto, copies, CopiesOK, CounterFits, isTerminal, observedAttempts

LEMMA UserFailureOK ==
    ASSUME TypeInv, UserFailure, pc \in Working
    PROVE  CopiesOK'
<1>1. CASE Attempt < MaxAttempts
  BY <1>1, GotoOK DEF UserFailure, Attempt, TypeInv, InRange, Steps
<1>2. CASE ~(Attempt < MaxAttempts)
  BY <1>2, AdvanceOK DEF UserFailure, Phases
<1> QED BY <1>1, <1>2

LEMMA StartOK ==
    ASSUME TypeInv, NEW step \in Steps, Start(step),
           step \in Working => ~isTerminal(seen.status), step \notin {"restart", "event"}
    PROVE  CopiesOK'
<1>1. CASE step = "idle"
  BY <1>1 DEF TypeInv, TypeOK, InRange, Start, copies, CopiesOK, Working, CounterFits, isTerminal
<1>2. CASE step # "idle"
  BY <1>2 DEF TypeInv, TypeOK, InRange, Start, CopiesOK, CounterFits, isTerminal
<1> QED BY <1>1, <1>2

(* The bounds are only ever spent.                                         *)
BudgetsOK ==
    /\ faults \in 0..MaxFaults /\ kills \in 0..MaxKills
    /\ crashes \in 0..MaxCrashes /\ waits \in 0..MaxWaits

LEMMA BudgetOK ==
    ASSUME TypeInv, Fault \/ NoFault
    PROVE  BudgetsOK'
BY ConstantsAssumption
   DEF ConstantsAssumption, TypeInv, TypeOK, Fault, NoFault, budgets, BudgetsOK

LEMMA AbortOK ==
    ASSUME TypeInv, NEW n \in Attempts, Abort(n)
    PROVE  pods' \in [Attempts -> PodStates]
BY DEF TypeInv, TypeOK, Abort, PodStates

(* The rest of the state.                                                  *)
WorldOK ==
    /\ cr \in ResourceType /\ seen \in ResourceType
    /\ CounterFits(cr.status) /\ CounterFits(seen.status)
    /\ pods \in [Attempts -> PodStates]
    /\ events \subseteq EventType
    /\ overdue \in Nat
    /\ leaked \subseteq Attempts /\ lost \in 0..(MaxSystemFailures + 1)

LEMMA Split ==
    /\ TypeInv <=> CopiesOK /\ BudgetsOK /\ WorldOK
    /\ TypeInv' <=> CopiesOK' /\ BudgetsOK' /\ WorldOK'
BY DEF TypeInv, TypeOK, InRange, CopiesOK, BudgetsOK, WorldOK

LEMMA AttemptType == ASSUME TypeInv PROVE Attempt \in Attempts /\ ta.status \in StatusType
BY ObservedType DEF Attempt, TypeInv, TypeOK, ResourceType

-----------------------------------------------------------------------------
(* Every step keeps TypeInv                                                *)

LEMMA TypeInit == Init => TypeInv
<1> SUFFICES ASSUME Init PROVE TypeInv
  OBVIOUS
<1>1. cr \in ResourceType /\ CounterFits(cr.status) /\ cr.status = InitStatus
  BY BlankType DEF Init, Blank, ResourceType
<1>2. /\ MaxFaults \in 0..MaxFaults /\ MaxKills \in 0..MaxKills
      /\ MaxCrashes \in 0..MaxCrashes /\ MaxWaits \in 0..MaxWaits
      /\ 0 \in 0..(MaxSystemFailures + 1)
  BY ConstantsAssumption DEF ConstantsAssumption
<1>3. BudgetsOK
  BY <1>2 DEF Init, BudgetsOK
<1>4. pods \in [Attempts -> PodStates]
  BY DEF Init, PodStates
<1>5. WorldOK
  BY <1>1, <1>2, <1>4 DEF Init, WorldOK
<1>6. CopiesOK
  <2>1. Blank.status = InitStatus
    BY DEF Blank
  <2> QED BY <2>1, BlankType DEF Init, CopiesOK, Steps, Working
<1> QED BY <1>3, <1>5, <1>6, Split

(* The steps that only move the reconcile on.                              *)
LEMMA TypeDispatch ==
    ASSUME TypeInv,
           NothingToDo \/ StartFinalize \/ StartLabels \/ StartTask
           \/ FinalizePlugin \/ EvaluateCache \/ PodUnreadable
    PROVE  TypeInv'
<1> USE Split
<1>0. WorldOK' <=> WorldOK
  BY DEF NothingToDo, StartFinalize, StartLabels, StartTask, FinalizePlugin, EvaluateCache,
         PodUnreadable, history, WorldOK, CounterFits, isTerminal
<1>1. CASE NothingToDo
  BY <1>0, <1>1, StartOK, BudgetOK DEF NothingToDo, NoFault, Steps, Working
<1>2. CASE StartFinalize
  BY <1>0, <1>2, StartOK, BudgetOK DEF StartFinalize, NoFault, Steps, Working
<1>3. CASE StartLabels
  BY <1>0, <1>3, StartOK, BudgetOK DEF StartLabels, NoFault, Steps, Working
<1>4. CASE StartTask
  BY <1>0, <1>4, StartOK, BudgetOK DEF StartTask, Running, NoFault, Steps
<1>5. CASE FinalizePlugin
  <2>1. CASE Goto("abortEvent") /\ NoFault
    BY <1>0, <2>1, GotoOK, BudgetOK DEF Steps, Working
  <2>2. CASE Return(TRUE) /\ Fault
    BY <1>0, <2>2, ReturnOK, BudgetOK
  <2> QED BY <1>5, <2>1, <2>2 DEF FinalizePlugin
<1>6. CASE EvaluateCache
  <2>0. pc = "catalog" /\ ~isTerminal(ta.status)
    BY <1>6 DEF EvaluateCache, TypeInv, InRange, Working
  <2>1. CASE Goto("handle") /\ (NoFault \/ Fault)
    BY <1>0, <2>0, <2>1, GotoOK, BudgetOK DEF Steps
  <2>2. CASE Update(Advance(ta.status, "Success")) /\ NoFault
    BY <1>0, <2>2, AdvanceOK, BudgetOK DEF Phases
  <2>3. CASE /\ waits > 0 /\ waits' = waits - 1 /\ UNCHANGED <<faults, kills, crashes>>
             /\ Update(Advance(ta.status, "WaitingForCache"))
    <3>1. BudgetsOK'
      BY <2>3, ConstantsAssumption DEF ConstantsAssumption, BudgetsOK, TypeInv, TypeOK
    <3> QED BY <1>0, <2>3, <3>1, AdvanceOK DEF Phases
  <2>4. CASE Return(TRUE) /\ Fault
    BY <1>0, <2>4, ReturnOK, BudgetOK
  <2> QED BY <1>6, <2>1, <2>2, <2>3, <2>4 DEF EvaluateCache
<1>7. CASE PodUnreadable
  BY <1>0, <1>7, GotoOK, BudgetOK DEF PodUnreadable, TypeInv, InRange, Working, Steps
<1> QED BY <1>1, <1>2, <1>3, <1>4, <1>5, <1>6, <1>7

(* The steps that write the resource.                                      *)
LEMMA TypeWrites ==
    ASSUME TypeInv,
           FailValidation \/ AddFinalizer \/ RecordSystemError \/ PersistStatus
           \/ EnsureTerminalLabels \/ RemoveFinalizer
    PROVE  TypeInv'
<1> USE Split
<1>0. /\ cr \in ResourceType /\ cr.status \in StatusType /\ ta.status \in StatusType
      /\ CounterFits(cr.status) /\ CounterFits(ta.status)
  BY DEF TypeInv, TypeOK, InRange, ResourceType
<1>00. ASSUME cr' \in ResourceType, CounterFits(cr'.status),
              UNCHANGED <<seen, pods, events, overdue, history>>
       PROVE  WorldOK'
  BY <1>00 DEF WorldOK, history, CounterFits, isTerminal
<1>1. CASE FailValidation
  <2> DEFINE failed == [cr.status EXCEPT !.outcome = "failed"]
  <2>a. failed \in StatusType
    BY <1>0 DEF StatusType
  <2>b. failed.outcome = "failed"
    BY <1>0 DEF StatusType
  <2>c. cr' = [cr EXCEPT !.status = failed] \/ UNCHANGED cr
    BY <1>1 DEF FailValidation
  <2> HIDE DEF failed
  <2>1. cr' \in ResourceType /\ CounterFits(cr'.status)
    BY <1>0, <2>a, <2>b, <2>c, SetStatus DEF CounterFits, isTerminal
  <2>2. CopiesOK'
    BY <1>1, StartOK DEF FailValidation, Steps, Working
  <2>3. BudgetsOK'
    BY <1>1, BudgetOK DEF FailValidation
  <2> QED BY <1>00, <1>1, <2>1, <2>2, <2>3 DEF FailValidation
<1>2. CASE AddFinalizer
  <2>1. cr' \in ResourceType /\ CounterFits(cr'.status)
    BY <1>0, <1>2 DEF AddFinalizer, ResourceType, CounterFits, isTerminal
  <2>2. CopiesOK'
    BY <1>2 DEF AddFinalizer, copies, CopiesOK, TypeInv, TypeOK, InRange, Steps, Working,
                CounterFits, isTerminal
  <2>3. BudgetsOK'
    BY <1>2, BudgetOK DEF AddFinalizer
  <2> QED BY <1>00, <1>2, <2>1, <2>2, <2>3 DEF AddFinalizer
<1>3. CASE RecordSystemError
  <2> DEFINE counted == [ta.status EXCEPT !.sys = @ + 1]
  <2>a. MaxSystemFailures \in Nat
    BY ConstantsAssumption DEF ConstantsAssumption
  <2>b. ta.status.sys \in 0..(MaxSystemFailures + 1)
    BY <1>0 DEF StatusType
  <2>c. pc = "sysError" /\ ~isTerminal(ta.status)
    BY <1>3 DEF RecordSystemError, TypeInv, InRange, Working
  <2>0. ta.status.sys \in Nat /\ ta.status.sys <= MaxSystemFailures
    BY <1>0, <2>a, <2>b, <2>c DEF CounterFits
  <2>d. ta.status.sys + 1 \in 0..(MaxSystemFailures + 1)
    BY <2>a, <2>0
  <2>1. counted \in StatusType /\ counted.sys = ta.status.sys + 1
    BY <1>0, <2>d DEF StatusType
  <2> HIDE DEF counted
  <2>2. CASE counted.sys > MaxSystemFailures
    <3>1. finalizePermanentFailure(counted) /\ NoFault /\ UNCHANGED cr
      BY <1>3, <2>2 DEF RecordSystemError, counted
    <3> QED BY <1>0, <1>00, <1>3, <2>1, <3>1, FailureOK, BudgetOK DEF RecordSystemError
  <2>3. CASE ~(counted.sys > MaxSystemFailures)
    <3>0. CounterFits(counted)
      BY <2>a, <2>0, <2>1, <2>3 DEF CounterFits
    <3>1. cr' = [cr EXCEPT !.status = counted] \/ UNCHANGED cr
      BY <1>3, <2>3 DEF RecordSystemError, counted
    <3>2. cr' \in ResourceType /\ CounterFits(cr'.status)
      BY <1>0, <2>1, <3>0, <3>1, SetStatus DEF CounterFits, isTerminal
    <3>3. Return(TRUE) /\ (Fault \/ NoFault)
      BY <1>3, <2>3 DEF RecordSystemError, counted
    <3> QED BY <1>00, <1>3, <3>2, <3>3, ReturnOK, BudgetOK DEF RecordSystemError
  <2> QED BY <2>2, <2>3
<1>4. CASE PersistStatus
  <2>1. cr' = [cr EXCEPT !.status = ta.status] \/ UNCHANGED cr
    BY <1>4 DEF PersistStatus
  <2>2. cr' \in ResourceType /\ CounterFits(cr'.status)
    BY <1>0, <2>1, SetStatus DEF CounterFits, isTerminal
  <2>3. Goto("label") \/ Return(TRUE)
    BY <1>4 DEF PersistStatus
  <2>4. CopiesOK'
    BY <2>3, GotoOK, ReturnOK DEF Steps, Working
  <2>5. BudgetsOK'
    BY <1>4, BudgetOK DEF PersistStatus
  <2> QED BY <1>00, <1>4, <2>2, <2>4, <2>5 DEF PersistStatus
<1>5. CASE EnsureTerminalLabels
  <2>1. cr' \in ResourceType /\ CounterFits(cr'.status)
    BY <1>0, <1>5 DEF EnsureTerminalLabels, ResourceType, CounterFits, isTerminal
  <2> QED BY <1>00, <1>5, <2>1, ReturnOK, BudgetOK DEF EnsureTerminalLabels
<1>6. CASE RemoveFinalizer
  <2>1. cr' \in ResourceType /\ CounterFits(cr'.status)
    BY <1>0, <1>6 DEF RemoveFinalizer, ResourceType, CounterFits, isTerminal
  <2> QED BY <1>00, <1>6, <2>1, ReturnOK, BudgetOK DEF RemoveFinalizer
<1> QED BY <1>1, <1>2, <1>3, <1>4, <1>5, <1>6

(* The steps that drive the pod and the events.                            *)
LEMMA TypeExecution ==
    ASSUME TypeInv,
           ExpireTask \/ LaunchPod \/ PodLost \/ PodGivenUp \/ PodObserved \/ ResetPlugin
           \/ RestartInPlace \/ RecordEvent \/ AbortForDeletion \/ RecordAbortEvent
    PROVE  TypeInv'
<1> USE Split
<1>0. /\ Attempt \in Attempts /\ ta.status \in StatusType
      /\ WorldOK /\ pods \in [Attempts -> PodStates]
      /\ lost \in 0..(MaxSystemFailures + 1) /\ MaxSystemFailures \in Nat
  BY AttemptType, ConstantsAssumption DEF ConstantsAssumption, TypeInv, TypeOK
<1>00. ASSUME UNCHANGED <<cr, seen, overdue>>, pods' \in [Attempts -> PodStates],
              events' \subseteq EventType, leaked' \subseteq Attempts,
              lost' \in 0..(MaxSystemFailures + 1)
       PROVE  WorldOK'
  BY <1>0, <1>00 DEF WorldOK, CounterFits, isTerminal
<1>01. events \subseteq EventType /\ leaked \subseteq Attempts
  BY DEF TypeInv, TypeOK
<1>02. pc = "event" => EventOf(ta.status) \in EventType
  BY <1>0, ObservedType DEF EventOf, EventType, StatusType, TypeInv, InRange
<1>03. AbortEvent(ta.status) \in EventType
  BY <1>0, ObservedType DEF AbortEvent, EventType
<1>1. CASE ExpireTask
  <2>1. CASE Abort(Attempt) /\ NoFault
             /\ Update([Advance(ta.status, "TimedOut") EXCEPT !.started = FALSE])
    <3> DEFINE s == [Advance(ta.status, "TimedOut") EXCEPT !.started = FALSE]
    <3>0. 0 \in 0..MaxAttempts
      BY ConstantsAssumption DEF ConstantsAssumption
    <3>1. s \in StatusType /\ CounterFits(s) /\ s.phase # ""
      BY <1>0, <3>0, AdjustType DEF Phases
    <3>2. Update(s)
      BY <2>1
    <3> HIDE DEF s
    <3> QED BY <1>0, <1>00, <1>01, <1>1, <2>1, <3>1, <3>2, AbortOK, UpdateOK, BudgetOK
            DEF ExpireTask, history
  <2>2. CASE UNCHANGED pods /\ Fault /\ Return(TRUE)
    BY <1>0, <1>00, <1>01, <1>1, <2>2, ReturnOK, BudgetOK DEF ExpireTask, history
  <2> QED BY <1>1, <2>1, <2>2 DEF ExpireTask
<1>2. CASE LaunchPod
  <2>1. pc \in Working /\ ~isTerminal(ta.status)
    BY <1>2 DEF LaunchPod, TypeInv, InRange, Working
  <2>2. pods' \in [Attempts -> PodStates]
    BY <1>0, <1>2 DEF LaunchPod, PodStates
  <2>3. WorldOK' /\ BudgetsOK'
    BY <1>0, <1>00, <1>01, <1>2, <2>2, BudgetOK DEF LaunchPod, history
  <2>4. CASE Update([Advance(ta.status, "Queued") EXCEPT !.started = TRUE])
    <3> DEFINE s == [Advance(ta.status, "Queued") EXCEPT !.started = TRUE]
    <3>0. 0 \in 0..MaxAttempts
      BY ConstantsAssumption DEF ConstantsAssumption
    <3>1. s \in StatusType /\ CounterFits(s) /\ s.phase # ""
      BY <1>0, <3>0, AdjustType DEF Phases
    <3>2. Update(s)
      BY <2>4
    <3> HIDE DEF s
    <3> QED BY <2>3, <3>1, <3>2, UpdateOK
  <2>5. CASE Goto("sysError")
    BY <2>1, <2>3, <2>5, GotoOK DEF Steps
  <2>6. CASE UserFailure
    BY <2>1, <2>3, <2>6, UserFailureOK
  <2>7. CASE Update(Advance(ta.status, "PermanentFailure"))
    BY <2>3, <2>7, AdvanceOK DEF Phases
  <2>8. CASE finalizePermanentFailure(ta.status)
    BY <1>0, <2>3, <2>8, FailureOK
  <2> QED BY <1>2, <2>4, <2>5, <2>6, <2>7, <2>8 DEF LaunchPod
<1>3. CASE PodLost \/ PodGivenUp
  <2>1. SystemRetryable /\ pc \in Working /\ ~isTerminal(ta.status)
    BY <1>3 DEF PodLost, PodGivenUp, TypeInv, InRange, Working
  <2>2. lost' \in 0..(MaxSystemFailures + 1)
    BY <1>0, <2>1 DEF SystemRetryable
  <2>3. BudgetsOK'
    BY <1>3, BudgetOK, ConstantsAssumption
       DEF ConstantsAssumption, PodLost, PodGivenUp, BudgetsOK, TypeInv, TypeOK
  <2>4. WorldOK'
    BY <1>0, <1>00, <1>01, <2>1, <2>2 DEF SystemRetryable
  <2> QED BY <2>1, <2>3, <2>4, GotoOK DEF SystemRetryable, Steps
<1>4. CASE PodObserved
  <2>1. pc \in Working /\ lost' = 0
    BY <1>4 DEF PodObserved, Working
  <2>2. WorldOK' /\ BudgetsOK'
    BY <1>0, <1>00, <1>01, <1>4, <2>1, BudgetOK DEF PodObserved, NoFault
  <2>3. UserFailure \/ \E phase \in Phases : Update(Advance(ta.status, phase))
    BY <1>4 DEF PodObserved, Phases
  <2> QED BY <2>1, <2>2, <2>3, UserFailureOK, AdvanceOK
<1>5. CASE ResetPlugin
  <2>1. pods' \in [Attempts -> PodStates]
    BY <1>0, <1>5, AbortOK DEF ResetPlugin
  <2>2. ta' \in ResourceType /\ ta'.status = [ta.status EXCEPT !.started = FALSE]
    BY <1>0, <1>5 DEF ResetPlugin, TypeInv, TypeOK, ResourceType, StatusType
  <2>3. /\ ta'.status.sys = ta.status.sys /\ ta'.status.outcome = ta.status.outcome
    BY <1>0, <2>2 DEF StatusType
  <2>4. CopiesOK'
    BY <1>5, <2>2, <2>3
       DEF ResetPlugin, CopiesOK, TypeInv, TypeOK, InRange, CounterFits, isTerminal, Steps, Working
  <2> QED BY <1>0, <1>00, <1>01, <1>5, <2>1, <2>4, BudgetOK DEF ResetPlugin, history
<1>6. CASE RestartInPlace
  <2> DEFINE s == [Advance(ta.status, "Queued") EXCEPT !.attempts = Attempt + 1,
                                                        !.started = FALSE]
  <2>0. Attempt < MaxAttempts
    BY <1>6 DEF RestartInPlace, TypeInv, InRange, Attempt
  <2>1. Attempt + 1 \in 0..MaxAttempts
    <3>1. MaxAttempts \in Nat
      BY ConstantsAssumption DEF ConstantsAssumption
    <3>2. Attempt \in 1..MaxAttempts
      BY <1>0 DEF Attempts
    <3> HIDE DEF s
    <3> QED BY <2>0, <3>1, <3>2
  <2>2. s \in StatusType /\ CounterFits(s) /\ s.phase # ""
    BY <1>0, <2>1, AdjustType DEF Phases
  <2>3. Update(s)
    BY <1>6 DEF RestartInPlace
  <2>4. pods' \in [Attempts -> PodStates] /\ leaked' \subseteq Attempts
    BY <1>0, <1>01, <1>6, AbortOK DEF RestartInPlace
  <2> HIDE DEF s
  <2> QED BY <1>0, <1>00, <1>01, <1>6, <2>2, <2>3, <2>4, UpdateOK, BudgetOK DEF RestartInPlace
<1>7. CASE RecordEvent
  <2>1. events' \subseteq EventType
    BY <1>01, <1>02, <1>7 DEF RecordEvent
  <2>2. Goto("persist") \/ Return(TRUE)
    BY <1>7 DEF RecordEvent
  <2>3. CopiesOK'
    BY <2>2, GotoOK, ReturnOK DEF Steps, Working
  <2> QED BY <1>0, <1>00, <1>01, <1>7, <2>1, <2>3, BudgetOK DEF RecordEvent, history
<1>8. CASE AbortForDeletion
  <2>1. pods' \in [Attempts -> PodStates]
    BY <1>0, <1>8, AbortOK DEF AbortForDeletion
  <2>2. Goto("finalize") \/ Return(TRUE)
    BY <1>8 DEF AbortForDeletion
  <2>3. CopiesOK'
    BY <2>2, GotoOK, ReturnOK DEF Steps, Working
  <2> QED BY <1>0, <1>00, <1>01, <1>8, <2>1, <2>3, BudgetOK DEF AbortForDeletion, history
<1>9. CASE RecordAbortEvent
  <2>1. events' \subseteq EventType
    BY <1>01, <1>03, <1>9 DEF RecordAbortEvent
  <2>2. Goto("removeFinalizer") \/ Return(TRUE)
    BY <1>9 DEF RecordAbortEvent
  <2>3. CopiesOK'
    BY <2>2, GotoOK, ReturnOK DEF Steps, Working
  <2> QED BY <1>0, <1>00, <1>01, <1>9, <2>1, <2>3, BudgetOK DEF RecordAbortEvent, history
<1> QED BY <1>1, <1>2, <1>3, <1>4, <1>5, <1>6, <1>7, <1>8, <1>9

(* The steps of the surroundings.                                          *)
LEMMA TypeEnvironment ==
    ASSUME TypeInv,
           \/ CacheSync \/ DeleteResource \/ CollectGarbage \/ TimeoutPasses \/ Crash
           \/ \E n \in Attempts : PodProgress(n) \/ PodKilled(n) \/ PodCascade(n)
    PROVE  TypeInv'
<1> USE Split
<1>0. CopiesOK /\ BudgetsOK /\ WorldOK
  OBVIOUS
<1>00. ASSUME UNCHANGED <<ta, base, pc>>, queued' \in BOOLEAN PROVE CopiesOK'
  BY <1>0, <1>00 DEF CopiesOK, CounterFits, isTerminal, observedAttempts
<1>1. CASE CacheSync
  <2>1. CopiesOK'
    BY <1>00, <1>1 DEF CacheSync, copies
  <2>2. BudgetsOK'
    BY <1>1, BudgetOK DEF CacheSync, NoFault
  <2> QED BY <1>0, <1>1, <2>1, <2>2 DEF CacheSync, history, WorldOK, CounterFits, isTerminal
<1>2. CASE DeleteResource \/ CollectGarbage
  <2>0. Delete
    BY <1>2 DEF DeleteResource, CollectGarbage
  <2>1. CopiesOK'
    BY <1>0, <1>00, <2>0 DEF Delete, copies, CopiesOK
  <2>2. BudgetsOK'
    BY <2>0, BudgetOK DEF Delete, NoFault
  <2>3. cr' \in ResourceType /\ cr'.status = cr.status
    BY <1>0, <2>0 DEF Delete, WorldOK, ResourceType
  <2> QED BY <1>0, <2>0, <2>1, <2>2, <2>3 DEF Delete, history, WorldOK, CounterFits, isTerminal
<1>3. CASE TimeoutPasses
  <2>1. Cardinality(ExecutingEntries(cr.status)) \in Nat
    <3>0. cr.status.hist \in Seq(Transition)
      BY <1>0 DEF WorldOK, ResourceType, StatusType
    <3>1. Len(cr.status.hist) \in Nat
      BY <3>0
    <3>2. IsFiniteSet(1..Len(cr.status.hist))
      BY <3>1, FS_Interval
    <3>3. ExecutingEntries(cr.status) \subseteq 1..Len(cr.status.hist)
      BY DEF ExecutingEntries
    <3> QED BY <3>2, <3>3, FS_Subset, FS_CardinalityType
  <2>2. CopiesOK'
    BY <1>0, <1>00, <1>3 DEF TimeoutPasses, copies, CopiesOK
  <2>3. BudgetsOK'
    BY <1>3, BudgetOK DEF TimeoutPasses, NoFault
  <2> QED BY <1>0, <1>3, <2>1, <2>2, <2>3 DEF TimeoutPasses, history, WorldOK, CounterFits, isTerminal
<1>4. CASE Crash
  <2>1. CopiesOK'
    BY <1>4, ReturnOK DEF Crash
  <2>2. BudgetsOK'
    BY <1>0, <1>4, ConstantsAssumption DEF ConstantsAssumption, Crash, BudgetsOK
  <2> QED BY <1>0, <1>4, <2>1, <2>2 DEF Crash, history, WorldOK, CounterFits, isTerminal
<1>5. ASSUME NEW n \in Attempts, PodProgress(n) \/ PodKilled(n) \/ PodCascade(n)
      PROVE  TypeInv'
  <2>1. \E new \in PodStates : PodChange(n, new)
    BY <1>5 DEF PodProgress, PodKilled, PodCascade, PodStates
  <2>2. pods' \in [Attempts -> PodStates]
    BY <1>0, <2>1 DEF PodChange, WorldOK
  <2>3. CopiesOK'
    BY <1>00, <2>1 DEF PodChange, copies
  <2>4. BudgetsOK'
    BY <1>0, <1>5, ConstantsAssumption
       DEF ConstantsAssumption, PodProgress, PodKilled, PodCascade, BudgetsOK, budgets
  <2> QED BY <1>0, <2>1, <2>2, <2>3, <2>4 DEF PodChange, history, WorldOK, CounterFits, isTerminal
<1> QED BY <1>1, <1>2, <1>3, <1>4, <1>5

LEMMA TypeStep == TypeInv /\ [Next]_vars => TypeInv'
<1> SUFFICES ASSUME TypeInv, [Next]_vars PROVE TypeInv'
  OBVIOUS
<1>1. CASE Next
  BY <1>1, TypeDispatch, TypeWrites, TypeExecution, TypeEnvironment DEF Next, Reconcile
<1>2. CASE UNCHANGED vars
  BY <1>2 DEF vars, TypeInv, TypeOK, InRange, CounterFits, isTerminal, observedAttempts
<1> QED BY <1>1, <1>2

(* Every copy of the resource keeps its shape: the attempt never exceeds   *)
(* the task's retries and the counter of system failures never runs past   *)
(* the value at which reconcileTask gives up.                              *)
THEOREM TypeCorrect == Spec => []TypeOK
<1>1. TypeInv => TypeOK
  BY DEF TypeInv
<1> QED BY TypeInit, TypeStep, <1>1, PTL DEF Spec

-----------------------------------------------------------------------------
(* Events are recorded before the status that claims them                  *)

Announced(s) == s.phase # "" => EventOf(s) \in events

(* A status that some copy holds was announced; only the one on its way    *)
(* through updateTaskActionStatus is not announced yet.                    *)
AnnouncedInv ==
    /\ Announced(cr.status) /\ Announced(seen.status) /\ Announced(base.status)
    /\ pc # "event" => Announced(ta.status)

(* A write that keeps the claim of an announced status is announced.       *)
SameClaim(s, r) == s.phase = r.phase /\ observedAttempts(s) = observedAttempts(r)

LEMMA Announcement ==
    ASSUME events \subseteq events', NEW s, NEW r, Announced(r), SameClaim(s, r)
    PROVE  s.phase # "" => EventOf(s) \in events'
BY DEF Announced, SameClaim, EventOf

LEMMA BlankAnnounced == Announced(InitStatus) /\ Blank.status = InitStatus
BY DEF Announced, InitStatus, Blank

(* Where the copies of a step come from.                                   *)
FromStep ==
    /\ events \subseteq events'
    /\ seen' \in {seen, cr}
    /\ base' \in {base, seen, Blank}
    /\ \/ SameClaim(cr'.status, cr.status)
       \/ pc # "event" /\ SameClaim(cr'.status, ta.status)
    /\ \/ pc' = "event"
       \/ ta' \in {seen, Blank}
       \/ pc # "event" /\ SameClaim(ta'.status, ta.status)
       \/ EventOf(ta'.status) \in events'

LEMMA FromUpdate ==
    ASSUME NEW s, Update(s)
    PROVE  base' \in {base, Blank} /\ (pc' = "event" \/ ta' = Blank)
BY DEF Update, Return

LEMMA FromReconcile == ASSUME TypeInv, Reconcile PROVE FromStep
<1> USE DEF SameClaim
<1>1. CASE NothingToDo \/ StartFinalize \/ StartLabels \/ StartTask
  BY <1>1 DEF NothingToDo, StartFinalize, StartLabels, StartTask, Start, copies, FromStep
<1>2. CASE FailValidation
  <2> DEFINE failed == [cr.status EXCEPT !.outcome = "failed"]
  <2>0. SameClaim(failed, cr.status)
    BY DEF TypeInv, TypeOK, ResourceType, StatusType, observedAttempts
  <2>1. cr' = cr \/ cr' = [cr EXCEPT !.status = failed]
    BY <1>2 DEF FailValidation
  <2>2. SameClaim(cr'.status, cr.status)
    <3> HIDE DEF failed
    <3> QED BY <2>0, <2>1 DEF TypeInv, TypeOK, ResourceType
  <2> QED BY <1>2, <2>2 DEF FailValidation, Start, copies, FromStep
<1>3. CASE AddFinalizer
  <2>1. cr'.status = cr.status
    BY <1>3 DEF AddFinalizer, TypeInv, TypeOK, ResourceType
  <2> QED BY <1>3, <2>1 DEF AddFinalizer, copies, FromStep
<1>4. CASE ExpireTask \/ LaunchPod \/ PodObserved \/ RestartInPlace \/ EvaluateCache
  <2>1. UNCHANGED <<cr, seen, events>> /\ pc # "event"
    BY <1>4 DEF ExpireTask, LaunchPod, PodObserved, RestartInPlace, EvaluateCache
  <2>2. \/ \E s : Update(s)
        \/ Return(TRUE)
        \/ \E step \in Steps : Goto(step)
    BY <1>4 DEF ExpireTask, LaunchPod, PodObserved, RestartInPlace, EvaluateCache,
                UserFailure, finalizePermanentFailure, Steps
  <2>3. CASE \E s : Update(s)
    BY <2>1, <2>3, FromUpdate DEF FromStep
  <2>4. CASE Return(TRUE)
    BY <2>1, <2>4 DEF Return, FromStep
  <2>5. CASE \E step \in Steps : Goto(step)
    BY <2>1, <2>5 DEF Goto, copies, FromStep
  <2> QED BY <2>2, <2>3, <2>4, <2>5
<1>5. CASE PodLost \/ PodGivenUp \/ PodUnreadable
  BY <1>5 DEF PodLost, PodGivenUp, PodUnreadable, SystemRetryable, Goto, copies, FromStep
<1>6. CASE ResetPlugin
  <2>1. SameClaim(ta'.status, ta.status)
    BY <1>6 DEF ResetPlugin, TypeInv, TypeOK, ResourceType, StatusType, observedAttempts
  <2> QED BY <1>6, <2>1 DEF ResetPlugin, FromStep
<1>7. CASE RecordSystemError
  <2> DEFINE counted == [ta.status EXCEPT !.sys = @ + 1]
  <2>0. UNCHANGED <<seen, events>> /\ pc # "event"
    BY <1>7 DEF RecordSystemError
  <2>1. SameClaim(counted, ta.status)
    BY DEF TypeInv, TypeOK, ResourceType, StatusType, observedAttempts
  <2>2. \/ cr' = cr
        \/ cr' = [cr EXCEPT !.status = counted]
    BY <1>7 DEF RecordSystemError
  <2>3. SameClaim(cr'.status, cr.status) \/ SameClaim(cr'.status, ta.status)
    <3> HIDE DEF counted
    <3> QED BY <2>1, <2>2 DEF TypeInv, TypeOK, ResourceType
  <2>4. finalizePermanentFailure(counted) \/ Return(TRUE)
    BY <1>7 DEF RecordSystemError
  <2>5. base' \in {base, Blank} /\ (pc' = "event" \/ ta' = Blank)
    BY <2>4, FromUpdate DEF finalizePermanentFailure, Return
  <2> QED BY <2>0, <2>3, <2>5 DEF FromStep
<1>8. CASE RecordEvent \/ RecordAbortEvent
  BY <1>8 DEF RecordEvent, RecordAbortEvent, Goto, copies, Return, FromStep
<1>9. CASE PersistStatus
  <2>1. SameClaim(cr'.status, cr.status) \/ SameClaim(cr'.status, ta.status)
    BY <1>9 DEF PersistStatus, TypeInv, TypeOK, ResourceType
  <2> QED BY <1>9, <2>1 DEF PersistStatus, Goto, copies, Return, FromStep
<1>10. CASE EnsureTerminalLabels \/ RemoveFinalizer
  <2>1. cr'.status = cr.status
    BY <1>10 DEF EnsureTerminalLabels, RemoveFinalizer, TypeInv, TypeOK, ResourceType
  <2> QED BY <1>10, <2>1 DEF EnsureTerminalLabels, RemoveFinalizer, Return, FromStep
<1>11. CASE AbortForDeletion \/ FinalizePlugin
  BY <1>11 DEF AbortForDeletion, FinalizePlugin, Goto, copies, Return, FromStep
<1> QED BY <1>1, <1>2, <1>3, <1>4, <1>5, <1>6, <1>7, <1>8, <1>9, <1>10, <1>11 DEF Reconcile

LEMMA AnnouncedStep == TypeInv /\ AnnouncedInv /\ [Next]_vars => AnnouncedInv'
<1> SUFFICES ASSUME TypeInv, AnnouncedInv, [Next]_vars PROVE AnnouncedInv'
  OBVIOUS
<1>1. CASE Reconcile
  <2> DEFINE Now(s) == s.phase # "" => EventOf(s) \in events'
  <2>0. FromStep
    BY <1>1, FromReconcile
  <2>1. Now(cr'.status)
    BY <2>0, Announcement DEF FromStep, AnnouncedInv, Announced
  <2>2. Now(seen'.status) /\ Now(base'.status)
    BY <2>0, BlankAnnounced DEF FromStep, AnnouncedInv, Announced
  <2>3. pc' # "event" => Now(ta'.status)
    <3>1. CASE ta' \in {seen, Blank}
      BY <2>0, <3>1, BlankAnnounced DEF FromStep, AnnouncedInv, Announced
    <3>2. CASE pc # "event" /\ SameClaim(ta'.status, ta.status)
      BY <2>0, <3>2, Announcement DEF FromStep, AnnouncedInv, Announced
    <3>3. CASE EventOf(ta'.status) \in events'
      BY <3>3 DEF Announced
    <3> QED BY <2>0, <3>1, <3>2, <3>3 DEF FromStep
  <2> QED BY <2>1, <2>2, <2>3 DEF AnnouncedInv, Announced, EventOf
<1>2. CASE CacheSync \/ Crash
  BY <1>2, BlankAnnounced DEF CacheSync, Crash, Return, copies, AnnouncedInv, Announced
<1>3. CASE DeleteResource \/ CollectGarbage
  <2>1. cr'.status = cr.status
    BY <1>3 DEF DeleteResource, CollectGarbage, Delete, TypeInv, TypeOK, ResourceType
  <2> QED BY <1>3, <2>1 DEF DeleteResource, CollectGarbage, Delete, copies, AnnouncedInv, Announced, EventOf
<1>4. CASE TimeoutPasses
  BY <1>4 DEF TimeoutPasses, copies, AnnouncedInv, Announced
<1>5. CASE \E n \in Attempts : PodProgress(n) \/ PodKilled(n) \/ PodCascade(n)
  BY <1>5 DEF PodProgress, PodKilled, PodCascade, PodChange, copies, AnnouncedInv, Announced
<1>6. CASE UNCHANGED vars
  BY <1>6 DEF vars, AnnouncedInv, Announced
<1> QED BY <1>1, <1>2, <1>3, <1>4, <1>5, <1>6 DEF Next

(* A status is stored only after the event that announces its phase was    *)
(* recorded, whatever fails in between: updateTaskActionStatus calls       *)
(* recordEvent first.                                                      *)
THEOREM WriteAhead == Spec => []EventPrecedesStatus
<1>1. Init => AnnouncedInv
  BY BlankAnnounced DEF Init, AnnouncedInv, Announced, Blank, InitStatus
<1>2. AnnouncedInv => EventPrecedesStatus
  BY DEF AnnouncedInv, Announced, EventPrecedesStatus
<1> QED BY TypeInit, TypeStep, <1>1, AnnouncedStep, <1>2, PTL DEF Spec

-----------------------------------------------------------------------------
(* The marks of a resource: who may set them, and what a copy knows        *)

SameMarks(r, s) ==
    /\ r.exists = s.exists /\ r.deleting = s.deleting
    /\ r.finalizer = s.finalizer /\ r.valid = s.valid

(* The ways a reconcile leaves the call it is at.                          *)
LEMMA UpdateOutcome ==
    ASSUME TypeInv, NEW s, Update(s)
    PROVE  \/ pc' = "event" /\ ta' = [ta EXCEPT !.status = s] /\ ta'.status = s
           \/ Return(TRUE)
BY DEF Update, TypeInv, TypeOK, ResourceType

LEMMA UserFailureOutcome ==
    ASSUME UserFailure
    PROVE  Goto("restart") \/ Update(Advance(ta.status, "PermanentFailure"))
BY DEF UserFailure

(* Only three writes touch the marks; every other one keeps them.          *)
LEMMA MarksKept ==
    ASSUME TypeInv, [Next]_vars
    PROVE  SameMarks(cr', cr) \/ AddFinalizer \/ RemoveFinalizer \/ Delete
<1> USE DEF SameMarks
<1>0. cr \in ResourceType
  BY DEF TypeInv, TypeOK
<1>1. CASE FailValidation
  <2>1. \/ UNCHANGED cr
        \/ cr' = [cr EXCEPT !.status = [cr.status EXCEPT !.outcome = "failed"]]
    BY <1>1 DEF FailValidation
  <2> QED BY <1>0, <2>1 DEF ResourceType
<1>2. CASE RecordSystemError
  <2>1. \/ UNCHANGED cr
        \/ cr' = [cr EXCEPT !.status = [ta.status EXCEPT !.sys = @ + 1]]
    BY <1>2 DEF RecordSystemError
  <2> QED BY <1>0, <2>1 DEF ResourceType
<1>3. CASE PersistStatus
  BY <1>0, <1>3 DEF PersistStatus, ResourceType
<1>4. CASE EnsureTerminalLabels
  BY <1>0, <1>4 DEF EnsureTerminalLabels, ResourceType
<1>5. CASE NothingToDo \/ StartFinalize \/ StartLabels \/ StartTask
  BY <1>5 DEF NothingToDo, StartFinalize, StartLabels, StartTask
<1>6. CASE ExpireTask \/ EvaluateCache \/ LaunchPod \/ PodLost \/ PodGivenUp \/ PodObserved
           \/ PodUnreadable \/ ResetPlugin \/ RestartInPlace
  BY <1>6 DEF ExpireTask, EvaluateCache, LaunchPod, PodLost, PodGivenUp, PodObserved,
              PodUnreadable, ResetPlugin, RestartInPlace, SystemRetryable
<1>7. CASE RecordEvent \/ AbortForDeletion \/ FinalizePlugin \/ RecordAbortEvent
  BY <1>7 DEF RecordEvent, AbortForDeletion, FinalizePlugin, RecordAbortEvent
<1>8. CASE CacheSync \/ TimeoutPasses \/ Crash
           \/ \E n \in Attempts : PodProgress(n) \/ PodKilled(n) \/ PodCascade(n)
  BY <1>8 DEF CacheSync, TimeoutPasses, Crash, PodProgress, PodKilled, PodCascade, PodChange
<1>9. CASE UNCHANGED vars
  BY <1>9 DEF vars
<1> QED BY <1>1, <1>2, <1>3, <1>4, <1>5, <1>6, <1>7, <1>8, <1>9
        DEF Next, Reconcile, DeleteResource, CollectGarbage

(* The informer's copy is what it was, or what the API server has.         *)
LEMMA SeenFollows == ASSUME [Next]_vars PROVE seen' \in {seen, cr}
<1>1. CASE Reconcile
  BY <1>1 DEF Reconcile, NothingToDo, StartFinalize, StartLabels, FailValidation, AddFinalizer,
     StartTask, ExpireTask, EvaluateCache, LaunchPod, PodLost, PodGivenUp, PodObserved,
     PodUnreadable, ResetPlugin, RecordSystemError, RestartInPlace, RecordEvent, PersistStatus,
     EnsureTerminalLabels, AbortForDeletion, FinalizePlugin, RecordAbortEvent, RemoveFinalizer,
     SystemRetryable
<1>2. CASE Next /\ ~Reconcile
  BY <1>2 DEF Next, CacheSync, DeleteResource, CollectGarbage, Delete, TimeoutPasses, Crash,
     PodProgress, PodKilled, PodCascade, PodChange
<1>3. CASE UNCHANGED vars
  BY <1>3 DEF vars
<1> QED BY <1>1, <1>2, <1>3

(* A deletion is never taken back, and what is being deleted still has its *)
(* finalizer; the finalizer goes with the resource.                        *)
LifecycleInv ==
    /\ cr.finalizer => cr.exists
    /\ cr.exists /\ cr.deleting => cr.finalizer
    /\ seen.deleting => cr.deleting

LEMMA LifecycleInit == Init => LifecycleInv
BY DEF Init, Blank, LifecycleInv

LEMMA LifecycleStep == TypeInv /\ LifecycleInv /\ [Next]_vars => LifecycleInv'
<1> SUFFICES ASSUME TypeInv, LifecycleInv, [Next]_vars PROVE LifecycleInv'
  OBVIOUS
<1>0. cr \in ResourceType /\ seen' \in {seen, cr}
  BY SeenFollows DEF TypeInv, TypeOK
<1>1. CASE SameMarks(cr', cr)
  BY <1>0, <1>1 DEF SameMarks, LifecycleInv
<1>2. CASE AddFinalizer
  BY <1>0, <1>2 DEF AddFinalizer, Running, LifecycleInv, ResourceType
<1>3. CASE RemoveFinalizer
  BY <1>0, <1>3 DEF RemoveFinalizer, LifecycleInv, ResourceType
<1>4. CASE Delete
  BY <1>0, <1>4 DEF Delete, LifecycleInv, ResourceType
<1> QED BY <1>1, <1>2, <1>3, <1>4, MarksKept

-----------------------------------------------------------------------------
(* No valid action is forgotten                                            *)

(* A reconcile that ends without putting the key back on the queue has     *)
(* found nothing to do, or its write of the resource will be delivered.    *)
LEMMA EndsRequeued ==
    ASSUME TypeInv, Reconcile,
           ~(NothingToDo \/ FailValidation \/ AddFinalizer \/ RemoveFinalizer)
    PROVE  pc' # "idle" \/ queued'
<1>1. CASE StartFinalize \/ StartLabels \/ StartTask
  BY <1>1 DEF StartFinalize, StartLabels, StartTask, Start
<1>2. CASE ExpireTask \/ EvaluateCache \/ LaunchPod \/ PodObserved \/ RestartInPlace \/ RecordSystemError
  <2>1. \/ Return(TRUE)
        \/ \E s : Update(s)
        \/ Goto("handle") \/ Goto("sysError") \/ Goto("restart")
    BY <1>2 DEF ExpireTask, EvaluateCache, LaunchPod, PodObserved, RestartInPlace,
                RecordSystemError, UserFailure, finalizePermanentFailure
  <2>2. CASE \E s : Update(s)
    BY <2>2, UpdateOutcome DEF Return
  <2> QED BY <2>1, <2>2 DEF Return, Goto
<1>3. CASE PodLost \/ PodGivenUp \/ PodUnreadable \/ ResetPlugin
  BY <1>3 DEF PodLost, PodGivenUp, PodUnreadable, ResetPlugin, SystemRetryable, Goto
<1>4. CASE RecordEvent \/ PersistStatus \/ EnsureTerminalLabels
  BY <1>4 DEF RecordEvent, PersistStatus, EnsureTerminalLabels, Goto, Return
<1>5. CASE AbortForDeletion \/ FinalizePlugin \/ RecordAbortEvent
  BY <1>5 DEF AbortForDeletion, FinalizePlugin, RecordAbortEvent, Goto, Return
<1> QED BY <1>1, <1>2, <1>3, <1>4, <1>5 DEF Reconcile

LEMMA ForgottenStep == TypeInv /\ LifecycleInv /\ NeverForgotten /\ [Next]_vars => NeverForgotten'
<1> SUFFICES ASSUME TypeInv, LifecycleInv, NeverForgotten, [Next]_vars, Quiet', cr'.valid
             PROVE  isTerminal(cr'.status) /\ cr'.labelled /\ ~cr'.deleting
  BY DEF NeverForgotten, Quiet, isTerminal
<1>0. cr \in ResourceType /\ cr.status \in StatusType
  BY DEF TypeInv, TypeOK, ResourceType
<1>1. CASE NothingToDo
  BY <1>1 DEF NothingToDo, LifecycleInv, Quiet, isTerminal
<1>2. CASE FailValidation
  <2>1. cr' = cr \/ cr' = [cr EXCEPT !.status = [cr.status EXCEPT !.outcome = "failed"]]
    BY <1>2 DEF FailValidation
  <2>2. cr'.valid = cr.valid
    BY <1>0, <2>1 DEF ResourceType
  <2>3. ~cr.valid \/ seen' # cr'
    BY <1>2 DEF FailValidation
  <2> QED BY <2>2, <2>3 DEF Quiet
<1>3. CASE AddFinalizer
  <2>1. queued' \/ cr'.finalizer # seen'.finalizer
    BY <1>0, <1>3 DEF AddFinalizer, ResourceType
  <2> QED BY <2>1 DEF Quiet
<1>4. CASE RemoveFinalizer
  <2>1. queued' \/ ~cr'.exists
    BY <1>0, <1>4 DEF RemoveFinalizer, Return, ResourceType
  <2> QED BY <2>1 DEF Quiet
<1>5. CASE Reconcile /\ ~(NothingToDo \/ FailValidation \/ AddFinalizer \/ RemoveFinalizer)
  BY <1>5, EndsRequeued DEF Quiet
<1>6. CASE CacheSync \/ Crash \/ \E n \in Attempts : PodProgress(n) \/ PodKilled(n) \/ PodCascade(n)
  BY <1>6 DEF CacheSync, Crash, Return, PodProgress, PodKilled, PodCascade, PodChange, Quiet
<1>7. CASE DeleteResource \/ CollectGarbage
  <2>0. Delete
    BY <1>7 DEF DeleteResource, CollectGarbage
  <2>1. ~cr'.exists \/ (cr'.deleting /\ ~seen'.deleting)
    BY <1>0, <2>0 DEF Delete, LifecycleInv, ResourceType
  <2> QED BY <2>1 DEF Quiet
<1>8. CASE TimeoutPasses \/ UNCHANGED vars
  BY <1>8 DEF TimeoutPasses, copies, vars, Quiet, NeverForgotten, isTerminal
<1> QED BY <1>1, <1>2, <1>3, <1>4, <1>5, <1>6, <1>7, <1>8 DEF Next

(* No reconcile of a valid action ends for good before the action has its  *)
(* outcome and its labels: whatever fails or lags, Reconcile asks for a    *)
(* requeue or leaves behind a write the informer has yet to deliver.       *)
THEOREM NotForgotten == Spec => []NeverForgotten
<1>1. Init => NeverForgotten
  BY DEF Init, NeverForgotten, Quiet
<1> QED BY TypeInit, TypeStep, LifecycleInit, LifecycleStep, <1>1, ForgottenStep, PTL DEF Spec

-----------------------------------------------------------------------------
(* One attempt at a time, and nothing after the outcome                    *)

Writing == {"event", "persist"}

SameAttempt(s, r) == observedAttempts(s) = observedAttempts(r)

OnlyLeakedLive == \A n \in Attempts : Live(n) => n \in leaked

(* A reconcile that started on the current resource stays current until it *)
(* writes: nobody else stores a status.  Only the in-place restart moves   *)
(* the working copy to another attempt, and no pod is left running then.   *)
CurrentInv ==
    /\ pc \in Working \cup Writing => ~isTerminal(cr.status)
    /\ pc = "label" => isTerminal(cr.status)
    /\ pc \in Working => SameAttempt(ta.status, cr.status)
    /\ pc \in Writing => SameAttempt(ta.status, cr.status) \/ OnlyLeakedLive
    /\ LabelledIsTerminal
    /\ OnlyCurrentAttemptLives

LEMMA AttemptKept ==
    ASSUME NEW s \in StatusType, NEW phase \in Phases, NEW b \in BOOLEAN
    PROVE  /\ SameAttempt(mapPhaseToConditions(s, phase), s)
           /\ SameAttempt(Advance(s, phase), s)
           /\ SameAttempt([Advance(s, phase) EXCEPT !.started = b], s)
           /\ SameAttempt([s EXCEPT !.started = b], s)
<1> DEFINE m == mapPhaseToConditions(s, phase)
           a == Advance(s, phase)
<1>1. m \in StatusType /\ m.attempts = s.attempts
  BY MapPhaseType DEF mapPhaseToConditions, StatusType
<1>2. a \in StatusType
  BY AdvanceType
<1>3. a = [m EXCEPT !.sys = 0, !.attempts = observedAttempts(s)]
  BY DEF Advance
<1> HIDE DEF m, a
<1>4. a.attempts = observedAttempts(s)
  BY <1>1, <1>3 DEF StatusType
<1>5. observedAttempts(s) \in Nat \ {0}
  BY ObservedType, ConstantsAssumption DEF ConstantsAssumption, Attempts
<1>6. SameAttempt(m, s) /\ SameAttempt(a, s)
  BY <1>1, <1>4, <1>5 DEF SameAttempt, observedAttempts
<1>7. [a EXCEPT !.started = b].attempts = a.attempts /\ [s EXCEPT !.started = b].attempts = s.attempts
  BY <1>2 DEF StatusType
<1> QED BY <1>6, <1>7 DEF SameAttempt, observedAttempts, m, a

(* What a step does to the pods that live: at most the current attempt's   *)
(* is created, and what the restart could not abort is remembered.         *)
LEMMA LiveStep ==
    ASSUME TypeInv, [Next]_vars
    PROVE  /\ leaked \subseteq leaked'
           /\ \A n \in Attempts : Live(n)' => Live(n) \/ (LaunchPod /\ n = Attempt)
<1>0. pods \in [Attempts -> PodStates] /\ Attempt \in Attempts
  BY AttemptType DEF TypeInv, TypeOK
<1>1. CASE ExpireTask \/ ResetPlugin \/ AbortForDeletion
  BY <1>0, <1>1 DEF ExpireTask, ResetPlugin, AbortForDeletion, history, Abort, Live
<1>2. CASE RestartInPlace
  BY <1>0, <1>2 DEF RestartInPlace, history, Abort, Live
<1>3. CASE LaunchPod
  BY <1>0, <1>3 DEF LaunchPod, history, Live
<1>4. CASE NothingToDo \/ StartFinalize \/ StartLabels \/ FailValidation \/ AddFinalizer \/ StartTask
           \/ EvaluateCache \/ PodLost \/ PodGivenUp \/ PodObserved \/ PodUnreadable
  BY <1>4 DEF NothingToDo, StartFinalize, StartLabels, FailValidation, AddFinalizer, StartTask,
              EvaluateCache, PodLost, PodGivenUp, PodObserved, PodUnreadable, SystemRetryable,
              history, Live
<1>5. CASE RecordSystemError \/ RecordEvent \/ PersistStatus \/ EnsureTerminalLabels
           \/ FinalizePlugin \/ RecordAbortEvent \/ RemoveFinalizer
  BY <1>5 DEF RecordSystemError, RecordEvent, PersistStatus, EnsureTerminalLabels,
              FinalizePlugin, RecordAbortEvent, RemoveFinalizer, history, Live
<1>6. CASE CacheSync \/ DeleteResource \/ CollectGarbage \/ TimeoutPasses \/ Crash
  BY <1>6 DEF CacheSync, DeleteResource, CollectGarbage, Delete, TimeoutPasses, Crash, history, Live
<1>7. CASE \E n \in Attempts : PodProgress(n) \/ PodKilled(n) \/ PodCascade(n)
  BY <1>0, <1>7 DEF PodProgress, PodKilled, PodCascade, PodChange, history, Live
<1>8. CASE UNCHANGED vars
  BY <1>8 DEF vars, Live
<1> QED BY <1>1, <1>2, <1>3, <1>4, <1>5, <1>6, <1>7, <1>8 DEF Next, Reconcile

(* The stored status changes hands in three steps only.                    *)
LEMMA StatusWrites ==
    ASSUME TypeInv, [Next]_vars
    PROVE  \/ cr'.status = cr.status /\ cr'.labelled = cr.labelled
           \/ FailValidation /\ SameAttempt(cr'.status, cr.status) /\ ~isTerminal(cr.status)
              /\ isTerminal(cr'.status)
           \/ RecordSystemError /\ SameAttempt(cr'.status, ta.status) /\ pc' = "idle"
              /\ cr'.labelled = cr.labelled
           \/ PersistStatus /\ cr'.status = ta.status /\ cr'.labelled = cr.labelled
           \/ EnsureTerminalLabels /\ cr'.status = cr.status
<1>0. cr \in ResourceType
  BY DEF TypeInv, TypeOK
<1>1. CASE FailValidation
  <2> DEFINE failed == [cr.status EXCEPT !.outcome = "failed"]
  <2>0. isTerminal(failed) /\ observedAttempts(failed) = observedAttempts(cr.status)
    BY <1>0 DEF ResourceType, StatusType, isTerminal, observedAttempts
  <2>1. UNCHANGED cr \/ (seen = cr /\ cr' = [cr EXCEPT !.status = failed])
    BY <1>1 DEF FailValidation
  <2>2. ~isTerminal(seen.status)
    BY <1>1 DEF FailValidation, Running
  <2> HIDE DEF failed
  <2> QED BY <1>0, <1>1, <2>0, <2>1, <2>2 DEF ResourceType, SameAttempt
<1>2. CASE RecordSystemError
  <2> DEFINE counted == [ta.status EXCEPT !.sys = @ + 1]
  <2>0. observedAttempts(counted) = observedAttempts(ta.status)
    BY DEF TypeInv, TypeOK, ResourceType, StatusType, observedAttempts
  <2>1. UNCHANGED cr \/ (cr' = [cr EXCEPT !.status = counted] /\ Return(TRUE))
    BY <1>2 DEF RecordSystemError
  <2> HIDE DEF counted
  <2> QED BY <1>0, <1>2, <2>0, <2>1 DEF ResourceType, Return, SameAttempt
<1>3. CASE PersistStatus
  <2>1. UNCHANGED cr \/ cr' = [cr EXCEPT !.status = ta.status]
    BY <1>3 DEF PersistStatus
  <2> QED BY <1>0, <1>3, <2>1 DEF ResourceType
<1>4. CASE EnsureTerminalLabels
  BY <1>0, <1>4 DEF EnsureTerminalLabels, ResourceType
<1>5. CASE AddFinalizer \/ RemoveFinalizer \/ DeleteResource \/ CollectGarbage
  BY <1>0, <1>5 DEF AddFinalizer, RemoveFinalizer, DeleteResource, CollectGarbage, Delete, ResourceType
<1>6. CASE NothingToDo \/ StartFinalize \/ StartLabels \/ StartTask
  BY <1>6 DEF NothingToDo, StartFinalize, StartLabels, StartTask
<1>7. CASE ExpireTask \/ EvaluateCache \/ LaunchPod \/ PodLost \/ PodGivenUp \/ PodObserved
           \/ PodUnreadable \/ ResetPlugin \/ RestartInPlace
  BY <1>7 DEF ExpireTask, EvaluateCache, LaunchPod, PodLost, PodGivenUp, PodObserved,
              PodUnreadable, ResetPlugin, RestartInPlace, SystemRetryable
<1>8. CASE RecordEvent \/ AbortForDeletion \/ FinalizePlugin \/ RecordAbortEvent
  BY <1>8 DEF RecordEvent, AbortForDeletion, FinalizePlugin, RecordAbortEvent
<1>9. CASE CacheSync \/ TimeoutPasses \/ Crash
           \/ \E n \in Attempts : PodProgress(n) \/ PodKilled(n) \/ PodCascade(n)
  BY <1>9 DEF CacheSync, TimeoutPasses, Crash, PodProgress, PodKilled, PodCascade, PodChange
<1>10. CASE UNCHANGED vars
  BY <1>10 DEF vars
<1> QED BY <1>1, <1>2, <1>3, <1>4, <1>5, <1>6, <1>7, <1>8, <1>9, <1>10 DEF Next, Reconcile

(* Where a running reconcile comes from.                                   *)
Comes ==
    \/ pc' \in {"idle", "abort", "finalize", "abortEvent", "removeFinalizer"}
    \/ pc' = pc /\ ta' = ta /\ ~PersistStatus /\ ~FailValidation /\ ~RecordSystemError
    \/ pc' \in Working /\ StartTask /\ ta' = cr /\ ~isTerminal(cr.status)
    \/ pc' = "label" /\ StartLabels /\ isTerminal(cr.status)
    \/ pc \in Working /\ pc' \in Working \cup {"event"} /\ SameAttempt(ta'.status, ta.status)
    \/ pc \in Working /\ pc' = "event" /\ RestartInPlace
    \/ pc = "event" /\ pc' = "persist" /\ ta' = ta
    \/ pc' = "label" /\ PersistStatus /\ cr'.status = ta.status /\ isTerminal(ta.status)

(* A step of the working reconcile that announces a status for the attempt.*)
LEMMA ComesUpdate ==
    ASSUME TypeInv, pc \in Working, NEW s, SameAttempt(s, ta.status), Update(s)
    PROVE  Comes
BY UpdateOutcome DEF Comes, Return

LEMMA ComesAdvance ==
    ASSUME TypeInv, pc \in Working, NEW phase \in Phases,
           \/ Update(Advance(ta.status, phase))
           \/ finalizePermanentFailure(ta.status)
           \/ \E b \in BOOLEAN : Update([Advance(ta.status, phase) EXCEPT !.started = b])
    PROVE  Comes
<1>1. ta.status \in StatusType /\ "PermanentFailure" \in Phases
  BY AttemptType DEF Phases
<1>2. SameAttempt(mapPhaseToConditions(ta.status, "PermanentFailure"), ta.status)
  BY <1>1, AttemptKept
<1>3. SameAttempt(Advance(ta.status, phase), ta.status)
  BY <1>1, AttemptKept
<1>4. ASSUME NEW b \in BOOLEAN
      PROVE  SameAttempt([Advance(ta.status, phase) EXCEPT !.started = b], ta.status)
  BY <1>1, AttemptKept
<1> QED BY <1>2, <1>3, <1>4, ComesUpdate DEF finalizePermanentFailure

LEMMA ComesGoto ==
    ASSUME pc \in Working, NEW step \in Working, Goto(step)
    PROVE  Comes
BY DEF Goto, copies, Comes, SameAttempt

LEMMA ComesStep == ASSUME ~StaleReads, TypeInv, [Next]_vars PROVE Comes
<1>0. ta.status \in StatusType
  BY AttemptType
<1>1. CASE StartTask
  BY <1>1 DEF StartTask, Start, Running, Working, Comes
<1>2. CASE StartLabels
  BY <1>2 DEF StartLabels, Start, Comes
<1>3. CASE NothingToDo \/ StartFinalize \/ FailValidation
  BY <1>3 DEF NothingToDo, StartFinalize, FailValidation, Start, Comes
<1>4. CASE AddFinalizer
  BY <1>4 DEF AddFinalizer, copies, Comes
<1>5. CASE ExpireTask
  <2>1. pc \in Working /\ "TimedOut" \in Phases
    BY <1>5 DEF ExpireTask, Working, Phases
  <2>2. \/ Update([Advance(ta.status, "TimedOut") EXCEPT !.started = FALSE])
        \/ Return(TRUE)
    BY <1>5 DEF ExpireTask
  <2> QED BY <2>1, <2>2, ComesAdvance DEF Return, Comes
<1>6. CASE EvaluateCache
  <2>1. pc \in Working /\ "handle" \in Working /\ {"Success", "WaitingForCache"} \subseteq Phases
    BY <1>6 DEF EvaluateCache, Working, Phases
  <2>2. \/ Goto("handle") \/ Return(TRUE)
        \/ Update(Advance(ta.status, "Success")) \/ Update(Advance(ta.status, "WaitingForCache"))
    BY <1>6 DEF EvaluateCache
  <2> QED BY <2>1, <2>2, ComesGoto, ComesAdvance DEF Return, Comes
<1>7. CASE LaunchPod \/ PodObserved
  <2>1. pc \in Working /\ {"sysError", "restart"} \subseteq Working
    BY <1>7 DEF LaunchPod, PodObserved, Working
  <2>2. \/ Update([Advance(ta.status, "Queued") EXCEPT !.started = TRUE])
        \/ Goto("sysError") \/ UserFailure \/ finalizePermanentFailure(ta.status)
        \/ \E phase \in Phases : Update(Advance(ta.status, phase))
    BY <1>7 DEF LaunchPod, PodObserved, Phases
  <2>3. {"Queued", "PermanentFailure"} \subseteq Phases
    BY DEF Phases
  <2> QED BY <2>1, <2>2, <2>3, UserFailureOutcome, ComesGoto, ComesAdvance
<1>8. CASE PodLost \/ PodGivenUp \/ PodUnreadable
  BY <1>8, ComesGoto DEF PodLost, PodGivenUp, PodUnreadable, SystemRetryable, Working
<1>9. CASE ResetPlugin
  <2>1. pc \in Working /\ pc' \in Working
    BY <1>9 DEF ResetPlugin, Working
  <2>2. ta'.status = [ta.status EXCEPT !.started = FALSE]
    BY <1>9 DEF ResetPlugin, TypeInv, TypeOK, ResourceType
  <2>3. SameAttempt(ta'.status, ta.status)
    BY <1>0, <2>2 DEF StatusType, SameAttempt, observedAttempts
  <2> QED BY <2>1, <2>3 DEF Comes
<1>10. CASE RecordSystemError
  <2> DEFINE counted == [ta.status EXCEPT !.sys = @ + 1]
  <2>0. pc \in Working
    BY <1>10 DEF RecordSystemError, Working
  <2>1. finalizePermanentFailure(counted) \/ Return(TRUE)
    BY <1>10 DEF RecordSystemError
  <2>2. SameAttempt(mapPhaseToConditions(counted, "PermanentFailure"), ta.status)
    BY <1>0 DEF mapPhaseToConditions, StatusType, SameAttempt, observedAttempts
  <2> HIDE DEF counted
  <2> QED BY <2>0, <2>1, <2>2, ComesUpdate DEF finalizePermanentFailure, Return, Comes
<1>11. CASE RestartInPlace
  <2>1. pc \in Working /\ \E s : Update(s)
    BY <1>11 DEF RestartInPlace, Working
  <2> QED BY <1>11, <2>1, UpdateOutcome DEF Return, Comes
<1>12. CASE RecordEvent
  BY <1>12 DEF RecordEvent, Goto, copies, Return, Comes
<1>13. CASE PersistStatus
  <2>1. \/ cr' = [cr EXCEPT !.status = ta.status] /\ isTerminal(ta.status) /\ Goto("label")
        \/ Return(TRUE)
    BY <1>13 DEF PersistStatus
  <2>2. cr' = [cr EXCEPT !.status = ta.status] => cr'.status = ta.status
    BY DEF TypeInv, TypeOK, ResourceType
  <2> QED BY <1>13, <2>1, <2>2 DEF Goto, Return, Comes
<1>14. CASE EnsureTerminalLabels
  BY <1>14 DEF EnsureTerminalLabels, Return, Comes
<1>15. CASE AbortForDeletion \/ FinalizePlugin \/ RecordAbortEvent \/ RemoveFinalizer
  BY <1>15 DEF AbortForDeletion, FinalizePlugin, RecordAbortEvent, RemoveFinalizer, Goto, Return, Comes
<1>16. CASE CacheSync \/ DeleteResource \/ CollectGarbage \/ TimeoutPasses
            \/ \E n \in Attempts : PodProgress(n) \/ PodKilled(n) \/ PodCascade(n)
  <2>1. pc' = pc /\ ta' = ta
    BY <1>16 DEF CacheSync, DeleteResource, CollectGarbage, Delete, TimeoutPasses, copies,
                 PodProgress, PodKilled, PodCascade, PodChange
  <2>2. CASE PersistStatus \/ FailValidation \/ RecordSystemError
    BY <1>13, <1>3, <1>10, <2>2
  <2> QED BY <2>1, <2>2 DEF Comes
<1>17. CASE Crash
  BY <1>17 DEF Crash, Return, Comes
<1>18. CASE UNCHANGED vars
  BY <1>3, <1>10, <1>13, <1>18 DEF vars, Comes
<1> QED BY <1>1, <1>2, <1>3, <1>4, <1>5, <1>6, <1>7, <1>8, <1>9, <1>10, <1>11, <1>12, <1>13, <1>14,
           <1>15, <1>16, <1>17, <1>18 DEF Next, Reconcile

LEMMA RestartLeavesNoPod ==
    ASSUME TypeInv, OnlyCurrentAttemptLives, SameAttempt(ta.status, cr.status), RestartInPlace
    PROVE  OnlyLeakedLive'
<1>1. pods \in [Attempts -> PodStates] /\ Attempt \in Attempts
  BY AttemptType DEF TypeInv, TypeOK
<1>2. \A n \in Attempts : Live(n) => n = Attempt \/ n \in leaked
  BY DEF OnlyCurrentAttemptLives, SameAttempt, Attempt
<1>3. CASE Abort(Attempt) /\ UNCHANGED leaked
  BY <1>1, <1>2, <1>3 DEF Abort, Live, OnlyLeakedLive
<1>4. CASE UNCHANGED pods /\ leaked' = leaked \cup {Attempt}
  BY <1>2, <1>4 DEF Live, OnlyLeakedLive
<1> QED BY <1>3, <1>4 DEF RestartInPlace

LEMMA CurrentStep == ~StaleReads /\ TypeInv /\ CurrentInv /\ [Next]_vars => CurrentInv'
<1> SUFFICES ASSUME ~StaleReads, TypeInv, CurrentInv, [Next]_vars PROVE CurrentInv'
  OBVIOUS
<1> USE DEF CurrentInv
<1>0. Comes /\ leaked \subseteq leaked' /\ (OnlyLeakedLive /\ ~LaunchPod => OnlyLeakedLive')
  BY ComesStep, LiveStep DEF OnlyLeakedLive
<1>00. /\ PersistStatus => pc = "persist"
       /\ RecordSystemError => pc = "sysError"
       /\ EnsureTerminalLabels => pc = "label" /\ pc' = "idle"
       /\ FailValidation => pc' = "idle"
       /\ LaunchPod => pc = "handle"
       /\ StartTask => UNCHANGED cr
       /\ StartLabels => UNCHANGED cr
       /\ RestartInPlace => UNCHANGED cr
  BY DEF PersistStatus, RecordSystemError, EnsureTerminalLabels, FailValidation, Start, Return,
         LaunchPod, StartTask, StartLabels, RestartInPlace
<1>1. pc' \in Working \cup Writing => ~isTerminal(cr'.status)
  BY <1>0, <1>00, StatusWrites DEF Comes, Working, Writing, isTerminal
<1>2. pc' = "label" => isTerminal(cr'.status)
  BY <1>0, <1>00, StatusWrites DEF Comes, Working, isTerminal
<1>3. pc' \in Working => SameAttempt(ta'.status, cr'.status)
  BY <1>0, <1>00, StatusWrites DEF Comes, Working, SameAttempt
<1>4. pc' \in Writing => SameAttempt(ta'.status, cr'.status) \/ OnlyLeakedLive'
  BY <1>0, <1>00, StatusWrites, RestartLeavesNoPod DEF Comes, Working, Writing, SameAttempt
<1>5. LabelledIsTerminal'
  <2>1. isTerminal(cr.status) /\ cr'.labelled => isTerminal(cr'.status)
    BY <1>00, StatusWrites DEF Working, Writing, isTerminal
  <2>2. cr'.labelled => cr.labelled \/ isTerminal(cr'.status) \/ pc = "label"
    BY <1>00, StatusWrites
  <2> QED BY <2>1, <2>2 DEF LabelledIsTerminal, isTerminal
<1>6. OnlyCurrentAttemptLives'
  <2>1. CASE LaunchPod
    <3>1. cr' = cr /\ SameAttempt(ta.status, cr.status)
      BY <2>1 DEF LaunchPod, Working
    <3> QED BY <2>1, <3>1, LiveStep DEF OnlyCurrentAttemptLives, SameAttempt, Attempt
  <2>2. CASE ~LaunchPod /\ SameAttempt(cr'.status, cr.status)
    BY <2>2, LiveStep DEF OnlyCurrentAttemptLives, SameAttempt
  <2>3. CASE ~LaunchPod /\ OnlyLeakedLive
    BY <1>0, <2>3 DEF OnlyLeakedLive, OnlyCurrentAttemptLives
  <2>4. SameAttempt(cr'.status, cr.status) \/ OnlyLeakedLive
    BY <1>00, StatusWrites DEF SameAttempt, Working, Writing
  <2>5. LaunchPod \/ ~LaunchPod
    OBVIOUS
  <2> QED BY <2>1, <2>2, <2>3, <2>4, <2>5
<1> QED BY <1>1, <1>2, <1>3, <1>4, <1>5, <1>6

LEMMA CurrentInit == Init => CurrentInv
<1> SUFFICES ASSUME Init PROVE CurrentInv
  OBVIOUS
<1>1. cr \in ResourceType /\ ~cr.labelled /\ pods = [n \in Attempts |-> "none"]
  BY BlankType DEF Init, Blank, ResourceType
<1>2. pc = "idle"
  BY DEF Init
<1> QED BY <1>1, <1>2
        DEF CurrentInv, Working, Writing, LabelledIsTerminal, OnlyCurrentAttemptLives, Live

LEMMA CurrentHolds == ASSUME ~StaleReads PROVE Spec => [](TypeInv /\ CurrentInv)
<1>1. TypeInv /\ CurrentInv /\ [Next]_vars => CurrentInv'
  BY CurrentStep
<1> QED BY TypeInit, TypeStep, CurrentInit, <1>1, PTL DEF Spec

(* Two attempts of one action compute side by side only when the restart   *)
(* could not abort the first: as long as reads are current.  (With stale   *)
(* reads persistStatusWithRetry can put an old attempt back.)              *)
THEOREM OneAttempt == ASSUME ~StaleReads PROVE Spec => []OnlyCurrentAttemptLives
<1>1. CurrentInv => OnlyCurrentAttemptLives
  BY DEF CurrentInv
<1>2. Spec => [](TypeInv /\ CurrentInv)
  BY CurrentHolds
<1> QED BY <1>1, <1>2, PTL

(* ensureTerminalLabels runs for a stored outcome only, so the collector   *)
(* never selects an action that is still running.                          *)
THEOREM LabelsFollowOutcome == ASSUME ~StaleReads PROVE Spec => []LabelledIsTerminal
<1>1. CurrentInv => LabelledIsTerminal
  BY DEF CurrentInv
<1>2. Spec => [](TypeInv /\ CurrentInv)
  BY CurrentHolds
<1> QED BY <1>1, <1>2, PTL

(* The first outcome the reconciler stores is the action's outcome.        *)
THEOREM OutcomeStays == ASSUME ~StaleReads PROVE Spec => TerminalIsFinal
<1>1. TypeInv /\ CurrentInv /\ [Next]_vars
      => [isTerminal(cr.status) => cr'.status.outcome = cr.status.outcome]_vars
  <2> SUFFICES ASSUME TypeInv, CurrentInv, [Next]_vars, isTerminal(cr.status)
               PROVE  cr'.status.outcome = cr.status.outcome
    OBVIOUS
  <2>1. ~RecordSystemError /\ ~PersistStatus
    BY DEF CurrentInv, RecordSystemError, PersistStatus, Working, Writing
  <2> QED BY <2>1, StatusWrites
<1>2. Spec => [](TypeInv /\ CurrentInv)
  BY CurrentHolds
<1> QED BY <1>1, <1>2, PTL DEF TerminalIsFinal, Spec

(* launchResource creates a pod for the attempt the stored status names,   *)
(* and for no finished action.                                             *)
THEOREM LaunchIsCurrent == ASSUME ~StaleReads PROVE Spec => NoLaunchAfterTerminal
<1>1. TypeInv /\ CurrentInv /\ [Next]_vars
      => [\A n \in Attempts : pods[n] = "none" /\ pods'[n] = "pending" =>
            ~isTerminal(cr.status) /\ n = observedAttempts(cr.status)]_vars
  <2> SUFFICES ASSUME TypeInv, CurrentInv, [Next]_vars, NEW n \in Attempts,
                      pods[n] = "none", pods'[n] = "pending"
               PROVE  ~isTerminal(cr.status) /\ n = observedAttempts(cr.status)
    OBVIOUS
  <2>1. LaunchPod /\ n = Attempt
    BY LiveStep DEF Live
  <2>2. pc \in Working
    BY <2>1 DEF LaunchPod, Working
  <2> QED BY <2>1, <2>2 DEF CurrentInv, SameAttempt, Attempt
<1>2. Spec => [](TypeInv /\ CurrentInv)
  BY CurrentHolds
<1> QED BY <1>1, <1>2, PTL DEF NoLaunchAfterTerminal, Spec

-----------------------------------------------------------------------------
(* The pod goes before the finalizer                                       *)

Finalizing == {"abort", "finalize", "abortEvent", "removeFinalizer"}

Held(r) == r.exists /\ ~r.deleting /\ r.finalizer

(* A task is only worked on while the finalizer holds its resource: a copy *)
(* that shows the finalizer and no deletion cannot outlive it, because the *)
(* finalizer is removed by a reconcile that has seen the deletion.         *)
HeldInv ==
    /\ Held(seen) => cr.finalizer
    /\ pc \in Working \cup Writing => cr.finalizer
    /\ pc \in Finalizing => seen.deleting /\ ta = base
    /\ pc \in Finalizing \ {"abort"} => ~Live(Attempt)
    /\ ~cr.finalizer => OnlyLeakedLive

LEMMA HeldInit == Init => HeldInv
<1> SUFFICES ASSUME Init PROVE HeldInv
  OBVIOUS
<1>1. ~seen.finalizer /\ pc = "idle" /\ pods = [n \in Attempts |-> "none"]
  BY DEF Init, Blank
<1> QED BY <1>1 DEF HeldInv, Held, Working, Writing, Finalizing, OnlyLeakedLive, Live

(* Where a finalizing reconcile comes from, and what it leaves alone.      *)
LEMMA FinalizingComes ==
    ASSUME TypeInv, [Next]_vars, pc' \in Finalizing
    PROVE  \/ pc' = "abort" /\ seen.deleting /\ ta' = base' /\ seen' = seen
           \/ pc' = "finalize" /\ AbortForDeletion /\ Abort(Attempt) /\ pc = "abort"
              /\ UNCHANGED <<ta, base, seen>>
           \/ pc' \in Finalizing \ {"abort"} /\ pc \in Finalizing \ {"abort"}
              /\ UNCHANGED <<ta, base>>
           \/ pc' = "abort" /\ pc = "abort" /\ UNCHANGED <<ta, base>>
<1> USE DEF Finalizing
<1>1. CASE NothingToDo \/ StartLabels \/ FailValidation \/ StartTask
  BY <1>1 DEF NothingToDo, StartLabels, FailValidation, StartTask, Start
<1>2. CASE StartFinalize
  BY <1>2 DEF StartFinalize, Start
<1>3. CASE AddFinalizer
  BY <1>3 DEF AddFinalizer
<1>4. CASE ExpireTask \/ EvaluateCache \/ LaunchPod \/ PodObserved \/ RestartInPlace \/ RecordSystemError
  <2>1. \/ Return(TRUE)
        \/ \E s : Update(s)
        \/ Goto("handle") \/ Goto("sysError") \/ Goto("restart")
    BY <1>4 DEF ExpireTask, EvaluateCache, LaunchPod, PodObserved, RestartInPlace,
                RecordSystemError, UserFailure, finalizePermanentFailure
  <2> QED BY <2>1, UpdateOutcome DEF Return, Goto
<1>5. CASE PodLost \/ PodGivenUp \/ PodUnreadable \/ ResetPlugin
  BY <1>5 DEF PodLost, PodGivenUp, PodUnreadable, ResetPlugin, SystemRetryable, Goto
<1>6. CASE RecordEvent \/ PersistStatus \/ EnsureTerminalLabels \/ RemoveFinalizer \/ Crash
  BY <1>6 DEF RecordEvent, PersistStatus, EnsureTerminalLabels, RemoveFinalizer, Crash, Goto, Return
<1>7. CASE AbortForDeletion
  BY <1>7 DEF AbortForDeletion, Goto, copies, Return
<1>8. CASE FinalizePlugin \/ RecordAbortEvent
  BY <1>8 DEF FinalizePlugin, RecordAbortEvent, Goto, copies, Return
<1>9. CASE CacheSync \/ DeleteResource \/ CollectGarbage \/ TimeoutPasses
           \/ \E n \in Attempts : PodProgress(n) \/ PodKilled(n) \/ PodCascade(n)
  BY <1>9 DEF CacheSync, DeleteResource, CollectGarbage, Delete, TimeoutPasses, copies,
              PodProgress, PodKilled, PodCascade, PodChange
<1>10. CASE UNCHANGED vars
  BY <1>10 DEF vars
<1> QED BY <1>1, <1>2, <1>3, <1>4, <1>5, <1>6, <1>7, <1>8, <1>9, <1>10 DEF Next, Reconcile

(* Where a working reconcile comes from, whatever the reads are.           *)
LEMMA WorkingComes ==
    ASSUME TypeInv, [Next]_vars, pc' \in Working \cup Writing
    PROVE  (StartTask /\ seen' = seen /\ cr' = cr) \/ pc \in Working \cup Writing
<1> USE DEF Working, Writing
<1>1. CASE NothingToDo \/ StartFinalize \/ StartLabels \/ FailValidation \/ AddFinalizer
  BY <1>1 DEF NothingToDo, StartFinalize, StartLabels, FailValidation, AddFinalizer, Start
<1>2. CASE StartTask
  BY <1>2 DEF StartTask
<1>3. CASE ExpireTask \/ EvaluateCache \/ LaunchPod \/ PodObserved \/ RestartInPlace \/ RecordSystemError
           \/ PodLost \/ PodGivenUp \/ PodUnreadable \/ ResetPlugin \/ RecordEvent \/ PersistStatus
  BY <1>3 DEF ExpireTask, EvaluateCache, LaunchPod, PodObserved, RestartInPlace, RecordSystemError,
              PodLost, PodGivenUp, PodUnreadable, ResetPlugin, RecordEvent, PersistStatus
<1>4. CASE EnsureTerminalLabels \/ RemoveFinalizer \/ AbortForDeletion \/ FinalizePlugin
           \/ RecordAbortEvent \/ Crash
  BY <1>4 DEF EnsureTerminalLabels, RemoveFinalizer, AbortForDeletion, FinalizePlugin,
              RecordAbortEvent, Crash, Goto, Return
<1>5. CASE CacheSync \/ DeleteResource \/ CollectGarbage \/ TimeoutPasses
           \/ \E n \in Attempts : PodProgress(n) \/ PodKilled(n) \/ PodCascade(n)
  BY <1>5 DEF CacheSync, DeleteResource, CollectGarbage, Delete, TimeoutPasses,
              PodProgress, PodKilled, PodCascade, PodChange
<1>6. CASE UNCHANGED vars
  BY <1>6 DEF vars
<1> QED BY <1>1, <1>2, <1>3, <1>4, <1>5, <1>6 DEF Next, Reconcile

(* What is known when the finalizer is about to go.                        *)
LEMMA NothingLivesAtRemoval ==
    ASSUME TypeInv, HeldInv, OnlyCurrentAttemptLives, pc = "removeFinalizer", base = cr
    PROVE  OnlyLeakedLive
BY DEF HeldInv, Finalizing, OnlyCurrentAttemptLives, OnlyLeakedLive, Attempt

LEMMA HeldStep ==
    TypeInv /\ LifecycleInv /\ HeldInv /\ OnlyCurrentAttemptLives /\ [Next]_vars => HeldInv'
<1> SUFFICES ASSUME TypeInv, LifecycleInv, HeldInv, OnlyCurrentAttemptLives, [Next]_vars
             PROVE  HeldInv'
  OBVIOUS
<1>0. cr \in ResourceType /\ seen' \in {seen, cr}
  BY SeenFollows DEF TypeInv, TypeOK
<1>00. LifecycleInv'
  BY LifecycleStep
<1>a. AddFinalizer => pc' = pc /\ pc = "idle" /\ seen' = seen
  BY DEF AddFinalizer
<1>b. RemoveFinalizer => pc' = "idle" /\ pc = "removeFinalizer" /\ seen' = seen
                         /\ (cr' = cr \/ base = cr)
  BY DEF RemoveFinalizer, Return
<1>c. Delete => SameMarks(cr', cr) \/ (seen' = seen /\ cr'.finalizer = cr.finalizer /\ pc' = pc)
  BY <1>0 DEF Delete, ResourceType
<1>1. Held(seen') => cr'.finalizer
  <2>1. CASE SameMarks(cr', cr)
    BY <1>0, <2>1 DEF SameMarks, HeldInv, Held
  <2>2. CASE AddFinalizer
    BY <1>0, <1>a, <2>2 DEF AddFinalizer, HeldInv, Held, ResourceType
  <2>3. CASE RemoveFinalizer
    BY <1>b, <2>3 DEF HeldInv, Held, Finalizing
  <2>4. CASE Delete
    BY <1>0, <1>c, <2>1, <2>4 DEF HeldInv, Held
  <2> QED BY <2>1, <2>2, <2>3, <2>4, MarksKept
<1>2. pc' \in Working \cup Writing => cr'.finalizer
  <2> SUFFICES ASSUME pc' \in Working \cup Writing PROVE cr'.finalizer
    OBVIOUS
  <2>1. cr.finalizer
    BY WorkingComes DEF StartTask, Running, HeldInv, Held
  <2> QED BY <1>a, <1>b, <1>c, <2>1, MarksKept DEF SameMarks, Working, Writing
<1>3. pc' \in Finalizing => seen'.deleting /\ ta' = base'
  <2>1. seen.deleting => seen'.deleting
    BY <1>0 DEF LifecycleInv
  <2> QED BY <2>1, FinalizingComes DEF HeldInv, Finalizing
<1>4. pc' \in Finalizing \ {"abort"} => ~Live(Attempt)'
  <2> SUFFICES ASSUME pc' \in Finalizing \ {"abort"} PROVE ~Live(Attempt)'
    OBVIOUS
  <2>1. Attempt \in Attempts /\ pods \in [Attempts -> PodStates]
    BY AttemptType DEF TypeInv, TypeOK
  <2>2. ta' = ta /\ (pc \in Finalizing \ {"abort"} \/ Abort(Attempt))
    BY FinalizingComes
  <2>3. Attempt' = Attempt
    BY <2>2 DEF Attempt
  <2>4. CASE pc \in Finalizing \ {"abort"}
    <3>1. ~Live(Attempt) /\ ~LaunchPod
      BY <2>4 DEF HeldInv, LaunchPod, Finalizing
    <3>2. ~(pods'[Attempt] \in {"pending", "stuck", "running"})
      BY <2>1, <3>1, LiveStep DEF Live
    <3> QED BY <2>3, <3>2 DEF Live
  <2>5. CASE Abort(Attempt)
    <3>1. ~(pods'[Attempt] \in {"pending", "stuck", "running"})
      BY <2>1, <2>5 DEF Abort
    <3> QED BY <2>3, <3>1 DEF Live
  <2> QED BY <2>2, <2>4, <2>5
<1>5. ~cr'.finalizer => OnlyLeakedLive'
  <2> SUFFICES ASSUME ~cr'.finalizer PROVE OnlyLeakedLive'
    OBVIOUS
  <2>1. OnlyLeakedLive /\ ~LaunchPod
    <3>1. CASE ~cr.finalizer
      BY <3>1 DEF HeldInv, LaunchPod, Working
    <3>2. CASE cr.finalizer
      <4>1. RemoveFinalizer /\ base = cr
        BY <1>0, <1>b, <1>c, <3>2, MarksKept DEF SameMarks, AddFinalizer, ResourceType
      <4> QED BY <1>b, <4>1, NothingLivesAtRemoval DEF LaunchPod
    <3> QED BY <3>1, <3>2
  <2> QED BY <2>1, LiveStep DEF OnlyLeakedLive
<1> QED BY <1>1, <1>2, <1>3, <1>4, <1>5 DEF HeldInv, Held

(* The finalizer holds the resource until handleAbortAndFinalize has       *)
(* aborted the attempt's pod: a resource that is gone leaves no pod but    *)
(* one a restart failed to abort.  With one attempt the reads may be stale.*)
THEOREM AbortedBeforeRemoval ==
    ASSUME ~StaleReads \/ MaxAttempts = 1 PROVE Spec => []PodAbortedBeforeRemoval
<1>1. Spec => []OnlyCurrentAttemptLives
  <2>1. CASE ~StaleReads
    BY <2>1, OneAttempt
  <2>2. CASE MaxAttempts = 1
    <3>1. TypeInv => OnlyCurrentAttemptLives
      BY <2>2, ObservedType DEF TypeInv, TypeOK, ResourceType, Attempts, OnlyCurrentAttemptLives
    <3> QED BY <3>1, TypeInit, TypeStep, PTL DEF Spec
  <2> QED BY <2>1, <2>2
<1>2. LifecycleInv /\ HeldInv => PodAbortedBeforeRemoval
  BY DEF LifecycleInv, HeldInv, OnlyLeakedLive, PodAbortedBeforeRemoval
<1> QED BY <1>1, <1>2, TypeInit, TypeStep, LifecycleInit, LifecycleStep, HeldInit, HeldStep, PTL DEF Spec
==============================================================================
