------------------------ MODULE AbortReconciler_proofs ------------------------
(***************************************************************************)
(* That a key of the abort reconciler's queue stands for exactly one task, *)
(* that attempts never outnumber what was paid for them, that a cleared    *)
(* request was carried out, and that a pending one is on its way.          *)
(***************************************************************************)
EXTENDS AbortReconciler, SequenceTheorems, TLAPS

(* What the queue's argument needs of the types.  The bounds on counters   *)
(* play no part in it.                                                     *)
AnyRow == [exists : BOOLEAN, phase : UNSPECIFIED..RECOVERED, attempts : Nat,
           abortRequested : BOOLEAN, abortAttempts : Nat]
Steps == {"idle", "mark", "abort", "clear", "remove"}
Tasks == [pc : Steps, action : Actions \cup {NoAction}, count : Nat]
Stages == {"idle", "list", "wait", "enter", "send"}
QueueType ==
    /\ row \in [Actions -> AnyRow]
    /\ keys \subseteq Actions
    /\ ch \in Seq(Actions)
    /\ worker \in [Workers -> Tasks]
    /\ push \in [Pushers -> [pc : Stages, action : Actions \cup {NoAction}]]
    /\ todo \subseteq Actions

(* Whoever is not idle has an action.                                      *)
Engaged ==
    /\ \A w \in Workers : Busy(w) => worker[w].action \in Actions
    /\ \A p \in Pushers : push[p].pc \in {"wait", "enter", "send"} => push[p].action \in Actions

IInv == QueueType /\ Engaged /\ OneTaskPerAction

-----------------------------------------------------------------------------

LEMMA RowsStayTyped ==
    ASSUME NEW r \in AnyRow
    PROVE  /\ CreateAction(NoRow) \in AnyRow /\ AbortAction(r) \in AnyRow
           /\ MarkAbortAttempt(r) \in AnyRow /\ ClearAbortRequest(r) \in AnyRow
  <1>1. NoRow \in AnyRow
      BY DEF AnyRow, NoRow, UNSPECIFIED, RECOVERED
  <1>2. CreateAction(NoRow) \in AnyRow
    <2>1. CreateAction(NoRow) = [NoRow EXCEPT !.exists = TRUE, !.phase = QUEUED, !.attempts = 1]
        BY DEF CreateAction, NoRow
    <2>2. QUEUED \in UNSPECIFIED..RECOVERED
        BY DEF UNSPECIFIED, QUEUED, RECOVERED
    <2>3. \A n \in AnyRow : [n EXCEPT !.exists = TRUE, !.phase = QUEUED, !.attempts = 1] \in AnyRow
        BY <2>2 DEF AnyRow
    <2> QED BY <1>1, <2>1, <2>3
  <1>3. AbortAction(r) \in AnyRow
    <2>1. ABORTED \in UNSPECIFIED..RECOVERED
        BY DEF UNSPECIFIED, ABORTED, RECOVERED
    <2> QED BY <2>1 DEF AnyRow, AbortAction
  <1>4. MarkAbortAttempt(r) \in AnyRow
      BY DEF AnyRow, MarkAbortAttempt
  <1>5. ClearAbortRequest(r) \in AnyRow
      BY DEF AnyRow, ClearAbortRequest
  <1> QED BY <1>2, <1>3, <1>4, <1>5

LEMMA TasksMove ==
    ASSUME QueueType, NEW w \in Workers
    PROVE  /\ Idle \in Tasks /\ [worker EXCEPT ![w] = Idle] \in [Workers -> Tasks]
           /\ \A step \in Steps : [worker EXCEPT ![w].pc = step] \in [Workers -> Tasks]
           /\ \A step \in Steps, n \in Nat :
                [worker EXCEPT ![w].pc = step, ![w].count = n] \in [Workers -> Tasks]
  <1>1. Idle \in Tasks
      BY DEF Idle, Tasks, Steps
  <1>2. [worker EXCEPT ![w] = Idle] \in [Workers -> Tasks]
      BY <1>1 DEF QueueType
  <1>3. ASSUME NEW step \in Steps PROVE [worker EXCEPT ![w].pc = step] \in [Workers -> Tasks]
      BY <1>3 DEF QueueType, Tasks
  <1>4. ASSUME NEW step \in Steps, NEW n \in Nat
        PROVE  [worker EXCEPT ![w].pc = step, ![w].count = n] \in [Workers -> Tasks]
      BY <1>4 DEF QueueType, Tasks
  <1> QED BY <1>1, <1>2, <1>3, <1>4

LEMMA InitHolds == Init => IInv
  <1> SUFFICES ASSUME Init PROVE IInv
      OBVIOUS
  <1>1. QueueType
    <2>1. row \in [Actions -> AnyRow]
      <3>1. NoRow \in AnyRow
          BY DEF AnyRow, NoRow, UNSPECIFIED, RECOVERED
      <3> QED BY <3>1, RowsStayTyped DEF Init
    <2>2. worker \in [Workers -> Tasks]
        BY DEF Init, Idle, Tasks, Steps
    <2>3. push \in [Pushers -> [pc : Stages, action : Actions \cup {NoAction}]]
        BY DEF Init, NoPush, Stages
    <2>4. ch \in Seq(Actions)
        BY DEF Init
    <2> QED BY <2>1, <2>2, <2>3, <2>4 DEF Init, QueueType
  <1>2. \A w \in Workers : ~Busy(w)
      BY DEF Init, Busy, Idle
  <1>3. \A p \in Pushers : push[p].pc \notin {"wait", "enter", "send"}
      BY DEF Init, NoPush
  <1>4. keys = {} /\ DOMAIN ch = {}
      BY DEF Init
  <1> QED BY <1>1, <1>2, <1>3, <1>4 DEF IInv, Engaged, OneTaskPerAction, HeldIsKeyed, HeldOnce,
             KeyIsHeld, Holds

-----------------------------------------------------------------------------
(* Types                                                                   *)

LEMMA SurroundingsTyped ==
    ASSUME QueueType, Engaged,
           \/ ListPending
           \/ \E a \in Actions : EnqueueAction(a) \/ Collected(a) \/ PushPending(a)
           \/ \E c \in Callers, a \in Actions : RequestAbort(c, a)
    PROVE  QueueType' /\ Engaged'
  <1>1. CASE ListPending
    <2>1. todo' \subseteq Actions
        BY <1>1 DEF ListPending, QueueType
    <2>2. push' \in [Pushers -> [pc : Stages, action : Actions \cup {NoAction}]]
        BY <1>1 DEF ListPending, QueueType, Stages
    <2>3. \A p \in Pushers : push'[p].pc \in {"wait", "enter", "send"} => push'[p] = push[p]
        BY <1>1 DEF ListPending, QueueType
    <2> QED BY <1>1, <2>1, <2>2, <2>3 DEF ListPending, QueueType, Engaged, Busy, queue
  <1>2. ASSUME NEW a \in Actions, EnqueueAction(a) \/ Collected(a) PROVE QueueType' /\ Engaged'
    <2>1. UNCHANGED <<row, keys, ch, worker, push, todo>>
        BY <1>2 DEF EnqueueAction, Collected, queue
    <2> QED BY <2>1 DEF QueueType, Engaged, Busy
  <1>3. ASSUME NEW a \in Actions, PushPending(a) PROVE QueueType' /\ Engaged'
    <2>1. Scanner \in Pushers
        BY DEF Pushers
    <2>2. push' = [push EXCEPT ![Scanner] = [pc |-> "enter", action |-> a]]
        BY <1>3 DEF PushPending
    <2>3. push' \in [Pushers -> [pc : Stages, action : Actions \cup {NoAction}]]
        BY <2>1, <2>2 DEF QueueType, Stages
    <2>4. \A p \in Pushers : push'[p].pc \in {"wait", "enter", "send"} => push'[p].action \in Actions
        BY <2>1, <2>2 DEF QueueType, Engaged
    <2> QED BY <1>3, <2>3, <2>4 DEF PushPending, QueueType, Engaged, Busy, queue
  <1>4. ASSUME NEW c \in Callers, NEW a \in Actions, RequestAbort(c, a)
        PROVE  QueueType' /\ Engaged'
    <2>1. c \in Pushers
        BY DEF Pushers
    <2>2. /\ push' = [push EXCEPT ![c] = [pc |-> "enter", action |-> a]]
          /\ row' = [row EXCEPT ![a] = AbortAction(row[a])]
        BY <1>4 DEF RequestAbort
    <2>3. push' \in [Pushers -> [pc : Stages, action : Actions \cup {NoAction}]]
        BY <2>1, <2>2 DEF QueueType, Stages
    <2>4. \A p \in Pushers : push'[p].pc \in {"wait", "enter", "send"} => push'[p].action \in Actions
        BY <2>1, <2>2 DEF QueueType, Engaged
    <2>5. row' \in [Actions -> AnyRow]
        BY <2>2, RowsStayTyped DEF QueueType
    <2> QED BY <1>4, <2>3, <2>4, <2>5 DEF RequestAbort, QueueType, Engaged, Busy, queue
  <1> QED BY <1>1, <1>2, <1>3, <1>4

LEMMA PushesTyped ==
    ASSUME QueueType, Engaged, NEW p \in Pushers,
           Enter(p) \/ Send(p) \/ (p \in Callers /\ Cancel(p)) \/ (p \in Timers /\ TimerFires(p))
    PROVE  QueueType' /\ Engaged'
  <1>1. CASE Enter(p)
    <2>0. \/ push' = [push EXCEPT ![p] = NoPush]
          \/ push' = [push EXCEPT ![p].pc = "send"]
        BY <1>1 DEF Enter
    <2>1. push' \in [Pushers -> [pc : Stages, action : Actions \cup {NoAction}]]
      <3>1. CASE push' = [push EXCEPT ![p] = NoPush]
          BY <3>1 DEF QueueType, Stages, NoPush
      <3>2. CASE push' = [push EXCEPT ![p].pc = "send"]
          BY <3>2 DEF QueueType, Stages
      <3> QED BY <2>0, <3>1, <3>2
    <2>2. \A q \in Pushers : push'[q].pc \in {"wait", "enter", "send"} => push'[q].action \in Actions
        BY <1>1, <2>0 DEF Enter, QueueType, Engaged, NoPush
    <2>3. keys' \subseteq Actions
        BY <1>1 DEF Enter, QueueType, Engaged
    <2> QED BY <1>1, <2>1, <2>2, <2>3 DEF Enter, QueueType, Engaged, Busy
  <1>2. CASE Send(p)
    <2>1. push' \in [Pushers -> [pc : Stages, action : Actions \cup {NoAction}]]
        BY <1>2 DEF Send, QueueType, Stages, NoPush
    <2>2. \A q \in Pushers : push'[q].pc \in {"wait", "enter", "send"} => push'[q].action \in Actions
        BY <1>2 DEF Send, QueueType, Engaged, NoPush
    <2>3. push[p].action \in Actions
        BY <1>2 DEF Send, Engaged
    <2>4. ch' \in Seq(Actions)
        BY <1>2, <2>3, AppendProperties DEF Send, QueueType
    <2> QED BY <1>2, <2>1, <2>2, <2>4 DEF Send, QueueType, Engaged, Busy
  <1>3. CASE p \in Callers /\ Cancel(p)
    <2>1. push' \in [Pushers -> [pc : Stages, action : Actions \cup {NoAction}]]
        BY <1>3 DEF Cancel, QueueType, Stages, NoPush
    <2>2. \A q \in Pushers : push'[q].pc \in {"wait", "enter", "send"} => push'[q].action \in Actions
        BY <1>3 DEF Cancel, QueueType, Engaged, NoPush
    <2> QED BY <1>3, <2>1, <2>2 DEF Cancel, QueueType, Engaged, Busy
  <1>4. CASE p \in Timers /\ TimerFires(p)
    <2>1. push' \in [Pushers -> [pc : Stages, action : Actions \cup {NoAction}]]
        BY <1>4 DEF TimerFires, QueueType, Stages
    <2>2. \A q \in Pushers : push'[q].pc \in {"wait", "enter", "send"} => push'[q].action \in Actions
        BY <1>4 DEF TimerFires, QueueType, Engaged
    <2> QED BY <1>4, <2>1, <2>2 DEF TimerFires, QueueType, Engaged, Busy
  <1> QED BY <1>1, <1>2, <1>3, <1>4

LEMMA RequeueTyped ==
    ASSUME QueueType, Engaged, NEW w \in Workers, Busy(w), scheduleRequeue(w)
    PROVE  /\ worker' \in [Workers -> Tasks]
           /\ push' \in [Pushers -> [pc : Stages, action : Actions \cup {NoAction}]]
           /\ \A v \in Workers : worker'[v].pc # "idle" => worker'[v].action \in Actions
           /\ \A p \in Pushers : push'[p].pc \in {"wait", "enter", "send"} => push'[p].action \in Actions
  <1>1. PICK t \in Timers : push' = [push EXCEPT ![t] = [pc |-> "wait", action |-> worker[w].action]]
      BY DEF scheduleRequeue
  <1>2. t \in Pushers /\ worker[w].action \in Actions
      BY <1>1 DEF Pushers, Engaged
  <1>3. worker' = [worker EXCEPT ![w] = Idle]
      BY DEF scheduleRequeue
  <1>4. worker' \in [Workers -> Tasks]
      BY <1>3, TasksMove
  <1>5. \A v \in Workers : worker'[v].pc # "idle" => worker'[v].action \in Actions
      BY <1>3 DEF QueueType, Engaged, Busy, Idle
  <1>6. push' \in [Pushers -> [pc : Stages, action : Actions \cup {NoAction}]]
      BY <1>1, <1>2 DEF QueueType, Stages
  <1>7. \A p \in Pushers : push'[p].pc \in {"wait", "enter", "send"} => push'[p].action \in Actions
      BY <1>1, <1>2 DEF QueueType, Engaged
  <1> QED BY <1>4, <1>5, <1>6, <1>7

LEMMA WorkersTyped ==
    ASSUME QueueType, Engaged, NEW w \in Workers, processTask(w)
    PROVE  QueueType' /\ Engaged'
  <1>1. CASE Take(w)
    <2>1. Head(ch) \in Actions /\ ch' \in Seq(Actions)
        BY <1>1, HeadTailProperties DEF Take, QueueType
    <2>2. worker' = [worker EXCEPT ![w] = [pc |-> "mark", action |-> Head(ch), count |-> 0]]
        BY <1>1 DEF Take
    <2>3. worker' \in [Workers -> Tasks]
      <3>1. [pc |-> "mark", action |-> Head(ch), count |-> 0] \in Tasks
          BY <2>1 DEF Tasks, Steps
      <3> QED BY <2>2, <3>1 DEF QueueType
    <2>4. \A v \in Workers : worker'[v].pc # "idle" => worker'[v].action \in Actions
        BY <2>1, <2>2 DEF QueueType, Engaged, Busy
    <2> QED BY <1>1, <2>1, <2>3, <2>4 DEF Take, QueueType, Engaged, Busy
  <1>2. CASE MarkAttempt(w)
    <2> DEFINE a == worker[w].action
               marked == [row EXCEPT ![a] = MarkAbortAttempt(row[a])]
    <2>1. Busy(w) /\ a \in Actions
        BY <1>2 DEF MarkAttempt, Busy, Engaged
    <2>2. marked \in [Actions -> AnyRow] /\ marked[a].abortAttempts \in Nat
        BY <2>1, RowsStayTyped DEF QueueType, AnyRow
    <2>3. row' \in [Actions -> AnyRow]
        BY <1>2, <2>2 DEF MarkAttempt, QueueType
    <2>4. CASE /\ worker' = [worker EXCEPT ![w].pc = "abort", ![w].count = marked[a].abortAttempts]
               /\ UNCHANGED push
      <3>1. worker' \in [Workers -> Tasks]
          BY <2>2, <2>4, TasksMove DEF Steps
      <3>2. \A v \in Workers : worker'[v].pc # "idle" => worker'[v].action \in Actions
          BY <2>1, <2>4 DEF QueueType, Engaged, Busy
      <3> QED BY <1>2, <2>3, <2>4, <3>1, <3>2 DEF MarkAttempt, QueueType, Engaged, Busy, queue
    <2>5. CASE scheduleRequeue(w)
        BY <1>2, <2>1, <2>3, <2>5, RequeueTyped DEF MarkAttempt, QueueType, Engaged, Busy, queue
    <2> QED BY <1>2, <2>4, <2>5 DEF MarkAttempt
  <1>3. CASE CallAbort(w)
    <2>1. Busy(w) /\ UNCHANGED <<row, keys, ch, todo>>
        BY <1>3 DEF CallAbort, Busy, queue
    <2>2. CASE Goto(w, "clear") /\ UNCHANGED push
      <3>1. worker' \in [Workers -> Tasks]
          BY <2>2, TasksMove DEF Goto, Steps
      <3>2. \A v \in Workers : worker'[v].pc # "idle" => worker'[v].action \in Actions
          BY <2>1, <2>2 DEF Goto, QueueType, Engaged, Busy
      <3> QED BY <2>1, <2>2, <3>1, <3>2 DEF QueueType, Engaged, Busy
    <2>3. CASE scheduleRequeue(w)
        BY <2>1, <2>3, RequeueTyped DEF QueueType, Engaged, Busy
    <2> QED BY <1>3, <2>2, <2>3 DEF CallAbort
  <1>4. CASE ClearRequest(w)
    <2>1. Busy(w) /\ worker[w].action \in Actions
        BY <1>4 DEF ClearRequest, Busy, Engaged
    <2>2. row' \in [Actions -> AnyRow]
      <3>1. [row EXCEPT ![worker[w].action] = ClearAbortRequest(row[worker[w].action])]
                \in [Actions -> AnyRow]
          BY <2>1, RowsStayTyped DEF QueueType
      <3> QED BY <1>4, <3>1 DEF ClearRequest, QueueType
    <2>3. worker' \in [Workers -> Tasks]
        BY <1>4, TasksMove DEF ClearRequest, Goto, Steps
    <2>4. \A v \in Workers : worker'[v].pc # "idle" => worker'[v].action \in Actions
        BY <1>4, <2>1 DEF ClearRequest, Goto, QueueType, Engaged, Busy
    <2> QED BY <1>4, <2>2, <2>3, <2>4 DEF ClearRequest, QueueType, Engaged, Busy, queue
  <1>5. CASE RemoveKey(w)
    <2>1. worker' \in [Workers -> Tasks]
        BY <1>5, TasksMove DEF RemoveKey
    <2>2. \A v \in Workers : worker'[v].pc # "idle" => worker'[v].action \in Actions
        BY <1>5 DEF RemoveKey, QueueType, Engaged, Busy, Idle
    <2> QED BY <1>5, <2>1, <2>2 DEF RemoveKey, QueueType, Engaged, Busy
  <1> QED BY <1>1, <1>2, <1>3, <1>4, <1>5 DEF processTask

LEMMA RestartTyped == QueueType /\ Restart => QueueType' /\ Engaged'
  <1> SUFFICES ASSUME QueueType, Restart PROVE QueueType' /\ Engaged'
      OBVIOUS
  <1>1. worker' \in [Workers -> Tasks]
      BY DEF Restart, Tasks, Steps, Idle
  <1>2. push' \in [Pushers -> [pc : Stages, action : Actions \cup {NoAction}]]
      BY DEF Restart, NoPush, Stages
  <1>3. /\ \A w \in Workers : worker'[w].pc = "idle"
        /\ \A p \in Pushers : push'[p].pc \notin {"wait", "enter", "send"}
      BY DEF Restart, Idle, NoPush
  <1>4. ch' \in Seq(Actions)
      BY DEF Restart
  <1> QED BY <1>1, <1>2, <1>3, <1>4 DEF Restart, QueueType, Engaged, Busy

LEMMA StepTyped == QueueType /\ Engaged /\ [Next]_vars => QueueType' /\ Engaged'
  <1> SUFFICES ASSUME QueueType, Engaged, [Next]_vars PROVE QueueType' /\ Engaged'
      OBVIOUS
  <1>1. CASE UNCHANGED vars
      BY <1>1 DEF vars, QueueType, Engaged, Busy
  <1>2. ASSUME NEW p \in Pushers, Enter(p) \/ Send(p) PROVE QueueType' /\ Engaged'
      BY <1>2, PushesTyped
  <1>3. ASSUME NEW c \in Callers, Cancel(c) PROVE QueueType' /\ Engaged'
      BY <1>3, PushesTyped DEF Pushers
  <1>4. ASSUME NEW t \in Timers, TimerFires(t) PROVE QueueType' /\ Engaged'
      BY <1>4, PushesTyped DEF Pushers
  <1>5. CASE Restart
      BY <1>5, RestartTyped
  <1> QED BY <1>1, <1>2, <1>3, <1>4, <1>5, SurroundingsTyped, WorkersTyped DEF Next

-----------------------------------------------------------------------------
(* The queue                                                               *)

SamePushers(S) == \A p \in S : Holds(p)' = Holds(p) /\ (Holds(p) => push'[p].action = push[p].action)
SameWorkers(S) == \A w \in S : Busy(w)' = Busy(w) /\ (Busy(w) => worker'[w].action = worker[w].action)

(* Nobody's task changes hands.                                            *)
LEMMA NothingMoves ==
    ASSUME OneTaskPerAction, UNCHANGED <<keys, ch>>, SamePushers(Pushers), SameWorkers(Workers)
    PROVE  OneTaskPerAction'
  <1>1. HeldIsKeyed'
      BY DEF OneTaskPerAction, HeldIsKeyed, SamePushers, SameWorkers
  <1>2. HeldOnce'
      BY DEF OneTaskPerAction, HeldOnce, SamePushers, SameWorkers
  <1>3. KeyIsHeld'
      BY DEF OneTaskPerAction, KeyIsHeld, SamePushers, SameWorkers
  <1> QED BY <1>1, <1>2, <1>3 DEF OneTaskPerAction

(* A pusher enters a key that is not there.                                *)
LEMMA PusherTakes ==
    ASSUME OneTaskPerAction, NEW p \in Pushers, ~Holds(p), Holds(p)',
           push'[p].action = push[p].action, push[p].action \notin keys,
           keys' = keys \cup {push[p].action}, UNCHANGED ch,
           SamePushers(Pushers \ {p}), SameWorkers(Workers)
    PROVE  OneTaskPerAction'
  <1>1. HeldIsKeyed'
      BY DEF OneTaskPerAction, HeldIsKeyed, SamePushers, SameWorkers
  <1>2. HeldOnce'
      BY DEF OneTaskPerAction, HeldIsKeyed, HeldOnce, SamePushers, SameWorkers
  <1>3. KeyIsHeld'
      BY DEF OneTaskPerAction, KeyIsHeld, SamePushers, SameWorkers
  <1> QED BY <1>1, <1>2, <1>3 DEF OneTaskPerAction

(* A pusher gives its task up, key and all.                                *)
LEMMA PusherDrops ==
    ASSUME OneTaskPerAction, NEW p \in Pushers, Holds(p), ~Holds(p)',
           keys' = keys \ {push[p].action}, UNCHANGED ch,
           SamePushers(Pushers \ {p}), SameWorkers(Workers)
    PROVE  OneTaskPerAction'
  <1>1. HeldIsKeyed'
      BY DEF OneTaskPerAction, HeldIsKeyed, HeldOnce, SamePushers, SameWorkers
  <1>2. HeldOnce'
      BY DEF OneTaskPerAction, HeldOnce, SamePushers, SameWorkers
  <1>3. KeyIsHeld'
      BY DEF OneTaskPerAction, KeyIsHeld, SamePushers, SameWorkers
  <1> QED BY <1>1, <1>2, <1>3 DEF OneTaskPerAction

(* So does a worker.                                                       *)
LEMMA WorkerDrops ==
    ASSUME OneTaskPerAction, NEW w \in Workers, Busy(w), ~Busy(w)',
           keys' = keys \ {worker[w].action}, UNCHANGED ch,
           SamePushers(Pushers), SameWorkers(Workers \ {w})
    PROVE  OneTaskPerAction'
  <1>1. HeldIsKeyed'
      BY DEF OneTaskPerAction, HeldIsKeyed, HeldOnce, SamePushers, SameWorkers
  <1>2. HeldOnce'
      BY DEF OneTaskPerAction, HeldOnce, SamePushers, SameWorkers
  <1>3. KeyIsHeld'
      BY DEF OneTaskPerAction, KeyIsHeld, SamePushers, SameWorkers
  <1> QED BY <1>1, <1>2, <1>3 DEF OneTaskPerAction

(* A worker hands its task to a timer.                                     *)
LEMMA WorkerRequeues ==
    ASSUME OneTaskPerAction, NEW w \in Workers, NEW t \in Pushers, Busy(w), ~Busy(w)',
           ~Holds(t), Holds(t)', push'[t].action = worker[w].action, UNCHANGED <<keys, ch>>,
           SamePushers(Pushers \ {t}), SameWorkers(Workers \ {w})
    PROVE  OneTaskPerAction'
  <1>1. HeldIsKeyed'
      BY DEF OneTaskPerAction, HeldIsKeyed, SamePushers, SameWorkers
  <1>2. HeldOnce'
      BY DEF OneTaskPerAction, HeldOnce, SamePushers, SameWorkers
  <1>3. KeyIsHeld'
      BY DEF OneTaskPerAction, KeyIsHeld, SamePushers, SameWorkers
  <1> QED BY <1>1, <1>2, <1>3 DEF OneTaskPerAction

(* A pusher hands its task to the channel.                                 *)
LEMMA PusherSends ==
    ASSUME QueueType, OneTaskPerAction, NEW p \in Pushers, Holds(p), ~Holds(p)',
           push[p].action \in Actions, ch' = Append(ch, push[p].action), UNCHANGED keys,
           SamePushers(Pushers \ {p}), SameWorkers(Workers)
    PROVE  OneTaskPerAction'
  <1> DEFINE n == Len(ch)
  <1>1. /\ n \in Nat /\ DOMAIN ch = 1..n /\ DOMAIN ch' = 1..(n + 1)
        /\ \A i \in 1..n : ch'[i] = ch[i]
        /\ ch'[n + 1] = push[p].action
      BY AppendProperties, LenProperties DEF QueueType
  <1> HIDE DEF n
  <1>2. \A i \in DOMAIN ch' : (i \in DOMAIN ch /\ ch'[i] = ch[i])
                              \/ (i = n + 1 /\ ch'[i] = push[p].action)
      BY <1>1
  <1>3. HeldIsKeyed'
      BY <1>2 DEF OneTaskPerAction, HeldIsKeyed, SamePushers, SameWorkers
  <1>4. HeldOnce'
      BY <1>2 DEF OneTaskPerAction, HeldOnce, SamePushers, SameWorkers
  <1>5. KeyIsHeld'
    <2>1. \A i \in DOMAIN ch : i \in DOMAIN ch' /\ ch'[i] = ch[i]
        BY <1>1
    <2>2. n + 1 \in DOMAIN ch' /\ ch'[n + 1] = push[p].action
        BY <1>1
    <2> QED BY <2>1, <2>2 DEF OneTaskPerAction, KeyIsHeld, SamePushers, SameWorkers
  <1> QED BY <1>3, <1>4, <1>5 DEF OneTaskPerAction

(* A worker takes the first task of the channel.                           *)
LEMMA WorkerTakes ==
    ASSUME QueueType, OneTaskPerAction, NEW w \in Workers, ~Busy(w), Busy(w)', ch # <<>>,
           worker'[w].action = Head(ch), ch' = Tail(ch), UNCHANGED keys,
           SamePushers(Pushers), SameWorkers(Workers \ {w})
    PROVE  OneTaskPerAction'
  <1> DEFINE n == Len(ch)
  <1>1. /\ n \in Nat \ {0} /\ DOMAIN ch = 1..n /\ DOMAIN ch' = 1..(n - 1)
        /\ \A i \in 1..(n - 1) : ch'[i] = ch[i + 1]
        /\ Head(ch) = ch[1]
      BY HeadTailProperties, LenProperties, EmptySeq DEF QueueType
  <1> HIDE DEF n
  <1>2. /\ \A i \in DOMAIN ch' : i + 1 \in DOMAIN ch /\ ch'[i] = ch[i + 1] /\ i + 1 # 1
        /\ \A i, j \in DOMAIN ch' : i + 1 = j + 1 => i = j
        /\ 1 \in DOMAIN ch
        /\ \A i \in DOMAIN ch : i = 1 \/ (i - 1 \in DOMAIN ch' /\ ch'[i - 1] = ch[i])
      BY <1>1
  <1>3. HeldIsKeyed'
      BY <1>1, <1>2 DEF OneTaskPerAction, HeldIsKeyed, SamePushers, SameWorkers
  <1>4. HeldOnce'
      BY <1>1, <1>2 DEF OneTaskPerAction, HeldOnce, SamePushers, SameWorkers
  <1>5. KeyIsHeld'
    <2> DEFINE held(a) == \/ \E i \in DOMAIN ch' : ch'[i] = a
                          \/ \E v \in Workers : Busy(v)' /\ worker'[v].action = a
                          \/ \E p \in Pushers : Holds(p)' /\ push'[p].action = a
    <2> SUFFICES ASSUME NEW a \in keys PROVE held(a)
        BY DEF KeyIsHeld
    <2>1. CASE \E i \in DOMAIN ch : ch[i] = a
      <3>1. PICK i \in DOMAIN ch : ch[i] = a
          BY <2>1
      <3>2. CASE i = 1
          BY <1>1, <3>1, <3>2
      <3>3. CASE i - 1 \in DOMAIN ch' /\ ch'[i - 1] = ch[i]
          BY <3>1, <3>3
      <3> QED BY <1>2, <3>1, <3>2, <3>3
    <2>2. CASE \E v \in Workers : Busy(v) /\ worker[v].action = a
        BY <2>2 DEF SameWorkers
    <2>3. CASE \E p \in Pushers : Holds(p) /\ push[p].action = a
        BY <2>3 DEF SamePushers
    <2> QED BY <2>1, <2>2, <2>3 DEF OneTaskPerAction, KeyIsHeld
  <1> QED BY <1>3, <1>4, <1>5 DEF OneTaskPerAction

LEMMA StepKeepsQueue == IInv /\ [Next]_vars => OneTaskPerAction'
  <1> SUFFICES ASSUME IInv, [Next]_vars PROVE OneTaskPerAction'
      OBVIOUS
  <1> USE DEF IInv
  <1>1. CASE UNCHANGED vars
      BY <1>1, NothingMoves DEF vars, SamePushers, SameWorkers, Holds, Busy
  <1>2. CASE ListPending
    <2>1. UNCHANGED <<keys, ch, worker>> /\ push' = [push EXCEPT ![Scanner].pc = "idle"]
          /\ push[Scanner].pc = "list"
        BY <1>2 DEF ListPending, queue
    <2>2. SamePushers(Pushers)
        BY <2>1 DEF SamePushers, Holds, QueueType
    <2> QED BY <2>1, <2>2, NothingMoves DEF SameWorkers, Busy
  <1>3. ASSUME NEW a \in Actions, EnqueueAction(a) \/ Collected(a) PROVE OneTaskPerAction'
    <2>1. UNCHANGED <<keys, ch, worker, push>>
        BY <1>3 DEF EnqueueAction, Collected, queue
    <2> QED BY <2>1, NothingMoves DEF SamePushers, SameWorkers, Holds, Busy
  <1>4. ASSUME NEW a \in Actions, PushPending(a) PROVE OneTaskPerAction'
    <2>1. /\ UNCHANGED <<keys, ch, worker>> /\ push[Scanner].pc = "idle" /\ Scanner \in Pushers
          /\ push' = [push EXCEPT ![Scanner] = [pc |-> "enter", action |-> a]]
        BY <1>4 DEF PushPending, queue, Pushers
    <2>2. SamePushers(Pushers)
        BY <2>1 DEF SamePushers, Holds, QueueType
    <2> QED BY <2>1, <2>2, NothingMoves DEF SameWorkers, Busy
  <1>5. ASSUME NEW c \in Callers, NEW a \in Actions, RequestAbort(c, a) PROVE OneTaskPerAction'
    <2>1. /\ UNCHANGED <<keys, ch, worker>> /\ push[c].pc = "idle" /\ c \in Pushers
          /\ push' = [push EXCEPT ![c] = [pc |-> "enter", action |-> a]]
        BY <1>5 DEF RequestAbort, queue, Pushers
    <2>2. SamePushers(Pushers)
        BY <2>1 DEF SamePushers, Holds, QueueType
    <2> QED BY <2>1, <2>2, NothingMoves DEF SameWorkers, Busy
  <1>6. ASSUME NEW p \in Pushers, Enter(p) PROVE OneTaskPerAction'
    <2>1. push[p].pc = "enter" /\ UNCHANGED <<ch, worker>> /\ SameWorkers(Workers)
        BY <1>6 DEF Enter, SameWorkers, Busy
    <2>2. CASE push[p].action \in keys
      <3>1. push' = [push EXCEPT ![p] = NoPush] /\ UNCHANGED keys
          BY <1>6, <2>2 DEF Enter
      <3>2. SamePushers(Pushers)
          BY <2>1, <3>1 DEF SamePushers, Holds, QueueType, NoPush
      <3> QED BY <2>1, <3>1, <3>2, NothingMoves
    <2>3. CASE push[p].action \notin keys
      <3>1. push' = [push EXCEPT ![p].pc = "send"] /\ keys' = keys \cup {push[p].action}
          BY <1>6, <2>3 DEF Enter
      <3>2. SamePushers(Pushers \ {p}) /\ ~Holds(p) /\ Holds(p)' /\ push'[p].action = push[p].action
          BY <2>1, <3>1 DEF SamePushers, Holds, QueueType
      <3> QED BY <2>1, <2>3, <3>1, <3>2, PusherTakes
    <2> QED BY <2>2, <2>3
  <1>7. ASSUME NEW p \in Pushers, Send(p) PROVE OneTaskPerAction'
    <2>1. /\ push[p].pc = "send" /\ UNCHANGED <<keys, worker>> /\ SameWorkers(Workers)
          /\ ch' = Append(ch, push[p].action) /\ push' = [push EXCEPT ![p] = NoPush]
        BY <1>7 DEF Send, SameWorkers, Busy
    <2>2. SamePushers(Pushers \ {p}) /\ Holds(p) /\ ~Holds(p)' /\ push[p].action \in Actions
        BY <2>1 DEF SamePushers, Holds, QueueType, NoPush, Engaged
    <2> QED BY <2>1, <2>2, PusherSends
  <1>8. ASSUME NEW c \in Callers, Cancel(c) PROVE OneTaskPerAction'
    <2>1. /\ push[c].pc = "send" /\ UNCHANGED <<ch, worker>> /\ SameWorkers(Workers)
          /\ keys' = keys \ {push[c].action} /\ push' = [push EXCEPT ![c] = NoPush]
          /\ c \in Pushers
        BY <1>8 DEF Cancel, SameWorkers, Busy, Pushers
    <2>2. SamePushers(Pushers \ {c}) /\ Holds(c) /\ ~Holds(c)'
        BY <2>1 DEF SamePushers, Holds, QueueType, NoPush
    <2> QED BY <2>1, <2>2, PusherDrops
  <1>9. ASSUME NEW t \in Timers, TimerFires(t) PROVE OneTaskPerAction'
    <2>1. /\ push[t].pc = "wait" /\ UNCHANGED <<ch, worker>> /\ SameWorkers(Workers)
          /\ keys' = keys \ {push[t].action} /\ push' = [push EXCEPT ![t].pc = "enter"]
          /\ t \in Pushers
        BY <1>9 DEF TimerFires, SameWorkers, Busy, Pushers
    <2>2. SamePushers(Pushers \ {t}) /\ Holds(t) /\ ~Holds(t)'
        BY <2>1 DEF SamePushers, Holds, QueueType
    <2> QED BY <2>1, <2>2, PusherDrops
  <1>10. ASSUME NEW w \in Workers, Take(w) PROVE OneTaskPerAction'
    <2>1. /\ worker[w].pc = "idle" /\ ch # <<>> /\ UNCHANGED <<keys, push>> /\ SamePushers(Pushers)
          /\ ch' = Tail(ch)
          /\ worker' = [worker EXCEPT ![w] = [pc |-> "mark", action |-> Head(ch), count |-> 0]]
        BY <1>10 DEF Take, SamePushers, Holds
    <2>2. SameWorkers(Workers \ {w}) /\ ~Busy(w) /\ Busy(w)' /\ worker'[w].action = Head(ch)
        BY <2>1 DEF SameWorkers, Busy, QueueType
    <2> QED BY <2>1, <2>2, WorkerTakes
  <1>11. ASSUME NEW w \in Workers, Busy(w), UNCHANGED <<keys, ch>>, scheduleRequeue(w)
         PROVE  OneTaskPerAction'
    <2>1. PICK t \in Timers :
             /\ push[t].pc = "idle"
             /\ push' = [push EXCEPT ![t] = [pc |-> "wait", action |-> worker[w].action]]
        BY <1>11 DEF scheduleRequeue
    <2>2. worker' = [worker EXCEPT ![w] = Idle] /\ t \in Pushers
        BY <1>11 DEF scheduleRequeue, Pushers
    <2>3. /\ SamePushers(Pushers \ {t}) /\ ~Holds(t) /\ Holds(t)'
          /\ push'[t].action = worker[w].action
        BY <2>1, <2>2 DEF SamePushers, Holds, QueueType
    <2>4. SameWorkers(Workers \ {w}) /\ ~Busy(w)'
        BY <2>2 DEF SameWorkers, Busy, QueueType, Idle
    <2> QED BY <1>11, <2>2, <2>3, <2>4, WorkerRequeues
  <1>12. ASSUME NEW w \in Workers, MarkAttempt(w) PROVE OneTaskPerAction'
    <2>1. Busy(w) /\ UNCHANGED <<keys, ch>>
        BY <1>12 DEF MarkAttempt, Busy, queue
    <2>2. ASSUME NEW n, UNCHANGED push,
                 worker' = [worker EXCEPT ![w].pc = "abort", ![w].count = n]
          PROVE  OneTaskPerAction'
      <3>1. SameWorkers(Workers)
          BY <2>1, <2>2 DEF SameWorkers, Busy, QueueType, Tasks
      <3> QED BY <2>1, <2>2, <3>1, NothingMoves DEF SamePushers, Holds
    <2> QED BY <1>11, <1>12, <2>1, <2>2 DEF MarkAttempt
  <1>13. ASSUME NEW w \in Workers, CallAbort(w) \/ ClearRequest(w) PROVE OneTaskPerAction'
    <2>1. Busy(w) /\ UNCHANGED <<keys, ch>>
        BY <1>13 DEF CallAbort, ClearRequest, Busy, queue
    <2>2. ASSUME NEW step \in Steps \ {"idle"}, UNCHANGED push, Goto(w, step)
          PROVE  OneTaskPerAction'
      <3>1. SameWorkers(Workers)
          BY <2>1, <2>2 DEF Goto, SameWorkers, Busy, QueueType, Tasks
      <3> QED BY <2>1, <2>2, <3>1, NothingMoves DEF SamePushers, Holds
    <2>3. \/ scheduleRequeue(w)
          \/ UNCHANGED push /\ (Goto(w, "clear") \/ Goto(w, "remove"))
        BY <1>13 DEF CallAbort, ClearRequest
    <2> QED BY <1>11, <2>1, <2>2, <2>3 DEF Steps
  <1>14. ASSUME NEW w \in Workers, RemoveKey(w) PROVE OneTaskPerAction'
    <2>1. /\ worker[w].pc = "remove" /\ UNCHANGED <<ch, push>> /\ SamePushers(Pushers)
          /\ keys' = keys \ {worker[w].action} /\ worker' = [worker EXCEPT ![w] = Idle]
        BY <1>14 DEF RemoveKey, SamePushers, Holds
    <2>2. SameWorkers(Workers \ {w}) /\ Busy(w) /\ ~Busy(w)'
        BY <2>1 DEF SameWorkers, Busy, QueueType, Idle
    <2> QED BY <2>1, <2>2, WorkerDrops
  <1>15. CASE Restart
    <2>1. keys' = {} /\ DOMAIN ch' = {}
        BY <1>15 DEF Restart
    <2>2. (\A w \in Workers : ~Busy(w)') /\ (\A p \in Pushers : ~Holds(p)')
        BY <1>15 DEF Restart, Busy, Holds, Idle, NoPush
    <2> QED BY <2>1, <2>2 DEF OneTaskPerAction, HeldIsKeyed, HeldOnce, KeyIsHeld
  <1> QED BY <1>1, <1>2, <1>3, <1>4, <1>5, <1>6, <1>7, <1>8, <1>9, <1>10, <1>12, <1>13, <1>14,
             <1>15 DEF Next, processTask

(* Every key of the queue stands for exactly one task, for any number of   *)
(* actions, workers, callers, requests, failures and restarts.             *)
THEOREM QueueHoldsEachOnce == Spec => []OneTaskPerAction
  <1>1. IInv /\ [Next]_vars => IInv'
      BY StepTyped, StepKeepsQueue DEF IInv
  <1>2. IInv => OneTaskPerAction
      BY DEF IInv
  <1> QED BY InitHolds, <1>1, <1>2, PTL DEF Spec

-----------------------------------------------------------------------------
(* The counters                                                            *)

(* The failures and restarts so far.                                       *)
Used == (MaxFaults - faults) + (MaxRestarts - restarts)

Budgets ==
    /\ requests \in [Actions -> 0..MaxRequests] /\ faults \in 0..MaxFaults
    /\ cancels \in 0..MaxCancels /\ restarts \in 0..MaxRestarts

(* A worker has counted its attempt at a, and has not settled it yet.      *)
Attempting(w, a) == worker[w].pc \in {"abort", "clear"} /\ worker[w].action = a

(* Every counted attempt but the current one has cost a failure or a       *)
(* restart.                                                                *)
AttemptsPaid(a) ==
    /\ row[a].exists /\ row[a].attempts <= 1
    /\ row[a].abortAttempts <= Used + 1
    /\ row[a].abortAttempts = Used + 1 => \E w \in Workers : Attempting(w, a)

(* What a worker remembers is an attempt that was paid for.                *)
CountsPaid(w) ==
    /\ worker[w].count <= MaxFaults + MaxRestarts + 1
    /\ worker[w].pc = "abort" => worker[w].count <= Used + 1

CountsInv ==
    /\ Budgets
    /\ Len(ch) <= QueueSize
    /\ \A a \in Actions : AttemptsPaid(a)
    /\ \A w \in Workers : CountsPaid(w)

LEMMA Counting ==
    ASSUME Budgets
    PROVE  Used \in 0..(MaxFaults + MaxRestarts)
  <1> QED BY ReconcilerAssumption DEF Budgets, Used

LEMMA CountingNext ==
    ASSUME Budgets'
    PROVE  Used' \in 0..(MaxFaults + MaxRestarts)
  <1> DEFINE f == faults'
             r == restarts'
  <1>1. f \in 0..MaxFaults /\ r \in 0..MaxRestarts
      BY DEF Budgets
  <1>2. Used' = (MaxFaults - f) + (MaxRestarts - r)
      BY DEF Used
  <1> HIDE DEF f, r
  <1> QED BY <1>1, <1>2, ReconcilerAssumption

(* A step leaves the bounds alone or uses one of them up.                  *)
LEMMA BudgetsStep ==
    ASSUME Budgets, [Next]_vars
    PROVE  Budgets' /\ Used' \in {Used, Used + 1}
  <1>1. CASE UNCHANGED budgets
      BY <1>1, Counting DEF budgets, Budgets, Used
  <1>2. ASSUME NEW call, Fault(call) PROVE Budgets' /\ Used' \in {Used, Used + 1}
      BY <1>2, ReconcilerAssumption DEF Fault, Budgets, Used
  <1>3. ASSUME NEW c \in Callers, NEW a \in Actions, RequestAbort(c, a)
        PROVE  Budgets' /\ Used' \in {Used, Used + 1}
      BY <1>3, ReconcilerAssumption DEF RequestAbort, Budgets, Used
  <1>4. ASSUME NEW c \in Callers, Cancel(c) PROVE Budgets' /\ Used' \in {Used, Used + 1}
      BY <1>4, ReconcilerAssumption DEF Cancel, Budgets, Used
  <1>5. CASE Restart
      BY <1>5, ReconcilerAssumption DEF Restart, Budgets, Used
  <1>6. ASSUME NEW w \in Workers, processTask(w) PROVE Budgets' /\ Used' \in {Used, Used + 1}
      BY <1>1, <1>2, <1>6 DEF processTask, Take, MarkAttempt, CallAbort, ClearRequest, RemoveKey, NoFault
  <1>7. CASE ListPending
      BY <1>1, <1>2, <1>7 DEF ListPending, NoFault
  <1>8. ASSUME NEW a \in Actions, EnqueueAction(a) \/ Collected(a) \/ PushPending(a) PROVE UNCHANGED budgets
      BY <1>8 DEF EnqueueAction, Collected, PushPending
  <1>9. ASSUME NEW p \in Pushers, Enter(p) \/ Send(p) PROVE UNCHANGED budgets
      BY <1>9 DEF Enter, Send
  <1>10. ASSUME NEW t \in Timers, TimerFires(t) PROVE UNCHANGED budgets
      BY <1>10 DEF TimerFires
  <1>11. CASE UNCHANGED vars
      BY <1>1, <1>11 DEF vars, budgets
  <1> QED BY <1>1, <1>3, <1>4, <1>5, <1>6, <1>7, <1>8, <1>9, <1>10, <1>11 DEF Next

(* A row that is left alone, while its worker goes on or a failure is used *)
(* up.                                                                     *)
LEMMA PaidKept ==
    ASSUME QueueType, Budgets, NEW a \in Actions, AttemptsPaid(a), row'[a] = row[a],
           \/ Used' = Used /\ \A w \in Workers : Attempting(w, a) => Attempting(w, a)'
           \/ Used' = Used + 1
    PROVE  AttemptsPaid(a)'
  <1>1. Used \in Nat /\ row[a].abortAttempts \in Nat
      BY Counting, ReconcilerAssumption DEF QueueType, AnyRow
  <1>2. /\ row'[a].exists /\ row'[a].attempts <= 1
        /\ row'[a].abortAttempts = row[a].abortAttempts
        /\ row[a].abortAttempts <= Used + 1
        /\ row[a].abortAttempts = Used + 1 => \E w \in Workers : Attempting(w, a)
      BY DEF AttemptsPaid
  <1>3. row'[a].abortAttempts <= Used' + 1
      BY <1>1, <1>2
  <1>4. row'[a].abortAttempts = Used' + 1 => \E w \in Workers : Attempting(w, a)'
      BY <1>1, <1>2
  <1> QED BY <1>2, <1>3, <1>4 DEF AttemptsPaid

(* A row whose attempts start over.                                        *)
LEMMA PaidAfresh ==
    ASSUME QueueType, Budgets, Budgets', NEW a \in Actions, AttemptsPaid(a),
           row'[a].exists, row'[a].attempts = row[a].attempts, row'[a].abortAttempts = 0
    PROVE  AttemptsPaid(a)'
  <1>1. Used' \in Nat
      BY ReconcilerAssumption DEF Budgets, Used
  <1>2. row'[a].exists /\ row'[a].attempts <= 1
      BY DEF AttemptsPaid
  <1>3. \A n \in Nat : 0 <= n + 1 /\ 0 # n + 1
      OBVIOUS
  <1>4. row'[a].abortAttempts <= Used' + 1 /\ row'[a].abortAttempts # Used' + 1
      BY <1>1, <1>3, Zenon
  <1> QED BY <1>2, <1>4 DEF AttemptsPaid

LEMMA Spending ==
    ASSUME Budgets
    PROVE  /\ NoFault => Used' = Used
           /\ \A call : Fault(call) => Used' = Used + 1
           /\ Restart => Used' = Used + 1
           /\ UNCHANGED <<faults, restarts>> => Used' = Used
  <1> QED BY ReconcilerAssumption DEF Budgets, Used, NoFault, budgets, Fault, Restart

LEMMA RoomStep ==
    ASSUME QueueType, Engaged, Len(ch) <= QueueSize, [Next]_vars
    PROVE  Len(ch') <= QueueSize
  <1>1. CASE UNCHANGED ch
      BY <1>1
  <1>2. ASSUME NEW p \in Pushers, Send(p) PROVE Len(ch') <= QueueSize
    <2>1. push[p].action \in Actions /\ ch' = Append(ch, push[p].action) /\ Len(ch) < QueueSize
        BY <1>2 DEF Send, Engaged
    <2>2. Len(ch') = Len(ch) + 1 /\ Len(ch) \in Nat
        BY <2>1, AppendProperties, LenProperties DEF QueueType
    <2> QED BY <2>1, <2>2, ReconcilerAssumption
  <1>3. ASSUME NEW w \in Workers, Take(w) PROVE Len(ch') <= QueueSize
    <2>1. ch' = Tail(ch) /\ ch # <<>>
        BY <1>3 DEF Take
    <2>2. Len(ch') = Len(ch) - 1 /\ Len(ch) \in Nat
        BY <2>1, HeadTailProperties, LenProperties DEF QueueType
    <2> QED BY <2>2, ReconcilerAssumption
  <1>4. CASE Restart
    <2>1. Len(ch') = 0
        BY <1>4, EmptySeq DEF Restart
    <2> QED BY <2>1, ReconcilerAssumption
  <1>5. ASSUME NEW a \in Actions, EnqueueAction(a) \/ Collected(a) \/ PushPending(a) PROVE UNCHANGED ch
      BY <1>5 DEF EnqueueAction, Collected, PushPending, queue
  <1>6. ASSUME NEW c \in Callers, Cancel(c) \/ \E a \in Actions : RequestAbort(c, a) PROVE UNCHANGED ch
      BY <1>6 DEF Cancel, RequestAbort, queue
  <1>7. ASSUME NEW p \in Pushers, Enter(p) \/ TimerFires(p) PROVE UNCHANGED ch
      BY <1>7 DEF Enter, TimerFires
  <1>8. ASSUME NEW w \in Workers, MarkAttempt(w) \/ CallAbort(w) \/ ClearRequest(w) \/ RemoveKey(w)
        PROVE  UNCHANGED ch
      BY <1>8 DEF MarkAttempt, CallAbort, ClearRequest, RemoveKey, queue
  <1>9. CASE ListPending \/ UNCHANGED vars
      BY <1>9 DEF ListPending, vars, queue
  <1>10. Timers \subseteq Pushers
      BY DEF Pushers
  <1> QED BY <1>1, <1>2, <1>3, <1>4, <1>5, <1>6, <1>7, <1>8, <1>9, <1>10 DEF Next, processTask

(* The steps of a worker in the middle of its task.                        *)
LEMMA PaidByWorker ==
    ASSUME QueueType, Engaged, OneTaskPerAction, CountsInv, Budgets', NEW a \in Actions,
           NEW w \in Workers, processTask(w)
    PROVE  AttemptsPaid(a)'
  <1>1. AttemptsPaid(a) /\ Budgets
      BY DEF CountsInv
  <1>2. \A v \in Workers \ {w} : worker'[v] = worker[v]
      BY DEF processTask, Take, MarkAttempt, CallAbort, ClearRequest, RemoveKey, Goto,
             scheduleRequeue, QueueType
  <1>3. CASE Take(w) \/ RemoveKey(w)
    <2>1. ~Attempting(w, a) /\ row' = row /\ Used' = Used
        BY <1>1, <1>3, Spending DEF Take, RemoveKey, Attempting, budgets, NoFault
    <2> QED BY <1>1, <1>2, <2>1, PaidKept DEF Attempting
  <1>4. CASE MarkAttempt(w)
    <2> DEFINE b == worker[w].action
               marked == [row EXCEPT ![b] = MarkAbortAttempt(row[b])]
    <2>1. worker[w].pc = "mark" /\ Busy(w) /\ b \in Actions
        BY <1>4 DEF MarkAttempt, Busy, Engaged
    <2>2. \A v \in Workers : ~Attempting(v, b)
      <3>1. \A v \in Workers : Attempting(v, b) => Busy(v) /\ worker[v].action = worker[w].action
          BY DEF Attempting, Busy
      <3> QED BY <2>1, <3>1 DEF OneTaskPerAction, HeldOnce, Attempting
    <2>3. AttemptsPaid(b) /\ Used \in Nat /\ row[b].abortAttempts \in Nat /\ row[b] \in AnyRow
        BY <1>1, <2>1, Counting, ReconcilerAssumption DEF CountsInv, QueueType, AnyRow
    <2>4. row[b].abortAttempts <= Used /\ row[b].exists /\ row[b].attempts <= 1
        BY <2>2, <2>3 DEF AttemptsPaid
    <2>5. CASE a # b
      <3>1. row'[a] = row[a]
          BY <1>4, <2>5 DEF MarkAttempt, QueueType
      <3>2. CASE NoFault
        <4>1. ~Attempting(w, a) /\ Used' = Used
            BY <1>1, <2>5, <3>2, Spending DEF Attempting
        <4> QED BY <1>1, <1>2, <3>1, <4>1, PaidKept DEF Attempting
      <3>3. CASE Fault("mark")
          BY <1>1, <3>1, <3>3, Spending, PaidKept
      <3> QED BY <1>4, <3>2, <3>3 DEF MarkAttempt
    <2>6. CASE a = b
      <3>1. /\ row'[b].exists /\ row'[b].attempts <= 1
            /\ row'[b].abortAttempts \in {row[b].abortAttempts, row[b].abortAttempts + 1}
        <4>1. row'[b] \in {row[b], MarkAbortAttempt(row[b])}
            BY <1>4, <2>1 DEF MarkAttempt, QueueType
        <4> QED BY <2>3, <2>4, <4>1 DEF MarkAbortAttempt, AnyRow
      <3>2. CASE NoFault /\ worker'[w].pc = "abort" /\ worker'[w].action = b
        <4>1. Used' = Used /\ Attempting(w, a)'
            BY <1>1, <2>6, <3>2, Spending DEF Attempting
        <4>2. row'[b].abortAttempts <= Used' + 1
            BY <2>3, <2>4, <3>1, <4>1
        <4> QED BY <2>6, <3>1, <4>1, <4>2 DEF AttemptsPaid
      <3>3. CASE Fault("mark")
        <4>1. Used' = Used + 1
            BY <1>1, <3>3, Spending
        <4>2. row'[b].abortAttempts <= Used' + 1 /\ row'[b].abortAttempts # Used' + 1
            BY <2>3, <2>4, <3>1, <4>1
        <4> QED BY <2>6, <3>1, <4>2 DEF AttemptsPaid
      <3> QED BY <1>4, <3>2, <3>3 DEF MarkAttempt, QueueType, Tasks
    <2> QED BY <2>5, <2>6
  <1>5. CASE CallAbort(w)
    <2>1. row' = row
        BY <1>5 DEF CallAbort
    <2>2. CASE NoFault /\ Goto(w, "clear")
      <3>1. Used' = Used /\ worker'[w].pc = "clear" /\ worker'[w].action = worker[w].action
          BY <1>1, <2>2, Spending DEF Goto, QueueType, Tasks
      <3> QED BY <1>1, <1>2, <2>1, <3>1, PaidKept DEF Attempting
    <2>3. CASE Fault("abort")
        BY <1>1, <2>1, <2>3, Spending, PaidKept
    <2> QED BY <1>5, <2>2, <2>3 DEF CallAbort
  <1>6. CASE ClearRequest(w)
    <2> DEFINE b == worker[w].action
    <2>1. b \in Actions /\ row[b] \in AnyRow
        BY <1>6 DEF ClearRequest, Engaged, Busy, QueueType
    <2>2. row'[b] \in {row[b], ClearAbortRequest(row[b])} /\ \A e \in Actions \ {b} : row'[e] = row[e]
        BY <1>6, <2>1 DEF ClearRequest, QueueType
    <2>3. ASSUME a = b, row'[b] = ClearAbortRequest(row[b]) PROVE AttemptsPaid(a)'
      <3>1. row'[a].exists /\ row'[a].attempts = row[a].attempts /\ row'[a].abortAttempts = 0
          BY <1>1, <2>1, <2>3 DEF ClearAbortRequest, AnyRow, AttemptsPaid
      <3> QED BY <1>1, <3>1, PaidAfresh
    <2>4. CASE Fault("clear")
        BY <1>1, <2>2, <2>3, <2>4, Spending, PaidKept
    <2>5. CASE NoFault /\ row'[b] = ClearAbortRequest(row[b])
      <3>1. CASE a # b
        <4>1. ~Attempting(w, a) /\ Used' = Used
            BY <1>1, <2>5, <3>1, Spending DEF Attempting
        <4> QED BY <1>1, <1>2, <2>2, <3>1, <4>1, PaidKept DEF Attempting
      <3> QED BY <2>3, <2>5, <3>1
    <2> QED BY <1>6, <2>1, <2>4, <2>5 DEF ClearRequest, QueueType
  <1> QED BY <1>3, <1>4, <1>5, <1>6 DEF processTask

LEMMA PaidStep ==
    ASSUME QueueType, Engaged, OneTaskPerAction, CountsInv, Budgets', [Next]_vars,
           NEW a \in Actions
    PROVE  AttemptsPaid(a)'
  <1>1. AttemptsPaid(a) /\ Budgets
      BY DEF CountsInv
  <1>2. ASSUME row' = row, worker' = worker, Used' = Used \/ Used' = Used + 1
        PROVE  AttemptsPaid(a)'
      BY <1>1, <1>2, PaidKept DEF Attempting
  <1>3. Used' = Used \/ Used' = Used + 1
      BY <1>1, BudgetsStep
  <1>4. CASE Restart
      BY <1>1, <1>4, Spending, PaidKept DEF Restart
  <1>5. ASSUME NEW c \in Callers, NEW b \in Actions, RequestAbort(c, b) PROVE AttemptsPaid(a)'
    <2>1. worker' = worker /\ Used' = Used /\ row' = [row EXCEPT ![b] = AbortAction(row[b])]
        BY <1>1, <1>5, Spending DEF RequestAbort
    <2>2. CASE a # b
      <3>1. row'[a] = row[a]
          BY <2>1, <2>2 DEF QueueType
      <3> QED BY <1>1, <2>1, <3>1, PaidKept DEF Attempting
    <2>3. CASE a = b
      <3>1. row'[a] = AbortAction(row[a]) /\ row[a] \in AnyRow
          BY <2>1, <2>3 DEF QueueType
      <3>2. row'[a].exists /\ row'[a].attempts = row[a].attempts /\ row'[a].abortAttempts = 0
          BY <1>1, <3>1 DEF AbortAction, AnyRow, AttemptsPaid
      <3> QED BY <1>1, <3>2, PaidAfresh
    <2> QED BY <2>2, <2>3
  <1>6. ASSUME NEW b \in Actions, EnqueueAction(b) \/ Collected(b) \/ PushPending(b)
        PROVE  row' = row /\ worker' = worker
      BY <1>6 DEF EnqueueAction, Collected, PushPending
  <1>7. ASSUME NEW p \in Pushers, Enter(p) \/ Send(p) PROVE row' = row /\ worker' = worker
      BY <1>7 DEF Enter, Send
  <1>8. ASSUME NEW p, Cancel(p) \/ TimerFires(p) PROVE row' = row /\ worker' = worker
      BY <1>8 DEF Cancel, TimerFires
  <1>9. CASE ListPending \/ UNCHANGED vars
      BY <1>2, <1>3, <1>9 DEF ListPending, vars
  <1> QED BY <1>2, <1>3, <1>4, <1>5, <1>6, <1>7, <1>8, <1>9, PaidByWorker DEF Next

LEMMA CountStep ==
    ASSUME QueueType, Engaged, OneTaskPerAction, CountsInv, Budgets', [Next]_vars,
           NEW w \in Workers, CountsPaid(w), \A a \in Actions : AttemptsPaid(a)'
    PROVE  CountsPaid(w)'
  <1>1. Used \in Nat /\ Used' \in 0..(MaxFaults + MaxRestarts) /\ (Used' = Used \/ Used' = Used + 1)
    <2> QED BY Counting, CountingNext, BudgetsStep, ReconcilerAssumption DEF CountsInv
  <1>2. worker[w] \in Tasks /\ worker[w].count \in Nat
      BY DEF QueueType, Tasks
  <1>3. ASSUME worker'[w].count = worker[w].count, worker'[w].pc \in {worker[w].pc, "clear", "remove"}
        PROVE  CountsPaid(w)'
    <2>1. worker'[w].count <= MaxFaults + MaxRestarts + 1
        BY <1>3 DEF CountsPaid
    <2>2. ASSUME worker'[w].pc = "abort" PROVE worker'[w].count <= Used' + 1
      <3>1. worker[w].count <= Used + 1
          BY <1>3, <2>2 DEF CountsPaid
      <3> QED BY <1>1, <1>2, <1>3, <3>1
    <2> QED BY <2>1, <2>2 DEF CountsPaid
  <1>4. ASSUME worker'[w].count = 0, worker'[w].pc # "abort" PROVE CountsPaid(w)'
      BY <1>4, ReconcilerAssumption DEF CountsPaid
  <1>5. CASE Restart
      BY <1>4, <1>5 DEF Restart, Idle
  <1>6. ASSUME NEW v \in Workers, scheduleRequeue(v) PROVE CountsPaid(w)'
      BY <1>3, <1>4, <1>6 DEF scheduleRequeue, QueueType, Idle
  <1>7. ASSUME NEW v \in Workers, NEW step \in {"clear", "remove"}, Goto(v, step)
        PROVE  CountsPaid(w)'
      BY <1>3, <1>7 DEF Goto, QueueType, Tasks
  <1>8. ASSUME NEW v \in Workers, Take(v) \/ RemoveKey(v) PROVE CountsPaid(w)'
      BY <1>3, <1>4, <1>8 DEF Take, RemoveKey, QueueType, Idle
  <1>9. ASSUME NEW v \in Workers, MarkAttempt(v) PROVE CountsPaid(w)'
    <2> DEFINE a == worker[v].action
               marked == [row EXCEPT ![a] = MarkAbortAttempt(row[a])]
    <2>1. a \in Actions
        BY <1>9 DEF MarkAttempt, Engaged, Busy
    <2>2. CASE /\ row' = marked
               /\ worker' = [worker EXCEPT ![v].pc = "abort", ![v].count = marked[a].abortAttempts]
      <3>1. CASE w = v
        <4>1. worker'[w].count = row'[a].abortAttempts
            BY <2>2, <3>1 DEF QueueType, Tasks
        <4>2. \A b \in Actions : row'[b].abortAttempts <= Used' + 1
            BY DEF AttemptsPaid
        <4>3. worker'[w].count <= Used' + 1 /\ row'[a].abortAttempts \in Nat
          <5>1. row' \in [Actions -> AnyRow]
              BY <2>1, <2>2, RowsStayTyped DEF QueueType
          <5> QED BY <2>1, <4>1, <4>2, <5>1 DEF AnyRow
        <4>4. worker'[w].count <= MaxFaults + MaxRestarts + 1
            BY <1>1, <4>1, <4>3, ReconcilerAssumption
        <4> QED BY <4>3, <4>4 DEF CountsPaid
      <3>2. CASE w # v
          BY <1>3, <2>2, <3>2 DEF QueueType
      <3> QED BY <3>1, <3>2
    <2> QED BY <1>6, <1>9, <2>2 DEF MarkAttempt
  <1>10. ASSUME NEW v \in Workers, CallAbort(v) \/ ClearRequest(v) PROVE CountsPaid(w)'
      BY <1>6, <1>7, <1>10 DEF CallAbort, ClearRequest
  <1>11. ASSUME NEW b \in Actions, EnqueueAction(b) \/ Collected(b) \/ PushPending(b)
         PROVE  worker' = worker
      BY <1>11 DEF EnqueueAction, Collected, PushPending
  <1>12. ASSUME NEW p, Enter(p) \/ Send(p) \/ Cancel(p) \/ TimerFires(p) \/ \E a \in Actions : RequestAbort(p, a)
         PROVE  worker' = worker
      BY <1>12 DEF Enter, Send, Cancel, TimerFires, RequestAbort
  <1>13. CASE ListPending \/ UNCHANGED vars
      BY <1>3, <1>13 DEF ListPending, vars
  <1> QED BY <1>3, <1>5, <1>8, <1>9, <1>10, <1>11, <1>12, <1>13 DEF Next, processTask

LEMMA CountsInit == Init => CountsInv
  <1> SUFFICES ASSUME Init PROVE CountsInv
      OBVIOUS
  <1>1. Budgets /\ Used = 0
      BY ReconcilerAssumption DEF Init, Budgets, Used
  <1>2. Len(ch) <= QueueSize
      BY EmptySeq, ReconcilerAssumption DEF Init
  <1>3. ASSUME NEW a \in Actions PROVE AttemptsPaid(a)
    <2>1. row[a] = [NoRow EXCEPT !.exists = TRUE, !.phase = QUEUED, !.attempts = 1]
        BY DEF Init, CreateAction, NoRow
    <2> QED BY <1>1, <2>1 DEF AttemptsPaid, NoRow
  <1>4. ASSUME NEW w \in Workers PROVE CountsPaid(w)
      BY ReconcilerAssumption DEF Init, Idle, CountsPaid
  <1> QED BY <1>1, <1>2, <1>3, <1>4 DEF CountsInv

LEMMA CountsStep ==
    ASSUME QueueType, Engaged, OneTaskPerAction, CountsInv, [Next]_vars
    PROVE  CountsInv'
  <1>1. Budgets'
      BY BudgetsStep DEF CountsInv
  <1>2. Len(ch') <= QueueSize
      BY RoomStep DEF CountsInv
  <1>3. \A a \in Actions : AttemptsPaid(a)'
      BY <1>1, PaidStep
  <1>4. \A w \in Workers : CountsPaid(w)'
      BY <1>1, <1>3, CountStep DEF CountsInv
  <1> QED BY <1>1, <1>2, <1>3, <1>4 DEF CountsInv

(* A resource that is gone does not come back, and one that was created is *)
(* there until it is gone.                                                 *)
Resources ==
    /\ cr \in [Actions -> {"none", "present", "gone"}]
    /\ \A a \in Created : cr[a] # "none"

LEMMA ResourcesStep ==
    ASSUME Resources, Engaged, [Next]_vars
    PROVE  Resources' /\ \A a \in Created : cr[a] # "present" => cr'[a] # "present"
  <1> DEFINE Goal == Resources' /\ \A a \in Created : cr[a] # "present" => cr'[a] # "present"
  <1>1. ASSUME cr' = cr PROVE Goal
      BY <1>1 DEF Resources
  <1>2. ASSUME NEW a \in Actions, EnqueueAction(a) PROVE Goal
      BY <1>2, ReconcilerAssumption DEF EnqueueAction, Resources
  <1>3. ASSUME NEW a \in Actions, cr' = [cr EXCEPT ![a] = "gone"] PROVE Goal
      BY <1>3, ReconcilerAssumption DEF Resources
  <1>4. ASSUME NEW w \in Workers, CallAbort(w) PROVE Goal
    <2>1. worker[w].action \in Actions
        BY <1>4 DEF CallAbort, Engaged, Busy
    <2>2. cr' \in {cr, Stopped(worker[w].action)}
        BY <1>4 DEF CallAbort
    <2> QED BY <1>1, <1>3, <2>1, <2>2 DEF Stopped
  <1>5. ASSUME NEW w \in Workers, processTask(w), ~CallAbort(w) PROVE cr' = cr
      BY <1>5 DEF processTask, Take, MarkAttempt, ClearRequest, RemoveKey
  <1>6. ASSUME NEW a \in Actions, Collected(a) \/ PushPending(a) PROVE Goal
      BY <1>1, <1>3, <1>6 DEF Collected, PushPending
  <1>7. ASSUME NEW p \in Pushers, Enter(p) \/ Send(p) PROVE Goal
      BY <1>1, <1>7 DEF Enter, Send
  <1>8. CASE ListPending \/ Restart \/ UNCHANGED vars
      BY <1>1, <1>8 DEF ListPending, Restart, vars
  <1>9. ASSUME NEW w \in Workers, processTask(w) PROVE Goal
      BY <1>1, <1>4, <1>5, <1>9
  <1>10. ASSUME NEW c \in Callers, Cancel(c) \/ \E a \in Actions : RequestAbort(c, a) PROVE Goal
      BY <1>1, <1>10 DEF Cancel, RequestAbort
  <1>11. ASSUME NEW t \in Timers, TimerFires(t) PROVE Goal
      BY <1>1, <1>11 DEF TimerFires
  <1> QED BY <1>2, <1>6, <1>7, <1>8, <1>9, <1>10, <1>11 DEF Next

(* Every run, however many failures and restarts, keeps the types; the     *)
(* channel never holds more than QueueSize tasks.                          *)
THEOREM ReconcilerTyped == Spec => []TypeOK
  <1>0. Init => Resources
      BY ReconcilerAssumption DEF Init, Resources
  <1>1. IInv /\ CountsInv /\ Resources /\ [Next]_vars => IInv' /\ CountsInv' /\ Resources'
      BY StepTyped, StepKeepsQueue, CountsStep, ResourcesStep DEF IInv
  <1>2. IInv /\ CountsInv /\ Resources => TypeOK
    <2> SUFFICES ASSUME IInv, CountsInv, Resources PROVE TypeOK
        OBVIOUS
    <2> DEFINE most == MaxAttempts + MaxRestarts + MaxFaults
    <2>1. Used \in 0..(MaxFaults + MaxRestarts) /\ most \in Nat /\ MaxFaults + MaxRestarts + 1 <= most
        BY Counting, ReconcilerAssumption DEF CountsInv
    <2>2. ASSUME NEW a \in Actions PROVE row[a] \in RowType(1, most)
      <3>1. row[a] \in AnyRow /\ AttemptsPaid(a)
          BY DEF IInv, QueueType, CountsInv
      <3>2. row[a].attempts \in 0..1
          BY <3>1 DEF AnyRow, AttemptsPaid
      <3>3. row[a].abortAttempts \in 0..most
        <4>1. row[a].abortAttempts \in Nat /\ row[a].abortAttempts <= Used + 1
            BY <3>1 DEF AnyRow, AttemptsPaid
        <4> HIDE DEF most
        <4> QED BY <2>1, <4>1, ReconcilerAssumption
      <3> HIDE DEF most
      <3> QED BY <3>1, <3>2, <3>3 DEF AnyRow, RowType
    <2>3. ASSUME NEW w \in Workers
          PROVE  worker[w] \in [pc : Steps, action : Actions \cup {NoAction}, count : 0..most]
      <3>1. worker[w] \in Tasks /\ worker[w].count \in Nat
          BY DEF IInv, QueueType, Tasks
      <3>2. worker[w].count <= MaxFaults + MaxRestarts + 1
          BY DEF CountsInv, CountsPaid
      <3>3. worker[w].count \in 0..most
        <4> HIDE DEF most
        <4> QED BY <2>1, <3>1, <3>2, ReconcilerAssumption
      <3> HIDE DEF most
      <3> QED BY <3>1, <3>3 DEF Tasks
    <2>4. row \in [Actions -> RowType(1, most)]
      <3> HIDE DEF most
      <3> QED BY <2>2 DEF IInv, QueueType
    <2>5. worker \in [Workers -> [pc : Steps, action : Actions \cup {NoAction}, count : 0..most]]
      <3> HIDE DEF most
      <3> QED BY <2>3 DEF IInv, QueueType
    <2>6. ch \in Seq(Actions) /\ cr \in [Actions -> {"none", "present", "gone"}]
        BY DEF IInv, QueueType, Resources
    <2>7. /\ keys \subseteq Actions /\ todo \subseteq Actions /\ Len(ch) <= QueueSize
          /\ push \in [Pushers -> [pc : Stages, action : Actions \cup {NoAction}]]
          /\ Budgets
        BY DEF IInv, QueueType, CountsInv
    <2> QED BY <2>4, <2>5, <2>6, <2>7 DEF TypeOK, Budgets, Steps, Stages
  <1> QED BY InitHolds, CountsInit, <1>0, <1>1, <1>2, PTL DEF Spec

-----------------------------------------------------------------------------
(* What becomes of a request                                               *)

LEMMA RowMoves ==
    ASSUME QueueType, Engaged, CountsInv, [Next]_vars, NEW a \in Actions
    PROVE  \/ /\ row'[a].phase = row[a].phase
              /\ row'[a].abortRequested = row[a].abortRequested
           \/ \E c \in Callers : RequestAbort(c, a)
           \/ /\ \E w \in Workers : ClearRequest(w) /\ worker[w].action = a
              /\ ~row'[a].abortRequested
  <1> DEFINE Same == row'[a].phase = row[a].phase /\ row'[a].abortRequested = row[a].abortRequested
             Asked == \E c \in Callers : RequestAbort(c, a)
             Cleared == /\ \E w \in Workers : ClearRequest(w) /\ worker[w].action = a
                        /\ ~row'[a].abortRequested
             Goal == Same \/ Asked \/ Cleared
  <1>1. ASSUME row' = row PROVE Goal
      BY <1>1
  <1>2. row \in [Actions -> AnyRow] /\ row[a] \in AnyRow
      BY DEF QueueType
  <1>3. ASSUME NEW c \in Callers, NEW b \in Actions, RequestAbort(c, b) PROVE Goal
      BY <1>2, <1>3 DEF RequestAbort
  <1>4. ASSUME NEW w \in Workers, MarkAttempt(w) PROVE Goal
    <2>1. row' \in {row, [row EXCEPT ![worker[w].action] = MarkAbortAttempt(row[worker[w].action])]}
        BY <1>4 DEF MarkAttempt
    <2>2. row'[a] \in {row[a], MarkAbortAttempt(row[a])}
        BY <1>2, <2>1
    <2> QED BY <1>2, <2>2 DEF MarkAbortAttempt, AnyRow
  <1>5. ASSUME NEW w \in Workers, ClearRequest(w) PROVE Goal
    <2>1. row' \in {row, [row EXCEPT ![worker[w].action] = ClearAbortRequest(row[worker[w].action])]}
        BY <1>5 DEF ClearRequest
    <2>2. row'[a] = row[a] \/ (a = worker[w].action /\ row'[a] = ClearAbortRequest(row[a]))
        BY <1>2, <2>1
    <2>3. row[a].exists
        BY DEF CountsInv, AttemptsPaid
    <2>4. ~ClearAbortRequest(row[a]).abortRequested
        BY <1>2, <2>3 DEF ClearAbortRequest, AnyRow
    <2> QED BY <1>5, <2>2, <2>4
  <1>6. ASSUME NEW w \in Workers, Take(w) \/ CallAbort(w) \/ RemoveKey(w) PROVE Goal
      BY <1>1, <1>6 DEF Take, CallAbort, RemoveKey
  <1>7. ASSUME NEW w \in Workers, processTask(w) PROVE Goal
      BY <1>4, <1>5, <1>6, <1>7 DEF processTask
  <1>8. ASSUME NEW b \in Actions, EnqueueAction(b) \/ Collected(b) \/ PushPending(b) PROVE Goal
      BY <1>1, <1>8 DEF EnqueueAction, Collected, PushPending
  <1>9. ASSUME NEW p \in Pushers, Enter(p) \/ Send(p) PROVE Goal
      BY <1>1, <1>9 DEF Enter, Send
  <1>10. ASSUME NEW c \in Callers, Cancel(c) PROVE Goal
      BY <1>1, <1>10 DEF Cancel
  <1>11. ASSUME NEW t \in Timers, TimerFires(t) PROVE Goal
      BY <1>1, <1>11 DEF TimerFires
  <1>12. CASE ListPending \/ Restart \/ UNCHANGED vars
      BY <1>1, <1>12 DEF ListPending, Restart, vars
  <1> QED BY <1>3, <1>7, <1>8, <1>9, <1>10, <1>11, <1>12 DEF Next

-----------------------------------------------------------------------------
(* A cleared request was carried out                                       *)

(* The request is cleared once the resource is not there, or once the      *)
(* attempts are used up; the latter takes as many failures and restarts.   *)
StoppedInv ==
    Used < MaxAttempts =>
        /\ \A w \in Workers :
             worker[w].pc = "clear" /\ worker[w].action \in Created
                 => cr[worker[w].action] # "present"
        /\ \A a \in Created : row[a].phase = ABORTED /\ ~row[a].abortRequested => cr[a] # "present"

LEMMA ClearsTheStopped ==
    ASSUME QueueType, Engaged, CountsInv, Resources, StoppedInv, [Next]_vars,
           Used' \in {Used, Used + 1}, Used' < MaxAttempts, NEW w \in Workers,
           worker'[w].pc = "clear", worker'[w].action \in Created
    PROVE  cr'[worker'[w].action] # "present"
  <1>1. Used \in Nat /\ Used < MaxAttempts /\ Budgets
      BY Counting, ReconcilerAssumption DEF CountsInv
  <1>2. CASE worker'[w] = worker[w]
      BY <1>1, <1>2, ResourcesStep DEF StoppedInv
  <1>3. ASSUME NEW v \in Workers, scheduleRequeue(v), worker'[w] # worker[w] PROVE FALSE
      BY <1>3 DEF scheduleRequeue, QueueType, Idle
  <1>4. CASE CallAbort(w)
    <2>1. worker[w].action \in Actions /\ worker[w] \in Tasks /\ worker[w].pc = "abort"
        BY <1>4 DEF CallAbort, Engaged, Busy, QueueType
    <2>2. CASE cr' = Stopped(worker[w].action) /\ Goto(w, "clear")
      <3>1. worker'[w].action = worker[w].action
          BY <2>1, <2>2 DEF Goto, QueueType, Tasks
      <3> QED BY <2>1, <2>2, <3>1 DEF Stopped, Resources
    <2>3. CASE Fault("abort") /\ worker[w].count >= MaxAttempts
      <3>1. Used' = Used + 1 /\ worker[w].count <= Used + 1 /\ worker[w].count \in Nat
          BY <1>1, <2>1, <2>3, Spending DEF CountsInv, CountsPaid, Tasks
      <3> QED BY <1>1, <2>3, <3>1, ReconcilerAssumption
    <2>4. CASE scheduleRequeue(w)
      <3>1. worker'[w].pc = "idle"
          BY <2>4 DEF scheduleRequeue, QueueType, Idle
      <3> QED BY <3>1
    <2> QED BY <1>4, <2>2, <2>3, <2>4 DEF CallAbort
  <1>5. ASSUME NEW v \in Workers, v # w, processTask(v) PROVE worker'[w] = worker[w]
      BY <1>5 DEF processTask, Take, MarkAttempt, CallAbort, ClearRequest, RemoveKey, Goto,
             scheduleRequeue, QueueType
  <1>6. CASE Take(w) \/ MarkAttempt(w) \/ ClearRequest(w) \/ RemoveKey(w)
    <2>1. worker'[w].pc # "clear"
        BY <1>6 DEF Take, MarkAttempt, ClearRequest, RemoveKey, Goto, scheduleRequeue, QueueType,
               Tasks, Idle
    <2> QED BY <2>1
  <1>7. CASE Restart
      BY <1>7 DEF Restart, Idle
  <1>8. ASSUME NEW b \in Actions, EnqueueAction(b) \/ Collected(b) \/ PushPending(b)
        PROVE  worker' = worker
      BY <1>8 DEF EnqueueAction, Collected, PushPending
  <1>9. ASSUME NEW p \in Pushers, Enter(p) \/ Send(p) PROVE worker' = worker
      BY <1>9 DEF Enter, Send
  <1>10. ASSUME NEW c \in Callers, Cancel(c) \/ \E a \in Actions : RequestAbort(c, a)
         PROVE  worker' = worker
      BY <1>10 DEF Cancel, RequestAbort
  <1>11. ASSUME NEW t \in Timers, TimerFires(t) PROVE worker' = worker
      BY <1>11 DEF TimerFires
  <1>12. CASE ListPending \/ UNCHANGED vars
      BY <1>2, <1>12 DEF ListPending, vars
  <1>13. ASSUME NEW v \in Workers, processTask(v) PROVE cr'[worker'[w].action] # "present"
      BY <1>2, <1>4, <1>5, <1>6, <1>13 DEF processTask
  <1> QED BY <1>2, <1>7, <1>8, <1>9, <1>10, <1>11, <1>12, <1>13 DEF Next

LEMMA StoppedStep ==
    ASSUME QueueType, Engaged, CountsInv, Resources, StoppedInv, [Next]_vars
    PROVE  StoppedInv'
  <1> SUFFICES ASSUME Used' < MaxAttempts PROVE StoppedInv'
      BY DEF StoppedInv
  <1>1. Used \in Nat /\ Used' \in {Used, Used + 1} /\ Used < MaxAttempts
      BY Counting, BudgetsStep, ReconcilerAssumption DEF CountsInv
  <1>2. \A w \in Workers : worker'[w].pc = "clear" /\ worker'[w].action \in Created
                                => cr'[worker'[w].action] # "present"
      BY <1>1, ClearsTheStopped
  <1>3. ASSUME NEW a \in Created, row'[a].phase = ABORTED, ~row'[a].abortRequested
        PROVE  cr'[a] # "present"
    <2>1. a \in Actions
        BY ReconcilerAssumption
    <2>2. CASE row'[a].phase = row[a].phase /\ row'[a].abortRequested = row[a].abortRequested
        BY <1>1, <1>3, <2>2, ResourcesStep DEF StoppedInv
    <2>3. ASSUME NEW c \in Callers, RequestAbort(c, a) PROVE FALSE
      <3>1. row[a].exists /\ row[a] \in AnyRow
          BY <2>1 DEF QueueType, CountsInv, AttemptsPaid
      <3>2. row'[a] = AbortAction(row[a])
          BY <2>1, <2>3 DEF RequestAbort, QueueType
      <3> QED BY <1>3, <3>1, <3>2 DEF AbortAction, AnyRow
    <2>4. ASSUME NEW w \in Workers, ClearRequest(w), worker[w].action = a PROVE cr'[a] # "present"
        BY <1>1, <2>4 DEF ClearRequest, StoppedInv
    <2> QED BY <2>1, <2>2, <2>3, <2>4, RowMoves
  <1> QED BY <1>2, <1>3 DEF StoppedInv

(* As long as there were fewer failures and restarts than attempts, an     *)
(* aborted action whose request is cleared is not running, whatever the    *)
(* number of workers, timers, callers and requests.                        *)
THEOREM ClearingMeansStopped == Spec => []ClearedIsStopped
  <1>0. Init => Resources /\ StoppedInv
    <2> SUFFICES ASSUME Init PROVE Resources /\ StoppedInv
        OBVIOUS
    <2>1. \A a \in Actions : row[a].phase = QUEUED
        BY DEF Init, CreateAction, NoRow
    <2>2. \A w \in Workers : worker[w].pc = "idle"
        BY DEF Init, Idle
    <2>3. Resources
        BY ReconcilerAssumption DEF Init, Resources
    <2> QED BY <2>1, <2>2, <2>3, ReconcilerAssumption DEF StoppedInv, QUEUED, ABORTED
  <1>1. /\ IInv /\ CountsInv /\ Resources /\ StoppedInv /\ [Next]_vars
        => IInv' /\ CountsInv' /\ Resources' /\ StoppedInv'
      BY StepTyped, StepKeepsQueue, CountsStep, ResourcesStep, StoppedStep DEF IInv
  <1>2. StoppedInv => ClearedIsStopped
      BY DEF StoppedInv, ClearedIsStopped, Used
  <1> QED BY InitHolds, CountsInit, <1>0, <1>1, <1>2, PTL DEF Spec

-----------------------------------------------------------------------------
(* A pending request is on its way                                         *)

Entering(p, a) == push[p].pc = "enter" /\ push[p].action = a
Scheduled(a) ==
    \/ a \in keys \cup todo
    \/ push[Scanner].pc = "list"
    \/ \E p \in Pushers : Entering(p, a)

(* Nobody has asked for the abort of a yet.                                *)
Untouched(a) ==
    /\ ~row[a].abortRequested /\ a \notin keys \cup todo
    /\ \A p \in Pushers : ~Entering(p, a)

(* A second request may find the key of the first one, whose worker has    *)
(* cleared the row and is about to remove the key; so the argument is      *)
(* about actions asked at most once.                                       *)
AskedOnce(a) == requests[a] + 1 >= MaxRequests

FirstInv ==
    \A a \in Actions :
        /\ requests[a] = MaxRequests => Untouched(a)
        /\ AskedOnce(a) =>
             /\ PushesComplete /\ row[a].abortRequested => Scheduled(a)
             /\ \A w \in Workers : worker[w].pc = "remove" /\ worker[w].action = a
                                      => ~row[a].abortRequested

LEMMA RequestsStep ==
    ASSUME Budgets, [Next]_vars, NEW a \in Actions
    PROVE  \/ requests'[a] = requests[a] /\ ~\E c \in Callers : RequestAbort(c, a)
           \/ requests'[a] = requests[a] - 1 /\ \E c \in Callers : RequestAbort(c, a)
  <1> DEFINE Goal == \/ requests'[a] = requests[a] /\ ~\E c \in Callers : RequestAbort(c, a)
                     \/ requests'[a] = requests[a] - 1 /\ \E c \in Callers : RequestAbort(c, a)
  <1>1. requests \in [Actions -> Int] /\ requests[a] \in Int
      BY ReconcilerAssumption DEF Budgets
  <1>2. ASSUME requests' = requests PROVE Goal
      BY <1>1, <1>2 DEF RequestAbort
  <1>3. ASSUME NEW c \in Callers, NEW b \in Actions, RequestAbort(c, b) PROVE Goal
    <2>1. requests' = [requests EXCEPT ![b] = requests[b] - 1]
        BY <1>3 DEF RequestAbort
    <2>2. CASE a = b
        BY <1>1, <1>3, <2>1, <2>2
    <2>3. CASE a # b
      <3>1. requests'[a] = requests[a]
          BY <1>1, <2>1, <2>3
      <3>2. \A d \in Callers : RequestAbort(d, a) => requests'[a] = requests[a] - 1
          BY <1>1 DEF RequestAbort
      <3> QED BY <1>1, <3>1, <3>2
    <2> QED BY <2>2, <2>3
  <1>4. ASSUME NEW w \in Workers, processTask(w) PROVE Goal
      BY <1>2, <1>4 DEF processTask, Take, MarkAttempt, CallAbort, ClearRequest, RemoveKey,
             NoFault, Fault, budgets
  <1>5. ASSUME NEW b \in Actions, EnqueueAction(b) \/ Collected(b) \/ PushPending(b) PROVE Goal
      BY <1>2, <1>5 DEF EnqueueAction, Collected, PushPending, budgets
  <1>6. ASSUME NEW p \in Pushers, Enter(p) \/ Send(p) PROVE Goal
      BY <1>2, <1>6 DEF Enter, Send, budgets
  <1>7. ASSUME NEW c \in Callers, Cancel(c) PROVE Goal
      BY <1>2, <1>7 DEF Cancel
  <1>8. ASSUME NEW t \in Timers, TimerFires(t) PROVE Goal
      BY <1>2, <1>8 DEF TimerFires, budgets
  <1>9. CASE ListPending \/ Restart \/ UNCHANGED vars
      BY <1>2, <1>9 DEF ListPending, Restart, vars, NoFault, Fault, budgets
  <1> QED BY <1>3, <1>4, <1>5, <1>6, <1>7, <1>8, <1>9 DEF Next

(* Only the removal of its key takes a scheduled action out of the queue,  *)
(* and a scan that finds no request.                                       *)
LEMMA ScheduledKept ==
    ASSUME QueueType, Budgets, [Next]_vars, PushesComplete', "list" \notin FaultyCalls,
           NEW a \in Actions, Scheduled(a), row[a].abortRequested,
           ~\E w \in Workers : RemoveKey(w) /\ worker[w].action = a
    PROVE  Scheduled(a)'
  <1>0. Scanner \in Pushers /\ Callers \subseteq Pushers /\ Timers \subseteq Pushers
      BY DEF Pushers
  <1>1. ASSUME keys \subseteq keys', todo' = todo, push'[Scanner].pc = push[Scanner].pc,
               \A p \in Pushers : Entering(p, a) => push'[p] = push[p]
        PROVE  Scheduled(a)'
      BY <1>1 DEF Scheduled, Entering
  <1>2. ASSUME UNCHANGED <<keys, todo, push>> PROVE Scheduled(a)'
      BY <1>1, <1>2 DEF Entering
  <1>3. CASE ListPending
    <2>1. todo' = {b \in Actions : row[b].abortRequested}
        BY <1>3 DEF ListPending, Fault
    <2> QED BY <2>1 DEF Scheduled
  <1>4. CASE Restart
    <2>1. push'[Scanner].pc = "list"
        BY <1>0, <1>4 DEF Restart, NoPush
    <2> QED BY <2>1 DEF Scheduled
  <1>5. ASSUME NEW b \in Actions, PushPending(b) PROVE Scheduled(a)'
    <2>1. /\ push[Scanner].pc = "idle" /\ todo' = todo \ {b} /\ keys' = keys
          /\ push' = [push EXCEPT ![Scanner] = [pc |-> "enter", action |-> b]]
        BY <1>5 DEF PushPending, queue
    <2>2. CASE a = b
      <3>1. Entering(Scanner, a)'
          BY <1>0, <2>1, <2>2 DEF Entering, QueueType
      <3> QED BY <1>0, <3>1 DEF Scheduled
    <2>3. CASE a # b
      <3>1. \A p \in Pushers : Entering(p, a) => Entering(p, a)'
          BY <1>0, <2>1 DEF Entering, QueueType
      <3> QED BY <2>1, <2>3, <3>1 DEF Scheduled
    <2> QED BY <2>2, <2>3
  <1>6. ASSUME NEW t \in Timers, TimerFires(t) PROVE Scheduled(a)'
    <2>1. /\ push[t].pc = "wait" /\ todo' = todo /\ keys' = keys \ {push[t].action}
          /\ push' = [push EXCEPT ![t].pc = "enter"]
        BY <1>6 DEF TimerFires
    <2>2. CASE a = push[t].action
      <3>1. Entering(t, a)'
          BY <1>0, <2>1, <2>2 DEF Entering, QueueType
      <3> QED BY <1>0, <3>1 DEF Scheduled
    <2>3. CASE a # push[t].action
      <3>1. /\ \A p \in Pushers : Entering(p, a) => Entering(p, a)'
            /\ push[Scanner].pc = "list" => push'[Scanner].pc = "list"
          BY <1>0, <2>1 DEF Entering, QueueType
      <3> QED BY <2>1, <2>3, <3>1 DEF Scheduled
    <2> QED BY <2>2, <2>3
  <1>7. ASSUME NEW c \in Callers, Cancel(c) PROVE FALSE
      BY <1>7, ReconcilerAssumption DEF Cancel, PushesComplete, Budgets
  <1>8. ASSUME NEW c \in Callers, NEW b \in Actions, RequestAbort(c, b) PROVE Scheduled(a)'
    <2>1. /\ push[c].pc = "idle" /\ UNCHANGED <<keys, todo>>
          /\ push' = [push EXCEPT ![c] = [pc |-> "enter", action |-> b]]
        BY <1>8 DEF RequestAbort, queue
    <2>2. /\ \A p \in Pushers : Entering(p, a) => push'[p] = push[p]
          /\ push'[Scanner].pc = push[Scanner].pc
        BY <1>0, <2>1, ReconcilerAssumption DEF Entering, QueueType
    <2> QED BY <1>1, <2>1, <2>2
  <1>9. ASSUME NEW p \in Pushers, Enter(p) PROVE Scheduled(a)'
    <2>1. /\ push[p].pc = "enter" /\ todo' = todo /\ keys \subseteq keys' /\ push[p].action \in keys'
          /\ \A q \in Pushers : q # p => push'[q] = push[q]
        BY <1>9 DEF Enter, QueueType
    <2>2. CASE Entering(p, a)
        BY <2>1, <2>2 DEF Entering, Scheduled
    <2>3. CASE ~Entering(p, a)
      <3>1. /\ \A q \in Pushers : Entering(q, a) => Entering(q, a)'
            /\ push[Scanner].pc = "list" => push'[Scanner].pc = "list"
          BY <1>0, <2>1, <2>3 DEF Entering
      <3> QED BY <2>1, <3>1 DEF Scheduled
    <2> QED BY <2>2, <2>3
  <1>10. ASSUME NEW p \in Pushers, Send(p) PROVE Scheduled(a)'
    <2>1. /\ push[p].pc = "send" /\ UNCHANGED <<keys, todo>>
          /\ \A q \in Pushers : q # p => push'[q] = push[q]
        BY <1>10 DEF Send, QueueType
    <2>2. /\ \A q \in Pushers : Entering(q, a) => Entering(q, a)'
          /\ push[Scanner].pc = "list" => push'[Scanner].pc = "list"
        BY <1>0, <2>1 DEF Entering
    <2> QED BY <2>1, <2>2 DEF Scheduled
  <1>11. ASSUME NEW w \in Workers, scheduleRequeue(w), UNCHANGED <<keys, todo>> PROVE Scheduled(a)'
    <2>1. PICK t \in Timers :
             /\ push[t].pc = "idle"
             /\ push' = [push EXCEPT ![t] = [pc |-> "wait", action |-> worker[w].action]]
        BY <1>11 DEF scheduleRequeue
    <2>2. /\ \A p \in Pushers : Entering(p, a) => push'[p] = push[p]
          /\ push'[Scanner].pc = push[Scanner].pc
        BY <1>0, <2>1, ReconcilerAssumption DEF Entering, QueueType
    <2> QED BY <1>1, <1>11, <2>2
  <1>12. ASSUME NEW w \in Workers, RemoveKey(w) PROVE Scheduled(a)'
    <2>1. UNCHANGED <<todo, push>> /\ keys' = keys \ {worker[w].action} /\ worker[w].action # a
        BY <1>12 DEF RemoveKey
    <2> QED BY <2>1 DEF Scheduled, Entering
  <1>13. ASSUME NEW w \in Workers, processTask(w) PROVE Scheduled(a)'
      BY <1>2, <1>11, <1>12, <1>13 DEF processTask, Take, MarkAttempt, CallAbort, ClearRequest, queue
  <1>14. ASSUME NEW b \in Actions, EnqueueAction(b) \/ Collected(b) PROVE Scheduled(a)'
      BY <1>2, <1>14 DEF EnqueueAction, Collected, queue
  <1>15. CASE UNCHANGED vars
      BY <1>2, <1>15 DEF vars
  <1> QED BY <1>3, <1>4, <1>5, <1>6, <1>7, <1>8, <1>9, <1>10, <1>13, <1>14, <1>15 DEF Next

LEMMA UntouchedKept ==
    ASSUME QueueType, Engaged, OneTaskPerAction, CountsInv, [Next]_vars, NEW a \in Actions,
           Untouched(a), ~\E c \in Callers : RequestAbort(c, a)
    PROVE  Untouched(a)'
  <1>0. Scanner \in Pushers /\ Callers \subseteq Pushers /\ Timers \subseteq Pushers
      BY DEF Pushers
  <1>1. ~row'[a].abortRequested
      BY RowMoves DEF Untouched
  <1>2. ASSUME keys' \subseteq keys, todo' \subseteq todo,
               \A p \in Pushers : Entering(p, a)' => push'[p] = push[p]
        PROVE  Untouched(a)'
      BY <1>1, <1>2 DEF Untouched, Entering
  <1>3. ASSUME UNCHANGED <<keys, todo, push>> PROVE Untouched(a)'
      BY <1>2, <1>3
  <1>4. CASE ListPending
    <2>1. todo' \subseteq todo \cup {b \in Actions : row[b].abortRequested} /\ keys' = keys
          /\ push' = [push EXCEPT ![Scanner].pc = "idle"]
        BY <1>4 DEF ListPending, queue
    <2>2. a \notin todo' /\ a \notin keys'
        BY <2>1 DEF Untouched
    <2>3. \A p \in Pushers : ~Entering(p, a)'
        BY <1>0, <2>1 DEF Entering, Untouched, QueueType
    <2> QED BY <1>1, <2>2, <2>3 DEF Untouched
  <1>5. CASE Restart
      BY <1>1, <1>5 DEF Restart, NoPush, Untouched, Entering
  <1>6. ASSUME NEW b \in Actions, PushPending(b) PROVE Untouched(a)'
    <2>1. /\ b \in todo /\ todo' = todo \ {b} /\ keys' = keys
          /\ push' = [push EXCEPT ![Scanner] = [pc |-> "enter", action |-> b]]
        BY <1>6 DEF PushPending, queue
    <2>2. b # a
        BY <2>1 DEF Untouched
    <2>3. \A p \in Pushers : Entering(p, a)' => push'[p] = push[p]
        BY <1>0, <2>1, <2>2 DEF Entering, QueueType
    <2> QED BY <1>2, <2>1, <2>3
  <1>7. ASSUME NEW t \in Timers, TimerFires(t) PROVE Untouched(a)'
    <2>1. /\ push[t].pc = "wait" /\ todo' = todo /\ keys' = keys \ {push[t].action}
          /\ push' = [push EXCEPT ![t].pc = "enter"]
        BY <1>7 DEF TimerFires
    <2>2. push[t].action # a
        BY <1>0, <2>1 DEF Untouched, OneTaskPerAction, HeldIsKeyed, Holds
    <2>3. \A p \in Pushers : Entering(p, a)' => push'[p] = push[p]
        BY <1>0, <2>1, <2>2 DEF Entering, QueueType
    <2> QED BY <1>2, <2>1, <2>3
  <1>8. ASSUME NEW c \in Callers, Cancel(c) PROVE Untouched(a)'
      BY <1>2, <1>8 DEF Cancel, NoPush, Entering, QueueType
  <1>9. ASSUME NEW c \in Callers, NEW b \in Actions, RequestAbort(c, b) PROVE Untouched(a)'
    <2>1. /\ b # a /\ UNCHANGED <<keys, todo>>
          /\ push' = [push EXCEPT ![c] = [pc |-> "enter", action |-> b]]
        BY <1>9 DEF RequestAbort, queue
    <2>2. \A p \in Pushers : Entering(p, a)' => push'[p] = push[p]
        BY <1>0, <2>1 DEF Entering, QueueType
    <2> QED BY <1>2, <2>1, <2>2
  <1>10. ASSUME NEW p \in Pushers, Enter(p) PROVE Untouched(a)'
    <2>1. push[p].action # a
        BY <1>10 DEF Enter, Untouched, Entering
    <2>2. keys' \subseteq keys \cup {push[p].action} /\ todo' = todo
        BY <1>10 DEF Enter
    <2>3. \A q \in Pushers : Entering(q, a)' => push'[q] = push[q]
        BY <1>10 DEF Enter, NoPush, Entering, QueueType
    <2> QED BY <1>1, <2>1, <2>2, <2>3 DEF Untouched, Entering
  <1>11. ASSUME NEW p \in Pushers, Send(p) PROVE Untouched(a)'
    <2>1. \A q \in Pushers : Entering(q, a)' => push'[q] = push[q]
        BY <1>11 DEF Send, NoPush, Entering, QueueType
    <2> QED BY <1>2, <1>11, <2>1 DEF Send
  <1>12. ASSUME NEW w \in Workers, scheduleRequeue(w), UNCHANGED <<keys, todo>> PROVE Untouched(a)'
    <2>1. PICK t \in Timers :
             push' = [push EXCEPT ![t] = [pc |-> "wait", action |-> worker[w].action]]
        BY <1>12 DEF scheduleRequeue
    <2>2. \A p \in Pushers : Entering(p, a)' => push'[p] = push[p]
        BY <1>0, <2>1 DEF Entering, QueueType
    <2> QED BY <1>2, <1>12, <2>2
  <1>13. ASSUME NEW w \in Workers, RemoveKey(w) PROVE Untouched(a)'
      BY <1>2, <1>13 DEF RemoveKey
  <1>14. ASSUME NEW w \in Workers, processTask(w) PROVE Untouched(a)'
      BY <1>3, <1>12, <1>13, <1>14 DEF processTask, Take, MarkAttempt, CallAbort, ClearRequest, queue
  <1>15. ASSUME NEW b \in Actions, EnqueueAction(b) \/ Collected(b) PROVE Untouched(a)'
      BY <1>3, <1>15 DEF EnqueueAction, Collected, queue
  <1>16. CASE UNCHANGED vars
      BY <1>3, <1>16 DEF vars
  <1> QED BY <1>4, <1>5, <1>6, <1>7, <1>8, <1>9, <1>10, <1>11, <1>14, <1>15, <1>16 DEF Next

(* A worker about to remove the key has just cleared the request.          *)
LEMMA RemovalsStep ==
    ASSUME QueueType, Engaged, CountsInv, [Next]_vars, "clear" \notin FaultyCalls,
           NEW w \in Workers, worker'[w].pc = "remove"
    PROVE  \/ worker'[w] = worker[w]
           \/ worker'[w].action = worker[w].action /\ ~row'[worker[w].action].abortRequested
  <1> DEFINE Goal == \/ worker'[w] = worker[w]
                     \/ worker'[w].action = worker[w].action /\ ~row'[worker[w].action].abortRequested
  <1>1. ASSUME worker' = worker PROVE Goal
      BY <1>1
  <1>2. ASSUME NEW v \in Workers, v # w, processTask(v) PROVE Goal
      BY <1>2 DEF processTask, Take, MarkAttempt, CallAbort, ClearRequest, RemoveKey, Goto,
             scheduleRequeue, QueueType
  <1>3. CASE ClearRequest(w)
    <2> DEFINE a == worker[w].action
    <2>1. a \in Actions /\ row[a] \in AnyRow /\ row[a].exists
        BY <1>3 DEF ClearRequest, Engaged, Busy, QueueType, CountsInv, AttemptsPaid
    <2>2. row' = [row EXCEPT ![a] = ClearAbortRequest(row[a])] /\ worker' = [worker EXCEPT ![w].pc = "remove"]
        BY <1>3 DEF ClearRequest, Fault, Goto
    <2>3. worker'[w].action = a
        BY <2>2 DEF QueueType, Tasks
    <2>4. ~row'[worker[w].action].abortRequested
        BY <2>1, <2>2 DEF ClearAbortRequest, AnyRow, QueueType
    <2> QED BY <2>3, <2>4
  <1>4. CASE Take(w) \/ MarkAttempt(w) \/ CallAbort(w) \/ RemoveKey(w)
    <2>1. worker'[w].pc # "remove"
        BY <1>4 DEF Take, MarkAttempt, CallAbort, RemoveKey, Goto, scheduleRequeue, QueueType,
               Tasks, Idle
    <2> QED BY <2>1
  <1>5. CASE Restart
      BY <1>5 DEF Restart, Idle
  <1>6. ASSUME NEW b \in Actions, EnqueueAction(b) \/ Collected(b) \/ PushPending(b) PROVE Goal
      BY <1>1, <1>6 DEF EnqueueAction, Collected, PushPending
  <1>7. ASSUME NEW p \in Pushers, Enter(p) \/ Send(p) PROVE Goal
      BY <1>1, <1>7 DEF Enter, Send
  <1>8. ASSUME NEW c \in Callers, Cancel(c) \/ \E a \in Actions : RequestAbort(c, a) PROVE Goal
      BY <1>1, <1>8 DEF Cancel, RequestAbort
  <1>9. ASSUME NEW t \in Timers, TimerFires(t) PROVE Goal
      BY <1>1, <1>9 DEF TimerFires
  <1>10. CASE ListPending \/ UNCHANGED vars
      BY <1>1, <1>10 DEF ListPending, vars
  <1>11. ASSUME NEW v \in Workers, processTask(v) PROVE Goal
      BY <1>2, <1>3, <1>4, <1>11 DEF processTask
  <1> QED BY <1>5, <1>6, <1>7, <1>8, <1>9, <1>10, <1>11 DEF Next

LEMMA FirstStep ==
    ASSUME IInv, CountsInv, FirstInv, [Next]_vars, {"list", "clear"} \cap FaultyCalls = {},
           NEW a \in Actions
    PROVE  /\ requests'[a] = MaxRequests => Untouched(a)'
           /\ AskedOnce(a)' =>
                /\ PushesComplete' /\ row'[a].abortRequested => Scheduled(a)'
                /\ \A w \in Workers : worker'[w].pc = "remove" /\ worker'[w].action = a
                                         => ~row'[a].abortRequested
  <1>1. /\ QueueType /\ Engaged /\ OneTaskPerAction /\ Budgets
        /\ requests[a] \in 0..MaxRequests /\ "list" \notin FaultyCalls /\ "clear" \notin FaultyCalls
      BY DEF IInv, CountsInv, Budgets
  <1>2. ASSUME NEW c \in Callers, RequestAbort(c, a) PROVE requests'[a] = requests[a] - 1
      BY <1>1, <1>2, RequestsStep, ReconcilerAssumption
  <1>3. ASSUME ~\E c \in Callers : RequestAbort(c, a) PROVE requests'[a] = requests[a]
      BY <1>1, <1>3, RequestsStep
  <1>4. ASSUME requests'[a] = MaxRequests PROVE Untouched(a)'
    <2>1. ~\E c \in Callers : RequestAbort(c, a)
        BY <1>1, <1>2, <1>4, ReconcilerAssumption
    <2>2. requests[a] = MaxRequests
        BY <1>3, <1>4, <2>1
    <2> QED BY <1>1, <2>1, <2>2, UntouchedKept DEF FirstInv
  <1>5. ASSUME AskedOnce(a)', NEW c \in Callers, RequestAbort(c, a)
        PROVE  /\ Scheduled(a)'
               /\ \A w \in Workers : ~(worker'[w].pc = "remove" /\ worker'[w].action = a)
    <2>1. requests[a] = MaxRequests
        BY <1>1, <1>2, <1>5, ReconcilerAssumption DEF AskedOnce
    <2>2. Untouched(a)
        BY <2>1 DEF FirstInv
    <2>3. c \in Pushers /\ worker' = worker /\ push' = [push EXCEPT ![c] = [pc |-> "enter", action |-> a]]
        BY <1>5 DEF RequestAbort, Pushers
    <2>4. Entering(c, a)'
        BY <1>1, <2>3 DEF Entering, QueueType
    <2>5. \A w \in Workers : Busy(w) => worker[w].action # a
        BY <1>1, <2>2 DEF Untouched, OneTaskPerAction, HeldIsKeyed
    <2> QED BY <2>3, <2>4, <2>5 DEF Scheduled, Busy
  <1>6. ASSUME AskedOnce(a)', ~\E c \in Callers : RequestAbort(c, a)
        PROVE  /\ PushesComplete' /\ row'[a].abortRequested => Scheduled(a)'
               /\ \A w \in Workers : worker'[w].pc = "remove" /\ worker'[w].action = a
                                        => ~row'[a].abortRequested
    <2>1. AskedOnce(a)
        BY <1>3, <1>6 DEF AskedOnce
    <2>2. row'[a].abortRequested => row[a].abortRequested
        BY <1>1, <1>6, RowMoves
    <2>3. ASSUME PushesComplete', row'[a].abortRequested PROVE Scheduled(a)'
      <3>1. PushesComplete
        <4>1. ASSUME NEW c \in Callers, Cancel(c) PROVE FALSE
            BY <1>1, <2>3, <4>1, ReconcilerAssumption DEF Cancel, PushesComplete, Budgets
        <4>2. cancels' = cancels
          <5>1. CASE \E w \in Workers : processTask(w)
              BY <5>1 DEF processTask, Take, MarkAttempt, CallAbort, ClearRequest, RemoveKey, NoFault,
                 Fault, budgets
          <5>2. CASE \E b \in Actions : EnqueueAction(b) \/ Collected(b) \/ PushPending(b)
              BY <5>2 DEF EnqueueAction, Collected, PushPending, budgets
          <5>3. CASE \E p \in Pushers : Enter(p) \/ Send(p)
              BY <5>3 DEF Enter, Send, budgets
          <5>4. CASE \E t \in Timers : TimerFires(t)
              BY <5>4 DEF TimerFires, budgets
          <5>5. CASE \E c \in Callers, b \in Actions : RequestAbort(c, b)
              BY <5>5 DEF RequestAbort
          <5>6. CASE ListPending \/ Restart \/ UNCHANGED vars
              BY <5>6 DEF ListPending, Restart, vars, NoFault, Fault, budgets
          <5> QED BY <4>1, <5>1, <5>2, <5>3, <5>4, <5>5, <5>6 DEF Next
        <4> QED BY <2>3, <4>2 DEF PushesComplete
      <3>2. Scheduled(a)
          BY <2>1, <2>2, <2>3, <3>1 DEF FirstInv
      <3>3. ~\E w \in Workers : RemoveKey(w) /\ worker[w].action = a
          BY <2>1, <2>2, <2>3 DEF FirstInv, RemoveKey
      <3> QED BY <1>1, <2>2, <2>3, <3>2, <3>3, ScheduledKept
    <2>4. ASSUME NEW w \in Workers, worker'[w].pc = "remove", worker'[w].action = a
          PROVE  ~row'[a].abortRequested
      <3>1. CASE worker'[w] = worker[w]
          BY <2>1, <2>2, <2>4, <3>1 DEF FirstInv
      <3>2. CASE worker'[w].action = worker[w].action /\ ~row'[worker[w].action].abortRequested
          BY <2>4, <3>2
      <3> QED BY <1>1, <2>4, <3>1, <3>2, RemovalsStep
    <2> QED BY <2>3, <2>4
  <1> QED BY <1>4, <1>5, <1>6

LEMMA FirstInductive ==
    ASSUME IInv, CountsInv, FirstInv, [Next]_vars, {"list", "clear"} \cap FaultyCalls = {}
    PROVE  IInv' /\ CountsInv' /\ FirstInv'
  <1>1. IInv' /\ CountsInv'
      BY StepTyped, StepKeepsQueue, CountsStep DEF IInv
  <1> QED BY <1>1, FirstStep DEF FirstInv

LEMMA FirstInit == Init => FirstInv
  <1> SUFFICES ASSUME Init, NEW a \in Actions
               PROVE  Untouched(a) /\ \A w \in Workers : worker[w].pc # "remove"
      BY DEF FirstInv, Untouched
  <1>1. ~row[a].abortRequested
      BY DEF Init, CreateAction, NoRow
  <1>2. \A p \in Pushers : push[p].pc # "enter"
      BY DEF Init, NoPush
  <1> QED BY <1>1, <1>2 DEF Init, Idle, Untouched, Entering

(* As long as no caller went away while its push was blocked, and the      *)
(* statements that list and clear requests do not fail, the first abort    *)
(* requested of an action is in the queue, about to be pushed or left to   *)
(* the scan until it is settled, through restarts and failing calls.       *)
THEOREM FirstRequestIsScheduled ==
    ASSUME {"list", "clear"} \cap FaultyCalls = {}
    PROVE  Spec => [](PushesComplete => \A a \in Actions :
                          AskedOnce(a) /\ row[a].abortRequested => Scheduled(a))
  <1>1. IInv /\ CountsInv /\ FirstInv /\ [Next]_vars => IInv' /\ CountsInv' /\ FirstInv'
      BY FirstInductive
  <1>2. FirstInv => (PushesComplete => \A a \in Actions :
                        AskedOnce(a) /\ row[a].abortRequested => Scheduled(a))
      BY DEF FirstInv
  <1> QED BY InitHolds, CountsInit, FirstInit, <1>1, <1>2, PTL DEF Spec

(* Where no action is asked twice, that is the property the run checks.    *)
THEOREM NoRequestIsForgotten ==
    ASSUME {"list", "clear"} \cap FaultyCalls = {}, MaxRequests <= 1
    PROVE  Spec => []PendingIsScheduled
  <1>1. IInv /\ CountsInv /\ FirstInv /\ [Next]_vars => IInv' /\ CountsInv' /\ FirstInv'
      BY FirstInductive
  <1>2. CountsInv /\ FirstInv => PendingIsScheduled
    <2> SUFFICES ASSUME CountsInv, FirstInv PROVE PendingIsScheduled
        OBVIOUS
    <2>1. \A a \in Actions : AskedOnce(a)
        BY ReconcilerAssumption DEF CountsInv, Budgets, AskedOnce
    <2> QED BY <2>1 DEF FirstInv, PendingIsScheduled, Scheduled, Entering
  <1> QED BY InitHolds, CountsInit, FirstInit, <1>1, <1>2, PTL DEF Spec
=============================================================================
