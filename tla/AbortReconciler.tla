--------------------------- MODULE AbortReconciler ---------------------------
(***************************************************************************)
(* How an abort reaches the cluster: AbortRun and AbortAction mark the row *)
(* and push the action to the reconciler's queue, workers call the actions *)
(* service until the resource is gone or they give up, failing calls are   *)
(* requeued by timers, and a scan at the start picks up what a crash left. *)
(*                                                                         *)
(* The three that push (RPC handlers, timers and the scan) run the same    *)
(* code: push enters the key under the lock and then blocks on the         *)
(* channel.  Rows are never deleted, so MarkAbortAttempt finds the row.    *)
(***************************************************************************)
EXTENDS ActionStore, FiniteSets, Sequences

CONSTANTS
    Actions,
    Created,       \* the actions whose resource exists already
    Workers,       \* the reconciler's workers
    Callers,       \* handlers of AbortRun and AbortAction
    Timers,        \* bound: timers of scheduleRequeue that run at a time
    QueueSize,     \* AbortReconcilerConfig.QueueSize
    MaxAttempts,   \* AbortReconcilerConfig.MaxAttempts
    MaxRequests,   \* bound: aborts requested of an action
    FaultyCalls,   \* bound: the calls that may fail
    MaxFaults,     \* bound: how often they do
    MaxCancels,    \* bound: callers that go away while their push blocks
    MaxRestarts    \* bound: restarts of the runs service

Scanner == "scanner"

ASSUME ReconcilerAssumption ==
    /\ Created \subseteq Actions
    /\ Callers \cap Timers = {} /\ Scanner \notin Callers \cup Timers
    /\ QueueSize \in Nat \ {0} /\ MaxAttempts \in Nat \ {0} /\ MaxRequests \in Nat
    /\ FaultyCalls \subseteq {"list", "mark", "abort", "clear"}
    /\ MaxFaults \in Nat /\ MaxCancels \in Nat /\ MaxRestarts \in Nat

Pushers == Callers \cup Timers \cup {Scanner}
NoAction == "none"

VARIABLES
    row,       \* the rows of the actions
    cr,        \* their TaskActions
    keys, ch,  \* the dedupeQueue
    worker,    \* the task of each worker and its next call
    push,      \* the push each pusher is in
    todo,      \* what the startup scan still has to push
    requests, faults, cancels, restarts   \* what is left of the bounds

vars == <<row, cr, keys, ch, worker, push, todo, requests, faults, cancels, restarts>>
budgets == <<requests, faults, cancels, restarts>>
queue == <<keys, ch>>

Idle == [pc |-> "idle", action |-> NoAction, count |-> 0]
NoPush == [pc |-> "idle", action |-> NoAction]

Init ==
    /\ row = [a \in Actions |-> CreateAction(NoRow)]
    /\ cr = [a \in Actions |-> IF a \in Created THEN "present" ELSE "none"]
    /\ keys = {} /\ ch = <<>>
    /\ worker = [w \in Workers |-> Idle]
    /\ push = [[p \in Pushers |-> NoPush] EXCEPT ![Scanner].pc = "list"]
    /\ todo = {}
    /\ requests = [a \in Actions |-> MaxRequests]
    /\ faults = MaxFaults /\ cancels = MaxCancels /\ restarts = MaxRestarts

Fault(call) ==
    /\ call \in FaultyCalls /\ faults > 0 /\ faults' = faults - 1
    /\ UNCHANGED <<requests, cancels, restarts>>
NoFault == UNCHANGED budgets

-----------------------------------------------------------------------------
(* The surroundings                                                        *)

(* CreateRun enqueues the action after it stored the row, and only logs a  *)
(* failure, so this may also never happen.                                 *)
EnqueueAction(a) ==
    /\ cr[a] = "none" /\ cr' = [cr EXCEPT ![a] = "present"]
    /\ UNCHANGED <<row, queue, worker, push, todo, budgets>>

(* A finished resource is collected.                                       *)
Collected(a) ==
    /\ cr[a] = "present" /\ cr' = [cr EXCEPT ![a] = "gone"]
    /\ UNCHANGED <<row, queue, worker, push, todo, budgets>>

-----------------------------------------------------------------------------
(* Pushes                                                                  *)

(* AbortRun, AbortAction: the row first, then the push.                    *)
RequestAbort(c, a) ==
    /\ push[c].pc = "idle" /\ requests[a] > 0
    /\ requests' = [requests EXCEPT ![a] = @ - 1]
    /\ row' = [row EXCEPT ![a] = AbortAction(@)]
    /\ push' = [push EXCEPT ![c] = [pc |-> "enter", action |-> a]]
    /\ UNCHANGED <<cr, queue, worker, todo, faults, cancels, restarts>>

(* push under the lock: a key that is there already ends it.               *)
Enter(p) ==
    LET a == push[p].action IN
    /\ push[p].pc = "enter"
    /\ IF a \in keys
       THEN push' = [push EXCEPT ![p] = NoPush] /\ UNCHANGED keys
       ELSE push' = [push EXCEPT ![p].pc = "send"] /\ keys' = keys \cup {a}
    /\ UNCHANGED <<row, cr, ch, worker, todo, budgets>>

(* Mutation: the channel takes one task too many.                          *)
SendOneMore(p) ==
    /\ push[p].pc = "send" /\ Len(ch) <= QueueSize
    /\ ch' = Append(ch, push[p].action)
    /\ push' = [push EXCEPT ![p] = NoPush]
    /\ UNCHANGED <<row, cr, keys, worker, todo, budgets>>

(* The channel takes the task once it has room.                            *)
Send(p) ==
    /\ push[p].pc = "send" /\ Len(ch) < QueueSize
    /\ ch' = Append(ch, push[p].action)
    /\ push' = [push EXCEPT ![p] = NoPush]
    /\ UNCHANGED <<row, cr, keys, worker, todo, budgets>>

(* The context of the request ends first; push takes the key back.         *)
Cancel(c) ==
    /\ push[c].pc = "send" /\ cancels > 0 /\ cancels' = cancels - 1
    /\ keys' = keys \ {push[c].action}
    /\ push' = [push EXCEPT ![c] = NoPush]
    /\ UNCHANGED <<row, cr, ch, worker, todo, requests, faults, restarts>>

(* Mutation: the key stays when the timer pushes again.                    *)
TimerKeepsKey(t) ==
    /\ push[t].pc = "wait"
    /\ push' = [push EXCEPT ![t].pc = "enter"]
    /\ UNCHANGED <<row, cr, queue, worker, todo, budgets>>

(* The delay of scheduleRequeue is over: the key goes, then push.          *)
TimerFires(t) ==
    /\ push[t].pc = "wait"
    /\ push' = [push EXCEPT ![t].pc = "enter"]
    /\ keys' = keys \ {push[t].action}
    /\ UNCHANGED <<row, cr, ch, worker, todo, budgets>>

(* startupScan; a failing list is logged.                                  *)
ListPending ==
    /\ push[Scanner].pc = "list"
    /\ \/ todo' = {a \in Actions : row[a].abortRequested} /\ NoFault
       \/ UNCHANGED todo /\ Fault("list")
    /\ push' = [push EXCEPT ![Scanner].pc = "idle"]
    /\ UNCHANGED <<row, cr, queue, worker>>

PushPending(a) ==
    /\ push[Scanner].pc = "idle" /\ a \in todo
    /\ todo' = todo \ {a}
    /\ push' = [push EXCEPT ![Scanner] = [pc |-> "enter", action |-> a]]
    /\ UNCHANGED <<row, cr, queue, worker, budgets>>

-----------------------------------------------------------------------------
(* processTask                                                             *)

Goto(w, step) == worker' = [worker EXCEPT ![w].pc = step]

scheduleRequeue(w) ==
    /\ worker' = [worker EXCEPT ![w] = Idle]
    /\ \E t \in Timers :
         /\ push[t].pc = "idle"
         /\ push' = [push EXCEPT ![t] = [pc |-> "wait", action |-> worker[w].action]]

(* Mutation: the workers are started after the scan.                       *)
TakeAfterScan(w) ==
    /\ push[Scanner].pc = "idle" /\ todo = {}
    /\ worker[w].pc = "idle" /\ ch # <<>>
    /\ worker' = [worker EXCEPT ![w] = [pc |-> "mark", action |-> Head(ch), count |-> 0]]
    /\ ch' = Tail(ch)
    /\ UNCHANGED <<row, cr, keys, push, todo, budgets>>

Take(w) ==
    /\ worker[w].pc = "idle" /\ ch # <<>>
    /\ worker' = [worker EXCEPT ![w] = [pc |-> "mark", action |-> Head(ch), count |-> 0]]
    /\ ch' = Tail(ch)
    /\ UNCHANGED <<row, cr, keys, push, todo, budgets>>

(* A failing statement may have been carried out all the same.             *)
MarkAttempt(w) ==
    LET a == worker[w].action
        marked == [row EXCEPT ![a] = MarkAbortAttempt(@)] IN
    /\ worker[w].pc = "mark"
    /\ \/ /\ row' = marked /\ NoFault
          /\ worker' = [worker EXCEPT ![w].pc = "abort", ![w].count = marked[a].abortAttempts]
          /\ UNCHANGED push
       \/ row' \in {row, marked} /\ Fault("mark") /\ scheduleRequeue(w)
    /\ UNCHANGED <<cr, queue, todo>>

Stopped(a) == IF cr[a] = "present" THEN [cr EXCEPT ![a] = "gone"] ELSE cr

(* Mutation: an error of the actions service counts as not found.          *)
CallAbortOnce(w) ==
    LET a == worker[w].action IN
    /\ worker[w].pc = "abort"
    /\ \/ cr' = Stopped(a) /\ NoFault
       \/ cr' \in {cr, Stopped(a)} /\ Fault("abort")
    /\ Goto(w, "clear")
    /\ UNCHANGED <<row, queue, push, todo>>

(* The actions service deletes the resource.  One that is not found counts *)
(* as aborted; any other error is retried until the attempts are used up.  *)
CallAbort(w) ==
    LET a == worker[w].action IN
    /\ worker[w].pc = "abort"
    /\ \/ cr' = Stopped(a) /\ NoFault /\ Goto(w, "clear") /\ UNCHANGED push
       \/ /\ cr' \in {cr, Stopped(a)} /\ Fault("abort")
          /\ IF worker[w].count >= MaxAttempts
             THEN Goto(w, "clear") /\ UNCHANGED push
             ELSE scheduleRequeue(w)
    /\ UNCHANGED <<row, queue, todo>>

(* A failure to clear is logged.                                           *)
ClearRequest(w) ==
    LET cleared == [row EXCEPT ![worker[w].action] = ClearAbortRequest(@)] IN
    /\ worker[w].pc = "clear"
    /\ \/ row' = cleared /\ NoFault
       \/ row' \in {row, cleared} /\ Fault("clear")
    /\ Goto(w, "remove")
    /\ UNCHANGED <<cr, queue, push, todo>>

RemoveKey(w) ==
    /\ worker[w].pc = "remove"
    /\ keys' = keys \ {worker[w].action}
    /\ worker' = [worker EXCEPT ![w] = Idle]
    /\ UNCHANGED <<row, cr, ch, push, todo, budgets>>

-----------------------------------------------------------------------------

(* Mutation: nothing is picked up after a restart.                         *)
RestartWithoutScan ==
    /\ restarts > 0 /\ restarts' = restarts - 1 /\ UNCHANGED <<requests, faults, cancels>>
    /\ keys' = {} /\ ch' = <<>> /\ todo' = {}
    /\ worker' = [w \in Workers |-> Idle]
    /\ push' = [p \in Pushers |-> NoPush]
    /\ UNCHANGED <<row, cr>>

(* A restart of the runs service forgets all but the rows.                 *)
Restart ==
    /\ restarts > 0 /\ restarts' = restarts - 1 /\ UNCHANGED <<requests, faults, cancels>>
    /\ keys' = {} /\ ch' = <<>> /\ todo' = {}
    /\ worker' = [w \in Workers |-> Idle]
    /\ push' = [[p \in Pushers |-> NoPush] EXCEPT ![Scanner].pc = "list"]
    /\ UNCHANGED <<row, cr>>

processTask(w) ==
    \/ Take(w) \/ MarkAttempt(w) \/ CallAbort(w) \/ ClearRequest(w) \/ RemoveKey(w)

Next ==
    \/ Restart \/ ListPending
    \/ \E a \in Actions : EnqueueAction(a) \/ Collected(a) \/ PushPending(a)
    \/ \E t \in Timers : TimerFires(t)
    \/ \E c \in Callers : Cancel(c) \/ \E a \in Actions : RequestAbort(c, a)
    \/ \E p \in Pushers : Enter(p) \/ Send(p)
    \/ \E w \in Workers : processTask(w)

Spec == Init /\ [][Next]_vars

(* Goroutines run on, and those blocked on the channel are served in turn. *)
Fairness ==
    /\ WF_vars(ListPending)
    /\ \A t \in Timers : WF_vars(TimerFires(t))
    /\ \A a \in Actions : WF_vars(PushPending(a))
    /\ \A p \in Pushers : WF_vars(Enter(p)) /\ SF_vars(Send(p))
    /\ \A w \in Workers : WF_vars(processTask(w))

FairSpec == Spec /\ Fairness

-----------------------------------------------------------------------------
(* Properties                                                              *)

TypeOK ==
    /\ row \in [Actions -> RowType(1, MaxAttempts + MaxRestarts + MaxFaults)]
    /\ cr \in [Actions -> {"none", "present", "gone"}]
    /\ keys \subseteq Actions
    /\ ch \in Seq(Actions) /\ Len(ch) <= QueueSize
    /\ worker \in [Workers -> [pc : {"idle", "mark", "abort", "clear", "remove"},
                               action : Actions \cup {NoAction},
                               count : 0..MaxAttempts + MaxRestarts + MaxFaults]]
    /\ push \in [Pushers -> [pc : {"idle", "list", "wait", "enter", "send"},
                             action : Actions \cup {NoAction}]]
    /\ todo \subseteq Actions
    /\ requests \in [Actions -> 0..MaxRequests] /\ faults \in 0..MaxFaults
    /\ cancels \in 0..MaxCancels /\ restarts \in 0..MaxRestarts

(* A task of a waits in the channel, at a worker, at a timer or at a       *)
(* blocked push.                                                           *)
Busy(w) == worker[w].pc # "idle"
Holds(p) == push[p].pc \in {"wait", "send"}

(* Whoever holds a task holds its key ...                                  *)
HeldIsKeyed ==
    /\ \A i \in DOMAIN ch : ch[i] \in keys
    /\ \A w \in Workers : Busy(w) => worker[w].action \in keys
    /\ \A p \in Pushers : Holds(p) => push[p].action \in keys

(* ... alone ...                                                           *)
HeldOnce ==
    /\ \A i, j \in DOMAIN ch : ch[i] = ch[j] => i = j
    /\ \A v, w \in Workers : Busy(v) /\ Busy(w) /\ worker[v].action = worker[w].action => v = w
    /\ \A p, q \in Pushers : Holds(p) /\ Holds(q) /\ push[p].action = push[q].action => p = q
    /\ \A i \in DOMAIN ch, w \in Workers : Busy(w) => ch[i] # worker[w].action
    /\ \A i \in DOMAIN ch, p \in Pushers : Holds(p) => ch[i] # push[p].action
    /\ \A w \in Workers, p \in Pushers : Busy(w) /\ Holds(p) => worker[w].action # push[p].action

(* ... and a key is held.                                                  *)
KeyIsHeld ==
    \A a \in keys :
        \/ \E i \in DOMAIN ch : ch[i] = a
        \/ \E w \in Workers : Busy(w) /\ worker[w].action = a
        \/ \E p \in Pushers : Holds(p) /\ push[p].action = a

(* A key of the dedupeQueue stands for exactly one task: no action is      *)
(* processed twice at a time, and no key is left behind to block later     *)
(* requests.                                                               *)
OneTaskPerAction == HeldIsKeyed /\ HeldOnce /\ KeyIsHeld

(* A cancelled push leaves its request to the next restart.                *)
PushesComplete == cancels = MaxCancels

(* A pending abort is in the queue or about to be pushed, as long as no    *)
(* caller went away while its push was blocked.                            *)
PendingIsScheduled ==
    PushesComplete => \A a \in Actions : row[a].abortRequested =>
        \/ a \in keys \cup todo
        \/ push[Scanner].pc = "list"
        \/ \E p \in Pushers : push[p].pc = "enter" /\ push[p].action = a

(* While failures are too few for giving up (a restart may use up an       *)
(* attempt too), an aborted action whose request is cleared is not running,*)
(* unless CreateRun enqueues it only now.                                  *)
ClearedIsStopped ==
    (MaxFaults - faults) + (MaxRestarts - restarts) < MaxAttempts =>
        \A a \in Created :
            row[a].phase = ABORTED /\ ~row[a].abortRequested => cr[a] # "present"

(* Every abort request is settled in the end, carried out or given up,     *)
(* unless a caller went away while its push was blocked.                   *)
AbortSettles ==
    \A a \in Actions :
        row[a].abortRequested ~> ~row[a].abortRequested \/ ~PushesComplete
==============================================================================
