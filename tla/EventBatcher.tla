---------------------------- MODULE EventBatcher ----------------------------
(***************************************************************************)
(* The executor's event batcher and the events table behind it.  Every     *)
(* reconcile hands its action event to a shared queue and blocks; one      *)
(* goroutine fills batches, a pool of workers records each batch in one    *)
(* call, and every caller of the batch gets the shared answer.             *)
(*                                                                         *)
(* A caller emits the events 1, 2, ... of its action, each until a call    *)
(* for it succeeds.  A call can end early (its context is done), the RPC   *)
(* can fail before or after the statement ran, time out while the          *)
(* statement still runs, and the executor can restart and lose everything  *)
(* it held.                                                                *)
(***************************************************************************)
EXTENDS Integers, Sequences, FiniteSets, Functions

CONSTANTS
    Callers,        \* the reconciles that emit events
    Invalid,        \* the callers whose event fails validation
    Workers,        \* the goroutines that flush batches, as many as
                    \* their channel holds batches
    LastEvent,      \* bound: events of each caller
    QueueDepth,     \* eventQueueDepth
    BatchSize,      \* eventBatchMaxSize
    MaxTrouble      \* bound: contexts done, failing calls and restarts

ASSUME BatcherAssumption ==
    /\ Invalid \subseteq Callers
    /\ IsFiniteSet(Workers)
    /\ LastEvent \in Nat \ {0}
    /\ QueueDepth \in Nat \ {0}
    /\ BatchSize \in Nat \ {0}
    /\ MaxTrouble \in Nat

VARIABLES
    event,      \* the event each caller emits now
    try,        \* the done channel of its last call, 0 before the first
    at,         \* where its call stands: "out", "enqueue" or "wait"
    queue,      \* the channel of requests
    batch,      \* the batch the collector holds
    closed,     \* whether the collector waits to hand it over
    batches,    \* the channel of batches
    flushing,   \* the batch each worker records, <<>> if none
    inserted,   \* whether the statement of that batch ran
    late,       \* statements whose caller has timed out, as sets of events
    done,       \* the answers in the done channels still waited for
    recorded,   \* the rows of action_events
    trouble     \* contexts done, failures and restarts so far

vars == <<event, try, at, queue, batch, closed, batches, flushing, inserted,
          late, done, recorded, trouble>>
caller == <<event, try, at>>
pipe == <<queue, batch, closed, batches, flushing, inserted>>
server == <<late, recorded>>

Channels == 1..MaxTrouble + 1
Request == [caller : Callers, event : 1..LastEvent, try : Channels]

\* The request of a call in progress, and the row its event becomes.
Req(c) == [caller |-> c, event |-> event[c], try |-> try[c]]
Row(r) == <<r.caller, r.event>>
Rows(b) == {Row(r) : r \in Range(b)}

Init ==
    /\ event = [c \in Callers |-> 1]
    /\ try = [c \in Callers |-> 0]
    /\ at = [c \in Callers |-> "out"]
    /\ queue = <<>>
    /\ batch = <<>>
    /\ closed = FALSE
    /\ batches = <<>>
    /\ flushing = [w \in Workers |-> <<>>]
    /\ inserted = [w \in Workers |-> FALSE]
    /\ late = {}
    /\ done = {}
    /\ recorded = {}
    /\ trouble = 0

Trouble ==
    /\ trouble < MaxTrouble
    /\ trouble' = trouble + 1

-----------------------------------------------------------------------------
(* The callers.                                                            *)

\* The requests of c that nobody has answered yet.
Pending(c) ==
    {r \in Range(queue) \cup Range(batch) \cup UNION {Range(b) : b \in Range(batches)}
            \cup UNION {Range(flushing[w]) : w \in Workers} : r.caller = c}

\* A call makes a done channel of its own; the numbers of those that no
\* request holds any more are used again.
Call(c) ==
    /\ at[c] = "out"
    /\ event[c] <= LastEvent
    /\ at' = [at EXCEPT ![c] = "enqueue"]
    /\ \E n \in Channels \ {r.try : r \in Pending(c)} :
        /\ \A m \in Channels \ {r.try : r \in Pending(c)} : n <= m
        /\ try' = [try EXCEPT ![c] = n]
    /\ UNCHANGED <<event, pipe, server, done, trouble>>

\* A caller that leaves the validation to the server.
RecordUnchecked(c) == Call(c)

\* recordEvent refuses an event that does not validate, however often the
\* reconcile comes back with it.
Record(c) == c \notin Invalid /\ Call(c)

Enqueue(c) ==
    /\ at[c] = "enqueue"
    /\ Len(queue) < QueueDepth
    /\ queue' = Append(queue, Req(c))
    /\ at' = [at EXCEPT ![c] = "wait"]
    /\ UNCHANGED <<event, try, batch, closed, batches, flushing, inserted,
                   server, done, trouble>>

\* ctx.Done() in either select; a request already queued stays there.
GiveUp(c) ==
    /\ at[c] # "out"
    /\ Trouble
    /\ at' = [at EXCEPT ![c] = "out"]
    /\ done' = {a \in done : a.req.caller # c}
    /\ UNCHANGED <<event, try, pipe, server>>

\* After an error the reconcile requeues and emits the same event again;
\* after a success it goes on to its next one.
Return(c) ==
    /\ \E ok \in BOOLEAN :
        /\ [req |-> Req(c), ok |-> ok] \in done
        /\ event' = IF ok THEN [event EXCEPT ![c] = @ + 1] ELSE event
        /\ try' = IF ok THEN [try EXCEPT ![c] = 0] ELSE try
    /\ done' = {a \in done : a.req.caller # c}
    /\ at' = [at EXCEPT ![c] = "out"]
    /\ UNCHANGED <<pipe, server, trouble>>

-----------------------------------------------------------------------------
(* The collector.                                                          *)

TakeFirst ==
    /\ batch = <<>>
    /\ queue # <<>>
    /\ batch' = <<Head(queue)>>
    /\ queue' = Tail(queue)
    /\ UNCHANGED <<caller, closed, batches, flushing, inserted, server, done,
                   trouble>>

Fill ==
    /\ batch # <<>>
    /\ ~closed
    /\ Len(batch) < BatchSize
    /\ queue # <<>>
    /\ batch' = Append(batch, Head(queue))
    /\ queue' = Tail(queue)
    /\ UNCHANGED <<caller, closed, batches, flushing, inserted, server, done,
                   trouble>>

\* A collector that waits for a full batch.
CloseFullBatch ==
    /\ batch # <<>>
    /\ ~closed
    /\ Len(batch) = BatchSize
    /\ closed' = TRUE
    /\ UNCHANGED <<caller, queue, batch, batches, flushing, inserted, server,
                   done, trouble>>

\* The batch is full or its timer fires, which it may do at any time.
CloseBatch ==
    /\ batch # <<>>
    /\ ~closed
    /\ closed' = TRUE
    /\ UNCHANGED <<caller, queue, batch, batches, flushing, inserted, server,
                   done, trouble>>

HandOver ==
    /\ closed
    /\ Len(batches) < Cardinality(Workers)
    /\ batches' = Append(batches, batch)
    /\ batch' = <<>>
    /\ closed' = FALSE
    /\ UNCHANGED <<caller, queue, flushing, inserted, server, done, trouble>>

-----------------------------------------------------------------------------
(* The workers and the server.                                             *)

PickUp(w) ==
    /\ flushing[w] = <<>>
    /\ batches # <<>>
    /\ flushing' = [flushing EXCEPT ![w] = Head(batches)]
    /\ batches' = Tail(batches)
    /\ UNCHANGED <<caller, queue, batch, closed, inserted, server, done, trouble>>

\* The server refuses a batch with an event that does not validate.
Refused(w) == \E i \in DOMAIN flushing[w] : flushing[w][i].caller \in Invalid

\* INSERT ... ON CONFLICT DO NOTHING of the whole batch.
InsertEvents(w) ==
    /\ flushing[w] # <<>>
    /\ ~inserted[w]
    /\ ~Refused(w)
    /\ recorded' = recorded \cup Rows(flushing[w])
    /\ inserted' = [inserted EXCEPT ![w] = TRUE]
    /\ UNCHANGED <<caller, queue, batch, closed, batches, flushing, late, done,
                   trouble>>

\* Every caller of the batch gets the same answer; the done channels are
\* buffered, so a caller that has left does not block the worker.
Waits(r) == at[r.caller] = "wait" /\ r = Req(r.caller)

Answer(w, ok) ==
    /\ done' = done \cup
            {[req |-> r, ok |-> ok] : r \in {r \in Range(flushing[w]) : Waits(r)}}
    /\ flushing' = [flushing EXCEPT ![w] = <<>>]
    /\ inserted' = [inserted EXCEPT ![w] = FALSE]

\* A worker that answers only the caller whose request opened the batch.
AnswerFirst(w, ok) ==
    /\ done' = done \cup
            {[req |-> r, ok |-> ok] : r \in {r \in {flushing[w][1]} : Waits(r)}}
    /\ flushing' = [flushing EXCEPT ![w] = <<>>]
    /\ inserted' = [inserted EXCEPT ![w] = FALSE]

Flushed(w) ==
    /\ inserted[w]
    /\ Answer(w, TRUE)
    /\ UNCHANGED <<caller, queue, batch, closed, batches, server, trouble>>

\* A worker that reports every batch as recorded.
FlushIgnoresError(w) ==
    /\ flushing[w] # <<>>
    /\ Trouble
    /\ Answer(w, TRUE)
    /\ UNCHANGED <<caller, queue, batch, closed, batches, server>>

\* The call fails or times out; a statement that did not run yet may still
\* run on the server.
FlushFails(w) ==
    /\ flushing[w] # <<>>
    /\ IF Refused(w) THEN UNCHANGED trouble ELSE Trouble
    /\ Answer(w, FALSE)
    /\ late' \in IF Refused(w) THEN {late} ELSE {late, late \cup {Rows(flushing[w])}}
    /\ UNCHANGED <<caller, queue, batch, closed, batches, recorded>>

LateInsert ==
    \E rows \in late :
        /\ recorded' = recorded \cup rows
        /\ late' = late \ {rows}
        /\ UNCHANGED <<caller, pipe, done, trouble>>

\* The executor restarts.  A reconcile that had not seen its answer has not
\* stored the status either, so it emits the same event again.
Restart ==
    /\ Trouble
    /\ at' = [c \in Callers |-> "out"]
    /\ queue' = <<>>
    /\ batch' = <<>>
    /\ closed' = FALSE
    /\ batches' = <<>>
    /\ \E S \in SUBSET {w \in Workers : flushing[w] # <<>> /\ ~Refused(w)} :
        late' = late \cup {Rows(flushing[w]) : w \in S}
    /\ flushing' = [w \in Workers |-> <<>>]
    /\ inserted' = [w \in Workers |-> FALSE]
    /\ done' = {}
    /\ UNCHANGED <<event, try, recorded>>

-----------------------------------------------------------------------------

Next ==
    \/ \E c \in Callers : Record(c) \/ Enqueue(c) \/ GiveUp(c) \/ Return(c)
    \/ TakeFirst
    \/ Fill
    \/ CloseBatch
    \/ HandOver
    \/ \E w \in Workers :
        PickUp(w) \/ InsertEvents(w) \/ Flushed(w) \/ FlushFails(w)
    \/ LateInsert
    \/ Restart

Work(w) == InsertEvents(w) \/ Flushed(w) \/ (Refused(w) /\ FlushFails(w))

Spec == Init /\ [][Next]_vars

\* A reconcile comes back until its event is acknowledged, the channel lets
\* its blocked senders in by turns, the timer fires, and the workers and the
\* server go on.  Nobody has to give up, to fail or to restart, and a
\* statement whose caller has left need not run.
FairSpec ==
    /\ Spec
    /\ \A c \in Callers :
        WF_vars(Record(c)) /\ SF_vars(Enqueue(c)) /\ WF_vars(Return(c))
    /\ WF_vars(TakeFirst)
    /\ WF_vars(CloseBatch)
    /\ WF_vars(HandOver)
    /\ \A w \in Workers : WF_vars(PickUp(w)) /\ WF_vars(Work(w))

-----------------------------------------------------------------------------
(* Properties.                                                             *)

\* The types, and the bounds of the queue, of a batch and of the channel of
\* batches.
TypeOK ==
    /\ event \in [Callers -> 1..LastEvent + 1]
    /\ try \in [Callers -> {0} \cup Channels]
    /\ at \in [Callers -> {"out", "enqueue", "wait"}]
    /\ queue \in Seq(Request) /\ Len(queue) <= QueueDepth
    /\ batch \in Seq(Request) /\ Len(batch) <= BatchSize
    /\ closed \in BOOLEAN
    /\ batches \in Seq(Seq(Request)) /\ Len(batches) <= Cardinality(Workers)
    /\ flushing \in [Workers -> Seq(Request)]
    /\ inserted \in [Workers -> BOOLEAN]
    /\ late \subseteq SUBSET (Callers \X (1..LastEvent))
    /\ done \subseteq [req : Request, ok : BOOLEAN]
    /\ recorded \subseteq Callers \X (1..LastEvent)
    /\ trouble \in 0..MaxTrouble

\* The delivery semantics are those of a direct Record: an event is stored
\* only after its caller asked for it, and a caller goes on only when its own
\* event is stored, whatever batches, contexts, failing calls, late
\* statements and restarts did in between.
Direct == INSTANCE DirectRecord WITH
    tried <- [c \in Callers |-> try[c] # 0],
    calling <- [c \in Callers |-> at[c] # "out"]

IsDirectRecord == Direct!Spec

\* Every valid event is acknowledged in the end: no batch waits for callers
\* that do not come, no caller of a batch is left without its answer, and an
\* event that does not validate does not fail the batches of the others.
EveryEventIsAcknowledged ==
    \A c \in Callers \ Invalid : <>(event[c] > LastEvent)
=============================================================================
