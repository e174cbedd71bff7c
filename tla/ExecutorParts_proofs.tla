------------------------ MODULE ExecutorParts_proofs ------------------------
(***************************************************************************)
(* Of two parts that the executor's controller relies on, each a           *)
(* specification of its own.                                               *)
(*                                                                         *)
(* The event batcher implements a direct Record, step by step: a request   *)
(* of an older event that still travels is harmless because that event is  *)
(* stored, and an answer is a success only when it is.                     *)
(*                                                                         *)
(* In a condition action an accepted signal stands and a signalled outcome *)
(* is final.  The reconciler's cache may lag behind, but not behind what   *)
(* the reconciler has already acted on: the version that made it find the  *)
(* condition signalled, and every later one, holds the signal.             *)
(***************************************************************************)
EXTENDS EventBatcher, ConditionAction, FiniteSetTheorems, SequenceTheorems, TLAPS

-----------------------------------------------------------------------------
(* The event batcher                                                       *)

\* A caller has asked for the event n, and if it went on, n is stored.
RowAsked(c, n) ==
    /\ n <= event[c]
    /\ n < event[c] => <<c, n>> \in recorded
    /\ n = event[c] => try[c] # 0

AllAsked(S) == \A r \in S : RowAsked(r.caller, r.event)

\* This holds of everything that may still be stored.
Asked ==
    /\ AllAsked(Range(queue))
    /\ AllAsked(Range(batch))
    /\ \A b \in Range(batches) : AllAsked(Range(b))
    /\ \A w \in Workers : AllAsked(Range(flushing[w]))
    /\ \A rows \in late : \A row \in rows : RowAsked(row[1], row[2])

Inserted == \A w \in Workers :
    inserted[w] => flushing[w] # <<>> /\ Rows(flushing[w]) \subseteq recorded
Answered == \A a \in done :
    (a.ok => Row(a.req) \in recorded) /\ at[a.req.caller] # "out"
Engaged == \A c \in Callers : at[c] # "out" => event[c] <= LastEvent /\ try[c] # 0

IInv == TypeOK /\ Asked /\ Inserted /\ Answered /\ Engaged

-----------------------------------------------------------------------------
(* What a channel or a batch holds.                                        *)

LEMMA RangeOfQueue ==
    ASSUME NEW S, NEW q \in Seq(S)
    PROVE  /\ Range(q) \subseteq S
           /\ \A x \in S : Append(q, x) \in Seq(S) /\ Range(Append(q, x)) = Range(q) \cup {x}
                           /\ Len(Append(q, x)) = Len(q) + 1
           /\ q # <<>> => /\ Head(q) \in Range(q) /\ Head(q) \in S
                          /\ Tail(q) \in Seq(S) /\ Len(Tail(q)) = Len(q) - 1
                          /\ Range(Tail(q)) \subseteq Range(q)
  <1>1. Range(q) \subseteq S
      BY DEF Range
  <1>2. ASSUME NEW x \in S
        PROVE  Append(q, x) \in Seq(S) /\ Range(Append(q, x)) = Range(q) \cup {x}
               /\ Len(Append(q, x)) = Len(q) + 1
    <2>1. \A i \in 1..Len(q) : Append(q, x)[i] = q[i]
        OBVIOUS
    <2>2. DOMAIN Append(q, x) = 1..Len(q) + 1 /\ Append(q, x)[Len(q) + 1] = x
        OBVIOUS
    <2>3. DOMAIN q = 1..Len(q)
        OBVIOUS
    <2>4. 1..Len(q) + 1 = (1..Len(q)) \cup {Len(q) + 1}
        OBVIOUS
    <2> QED BY <2>1, <2>2, <2>3, <2>4 DEF Range
  <1>3. ASSUME q # <<>>
        PROVE  /\ Head(q) \in Range(q) /\ Head(q) \in S
               /\ Tail(q) \in Seq(S) /\ Len(Tail(q)) = Len(q) - 1
               /\ Range(Tail(q)) \subseteq Range(q)
    <2>1. Head(q) = q[1] /\ 1 \in DOMAIN q
        BY <1>3
    <2>2. Tail(q) \in Seq(S) /\ Len(Tail(q)) = Len(q) - 1
        BY <1>3
    <2>3. \A i \in 1..Len(q) - 1 : Tail(q)[i] = q[i + 1] /\ i + 1 \in DOMAIN q
        BY <1>3
    <2>4. DOMAIN Tail(q) = 1..Len(q) - 1
        BY <2>2
    <2> QED BY <1>1, <2>1, <2>2, <2>3, <2>4 DEF Range
  <1> QED BY <1>1, <1>2, <1>3

LEMMA RangeOfBatch ==
    ASSUME NEW S
    PROVE  /\ <<>> \in Seq(S) /\ Len(<<>>) = 0 /\ Range(<<>>) = {}
           /\ \A x \in S : <<x>> \in Seq(S) /\ Len(<<x>>) = 1 /\ Range(<<x>>) = {x}
  BY DEF Range

LEMMA BoundsAreNumbers == Cardinality(Workers) \in Nat
  BY BatcherAssumption, FS_CardinalityType

-----------------------------------------------------------------------------

LEMMA InitHolds == Init => IInv
  <1> SUFFICES ASSUME Init PROVE IInv
      OBVIOUS
  <1>1. TypeOK
    <2>1. queue \in Seq(Request) /\ batch \in Seq(Request) /\ batches \in Seq(Seq(Request))
        BY DEF Init
    <2>2. Len(queue) <= QueueDepth /\ Len(batch) <= BatchSize /\ Len(batches) <= Cardinality(Workers)
        BY BoundsAreNumbers, BatcherAssumption DEF Init
    <2>3. event \in [Callers -> 1..LastEvent + 1] /\ trouble \in 0..MaxTrouble
        BY BatcherAssumption DEF Init
    <2>4. flushing \in [Workers -> Seq(Request)] /\ inserted \in [Workers -> BOOLEAN]
        BY DEF Init
    <2> QED BY <2>1, <2>2, <2>3, <2>4 DEF Init, TypeOK
  <1>2. Asked
      BY RangeOfBatch DEF Init, Asked, AllAsked
  <1>3. Inserted /\ Answered /\ Engaged
      BY DEF Init, Inserted, Answered, Engaged
  <1> QED BY <1>1, <1>2, <1>3 DEF IInv

\* What was asked stays asked while the events stay the same.
LEMMA AskedStays ==
    ASSUME TypeOK, event' = event, recorded \subseteq recorded',
           \A c \in Callers : try[c] # 0 => try'[c] # 0
    PROVE  /\ \A c \in Callers, n \in 1..LastEvent : RowAsked(c, n) => RowAsked(c, n)'
           /\ \A S \in SUBSET Request : AllAsked(S) => AllAsked(S)'
  BY DEF RowAsked, AllAsked, Request

LEMMA RequestIsTyped ==
    ASSUME TypeOK, Engaged, NEW c \in Callers, at[c] # "out"
    PROVE  Req(c) \in Request /\ RowAsked(c, event[c])
  <1>1. event[c] \in 1..LastEvent /\ try[c] \in Channels
      BY BatcherAssumption DEF TypeOK, Engaged, Channels
  <1> QED BY <1>1 DEF Req, Request, RowAsked, Engaged

\* The containers that a step leaves alone keep what they promise.
LEMMA PipeStays ==
    ASSUME TypeOK, Asked, event' = event, recorded \subseteq recorded',
           \A c \in Callers : try[c] # 0 => try'[c] # 0
    PROVE  /\ AllAsked(Range(queue))' \/ queue' # queue
           /\ AllAsked(Range(batch))' \/ batch' # batch
           /\ (\A b \in Range(batches) : AllAsked(Range(b)))' \/ batches' # batches
           /\ (\A w \in Workers : AllAsked(Range(flushing[w])))' \/ flushing' # flushing
           /\ (\A rows \in late : \A row \in rows : RowAsked(row[1], row[2]))' \/ late' # late
  <1>1. Range(queue) \subseteq Request /\ Range(batch) \subseteq Request
      BY RangeOfQueue DEF TypeOK
  <1>2. \A b \in Range(batches) : Range(b) \subseteq Request
    <2>1. \A b \in Range(batches) : b \in Seq(Request)
        BY RangeOfQueue DEF TypeOK
    <2> QED BY <2>1, RangeOfQueue
  <1>3. \A w \in Workers : Range(flushing[w]) \subseteq Request
    <2>1. \A w \in Workers : flushing[w] \in Seq(Request)
        BY DEF TypeOK
    <2> QED BY <2>1, RangeOfQueue
  <1>4. \A rows \in late : \A row \in rows : row[1] \in Callers /\ row[2] \in 1..LastEvent
      BY DEF TypeOK
  <1>5. \A c \in Callers, n \in 1..LastEvent : RowAsked(c, n) => RowAsked(c, n)'
      BY AskedStays
  <1>6. \A S \in SUBSET Request : AllAsked(S) => AllAsked(S)'
      BY AskedStays
  <1>7. queue' = queue => AllAsked(Range(queue))'
      BY <1>1, <1>6 DEF Asked, AllAsked
  <1>8. batch' = batch => AllAsked(Range(batch))'
      BY <1>1, <1>6 DEF Asked, AllAsked
  <1>9. batches' = batches => (\A b \in Range(batches) : AllAsked(Range(b)))'
      BY <1>2, <1>6 DEF Asked, AllAsked
  <1>10. flushing' = flushing => (\A w \in Workers : AllAsked(Range(flushing[w])))'
      BY <1>3, <1>6 DEF Asked, AllAsked
  <1>11. late' = late => (\A rows \in late : \A row \in rows : RowAsked(row[1], row[2]))'
      BY <1>4, <1>5 DEF Asked
  <1> QED BY <1>7, <1>8, <1>9, <1>10, <1>11

-----------------------------------------------------------------------------
(* The callers.                                                            *)

LEMMA CallKeeps ==
    ASSUME IInv, NEW c \in Callers, Call(c)
    PROVE  IInv'
  <1> USE DEF IInv
  <1>1. PICK n \in Channels : try' = [try EXCEPT ![c] = n]
      BY DEF Call
  <1>2. n # 0 /\ try' \in [Callers -> {0} \cup Channels]
      BY <1>1, BatcherAssumption DEF TypeOK, Channels
  <1>3. at' \in [Callers -> {"out", "enqueue", "wait"}]
      BY DEF Call, TypeOK
  <1>4. TypeOK'
      BY <1>2, <1>3 DEF Call, TypeOK, pipe, server
  <1>5. \A d \in Callers : try[d] # 0 => try'[d] # 0
      BY <1>1, <1>2 DEF TypeOK
  <1>6. Asked'
      BY <1>5, PipeStays DEF Call, Asked, pipe, server
  <1>7. Inserted' /\ Answered'
      BY DEF Call, pipe, server, Inserted, Answered
  <1>8. Engaged'
      BY <1>1, <1>2 DEF Call, Engaged, TypeOK
  <1> QED BY <1>4, <1>6, <1>7, <1>8

LEMMA EnqueueKeeps ==
    ASSUME IInv, NEW c \in Callers, Enqueue(c)
    PROVE  IInv'
  <1> USE DEF IInv
  <1>1. Req(c) \in Request /\ RowAsked(c, event[c])
      BY RequestIsTyped DEF Enqueue
  <1>2. queue \in Seq(Request)
      BY DEF TypeOK
  <1>3. queue' \in Seq(Request) /\ Range(queue') = Range(queue) \cup {Req(c)}
        /\ Len(queue') = Len(queue) + 1
      BY <1>1, <1>2, RangeOfQueue DEF Enqueue
  <1>4. Len(queue') <= QueueDepth
      BY <1>2, <1>3, BatcherAssumption DEF Enqueue
  <1>5. at' \in [Callers -> {"out", "enqueue", "wait"}]
      BY DEF Enqueue, TypeOK
  <1>6. TypeOK'
      BY <1>3, <1>4, <1>5 DEF Enqueue, TypeOK, server
  <1>7. AllAsked(Range(queue))'
    <2>1. \A r \in Range(queue') : r \in Range(queue) \/ r = Req(c)
        BY <1>3
    <2>2. \A r \in Range(queue) : RowAsked(r.caller, r.event)
        BY DEF Asked, AllAsked
    <2>3. RowAsked(Req(c).caller, Req(c).event)
        BY <1>1 DEF Req
    <2>4. \A r \in Range(queue') : RowAsked(r.caller, r.event)
        BY <2>1, <2>2, <2>3
    <2>5. event' = event /\ try' = try /\ recorded' = recorded
        BY DEF Enqueue, server
    <2> QED BY <2>4, <2>5 DEF AllAsked, RowAsked
  <1>8. Asked'
      BY <1>7, PipeStays DEF Enqueue, Asked, server
  <1>9. Inserted' /\ Answered'
      BY DEF Enqueue, server, Inserted, Answered
  <1>10. Engaged'
      BY DEF Enqueue, Engaged, TypeOK
  <1> QED BY <1>6, <1>8, <1>9, <1>10

LEMMA GiveUpKeeps ==
    ASSUME IInv, NEW c \in Callers, GiveUp(c)
    PROVE  IInv'
  <1> USE DEF IInv
  <1>1. TypeOK'
      BY BatcherAssumption DEF GiveUp, Trouble, TypeOK, pipe, server
  <1>2. Asked'
      BY PipeStays DEF GiveUp, Asked, pipe, server
  <1>3. Inserted' /\ Answered' /\ Engaged'
      BY DEF GiveUp, pipe, server, Inserted, Answered, Engaged, TypeOK
  <1> QED BY <1>1, <1>2, <1>3

\* A success moves the caller on, and its event is stored by then.
LEMMA ReturnKeeps ==
    ASSUME IInv, NEW c \in Callers, Return(c)
    PROVE  IInv'
  <1> USE DEF IInv
  <1>1. PICK ok \in BOOLEAN :
            /\ [req |-> Req(c), ok |-> ok] \in done
            /\ event' = IF ok THEN [event EXCEPT ![c] = @ + 1] ELSE event
            /\ try' = IF ok THEN [try EXCEPT ![c] = 0] ELSE try
      BY DEF Return
  <1>2. Req(c) \in Request
      BY <1>1 DEF TypeOK
  <1>3. event[c] \in 1..LastEvent
      BY <1>2 DEF Req, Request
  <1>4. ok => <<c, event[c]>> \in recorded
      BY <1>1 DEF Answered, Row, Req
  <1>5. event' \in [Callers -> 1..LastEvent + 1] /\ try' \in [Callers -> {0} \cup Channels]
      BY <1>1, <1>3, BatcherAssumption DEF TypeOK
  <1>6. TypeOK'
      BY <1>5 DEF Return, TypeOK, pipe, server
  <1>7. \A d \in Callers, n \in 1..LastEvent : RowAsked(d, n) => RowAsked(d, n)'
    <2> TAKE d \in Callers, n \in 1..LastEvent
    <2>1. CASE ok /\ d = c
      <3>1. event'[d] = event[d] + 1
          BY <1>1, <2>1 DEF TypeOK
      <3>2. event[d] \in Int /\ n \in Int
          BY <1>3, <2>1
      <3> QED BY <1>4, <2>1, <3>1, <3>2 DEF RowAsked, Return, server
    <2>2. CASE ~(ok /\ d = c)
      <3>1. event'[d] = event[d] /\ try'[d] = try[d]
          BY <1>1, <2>2 DEF TypeOK
      <3> QED BY <3>1 DEF RowAsked, Return, server
    <2> QED BY <2>1, <2>2
  <1>8. \A S \in SUBSET Request : AllAsked(S) => AllAsked(S)'
      BY <1>7 DEF AllAsked, Request
  <1>9. Range(queue) \subseteq Request /\ Range(batch) \subseteq Request
      BY RangeOfQueue DEF TypeOK
  <1>10. \A b \in Range(batches) : Range(b) \subseteq Request
    <2>1. \A b \in Range(batches) : b \in Seq(Request)
        BY RangeOfQueue DEF TypeOK
    <2> QED BY <2>1, RangeOfQueue
  <1>11. \A w \in Workers : Range(flushing[w]) \subseteq Request
    <2>1. \A w \in Workers : flushing[w] \in Seq(Request)
        BY DEF TypeOK
    <2> QED BY <2>1, RangeOfQueue
  <1>12. \A rows \in late : \A row \in rows : row[1] \in Callers /\ row[2] \in 1..LastEvent
      BY DEF TypeOK
  <1>13. UNCHANGED <<queue, batch, batches, flushing, late>>
      BY DEF Return, pipe, server
  <1>14. Asked'
    <2>1. AllAsked(Range(queue))' /\ AllAsked(Range(batch))'
        BY <1>8, <1>9, <1>13 DEF Asked, AllAsked
    <2>2. \A b \in Range(batches) : AllAsked(Range(b))'
        BY <1>8, <1>10 DEF Asked, AllAsked
    <2>3. \A w \in Workers : AllAsked(Range(flushing[w]))'
        BY <1>8, <1>11, <1>13 DEF Asked, AllAsked
    <2>4. \A rows \in late : \A row \in rows : RowAsked(row[1], row[2])'
        BY <1>7, <1>12 DEF Asked
    <2> QED BY <1>13, <2>1, <2>2, <2>3, <2>4 DEF Asked, AllAsked
  <1>15. Inserted' /\ Answered'
      BY DEF Return, pipe, server, Inserted, Answered
  <1>16. Engaged'
    <2>1. \A d \in Callers : d # c => event'[d] = event[d] /\ try'[d] = try[d] /\ at'[d] = at[d]
        BY <1>1 DEF Return, TypeOK
    <2>2. at'[c] = "out"
        BY DEF Return, TypeOK
    <2> QED BY <2>1, <2>2 DEF Engaged
  <1> QED BY <1>6, <1>14, <1>15, <1>16

-----------------------------------------------------------------------------
(* The collector moves requests along.                                     *)

LEMMA SameRows ==
    ASSUME UNCHANGED <<event, try, recorded>>
    PROVE  \A S : AllAsked(S) => (\A r \in S : RowAsked(r.caller, r.event)')
  BY DEF AllAsked, RowAsked

LEMMA CollectorKeeps ==
    ASSUME IInv, TakeFirst \/ Fill \/ CloseBatch \/ HandOver
    PROVE  IInv'
  <1> USE DEF IInv
  <1>1. UNCHANGED <<event, try, at, late, recorded, flushing, inserted, done, trouble>>
      BY DEF TakeFirst, Fill, CloseBatch, HandOver, caller, server
  <1>2. queue \in Seq(Request) /\ batch \in Seq(Request) /\ batches \in Seq(Seq(Request))
      BY DEF TypeOK
  <1>3. Inserted' /\ Answered' /\ Engaged'
      BY <1>1 DEF Inserted, Answered, Engaged
  <1>4. CASE TakeFirst
    <2>1. /\ Head(queue) \in Range(queue) /\ Head(queue) \in Request
          /\ queue' \in Seq(Request) /\ Len(queue') = Len(queue) - 1
          /\ Range(queue') \subseteq Range(queue)
        BY <1>2, <1>4, RangeOfQueue DEF TakeFirst
    <2>2. batch' \in Seq(Request) /\ Len(batch') = 1 /\ Range(batch') = {Head(queue)}
        BY <1>4, <2>1, RangeOfBatch DEF TakeFirst
    <2>3. TypeOK'
        BY <1>1, <1>2, <1>4, <2>1, <2>2, BatcherAssumption DEF TakeFirst, TypeOK
    <2>4. AllAsked(Range(queue))' /\ AllAsked(Range(batch))'
        BY <1>1, <2>1, <2>2, SameRows DEF Asked, AllAsked
    <2> QED BY <1>1, <1>3, <1>4, <2>3, <2>4, PipeStays DEF TakeFirst, Asked
  <1>5. CASE Fill
    <2>1. /\ Head(queue) \in Range(queue) /\ Head(queue) \in Request
          /\ queue' \in Seq(Request) /\ Len(queue') = Len(queue) - 1
          /\ Range(queue') \subseteq Range(queue)
        BY <1>2, <1>5, RangeOfQueue DEF Fill
    <2>2. /\ batch' \in Seq(Request) /\ Len(batch') = Len(batch) + 1
          /\ Range(batch') = Range(batch) \cup {Head(queue)}
        BY <1>2, <1>5, <2>1, RangeOfQueue DEF Fill
    <2>3. TypeOK'
        BY <1>1, <1>2, <1>5, <2>1, <2>2, BatcherAssumption DEF Fill, TypeOK
    <2>4. AllAsked(Range(queue))' /\ AllAsked(Range(batch))'
        BY <1>1, <2>1, <2>2, SameRows DEF Asked, AllAsked
    <2> QED BY <1>1, <1>3, <1>5, <2>3, <2>4, PipeStays DEF Fill, Asked
  <1>6. CASE CloseBatch
    <2>1. TypeOK'
        BY <1>1, <1>6 DEF CloseBatch, TypeOK
    <2> QED BY <1>1, <1>3, <1>6, <2>1, PipeStays DEF CloseBatch, Asked
  <1>7. CASE HandOver
    <2>1. /\ batches' \in Seq(Seq(Request)) /\ Len(batches') = Len(batches) + 1
          /\ Range(batches') = Range(batches) \cup {batch}
        BY <1>2, <1>7, RangeOfQueue DEF HandOver
    <2>2. batch' \in Seq(Request) /\ Len(batch') = 0 /\ Range(batch') = {}
        BY <1>7, RangeOfBatch DEF HandOver
    <2>3. Len(batches) \in Nat /\ Len(batches') <= Cardinality(Workers)
        BY <1>2, <1>7, <2>1, BoundsAreNumbers DEF HandOver
    <2>4. TypeOK'
      <3>1. Len(batch') <= BatchSize
          BY <2>2, BatcherAssumption
      <3>2. closed' \in BOOLEAN /\ queue' = queue
          BY <1>7 DEF HandOver
      <3> QED BY <1>1, <2>1, <2>2, <2>3, <3>1, <3>2 DEF TypeOK
    <2>5. AllAsked(Range(batch))'
        BY <2>2 DEF AllAsked
    <2>6. (\A b \in Range(batches) : AllAsked(Range(b)))'
        BY <1>1, <2>1, SameRows DEF Asked, AllAsked
    <2> QED BY <1>1, <1>3, <1>7, <2>4, <2>5, <2>6, PipeStays DEF HandOver, Asked
  <1> QED BY <1>4, <1>5, <1>6, <1>7

-----------------------------------------------------------------------------
(* The workers and the server.                                             *)

LEMMA RowsOfBatch ==
    ASSUME TypeOK, NEW w \in Workers
    PROVE  /\ flushing[w] \in Seq(Request) /\ Range(flushing[w]) \subseteq Request
           /\ Rows(flushing[w]) \subseteq Callers \X (1..LastEvent)
           /\ AllAsked(Range(flushing[w])) =>
                \A row \in Rows(flushing[w]) : RowAsked(row[1], row[2])
  <1>1. flushing[w] \in Seq(Request)
      BY DEF TypeOK
  <1>2. Range(flushing[w]) \subseteq Request
      BY <1>1, RangeOfQueue
  <1> QED BY <1>1, <1>2 DEF Rows, Row, AllAsked, Request

LEMMA PickUpKeeps ==
    ASSUME IInv, NEW w \in Workers, PickUp(w)
    PROVE  IInv'
  <1> USE DEF IInv
  <1>1. UNCHANGED <<event, try, at, late, recorded, queue, batch, closed, inserted, done, trouble>>
      BY DEF PickUp, caller, server
  <1>2. batches \in Seq(Seq(Request)) /\ batches # <<>>
      BY DEF TypeOK, PickUp
  <1>3. /\ Head(batches) \in Range(batches) /\ Head(batches) \in Seq(Request)
        /\ batches' \in Seq(Seq(Request)) /\ Len(batches') = Len(batches) - 1
        /\ Range(batches') \subseteq Range(batches)
      BY <1>2, RangeOfQueue DEF PickUp
  <1>4. flushing' = [flushing EXCEPT ![w] = Head(batches)]
      BY DEF PickUp
  <1>5. TypeOK'
    <2>1. Len(batches') <= Cardinality(Workers)
        BY <1>2, <1>3, BoundsAreNumbers DEF TypeOK
    <2>2. flushing' \in [Workers -> Seq(Request)]
        BY <1>3, <1>4 DEF TypeOK
    <2> QED BY <1>1, <1>3, <2>1, <2>2 DEF TypeOK
  <1>6. (\A b \in Range(batches) : AllAsked(Range(b)))'
      BY <1>1, <1>3, SameRows DEF Asked, AllAsked
  <1>7. (\A v \in Workers : AllAsked(Range(flushing[v])))'
    <2>1. AllAsked(Range(Head(batches)))
        BY <1>3 DEF Asked
    <2>2. \A v \in Workers : flushing'[v] = Head(batches) \/ flushing'[v] = flushing[v]
        BY <1>4 DEF TypeOK
    <2>3. \A v \in Workers : AllAsked(Range(flushing'[v]))
        BY <2>1, <2>2 DEF Asked
    <2> QED BY <1>1, <2>3, SameRows DEF AllAsked
  <1>8. Inserted'
    <2>1. \A v \in Workers : v # w => flushing'[v] = flushing[v]
        BY <1>4 DEF TypeOK
    <2>2. ~inserted[w]
        BY DEF PickUp, Inserted
    <2> QED BY <1>1, <2>1, <2>2 DEF Inserted
  <1>9. Asked'
      BY <1>1, <1>6, <1>7, PipeStays DEF Asked
  <1>10. Answered' /\ Engaged'
      BY <1>1 DEF Answered, Engaged
  <1> QED BY <1>5, <1>8, <1>9, <1>10

LEMMA InsertKeeps ==
    ASSUME IInv, NEW w \in Workers, InsertEvents(w)
    PROVE  IInv'
  <1> USE DEF IInv
  <1>1. UNCHANGED <<event, try, at, late, flushing, queue, batch, closed, batches, done, trouble>>
      BY DEF InsertEvents, caller
  <1>2. recorded' = recorded \cup Rows(flushing[w]) /\ flushing[w] # <<>>
      BY DEF InsertEvents
  <1>3. TypeOK'
    <2>1. recorded' \subseteq Callers \X (1..LastEvent)
        BY <1>2, RowsOfBatch DEF TypeOK
    <2>2. inserted' \in [Workers -> BOOLEAN]
        BY DEF InsertEvents, TypeOK
    <2> QED BY <1>1, <2>1, <2>2 DEF TypeOK
  <1>4. Asked'
      BY <1>1, <1>2, PipeStays DEF Asked
  <1>5. Inserted'
      BY <1>1, <1>2 DEF InsertEvents, Inserted, TypeOK
  <1>6. Answered' /\ Engaged'
      BY <1>1, <1>2 DEF Answered, Engaged
  <1> QED BY <1>3, <1>4, <1>5, <1>6

\* An answer empties the hands of its worker.
LEMMA AnswerKeeps ==
    ASSUME IInv, NEW w \in Workers, NEW ok \in BOOLEAN, Answer(w, ok),
           ok => Rows(flushing[w]) \subseteq recorded,
           UNCHANGED <<event, try, at, queue, batch, closed, batches, recorded>>,
           late' \subseteq late \cup {Rows(flushing[w])}, trouble' \in 0..MaxTrouble
    PROVE  IInv'
  <1> USE DEF IInv
  <1>1. flushing' = [flushing EXCEPT ![w] = <<>>] /\ inserted' = [inserted EXCEPT ![w] = FALSE]
      BY DEF Answer
  <1>2. \A v \in Workers : v # w => flushing'[v] = flushing[v] /\ inserted'[v] = inserted[v]
      BY <1>1 DEF TypeOK
  <1>3. flushing'[w] = <<>> /\ ~inserted'[w]
      BY <1>1 DEF TypeOK
  <1>4. TypeOK'
    <2>1. done' \subseteq [req : Request, ok : BOOLEAN]
        BY RowsOfBatch DEF Answer, TypeOK
    <2>2. late' \subseteq SUBSET (Callers \X (1..LastEvent))
      <3>1. Rows(flushing[w]) \in SUBSET (Callers \X (1..LastEvent))
          BY RowsOfBatch
      <3>2. late \subseteq SUBSET (Callers \X (1..LastEvent))
          BY DEF TypeOK
      <3> QED BY <3>1, <3>2
    <2>3. flushing' \in [Workers -> Seq(Request)] /\ inserted' \in [Workers -> BOOLEAN]
        BY <1>1 DEF TypeOK
    <2> QED BY <2>1, <2>2, <2>3 DEF TypeOK
  <1>5. (\A v \in Workers : AllAsked(Range(flushing[v])))'
    <2>1. \A v \in Workers : AllAsked(Range(flushing'[v]))
        BY <1>2, <1>3, RangeOfBatch DEF Asked, AllAsked
    <2> QED BY <2>1, SameRows DEF AllAsked
  <1>6. (\A rows \in late : \A row \in rows : RowAsked(row[1], row[2]))'
    <2>1. \A rows \in late' : \A row \in rows : RowAsked(row[1], row[2])
        BY RowsOfBatch DEF Asked
    <2> QED BY <2>1 DEF RowAsked
  <1>7. Asked'
      BY <1>5, <1>6, PipeStays DEF Asked
  <1>8. Inserted'
      BY <1>2, <1>3 DEF Inserted
  <1>9. Answered'
    <2>1. \A a \in done' : a \in done \/
            (a.ok = ok /\ a.req \in Range(flushing[w]) /\ at[a.req.caller] = "wait")
        BY DEF Answer, Waits
    <2> QED BY <2>1 DEF Answered, Rows
  <1>10. Engaged'
      BY DEF Engaged
  <1> QED BY <1>4, <1>7, <1>8, <1>9, <1>10

LEMMA WorkerKeeps ==
    ASSUME IInv, NEW w \in Workers, Flushed(w) \/ FlushFails(w)
    PROVE  IInv'
  <1>1. CASE Flushed(w)
    <2>1. Rows(flushing[w]) \subseteq recorded
        BY <1>1 DEF Flushed, IInv, Inserted
    <2>2. trouble' \in 0..MaxTrouble
        BY <1>1 DEF Flushed, IInv, TypeOK
    <2> QED BY <1>1, <2>1, <2>2, AnswerKeeps DEF Flushed, caller, server
  <1>2. CASE FlushFails(w)
    <2>1. trouble' \in 0..MaxTrouble
        BY <1>2, BatcherAssumption DEF FlushFails, Trouble, IInv, TypeOK
    <2>2. late' \subseteq late \cup {Rows(flushing[w])}
        BY <1>2 DEF FlushFails
    <2> QED BY <1>2, <2>1, <2>2, AnswerKeeps DEF FlushFails, caller
  <1> QED BY <1>1, <1>2

LEMMA LateInsertKeeps ==
    ASSUME IInv, LateInsert
    PROVE  IInv'
  <1> USE DEF IInv
  <1>1. PICK rows \in late : recorded' = recorded \cup rows /\ late' = late \ {rows}
                             /\ UNCHANGED <<caller, pipe, done, trouble>>
      BY DEF LateInsert
  <1>2. UNCHANGED <<event, try, at, queue, batch, closed, batches, flushing, inserted, done, trouble>>
      BY <1>1 DEF caller, pipe
  <1>3. TypeOK'
    <2>1. recorded' \subseteq Callers \X (1..LastEvent) /\ late' \subseteq SUBSET (Callers \X (1..LastEvent))
        BY <1>1 DEF TypeOK
    <2> QED BY <1>2, <2>1 DEF TypeOK
  <1>4. (\A stmt \in late : \A row \in stmt : RowAsked(row[1], row[2]))'
    <2>1. \A stmt \in late' : \A row \in stmt : RowAsked(row[1], row[2])
        BY <1>1 DEF Asked
    <2> QED BY <1>1, <1>2, <2>1 DEF RowAsked
  <1>5. Asked'
      BY <1>1, <1>2, <1>4, PipeStays DEF Asked
  <1>6. Inserted' /\ Answered' /\ Engaged'
      BY <1>1, <1>2 DEF Inserted, Answered, Engaged
  <1> QED BY <1>3, <1>5, <1>6

LEMMA RestartKeeps ==
    ASSUME IInv, Restart
    PROVE  IInv'
  <1> USE DEF IInv
  <1>1. UNCHANGED <<event, try, recorded>> /\ queue' = <<>> /\ batch' = <<>> /\ batches' = <<>>
        /\ done' = {} /\ closed' = FALSE /\ at' = [c \in Callers |-> "out"]
        /\ flushing' = [w \in Workers |-> <<>>] /\ inserted' = [w \in Workers |-> FALSE]
      BY DEF Restart
  <1>2. \A stmt \in late' : stmt \in late \/ \E w \in Workers : stmt = Rows(flushing[w])
      BY DEF Restart
  <1>3. TypeOK'
    <2>1. queue' \in Seq(Request) /\ batch' \in Seq(Request) /\ batches' \in Seq(Seq(Request))
        BY <1>1
    <2>2. Len(queue') <= QueueDepth /\ Len(batch') <= BatchSize /\ Len(batches') <= Cardinality(Workers)
        BY <1>1, BoundsAreNumbers, BatcherAssumption
    <2>3. trouble' \in 0..MaxTrouble
        BY BatcherAssumption DEF Restart, Trouble, TypeOK
    <2>4. flushing' \in [Workers -> Seq(Request)] /\ inserted' \in [Workers -> BOOLEAN]
        BY <1>1
    <2>5. late' \subseteq SUBSET (Callers \X (1..LastEvent))
        BY <1>2, RowsOfBatch DEF TypeOK
    <2> QED BY <1>1, <2>1, <2>2, <2>3, <2>4, <2>5 DEF TypeOK
  <1>4. (\A stmt \in late : \A row \in stmt : RowAsked(row[1], row[2]))'
    <2>1. \A stmt \in late' : \A row \in stmt : RowAsked(row[1], row[2])
        BY <1>2, RowsOfBatch DEF Asked
    <2> QED BY <1>1, <2>1 DEF RowAsked
  <1>5. Asked'
      BY <1>1, <1>4, RangeOfBatch DEF Asked, AllAsked
  <1>6. Inserted' /\ Answered' /\ Engaged'
      BY <1>1 DEF Inserted, Answered, Engaged
  <1> QED BY <1>3, <1>5, <1>6

-----------------------------------------------------------------------------
(* The theorems.                                                           *)

LEMMA StepKeeps == IInv /\ [Next]_vars => IInv'
  <1> SUFFICES ASSUME IInv, [Next]_vars PROVE IInv'
      OBVIOUS
  <1>1. ASSUME NEW c \in Callers, Record(c) \/ Enqueue(c) \/ GiveUp(c) \/ Return(c) PROVE IInv'
      BY <1>1, CallKeeps, EnqueueKeeps, GiveUpKeeps, ReturnKeeps DEF Record
  <1>2. ASSUME NEW w \in Workers, PickUp(w) \/ InsertEvents(w) \/ Flushed(w) \/ FlushFails(w)
        PROVE  IInv'
      BY <1>2, PickUpKeeps, InsertKeeps, WorkerKeeps
  <1>3. CASE TakeFirst \/ Fill \/ CloseBatch \/ HandOver
      BY <1>3, CollectorKeeps
  <1>4. CASE LateInsert \/ Restart
      BY <1>4, LateInsertKeeps, RestartKeeps
  <1>5. CASE UNCHANGED vars
      BY <1>5 DEF vars, IInv, TypeOK, Asked, AllAsked, RowAsked, Inserted, Answered, Engaged
  <1> QED BY <1>1, <1>2, <1>3, <1>4, <1>5 DEF Next

LEMMA Invariance == Spec => []IInv
  BY InitHolds, StepKeeps, PTL DEF Spec

\* The queue, the batches and their channel stay within their bounds and every
\* variable has its type, for any number of callers, workers and troubles.
THEOREM BatcherTyped == Spec => []TypeOK
  <1>1. IInv => TypeOK
      BY DEF IInv
  <1> QED BY <1>1, Invariance, PTL

LEMMA DirectInit == Init => Direct!Init
  BY DEF Init, Direct!Init

\* Everything a statement stores is either there already or the event its
\* caller emits now.
LEMMA StoresOnlyAsked ==
    ASSUME IInv, NEW rows, recorded' = recorded \cup rows,
           rows \subseteq Callers \X (1..LastEvent),
           \A row \in rows : RowAsked(row[1], row[2]),
           UNCHANGED <<event, try, at>>
    PROVE  Direct!Next
  <1> DEFINE S == {c \in Callers : <<c, event[c]>> \in rows}
  <1>1. S \in SUBSET {c \in Callers : [d \in Callers |-> try[d] # 0][c]}
      BY DEF RowAsked
  <1>2. recorded' = recorded \cup {<<c, event[c]>> : c \in S}
    <2>1. ASSUME NEW row \in rows PROVE row \in recorded \cup {<<c, event[c]>> : c \in S}
      <3>1. PICK c \in Callers, n \in 1..LastEvent : row = <<c, n>>
          OBVIOUS
      <3>2. RowAsked(c, n)
          BY <3>1
      <3>3. event[c] \in Int /\ (n = event[c] \/ n < event[c])
          BY <3>2 DEF RowAsked, IInv, TypeOK
      <3> QED BY <3>1, <3>2, <3>3 DEF RowAsked
    <2>2. \A c \in S : <<c, event[c]>> \in rows
        OBVIOUS
    <2> HIDE DEF S
    <2> QED BY <2>1, <2>2
  <1>3. Direct!Store(S)
      BY <1>2 DEF Direct!Store
  <1> QED BY <1>1, <1>3 DEF Direct!Next

LEMMA DirectStep == IInv /\ [Next]_vars => [Direct!Next]_Direct!vars
  <1> SUFFICES ASSUME IInv, [Next]_vars PROVE Direct!Next \/ UNCHANGED Direct!vars
      OBVIOUS
  <1> USE DEF IInv
  <1>1. ASSUME NEW c \in Callers, Record(c) PROVE Direct!Next
    <2>1. Direct!Call(c)
      <3>1. PICK n \in Channels : try' = [try EXCEPT ![c] = n]
          BY <1>1 DEF Record, Call
      <3>2. n # 0
          BY BatcherAssumption DEF Channels
      <3>3. [d \in Callers |-> try'[d] # 0] = [[d \in Callers |-> try[d] # 0] EXCEPT ![c] = TRUE]
          BY <3>1, <3>2 DEF TypeOK
      <3>4. [d \in Callers |-> at'[d] # "out"] = [[d \in Callers |-> at[d] # "out"] EXCEPT ![c] = TRUE]
          BY <1>1 DEF Record, Call, TypeOK
      <3> QED BY <1>1, <3>3, <3>4 DEF Record, Call, Direct!Call, server
    <2> QED BY <2>1 DEF Direct!Next
  <1>2. ASSUME NEW c \in Callers, Enqueue(c) PROVE UNCHANGED Direct!vars
    <2>1. [d \in Callers |-> at'[d] # "out"] = [d \in Callers |-> at[d] # "out"]
        BY <1>2 DEF Enqueue, TypeOK
    <2> QED BY <1>2, <2>1 DEF Enqueue, Direct!vars, server
  <1>3. ASSUME NEW c \in Callers, GiveUp(c) PROVE Direct!Next
    <2>1. Direct!Fail({c})
        BY <1>3 DEF GiveUp, Direct!Fail, TypeOK, pipe, server
    <2> QED BY <2>1 DEF Direct!Next
  <1>4. ASSUME NEW c \in Callers, Return(c) PROVE Direct!Next
    <2>1. PICK ok \in BOOLEAN :
            /\ [req |-> Req(c), ok |-> ok] \in done
            /\ event' = IF ok THEN [event EXCEPT ![c] = @ + 1] ELSE event
            /\ try' = IF ok THEN [try EXCEPT ![c] = 0] ELSE try
        BY <1>4 DEF Return
    <2>2. at' = [at EXCEPT ![c] = "out"] /\ recorded' = recorded
        BY <1>4 DEF Return, server
    <2>3. CASE ok
      <3>1. <<c, event[c]>> \in recorded /\ at[c] # "out"
        <4>1. <<c, event[c]>> \in recorded
            BY <2>1, <2>3 DEF Answered, Row, Req
        <4>2. at[c] # "out"
            BY <2>1 DEF Answered, Req
        <4> QED BY <4>1, <4>2
      <3>2. [d \in Callers |-> try'[d] # 0] = [[d \in Callers |-> try[d] # 0] EXCEPT ![c] = FALSE]
          BY <2>1, <2>3 DEF TypeOK
      <3>3. [d \in Callers |-> at'[d] # "out"] = [[d \in Callers |-> at[d] # "out"] EXCEPT ![c] = FALSE]
          BY <2>2 DEF TypeOK
      <3>4. Direct!Succeed(c)
          BY <2>1, <2>2, <2>3, <3>1, <3>2, <3>3 DEF Direct!Succeed
      <3> QED BY <3>4 DEF Direct!Next
    <2>4. CASE ~ok
      <3>1. Direct!Fail({c})
          BY <2>1, <2>2, <2>4 DEF Direct!Fail, TypeOK
      <3> QED BY <3>1 DEF Direct!Next
    <2> QED BY <2>3, <2>4
  <1>5. CASE TakeFirst \/ Fill \/ CloseBatch \/ HandOver
      BY <1>5 DEF TakeFirst, Fill, CloseBatch, HandOver, caller, server, Direct!vars
  <1>6. ASSUME NEW w \in Workers, PickUp(w) \/ Flushed(w) \/ FlushFails(w)
        PROVE  UNCHANGED Direct!vars
      BY <1>6 DEF PickUp, Flushed, FlushFails, caller, server, Direct!vars
  <1>7. ASSUME NEW w \in Workers, InsertEvents(w) PROVE Direct!Next
    <2>1. recorded' = recorded \cup Rows(flushing[w]) /\ UNCHANGED <<event, try, at>>
        BY <1>7 DEF InsertEvents, caller
    <2>2. AllAsked(Range(flushing[w]))
        BY DEF Asked
    <2> QED BY <2>1, <2>2, RowsOfBatch, StoresOnlyAsked
  <1>8. CASE LateInsert
    <2>1. PICK rows \in late : recorded' = recorded \cup rows /\ UNCHANGED caller
        BY <1>8 DEF LateInsert
    <2> QED BY <2>1, StoresOnlyAsked DEF caller, Asked, TypeOK
  <1>9. CASE Restart
    <2>1. Direct!Fail(Callers)
        BY <1>9 DEF Restart, Direct!Fail
    <2> QED BY <2>1 DEF Direct!Next
  <1>10. CASE UNCHANGED vars
      BY <1>10 DEF vars, Direct!vars
  <1> QED BY <1>1, <1>2, <1>3, <1>4, <1>5, <1>6, <1>7, <1>8, <1>9, <1>10 DEF Next

\* The batcher's delivery semantics are those of a direct Record, whatever the
\* number of callers and workers, the size of queue and batches and the
\* failures.
THEOREM ImplementsDirectRecord == Spec => IsDirectRecord
  <1>1. Spec => []IInv
      BY Invariance
  <1> QED BY DirectInit, DirectStep, <1>1, PTL DEF Spec, IsDirectRecord, Direct!Spec

-----------------------------------------------------------------------------
(* Condition actions                                                       *)

\* Later versions keep the signal of earlier ones.
SignalKept ==
    \A i, j \in DOMAIN log :
        i <= j /\ log[i].signal # NoValue => log[j].signal = log[i].signal

\* And an outcome, this one or another, stays an outcome.
OutcomeKept ==
    \A i, j \in DOMAIN log : i <= j /\ isTerminal(log[i]) => isTerminal(log[j])

\* Because a verdict on an old version takes account of signal and clock, it
\* does not reopen a condition whose outcome it has not seen.
Verdicts ==
    /\ Now.reason = "TimedOut" => hasDeadline /\ overdue
    /\ pc = "write" =>
        /\ verdict \in {"Paused", "Signaled", "TimedOut"}
        /\ verdict = "TimedOut" => hasDeadline /\ overdue
        /\ isTerminal(Now) => verdict # "Paused"
    /\ pc = "label" => isTerminal(Now)

\* A Signal that updates the newest version has found no signal in it.
Unsignalled ==
    \A c \in Signallers : call[c] = "update" /\ rv[c] = Len(log) => Now.signal = NoValue

Accepted == \A c \in Signallers : call[c] = "ok" => Now.signal = Value[c]

\* The cache shows the signal that was acted on, so no other verdict follows.
SignalSeen ==
    /\ Now.reason = "Signaled" =>
        Cached.signal # NoValue /\ (pc = "write" => verdict = "Signaled")
    /\ pc = "write" /\ verdict = "Signaled" => Cached.signal # NoValue

ConditionInv == ConditionTypeOK /\ SignalKept /\ OutcomeKept /\ Unsignalled /\ Accepted /\ SignalSeen /\ Verdicts

-----------------------------------------------------------------------------
(* Versions.                                                               *)

LEMMA NowIsLast ==
    ASSUME ConditionTypeOK
    PROVE  /\ Len(log) \in Nat /\ Len(log) >= 1 /\ DOMAIN log = 1..Len(log)
           /\ Now = log[Len(log)] /\ Now \in Resource
           /\ Now.labelled => isTerminal(Now)
           /\ seen \in DOMAIN log /\ Cached \in Resource
  <1>1. log \in Seq(Resource) /\ log # <<>>
      BY DEF ConditionTypeOK
  <1>2. Len(log) \in Nat /\ Len(log) >= 1 /\ DOMAIN log = 1..Len(log)
      BY <1>1
  <1>3. Now = log[Len(log)]
      BY DEF Now, Last
  <1>4. \A i \in 1..Len(log) : log[i] \in Resource
      BY <1>1
  <1> QED BY <1>2, <1>3, <1>4 DEF ConditionTypeOK, Cached

\* A write leaves the versions there are, and becomes the newest itself.
LEMMA WriteAppends ==
    ASSUME ConditionTypeOK, NEW r \in Resource, Write(r), r.labelled => isTerminal(r)
    PROVE  /\ log' \in Seq(Resource) /\ log' # <<>> /\ DOMAIN log' = 1..Len(log')
           /\ Len(log') \in Nat /\ Len(log') >= Len(log)
           /\ Now' = r /\ log'[Len(log')] = r
           /\ \A i \in 1..Len(log) : log'[i] = log[i]
           /\ \A i \in 1..Len(log') : i \in 1..Len(log) \/ (i = Len(log') /\ log'[i] = r)
           /\ \A i \in 1..Len(log') : log'[i].labelled => isTerminal(log'[i])
           /\ r # Now => Len(log') = Len(log) + 1
           /\ r = Now => log' = log
  <1>1. Now' = log'[Len(log')]
      BY DEF Now, Last
  <1>2. CASE r = Now
    <2>1. log' = log
        BY <1>2 DEF Write
    <2> QED BY <1>1, <1>2, <2>1, NowIsLast DEF ConditionTypeOK
  <1>3. CASE r # Now
    <2>1. log' = Append(log, r) /\ log \in Seq(Resource)
        BY <1>3 DEF Write, ConditionTypeOK
    <2>2. /\ log' \in Seq(Resource) /\ Len(log') = Len(log) + 1 /\ log'[Len(log) + 1] = r
          /\ \A i \in 1..Len(log) : log'[i] = log[i]
        BY <2>1
    <2>3. Len(log) \in Nat /\ DOMAIN log' = 1..Len(log')
        BY <2>1, <2>2
    <2>4. \A i \in 1..Len(log') : i \in 1..Len(log) \/ i = Len(log) + 1
        BY <2>2, <2>3
    <2>5. \A i \in 1..Len(log) : log[i].labelled => isTerminal(log[i])
        BY <2>1 DEF ConditionTypeOK
    <2>6. \A i \in 1..Len(log') : log'[i].labelled => isTerminal(log'[i])
        BY <2>2, <2>4, <2>5
    <2>7. log' # <<>>
        BY <2>2, <2>3
    <2> QED BY <1>1, <1>3, <2>2, <2>3, <2>4, <2>6, <2>7
  <1> QED BY <1>2, <1>3

LEMMA ConditionInitHolds == ConditionInit => ConditionInv
  <1> SUFFICES ASSUME ConditionInit PROVE ConditionInv
      OBVIOUS
  <1> DEFINE r == [exists |-> TRUE, signal |-> NoValue, reason |-> "Created", labelled |-> FALSE]
  <1>1. log = <<r>> /\ r \in Resource
      BY DEF ConditionInit, Resource, Reasons
  <1>2. Len(log) = 1 /\ DOMAIN log = {1} /\ log[1] = r /\ log \in Seq(Resource) /\ log # <<>>
      BY <1>1
  <1>3. Now = r
      BY <1>2 DEF Now, Last
  <1>4. 1 \in 1..Len(log)
      BY <1>2
  <1>5. ConditionTypeOK
    <2>1. \A i \in DOMAIN log : log[i].labelled => isTerminal(log[i])
        BY <1>2
    <2>2. restarts \in 0..MaxRestarts /\ faults \in 0..MaxFaults
        BY ConditionAssumption DEF ConditionInit
    <2>3. rv \in [Signallers -> 1..Len(log)] /\ call \in [Signallers -> {"out", "update", "ok", "refused"}]
        BY <1>4 DEF ConditionInit
    <2>4. hasDeadline \in BOOLEAN /\ overdue \in BOOLEAN /\ queued \in BOOLEAN /\ timer \in BOOLEAN
          /\ pc \in {"idle", "write", "label"} /\ verdict \in Reasons /\ seen \in 1..Len(log)
        BY <1>4 DEF ConditionInit, Reasons
    <2> QED BY <1>2, <2>1, <2>2, <2>3, <2>4 DEF ConditionTypeOK
  <1>6. SignalKept
      BY <1>2 DEF SignalKept
  <1>7. OutcomeKept /\ Verdicts
      BY <1>2, <1>3 DEF ConditionInit, OutcomeKept, Verdicts, isTerminal
  <1> QED BY <1>3, <1>5, <1>6, <1>7 DEF ConditionInit, ConditionInv, Unsignalled, Accepted, SignalSeen

-----------------------------------------------------------------------------
(* A write keeps the invariant if it keeps the signal there is and leaves  *)
(* the reason, or replaces it by a verdict.                                *)

LEMMA KeepsSignal ==
    ASSUME ConditionInv, NEW r \in Resource, Write(r), r.labelled => isTerminal(r),
           Now.signal # NoValue => r.signal = Now.signal,
           isTerminal(Now) => isTerminal(r)
    PROVE  SignalKept' /\ OutcomeKept'
  <1> SUFFICES ASSUME NEW i \in DOMAIN log', NEW j \in DOMAIN log', i <= j
               PROVE  /\ log'[i].signal # NoValue => log'[j].signal = log'[i].signal
                      /\ isTerminal(log'[i]) => isTerminal(log'[j])
      BY DEF SignalKept, OutcomeKept, isTerminal
  <1>1. ConditionTypeOK /\ SignalKept /\ OutcomeKept
      BY DEF ConditionInv
  <1>2. i \in 1..Len(log') /\ j \in 1..Len(log')
      BY <1>1, WriteAppends
  <1>3. CASE j \in 1..Len(log)
    <2>1. i \in 1..Len(log)
        BY <1>1, <1>2, <1>3, NowIsLast
    <2>2. log'[i] = log[i] /\ log'[j] = log[j] /\ i \in DOMAIN log /\ j \in DOMAIN log
        BY <1>1, <1>3, <2>1, WriteAppends, NowIsLast
    <2> QED BY <1>1, <2>2 DEF SignalKept, OutcomeKept
  <1>4. CASE i \in 1..Len(log) /\ j \notin 1..Len(log)
    <2>1. log'[j] = r /\ log'[i] = log[i]
        BY <1>1, <1>2, <1>4, WriteAppends
    <2>2. Len(log) \in DOMAIN log /\ i \in DOMAIN log /\ i <= Len(log)
        BY <1>1, <1>4, NowIsLast
    <2>3. /\ log[i].signal # NoValue => Now.signal = log[i].signal
          /\ isTerminal(log[i]) => isTerminal(Now)
        BY <1>1, <2>2, NowIsLast DEF SignalKept, OutcomeKept
    <2> QED BY <2>1, <2>3
  <1>5. CASE i \notin 1..Len(log) /\ j \notin 1..Len(log)
      BY <1>1, <1>2, <1>5, WriteAppends
  <1> QED BY <1>3, <1>4, <1>5

\* What a write by the reconciler, or a deletion, leaves true of the signals.
LEMMA KeepsCalls ==
    ASSUME ConditionInv, NEW r \in Resource, Write(r), r.labelled => isTerminal(r),
           r.signal = Now.signal, UNCHANGED signals
    PROVE  Unsignalled' /\ Accepted' /\ rv' \in [Signallers -> 1..Len(log')]
  <1>1. ConditionTypeOK /\ Unsignalled /\ Accepted
      BY DEF ConditionInv
  <1>2. Now'.signal = Now.signal /\ Len(log') >= Len(log) /\ Len(log') \in Nat /\ Len(log) \in Nat
      BY <1>1, WriteAppends, NowIsLast
  <1>3. call' = call /\ rv' = rv /\ rv \in [Signallers -> 1..Len(log)]
      BY <1>1 DEF signals, ConditionTypeOK
  <1>4. Unsignalled'
    <2> SUFFICES ASSUME NEW c \in Signallers, call[c] = "update", rv[c] = Len(log')
                 PROVE  Now'.signal = NoValue
        BY <1>3 DEF Unsignalled
    <2>1. rv[c] = Len(log)
        BY <1>2, <1>3
    <2> QED BY <1>1, <1>2, <2>1 DEF Unsignalled
  <1>5. Accepted'
      BY <1>1, <1>2, <1>3 DEF Accepted
  <1> QED BY <1>2, <1>3, <1>4, <1>5

-----------------------------------------------------------------------------
(* Steps that leave the versions alone.                                    *)

LEMMA SignalReadKeeps ==
    ASSUME ConditionInv, NEW c \in Signallers, SignalRead(c) \/ SignalConflict(c)
    PROVE  ConditionInv'
  <1> USE DEF ConditionInv
  <1>1. UNCHANGED <<clock, log, seen, reconciler, faulty>>
      BY DEF SignalRead, SignalConflict
  <1>2. Now' = Now /\ Cached' = Cached
      BY <1>1 DEF Now, Cached
  <1>3. call' \in [Signallers -> {"out", "update", "ok", "refused"}] /\ rv' \in [Signallers -> 1..Len(log)]
    <2>1. Len(log) \in 1..Len(log)
        BY NowIsLast
    <2> QED BY <2>1 DEF SignalRead, SignalConflict, Reply, ConditionTypeOK
  <1>4. ConditionTypeOK'
      BY <1>1, <1>3 DEF ConditionTypeOK, clock, reconciler, faulty
  <1>5. Unsignalled'
      BY <1>1, <1>2 DEF SignalRead, SignalConflict, Reply, Unsignalled, ConditionTypeOK
  <1>6. Accepted'
      BY <1>1, <1>2 DEF SignalRead, SignalConflict, Reply, Accepted, ConditionTypeOK
  <1>7. SignalKept' /\ OutcomeKept' /\ SignalSeen' /\ Verdicts'
      BY <1>1, <1>2 DEF SignalKept, OutcomeKept, SignalSeen, Verdicts, isTerminal, reconciler, clock
  <1> QED BY <1>4, <1>5, <1>6, <1>7

\* A later version shows the signal as well.
LEMMA CatchUpKeeps ==
    ASSUME ConditionInv, Observe \/ RestartExecutor
    PROVE  ConditionInv'
  <1> USE DEF ConditionInv
  <1>1. UNCHANGED <<clock, log, verdict, signals>>
      BY DEF Observe, RestartExecutor
  <1>2. seen' \in 1..Len(log) /\ seen <= seen'
    <2>1. seen \in 1..Len(log) /\ Len(log) \in Nat
        BY NowIsLast
    <2>2. CASE Observe
        BY <2>1, <2>2 DEF Observe
    <2>3. CASE RestartExecutor
        BY <2>1, <2>3 DEF RestartExecutor
    <2> QED BY <2>2, <2>3
  <1>3. Cached.signal # NoValue => Cached'.signal # NoValue
      BY <1>1, <1>2, NowIsLast DEF Cached, SignalKept
  <1>4. Now' = Now
      BY <1>1 DEF Now
  <1>5. ConditionTypeOK'
    <2>1. restarts' \in 0..MaxRestarts /\ faults' = faults
        BY ConditionAssumption DEF Observe, RestartExecutor, faulty, ConditionTypeOK
    <2>2. queued' \in BOOLEAN /\ timer' \in BOOLEAN /\ pc' \in {"idle", "write", "label"}
        BY DEF Observe, RestartExecutor, ConditionTypeOK
    <2> QED BY <1>1, <1>2, <2>1, <2>2 DEF ConditionTypeOK, clock, signals
  <1>6. SignalSeen'
    <2>1. pc' = "write" => pc = "write"
        BY DEF Observe, RestartExecutor
    <2> QED BY <1>1, <1>3, <1>4, <2>1 DEF SignalSeen
  <1>7. SignalKept' /\ OutcomeKept' /\ Unsignalled' /\ Accepted'
      BY <1>1, <1>4 DEF SignalKept, OutcomeKept, isTerminal, Unsignalled, Accepted, signals
  <1>8. Verdicts'
    <2>1. pc' = pc \/ pc' = "idle"
        BY DEF Observe, RestartExecutor
    <2> QED BY <1>1, <1>4, <2>1 DEF Verdicts, isTerminal, clock
  <1> QED BY <1>5, <1>6, <1>7, <1>8

LEMMA ReconcileKeeps ==
    ASSUME ConditionInv, Reconcile
    PROVE  ConditionInv'
  <1> USE DEF ConditionInv
  <1>1. UNCHANGED <<clock, log, seen, signals, faulty>> /\ pc = "idle" /\ queued' = FALSE
      BY DEF Reconcile
  <1>2. Now' = Now /\ Cached' = Cached
      BY <1>1 DEF Now, Cached
  <1>3. CASE Cached.exists /\ ~isTerminal(Cached)
    <2>1. verdict' = Decide(Cached) /\ pc' \in {"idle", "write"} /\ timer' \in BOOLEAN
        BY <1>3 DEF Reconcile, WaitForDeadline, ConditionTypeOK
    <2>2. verdict' \in Reasons
        BY <2>1 DEF Decide, Reasons
    <2>3. verdict' = "Signaled" <=> Cached.signal # NoValue
        BY <2>1 DEF Decide
    <2>4. SignalSeen'
        BY <1>2, <2>3 DEF SignalSeen
    <2>5. Verdicts'
      <3>1. isTerminal(Now) => verdict' # "Paused"
          BY <2>1, <2>3 DEF Verdicts, SignalSeen, isTerminal, Decide
      <3>2. verdict' = "TimedOut" => hasDeadline /\ overdue
          BY <2>1 DEF Decide
      <3>3. verdict' \in {"Paused", "Signaled", "TimedOut"}
          BY <2>1 DEF Decide
      <3> QED BY <1>1, <1>2, <2>1, <3>1, <3>2, <3>3 DEF Verdicts, isTerminal, clock
    <2> QED BY <1>1, <1>2, <2>1, <2>2, <2>4, <2>5
            DEF ConditionTypeOK, SignalKept, OutcomeKept, isTerminal, Unsignalled, Accepted, clock, signals, faulty
  <1>4. CASE ~(Cached.exists /\ ~isTerminal(Cached))
    <2>1. pc' \in {"idle", "label"} /\ UNCHANGED <<verdict, timer>>
        BY <1>4 DEF Reconcile
    <2>2. pc' = "label" => isTerminal(Now)
      <3>1. seen \in DOMAIN log /\ Len(log) \in DOMAIN log /\ seen <= Len(log) /\ Now = log[Len(log)]
          BY NowIsLast
      <3>2. pc' = "label" => isTerminal(Cached)
          BY <1>4 DEF Reconcile
      <3> QED BY <3>1, <3>2 DEF OutcomeKept, Cached
    <2>3. Verdicts'
        BY <1>1, <1>2, <2>1, <2>2 DEF Verdicts, isTerminal, clock
    <2> QED BY <1>1, <1>2, <2>1, <2>3
            DEF ConditionTypeOK, SignalKept, OutcomeKept, isTerminal, Unsignalled, Accepted, SignalSeen, clock,
                signals, faulty
  <1> QED BY <1>3, <1>4

LEMMA QueueKeeps ==
    ASSUME ConditionInv, PersistFails \/ LabelFails \/ TimerFires \/ DeadlinePasses
    PROVE  ConditionInv'
  <1> USE DEF ConditionInv
  <1>1. UNCHANGED <<log, seen, verdict, signals>> /\ (pc' = pc \/ pc' = "idle")
      BY DEF PersistFails, LabelFails, TimerFires, DeadlinePasses, reconciler
  <1>2. Now' = Now /\ Cached' = Cached
      BY <1>1 DEF Now, Cached
  <1>3. ConditionTypeOK'
    <2>1. faults' \in 0..MaxFaults /\ restarts' = restarts
        BY ConditionAssumption DEF PersistFails, LabelFails, TimerFires, DeadlinePasses, faulty, ConditionTypeOK
    <2>2. queued' \in BOOLEAN /\ timer' \in BOOLEAN /\ overdue' \in BOOLEAN /\ hasDeadline' \in BOOLEAN
        BY DEF PersistFails, LabelFails, TimerFires, DeadlinePasses, reconciler, clock, ConditionTypeOK
    <2> QED BY <1>1, <2>1, <2>2 DEF ConditionTypeOK, signals
  <1>4. SignalKept' /\ OutcomeKept' /\ Unsignalled' /\ Accepted' /\ SignalSeen'
      BY <1>1, <1>2 DEF SignalKept, OutcomeKept, isTerminal, Unsignalled, Accepted, SignalSeen, signals
  <1>5. Verdicts'
    <2>1. hasDeadline /\ overdue => hasDeadline' /\ overdue'
        BY DEF PersistFails, LabelFails, TimerFires, DeadlinePasses, clock
    <2> QED BY <1>1, <1>2, <2>1 DEF Verdicts, isTerminal
  <1> QED BY <1>3, <1>4, <1>5

-----------------------------------------------------------------------------
(* Steps that write a version.                                             *)

LEMMA SignalUpdateKeeps ==
    ASSUME ConditionInv, NEW c \in Signallers, SignalUpdate(c)
    PROVE  ConditionInv'
  <1> USE DEF ConditionInv
  <1> DEFINE r == [Now EXCEPT !.signal = Value[c]]
  <1>1. Now.signal = NoValue /\ UNCHANGED <<clock, seen, reconciler, faulty, rv>>
      BY DEF SignalUpdate, Unsignalled, Reply
  <1>2. Value[c] \in Values /\ Value[c] # NoValue
      BY ConditionAssumption
  <1>3. r \in Resource /\ r.signal = Value[c] /\ r.reason = Now.reason /\ r # Now
      BY <1>1, <1>2, NowIsLast DEF Resource
  <1>4. r.labelled => isTerminal(r)
      BY NowIsLast DEF Resource, isTerminal
  <1>5. Write(r)
      BY DEF SignalUpdate
  <1> HIDE DEF r
  <1>6. Now' = r /\ Len(log') = Len(log) + 1
      BY <1>3, <1>4, <1>5, WriteAppends
  <1>7. Cached' = Cached
    <2>1. seen \in 1..Len(log) /\ seen' = seen
        BY <1>1, NowIsLast
    <2> QED BY <1>3, <1>4, <1>5, <2>1, WriteAppends DEF Cached
  <1>8. ConditionTypeOK'
    <2>1. call' \in [Signallers -> {"out", "update", "ok", "refused"}]
        BY DEF SignalUpdate, Reply, ConditionTypeOK
    <2>2. 1..Len(log) \subseteq 1..Len(log')
        BY <1>6, NowIsLast
    <2>3. rv' \in [Signallers -> 1..Len(log')] /\ seen' \in 1..Len(log')
        BY <1>1, <2>2 DEF ConditionTypeOK
    <2>4. log' \in Seq(Resource) /\ log' # <<>> /\ \A i \in DOMAIN log' : log'[i].labelled => isTerminal(log'[i])
        BY <1>3, <1>4, <1>5, WriteAppends
    <2> QED BY <1>1, <2>1, <2>3, <2>4 DEF ConditionTypeOK, clock, reconciler, faulty
  <1>9. SignalKept' /\ OutcomeKept'
      BY <1>1, <1>3, <1>4, <1>5, KeepsSignal DEF isTerminal
  <1>10. Unsignalled'
      BY <1>1, <1>6, NowIsLast DEF Unsignalled, ConditionTypeOK
  <1>11. Accepted'
      BY <1>1, <1>2, <1>3, <1>6, ConditionAssumption DEF SignalUpdate, Reply, Accepted, ConditionTypeOK
  <1>12. SignalSeen'
      BY <1>1, <1>3, <1>6, <1>7 DEF SignalSeen, reconciler
  <1>13. Verdicts'
      BY <1>1, <1>3, <1>6 DEF Verdicts, isTerminal, reconciler, clock
  <1> QED BY <1>8, <1>9, <1>10, <1>11, <1>12, <1>13

\* A write that keeps the signal, and the reason unless it is a verdict.
LEMMA OwnWriteKeeps ==
    ASSUME ConditionInv, NEW r \in Resource, Write(r), r.labelled => isTerminal(r),
           r.signal = Now.signal, UNCHANGED <<clock, seen, verdict, signals, faulty>>,
           \/ r.reason = Now.reason
           \/ r.reason = verdict /\ pc = "write",
           \/ pc' = pc /\ r.reason = Now.reason
           \/ pc' = "idle"
           \/ pc' = "label" /\ isTerminal(r),
           queued' \in BOOLEAN, timer' \in BOOLEAN
    PROVE  ConditionInv'
  <1> USE DEF ConditionInv
  <1>1. Now' = r
      BY WriteAppends
  <1>2. Cached' = Cached
    <2>1. seen \in 1..Len(log)
        BY NowIsLast
    <2> QED BY <2>1, WriteAppends DEF Cached
  <1>3. ConditionTypeOK'
    <2>1. 1..Len(log) \subseteq 1..Len(log')
        BY NowIsLast, WriteAppends
    <2>2. seen' \in 1..Len(log')
        BY <2>1 DEF ConditionTypeOK
    <2>3. log' \in Seq(Resource) /\ log' # <<>> /\ \A i \in DOMAIN log' : log'[i].labelled => isTerminal(log'[i])
        BY WriteAppends
    <2>4. rv' \in [Signallers -> 1..Len(log')]
        BY KeepsCalls
    <2>5. pc' \in {"idle", "write", "label"}
        BY DEF ConditionTypeOK
    <2> QED BY <2>2, <2>3, <2>4, <2>5 DEF ConditionTypeOK, clock, signals, faulty
  <1>4. SignalKept' /\ OutcomeKept'
    <2>1. isTerminal(Now) => isTerminal(r)
        BY DEF Verdicts, isTerminal
    <2> QED BY <2>1, KeepsSignal
  <1>5. SignalSeen'
      BY <1>1, <1>2 DEF SignalSeen
  <1>6. Verdicts'
      BY <1>1 DEF Verdicts, isTerminal, clock
  <1> QED BY <1>3, <1>4, <1>5, <1>6, KeepsCalls

LEMMA WritesKeep ==
    ASSUME ConditionInv, PersistStatus \/ EnsureTerminalLabels \/ Delete
    PROVE  ConditionInv'
  <1> USE DEF ConditionInv
  <1>1. CASE PersistStatus
    <2> DEFINE r == [Now EXCEPT !.reason = verdict]
    <2>1. r \in Resource /\ r.signal = Now.signal /\ r.reason = verdict
        BY NowIsLast DEF Resource, ConditionTypeOK
    <2>2. r.labelled => isTerminal(r)
        BY <1>1, <2>1, NowIsLast DEF PersistStatus, Verdicts, Resource, isTerminal
    <2>3. (pc' = "idle" \/ (pc' = "label" /\ isTerminal(r))) /\ timer' \in BOOLEAN
        BY <1>1, <2>1 DEF PersistStatus, AfterWrite, WaitForDeadline, ConditionTypeOK, Verdicts, isTerminal
    <2>4. Write(r) /\ pc = "write" /\ UNCHANGED <<clock, seen, queued, verdict, signals, faulty>>
        BY <1>1 DEF PersistStatus
    <2> HIDE DEF r
    <2>5. queued' \in BOOLEAN
        BY <2>4 DEF ConditionTypeOK
    <2> QED BY <2>1, <2>2, <2>3, <2>4, <2>5, OwnWriteKeeps
  <1>2. CASE EnsureTerminalLabels /\ Now.exists
    <2> DEFINE r == [Now EXCEPT !.labelled = TRUE]
    <2>1. r \in Resource /\ r.signal = Now.signal /\ r.reason = Now.reason
        BY NowIsLast DEF Resource
    <2>2. r.labelled => isTerminal(r)
        BY <1>2, <2>1 DEF EnsureTerminalLabels, Verdicts, isTerminal
    <2>3. Write(r) /\ pc' = "idle" /\ UNCHANGED <<clock, seen, queued, timer, verdict, signals, faulty>>
        BY <1>2 DEF EnsureTerminalLabels
    <2> HIDE DEF r
    <2>4. queued' \in BOOLEAN /\ timer' \in BOOLEAN
        BY <2>3 DEF ConditionTypeOK
    <2> QED BY <2>1, <2>2, <2>3, <2>4, OwnWriteKeeps
  <1>4. CASE EnsureTerminalLabels /\ ~Now.exists
    <2>1. UNCHANGED <<clock, log, seen, timer, verdict, signals, faulty>> /\ queued' = TRUE /\ pc' = "idle"
        BY <1>4 DEF EnsureTerminalLabels
    <2>2. Now' = Now /\ Cached' = Cached
        BY <2>1 DEF Now, Cached
    <2> QED BY <2>1, <2>2 DEF ConditionTypeOK, SignalKept, OutcomeKept, isTerminal, Unsignalled, Accepted,
            SignalSeen, Verdicts, clock, signals, faulty
  <1>3. CASE Delete
    <2> DEFINE r == [Now EXCEPT !.exists = FALSE]
    <2>1. r \in Resource /\ r.signal = Now.signal /\ r.reason = Now.reason
        BY NowIsLast DEF Resource
    <2>2. r.labelled => isTerminal(r)
        BY NowIsLast DEF Resource, isTerminal
    <2>3. Write(r) /\ UNCHANGED <<clock, seen, reconciler, signals, faulty>>
        BY <1>3 DEF Delete
    <2> HIDE DEF r
    <2>4. queued' \in BOOLEAN /\ timer' \in BOOLEAN
        BY <2>3 DEF ConditionTypeOK, reconciler
    <2> QED BY <2>1, <2>2, <2>3, <2>4, OwnWriteKeeps DEF reconciler
  <1> QED BY <1>1, <1>2, <1>3, <1>4

-----------------------------------------------------------------------------
(* The theorems.                                                           *)

LEMMA ConditionStepKeeps == ConditionInv /\ [ConditionNext]_conditionVars => ConditionInv'
  <1> SUFFICES ASSUME ConditionInv, [ConditionNext]_conditionVars PROVE ConditionInv'
      OBVIOUS
  <1>1. ASSUME NEW c \in Signallers, SignalRead(c) \/ SignalUpdate(c) \/ SignalConflict(c) PROVE ConditionInv'
      BY <1>1, SignalReadKeeps, SignalUpdateKeeps
  <1>2. CASE Observe \/ RestartExecutor
      BY <1>2, CatchUpKeeps
  <1>3. CASE Reconcile
      BY <1>3, ReconcileKeeps
  <1>4. CASE PersistStatus \/ EnsureTerminalLabels \/ Delete
      BY <1>4, WritesKeep
  <1>5. CASE PersistFails \/ LabelFails \/ TimerFires \/ DeadlinePasses
      BY <1>5, QueueKeeps
  <1>6. CASE UNCHANGED conditionVars
      BY <1>6 DEF conditionVars, ConditionInv, ConditionTypeOK, SignalKept, OutcomeKept, isTerminal, Unsignalled, Accepted,
               SignalSeen, Verdicts, Now, Last, Cached
  <1> QED BY <1>1, <1>2, <1>3, <1>4, <1>5, <1>6 DEF ConditionNext

LEMMA ConditionInvariance == ConditionSpec => []ConditionInv
  BY ConditionInitHolds, ConditionStepKeeps, PTL DEF ConditionSpec

\* Types, and labels on outcomes only.
THEOREM ConditionTyped == ConditionSpec => []ConditionTypeOK
  <1>1. ConditionInv => ConditionTypeOK
      BY DEF ConditionInv
  <1> QED BY <1>1, ConditionInvariance, PTL

\* For any number of callers, values and restarts, a signal that was accepted
\* is neither erased nor replaced.
THEOREM AcceptedStands == ConditionSpec => []AcceptedSignalStands
  <1>1. ConditionInv => AcceptedSignalStands
      BY DEF ConditionInv, Accepted, AcceptedSignalStands
  <1> QED BY <1>1, ConditionInvariance, PTL

\* However stale the cache, a condition that was found signalled is not timed
\* out or reopened by a later reconcile.
THEOREM SignaledStays == ConditionSpec => SignaledIsFinal
  <1> DEFINE Step == Now.exists /\ Now.reason = "Signaled" =>
                        ~Now'.exists \/ Now'.reason = "Signaled"
  <1>1. ConditionInv /\ [ConditionNext]_conditionVars => [Step]_conditionVars
    <2> SUFFICES ASSUME ConditionInv, ConditionNext, Now.reason = "Signaled" PROVE Now'.reason = "Signaled" \/ ~Now'.exists
        OBVIOUS
    <2>1. ConditionTypeOK
        BY DEF ConditionInv
    <2>2. ASSUME log' = log PROVE Now'.reason = "Signaled"
        BY <2>2 DEF Now
    <2>3. ASSUME NEW c \in Signallers, SignalUpdate(c) PROVE Now'.reason = "Signaled"
      <3> DEFINE r == [Now EXCEPT !.signal = Value[c]]
      <3>1. r \in Resource /\ r.reason = "Signaled"
          BY <2>1, ConditionAssumption, NowIsLast DEF Resource
      <3>2. Write(r) /\ isTerminal(r)
          BY <2>3, <3>1 DEF SignalUpdate, isTerminal
      <3> HIDE DEF r
      <3> QED BY <2>1, <3>1, <3>2, WriteAppends
    <2>4. CASE PersistStatus
      <3> DEFINE r == [Now EXCEPT !.reason = verdict]
      <3>1. verdict = "Signaled"
          BY <2>4 DEF PersistStatus, ConditionInv, SignalSeen
      <3>2. r \in Resource /\ r.reason = "Signaled"
          BY <2>1, <3>1, NowIsLast DEF Resource, Reasons
      <3>3. Write(r) /\ isTerminal(r)
          BY <2>4, <3>2 DEF PersistStatus, isTerminal
      <3> HIDE DEF r
      <3> QED BY <2>1, <3>2, <3>3, WriteAppends
    <2>5. CASE EnsureTerminalLabels /\ Now.exists
      <3> DEFINE r == [Now EXCEPT !.labelled = TRUE]
      <3>1. r \in Resource /\ r.reason = "Signaled"
          BY <2>1, NowIsLast DEF Resource
      <3>2. Write(r) /\ isTerminal(r)
          BY <2>5, <3>1 DEF EnsureTerminalLabels, isTerminal
      <3> HIDE DEF r
      <3> QED BY <2>1, <3>1, <3>2, WriteAppends
    <2>6. CASE Delete
      <3> DEFINE r == [Now EXCEPT !.exists = FALSE]
      <3>1. r \in Resource /\ r.reason = "Signaled"
          BY <2>1, NowIsLast DEF Resource
      <3>2. Write(r) /\ isTerminal(r)
          BY <2>6, <3>1 DEF Delete, isTerminal
      <3> HIDE DEF r
      <3> QED BY <2>1, <3>1, <3>2, WriteAppends
    <2>7. ASSUME NEW c \in Signallers, SignalRead(c) \/ SignalConflict(c) PROVE log' = log
        BY <2>7 DEF SignalRead, SignalConflict
    <2>8. Observe \/ Reconcile \/ PersistFails \/ LabelFails \/ TimerFires \/ DeadlinePasses \/ RestartExecutor
          \/ (EnsureTerminalLabels /\ ~Now.exists) => log' = log
        BY DEF Observe, Reconcile, PersistFails, LabelFails, TimerFires, DeadlinePasses, RestartExecutor,
               EnsureTerminalLabels
    <2> QED BY <2>2, <2>3, <2>4, <2>5, <2>6, <2>7, <2>8 DEF ConditionNext
  <1> QED BY <1>1, ConditionInvariance, PTL DEF ConditionSpec, SignaledIsFinal
=============================================================================
