-------------------------- MODULE AsyncAuditProofs ---------------------------
(***************************************************************************)
(* Proofs about AsyncAudit, for every number of requests, every queue and  *)
(* batch size, and every pattern of failed attempts.                       *)
(***************************************************************************)
EXTENDS AsyncAudit, TLAPS, FiniteSetTheorems

-----------------------------------------------------------------------------
(* The inductive invariant, by topic. *)

\* The exclusive lock excludes: once closed is set nobody is inside Write past
\* the check, and closed is set before Close waits and before the worker drains.
LockProtocol ==
    /\ closed => \A e \in Events : ~HoldsReadLock(e)
    /\ \A c \in Closers : close[c] \in {"waiting", "drained", "timedout"} => closed
    /\ worker \in {"drain", "drainflush", "lastflush", "done"} => closed

\* What each position of the worker says about the channel and the batch.
WorkerProtocol ==
    /\ worker \in {"lastflush", "done"} => queue = <<>>
    /\ worker = "done" => batch = <<>>
    /\ \A c \in Closers : close[c] = "drained" => worker = "done"

\* accepted lists, once each, the events whose send succeeded.
AcceptedOnce ==
    /\ \A i, j \in 1 .. Len(accepted) : accepted[i] = accepted[j] => i = j
    /\ \A i \in 1 .. Len(accepted) : write[accepted[i]] \in {"sent", "acked"}
    /\ \A e \in Events : write[e] \in {"sent", "acked"} =>
                         \E i \in 1 .. Len(accepted) : accepted[i] = e

\* The table holds the first `durable` accepted events and no others.
RowsArePrefix ==
    /\ flushed <= durable
    /\ durable <= flushed + Len(batch)
    /\ \A i \in 1 .. durable : \E q \in 1 .. Len(log) : log[q] = accepted[i]
    /\ \A q \in 1 .. Len(log) : \E i \in 1 .. durable : log[q] = accepted[i]

\* The enqueued counter lags by the calls between the send and the Add.
Sent == {e \in Events : write[e] = "sent"}
CounterLag ==
    /\ IsFiniteSet(Sent)
    /\ enqueued + Cardinality(Sent) = Len(accepted)

-----------------------------------------------------------------------------
(* Type correctness, with the part of the worker's protocol it needs. *)

BatchRoom == worker \in {"select", "drain"} => Len(batch) < BatchSize

\* The repository starts empty.
LEMMA TypeInit == Init => TypeOK /\ BatchRoom
  <1> SUFFICES ASSUME Init PROVE TypeOK /\ BatchRoom
    OBVIOUS
  <1>1. write \in [Events -> WriteState] /\ close \in [Closers -> CloseState]
    BY DEF Init, WriteState, CloseState
  <1>2. ctxDone \subseteq Events /\ deadline \subseteq Closers
    BY DEF Init
  <1>3. /\ queue \in Seq(Events) /\ batch \in Seq(Events)
        /\ log \in Seq(Events) /\ accepted \in Seq(Events)
        /\ Len(queue) = 0 /\ Len(batch) = 0
    BY DEF Init
  <1>4. closed \in BOOLEAN /\ worker \in WorkerState
    BY DEF Init, WorkerState
  <1>5. /\ Len(queue) <= QueueSize /\ Len(batch) < BatchSize /\ Len(batch) <= BatchSize
        /\ failures \in Nat /\ durable \in Nat
        /\ enqueued \in Nat /\ flushed \in Nat /\ saturated \in Nat /\ batchesWritten \in Nat
    BY <1>3, AsyncOptionsAssumption DEF AsyncOptionsAssumption, Init
  <1> QED
    BY <1>1, <1>2, <1>3, <1>4, <1>5 DEF TypeOK, BatchRoom

\* Every step keeps the types and the room in the batch.
LEMMA TypeStep == TypeOK /\ BatchRoom /\ [Next]_vars => TypeOK' /\ BatchRoom'
  <1> SUFFICES ASSUME TypeOK, BatchRoom, [Next]_vars
               PROVE  TypeOK' /\ BatchRoom'
    OBVIOUS
  <1> USE AsyncOptionsAssumption
      DEF AsyncOptionsAssumption, TypeOK, BatchRoom,
          callerVars, closerVars, workerVars, statVars, historyVars
  <1>1. ASSUME NEW e \in Events, WriterStep(e)
        PROVE  TypeOK' /\ BatchRoom'
    <2>1. CASE CallWrite(e)
      BY <2>1 DEF CallWrite, WriteState
    <2>2. CASE EnterWrite(e)
      BY <2>2 DEF EnterWrite, WriteState
    <2>3. CASE Send(e)
      BY <2>3 DEF Send, WriteState
    <2>4. CASE Saturate(e)
      BY <2>4 DEF Saturate, WriteState
    <2>5. CASE Acknowledge(e)
      BY <2>5 DEF Acknowledge, WriteState
    <2>6. CASE CancelWrite(e)
      BY <2>6 DEF CancelWrite, WriteState
    <2>7. CASE RequestContextDone(e)
      BY <2>7 DEF RequestContextDone
    <2> QED
      BY <1>1, <2>1, <2>2, <2>3, <2>4, <2>5, <2>6, <2>7 DEF WriterStep
  <1>2. ASSUME NEW c \in Closers, CloserStep(c)
        PROVE  TypeOK' /\ BatchRoom'
    BY <1>2 DEF CloserStep, CallClose, StopWriters, CloseDrained, CloseTimesOut,
                CloseDeadline, CloseState
  <1>3. ASSUME Receive
        PROVE  TypeOK' /\ BatchRoom'
    BY <1>3 DEF Receive, WorkerState
  <1>4. ASSUME Tick \/ Stop \/ DrainEmpty
        PROVE  TypeOK' /\ BatchRoom'
    BY <1>4 DEF Tick, Stop, DrainEmpty, WorkerState
  <1>5. ASSUME PersistBatch
        PROVE  TypeOK' /\ BatchRoom'
    BY <1>5 DEF PersistBatch, AfterFlush, Flushing, WorkerState
  <1>6. ASSUME PersistFails
        PROVE  TypeOK' /\ BatchRoom'
    BY <1>6 DEF PersistFails, Residue, Larger, Flushing
  <1>7. CASE UNCHANGED vars
    BY <1>7 DEF vars
  <1> QED
    BY <1>1, <1>2, <1>3, <1>4, <1>5, <1>6, <1>7 DEF Next, WorkerStep

\* Every variable keeps its type; the channel and the batch never exceed their
\* capacities.
THEOREM TypeCorrect == Spec => []TypeOK
  <1>1. Spec => [](TypeOK /\ BatchRoom)
    BY TypeInit, TypeStep, PTL DEF Spec
  <1> QED
    BY <1>1, PTL

-----------------------------------------------------------------------------
(* The lock and the worker. *)

\* Nobody holds a lock at the start.
LEMMA ProtocolInit == Init => LockProtocol /\ WorkerProtocol
  BY DEF Init, LockProtocol, WorkerProtocol, HoldsReadLock

\* A step of a caller of Write leaves the worker and Close alone; it can only
\* take the read lock while closed is FALSE.
LEMMA ProtocolWriter ==
  ASSUME TypeOK, LockProtocol, WorkerProtocol, NEW e \in Events, WriterStep(e)
  PROVE  LockProtocol' /\ WorkerProtocol'
  <1> USE DEF TypeOK, LockProtocol, WorkerProtocol, HoldsReadLock,
              callerVars, closerVars, workerVars, statVars, historyVars
  <1>1. CASE CallWrite(e)
    BY <1>1 DEF CallWrite
  <1>2. CASE EnterWrite(e)
    BY <1>2 DEF EnterWrite
  <1>3. CASE Send(e)
    <2>1. ~closed /\ UNCHANGED <<closed, close, batch, worker>>
      BY <1>3 DEF Send
    <2> QED
      BY <2>1
  <1>4. CASE Saturate(e)
    BY <1>4 DEF Saturate
  <1>5. CASE Acknowledge(e)
    BY <1>5 DEF Acknowledge
  <1>6. CASE CancelWrite(e)
    BY <1>6 DEF CancelWrite
  <1>7. CASE RequestContextDone(e)
    BY <1>7 DEF RequestContextDone
  <1> QED
    BY <1>1, <1>2, <1>3, <1>4, <1>5, <1>6, <1>7 DEF WriterStep

\* A caller of Close stops the writers before it waits.
LEMMA ProtocolCloser ==
  ASSUME TypeOK, LockProtocol, WorkerProtocol, NEW c \in Closers, CloserStep(c)
  PROVE  LockProtocol' /\ WorkerProtocol'
  <1> USE DEF TypeOK, LockProtocol, WorkerProtocol, HoldsReadLock,
              callerVars, closerVars, workerVars, statVars, historyVars
  <1>1. CASE CallClose(c)
    BY <1>1 DEF CallClose
  <1>2. CASE StopWriters(c)
    BY <1>2 DEF StopWriters
  <1>3. CASE CloseDrained(c)
    BY <1>3 DEF CloseDrained
  <1>4. CASE CloseTimesOut(c)
    BY <1>4 DEF CloseTimesOut
  <1>5. CASE CloseDeadline(c)
    BY <1>5 DEF CloseDeadline
  <1> QED
    BY <1>1, <1>2, <1>3, <1>4, <1>5 DEF CloserStep

\* The worker drains only what no writer can add to.
LEMMA ProtocolWorker ==
  ASSUME TypeOK, LockProtocol, WorkerProtocol, WorkerStep
  PROVE  LockProtocol' /\ WorkerProtocol'
  <1> USE DEF TypeOK, LockProtocol, WorkerProtocol, HoldsReadLock,
              callerVars, closerVars, workerVars, statVars, historyVars
  <1>1. CASE Receive
    BY <1>1 DEF Receive
  <1>2. CASE Tick
    BY <1>2 DEF Tick
  <1>3. CASE Stop
    BY <1>3 DEF Stop
  <1>4. CASE DrainEmpty
    BY <1>4 DEF DrainEmpty
  <1>5. CASE PersistBatch
    BY <1>5 DEF PersistBatch, Flushing, AfterFlush
  <1>6. CASE PersistFails
    BY <1>6 DEF PersistFails, Flushing
  <1> QED
    BY <1>1, <1>2, <1>3, <1>4, <1>5, <1>6 DEF WorkerStep

\* Every step keeps the lock protocol.
LEMMA ProtocolStep ==
  ASSUME TypeOK, LockProtocol, WorkerProtocol, [Next]_vars
  PROVE  LockProtocol' /\ WorkerProtocol'
  <1>1. CASE UNCHANGED vars
    BY <1>1 DEF vars, LockProtocol, WorkerProtocol, HoldsReadLock
  <1> QED
    BY <1>1, ProtocolWriter, ProtocolCloser, ProtocolWorker DEF Next

-----------------------------------------------------------------------------
(* The accepted sequence: where its events are, and that each occurs once. *)

\* Nothing is accepted at the start.
LEMMA QueueInit == Init => Conservation /\ AcceptedOnce
  BY DEF Init, Conservation, AcceptedOnce

\* An event enters the accepted sequence once and moves on in its order.
LEMMA QueueStep ==
  ASSUME TypeOK, TypeOK', Conservation, AcceptedOnce, [Next]_vars
  PROVE  Conservation' /\ AcceptedOnce'
  <1>0. /\ accepted \in Seq(Events) /\ queue \in Seq(Events) /\ batch \in Seq(Events)
        /\ Len(accepted) \in Nat /\ Len(queue) \in Nat /\ Len(batch) \in Nat
        /\ flushed \in Nat /\ write \in [Events -> WriteState]
    BY DEF TypeOK
  <1>1. ASSUME NEW e \in Events, Send(e)
        PROVE  Conservation' /\ AcceptedOnce'
    <2>1. /\ write[e] \in {"entered", "blocked"}
          /\ write' = [write EXCEPT ![e] = "sent"]
          /\ queue' = Append(queue, e) /\ accepted' = Append(accepted, e)
          /\ batch' = batch /\ flushed' = flushed
      BY <1>1 DEF Send, statVars
    <2>2. /\ Len(accepted') = Len(accepted) + 1 /\ accepted'[Len(accepted) + 1] = e
          /\ \A i \in 1 .. Len(accepted) : accepted'[i] = accepted[i]
          /\ Len(queue') = Len(queue) + 1 /\ queue'[Len(queue) + 1] = e
          /\ \A i \in 1 .. Len(queue) : queue'[i] = queue[i]
      BY <1>0, <2>1
    <2>3. \A i \in 1 .. Len(accepted) : accepted[i] # e /\ accepted[i] \in Events
      BY <1>0, <2>1 DEF AcceptedOnce
    <2>4. Conservation'
      <3>1. Len(accepted') = flushed' + Len(batch') + Len(queue')
        BY <1>0, <2>1, <2>2 DEF Conservation
      <3>2. \A i \in 1 .. Len(batch') : batch'[i] = accepted'[flushed' + i]
        BY <1>0, <2>1, <2>2 DEF Conservation
      <3>3. ASSUME NEW i \in 1 .. Len(queue')
            PROVE  queue'[i] = accepted'[flushed' + Len(batch') + i]
        <4>1. CASE i = Len(queue) + 1
          BY <4>1, <1>0, <2>1, <2>2 DEF Conservation
        <4>2. CASE i \in 1 .. Len(queue)
          <5>1. queue[i] = accepted[flushed + Len(batch) + i]
            BY <4>2 DEF Conservation
          <5>2. flushed + Len(batch) + i \in 1 .. Len(accepted)
            BY <4>2, <1>0 DEF Conservation
          <5> QED
            BY <4>2, <5>1, <5>2, <2>1, <2>2
        <4> QED
          BY <4>1, <4>2, <1>0, <2>2
      <3> QED
        BY <3>1, <3>2, <3>3 DEF Conservation
    <2>5. \A i, j \in 1 .. Len(accepted') : accepted'[i] = accepted'[j] => i = j
      <3>1. \A i \in 1 .. Len(accepted') : i \in 1 .. Len(accepted) \/ i = Len(accepted) + 1
        BY <1>0, <2>2
      <3> QED
        BY <3>1, <2>2, <2>3 DEF AcceptedOnce
    <2>6. \A i \in 1 .. Len(accepted') : write'[accepted'[i]] \in {"sent", "acked"}
      BY <1>0, <2>1, <2>2, <2>3 DEF AcceptedOnce
    <2>7. ASSUME NEW f \in Events, write'[f] \in {"sent", "acked"}
          PROVE  \E i \in 1 .. Len(accepted') : accepted'[i] = f
      <3>1. CASE f = e
        BY <3>1, <1>0, <2>2
      <3>2. CASE f # e
        <4>1. PICK i \in 1 .. Len(accepted) : accepted[i] = f
          BY <3>2, <2>7, <1>0, <2>1 DEF AcceptedOnce
        <4> QED
          BY <4>1, <1>0, <2>2
      <3> QED
        BY <3>1, <3>2
    <2> QED
      BY <2>4, <2>5, <2>6, <2>7 DEF AcceptedOnce
  <1>2. ASSUME NEW e \in Events,
               CallWrite(e) \/ EnterWrite(e) \/ Saturate(e) \/ Acknowledge(e)
               \/ CancelWrite(e) \/ RequestContextDone(e)
        PROVE  Conservation' /\ AcceptedOnce'
    <2>1. UNCHANGED <<accepted, queue, batch, flushed>>
      BY <1>2 DEF CallWrite, EnterWrite, Saturate, Acknowledge, CancelWrite,
                  RequestContextDone, workerVars, statVars, historyVars
    <2>2. \A f \in Events : write'[f] \in {"sent", "acked"} <=> write[f] \in {"sent", "acked"}
      BY <1>0, <1>2 DEF CallWrite, EnterWrite, Saturate, Acknowledge, CancelWrite,
                       RequestContextDone
    <2>3. \A i \in 1 .. Len(accepted) : accepted[i] \in Events
      BY <1>0
    <2> QED
      BY <2>1, <2>2, <2>3 DEF Conservation, AcceptedOnce
  <1>3. ASSUME NEW c \in Closers, CloserStep(c)
        PROVE  Conservation' /\ AcceptedOnce'
    BY <1>3 DEF CloserStep, CallClose, StopWriters, CloseDrained, CloseTimesOut,
                CloseDeadline, Conservation, AcceptedOnce,
                callerVars, workerVars, statVars, historyVars
  <1>4. CASE Receive
    <2>1. /\ Len(queue) >= 1 /\ batch' = Append(batch, Head(queue)) /\ queue' = Tail(queue)
          /\ UNCHANGED <<accepted, flushed, write>>
      BY <1>0, <1>4 DEF Receive, callerVars, statVars, historyVars
    <2>2. /\ Len(batch') = Len(batch) + 1 /\ batch'[Len(batch) + 1] = queue[1]
          /\ \A i \in 1 .. Len(batch) : batch'[i] = batch[i]
          /\ Len(queue') = Len(queue) - 1
          /\ \A i \in 1 .. Len(queue') : queue'[i] = queue[i + 1]
      BY <1>0, <2>1
    <2>3. ASSUME NEW i \in 1 .. Len(batch')
          PROVE  batch'[i] = accepted'[flushed' + i]
      <3>1. CASE i = Len(batch) + 1
        BY <3>1, <1>0, <2>1, <2>2 DEF Conservation
      <3>2. CASE i \in 1 .. Len(batch)
        BY <3>2, <1>0, <2>1, <2>2 DEF Conservation
      <3> QED
        BY <3>1, <3>2, <1>0, <2>2
    <2>4. ASSUME NEW i \in 1 .. Len(queue')
          PROVE  queue'[i] = accepted'[flushed' + Len(batch') + i]
      <3>1. i + 1 \in 1 .. Len(queue) /\ queue'[i] = queue[i + 1]
        BY <1>0, <2>2
      <3>2. queue[i + 1] = accepted[flushed + Len(batch) + (i + 1)]
        BY <3>1 DEF Conservation
      <3>3. flushed + Len(batch) + (i + 1) = flushed' + Len(batch') + i
        BY <1>0, <2>1, <2>2
      <3> QED
        BY <3>1, <3>2, <3>3, <2>1
    <2>5. Len(accepted') = flushed' + Len(batch') + Len(queue')
      <3>1. Len(accepted) = flushed + Len(batch) + Len(queue)
        BY DEF Conservation
      <3>2. Len(accepted') = Len(accepted) /\ flushed' = flushed
        BY <2>1
      <3> QED
        BY <1>0, <2>2, <3>1, <3>2
    <2> QED
      BY <2>1, <2>3, <2>4, <2>5 DEF Conservation, AcceptedOnce
  <1>5. CASE Tick \/ Stop \/ DrainEmpty \/ PersistFails
    BY <1>5 DEF Tick, Stop, DrainEmpty, PersistFails, Conservation, AcceptedOnce,
                callerVars, statVars, historyVars
  <1>6. CASE PersistBatch
    <2>1. /\ UNCHANGED <<accepted, write, queue>> /\ batch' = <<>> /\ Len(batch') = 0
          /\ flushed' = flushed + Len(batch)
      BY <1>6 DEF PersistBatch, callerVars
    <2>2. Conservation'
      BY <1>0, <2>1 DEF Conservation
    <2> QED
      BY <2>1, <2>2 DEF AcceptedOnce
  <1>7. CASE UNCHANGED vars
    BY <1>7 DEF vars, Conservation, AcceptedOnce
  <1> QED
    BY <1>1, <1>2, <1>3, <1>4, <1>5, <1>6, <1>7 DEF Next, WriterStep, WorkerStep

-----------------------------------------------------------------------------
(* The counter of accepted events lags behind the channel by the calls that *)
(* are between the send and enqueued.Add.                                   *)

\* Nothing is counted at the start.
LEMMA CounterInit == Init => CounterLag
  <1> SUFFICES ASSUME Init PROVE CounterLag
    OBVIOUS
  <1>1. Sent = {} /\ enqueued = 0 /\ Len(accepted) = 0
    BY DEF Init, Sent
  <1> QED
    BY <1>1, FS_EmptySet DEF CounterLag

\* The counter follows the channel by the writers in between.
LEMMA CounterStep ==
  ASSUME TypeOK, CounterLag, [Next]_vars
  PROVE  CounterLag'
  <1>0. /\ write \in [Events -> WriteState] /\ accepted \in Seq(Events)
        /\ enqueued \in Nat /\ Len(accepted) \in Nat
        /\ IsFiniteSet(Sent) /\ Cardinality(Sent) \in Nat
        /\ enqueued + Cardinality(Sent) = Len(accepted)
    BY FS_CardinalityType DEF TypeOK, CounterLag
  <1>1. ASSUME NEW e \in Events, Send(e)
        PROVE  CounterLag'
    <2>1. /\ write[e] \in {"entered", "blocked"} /\ write' = [write EXCEPT ![e] = "sent"]
          /\ accepted' = Append(accepted, e) /\ enqueued' = enqueued
      BY <1>1 DEF Send, statVars
    <2>2. Sent' = Sent \cup {e} /\ e \notin Sent
      BY <1>0, <2>1 DEF Sent
    <2>3. Len(accepted') = Len(accepted) + 1
      BY <1>0, <2>1
    <2>4. IsFiniteSet(Sent') /\ Cardinality(Sent') = Cardinality(Sent) + 1
      BY <1>0, <2>2, FS_AddElement
    <2>5. enqueued' + Cardinality(Sent') = Len(accepted')
      BY <1>0, <2>1, <2>3, <2>4
    <2> QED
      BY <2>4, <2>5 DEF CounterLag
  <1>2. ASSUME NEW e \in Events, Acknowledge(e)
        PROVE  CounterLag'
    <2>1. /\ write[e] = "sent" /\ write' = [write EXCEPT ![e] = "acked"]
          /\ accepted' = accepted /\ enqueued' = enqueued + 1
      BY <1>2 DEF Acknowledge, historyVars
    <2>2. Sent' = Sent \ {e} /\ e \in Sent
      BY <1>0, <2>1 DEF Sent
    <2>3. IsFiniteSet(Sent') /\ Cardinality(Sent') = Cardinality(Sent) - 1
      BY <1>0, <2>2, FS_RemoveElement
    <2>4. enqueued' + Cardinality(Sent') = Len(accepted')
      BY <1>0, <2>1, <2>3
    <2> QED
      BY <2>3, <2>4 DEF CounterLag
  <1>3. ASSUME NEW e \in Events,
               CallWrite(e) \/ EnterWrite(e) \/ Saturate(e)
               \/ CancelWrite(e) \/ RequestContextDone(e)
        PROVE  CounterLag'
    <2>1. UNCHANGED <<accepted, enqueued>>
      BY <1>3 DEF CallWrite, EnterWrite, Saturate, CancelWrite, RequestContextDone,
                  statVars, historyVars
    <2>2. \A f \in Events : write'[f] = "sent" <=> write[f] = "sent"
      BY <1>0, <1>3 DEF CallWrite, EnterWrite, Saturate, CancelWrite, RequestContextDone
    <2>3. Sent' = Sent
      BY <2>2 DEF Sent
    <2> QED
      BY <2>1, <2>3, <1>0 DEF CounterLag
  <1>4. ASSUME NEW c \in Closers, CloserStep(c)
        PROVE  CounterLag'
    BY <1>4 DEF CloserStep, CallClose, StopWriters, CloseDrained, CloseTimesOut,
                CloseDeadline, CounterLag, Sent, callerVars, statVars, historyVars
  <1>5. CASE WorkerStep
    BY <1>5 DEF WorkerStep, Receive, Tick, Stop, DrainEmpty, PersistBatch, PersistFails,
                CounterLag, Sent, callerVars, statVars, historyVars
  <1>6. CASE UNCHANGED vars
    BY <1>6 DEF vars, CounterLag, Sent
  <1> QED
    BY <1>1, <1>2, <1>3, <1>4, <1>5, <1>6 DEF Next, WriterStep

-----------------------------------------------------------------------------
(* The rows of the table. *)

\* The table is empty at the start.
LEMMA RowsInit == Init => RowsArePrefix /\ RowsInAcceptanceOrder
  BY DEF Init, RowsArePrefix, RowsInAcceptanceOrder

\* An attempt appends the first k events of the batch to the table, all of them
\* when it succeeds; `upTo` is the number of durable events after it.
LEMMA RowsAppended ==
  ASSUME TypeOK, Conservation, AcceptedOnce, RowsArePrefix, RowsInAcceptanceOrder,
         NEW k \in 0 .. Len(batch), log' \in Seq(Events),
         Len(log') = Len(log) + k,
         \A q \in 1 .. Len(log) : log'[q] = log[q],
         \A m \in 1 .. k : log'[Len(log) + m] = batch[m],
         durable' = Larger(durable, flushed + k),
         accepted' = accepted
  PROVE  /\ RowsInAcceptanceOrder'
         /\ \A i \in 1 .. durable' : \E q \in 1 .. Len(log') : log'[q] = accepted'[i]
         /\ \A q \in 1 .. Len(log') : \E i \in 1 .. durable' : log'[q] = accepted'[i]
  <1>0. /\ Len(log) \in Nat /\ Len(accepted) \in Nat /\ Len(batch) \in Nat
        /\ Len(queue) \in Nat
        /\ flushed \in Nat /\ durable \in Nat /\ durable' \in Nat
        /\ durable <= durable' /\ flushed + k <= durable'
        /\ durable' = durable \/ durable' = flushed + k
        /\ flushed <= durable /\ durable <= flushed + Len(batch)
        /\ Len(accepted) = flushed + Len(batch) + Len(queue)
    BY DEF TypeOK, Larger, RowsArePrefix, Conservation
  <1>1. \A m \in 1 .. k : /\ flushed + m \in 1 .. Len(accepted)
                          /\ log'[Len(log) + m] = accepted[flushed + m]
    <2> SUFFICES ASSUME NEW m \in 1 .. k
                 PROVE  /\ flushed + m \in 1 .. Len(accepted)
                        /\ log'[Len(log) + m] = accepted[flushed + m]
      OBVIOUS
    <2>1. flushed + m \in 1 .. Len(accepted) /\ m \in 1 .. Len(batch)
      BY <1>0
    <2>2. batch[m] = accepted[flushed + m]
      BY <2>1 DEF Conservation
    <2> QED
      BY <2>1, <2>2
  <1>2. \A q \in 1 .. Len(log') : q \in 1 .. Len(log)
                                 \/ \E m \in 1 .. k : q = Len(log) + m
    <2> SUFFICES ASSUME NEW q \in 1 .. Len(log'), q \notin 1 .. Len(log)
                 PROVE  \E m \in 1 .. k : q = Len(log) + m
      OBVIOUS
    <2>1. q - Len(log) \in 1 .. k /\ q = Len(log) + (q - Len(log))
      BY <1>0
    <2> QED
      BY <2>1
  <1>3. ASSUME NEW i \in 1 .. Len(accepted), NEW j \in 1 .. Len(accepted), i < j,
               NEW q \in 1 .. Len(log'), log'[q] = accepted[j]
        PROVE  \E p \in 1 .. (q - 1) : log'[p] = accepted[i]
    <2>1. CASE q \in 1 .. Len(log)
      <3>1. PICK p \in 1 .. (q - 1) : log[p] = accepted[i]
        BY <1>3, <2>1 DEF RowsInAcceptanceOrder
      <3>2. p \in 1 .. Len(log)
        BY <2>1, <1>0
      <3> QED
        BY <3>1, <3>2
    <2>2. ASSUME NEW m \in 1 .. k, q = Len(log) + m
          PROVE  \E p \in 1 .. (q - 1) : log'[p] = accepted[i]
      <3>1. j = flushed + m
        BY <1>1, <1>3, <2>2 DEF AcceptedOnce
      <3>2. CASE i <= flushed
        <4>1. i \in 1 .. durable
          BY <3>2, <1>0
        <4>2. PICK p \in 1 .. Len(log) : log[p] = accepted[i]
          BY <4>1 DEF RowsArePrefix
        <4>3. p \in 1 .. (q - 1) /\ log'[p] = accepted[i]
          BY <4>2, <2>2, <1>0
        <4> QED
          BY <4>3
      <3>3. CASE i > flushed
        <4>1. i - flushed \in 1 .. k /\ flushed + (i - flushed) = i
          BY <3>1, <3>3, <1>0, <1>3, <2>2
        <4>2. log'[Len(log) + (i - flushed)] = accepted[i]
          BY <4>1, <1>1
        <4>3. Len(log) + (i - flushed) \in 1 .. (q - 1)
          BY <4>1, <3>1, <1>0, <1>3, <2>2
        <4> QED
          BY <4>2, <4>3
      <3> QED
        BY <3>2, <3>3, <1>0
    <2> QED
      BY <2>1, <2>2, <1>2
  <1>4. ASSUME NEW i \in 1 .. durable'
        PROVE  \E q \in 1 .. Len(log') : log'[q] = accepted[i]
    <2>1. CASE i <= durable
      <3>1. PICK q \in 1 .. Len(log) : log[q] = accepted[i]
        BY <2>1, <1>0 DEF RowsArePrefix
      <3>2. q \in 1 .. Len(log') /\ log'[q] = accepted[i]
        BY <3>1, <1>0
      <3> QED
        BY <3>2
    <2>2. CASE i > durable
      <3>1. i - flushed \in 1 .. k /\ flushed + (i - flushed) = i
        BY <2>2, <1>0
      <3>2. log'[Len(log) + (i - flushed)] = accepted[i]
        BY <3>1, <1>1
      <3>3. Len(log) + (i - flushed) \in 1 .. Len(log')
        BY <3>1, <1>0
      <3> QED
        BY <3>2, <3>3
    <2> QED
      BY <2>1, <2>2, <1>0
  <1>5. ASSUME NEW q \in 1 .. Len(log')
        PROVE  \E i \in 1 .. durable' : log'[q] = accepted[i]
    <2>1. CASE q \in 1 .. Len(log)
      <3>1. PICK i \in 1 .. durable : log[q] = accepted[i]
        BY <2>1 DEF RowsArePrefix
      <3> QED
        BY <3>1, <2>1, <1>0
    <2>2. ASSUME NEW m \in 1 .. k, q = Len(log) + m
          PROVE  \E i \in 1 .. durable' : log'[q] = accepted[i]
      <3>1. flushed + m \in 1 .. durable'
        BY <1>0
      <3> QED
        BY <3>1, <2>2, <1>1
    <2> QED
      BY <2>1, <2>2, <1>2
  <1> QED
    BY <1>3, <1>4, <1>5 DEF RowsInAcceptanceOrder

\* An attempt stores what follows the stored prefix, or rows of it again.
LEMMA RowsStep ==
  ASSUME TypeOK, TypeOK', Conservation, AcceptedOnce, RowsArePrefix, RowsInAcceptanceOrder,
         [Next]_vars
  PROVE  RowsArePrefix' /\ RowsInAcceptanceOrder'
  <1>0. /\ log \in Seq(Events) /\ batch \in Seq(Events) /\ accepted \in Seq(Events)
        /\ Len(log) \in Nat /\ Len(batch) \in Nat /\ Len(accepted) \in Nat
        /\ Len(queue) \in Nat /\ flushed \in Nat /\ durable \in Nat
        /\ flushed <= durable /\ durable <= flushed + Len(batch)
        /\ Len(accepted) = flushed + Len(batch) + Len(queue)
    <2>1. /\ log \in Seq(Events) /\ batch \in Seq(Events) /\ accepted \in Seq(Events)
          /\ queue \in Seq(Events) /\ flushed \in Nat /\ durable \in Nat
      BY DEF TypeOK
    <2>2. /\ flushed <= durable /\ durable <= flushed + Len(batch)
          /\ Len(accepted) = flushed + Len(batch) + Len(queue)
      BY DEF RowsArePrefix, Conservation
    <2> QED
      BY <2>1, <2>2
  <1>1. ASSUME NEW e \in Events, Send(e)
        PROVE  RowsArePrefix' /\ RowsInAcceptanceOrder'
    <2>1. /\ write[e] \in {"entered", "blocked"}
          /\ accepted' = Append(accepted, e)
          /\ UNCHANGED <<log, batch, flushed, durable>>
      BY <1>1 DEF Send, statVars
    <2>2. /\ Len(accepted') = Len(accepted) + 1 /\ accepted'[Len(accepted) + 1] = e
          /\ \A i \in 1 .. Len(accepted) : accepted'[i] = accepted[i]
      BY <1>0, <2>1
    <2>3. \A i \in 1 .. durable : i \in 1 .. Len(accepted)
      BY <1>0
    <2>4. \A q \in 1 .. Len(log) : log[q] # e
      BY <2>1, <2>3 DEF AcceptedOnce, RowsArePrefix
    <2>5. RowsArePrefix'
      BY <2>1, <2>2, <2>3 DEF RowsArePrefix
    <2>6. ASSUME NEW i \in 1 .. Len(accepted'), NEW j \in 1 .. Len(accepted'), i < j,
                 NEW q \in 1 .. Len(log), log[q] = accepted'[j]
          PROVE  \E p \in 1 .. (q - 1) : log[p] = accepted'[i]
      <3>1. j # Len(accepted) + 1
        BY <2>2, <2>4, <2>6
      <3>2. i \in 1 .. Len(accepted) /\ j \in 1 .. Len(accepted)
        BY <3>1, <2>2, <2>6, <1>0
      <3> QED
        BY <3>2, <2>2, <2>6 DEF RowsInAcceptanceOrder
    <2>7. log' = log
      BY <2>1
    <2>8. RowsInAcceptanceOrder'
      BY <2>6, <2>7 DEF RowsInAcceptanceOrder
    <2> QED
      BY <2>5, <2>8
  <1>2. ASSUME NEW e \in Events,
               CallWrite(e) \/ EnterWrite(e) \/ Saturate(e) \/ Acknowledge(e)
               \/ CancelWrite(e) \/ RequestContextDone(e)
        PROVE  RowsArePrefix' /\ RowsInAcceptanceOrder'
    <2>1. UNCHANGED <<log, batch, flushed, durable, accepted>>
      BY <1>2 DEF CallWrite, EnterWrite, Saturate, Acknowledge, CancelWrite,
                  RequestContextDone, workerVars, statVars, historyVars
    <2> QED
      BY <2>1 DEF RowsArePrefix, RowsInAcceptanceOrder
  <1>3. ASSUME NEW c \in Closers, CloserStep(c)
        PROVE  RowsArePrefix' /\ RowsInAcceptanceOrder'
    <2>1. UNCHANGED <<log, batch, flushed, durable, accepted>>
      BY <1>3 DEF CloserStep, CallClose, StopWriters, CloseDrained, CloseTimesOut,
                  CloseDeadline, workerVars, statVars, historyVars
    <2> QED
      BY <2>1 DEF RowsArePrefix, RowsInAcceptanceOrder
  <1>4. CASE Receive
    <2>1. UNCHANGED <<log, flushed, durable, accepted>> /\ Len(batch') = Len(batch) + 1
      BY <1>4, <1>0 DEF Receive, TypeOK, statVars, historyVars
    <2>2. flushed' <= durable' /\ durable' <= flushed' + Len(batch')
      BY <1>0, <2>1
    <2>3. log' = log /\ durable' = durable /\ accepted' = accepted
      BY <2>1
    <2>4. RowsArePrefix'
      BY <2>2, <2>3 DEF RowsArePrefix
    <2> QED
      BY <2>3, <2>4 DEF RowsInAcceptanceOrder
  <1>5. CASE Tick \/ Stop \/ DrainEmpty
    <2>1. UNCHANGED <<log, batch, flushed, durable, accepted>>
      BY <1>5 DEF Tick, Stop, DrainEmpty, statVars, historyVars
    <2> QED
      BY <2>1 DEF RowsArePrefix, RowsInAcceptanceOrder
  <1>6. CASE PersistBatch
    <2>1. /\ log' = log \o batch /\ batch' = <<>> /\ flushed' = flushed + Len(batch)
          /\ durable' = flushed + Len(batch) /\ accepted' = accepted
      BY <1>6 DEF PersistBatch
    <2>2. /\ log' \in Seq(Events) /\ Len(log') = Len(log) + Len(batch)
          /\ \A q \in 1 .. Len(log) : log'[q] = log[q]
          /\ \A m \in 1 .. Len(batch) : log'[Len(log) + m] = batch[m]
      BY <1>0, <2>1
    <2>3. durable' = Larger(durable, flushed + Len(batch))
      BY <1>0, <2>1 DEF Larger
    <2>4. /\ RowsInAcceptanceOrder'
          /\ \A i \in 1 .. durable' : \E q \in 1 .. Len(log') : log'[q] = accepted'[i]
          /\ \A q \in 1 .. Len(log') : \E i \in 1 .. durable' : log'[q] = accepted'[i]
      <3>1. Len(batch) \in 0 .. Len(batch)
        BY <1>0
      <3> QED
        BY <3>1, <2>1, <2>2, <2>3, RowsAppended
    <2>5. flushed' <= durable' /\ durable' <= flushed' + Len(batch')
      BY <1>0, <2>1
    <2> QED
      BY <2>4, <2>5 DEF RowsArePrefix
  <1>7. CASE PersistFails
    <2>1. PICK k \in Residue(Len(batch)) :
             log' = log \o SubSeq(batch, 1, k) /\ durable' = Larger(durable, flushed + k)
      BY <1>7 DEF PersistFails
    <2>2. UNCHANGED <<batch, flushed, accepted>>
      BY <1>7 DEF PersistFails, statVars
    <2>3. k \in 0 .. Len(batch)
      BY <1>0, <2>1 DEF Residue
    <2>4. /\ SubSeq(batch, 1, k) \in Seq(Events) /\ Len(SubSeq(batch, 1, k)) = k
          /\ \A m \in 1 .. k : SubSeq(batch, 1, k)[m] = batch[m]
      BY <1>0, <2>3
    <2>5. /\ log' \in Seq(Events) /\ Len(log') = Len(log) + k
          /\ \A q \in 1 .. Len(log) : log'[q] = log[q]
          /\ \A m \in 1 .. k : log'[Len(log) + m] = batch[m]
      BY <1>0, <2>1, <2>3, <2>4
    <2>6. /\ RowsInAcceptanceOrder'
          /\ \A i \in 1 .. durable' : \E q \in 1 .. Len(log') : log'[q] = accepted'[i]
          /\ \A q \in 1 .. Len(log') : \E i \in 1 .. durable' : log'[q] = accepted'[i]
      BY <2>1, <2>2, <2>3, <2>5, RowsAppended
    <2>7. flushed' <= durable' /\ durable' <= flushed' + Len(batch')
      BY <1>0, <2>1, <2>2, <2>3 DEF Larger
    <2> QED
      BY <2>6, <2>7 DEF RowsArePrefix
  <1>8. CASE UNCHANGED vars
    BY <1>8 DEF vars, RowsArePrefix, RowsInAcceptanceOrder
  <1> QED
    BY <1>1, <1>2, <1>3, <1>4, <1>5, <1>6, <1>7, <1>8 DEF Next, WriterStep, WorkerStep

-----------------------------------------------------------------------------
(* The theorems. *)

\* The conjunction that is inductive.
AuditInv ==
    /\ TypeOK /\ BatchRoom
    /\ LockProtocol /\ WorkerProtocol
    /\ Conservation /\ AcceptedOnce
    /\ CounterLag
    /\ RowsArePrefix /\ RowsInAcceptanceOrder

\* Every step keeps the invariant.
LEMMA AuditInvStep == AuditInv /\ [Next]_vars => AuditInv'
  <1> SUFFICES ASSUME AuditInv, [Next]_vars PROVE AuditInv'
    OBVIOUS
  <1>1. TypeOK' /\ BatchRoom'
    BY TypeStep DEF AuditInv
  <1>2. LockProtocol' /\ WorkerProtocol'
    BY ProtocolStep DEF AuditInv
  <1>3. Conservation' /\ AcceptedOnce'
    BY <1>1, QueueStep DEF AuditInv
  <1>4. CounterLag'
    BY CounterStep DEF AuditInv
  <1>5. RowsArePrefix' /\ RowsInAcceptanceOrder'
    BY <1>1, RowsStep DEF AuditInv
  <1> QED
    BY <1>1, <1>2, <1>3, <1>4, <1>5 DEF AuditInv

\* In every reachable state of the async writer the inductive invariant holds:
\* lock protocol, worker protocol, conservation of events, rows as prefix.
THEOREM AuditInvariant == Spec => []AuditInv
  <1>1. Init => AuditInv
    BY TypeInit, ProtocolInit, QueueInit, CounterInit, RowsInit DEF AuditInv
  <1> QED
    BY <1>1, AuditInvStep, PTL DEF Spec

\* Every accepted event is in exactly one of the table, the batch and the
\* channel, in the order of acceptance, whatever fails and whoever closes.
THEOREM EventsConserved == Spec => []Conservation
  <1>1. AuditInv => Conservation
    BY DEF AuditInv
  <1> QED
    BY <1>1, AuditInvariant, PTL

\* The first row of an event never precedes the first row of an event accepted
\* earlier, however often batches are retried.
THEOREM RowsOrdered == Spec => []RowsInAcceptanceOrder
  <1>1. AuditInv => RowsInAcceptanceOrder
    BY DEF AuditInv
  <1> QED
    BY <1>1, AuditInvariant, PTL

\* A Write that returned an error has no row, no place in the batch and none in
\* the channel.
THEOREM RefusedLeaveNoTrace == Spec => []RefusedLeavesNoTrace
  <1>1. AuditInv => RefusedLeavesNoTrace
    <2> SUFFICES ASSUME AuditInv, NEW e \in Events, write[e] \in {"refused", "cancelled"}
                 PROVE  e \notin Range(log) \cup Range(batch) \cup Range(queue)
      BY DEF RefusedLeavesNoTrace
    <2>0. /\ log \in Seq(Events) /\ batch \in Seq(Events) /\ queue \in Seq(Events)
          /\ Len(queue) \in Nat /\ Len(batch) \in Nat /\ flushed \in Nat /\ durable \in Nat
          /\ durable <= flushed + Len(batch)
          /\ Len(accepted) = flushed + Len(batch) + Len(queue)
      BY DEF AuditInv, TypeOK, RowsArePrefix, Conservation
    <2>1. \A i \in 1 .. Len(accepted) : accepted[i] # e
      BY DEF AuditInv, AcceptedOnce
    <2>2. \A q \in 1 .. Len(log) : log[q] # e
      <3>1. \A i \in 1 .. durable : i \in 1 .. Len(accepted)
        BY <2>0
      <3> QED
        BY <2>1, <3>1 DEF AuditInv, RowsArePrefix
    <2>3. \A i \in 1 .. Len(batch) : batch[i] # e
      <3>1. \A i \in 1 .. Len(batch) : flushed + i \in 1 .. Len(accepted)
        BY <2>0
      <3> QED
        BY <2>1, <3>1 DEF AuditInv, Conservation
    <2>4. \A i \in 1 .. Len(queue) : queue[i] # e
      <3>1. \A i \in 1 .. Len(queue) : flushed + Len(batch) + i \in 1 .. Len(accepted)
        BY <2>0
      <3> QED
        BY <2>1, <3>1 DEF AuditInv, Conservation
    <2> QED
      BY <2>0, <2>2, <2>3, <2>4 DEF Range
  <1> QED
    BY <1>1, AuditInvariant, PTL

\* When Close returns nil the table holds every acknowledged event and the
\* counters of accepted and flushed events agree.
THEOREM CloseDrains == Spec => []CloseMeansDrained
  <1>1. AuditInv => CloseMeansDrained
    <2> SUFFICES ASSUME AuditInv, NEW c \in Closers, close[c] = "drained"
                 PROVE  /\ \A e \in Events : write[e] = "acked" => Stored(e)
                        /\ enqueued = flushed /\ flushed = Len(accepted)
      BY DEF CloseMeansDrained
    <2>1. worker = "done" /\ queue = <<>> /\ batch = <<>> /\ closed
      BY DEF AuditInv, WorkerProtocol, LockProtocol
    <2>2. /\ flushed \in Nat /\ durable \in Nat /\ enqueued \in Nat /\ log \in Seq(Events)
          /\ Len(accepted) = flushed /\ durable = flushed
      BY <2>1 DEF AuditInv, TypeOK, Conservation, RowsArePrefix
    <2>3. Sent = {}
      BY <2>1 DEF AuditInv, LockProtocol, HoldsReadLock, Sent
    <2>4. enqueued = flushed
      BY <2>2, <2>3, FS_EmptySet DEF AuditInv, CounterLag
    <2>5. ASSUME NEW e \in Events, write[e] = "acked"
          PROVE  Stored(e)
      <3>1. PICK i \in 1 .. Len(accepted) : accepted[i] = e
        BY <2>5 DEF AuditInv, AcceptedOnce
      <3>2. PICK q \in 1 .. Len(log) : log[q] = accepted[i]
        BY <2>2 DEF AuditInv, RowsArePrefix
      <3> QED
        BY <3>1, <3>2, <2>2 DEF Stored, Range
    <2> QED
      BY <2>2, <2>4, <2>5
  <1> QED
    BY <1>1, AuditInvariant, PTL

-----------------------------------------------------------------------------
(* The repository implements the ledger. *)

Phase == IF worker = "done" THEN "drained" ELSE IF closed THEN "sealed" ELSE "open"

\* A step that leaves the history and the phase alone is a stutter of the ledger.
LEMMA LedgerStutter ==
  ASSUME UNCHANGED <<accepted, durable, worker, closed>>
  PROVE  [Ledger!LedgerNext]_(Ledger!ledgerVars)
  BY DEF Ledger!ledgerVars

\* The worker makes a prefix durable: at most one ledger step, also when it
\* is the last flush of the drain.
LEMMA LedgerPersist ==
  ASSUME AuditInv, worker \in Flushing, closed' = closed, accepted' = accepted,
         durable' \in Nat, durable <= durable', durable' <= flushed + Len(batch),
         \/ worker' \in Flushing \cup {"select", "drain"}
         \/ /\ worker = "lastflush" /\ worker' = "done"
            /\ durable' = flushed + Len(batch)
  PROVE  [Ledger!LedgerNext]_(Ledger!ledgerVars)
  <1>0. /\ durable \in Nat /\ Len(accepted) \in Nat /\ Len(batch) \in Nat /\ Len(queue) \in Nat
        /\ flushed \in Nat /\ Len(accepted) = flushed + Len(batch) + Len(queue)
    BY DEF AuditInv, TypeOK, Conservation
  <1>1. durable' <= Len(accepted)
    BY <1>0
  <1>2. Phase \in {"open", "sealed"} /\ (worker = "lastflush" => Phase = "sealed")
    BY DEF AuditInv, LockProtocol, Phase, Flushing
  <1>3. CASE worker' \in Flushing \cup {"select", "drain"}
    <2>1. Phase' = Phase
      BY <1>3 DEF Phase, Flushing
    <2>2. CASE durable' = durable
      BY <2>1, <2>2 DEF Phase, Ledger!ledgerVars
    <2>3. CASE durable' # durable
      <3>1. durable' \in (durable + 1) .. Len(accepted)
        BY <2>3, <1>0, <1>1
      <3>2. Ledger!MakeDurable
        BY <3>1, <2>1, <1>2 DEF Phase, Ledger!MakeDurable
      <3> QED
        BY <3>2 DEF Ledger!LedgerNext
    <2> QED
      BY <2>2, <2>3
  <1>4. CASE worker = "lastflush" /\ worker' = "done" /\ durable' = flushed + Len(batch)
    <2>1. durable' = Len(accepted)
      <3>1. Len(queue) = 0
        BY <1>4 DEF AuditInv, WorkerProtocol
      <3> QED
        BY <3>1, <1>0, <1>4
    <2>2. Phase = "sealed" /\ Phase' = "drained"
      BY <1>2, <1>4 DEF Phase
    <2>3. CASE durable = Len(accepted)
      <3>1. Ledger!ReportDrained
        BY <2>1, <2>2, <2>3 DEF Phase, Ledger!ReportDrained
      <3> QED
        BY <3>1 DEF Ledger!LedgerNext
    <2>4. CASE durable # Len(accepted)
      <3>1. durable < Len(accepted)
        BY <2>4, <2>1, <1>0, <1>1
      <3>2. Ledger!MakeDurableAndReport
        BY <2>1, <2>2, <3>1 DEF Phase, Ledger!MakeDurableAndReport
      <3> QED
        BY <3>2 DEF Ledger!LedgerNext
    <2> QED
      BY <2>3, <2>4
  <1> QED
    BY <1>3, <1>4

\* Every step is one of the ledger or leaves it alone.
LEMMA LedgerStep == AuditInv /\ AuditInv' /\ [Next]_vars => [Ledger!LedgerNext]_(Ledger!ledgerVars)
  <1> SUFFICES ASSUME AuditInv, AuditInv', [Next]_vars
               PROVE  [Ledger!LedgerNext]_(Ledger!ledgerVars)
    OBVIOUS
  <1>1. ASSUME NEW e \in Events, Send(e)
        PROVE  [Ledger!LedgerNext]_(Ledger!ledgerVars)
    <2>1. /\ write[e] \in {"entered", "blocked"} /\ accepted' = Append(accepted, e)
          /\ UNCHANGED <<durable, worker, closed>>
      BY <1>1 DEF Send, closerVars
    <2>2. Phase = "open" /\ Phase' = "open"
      <3>1. ~closed
        BY <2>1 DEF AuditInv, LockProtocol, HoldsReadLock
      <3>2. worker # "done"
        BY <3>1 DEF AuditInv, LockProtocol
      <3> QED
        BY <2>1, <3>1, <3>2 DEF Phase
    <2>3. e \notin Range(accepted)
      <3>1. \A i \in 1 .. Len(accepted) : accepted[i] # e
        BY <2>1 DEF AuditInv, AcceptedOnce
      <3>2. DOMAIN accepted = 1 .. Len(accepted)
        BY DEF AuditInv, TypeOK
      <3> QED
        BY <3>1, <3>2 DEF Range
    <2>4. Ledger!Accept(e)
      BY <2>1, <2>2, <2>3 DEF Phase, Ledger!Accept, Range, Ledger!Range
    <2> QED
      BY <2>4 DEF Ledger!LedgerNext
  <1>2. ASSUME NEW e \in Events,
               CallWrite(e) \/ EnterWrite(e) \/ Saturate(e) \/ Acknowledge(e)
               \/ CancelWrite(e) \/ RequestContextDone(e)
        PROVE  [Ledger!LedgerNext]_(Ledger!ledgerVars)
    <2>1. UNCHANGED <<accepted, durable, worker, closed>>
      BY <1>2 DEF CallWrite, EnterWrite, Saturate, Acknowledge, CancelWrite,
                  RequestContextDone, closerVars, workerVars, historyVars
    <2> QED
      BY <2>1, LedgerStutter
  <1>3. ASSUME NEW c \in Closers, StopWriters(c)
        PROVE  [Ledger!LedgerNext]_(Ledger!ledgerVars)
    <2>1. closed' = TRUE /\ UNCHANGED <<accepted, durable, worker>>
      BY <1>3 DEF StopWriters, workerVars, historyVars
    <2>2. CASE closed
      BY <2>1, <2>2 DEF AuditInv, TypeOK, Ledger!ledgerVars
    <2>3. CASE ~closed
      <3>1. Phase = "open" /\ Phase' = "sealed"
        BY <2>1, <2>3 DEF AuditInv, LockProtocol, Phase
      <3>2. Ledger!Seal
        BY <3>1, <2>1 DEF Phase, Ledger!Seal
      <3> QED
        BY <3>2 DEF Ledger!LedgerNext
    <2> QED
      BY <2>2, <2>3
  <1>4. ASSUME NEW c \in Closers,
               CallClose(c) \/ CloseDrained(c) \/ CloseTimesOut(c) \/ CloseDeadline(c)
        PROVE  [Ledger!LedgerNext]_(Ledger!ledgerVars)
    <2>1. UNCHANGED <<accepted, durable, worker, closed>>
      BY <1>4 DEF CallClose, CloseDrained, CloseTimesOut, CloseDeadline,
                  workerVars, historyVars
    <2> QED
      BY <2>1, LedgerStutter
  <1>5. CASE Receive \/ Tick \/ Stop
    <2>1. /\ UNCHANGED <<accepted, durable, closed>> /\ worker # "done" /\ worker' # "done"
      BY <1>5 DEF Receive, Tick, Stop, closerVars, historyVars
    <2> QED
      BY <2>1 DEF Ledger!ledgerVars
  <1>6. CASE DrainEmpty
    <2>1. /\ UNCHANGED <<accepted, durable, closed, batch>> /\ worker = "drain" /\ queue = <<>>
          /\ worker' = IF batch = <<>> THEN "done" ELSE "lastflush"
      BY <1>6 DEF DrainEmpty, closerVars, historyVars
    <2>2. CASE batch # <<>>
      BY <2>1, <2>2 DEF Ledger!ledgerVars
    <2>3. CASE batch = <<>>
      <3>1. durable = Len(accepted)
        BY <2>1, <2>3 DEF AuditInv, TypeOK, Conservation, RowsArePrefix
      <3>2. Phase = "sealed" /\ Phase' = "drained"
        BY <2>1, <2>3 DEF AuditInv, LockProtocol, Phase
      <3>3. Ledger!ReportDrained
        BY <2>1, <3>1, <3>2 DEF Phase, Ledger!ReportDrained
      <3> QED
        BY <3>3 DEF Ledger!LedgerNext
    <2> QED
      BY <2>2, <2>3
  <1>7. CASE PersistBatch
    <2>1. /\ worker \in Flushing /\ closed' = closed /\ accepted' = accepted
          /\ durable' = flushed + Len(batch) /\ worker' = AfterFlush(worker)
      BY <1>7 DEF PersistBatch, closerVars
    <2>2. durable' \in Nat /\ durable <= durable' /\ durable' <= flushed + Len(batch)
      BY <2>1 DEF AuditInv, TypeOK, RowsArePrefix
    <2>3. \/ worker' \in Flushing \cup {"select", "drain"}
          \/ worker = "lastflush" /\ worker' = "done" /\ durable' = flushed + Len(batch)
      BY <2>1 DEF AfterFlush, Flushing
    <2> QED
      BY <2>1, <2>2, <2>3, LedgerPersist
  <1>8. CASE PersistFails
    <2>1. /\ worker \in Flushing /\ closed' = closed /\ accepted' = accepted
          /\ worker' = worker /\ flushed' = flushed /\ batch' = batch
      BY <1>8 DEF PersistFails, closerVars, statVars
    <2>2. PICK k \in Residue(Len(batch)) : durable' = Larger(durable, flushed + k)
      BY <1>8 DEF PersistFails
    <2>3. /\ batch \in Seq(Events) /\ Len(batch) \in Nat /\ flushed \in Nat /\ durable \in Nat
          /\ durable <= flushed + Len(batch)
      BY DEF AuditInv, TypeOK, RowsArePrefix
    <2>4. k \in 0 .. Len(batch)
      BY <2>2, <2>3 DEF Residue
    <2>5. durable' \in Nat /\ durable <= durable' /\ durable' <= flushed + Len(batch)
      BY <2>2, <2>3, <2>4 DEF Larger
    <2> QED
      BY <2>1, <2>5, LedgerPersist
  <1>9. CASE UNCHANGED vars
    BY <1>9, LedgerStutter DEF vars
  <1> QED
    BY <1>1, <1>2, <1>3, <1>4, <1>5, <1>6, <1>7, <1>8, <1>9
    DEF Next, WriterStep, CloserStep, WorkerStep

\* Every behaviour of the queue, the lock, the worker and Close is a behaviour
\* of the abstract ledger.
THEOREM LedgerRefinement == Spec => ImplementsLedger
  <1>1. Init => Ledger!LedgerInit
    BY DEF Init, Ledger!LedgerInit
  <1> QED
    BY <1>1, AuditInvariant, LedgerStep, PTL DEF Spec, ImplementsLedger, Ledger!LedgerSpec

-----------------------------------------------------------------------------
(* Duplicates.  An event of the batch under way owes all its rows to failed *)
(* attempts; the successful one that settles it adds the last.              *)

Settled(e) == \E i \in 1 .. flushed : accepted[i] = e

DuplicatesCaused ==
    \A e \in Events :
       /\ IsFiniteSet(Copies(e))
       /\ Cardinality(Copies(e)) <= IF Settled(e) THEN 1 + failures ELSE failures

\* Writing a batch that holds an event at most once adds at most one row of it.
LEMMA OneMoreCopy ==
  ASSUME log \in Seq(Events), NEW s \in Seq(Events), log' = log \o s,
         \A i, j \in 1 .. Len(s) : s[i] = s[j] => i = j,
         NEW e \in Events, IsFiniteSet(Copies(e))
  PROVE  /\ IsFiniteSet(Copies(e)')
         /\ Cardinality(Copies(e)') <= Cardinality(Copies(e)) + 1
         /\ (\A i \in 1 .. Len(s) : s[i] # e) => Copies(e)' = Copies(e)
  <1>0. Len(log) \in Nat /\ Len(s) \in Nat
    OBVIOUS
  <1>1. /\ Len(log') = Len(log) + Len(s)
        /\ \A q \in 1 .. Len(log) : log'[q] = log[q]
        /\ \A m \in 1 .. Len(s) : log'[Len(log) + m] = s[m]
    OBVIOUS
  <1>2. ASSUME NEW q \in 1 .. Len(log')
        PROVE  q \in 1 .. Len(log) \/ \E m \in 1 .. Len(s) : q = Len(log) + m
    <2>1. q \in 1 .. Len(log) \/ q - Len(log) \in 1 .. Len(s)
      BY <1>0, <1>1
    <2> QED
      BY <1>0, <2>1
  <1>3. CASE \A i \in 1 .. Len(s) : s[i] # e
    <2>1. Copies(e)' = Copies(e)
      BY <1>0, <1>1, <1>2, <1>3 DEF Copies
    <2>2. Cardinality(Copies(e)) \in Nat
      BY FS_CardinalityType
    <2> QED
      BY <2>1, <2>2
  <1>4. CASE \E i \in 1 .. Len(s) : s[i] = e
    <2>1. PICK m \in 1 .. Len(s) : s[m] = e
      BY <1>4
    <2> DEFINE new == Len(log) + m
    <2>2. new \in 1 .. Len(log') /\ log'[new] = e
      BY <1>0, <1>1, <2>1
    <2>3. ASSUME NEW q \in 1 .. Len(log'), log'[q] = e
          PROVE  q \in Copies(e) \/ q = new
      <3>1. CASE q \in 1 .. Len(log)
        BY <1>1, <2>3, <3>1 DEF Copies
      <3>2. CASE \E j \in 1 .. Len(s) : q = Len(log) + j
        <4>1. PICK j \in 1 .. Len(s) : q = Len(log) + j
          BY <3>2
        <4>2. s[j] = e
          BY <1>1, <2>3, <4>1
        <4> QED
          BY <2>1, <4>1, <4>2
      <3> QED
        BY <1>2, <3>1, <3>2
    <2>4. \A q \in Copies(e) : q \in 1 .. Len(log') /\ log'[q] = e
      BY <1>0, <1>1 DEF Copies
    <2> HIDE DEF new
    <2>5. Copies(e)' = Copies(e) \cup {new}
      BY <2>2, <2>3, <2>4 DEF Copies
    <2>6. Cardinality(Copies(e)) \in Nat
      BY FS_CardinalityType
    <2>7. /\ IsFiniteSet(Copies(e) \cup {new})
          /\ Cardinality(Copies(e) \cup {new}) <= Cardinality(Copies(e)) + 1
      <3> DEFINE old == Copies(e)
      <3>1. IsFiniteSet(old) /\ Cardinality(old) \in Nat
        BY <2>6
      <3> HIDE DEF old
      <3>2. /\ IsFiniteSet(old \cup {new})
            /\ Cardinality(old \cup {new}) = IF new \in old THEN Cardinality(old)
                                                            ELSE Cardinality(old) + 1
        BY <3>1, FS_AddElement
      <3> QED
        BY <3>1, <3>2 DEF old
    <2> QED
      BY <2>5, <2>7, <1>4
  <1> QED
    BY <1>3, <1>4

\* Only a failed attempt leaves rows that will be written again.
LEMMA DuplicatesStep ==
  ASSUME AuditInv, AuditInv', DuplicatesCaused, [Next]_vars
  PROVE  DuplicatesCaused'
  <1>0. /\ log \in Seq(Events) /\ batch \in Seq(Events) /\ accepted \in Seq(Events)
        /\ Len(batch) \in Nat /\ Len(queue) \in Nat /\ Len(accepted) \in Nat
        /\ flushed \in Nat /\ failures \in Nat
        /\ Len(accepted) = flushed + Len(batch) + Len(queue)
    <2>1. /\ log \in Seq(Events) /\ batch \in Seq(Events) /\ accepted \in Seq(Events)
          /\ queue \in Seq(Events) /\ flushed \in Nat /\ failures \in Nat
      BY DEF AuditInv, TypeOK
    <2>2. Len(accepted) = flushed + Len(batch) + Len(queue)
      BY DEF AuditInv, Conservation
    <2> QED
      BY <2>1, <2>2
  <1>1. \A e \in Events : Cardinality(Copies(e)) \in Nat
    BY FS_CardinalityType DEF DuplicatesCaused
  <1>2. \A i \in 1 .. Len(batch) :
           flushed + i \in 1 .. Len(accepted) /\ batch[i] = accepted[flushed + i]
    <2>1. \A i \in 1 .. Len(batch) : flushed + i \in 1 .. Len(accepted)
      BY <1>0
    <2> QED
      BY <2>1 DEF AuditInv, Conservation
  <1>3. \A i, j \in 1 .. Len(batch) : batch[i] = batch[j] => i = j
    <2>1. ASSUME NEW i \in 1 .. Len(batch), NEW j \in 1 .. Len(batch), batch[i] = batch[j]
          PROVE  i = j
      <3>1. flushed + i = flushed + j
        BY <1>2, <2>1 DEF AuditInv, AcceptedOnce
      <3> QED
        BY <1>0, <3>1
    <2> QED
      BY <2>1
  <1>4. ASSUME NEW i \in 1 .. Len(batch) PROVE ~Settled(batch[i])
    <2>1. ASSUME NEW j \in 1 .. flushed, accepted[j] = batch[i] PROVE FALSE
      <3>1. j \in 1 .. Len(accepted) /\ j # flushed + i
        BY <1>0
      <3> QED
        BY <1>2, <2>1, <3>1 DEF AuditInv, AcceptedOnce
    <2> QED
      BY <2>1 DEF Settled
  <1>5. CASE UNCHANGED <<log, flushed, failures>> /\ accepted' = accepted
    BY <1>5 DEF DuplicatesCaused, Copies, Settled
  <1>6. ASSUME NEW e \in Events, Send(e) PROVE DuplicatesCaused'
    <2>1. UNCHANGED <<log, flushed, failures>> /\ accepted' = Append(accepted, e)
      BY <1>6 DEF Send, statVars
    <2>2. \A i \in 1 .. flushed : accepted'[i] = accepted[i]
      BY <1>0, <2>1
    <2> QED
      BY <2>1, <2>2 DEF DuplicatesCaused, Copies, Settled
  <1>7. CASE PersistBatch
    <2>1. /\ log' = log \o batch /\ flushed' = flushed + Len(batch)
          /\ UNCHANGED <<failures, accepted>>
      BY <1>7 DEF PersistBatch
    <2> SUFFICES ASSUME NEW e \in Events
                 PROVE  /\ IsFiniteSet(Copies(e)')
                        /\ Cardinality(Copies(e)') <=
                              IF Settled(e)' THEN 1 + failures ELSE failures
      BY <2>1 DEF DuplicatesCaused
    <2>2. /\ IsFiniteSet(Copies(e)')
          /\ Cardinality(Copies(e)') <= Cardinality(Copies(e)) + 1
          /\ (\A i \in 1 .. Len(batch) : batch[i] # e) => Copies(e)' = Copies(e)
      BY <1>0, <1>3, <2>1, OneMoreCopy DEF DuplicatesCaused
    <2>3. CASE \A i \in 1 .. Len(batch) : batch[i] # e
      <3>1. Settled(e) => Settled(e)'
        BY <1>0, <2>1 DEF Settled
      <3>2. Cardinality(Copies(e)) <= IF Settled(e) THEN 1 + failures ELSE failures
        BY DEF DuplicatesCaused
      <3> QED
        BY <1>0, <1>1, <2>2, <2>3, <3>1, <3>2
    <2>4. ASSUME NEW i \in 1 .. Len(batch), batch[i] = e
          PROVE  Cardinality(Copies(e)') <= 1 + failures /\ Settled(e)'
      <3>1. Settled(e)'
        <4>1. flushed + i \in 1 .. flushed' /\ accepted'[flushed + i] = e
          BY <1>0, <1>2, <2>1, <2>4
        <4> QED
          BY <4>1 DEF Settled
      <3>2. Cardinality(Copies(e)) <= failures
        BY <1>4, <2>4 DEF DuplicatesCaused
      <3>3. Cardinality(Copies(e)') \in Nat
        BY <2>2, FS_CardinalityType
      <3> QED
        BY <1>0, <1>1, <2>2, <3>1, <3>2, <3>3
    <2> QED
      BY <2>2, <2>3, <2>4
  <1>8. CASE PersistFails
    <2>1. PICK k \in Residue(Len(batch)) : log' = log \o SubSeq(batch, 1, k)
      BY <1>8 DEF PersistFails
    <2>2. failures' = failures + 1 /\ UNCHANGED <<flushed, accepted>>
      BY <1>8 DEF PersistFails, statVars
    <2>3. k \in 0 .. Len(batch)
      BY <1>0 DEF Residue
    <2> DEFINE s == SubSeq(batch, 1, k)
    <2>4. s \in Seq(Events) /\ Len(s) = k /\ \A m \in 1 .. k : s[m] = batch[m]
      BY <1>0, <2>3
    <2> HIDE DEF s
    <2>5. \A i, j \in 1 .. Len(s) : s[i] = s[j] => i = j
      BY <1>0, <1>3, <2>3, <2>4
    <2> SUFFICES ASSUME NEW e \in Events
                 PROVE  /\ IsFiniteSet(Copies(e)')
                        /\ Cardinality(Copies(e)') <=
                              IF Settled(e) THEN 1 + failures' ELSE failures'
      BY <2>2 DEF DuplicatesCaused, Settled
    <2>6. log' = log \o s
      BY <2>1 DEF s
    <2>7. /\ IsFiniteSet(Copies(e)')
          /\ Cardinality(Copies(e)') <= Cardinality(Copies(e)) + 1
      BY <1>0, <2>4, <2>5, <2>6, OneMoreCopy DEF DuplicatesCaused
    <2>8. Cardinality(Copies(e)) <= IF Settled(e) THEN 1 + failures ELSE failures
      BY DEF DuplicatesCaused
    <2>9. Cardinality(Copies(e)') \in Nat
      BY <2>7, FS_CardinalityType
    <2> QED
      BY <1>0, <1>1, <2>2, <2>7, <2>8, <2>9
  <1>9. \/ UNCHANGED <<log, flushed, failures>> /\ accepted' = accepted
        \/ \E e \in Events : Send(e)
        \/ PersistBatch \/ PersistFails
    BY DEF Next, WriterStep, CloserStep, WorkerStep, CallWrite, EnterWrite, Saturate, Acknowledge,
           CancelWrite, RequestContextDone, CallClose, StopWriters, CloseDrained, CloseTimesOut,
           CloseDeadline, Receive, Tick, Stop, DrainEmpty,
           callerVars, closerVars, workerVars, statVars, historyVars, vars
  <1> QED
    BY <1>5, <1>6, <1>7, <1>8, <1>9

\* Delivery is at least once and no worse: an event has at most one row more
\* than there were failed attempts to write a batch.
THEOREM DuplicatesAreBounded == Spec => []DuplicatesBounded
  <1>1. Init => DuplicatesCaused
    <2> SUFFICES ASSUME Init, NEW e \in Events
                 PROVE  /\ IsFiniteSet(Copies(e))
                        /\ Cardinality(Copies(e)) <= IF Settled(e) THEN 1 + failures ELSE failures
      BY DEF DuplicatesCaused
    <2>1. Copies(e) = {}
      BY DEF Init, Copies
    <2>2. failures = 0
      BY DEF Init
    <2> QED
      BY <2>1, <2>2, FS_EmptySet
  <1>2. AuditInv /\ AuditInv' /\ DuplicatesCaused /\ [Next]_vars => DuplicatesCaused'
    BY DuplicatesStep
  <1>3. AuditInv /\ DuplicatesCaused => DuplicatesBounded
    <2> SUFFICES ASSUME AuditInv, DuplicatesCaused, NEW e \in Events
                 PROVE  Cardinality(Copies(e)) <= 1 + failures
      BY DEF DuplicatesBounded
    <2>1. failures \in Nat
      BY DEF AuditInv, TypeOK
    <2>2. IsFiniteSet(Copies(e)) /\ Cardinality(Copies(e)) \in Nat
      BY FS_CardinalityType DEF DuplicatesCaused
    <2>3. Cardinality(Copies(e)) <= IF Settled(e) THEN 1 + failures ELSE failures
      BY DEF DuplicatesCaused
    <2> QED
      BY <2>1, <2>2, <2>3
  <1> QED
    BY <1>1, <1>2, <1>3, AuditInvariant, PTL DEF Spec
=============================================================================
