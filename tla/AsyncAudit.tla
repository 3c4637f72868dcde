----------------------------- MODULE AsyncAudit ------------------------------
(***************************************************************************)
(* The asynchronous audit repository (internal/audit/async.go): request    *)
(* goroutines put events on a bounded channel under the read side of an    *)
(* RWMutex, one worker collects batches and persists each with unlimited   *)
(* retries, and Close takes the write side, stops the worker and waits for *)
(* it to drain.                                                            *)
(*                                                                         *)
(* An event is identified with the call of Write that carries it.          *)
(***************************************************************************)
EXTENDS Naturals, Sequences, Functions, FiniteSets

CONSTANTS
    Events,               \* calls of Write, each with its own event
    Closers,              \* calls of Close
    QueueSize,            \* AsyncOptions.QueueSize, the capacity of the channel
    BatchSize,            \* AsyncOptions.BatchSize
    BatchIsTransaction,   \* TRUE: the repository has WriteBatch (PostgreSQL)
                          \* FALSE: writeBatch falls back to one Write per event
    MaxFailures           \* bound: failed attempts of writeBatch in a behaviour

ASSUME AsyncOptionsAssumption ==
    /\ QueueSize \in Nat \ {0}
    /\ BatchSize \in Nat \ {0}
    /\ MaxFailures \in Nat
    /\ BatchIsTransaction \in BOOLEAN

VARIABLES
    \* callers of Write
    write,        \* [Events -> WriteState]: where each call of Write is
    ctxDone,      \* the calls whose request context is done
    \* callers of Close
    close,        \* [Closers -> CloseState]: where each call of Close is
    deadline,     \* the calls of Close whose context has expired
    closed,       \* a.closed; a.stop is closed in the same critical section
    \* the worker goroutine
    queue,        \* the channel a.queue
    batch,        \* the worker's batch
    worker,       \* where the worker is
    log,          \* rows of audit_events, with the duplicates retries leave
    failures,     \* failed attempts so far
    \* AsyncStats
    enqueued, flushed, saturated, batchesWritten,
    \* history
    accepted,     \* every event that entered the channel, in that order
    durable       \* how many of those have a row

callerVars  == <<write, ctxDone>>
closerVars  == <<close, deadline, closed>>
workerVars  == <<queue, batch, worker, log, failures>>
statVars    == <<enqueued, flushed, saturated, batchesWritten>>
historyVars == <<accepted, durable>>
vars == <<write, ctxDone, close, deadline, closed, queue, batch, worker, log,
          failures, enqueued, flushed, saturated, batchesWritten, accepted, durable>>

WriteState ==
    {"idle",      \* not called yet
     "rlock",     \* waiting for a.mu.RLock
     "entered",   \* holds the read lock, saw closed = false
     "blocked",   \* holds the read lock, the channel was full
     "sent",      \* holds the read lock, the event is in the channel
     "acked",     \* returned nil
     "refused",   \* returned ErrAsyncClosed
     "cancelled"} \* returned ctx.Err()

CloseState ==
    {"idle",
     "lock",      \* in a.mu.Lock: waits for the readers, keeps new ones out
     "waiting",   \* in the select on a.done and ctx.Done
     "drained",   \* returned nil
     "timedout"}  \* returned the deadline error

WorkerState ==
    {"select",    \* in the outer select
     "flush",     \* in persistWithRetry, called from the outer select
     "drain",     \* in the drain loop
     "drainflush",\* in persistWithRetry, called for a full batch while draining
     "lastflush", \* in persistWithRetry, called when the drain found no event
     "done"}      \* returned, a.done is closed

Flushing == {"flush", "drainflush", "lastflush"}
AfterFlush(w) ==
    IF w = "flush" THEN "select" ELSE IF w = "drainflush" THEN "drain" ELSE "done"

HoldsReadLock(e) == write[e] \in {"entered", "blocked", "sent"}
\* Mutant: Close never releases the write lock.
LockNeverReleased == \E c \in Closers : close[c] # "idle"

LockRequested == \E c \in Closers : close[c] = "lock"
Stored(e) == e \in Range(log)
Larger(m, n) == IF m >= n THEN m ELSE n

Init ==
    /\ write = [e \in Events |-> "idle"]
    /\ ctxDone = {}
    /\ close = [c \in Closers |-> "idle"]
    /\ deadline = {}
    /\ closed = FALSE
    /\ queue = <<>> /\ batch = <<>> /\ log = <<>>
    /\ worker = "select"
    /\ failures = 0
    /\ enqueued = 0 /\ flushed = 0 /\ saturated = 0 /\ batchesWritten = 0
    /\ accepted = <<>> /\ durable = 0

-----------------------------------------------------------------------------
(* Write *)

\* A handler calls Write and asks for the read lock.
CallWrite(e) ==
    /\ write[e] = "idle"
    /\ write' = [write EXCEPT ![e] = "rlock"]
    /\ UNCHANGED <<ctxDone, closerVars, workerVars, statVars, historyVars>>

\* RLock succeeds when no Close is waiting for the write lock (sync.RWMutex
\* keeps new readers out as soon as a writer asks); closed is read under it.
EnterWrite(e) ==
    /\ write[e] = "rlock"
    /\ ~LockRequested
    /\ write' = [write EXCEPT ![e] = IF closed THEN "refused" ELSE "entered"]
    /\ UNCHANGED <<ctxDone, closerVars, workerVars, statVars, historyVars>>

\* The channel takes the event: the fast path, or the send case of the
\* blocking select once the worker has made room.
Send(e) ==
    /\ write[e] \in {"entered", "blocked"}
    /\ Len(queue) < QueueSize
    /\ write' = [write EXCEPT ![e] = "sent"]
    /\ queue' = Append(queue, e)
    /\ accepted' = Append(accepted, e)
    /\ UNCHANGED <<ctxDone, closerVars, batch, worker, log, failures, statVars, durable>>

\* The fast path found the channel full.
Saturate(e) ==
    /\ write[e] = "entered"
    /\ Len(queue) = QueueSize
    /\ write' = [write EXCEPT ![e] = "blocked"]
    /\ saturated' = saturated + 1
    /\ UNCHANGED <<ctxDone, closerVars, workerVars, enqueued, flushed, batchesWritten,
                   historyVars>>

\* The enqueued counter moves after the send, then Write returns nil.
Acknowledge(e) ==
    /\ write[e] = "sent"
    /\ write' = [write EXCEPT ![e] = "acked"]
    /\ enqueued' = enqueued + 1
    /\ UNCHANGED <<ctxDone, closerVars, workerVars, flushed, saturated, batchesWritten,
                   historyVars>>

\* Mutant: the context is looked at again after the event was sent.
CancelSentWrite(e) ==
    /\ write[e] \in {"blocked", "sent"}
    /\ e \in ctxDone
    /\ write' = [write EXCEPT ![e] = "cancelled"]
    /\ UNCHANGED <<ctxDone, closerVars, workerVars, statVars, historyVars>>

\* The ctx.Done case of the blocking select.
CancelWrite(e) ==
    /\ write[e] = "blocked"
    /\ e \in ctxDone
    /\ write' = [write EXCEPT ![e] = "cancelled"]
    /\ UNCHANGED <<ctxDone, closerVars, workerVars, statVars, historyVars>>

\* The request behind a call of Write ends or times out (environment).
RequestContextDone(e) ==
    /\ write[e] \in {"idle", "rlock", "entered", "blocked"}
    /\ e \notin ctxDone
    /\ ctxDone' = ctxDone \cup {e}
    /\ UNCHANGED <<write, closerVars, workerVars, statVars, historyVars>>

-----------------------------------------------------------------------------
(* Close *)

\* Close asks for the write lock; one caller at a time is past the mutex
\* inside RWMutex.
CallClose(c) ==
    /\ close[c] = "idle"
    /\ ~LockRequested
    /\ close' = [close EXCEPT ![c] = "lock"]
    /\ UNCHANGED <<callerVars, deadline, closed, workerVars, statVars, historyVars>>

\* Mutant: Close sets closed without waiting for the readers.
StopWithoutLock(c) ==
    /\ close[c] = "lock"
    /\ close' = [close EXCEPT ![c] = "waiting"]
    /\ closed' = TRUE
    /\ UNCHANGED <<callerVars, deadline, workerVars, statVars, historyVars>>

\* Mutant: Close takes the lock but does not signal the worker.
StopForgotten(c) ==
    /\ close[c] = "lock"
    /\ \A e \in Events : ~HoldsReadLock(e)
    /\ close' = [close EXCEPT ![c] = "waiting"]
    /\ UNCHANGED <<callerVars, deadline, closed, workerVars, statVars, historyVars>>

\* The last reader has left: set closed, close a.stop, unlock.
StopWriters(c) ==
    /\ close[c] = "lock"
    /\ \A e \in Events : ~HoldsReadLock(e)
    /\ close' = [close EXCEPT ![c] = "waiting"]
    /\ closed' = TRUE
    /\ UNCHANGED <<callerVars, deadline, workerVars, statVars, historyVars>>

CloseDrained(c) ==
    /\ close[c] = "waiting"
    /\ worker = "done"
    /\ close' = [close EXCEPT ![c] = "drained"]
    /\ UNCHANGED <<callerVars, deadline, closed, workerVars, statVars, historyVars>>

CloseTimesOut(c) ==
    /\ close[c] = "waiting"
    /\ c \in deadline
    /\ close' = [close EXCEPT ![c] = "timedout"]
    /\ UNCHANGED <<callerVars, deadline, closed, workerVars, statVars, historyVars>>

\* The context given to Close expires (environment).
CloseDeadline(c) ==
    /\ close[c] \in {"lock", "waiting"}
    /\ c \notin deadline
    /\ deadline' = deadline \cup {c}
    /\ UNCHANGED <<callerVars, close, closed, workerVars, statVars, historyVars>>

-----------------------------------------------------------------------------
(* The worker *)

\* Mutant: > instead of >= in the test for a full batch.
ReceiveOneTooMany ==
    /\ worker \in {"select", "drain"}
    /\ queue # <<>>
    /\ batch' = Append(batch, Head(queue))
    /\ queue' = Tail(queue)
    /\ worker' = IF Len(batch) + 1 <= BatchSize THEN worker
                 ELSE IF worker = "select" THEN "flush" ELSE "drainflush"
    /\ UNCHANGED <<callerVars, closerVars, log, failures, statVars, historyVars>>

\* Take one event from the channel, in the outer select or in the drain loop,
\* and flush when the batch is full.
Receive ==
    /\ worker \in {"select", "drain"}
    /\ queue # <<>>
    /\ batch' = Append(batch, Head(queue))
    /\ queue' = Tail(queue)
    /\ worker' = IF Len(batch) + 1 < BatchSize THEN worker
                 ELSE IF worker = "select" THEN "flush" ELSE "drainflush"
    /\ UNCHANGED <<callerVars, closerVars, log, failures, statVars, historyVars>>

\* Mutant: the ticker leaves a partial batch for later.
TickFullBatchOnly ==
    /\ worker = "select"
    /\ Len(batch) = BatchSize
    /\ worker' = "flush"
    /\ UNCHANGED <<callerVars, closerVars, queue, batch, log, failures, statVars, historyVars>>

\* The ticker fires on a partial batch (on an empty one flush does nothing).
Tick ==
    /\ worker = "select"
    /\ batch # <<>>
    /\ worker' = "flush"
    /\ UNCHANGED <<callerVars, closerVars, queue, batch, log, failures, statVars, historyVars>>

\* The select takes the stop case.
Stop ==
    /\ worker = "select"
    /\ closed
    /\ worker' = "drain"
    /\ UNCHANGED <<callerVars, closerVars, queue, batch, log, failures, statVars, historyVars>>

\* Mutant: the drain returns without the last flush.
DrainWithoutFlush ==
    /\ worker = "drain"
    /\ queue = <<>>
    /\ worker' = "done"
    /\ UNCHANGED <<callerVars, closerVars, queue, batch, log, failures, statVars, historyVars>>

\* The drain loop finds the channel empty: a last flush, then return.
DrainEmpty ==
    /\ worker = "drain"
    /\ queue = <<>>
    /\ worker' = IF batch = <<>> THEN "done" ELSE "lastflush"
    /\ UNCHANGED <<callerVars, closerVars, queue, batch, log, failures, statVars, historyVars>>

\* Mutant: batch = batch[:0] is missing.
PersistKeepsBatch ==
    /\ worker \in Flushing
    /\ log' = log \o batch
    /\ worker' = AfterFlush(worker)
    /\ flushed' = flushed + Len(batch)
    /\ batchesWritten' = batchesWritten + 1
    /\ durable' = flushed + Len(batch)
    /\ UNCHANGED <<callerVars, closerVars, queue, batch, failures, enqueued, saturated, accepted>>

\* writeBatch succeeds: the batch is settled and the worker goes on.
PersistBatch ==
    /\ worker \in Flushing
    /\ log' = log \o batch
    /\ batch' = <<>>
    /\ worker' = AfterFlush(worker)
    /\ flushed' = flushed + Len(batch)
    /\ batchesWritten' = batchesWritten + 1
    /\ durable' = flushed + Len(batch)
    /\ UNCHANGED <<callerVars, closerVars, queue, failures, enqueued, saturated, accepted>>

\* How much of a failed batch may be in the table all the same: any prefix when
\* events are written one by one; nothing, or all of it when only the answer to
\* the commit was lost, when the batch is one transaction.
Residue(n) == IF BatchIsTransaction THEN {0, n} ELSE 0 .. n

\* Mutant: a failed batch goes back to the end of the queue.
FailedBatchRequeued ==
    /\ worker \in Flushing
    /\ failures < MaxFailures
    /\ queue' = queue \o batch
    /\ batch' = <<>>
    /\ worker' = IF worker = "lastflush" THEN "drain" ELSE AfterFlush(worker)
    /\ failures' = failures + 1
    /\ UNCHANGED <<callerVars, closerVars, log, statVars, historyVars>>

\* writeBatch fails: the worker keeps the batch and tries all of it again.
PersistFails ==
    /\ worker \in Flushing
    /\ failures < MaxFailures
    /\ \E k \in Residue(Len(batch)) :
          /\ log' = log \o SubSeq(batch, 1, k)
          /\ durable' = Larger(durable, flushed + k)
    /\ failures' = failures + 1
    /\ UNCHANGED <<callerVars, closerVars, queue, batch, worker, statVars, accepted>>

-----------------------------------------------------------------------------
WriterStep(e) == CallWrite(e) \/ EnterWrite(e) \/ Send(e) \/ Saturate(e)
                 \/ Acknowledge(e) \/ CancelWrite(e) \/ RequestContextDone(e)
CloserStep(c) == CallClose(c) \/ StopWriters(c) \/ CloseDrained(c)
                 \/ CloseTimesOut(c) \/ CloseDeadline(c)
WorkerStep == Receive \/ Tick \/ Stop \/ DrainEmpty \/ PersistBatch \/ PersistFails

Next ==
    \/ \E e \in Events : WriterStep(e)
    \/ \E c \in Closers : CloserStep(c)
    \/ WorkerStep

Spec == Init /\ [][Next]_vars

\* Every goroutine that can run does; requests and Close need not be made, and
\* nothing forces a context to end or a write to fail.
CodeFairness ==
    /\ \A e \in Events :
          /\ WF_vars(EnterWrite(e)) /\ WF_vars(Send(e)) /\ WF_vars(Saturate(e))
          /\ WF_vars(Acknowledge(e)) /\ WF_vars(CancelWrite(e))
    /\ \A c \in Closers :
          WF_vars(StopWriters(c)) /\ WF_vars(CloseDrained(c)) /\ WF_vars(CloseTimesOut(c))
    /\ WF_vars(Receive) /\ WF_vars(Tick) /\ WF_vars(Stop) /\ WF_vars(DrainEmpty)

\* The store may stay down for ever.
OutageSpec == Spec /\ CodeFairness

\* The store recovers: an attempt that is retried for ever succeeds.
FairSpec == OutageSpec /\ WF_vars(PersistBatch)

-----------------------------------------------------------------------------
(* Properties *)

\* Every variable has its type, the channel never holds more than QueueSize
\* events and the worker never collects more than BatchSize.
TypeOK ==
    /\ write \in [Events -> WriteState]
    /\ ctxDone \subseteq Events
    /\ close \in [Closers -> CloseState]
    /\ deadline \subseteq Closers
    /\ closed \in BOOLEAN
    /\ queue \in Seq(Events) /\ batch \in Seq(Events)
    /\ log \in Seq(Events) /\ accepted \in Seq(Events)
    /\ Len(queue) <= QueueSize /\ Len(batch) <= BatchSize
    /\ worker \in WorkerState
    /\ failures \in Nat /\ durable \in Nat
    /\ enqueued \in Nat /\ flushed \in Nat /\ saturated \in Nat /\ batchesWritten \in Nat

\* Every accepted event is in exactly one place, in order: settled by a
\* successful batch, in the worker's batch, or in the channel.
Conservation ==
    /\ Len(accepted) = flushed + Len(batch) + Len(queue)
    /\ \A i \in 1 .. Len(batch) : batch[i] = accepted[flushed + i]
    /\ \A i \in 1 .. Len(queue) : queue[i] = accepted[flushed + Len(batch) + i]

\* The rows of the table hold exactly the first `durable` accepted events.
DurablePrefix ==
    /\ durable >= flushed /\ durable <= flushed + Len(batch)
    /\ \A i \in 1 .. Len(accepted) : Stored(accepted[i]) <=> i <= durable

\* An acknowledged event is never lost: it is in the table, or the worker is
\* still running and will take it.
AcknowledgedNotLost ==
    \A e \in Events : write[e] \in {"sent", "acked"} =>
        \/ Stored(e)
        \/ worker # "done" /\ e \in Range(batch) \cup Range(queue)

\* When Close returns nil every acknowledged event is in the table and the
\* published counters agree.
CloseMeansDrained ==
    \A c \in Closers : close[c] = "drained" =>
        /\ \A e \in Events : write[e] = "acked" => Stored(e)
        /\ enqueued = flushed /\ flushed = Len(accepted)

\* A Write that returned an error left no row and will leave none.
RefusedLeavesNoTrace ==
    \A e \in Events : write[e] \in {"refused", "cancelled"} =>
        e \notin Range(log) \cup Range(batch) \cup Range(queue)

\* A row never appears before the first row of an event accepted earlier.
RowsInAcceptanceOrder ==
    \A i, j \in 1 .. Len(accepted) : i < j =>
        \A q \in 1 .. Len(log) : log[q] = accepted[j] =>
            \E p \in 1 .. (q - 1) : log[p] = accepted[i]

\* Delivery is at least once: each failed attempt accounts for at most one extra
\* row of an event, so without failures every event has at most one row.
Copies(e) == {q \in 1 .. Len(log) : log[q] = e}
DuplicatesBounded == \A e \in Events : Cardinality(Copies(e)) <= 1 + failures

\* Close's exclusive lock really excludes: once closed is set nobody is inside
\* Write past the check, so the drain loop's "empty" is final.
ClosedExcludesWriters ==
    closed => \A e \in Events : ~HoldsReadLock(e)

\* The detailed repository keeps the promises of the ledger.
Ledger == INSTANCE AuditLedger WITH
    phase <- IF worker = "done" THEN "drained" ELSE IF closed THEN "sealed" ELSE "open"

\* Refinement: every step of the queue, the lock and the worker is a step of
\* the abstract ledger or leaves it unchanged.
ImplementsLedger == Ledger!LedgerSpec

\* An acknowledged event reaches the table, also when no further request fills
\* its batch and whether or not Close is called.
AcknowledgedIsStored == \A e \in Events : write[e] = "acked" ~> Stored(e)

\* Every call of Write returns, however full the queue was.
WriteReturns ==
    \A e \in Events : write[e] = "rlock" ~> write[e] \in {"acked", "refused", "cancelled"}

\* Every call of Close returns.
CloseReturns ==
    \A c \in Closers : close[c] = "lock" ~> close[c] \in {"drained", "timedout"}

\* A Write whose request context is done returns (README.md:576, "context-aware
\* enqueue cancellation").
CancelledWriteReturns ==
    \A e \in Events : (write[e] = "rlock" /\ e \in ctxDone)
                      ~> write[e] \in {"acked", "refused", "cancelled"}
=============================================================================
