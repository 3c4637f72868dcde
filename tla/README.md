# SentryMesh in TLA+

This directory holds the formal models of SentryMesh: TLA+ modules translated from the Go gateway
under `src/gateway`, TLC configurations that check them on small instances, and TLAPS proofs of
their main properties for every value of the constants. `PROJECT.json` is the index: every
component, run, mutant, mapped definition, hazard and theorem. Paths below are relative to
`src/gateway/internal/` unless they start with `cmd/`; quotations name the repository's `README.md`.

Contents: 1 the system, 2 the models, 3 runs and bounds, 4 fairness, 5 proofs, 6 what the models
say about the code, 7 what is not modelled, 8 plan.

## 1. The system

SentryMesh is one gateway process in front of model providers. An HTTP request passes
authentication, scope check, abuse guard and rate limit, then a handler: chat, RAG chat, tool
evaluation, approval, execution, key management or inspection. State lives in PostgreSQL, or in
four SQLite files, shared by all processes that use the database.

| Component | Code | State | Operations |
| --- | --- | --- | --- |
| Asynchronous audit repository | `audit/async.go`, `batch.go`, `postgres_batch.go` | channel, worker's batch, `closed`, RWMutex, counters | `Write`, `Close`, the worker's loops |
| Audit stores | `audit/store.go`, `postgres.go`, `*_events.go` | `audit_events`, `tool_events`, `auth_events`, `rag_events`, `abuse_events` | inserts; queries |
| Approval store | `approval/` | `approvals` rows: status, `executed_at` | `Create`, `SetStatus`, `ClaimExecution`, `FinishExecution`, `FailExecution`, reads |
| Approval and execution handlers | `api/tools.go`, `approvals.go`, `execute.go` | none of their own | evaluate, approve, reject, execute |
| Tool policy, executor | `tools/policy.go`, `executor/executor.go` | none | `Evaluate`, `Execute` |
| Abuse tracker | `abuse/`, `middleware/abuse.go` | score, last update and cooldown per key, in memory and in `abuse_state` | `RegisterKey`, `Check`, `Add`, decay |
| Rate limiter | `ratelimit/`, `middleware/ratelimit.go` | token bucket per key | `Allow` |
| API keys | `auth/`, `api/keys.go`, `cmd/sentrymesh/seed.go` | `api_keys`: hash, expiry, revocation | create, resolve, list, revoke, seed |
| Chat pipeline | `api/chat.go`, `scanner/`, `risk/` | none | scan, decide, call the provider, scan the answer, audit |
| RAG pipeline | `rag/`, `api/rag_chat.go`, `rag_context.go` | none | authorize, scan chunk by chunk and in aggregate, redact, trace |
| Database | `database/` | `schema_migrations` | open, migrate |
| Process | `cmd/sentrymesh/` | the main goroutine | start, serve, shut down |
| Providers, metrics, tracing, bench, eval | `provider/`, `metrics/`, `telemetry/`, `cmd/bench`, `cmd/eval` | counters, spans | no decision depends on it |

**How they interact.** The chat handler calls `Write` of the audit repository with the request
context. In async mode that only queues the event; a worker persists batches and retries for ever.
Tool, auth, RAG and abuse events bypass the queue (the embedded repository takes them). Evaluation
inserts an approval row that other requests, possibly of other processes, resolve and execute; the
row's `UPDATE ... WHERE status = ...` is their only synchronisation. The abuse guard wraps the rate
limiter and the handler and reads the status they answered. On a signal the main goroutine stops
the server, closes the audit repository and then the databases.

**Where it is hard, and what makes it right.**

- *Async audit:* writers, `Close` and the worker race on the channel and the RWMutex; batches fail
  after they took effect. No acknowledged event may be lost, overtaken or reported drained too
  early; a refused one may leave no row; duplicates come from failed attempts only.
- *Approvals:* check-then-act handlers interleave, statements fail with unknown outcome, clients
  leave, processes die between claim and finish. The tool runs at most once, after one approval,
  and neither answers nor events may say otherwise.
- *Abuse tracker:* memory is overwritten by the store at each request, requests overlap the cooldown
  they cause, restarts forget the memory. Points and cooldowns must survive all of it.
- *Shutdown:* three deadlines in a row, each of which can pass with work left.
- *Rate limiter and abuse guard:* refusals of the one add points to the other; both round their `Retry-After`. The limiter must keep
  exactly its rate, and a client that waits as told must not be refused again.
- *Start-up:* instances start together on one database, statements fail, a commit's answer is lost, processes crash and are
  restarted. Migrations must run once and in order, and the processes must come up in the end.
- *API keys:* handlers of several processes and the seeding of each start write one table. A revoked key must stay revoked, and
  the event of a creation must not name some other key.
- *Chat:* the scans read the joined prompt and the redaction each message; the audit write can be refused and its error is
  dropped. Answers, events and counters must tell one story, and nothing sensitive may pass.
- *RAG:* five stages, each of which can end the request, and scans that are not monotone: text that is left after filtering can be
  objectionable although the whole was not. Context, trace, trail and answer must agree.

## 2. The models

### AsyncAudit, AuditLedger

`AsyncAudit` has one event per call of `Write`. `write[e]` is the program counter of a call (waiting
in `RLock`, inside, blocked on the full channel, sent, returned), `close[c]` of a call of `Close`,
`worker` of the goroutine `run`. One action is one atomic step of the code: a channel operation, a
lock acquisition or one attempt of `writeBatch`.

- The RWMutex prefers writers: `EnterWrite` is disabled while a `Close` waits (`LockRequested`), and
  `StopWriters` waits for `HoldsReadLock` to be empty. `closed` and `close(a.stop)` are one step since
  both are inside the critical section.
- The nondeterminism of Go's `select` is that of the actions `Receive`, `Tick` and `Stop`.
- An attempt either succeeds (`PersistBatch`) or fails with a residue (`PersistFails`): any prefix of
  the batch when events are written one by one, all or nothing when the batch is a transaction.
- `enqueued` moves one step after the send, as in the code.
- History: `accepted` (the order in which events entered the channel) and `durable` (how many of them have a row).

`AuditLedger` is the promise: events get a place in one order, become durable in it, none is accepted
after the seal, and "drained" is reported when all are durable. `ImplementsLedger` maps `phase` from
`worker` and `closed`.

### ApprovalExecution, ApprovalLifecycle

A step is one database statement, one event insert or one run of the tool, so the model covers
handlers of any number of processes. `row[a]` is the status column, `events` the `tool_events`
table, and `create`, `resolve` and `execute` are the program counters of the three handlers.

- A statement can fail without effect, or its caller can get an error while it still takes effect:
  `lost`, `lostclaim`, `lostfail` and `lostfinish` keep that open, and the `Late...` actions settle it.
- `ctxDone` is the request context. A call made with a context that is done does not reach the
  database; `FailExecution` uses that same context.
- `HandlerDies` leaves the row `EXECUTING`. Nothing in the code looks for such rows.
- The tools of `Unsupported` are those the policy sends to approval but `executor.Execute` has no case for
  (`delete_customer`).
- The event writes drop their errors, as the handlers do. `Get` after a resolution is left out: it
  fills fields of the event only.

`ApprovalLifecycle` is the promise: request, one decision, at most one run after an approval, completion after a run.

### AbuseTracker

One key, because keys share nothing. Each of `RegisterKey`, `Check` and `Add` is one critical section of
`Tracker.mu`; the calls of several requests interleave between them. Time is an integer clock; the zero
`time.Time` is 0. `mem` and `stored` are the tracker's entry and the row. `Load` and `Save` fail,
the process restarts, `degraded` remembers the failures that may cost state. `Tracker.Score` and `Store.Delete`
are called by tests only and are left out.

### GatewayShutdown

Extends `AsyncAudit` by the HTTP server's requests and the main goroutine: `Signal`, `Shutdown` (complete, or timed
out with requests running), the deferred `Close` of the audit writer, the deferred `deps.Close`, exit. The steps of
`AsyncAudit` are reused: writers move only for requests that arrived, `Close` only when main calls it, and
the repository accepts no new attempt once it is closing but waits for the one under way (`attempt`), which is what
`pgxpool.Pool.Close` and `sql.DB.Close` do. `ListenFails` is the `log.Fatal` of a listener error, which runs no deferred call.

### TrafficGuard

Extends `AbuseTracker` by the middleware around it: the token bucket of the key, `Allow`, the 429 of each
of the two refusals with its `Retry-After`, and the points that the handler's answer costs. A tick is a fraction of
a second (`TicksPerSecond`), and a token is `TokenUnits` units of which each tick brings `Refill`, so that the bucket's
fractions and the rounding of `Retry-After` are integers. A step of the guard is a step of the tracker or leaves
it alone. The buckets live in memory, so a restart refills them. History: `admitted` (for each tick, how many requests took a
token from then on) and `hint` (when the last refused client was told to come back).

### Startup, ApiKeys

`ApiKeys` is the table `api_keys` with the handlers that create and revoke keys, one statement a step, each of which may fail
without effect or with it. `Resolves` is the one statement that authentication makes. `Startup` adds the
processes: `RunMigrations` statement by statement (look up, begin, the SQL, the row of `schema_migrations`, commit), the
seeding of the admin key, `log.Fatal` on any error (in production also of the seeding), crashes and the container's restart.
The SQL of a migration runs in the transaction, so what a concurrent transaction may do to it is left open (`Contended`): it may fail, or
wait for the other's row. The path modelled is PostgreSQL's. Development seeds three keys, of which the model has one.

### Scanner

The scanners, shared by the next two. A text is a sequence of lines, and a line is one of the kinds that the patterns
of `scanner/*.go` tell apart: text, a severe or a mild instruction, the two halves of one that spans lines, an encoded one, what announces
an example and what is quoted, personal data (whole or halved), a credential. `Finding`, `Confidence`, `PIIFinding`, `SecretFinding`,
`Redacted` are what the functions return on such texts. Quotations stay within a line.

### ChatPipeline

One handler per request: reject the body; scan and decide (`risk.Evaluate`); ask the provider with each message redacted by itself; the
provider fails, or its answer is scanned and blocked or passed; the audit write; the answer. It extends
`AuditLedger`, the promise that `AsyncAudit` is shown to implement: `Write` accepts, or refuses because the log is sealed or the client left.
The counters of `metrics.go` are variables, since the code moves them at other places than the log.

### RagPipeline, RetrievalPolicy

`RagPipeline` is one request to `/v1/rag/context` or `/v1/rag/chat`: the five stages of `BuildContext`, one action
each, then the event with the trace, and for chat the provider and the scan of its answer. Requests share nothing, so one is enough. The
query itself is not scanned by the handlers, and `RAGInspectHandler` only answers what `Inspect` returns.

`RetrievalPolicy` is the promise: a context is chosen once, from documents the caller may read, in their order, each and all
together clean; the trail shows it or nothing, the model receives it, the answer shows it. It knows nothing of
stages, verdicts or indexes. `ImplementsPolicy` maps `stage` from `pc` and the sets of included documents from the traces.

`MC*` modules give the constants their values for TLC. Definitions marked "Mutant" are
deliberately wrong variants of the definition that follows; nothing uses them. Each property has a
mutant, listed in `PROJECT.json`, that violates it.

## 3. Runs and bounds

| Run | Instance | Distinct states | Result |
| --- | --- | --- | --- |
| `async_safety` | 3 writers, 2 `Close`, queue 1, batch 2, 2 failed attempts, writes one by one | 455,544 | `TypeOK`, `Conservation`, `CloseMeansDrained`, `RefusedLeavesNoTrace`, `RowsInAcceptanceOrder`, `DuplicatesBounded`, `ImplementsLedger` hold |
| `async_liveness` | 2 writers, 2 `Close`, queue 1, batch 2, transactional batches | 56,980 | `AcknowledgedIsStored`, `WriteReturns`, `CloseReturns` hold |
| `async_outage` | 4 writers, 1 `Close`, queue 1, batch 1, store down | | `CancelledWriteReturns` is violated (section 6) |
| `approval_safety` | 1 approval, 2 administrators, 3 execute calls, 2 faults | 181,804 | `TypeOK`, `ClaimantUnique`, `AtMostOnce`, `AnswersAreTrue`, `EvidenceIsTrue`, `ImplementsLifecycle` hold |
| `approval_settles` | 2 approvals, one of an unsupported tool, 1 execute call each, 1 fault | 268,755 | `ExecutionSettles` holds |
| `approval_evidence` | 1 approval, no fault | | `CompletionsAreRecorded` is violated (section 6) |
| `abuse` | 4 requests, threshold 5, points 1 and 3, cooldown and decay 2 ticks, 6 instants, 1 store failure, 1 restart | 69,248 | `TypeOK`, `PointsAreKept`, `CooldownHolds`, `CooldownNotExtended`, `BlockIsJustified` hold |
| `shutdown` | 3 requests, queue 1, batch 1, store that may stay down | 607,245 | `GatewayTypeOK`, `RepositoriesOutliveQueue`, `RefusedOnlyWhenRushed`, `GatewayExits` hold |
| `traffic` | 4 requests, bucket of 2 tokens, 1.5 tokens a second, cooldown and decay 2 seconds, 8 ticks, 1 store failure, 1 restart | 2,031,503 | `RateIsExact`, `RetryAfterIsEnough` hold |
| `startup` | 2 processes, 2 migrations, 1 creation, 2 revocations, 2 names, 1 failed statement, 1 crash | 916,594 | `TypeOK`, `MigrationsAtomic`, `EventsNameTheirKey`, `RevocationIsFinal`, `InstancesServe` hold |
| `chat` | 2 requests, 8 prompts, 3 outputs | 184,804 | `NothingSensitiveLeaves`, `TrailAndMetricsAgree`, `AnsweredAndStored` hold |
| `rag` | up to 3 documents out of 22, 3 callers | 758,708 | `TypeOK`, `RefusalsHaveCause`, `TraceIsSettled`, `ImplementsPolicy` hold |

Why the bounds are enough to be interesting:

- *async:* queue 1 with three writers gives full channels and blocked writers; batch 2 gives full batches, partial ones
  for the ticker and proper prefixes as residue; two failures give a retry of a retry; two callers of `Close` give one that times out
  and one that drains. The outage needs four writers: one event with the worker, one in the channel, one blocked inside
  the lock, one outside it.
- *approval:* three executions give a race of two claims and a later retry after a release; two administrators with two
  verdicts each give the approve/reject race; two faults give a late claim together with a late finish. Approvals are independent, so
  one is enough for safety.
- *abuse:* four requests reach the threshold (3 + 3) and leave two that overlap the cooldown or come after it; six instants let a cooldown
  of two start, end, and start again.
- *shutdown:* three requests are needed for one event with the worker, one queued and one blocked. The store's outage is that it
  never takes the worker's attempt; failed attempts with a residue are the matter of `async_safety`, so `MaxFailures` is 0 here.
- *traffic:* with two tokens and four requests, two pass at once, the third is limited, and the fourth meets either bucket or cooldown. A token takes
  two of the three ticks of a second, so that fractions are kept over a refusal and every rounding of `Retry-After` (up, down) happens;
  the cooldown fits in the eight ticks with the instant after its hint. The restart shows the bucket refilled, and the store failure that a `Retry-After` holds
  also when the row of a cooldown is lost or cannot be read.
- *startup:* two processes are the smallest number that can meet at a migration, a row or the seed key, two migrations give one
  process ahead of the other. The seed key and the second process that seeds it are the creations the one creation races with; a crash
  and a failed statement together give a lost commit followed by a restart. Two revocations give both overlap on one key and one on each.
- *chat:* one prompt for each action and each way of reaching it, several only across messages (halves of a number, halves
  of an instruction, a marker in one and a quotation in the next); a second request is what the shared counters and the log need.
- *rag:* three documents are needed for a finding that two make while a third is what removal leaves or breaks (an announcement
  that is blocked, halves that filtering joins). Contents and access rules are those that change a verdict.

Runs with symmetry check no liveness. `CHECK_DEADLOCK FALSE` is set where behaviours end: every call was made, the clock
is at its last instant, the process exited.

## 4. Fairness

- `AsyncAudit!CodeFairness`: goroutines that can run do. No fairness on `CallWrite`, `CallClose`, `RequestContextDone`,
  `CloseDeadline` or `PersistFails`: nobody must call, leave or fail. Weak fairness of `Send` is what Go's channels give: a
  blocked sender is queued first in, first out. `FairSpec` adds that an attempt eventually succeeds (the store recovers), `OutageSpec` does not.
- `ApprovalExecution!FairSpec`: a handler past its first read takes its next step (database calls return, with an error if need be).
- `GatewayShutdown!GatewayFairness`: goroutines run and the deadlines of `Shutdown` and `Close` pass. Nothing about the store or the clients.
- `Startup!Spec`: a process that is not down takes its next statement, and one that is down is started again (`docker-compose.yml:63`,
  `restart: unless-stopped`). Weak fairness per process; that faults and crashes are bounded says that the database is up for long enough. No fairness
  on the handlers: nobody must call, and a call may be abandoned.
- `ChatPipeline!Fairness`: handlers run, a provider answers or its call fails (`api/provider_timeout.go:10` gives it 20 seconds), and the log persists
  what it accepted, which is `AcknowledgedIsStored` of `AsyncAudit`. No fairness on clients that leave or on the seal.
- `AbuseTracker`, `TrafficGuard` and `RagPipeline` have safety properties only.

## 5. Proofs

The eight `*Proofs` modules are checked by TLAPS to the last leaf. Every invariant, every action property and every refinement that the
passing runs check is a theorem; the liveness properties are not. The proofs assume only the named assumptions on the constants: sizes
positive, bounds natural, special values outside the sets they are not in, and for `Startup` finitely many creations. The sets of events, callers, approvals,
requests, documents, processes and revocations are arbitrary, infinite ones included, and texts, messages and requests have any length. One theorem has a hypothesis of its own
(`RetryAfterSuffices`).

**Async audit.** The inductive invariant `AuditInv` joins four parts: types with the room left in the batch in each worker state;
`LockProtocol` (a caller past `StopWriters` implies `closed`, and `closed` excludes readers past the check) with `WorkerProtocol` (the worker
drains only when `closed`, and in its last states the channel is empty); `Conservation`
with `AcceptedOnce` (an event enters the channel once, and only the states from "sent" on have entered); and
`RowsArePrefix` (the rows are exactly the first `durable` accepted events, `flushed <= durable <= flushed + Len(batch)`) with `CounterLag`
(`enqueued` lags `accepted` by the writers in "sent"). None of the safety properties is inductive alone: the drain's "empty" is final only by the
lock protocol, and a retry keeps the row order only because the batch is what follows `flushed`. Theorems: `TypeCorrect`,
`AuditInvariant`, `EventsConserved`, `RowsOrdered`, `RefusedLeaveNoTrace`, `CloseDrains`, and `LedgerRefinement` (every step is
a ledger step or a stutter). `DuplicatesAreBounded` needs more, because the bound depends on where the event is: one
that is not settled has at most `failures` rows, a settled one at most one more (`DuplicatesCaused`).

**Approvals.** The inductive invariant relates the row to the program counters: `EXECUTING` iff exactly one call is a `Claimant`,
`EXECUTED` only if a call performed, performed only by calls in the states after `Execute`, a resolution answered 200 only
with its verdict in the row, each event only with what it reports. The heart is that `performed` implies that the row never returns to `APPROVED`:
only a call in "errored" releases, and that call is the claimant and did not run. Theorems: `TypeCorrect`,
`ApprovalInvariant`, `ClaimsExclusive`, `ToolRunsOnce`, `AnswersHold`, `EvidenceHolds`, `LifecycleRefinement`.

**Abuse tracker.** The properties are not inductive because they compare history (`promised`, `added`) with the row, while `Check` and `Add` work
on memory. `TrackerInv` bridges them: states in memory and in the row are no newer than the clock and promise no cooldown that was not promised, always; and as long as
no needed `Load` or `Save` failed, a request past `RegisterKey` finds in memory what is stored, the row knows the running cooldown, and
`DecayEvery` times the points that decayed fit in the time up to the row's `lastUpdated` (a decay takes whole intervals and moves
`lastUpdated` by as much). Theorems: `TrackerInvariant`, `TypeCorrect`, `PointsKept`, `CooldownsHold`, `CooldownsNotExtended`, `BlocksJustified`;
`GuardedTracker` shows `GuardSpec => Spec`, so that each holds inside the middleware too (`GuardedCooldownsHold`).

**Rate limiter.** `GuardInv` keeps an account of the tokens: since every tick, those taken and those the bucket would have now are at most those
granted, and since some tick exactly as many (the last at which the bucket was full). The first half bounds what passes, the second
shows that a refusal was due; together they are `RateKept`. `RetryAfterSuffices` rests on `HintInv`: at the instant the last refused client
was told, every cooldown that memory or row knows of is over and the bucket has a token, and the row is never ahead of memory. The rounding
enters through `SecondsReach` (whole seconds miss at most half of one). Its hypothesis is that a second brings at least one token, `TokenUnits <= TicksPerSecond * Refill`: a client
refused for abuse is told of the cooldown only, so with a slower refill it could come back to a bucket still empty. The gateway refills five
tokens a second (`cmd/sentrymesh/main.go:168`).

**Shutdown.** `GatewayRunsAudit` shows that the process takes only steps of `AsyncAudit`, which brings every theorem about the
writer along. What the order of the deferred calls adds is `GatewayInv`: the writer is closed only by the draining main goroutine, and then either `Shutdown`
gave up or every request is answered; the repositories are told to close when `Close` has returned. `QueueOutlived` joins it with `CloseDrains`;
`OrderlyShutdownRefusesNothing` follows from it.

**Migrations.** `MigrationInv`: at most one open transaction holds the row of a migration, and that row is not in the table yet (the primary
key); each process has everything before the migration it is at; recorded versions have no gaps; what ran is what is
recorded. `MigrationsAreAtomic` for any number of processes and migrations.

**Keys.** `KeyInv`: a raw key has one row (the unique hash; a creation inserts its own key once, the seeding only a missing one), and a
successful revocation revoked its row and no other did. With the lemma that no step takes a row away or clears
`revoked_at`, `RevokedForGood` follows for any interleaving of handlers, crashes and starts. `EventsAttributed` adds to it that a creation past
its insert has a row, and that what its look-up found, and then its event, is a row of its name and not an older one (`EventInvariant`). `StartupTyped` is the type
invariant; the bound on the ids holds because rows have different raw keys, of which there are finitely many.

**Scanner.** `ScannerProofs` has what the next two need of texts of any length. `KeptIn` and `FlattenSeq` are recursive functions; what they return is
proved from the least element of a set of naturals (`SetInduction`). A filter picks an increasing enumeration of places, so neighbours that are both
kept stay neighbours; joined texts have each text as a piece and nothing else; and texts that differ only in lines that tell the injection scanner nothing
(personal data, what replaces it, plain text) have the same findings, which is why redaction neither hides nor makes one.

**Chat.** `ChatInv` says for each place in the handler what is decided, given to the provider and logged there, that an event is the decision, that a
lost write has its cause, and that the counter is the number of the refused. `TrailAgrees` splits the refused into those with a row, those lost and
those to come. `HandlersUseTheLedger`: the composition takes only steps of `AuditLedger`. `NothingLeaks` rests on a
second invariant, of where each text that left came from (`Sent`): what the provider has is the redacted messages of a prompt that was not
refused, so by the lemmas on redacted and joined texts it scores what the prompt scored.

**RAG.** A request is fixed once it arrived, so the first part of `RagProofs` says what each stage computes as a function of documents and caller (`ReadableOf`,
`OwnOf`, `ChosenOf`), and `RagInv` what the variables hold after each stage in these terms; `Outcome` lists the three ways a pipeline can end (refused as retrieved, refused as
filtered, built). `RagTypeCorrect`, `TraceSettled` and `RefusalsCaused` are read off it; the last needs that documents which are blocked leave nothing,
so that the text of the last scan is that of all readable documents as inspected (`FlattenKept`). `PolicyImplemented` is the refinement: `Admit` chooses an
admissible context, which is where the order of the indexes and the cleanness of each filtered document and of their join are used; a pipeline that is refused
chooses the empty one; the handlers' steps are the policy's; everything else is a stutter. That each filtered document is clean needs the
filter and the last scan together: line by line, `removeSuspiciousLines` can leave two halves side by side, and the last scan, which sees the halves
of any one document too, finds them (`ChosenClean`).

**Model-checked only.** The liveness properties `AcknowledgedIsStored`, `WriteReturns`, `CloseReturns`, `ExecutionSettles`, `GatewayExits`,
`InstancesServe` and `AnsweredAndStored`: fairness and `ENABLED` are out of the prover's reach. The two properties that are violated are refuted by their runs.

## 6. What the models say about the code

What holds: an acknowledged event is in the table or on its way as long as the process runs; a refused or cancelled one never appears;
rows keep acceptance order; duplicates need failed attempts; `Close` returning nil means everything is stored. A tool runs at
most once per approval over all retries, late statements and crashes; answers and events are true. Cooldowns and points survive overlapping
requests and restarts, and the limiter keeps its rate exactly. An orderly shutdown refuses no audit write. Migrations run once and in order however many
processes start. A revoked key stays revoked. Every context is readable and clean, and the trace, the trail and the answer show that context.

Where documents and code differ:

1. *A cancelled `Write` may not return* (`async_outage`). `Write` takes `a.mu.RLock()` (`audit/async.go:111`) before it looks at its context. While a
   `Close` waits for the write lock on a writer blocked by a full channel, and the store is down, later writers stay in `RLock`
   whatever their context says. README.md:576 lists "context-aware enqueue cancellation".
2. *A completed execution may leave no event* (`approval_evidence`). The success event is written with the request context and its error is dropped
   (`api/execute.go:293`), so a client that leaves after `FinishExecution` leaves an `EXECUTED` row without `TOOL_EXECUTION_SUCCEEDED`, with no fault of
   the database. README.md:497: "Audit records capture information needed to reconstruct security decisions and investigate behavior after execution."

Worth knowing, though no document denies it:

- A claim can be stranded in `EXECUTING` for ever: the client leaves after the claim (the release uses its context), a database call fails with a late effect, or
  the process dies. `ExecutionSettles` lists these ways; there is no recovery.
- Approved `delete_customer` calls can never execute: each attempt fails and gives the approval back.
- The ten seconds given to the deferred `Close` do not cover its wait for the lock. `GatewayExits` states the one way the process stays: a
  connected client's `Write` blocked on the full queue during an outage.
- A listener error ends in `log.Fatal`, which skips the drain; a `Close` that times out gives up the rest of the queue.
- A chat request whose provider fails, or whose answer is blocked for a secret, ends before the audit write (`api/chat.go:453`): these are the
  decided requests without an event, and the block counter omits the latter. `REVIEW` goes on like `ALLOW`; it redacts the answer and the
  messages like every allowed request and is not counted as a redaction.
- A number split over two messages is found and scored, and sent on as it is, because messages are redacted one by one. `NothingSensitiveLeaves` states
  exactly what is guaranteed: no credential, no severe instruction, no personal datum within one message, and never a mild instruction together with personal data.
- Two processes that start together can make each other fail; each restart finds more done, so `InstancesServe` holds. Its exception: a production
  process whose configured admin key was revoked never comes up again, because the key does not resolve and cannot be created
  (`cmd/sentrymesh/seed.go:171`). A failed look-up of an existing key is fatal once for the same reason.
- The id in the event of a creation is found by name, so it is that of a later key of the same name when two creations overlap (`api/keys.go:112`);
  `EventsNameTheirKey` states how far it can be off. A revocation of which the answer is an error may have happened, without an event.
- `Retry-After` is rounded to the nearest second, so a client refused for abuse can be told to come back up to half a second before the end of the
  cooldown. A limited request costs a point, so a client that waits as told and is limited often can still be blocked.
- A restart refills the buckets of the limiter; the rate is one of a single process between two starts.
- One objectionable trusted document is filtered when it is alone and blocks all readable ones when it is not (stage 2 reads the raw documents together).
- After a failed `Save` the next request takes the older row back (`abuse/tracker.go:74`); the properties of `AbuseTracker` that need it say `~degraded`.

## 7. What is not modelled, and why

- *Providers* are HTTP clients without state of their own; the pipelines let them answer anything or fail.
- *Tracing and the request histogram* decide nothing. That a scrape reads the histogram's total and its buckets at different instants
  (`metrics/metrics.go:81`) is left out with it.
- *`cmd/bench`, `cmd/eval`* are clients that measure; nothing of the gateway depends on them.
- *Scopes, request ids, body limits, CORS* look at one request and keep nothing.
- *The regular expressions* of the scanners are data. `Scanner` keeps which kinds of text they tell apart and what scans of joined text see
  that scans of parts do not.
- *Queries, listings and statistics* only read. `auth.Store.Revoke` by raw key, `Tracker.Score` and `abuse.Store.Delete` are called by tests only.
- *SQL* is modelled by the effect of each statement, under the isolation the code gets from single statements and from the migration transaction.
- *SQLite* differs from PostgreSQL in the batch that is not a transaction, which `async_safety` has, and runs in one process; its schema is created by
  `IF NOT EXISTS` statements, which `Startup` leaves out.
- *Two processes on one `abuse_state`* overwrite each other's score (`abuse/tracker.go:142`); README.md:1277 names distributed
  deployments a limitation.
- *The synchronous audit mode* is a single insert by the handler; the async mode is the one with behaviour.

## 8. Plan

Done, in this order: `AsyncAudit` with `AuditLedger` and proofs; `ApprovalExecution` with `ApprovalLifecycle` and proofs; `AbuseTracker`;
`GatewayShutdown`; `RagPipeline` with `RetrievalPolicy`; `ChatPipeline` on `AuditLedger`; `ApiKeys` and `Startup`; `TrafficGuard`; the proofs of
`StartupProofs`, `AbuseProofs`, `GatewayProofs`, `ChatProofs`; then `ScannerProofs` and `RagProofs`, and the theorems on the rate limiter, the
duplicates and the types of `Startup`.

Worth doing next:

1. Safety lemmas under the liveness properties: for each stage of `Write`, `Close` and the drain, that it leads only to the next one or to an error, so that
   only the fairness argument itself is left to the runs.
2. Two gateway processes on one `abuse_state`: which of the tracker's promises survive, and which hold for a single process only.
3. The policy table of `tools/policy.go` and the scopes of `middleware/` against reference definitions.
