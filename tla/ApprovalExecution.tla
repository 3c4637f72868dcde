-------------------------- MODULE ApprovalExecution --------------------------
(***************************************************************************)
(* The human-approval workflow for tool calls: ToolEvaluationHandler       *)
(* creates an approval row (api/tools.go), the approve and reject handlers *)
(* resolve it (api/approvals.go), and ExecuteApprovalHandler claims it,    *)
(* runs the tool and finishes it (api/execute.go).  The handlers share     *)
(* nothing but the rows of the approvals table and the tool_events trail,  *)
(* so a step is one database statement or one run of the tool, and         *)
(* handlers of any number of gateway processes interleave between them.    *)
(*                                                                         *)
(* A database call can fail: the connection is lost, or the request        *)
(* context ends while the statement is in flight.  The caller gets an      *)
(* error and does not know whether the statement will still take effect;   *)
(* the "lost" states below keep that open and the Late actions settle it.  *)
(***************************************************************************)
EXTENDS Naturals, FiniteSets

CONSTANTS
    Approvals,    \* evaluations that need approval; each inserts one row
    Admins,       \* administrators who approve or reject, once per verdict
    Attempts,     \* execute calls per approval
    Unsupported,  \* approvals whose tool has no case in executor.Execute: the
                  \* policy asks approval for delete_customer, which has none
    MaxFaults     \* bound: failed database calls and dead handlers

Verdicts    == {"APPROVED", "REJECTED"}
Resolutions == [id : Approvals, admin : Admins, verdict : Verdicts]
Executions  == [id : Approvals, attempt : Attempts]

ASSUME ApprovalAssumption ==
    /\ Unsupported \subseteq Approvals
    /\ MaxFaults \in Nat

VARIABLES
    row,       \* [Approvals -> RowState]: the approvals table; executed_at is
               \* set by the statement that writes EXECUTED and by no other
    events,    \* rows of tool_events: the type and the call that wrote it
    create,    \* [Approvals -> CreateState]: ToolEvaluationHandler
    resolve,   \* [Resolutions -> ResolveState]: resolveApproval
    execute,   \* [Executions -> ExecuteState]: ExecuteApprovalHandler
    ctxDone,   \* executions whose client left: the request context is done
    performed, \* executions for which executor.Execute ran the tool
    faults     \* faults so far

vars == <<row, events, create, resolve, execute, ctxDone, performed, faults>>

RowState == {"none", "PENDING", "APPROVED", "REJECTED", "EXECUTING", "EXECUTED"}

CreateState ==
    {"idle",
     "created",    \* the row is in, the event is not written yet
     "accepted",   \* answered 202 with the approval id
     "lost",       \* answered 500; the INSERT may still take effect
     "failed"}     \* answered 500 and the INSERT took effect

ResolveState ==
    {"idle",
     "resolved",   \* the UPDATE changed the row, the event is not written yet
     "answered",   \* answered 200
     "lost",       \* answered 404; the UPDATE may still take effect
     "refused"}    \* answered 404, no statement is open

ExecuteState ==
    {"idle",
     "checked",    \* Get returned APPROVED
     "claimed",    \* ClaimExecution changed the row
     "started",    \* past the TOOL_EXECUTION_STARTED event
     "ran",        \* executor.Execute returned a result
     "errored",    \* executor.Execute returned an error
     "finished",   \* FinishExecution changed the row
     "succeeded",  \* answered 200
     "refused",    \* answered 404 or 409 and holds nothing
     "failed",     \* answered 500 and the row is APPROVED again
     "lostclaim",  \* answered 409; the claim may still take effect
     "lostfail",   \* answered 500; FailExecution may still take effect
     "lostfinish", \* answered 500; FinishExecution may still take effect
     "settled",    \* answered 500 and then FinishExecution took effect
     "stranded"}   \* gone, or answered with an error, and the row stays EXECUTING

ToolEvents ==
    [type : {"TOOL_APPROVAL_REQUESTED"}, call : Approvals]
      \cup [type : {"TOOL_APPROVED", "TOOL_REJECTED"}, call : Resolutions]
      \cup [type : {"TOOL_EXECUTION_STARTED", "TOOL_EXECUTION_SUCCEEDED"}, call : Executions]
Event(type, call) == [type |-> type, call |-> call]
\* Mutant: the status is written where the event type belongs.
StatusAsEventType(c) == Event(c.verdict, c)

ResolutionEvent(c) ==
    Event(IF c.verdict = "REJECTED" THEN "TOOL_REJECTED" ELSE "TOOL_APPROVED", c)

\* The row is EXECUTING on behalf of this call, whether it still runs or not.
Claimant(x) ==
    execute[x] \in {"claimed", "started", "ran", "errored",
                    "lostfail", "lostfinish", "stranded"}

Fault == faults < MaxFaults /\ faults' = faults + 1

\* WriteToolEvent: every caller drops its error.
WriteToolEvent(event) ==
    \/ events' = events \cup {event} /\ UNCHANGED faults
    \/ Fault /\ UNCHANGED events

Init ==
    /\ row = [a \in Approvals |-> "none"]
    /\ events = {}
    /\ create = [a \in Approvals |-> "idle"]
    /\ resolve = [c \in Resolutions |-> "idle"]
    /\ execute = [x \in Executions |-> "idle"]
    /\ ctxDone = {}
    /\ performed = {}
    /\ faults = 0

-----------------------------------------------------------------------------
(* The statements of approval.Store: UPDATE ... WHERE status = ... *)

Insert(a) == row' = [row EXCEPT ![a] = "PENDING"]

UpdateWhere(a, from, to) ==
    row' = IF row[a] = from THEN [row EXCEPT ![a] = to] ELSE row

-----------------------------------------------------------------------------
(* ToolEvaluationHandler, for a call whose decision is REQUIRE_APPROVAL *)

CreateApproval(a) ==
    /\ create[a] = "idle"
    /\ Insert(a)
    /\ create' = [create EXCEPT ![a] = "created"]
    /\ UNCHANGED <<events, resolve, execute, ctxDone, performed, faults>>

CreateFails(a) ==
    /\ create[a] = "idle"
    /\ Fault
    /\ create' = [create EXCEPT ![a] = "lost"]
    /\ UNCHANGED <<row, events, resolve, execute, ctxDone, performed>>

LateCreate(a) ==
    /\ create[a] = "lost"
    /\ Insert(a)
    /\ create' = [create EXCEPT ![a] = "failed"]
    /\ UNCHANGED <<events, resolve, execute, ctxDone, performed, faults>>

RecordRequested(a) ==
    /\ create[a] = "created"
    /\ WriteToolEvent(Event("TOOL_APPROVAL_REQUESTED", a))
    /\ create' = [create EXCEPT ![a] = "accepted"]
    /\ UNCHANGED <<row, resolve, execute, ctxDone, performed>>

-----------------------------------------------------------------------------
(* resolveApproval *)

\* Mutant: without "AND status = PENDING".
SetStatusOfAnyRow(c) ==
    /\ resolve[c] = "idle"
    /\ row[c.id] # "none"
    /\ row' = [row EXCEPT ![c.id] = c.verdict]
    /\ resolve' = [resolve EXCEPT ![c] = "resolved"]
    /\ UNCHANGED <<events, create, execute, ctxDone, performed, faults>>

\* Mutant: without the check that a row was affected.
SetStatusUnchecked(c) ==
    /\ resolve[c] = "idle"
    /\ UpdateWhere(c.id, "PENDING", c.verdict)
    /\ resolve' = [resolve EXCEPT ![c] = "resolved"]
    /\ UNCHANGED <<events, create, execute, ctxDone, performed, faults>>

\* SetStatus matches PENDING rows only; no affected row is an error.
SetStatus(c) ==
    /\ resolve[c] = "idle"
    /\ UpdateWhere(c.id, "PENDING", c.verdict)
    /\ resolve' = [resolve EXCEPT
                     ![c] = IF row[c.id] = "PENDING" THEN "resolved" ELSE "refused"]
    /\ UNCHANGED <<events, create, execute, ctxDone, performed, faults>>

SetStatusFails(c) ==
    /\ resolve[c] = "idle"
    /\ Fault
    /\ resolve' = [resolve EXCEPT ![c] = "lost"]
    /\ UNCHANGED <<row, events, create, execute, ctxDone, performed>>

LateSetStatus(c) ==
    /\ resolve[c] = "lost"
    /\ UpdateWhere(c.id, "PENDING", c.verdict)
    /\ resolve' = [resolve EXCEPT ![c] = "refused"]
    /\ UNCHANGED <<events, create, execute, ctxDone, performed, faults>>

RecordResolution(c) ==
    /\ resolve[c] = "resolved"
    /\ WriteToolEvent(ResolutionEvent(c))
    /\ resolve' = [resolve EXCEPT ![c] = "answered"]
    /\ UNCHANGED <<row, create, execute, ctxDone, performed>>

-----------------------------------------------------------------------------
(* ExecuteApprovalHandler *)

Goto(x, state) == execute' = [execute EXCEPT ![x] = state]

\* Get, and the checks on the status it read.
GetApproval(x) ==
    /\ execute[x] = "idle"
    /\ Goto(x, IF row[x.id] = "APPROVED" THEN "checked" ELSE "refused")
    /\ UNCHANGED <<row, events, create, resolve, ctxDone, performed, faults>>

GetFails(x) ==
    /\ execute[x] = "idle"
    /\ Fault
    /\ Goto(x, "refused")
    /\ UNCHANGED <<row, events, create, resolve, ctxDone, performed>>

\* Mutant: without the check that the claim changed a row.
ClaimUnchecked(x) ==
    /\ execute[x] = "checked"
    /\ x \notin ctxDone
    /\ UpdateWhere(x.id, "APPROVED", "EXECUTING")
    /\ Goto(x, "claimed")
    /\ UNCHANGED <<events, create, resolve, ctxDone, performed, faults>>

\* The status checked above may be stale: the claim matches APPROVED again.
ClaimExecution(x) ==
    /\ execute[x] = "checked"
    /\ x \notin ctxDone
    /\ UpdateWhere(x.id, "APPROVED", "EXECUTING")
    /\ Goto(x, IF row[x.id] = "APPROVED" THEN "claimed" ELSE "refused")
    /\ UNCHANGED <<events, create, resolve, ctxDone, performed, faults>>

\* A context that is done before the call keeps the statement from the
\* database; one that ends during the call, or an outage, does not.
ClaimFails(x) ==
    /\ execute[x] = "checked"
    /\ \/ x \in ctxDone /\ Goto(x, "refused") /\ UNCHANGED faults
       \/ x \notin ctxDone /\ Fault /\ Goto(x, "lostclaim")
    /\ UNCHANGED <<row, events, create, resolve, ctxDone, performed>>

\* Nobody is left who would run or release what this claims.
LateClaim(x) ==
    /\ execute[x] = "lostclaim"
    /\ UpdateWhere(x.id, "APPROVED", "EXECUTING")
    /\ Goto(x, IF row[x.id] = "APPROVED" THEN "stranded" ELSE "refused")
    /\ UNCHANGED <<events, create, resolve, ctxDone, performed, faults>>

RecordStarted(x) ==
    /\ execute[x] = "claimed"
    /\ IF x \in ctxDone
         THEN UNCHANGED <<events, faults>>
         ELSE WriteToolEvent(Event("TOOL_EXECUTION_STARTED", x))
    /\ Goto(x, "started")
    /\ UNCHANGED <<row, create, resolve, ctxDone, performed>>

\* executor.Execute looks at the context first and then for the tool, and
\* returns an error only when it did nothing.
Execute(x) ==
    /\ execute[x] = "started"
    /\ IF x \in ctxDone \/ x.id \in Unsupported
         THEN Goto(x, "errored") /\ UNCHANGED performed
         ELSE Goto(x, "ran") /\ performed' = performed \cup {x}
    /\ UNCHANGED <<row, events, create, resolve, ctxDone, faults>>

\* Mutant: the row is not released.
FailWithoutRelease(x) ==
    /\ execute[x] = "errored"
    /\ x \notin ctxDone
    /\ Goto(x, "failed")
    /\ UNCHANGED <<row, events, create, resolve, ctxDone, performed, faults>>

FailExecution(x) ==
    /\ execute[x] = "errored"
    /\ x \notin ctxDone
    /\ UpdateWhere(x.id, "EXECUTING", "APPROVED")
    /\ Goto(x, "failed")
    /\ UNCHANGED <<events, create, resolve, ctxDone, performed, faults>>

\* The error is dropped.  The context is the one that failed the execution,
\* so a client that leaves fails the execution and the release together.
FailExecutionFails(x) ==
    /\ execute[x] = "errored"
    /\ \/ x \in ctxDone /\ Goto(x, "stranded") /\ UNCHANGED faults
       \/ x \notin ctxDone /\ Fault /\ Goto(x, "lostfail")
    /\ UNCHANGED <<row, events, create, resolve, ctxDone, performed>>

LateFail(x) ==
    /\ execute[x] = "lostfail"
    /\ UpdateWhere(x.id, "EXECUTING", "APPROVED")
    /\ Goto(x, "failed")
    /\ UNCHANGED <<events, create, resolve, ctxDone, performed, faults>>

\* When no row matches, the SQLite store returns nil and the PostgreSQL store
\* an error; ClaimantUnique shows that the row always matches.
FinishExecution(x) ==
    /\ execute[x] = "ran"
    /\ x \notin ctxDone
    /\ UpdateWhere(x.id, "EXECUTING", "EXECUTED")
    /\ Goto(x, "finished")
    /\ UNCHANGED <<events, create, resolve, ctxDone, performed, faults>>

\* Mutant: an execution that cannot be finished is released for a retry.
FinishFailureReleases(x) ==
    /\ execute[x] = "ran"
    /\ x \notin ctxDone
    /\ Fault
    /\ UpdateWhere(x.id, "EXECUTING", "APPROVED")
    /\ Goto(x, "failed")
    /\ UNCHANGED <<events, create, resolve, ctxDone, performed>>

\* Mutant: the error of FinishExecution is dropped.
FinishErrorDropped(x) ==
    /\ execute[x] = "ran"
    /\ x \notin ctxDone
    /\ Fault
    /\ Goto(x, "finished")
    /\ UNCHANGED <<row, events, create, resolve, ctxDone, performed>>

FinishFails(x) ==
    /\ execute[x] = "ran"
    /\ \/ x \in ctxDone /\ Goto(x, "stranded") /\ UNCHANGED faults
       \/ x \notin ctxDone /\ Fault /\ Goto(x, "lostfinish")
    /\ UNCHANGED <<row, events, create, resolve, ctxDone, performed>>

LateFinish(x) ==
    /\ execute[x] = "lostfinish"
    /\ UpdateWhere(x.id, "EXECUTING", "EXECUTED")
    /\ Goto(x, "settled")
    /\ UNCHANGED <<events, create, resolve, ctxDone, performed, faults>>

RecordSucceeded(x) ==
    /\ execute[x] = "finished"
    /\ IF x \in ctxDone
         THEN UNCHANGED <<events, faults>>
         ELSE WriteToolEvent(Event("TOOL_EXECUTION_SUCCEEDED", x))
    /\ Goto(x, "succeeded")
    /\ UNCHANGED <<row, create, resolve, ctxDone, performed>>

\* The client disconnects between two steps of the handler.
ClientLeaves(x) ==
    /\ execute[x] \in {"checked", "claimed", "started", "ran", "finished"}
    /\ x \notin ctxDone
    /\ ctxDone' = ctxDone \cup {x}
    /\ UNCHANGED <<row, events, create, resolve, execute, performed, faults>>

\* The gateway process stops while it holds the claim; nothing in the code
\* looks for EXECUTING rows when it starts again.
HandlerDies(x) ==
    /\ execute[x] \in {"claimed", "started", "ran", "errored"}
    /\ Fault
    /\ Goto(x, "stranded")
    /\ UNCHANGED <<row, events, create, resolve, ctxDone, performed>>

-----------------------------------------------------------------------------
ExecuteStep(x) ==
    \/ GetApproval(x) \/ GetFails(x)
    \/ ClaimExecution(x) \/ ClaimFails(x)
    \/ RecordStarted(x)
    \/ Execute(x)
    \/ FailExecution(x) \/ FailExecutionFails(x)
    \/ FinishExecution(x) \/ FinishFails(x)
    \/ RecordSucceeded(x)

Next ==
    \/ \E a \in Approvals :
          CreateApproval(a) \/ CreateFails(a) \/ LateCreate(a) \/ RecordRequested(a)
    \/ \E c \in Resolutions :
          SetStatus(c) \/ SetStatusFails(c) \/ LateSetStatus(c) \/ RecordResolution(c)
    \/ \E x \in Executions :
          \/ ExecuteStep(x)
          \/ LateClaim(x) \/ LateFail(x) \/ LateFinish(x)
          \/ ClientLeaves(x) \/ HandlerDies(x)

Spec == Init /\ [][Next]_vars

\* A handler that got past its checks is a running goroutine, and every
\* database call returns.  Nothing makes a call arrive, a client leave or a
\* lost statement take effect.
FairSpec ==
    Spec /\ \A x \in Executions : WF_vars(execute[x] # "idle" /\ ExecuteStep(x))

-----------------------------------------------------------------------------
(* Properties *)

\* Every variable has its type; the trail holds only the documented events.
TypeOK ==
    /\ row \in [Approvals -> RowState]
    /\ events \subseteq ToolEvents
    /\ create \in [Approvals -> CreateState]
    /\ resolve \in [Resolutions -> ResolveState]
    /\ execute \in [Executions -> ExecuteState]
    /\ ctxDone \subseteq Executions
    /\ performed \subseteq Executions
    /\ faults \in 0 .. MaxFaults

\* A row is EXECUTING exactly when one call holds its claim, counting the
\* calls that ended without giving it back: two handlers that both read
\* APPROVED never both hold it, and FinishExecution and FailExecution always
\* find the row their claim left.
ClaimantUnique ==
    /\ \A a \in Approvals :
          row[a] = "EXECUTING" <=> \E x \in Executions : x.id = a /\ Claimant(x)
    /\ \A x, y \in Executions : x.id = y.id /\ Claimant(x) /\ Claimant(y) => x = y

\* The tool runs at most once for an approval, whatever is retried, lost or
\* interrupted.
AtMostOnce == \A x, y \in performed : x.id = y.id => x = y

\* What a call was answered is so: 200 from execute means that this call ran
\* the tool and the row says so; an error that leaves the claim free means
\* that this call ran nothing; 200 from approve or reject means that the
\* verdict stands; and only an approval that was performed is EXECUTED.
AnswersAreTrue ==
    /\ \A x \in Executions :
          /\ execute[x] \in {"finished", "succeeded", "settled"}
                => x \in performed /\ row[x.id] = "EXECUTED"
          /\ execute[x] \in {"refused", "lostclaim", "failed"} => x \notin performed
    /\ \A c \in Resolutions :
          resolve[c] \in {"resolved", "answered"} =>
             IF c.verdict = "REJECTED"
               THEN row[c.id] = "REJECTED"
               ELSE row[c.id] \in {"APPROVED", "EXECUTING", "EXECUTED"}
    /\ \A a \in Approvals :
          row[a] = "EXECUTED" => \E x \in performed : x.id = a

\* No event of the trail says what did not happen: a success is of a call
\* that ran the tool, a start is of an approval that was approved, and a
\* rejection is never followed by a start of the same approval.
EvidenceIsTrue ==
    \A e \in events :
       /\ e.type = "TOOL_EXECUTION_SUCCEEDED"
             => e.call \in performed /\ row[e.call.id] = "EXECUTED"
       /\ e.type \in {"TOOL_EXECUTION_STARTED", "TOOL_APPROVED"}
             => row[e.call.id] \in {"APPROVED", "EXECUTING", "EXECUTED"}
       /\ e.type = "TOOL_REJECTED" => row[e.call.id] = "REJECTED"

\* The rows and the runs of the tool implement the promised workflow.
Lifecycle == INSTANCE ApprovalLifecycle WITH
    decision  <- [a \in Approvals |->
                    IF row[a] \in {"EXECUTING", "EXECUTED"} THEN "APPROVED" ELSE row[a]],
    completed <- {a \in Approvals : row[a] = "EXECUTED"}

\* One decision per request, no run without approval or after another run,
\* and EXECUTED only after a run.
ImplementsLifecycle == Lifecycle!LifecycleSpec

\* A claimed approval becomes EXECUTED or is released, unless the client
\* left or the claim was stranded by a failed call or a dead process.
ExecutionSettles ==
    \A x \in Executions :
       execute[x] = "claimed" ~>
          \/ row[x.id] # "EXECUTING"
          \/ x \in ctxDone
          \/ execute[x] \in {"lostfail", "lostfinish", "stranded"}

\* The trail records the completion of every execution that was answered
\* 200 (README: audit records capture what is needed to reconstruct security
\* decisions, tool execution state among it).
CompletionsAreRecorded ==
    \A x \in Executions :
       execute[x] = "succeeded" => Event("TOOL_EXECUTION_SUCCEEDED", x) \in events
==============================================================================
