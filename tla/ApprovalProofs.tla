--------------------------- MODULE ApprovalProofs ----------------------------
(***************************************************************************)
(* The safety of ApprovalExecution, for any sets of approvals, admins and  *)
(* attempts.  ClaimantUnique is the heart of the inductive invariant: the  *)
(* compare-and-set of ClaimExecution gives a row to one call, and nothing  *)
(* but that call's own statements takes it out of EXECUTING again.         *)
(* PerformedHeld ties the runs of the tool to the claim: a call that ran   *)
(* the tool holds the row or has brought it to EXECUTED, so no other call  *)
(* can claim it afterwards.                                                *)
(***************************************************************************)
EXTENDS ApprovalExecution, TLAPS

\* A call that ran the tool still holds its claim, or the row is EXECUTED.
PerformedHeld ==
    /\ \A x \in performed :
          /\ execute[x] \in {"ran", "finished", "succeeded", "lostfinish",
                             "settled", "stranded"}
          /\ row[x.id] = "EXECUTED" \/ Claimant(x)
    /\ \A x \in Executions :
          execute[x] \in {"ran", "finished", "succeeded", "lostfinish", "settled"}
             => x \in performed

\* A row exists from the step in which the INSERT takes effect.
RowCreated ==
    \A a \in Approvals : row[a] = "none" <=> create[a] \in {"idle", "lost"}

Inv ==
    /\ TypeOK
    /\ RowCreated
    /\ ClaimantUnique
    /\ PerformedHeld
    /\ AtMostOnce
    /\ AnswersAreTrue
    /\ EvidenceIsTrue

-----------------------------------------------------------------------------
(* How the three kinds of step on an execution, and the steps of the other *)
(* handlers, keep the claims exclusive *)

\* A step that neither takes nor gives up the claim and leaves the row alone.
LEMMA ClaimKept ==
    ASSUME TypeOK, ClaimantUnique, NEW x \in Executions, NEW state,
           Goto(x, state), Claimant(x)' = Claimant(x), row' = row
    PROVE  ClaimantUnique'
<1>1. \A y \in Executions : Claimant(y)' = Claimant(y)
  BY DEF TypeOK, Goto, Claimant
<1> QED
  BY <1>1 DEF ClaimantUnique

\* A step that takes the claim of an APPROVED row.
LEMMA ClaimTaken ==
    ASSUME TypeOK, ClaimantUnique, NEW x \in Executions, NEW state,
           Goto(x, state), Claimant(x)', row[x.id] = "APPROVED",
           row' = [row EXCEPT ![x.id] = "EXECUTING"]
    PROVE  ClaimantUnique'
<1>1. x.id \in Approvals
  BY DEF Executions
<1>2. \A y \in Executions : y.id = x.id => ~Claimant(y)
  BY <1>1 DEF ClaimantUnique
<1>3. \A y \in Executions : y # x => Claimant(y)' = Claimant(y)
  BY DEF TypeOK, Goto, Claimant
<1>4. \A a \in Approvals : row'[a] = IF a = x.id THEN "EXECUTING" ELSE row[a]
  BY <1>1 DEF TypeOK
<1>5. \A y \in Executions : Claimant(y)' <=> (y = x \/ Claimant(y))
  BY <1>3
<1>6. \A a \in Approvals :
        row'[a] = "EXECUTING" <=> \E y \in Executions : y.id = a /\ Claimant(y)'
  <2> SUFFICES ASSUME NEW a \in Approvals
               PROVE  row'[a] = "EXECUTING"
                         <=> \E y \in Executions : y.id = a /\ Claimant(y)'
    OBVIOUS
  <2>1. CASE a = x.id
    BY <2>1, <1>4
  <2>2. CASE a # x.id
    BY <2>2, <1>4, <1>5 DEF ClaimantUnique
  <2> QED
    BY <2>1, <2>2
<1>7. \A y, z \in Executions : y.id = z.id /\ Claimant(y)' /\ Claimant(z)' => y = z
  BY <1>2, <1>5 DEF ClaimantUnique
<1> QED
  BY <1>6, <1>7 DEF ClaimantUnique

\* A step that gives up the claim together with the row.
LEMMA ClaimGivenUp ==
    ASSUME TypeOK, ClaimantUnique, NEW x \in Executions, NEW state, NEW status,
           Goto(x, state), Claimant(x), ~Claimant(x)', status # "EXECUTING",
           row' = [row EXCEPT ![x.id] = status]
    PROVE  ClaimantUnique'
<1>1. x.id \in Approvals
  BY DEF Executions
<1>2. \A y \in Executions : y # x => Claimant(y)' = Claimant(y)
  BY DEF TypeOK, Goto, Claimant
<1>3. \A a \in Approvals : row'[a] = IF a = x.id THEN status ELSE row[a]
  BY <1>1 DEF TypeOK
<1>4. \A y \in Executions : Claimant(y)' <=> (y # x /\ Claimant(y))
  BY <1>2
<1>5. \A a \in Approvals :
        row'[a] = "EXECUTING" <=> \E y \in Executions : y.id = a /\ Claimant(y)'
  <2> SUFFICES ASSUME NEW a \in Approvals
               PROVE  row'[a] = "EXECUTING"
                         <=> \E y \in Executions : y.id = a /\ Claimant(y)'
    OBVIOUS
  <2>1. CASE a = x.id
    BY <2>1, <1>3, <1>4 DEF ClaimantUnique
  <2>2. CASE a # x.id
    BY <2>2, <1>3, <1>4 DEF ClaimantUnique
  <2> QED
    BY <2>1, <2>2
<1> QED
  BY <1>4, <1>5 DEF ClaimantUnique

\* A step of another handler, after which the same rows are EXECUTING.
LEMMA ClaimUntouched ==
    ASSUME ClaimantUnique, execute' = execute,
           \A a \in Approvals : row'[a] = "EXECUTING" <=> row[a] = "EXECUTING"
    PROVE  ClaimantUnique'
<1>1. \A y \in Executions : Claimant(y)' = Claimant(y)
  BY DEF Claimant
<1> QED
  BY <1>1 DEF ClaimantUnique

-----------------------------------------------------------------------------
\* Nothing is requested, resolved or run at the start.
LEMMA InitInv == Init => Inv
<1> SUFFICES ASSUME Init PROVE Inv
  OBVIOUS
<1>1. TypeOK
  BY ApprovalAssumption
  DEF Init, TypeOK, RowState, CreateState, ResolveState, ExecuteState
<1>2. \A x \in Executions : ~Claimant(x)
  BY DEF Init, Claimant
<1> QED
  BY <1>1, <1>2
  DEF Init, Inv, RowCreated, ClaimantUnique, PerformedHeld, AtMostOnce,
      AnswersAreTrue, EvidenceIsTrue, Executions

\* The fault counter stays below its bound.
LEMMA FaultInRange ==
    ASSUME TypeOK, Fault \/ UNCHANGED faults
    PROVE  faults' \in 0 .. MaxFaults
  BY ApprovalAssumption DEF TypeOK, Fault

\* An event write adds an event or fails.
LEMMA WriteToolEventType ==
    ASSUME TypeOK, NEW e \in ToolEvents, WriteToolEvent(e)
    PROVE  events' \subseteq ToolEvents /\ faults' \in 0 .. MaxFaults
  BY FaultInRange DEF TypeOK, WriteToolEvent

-----------------------------------------------------------------------------
(* ToolEvaluationHandler *)

\* A new row is pending, and no call knows it yet.
LEMMA CreateApprovalInv ==
    ASSUME Inv, NEW a \in Approvals, CreateApproval(a)
    PROVE  Inv'
<1> USE DEF Inv
<1>1. TypeOK'
  BY DEF TypeOK, CreateApproval, Insert, CreateState, RowState
<1>2. RowCreated'
  BY DEF TypeOK, RowCreated, CreateApproval, Insert
<1>3. ClaimantUnique'
  BY ClaimUntouched DEF TypeOK, RowCreated, CreateApproval, Insert
<1>4. PerformedHeld'
  BY DEF TypeOK, PerformedHeld, Claimant, CreateApproval, Insert, RowCreated
<1>5. AtMostOnce'
  BY DEF AtMostOnce, CreateApproval
<1>6. AnswersAreTrue'
  BY DEF TypeOK, AnswersAreTrue, CreateApproval, Insert, RowCreated,
         Executions, Resolutions
<1>7. EvidenceIsTrue'
  BY DEF TypeOK, EvidenceIsTrue, CreateApproval, Insert, ToolEvents,
         Executions, Resolutions, RowCreated
<1> QED
  BY <1>1, <1>2, <1>3, <1>4, <1>5, <1>6, <1>7

\* A failed insert leaves no row.
LEMMA CreateFailsInv ==
    ASSUME Inv, NEW a \in Approvals, CreateFails(a)
    PROVE  Inv'
<1> USE DEF Inv
<1>1. TypeOK'
  BY FaultInRange DEF TypeOK, CreateFails, CreateState
<1>2. RowCreated'
  BY DEF TypeOK, RowCreated, CreateFails
<1>3. ClaimantUnique'
  BY DEF ClaimantUnique, Claimant, CreateFails
<1>4. PerformedHeld'
  BY DEF TypeOK, PerformedHeld, Claimant, CreateFails
<1>5. AtMostOnce'
  BY DEF AtMostOnce, CreateFails
<1>6. AnswersAreTrue'
  BY DEF TypeOK, AnswersAreTrue, CreateFails
<1>7. EvidenceIsTrue'
  BY DEF TypeOK, EvidenceIsTrue, CreateFails
<1> QED
  BY <1>1, <1>2, <1>3, <1>4, <1>5, <1>6, <1>7

\* An insert whose answer was lost leaves a pending row.
LEMMA LateCreateInv ==
    ASSUME Inv, NEW a \in Approvals, LateCreate(a)
    PROVE  Inv'
<1> USE DEF Inv
<1>1. TypeOK'
  BY DEF TypeOK, LateCreate, Insert, CreateState, RowState
<1>2. RowCreated'
  BY DEF TypeOK, RowCreated, LateCreate, Insert
<1>3. ClaimantUnique'
  BY ClaimUntouched DEF TypeOK, RowCreated, LateCreate, Insert
<1>4. PerformedHeld'
  BY DEF TypeOK, PerformedHeld, Claimant, LateCreate, Insert, RowCreated
<1>5. AtMostOnce'
  BY DEF AtMostOnce, LateCreate
<1>6. AnswersAreTrue'
  BY DEF TypeOK, AnswersAreTrue, LateCreate, Insert, RowCreated, Executions,
         Resolutions
<1>7. EvidenceIsTrue'
  BY DEF TypeOK, EvidenceIsTrue, LateCreate, Insert, ToolEvents, Executions,
         Resolutions, RowCreated
<1> QED
  BY <1>1, <1>2, <1>3, <1>4, <1>5, <1>6, <1>7

\* The request event reports a row that exists.
LEMMA RecordRequestedInv ==
    ASSUME Inv, NEW a \in Approvals, RecordRequested(a)
    PROVE  Inv'
<1> USE DEF Inv
<1>1. TypeOK'
  <2>1. Event("TOOL_APPROVAL_REQUESTED", a) \in ToolEvents
    BY DEF Event, ToolEvents
  <2>2. events' \subseteq ToolEvents /\ faults' \in 0 .. MaxFaults
    BY <2>1, WriteToolEventType DEF TypeOK, RecordRequested
  <2> QED
    BY <2>2 DEF TypeOK, RecordRequested, CreateState
<1>2. RowCreated'
  BY DEF TypeOK, RowCreated, RecordRequested
<1>3. ClaimantUnique'
  BY DEF ClaimantUnique, Claimant, RecordRequested
<1>4. PerformedHeld'
  BY DEF TypeOK, PerformedHeld, Claimant, RecordRequested
<1>5. AtMostOnce'
  BY DEF AtMostOnce, RecordRequested
<1>6. AnswersAreTrue'
  BY DEF TypeOK, AnswersAreTrue, RecordRequested
<1>7. EvidenceIsTrue'
  BY DEF TypeOK, EvidenceIsTrue, RecordRequested, WriteToolEvent, Event,
         ToolEvents, Executions, Resolutions
<1> QED
  BY <1>1, <1>2, <1>3, <1>4, <1>5, <1>6, <1>7

-----------------------------------------------------------------------------
(* resolveApproval *)

\* A resolution takes a pending row only.
LEMMA SetStatusInv ==
    ASSUME Inv, NEW c \in Resolutions, SetStatus(c)
    PROVE  Inv'
<1> USE DEF Inv
<1>1. TypeOK'
  BY DEF TypeOK, SetStatus, UpdateWhere, ResolveState, RowState, Resolutions,
         Verdicts
<1>2. RowCreated'
  BY DEF TypeOK, RowCreated, SetStatus, UpdateWhere, Resolutions, Verdicts
<1>3. ClaimantUnique'
  <2>1. \A a \in Approvals : row'[a] = "EXECUTING" <=> row[a] = "EXECUTING"
    BY DEF TypeOK, SetStatus, UpdateWhere, Resolutions, Verdicts
  <2>2. execute' = execute
    BY DEF SetStatus
  <2> QED
    BY <2>1, <2>2, ClaimUntouched
<1>4. PerformedHeld'
  BY DEF TypeOK, PerformedHeld, Claimant, SetStatus, UpdateWhere,
         Resolutions, Verdicts
<1>5. AtMostOnce'
  BY DEF AtMostOnce, SetStatus
<1>6. AnswersAreTrue'
  BY DEF TypeOK, AnswersAreTrue, SetStatus, UpdateWhere, Resolutions,
         Executions, Verdicts
<1>7. EvidenceIsTrue'
  BY DEF TypeOK, EvidenceIsTrue, SetStatus, UpdateWhere, ToolEvents,
         Executions, Resolutions, Verdicts
<1> QED
  BY <1>1, <1>2, <1>3, <1>4, <1>5, <1>6, <1>7

\* A failed update leaves the row.
LEMMA SetStatusFailsInv ==
    ASSUME Inv, NEW c \in Resolutions, SetStatusFails(c)
    PROVE  Inv'
<1> USE DEF Inv
<1>1. TypeOK'
  BY FaultInRange DEF TypeOK, SetStatusFails, ResolveState
<1>2. RowCreated'
  BY DEF TypeOK, RowCreated, SetStatusFails
<1>3. ClaimantUnique'
  BY DEF ClaimantUnique, Claimant, SetStatusFails
<1>4. PerformedHeld'
  BY DEF TypeOK, PerformedHeld, Claimant, SetStatusFails
<1>5. AtMostOnce'
  BY DEF AtMostOnce, SetStatusFails
<1>6. AnswersAreTrue'
  BY DEF TypeOK, AnswersAreTrue, SetStatusFails, Resolutions
<1>7. EvidenceIsTrue'
  BY DEF TypeOK, EvidenceIsTrue, SetStatusFails
<1> QED
  BY <1>1, <1>2, <1>3, <1>4, <1>5, <1>6, <1>7

\* An update whose answer was lost resolved the row, unanswered.
LEMMA LateSetStatusInv ==
    ASSUME Inv, NEW c \in Resolutions, LateSetStatus(c)
    PROVE  Inv'
<1> USE DEF Inv
<1>1. TypeOK'
  BY DEF TypeOK, LateSetStatus, UpdateWhere, ResolveState, RowState,
         Resolutions, Verdicts
<1>2. RowCreated'
  BY DEF TypeOK, RowCreated, LateSetStatus, UpdateWhere, Resolutions, Verdicts
<1>3. ClaimantUnique'
  <2>1. \A a \in Approvals : row'[a] = "EXECUTING" <=> row[a] = "EXECUTING"
    BY DEF TypeOK, LateSetStatus, UpdateWhere, Resolutions, Verdicts
  <2>2. execute' = execute
    BY DEF LateSetStatus
  <2> QED
    BY <2>1, <2>2, ClaimUntouched
<1>4. PerformedHeld'
  BY DEF TypeOK, PerformedHeld, Claimant, LateSetStatus, UpdateWhere,
         Resolutions, Verdicts
<1>5. AtMostOnce'
  BY DEF AtMostOnce, LateSetStatus
<1>6. AnswersAreTrue'
  BY DEF TypeOK, AnswersAreTrue, LateSetStatus, UpdateWhere, Resolutions,
         Executions, Verdicts
<1>7. EvidenceIsTrue'
  BY DEF TypeOK, EvidenceIsTrue, LateSetStatus, UpdateWhere, ToolEvents,
         Executions, Resolutions, Verdicts
<1> QED
  BY <1>1, <1>2, <1>3, <1>4, <1>5, <1>6, <1>7

\* The resolution event reports the verdict of the row.
LEMMA RecordResolutionInv ==
    ASSUME Inv, NEW c \in Resolutions, RecordResolution(c)
    PROVE  Inv'
<1> USE DEF Inv
<1>1. TypeOK'
  <2>1. ResolutionEvent(c) \in ToolEvents
    BY DEF Event, ToolEvents, ResolutionEvent
  <2>2. events' \subseteq ToolEvents /\ faults' \in 0 .. MaxFaults
    BY <2>1, WriteToolEventType DEF TypeOK, RecordResolution
  <2> QED
    BY <2>2 DEF TypeOK, RecordResolution, ResolveState
<1>2. RowCreated'
  BY DEF TypeOK, RowCreated, RecordResolution
<1>3. ClaimantUnique'
  BY DEF ClaimantUnique, Claimant, RecordResolution
<1>4. PerformedHeld'
  BY DEF TypeOK, PerformedHeld, Claimant, RecordResolution
<1>5. AtMostOnce'
  BY DEF AtMostOnce, RecordResolution
<1>6. AnswersAreTrue'
  BY DEF TypeOK, AnswersAreTrue, RecordResolution, Resolutions
<1>7. EvidenceIsTrue'
  BY DEF TypeOK, EvidenceIsTrue, RecordResolution, WriteToolEvent,
         ResolutionEvent, Event, ToolEvents, Executions, Resolutions,
         AnswersAreTrue, Verdicts
<1> QED
  BY <1>1, <1>2, <1>3, <1>4, <1>5, <1>6, <1>7

-----------------------------------------------------------------------------
(* ExecuteApprovalHandler *)

\* The execute handler reads the row.
LEMMA GetApprovalInv ==
    ASSUME Inv, NEW x \in Executions, GetApproval(x)
    PROVE  Inv'
<1> USE DEF Inv
<1>1. TypeOK'
  BY DEF TypeOK, GetApproval, Goto, ExecuteState
<1>2. RowCreated'
  BY DEF TypeOK, RowCreated, GetApproval, Goto
<1>3. ClaimantUnique'
  <2>1. PICK state : Goto(x, state)
    BY DEF GetApproval
  <2>2. Claimant(x)' = Claimant(x) /\ row' = row
    BY DEF TypeOK, Claimant, GetApproval, Goto
  <2> QED
    BY <2>1, <2>2, ClaimKept
<1>4. PerformedHeld'
  BY DEF TypeOK, PerformedHeld, Claimant, GetApproval, Goto, Executions
<1>5. AtMostOnce'
  BY DEF AtMostOnce, GetApproval
<1>6. AnswersAreTrue'
  BY DEF TypeOK, AnswersAreTrue, GetApproval, Goto, Executions, Resolutions,
         ClaimantUnique, PerformedHeld, Claimant
<1>7. EvidenceIsTrue'
  BY DEF TypeOK, EvidenceIsTrue, GetApproval, Goto
<1> QED
  BY <1>1, <1>2, <1>3, <1>4, <1>5, <1>6, <1>7

\* A failed read ends the call before it claims.
LEMMA GetFailsInv ==
    ASSUME Inv, NEW x \in Executions, GetFails(x)
    PROVE  Inv'
<1> USE DEF Inv
<1>1. TypeOK'
  BY FaultInRange DEF TypeOK, GetFails, Goto, ExecuteState
<1>2. RowCreated'
  BY DEF TypeOK, RowCreated, GetFails, Goto
<1>3. ClaimantUnique'
  <2>1. PICK state : Goto(x, state)
    BY DEF GetFails
  <2>2. Claimant(x)' = Claimant(x) /\ row' = row
    BY DEF TypeOK, Claimant, GetFails, Goto
  <2> QED
    BY <2>1, <2>2, ClaimKept
<1>4. PerformedHeld'
  BY DEF TypeOK, PerformedHeld, Claimant, GetFails, Goto, Executions
<1>5. AtMostOnce'
  BY DEF AtMostOnce, GetFails
<1>6. AnswersAreTrue'
  BY DEF TypeOK, AnswersAreTrue, GetFails, Goto, Executions, Resolutions,
         ClaimantUnique, PerformedHeld, Claimant
<1>7. EvidenceIsTrue'
  BY DEF TypeOK, EvidenceIsTrue, GetFails, Goto
<1> QED
  BY <1>1, <1>2, <1>3, <1>4, <1>5, <1>6, <1>7

\* The claim takes an approved row only, and there is no other claimant.
LEMMA ClaimExecutionInv ==
    ASSUME Inv, NEW x \in Executions, ClaimExecution(x)
    PROVE  Inv'
<1> USE DEF Inv
<1>1. TypeOK'
  BY DEF TypeOK, ClaimExecution, Goto, UpdateWhere, ExecuteState, RowState,
         Executions
<1>2. RowCreated'
  BY DEF TypeOK, RowCreated, ClaimExecution, Goto, UpdateWhere, Executions
<1>3. ClaimantUnique'
  <2>1. CASE row[x.id] = "APPROVED"
    <3>1. PICK state : Goto(x, state)
      BY DEF ClaimExecution
    <3>2. Claimant(x)' /\ row' = [row EXCEPT ![x.id] = "EXECUTING"]
      BY <2>1 DEF TypeOK, Claimant, ClaimExecution, Goto, UpdateWhere
    <3> QED
      BY <2>1, <3>1, <3>2, ClaimTaken
  <2>2. CASE row[x.id] # "APPROVED"
    <3>1. Goto(x, "refused")
      BY <2>2 DEF ClaimExecution
    <3>2. Claimant(x)' = Claimant(x) /\ row' = row
      BY <2>2 DEF TypeOK, Claimant, ClaimExecution, Goto, UpdateWhere
    <3> QED
      BY <3>1, <3>2, ClaimKept
  <2> QED
    BY <2>1, <2>2
<1>4. PerformedHeld'
  BY DEF TypeOK, PerformedHeld, Claimant, ClaimExecution, Goto, UpdateWhere,
         Executions, ClaimantUnique
<1>5. AtMostOnce'
  BY DEF AtMostOnce, ClaimExecution
<1>6. AnswersAreTrue'
  BY DEF TypeOK, AnswersAreTrue, ClaimExecution, Goto, UpdateWhere,
         Executions, Resolutions, ClaimantUnique, PerformedHeld, Claimant
<1>7. EvidenceIsTrue'
  BY DEF TypeOK, EvidenceIsTrue, ClaimExecution, Goto, UpdateWhere,
         ToolEvents, Executions, Resolutions, ClaimantUnique, PerformedHeld,
         Claimant, AnswersAreTrue
<1> QED
  BY <1>1, <1>2, <1>3, <1>4, <1>5, <1>6, <1>7

\* A failed claim leaves the row.
LEMMA ClaimFailsInv ==
    ASSUME Inv, NEW x \in Executions, ClaimFails(x)
    PROVE  Inv'
<1> USE DEF Inv
<1>1. TypeOK'
  BY FaultInRange DEF TypeOK, ClaimFails, Goto, ExecuteState
<1>2. RowCreated'
  BY DEF TypeOK, RowCreated, ClaimFails, Goto
<1>3. ClaimantUnique'
  <2>1. PICK state : Goto(x, state)
    BY DEF ClaimFails
  <2>2. Claimant(x)' = Claimant(x) /\ row' = row
    BY DEF TypeOK, Claimant, ClaimFails, Goto
  <2> QED
    BY <2>1, <2>2, ClaimKept
<1>4. PerformedHeld'
  BY DEF TypeOK, PerformedHeld, Claimant, ClaimFails, Goto, Executions
<1>5. AtMostOnce'
  BY DEF AtMostOnce, ClaimFails
<1>6. AnswersAreTrue'
  BY DEF TypeOK, AnswersAreTrue, ClaimFails, Goto, Executions, Resolutions,
         ClaimantUnique, PerformedHeld, Claimant
<1>7. EvidenceIsTrue'
  BY DEF TypeOK, EvidenceIsTrue, ClaimFails, Goto
<1> QED
  BY <1>1, <1>2, <1>3, <1>4, <1>5, <1>6, <1>7

\* A claim whose answer was lost holds the row for a call that has ended.
LEMMA LateClaimInv ==
    ASSUME Inv, NEW x \in Executions, LateClaim(x)
    PROVE  Inv'
<1> USE DEF Inv
<1>1. TypeOK'
  BY DEF TypeOK, LateClaim, Goto, UpdateWhere, ExecuteState, RowState,
         Executions
<1>2. RowCreated'
  BY DEF TypeOK, RowCreated, LateClaim, Goto, UpdateWhere, Executions
<1>3. ClaimantUnique'
  <2>1. CASE row[x.id] = "APPROVED"
    <3>1. PICK state : Goto(x, state)
      BY DEF LateClaim
    <3>2. Claimant(x)' /\ row' = [row EXCEPT ![x.id] = "EXECUTING"]
      BY <2>1 DEF TypeOK, Claimant, LateClaim, Goto, UpdateWhere
    <3> QED
      BY <2>1, <3>1, <3>2, ClaimTaken
  <2>2. CASE row[x.id] # "APPROVED"
    <3>1. Goto(x, "refused")
      BY <2>2 DEF LateClaim
    <3>2. Claimant(x)' = Claimant(x) /\ row' = row
      BY <2>2 DEF TypeOK, Claimant, LateClaim, Goto, UpdateWhere
    <3> QED
      BY <3>1, <3>2, ClaimKept
  <2> QED
    BY <2>1, <2>2
<1>4. PerformedHeld'
  BY DEF TypeOK, PerformedHeld, Claimant, LateClaim, Goto, UpdateWhere,
         Executions, ClaimantUnique
<1>5. AtMostOnce'
  BY DEF AtMostOnce, LateClaim
<1>6. AnswersAreTrue'
  BY DEF TypeOK, AnswersAreTrue, LateClaim, Goto, UpdateWhere, Executions,
         Resolutions, ClaimantUnique, PerformedHeld, Claimant
<1>7. EvidenceIsTrue'
  BY DEF TypeOK, EvidenceIsTrue, LateClaim, Goto, UpdateWhere, ToolEvents,
         Executions, Resolutions, ClaimantUnique, PerformedHeld, Claimant,
         AnswersAreTrue
<1> QED
  BY <1>1, <1>2, <1>3, <1>4, <1>5, <1>6, <1>7

\* The start event reports a claim.
LEMMA RecordStartedInv ==
    ASSUME Inv, NEW x \in Executions, RecordStarted(x)
    PROVE  Inv'
<1> USE DEF Inv
<1>1. TypeOK'
  <2>1. Event("TOOL_EXECUTION_STARTED", x) \in ToolEvents
    BY DEF Event, ToolEvents
  <2>2. events' \subseteq ToolEvents /\ faults' \in 0 .. MaxFaults
    BY <2>1, WriteToolEventType, FaultInRange DEF TypeOK, RecordStarted
  <2> QED
    BY <2>2 DEF TypeOK, RecordStarted, Goto, ExecuteState
<1>2. RowCreated'
  BY DEF TypeOK, RowCreated, RecordStarted, Goto
<1>3. ClaimantUnique'
  <2>1. PICK state : Goto(x, state)
    BY DEF RecordStarted
  <2>2. Claimant(x)' = Claimant(x) /\ row' = row
    BY DEF TypeOK, Claimant, RecordStarted, Goto
  <2> QED
    BY <2>1, <2>2, ClaimKept
<1>4. PerformedHeld'
  BY DEF TypeOK, PerformedHeld, Claimant, RecordStarted, Goto, Executions
<1>5. AtMostOnce'
  BY DEF AtMostOnce, RecordStarted
<1>6. AnswersAreTrue'
  BY DEF TypeOK, AnswersAreTrue, RecordStarted, Goto, Executions,
         Resolutions, ClaimantUnique, PerformedHeld, Claimant
<1>7. EvidenceIsTrue'
  BY DEF TypeOK, EvidenceIsTrue, RecordStarted, Goto, WriteToolEvent, Event,
         ToolEvents, Executions, Resolutions, ClaimantUnique, PerformedHeld,
         Claimant, AnswersAreTrue
<1> QED
  BY <1>1, <1>2, <1>3, <1>4, <1>5, <1>6, <1>7

\* The tool runs for the claimant, and no call has run it before.
LEMMA ExecuteInv ==
    ASSUME Inv, NEW x \in Executions, Execute(x)
    PROVE  Inv'
<1> USE DEF Inv
<1>1. TypeOK'
  BY DEF TypeOK, Execute, Goto, ExecuteState
<1>2. RowCreated'
  BY DEF TypeOK, RowCreated, Execute, Goto
<1>3. ClaimantUnique'
  <2>1. PICK state : Goto(x, state)
    BY DEF Execute
  <2>2. Claimant(x)' = Claimant(x) /\ row' = row
    BY DEF TypeOK, Claimant, Execute, Goto
  <2> QED
    BY <2>1, <2>2, ClaimKept
<1>4. PerformedHeld'
  <2>1. CASE x \in ctxDone \/ x.id \in Unsupported
    BY <2>1 DEF TypeOK, PerformedHeld, Claimant, Execute, Goto
  <2>2. CASE ~(x \in ctxDone \/ x.id \in Unsupported)
    <3>1. performed' = performed \cup {x} /\ row' = row
      BY <2>2 DEF Execute
    <3>2. execute' = [execute EXCEPT ![x] = "ran"]
      BY <2>2 DEF Execute, Goto
    <3>3. \A y \in Executions : execute'[y] = IF y = x THEN "ran" ELSE execute[y]
      BY <3>2 DEF TypeOK
    <3> QED
      BY <3>1, <3>3 DEF TypeOK, PerformedHeld, Claimant
  <2> QED
    BY <2>1, <2>2
<1>5. AtMostOnce'
  <2>1. Claimant(x) /\ row[x.id] = "EXECUTING" /\ x \notin performed
    BY DEF Claimant, ClaimantUnique, PerformedHeld, Execute, Executions
  <2>2. \A y \in performed : y.id # x.id
    BY <2>1 DEF TypeOK, ClaimantUnique, PerformedHeld
  <2> QED
    BY <2>2 DEF AtMostOnce, Execute
<1>6. AnswersAreTrue'
  BY DEF TypeOK, AnswersAreTrue, Execute, Goto, Executions, Resolutions,
         ClaimantUnique, PerformedHeld, Claimant
<1>7. EvidenceIsTrue'
  BY DEF TypeOK, EvidenceIsTrue, Execute, Goto, ToolEvents
<1> QED
  BY <1>1, <1>2, <1>3, <1>4, <1>5, <1>6, <1>7

\* Only a claimant that did not run the tool releases the row.
LEMMA FailExecutionInv ==
    ASSUME Inv, NEW x \in Executions, FailExecution(x)
    PROVE  Inv'
<1> USE DEF Inv
<1>1. TypeOK'
  BY DEF TypeOK, FailExecution, Goto, UpdateWhere, ExecuteState, RowState,
         Executions
<1>2. RowCreated'
  BY DEF TypeOK, RowCreated, FailExecution, Goto, UpdateWhere, Executions
<1>3. ClaimantUnique'
  <2>1. PICK state : Goto(x, state)
    BY DEF FailExecution
  <2>2. Claimant(x) /\ ~Claimant(x)'
    BY DEF TypeOK, Claimant, FailExecution, Goto, UpdateWhere
  <2>3. row[x.id] = "EXECUTING"
    BY <2>2 DEF ClaimantUnique, Executions
  <2>4. row' = [row EXCEPT ![x.id] = "APPROVED"]
    BY <2>3 DEF FailExecution, UpdateWhere
  <2> QED
    BY <2>1, <2>2, <2>4, ClaimGivenUp
<1>4. PerformedHeld'
  BY DEF TypeOK, PerformedHeld, Claimant, FailExecution, Goto, UpdateWhere,
         Executions, ClaimantUnique
<1>5. AtMostOnce'
  BY DEF AtMostOnce, FailExecution
<1>6. AnswersAreTrue'
  BY DEF TypeOK, AnswersAreTrue, FailExecution, Goto, UpdateWhere,
         Executions, Resolutions, ClaimantUnique, PerformedHeld, Claimant
<1>7. EvidenceIsTrue'
  BY DEF TypeOK, EvidenceIsTrue, FailExecution, Goto, UpdateWhere,
         ToolEvents, Executions, Resolutions, ClaimantUnique, PerformedHeld,
         Claimant, AnswersAreTrue
<1> QED
  BY <1>1, <1>2, <1>3, <1>4, <1>5, <1>6, <1>7

\* A failed release leaves the row claimed.
LEMMA FailExecutionFailsInv ==
    ASSUME Inv, NEW x \in Executions, FailExecutionFails(x)
    PROVE  Inv'
<1> USE DEF Inv
<1>1. TypeOK'
  BY FaultInRange DEF TypeOK, FailExecutionFails, Goto, ExecuteState
<1>2. RowCreated'
  BY DEF TypeOK, RowCreated, FailExecutionFails, Goto
<1>3. ClaimantUnique'
  <2>1. PICK state : Goto(x, state)
    BY DEF FailExecutionFails
  <2>2. Claimant(x)' = Claimant(x) /\ row' = row
    BY DEF TypeOK, Claimant, FailExecutionFails, Goto
  <2> QED
    BY <2>1, <2>2, ClaimKept
<1>4. PerformedHeld'
  BY DEF TypeOK, PerformedHeld, Claimant, FailExecutionFails, Goto, Executions
<1>5. AtMostOnce'
  BY DEF AtMostOnce, FailExecutionFails
<1>6. AnswersAreTrue'
  BY DEF TypeOK, AnswersAreTrue, FailExecutionFails, Goto, Executions,
         Resolutions, ClaimantUnique, PerformedHeld, Claimant
<1>7. EvidenceIsTrue'
  BY DEF TypeOK, EvidenceIsTrue, FailExecutionFails, Goto
<1> QED
  BY <1>1, <1>2, <1>3, <1>4, <1>5, <1>6, <1>7

\* A release whose answer was lost is one by the claimant.
LEMMA LateFailInv ==
    ASSUME Inv, NEW x \in Executions, LateFail(x)
    PROVE  Inv'
<1> USE DEF Inv
<1>1. TypeOK'
  BY DEF TypeOK, LateFail, Goto, UpdateWhere, ExecuteState, RowState,
         Executions
<1>2. RowCreated'
  BY DEF TypeOK, RowCreated, LateFail, Goto, UpdateWhere, Executions
<1>3. ClaimantUnique'
  <2>1. PICK state : Goto(x, state)
    BY DEF LateFail
  <2>2. Claimant(x) /\ ~Claimant(x)'
    BY DEF TypeOK, Claimant, LateFail, Goto, UpdateWhere
  <2>3. row[x.id] = "EXECUTING"
    BY <2>2 DEF ClaimantUnique, Executions
  <2>4. row' = [row EXCEPT ![x.id] = "APPROVED"]
    BY <2>3 DEF LateFail, UpdateWhere
  <2> QED
    BY <2>1, <2>2, <2>4, ClaimGivenUp
<1>4. PerformedHeld'
  BY DEF TypeOK, PerformedHeld, Claimant, LateFail, Goto, UpdateWhere,
         Executions, ClaimantUnique
<1>5. AtMostOnce'
  BY DEF AtMostOnce, LateFail
<1>6. AnswersAreTrue'
  BY DEF TypeOK, AnswersAreTrue, LateFail, Goto, UpdateWhere, Executions,
         Resolutions, ClaimantUnique, PerformedHeld, Claimant
<1>7. EvidenceIsTrue'
  BY DEF TypeOK, EvidenceIsTrue, LateFail, Goto, UpdateWhere, ToolEvents,
         Executions, Resolutions, ClaimantUnique, PerformedHeld, Claimant,
         AnswersAreTrue
<1> QED
  BY <1>1, <1>2, <1>3, <1>4, <1>5, <1>6, <1>7

\* Only the claimant that ran the tool completes the row.
LEMMA FinishExecutionInv ==
    ASSUME Inv, NEW x \in Executions, FinishExecution(x)
    PROVE  Inv'
<1> USE DEF Inv
<1>1. TypeOK'
  BY DEF TypeOK, FinishExecution, Goto, UpdateWhere, ExecuteState, RowState,
         Executions
<1>2. RowCreated'
  BY DEF TypeOK, RowCreated, FinishExecution, Goto, UpdateWhere, Executions
<1>3. ClaimantUnique'
  <2>1. PICK state : Goto(x, state)
    BY DEF FinishExecution
  <2>2. Claimant(x) /\ ~Claimant(x)'
    BY DEF TypeOK, Claimant, FinishExecution, Goto, UpdateWhere
  <2>3. row[x.id] = "EXECUTING"
    BY <2>2 DEF ClaimantUnique, Executions
  <2>4. row' = [row EXCEPT ![x.id] = "EXECUTED"]
    BY <2>3 DEF FinishExecution, UpdateWhere
  <2> QED
    BY <2>1, <2>2, <2>4, ClaimGivenUp
<1>4. PerformedHeld'
  BY DEF TypeOK, PerformedHeld, Claimant, FinishExecution, Goto, UpdateWhere,
         Executions, ClaimantUnique
<1>5. AtMostOnce'
  BY DEF AtMostOnce, FinishExecution
<1>6. AnswersAreTrue'
  BY DEF TypeOK, AnswersAreTrue, FinishExecution, Goto, UpdateWhere,
         Executions, Resolutions, ClaimantUnique, PerformedHeld, Claimant
<1>7. EvidenceIsTrue'
  BY DEF TypeOK, EvidenceIsTrue, FinishExecution, Goto, UpdateWhere,
         ToolEvents, Executions, Resolutions, ClaimantUnique, PerformedHeld,
         Claimant, AnswersAreTrue
<1> QED
  BY <1>1, <1>2, <1>3, <1>4, <1>5, <1>6, <1>7

\* A failed completion leaves the row claimed.
LEMMA FinishFailsInv ==
    ASSUME Inv, NEW x \in Executions, FinishFails(x)
    PROVE  Inv'
<1> USE DEF Inv
<1>1. TypeOK'
  BY FaultInRange DEF TypeOK, FinishFails, Goto, ExecuteState
<1>2. RowCreated'
  BY DEF TypeOK, RowCreated, FinishFails, Goto
<1>3. ClaimantUnique'
  <2>1. PICK state : Goto(x, state)
    BY DEF FinishFails
  <2>2. Claimant(x)' = Claimant(x) /\ row' = row
    BY DEF TypeOK, Claimant, FinishFails, Goto
  <2> QED
    BY <2>1, <2>2, ClaimKept
<1>4. PerformedHeld'
  BY DEF TypeOK, PerformedHeld, Claimant, FinishFails, Goto, Executions
<1>5. AtMostOnce'
  BY DEF AtMostOnce, FinishFails
<1>6. AnswersAreTrue'
  BY DEF TypeOK, AnswersAreTrue, FinishFails, Goto, Executions, Resolutions,
         ClaimantUnique, PerformedHeld, Claimant
<1>7. EvidenceIsTrue'
  BY DEF TypeOK, EvidenceIsTrue, FinishFails, Goto
<1> QED
  BY <1>1, <1>2, <1>3, <1>4, <1>5, <1>6, <1>7

\* A completion whose answer was lost is one by the claimant.
LEMMA LateFinishInv ==
    ASSUME Inv, NEW x \in Executions, LateFinish(x)
    PROVE  Inv'
<1> USE DEF Inv
<1>1. TypeOK'
  BY DEF TypeOK, LateFinish, Goto, UpdateWhere, ExecuteState, RowState,
         Executions
<1>2. RowCreated'
  BY DEF TypeOK, RowCreated, LateFinish, Goto, UpdateWhere, Executions
<1>3. ClaimantUnique'
  <2>1. PICK state : Goto(x, state)
    BY DEF LateFinish
  <2>2. Claimant(x) /\ ~Claimant(x)'
    BY DEF TypeOK, Claimant, LateFinish, Goto, UpdateWhere
  <2>3. row[x.id] = "EXECUTING"
    BY <2>2 DEF ClaimantUnique, Executions
  <2>4. row' = [row EXCEPT ![x.id] = "EXECUTED"]
    BY <2>3 DEF LateFinish, UpdateWhere
  <2> QED
    BY <2>1, <2>2, <2>4, ClaimGivenUp
<1>4. PerformedHeld'
  BY DEF TypeOK, PerformedHeld, Claimant, LateFinish, Goto, UpdateWhere,
         Executions, ClaimantUnique
<1>5. AtMostOnce'
  BY DEF AtMostOnce, LateFinish
<1>6. AnswersAreTrue'
  BY DEF TypeOK, AnswersAreTrue, LateFinish, Goto, UpdateWhere, Executions,
         Resolutions, ClaimantUnique, PerformedHeld, Claimant
<1>7. EvidenceIsTrue'
  BY DEF TypeOK, EvidenceIsTrue, LateFinish, Goto, UpdateWhere, ToolEvents,
         Executions, Resolutions, ClaimantUnique, PerformedHeld, Claimant,
         AnswersAreTrue
<1> QED
  BY <1>1, <1>2, <1>3, <1>4, <1>5, <1>6, <1>7

\* The success event reports a run and a completed row.
LEMMA RecordSucceededInv ==
    ASSUME Inv, NEW x \in Executions, RecordSucceeded(x)
    PROVE  Inv'
<1> USE DEF Inv
<1>1. TypeOK'
  <2>1. Event("TOOL_EXECUTION_SUCCEEDED", x) \in ToolEvents
    BY DEF Event, ToolEvents
  <2>2. events' \subseteq ToolEvents /\ faults' \in 0 .. MaxFaults
    BY <2>1, WriteToolEventType, FaultInRange DEF TypeOK, RecordSucceeded
  <2> QED
    BY <2>2 DEF TypeOK, RecordSucceeded, Goto, ExecuteState
<1>2. RowCreated'
  BY DEF TypeOK, RowCreated, RecordSucceeded, Goto
<1>3. ClaimantUnique'
  <2>1. PICK state : Goto(x, state)
    BY DEF RecordSucceeded
  <2>2. Claimant(x)' = Claimant(x) /\ row' = row
    BY DEF TypeOK, Claimant, RecordSucceeded, Goto
  <2> QED
    BY <2>1, <2>2, ClaimKept
<1>4. PerformedHeld'
  BY DEF TypeOK, PerformedHeld, Claimant, RecordSucceeded, Goto, Executions
<1>5. AtMostOnce'
  BY DEF AtMostOnce, RecordSucceeded
<1>6. AnswersAreTrue'
  BY DEF TypeOK, AnswersAreTrue, RecordSucceeded, Goto, Executions,
         Resolutions, ClaimantUnique, PerformedHeld, Claimant
<1>7. EvidenceIsTrue'
  BY DEF TypeOK, EvidenceIsTrue, RecordSucceeded, Goto, WriteToolEvent,
         Event, ToolEvents, Executions, Resolutions, ClaimantUnique,
         PerformedHeld, Claimant, AnswersAreTrue
<1> QED
  BY <1>1, <1>2, <1>3, <1>4, <1>5, <1>6, <1>7

\* A client that leaves changes no row.
LEMMA ClientLeavesInv ==
    ASSUME Inv, NEW x \in Executions, ClientLeaves(x)
    PROVE  Inv'
<1> USE DEF Inv
<1>1. TypeOK'
  BY DEF TypeOK, ClientLeaves
<1>2. RowCreated'
  BY DEF TypeOK, RowCreated, ClientLeaves
<1>3. ClaimantUnique'
  BY DEF ClaimantUnique, Claimant, ClientLeaves
<1>4. PerformedHeld'
  BY DEF TypeOK, PerformedHeld, Claimant, ClientLeaves, Executions
<1>5. AtMostOnce'
  BY DEF AtMostOnce, ClientLeaves
<1>6. AnswersAreTrue'
  BY DEF TypeOK, AnswersAreTrue, ClientLeaves, Executions, Resolutions,
         ClaimantUnique, PerformedHeld, Claimant
<1>7. EvidenceIsTrue'
  BY DEF TypeOK, EvidenceIsTrue, ClientLeaves
<1> QED
  BY <1>1, <1>2, <1>3, <1>4, <1>5, <1>6, <1>7

\* A handler that dies leaves its row as it is.
LEMMA HandlerDiesInv ==
    ASSUME Inv, NEW x \in Executions, HandlerDies(x)
    PROVE  Inv'
<1> USE DEF Inv
<1>1. TypeOK'
  BY FaultInRange DEF TypeOK, HandlerDies, Goto, ExecuteState
<1>2. RowCreated'
  BY DEF TypeOK, RowCreated, HandlerDies, Goto
<1>3. ClaimantUnique'
  <2>1. PICK state : Goto(x, state)
    BY DEF HandlerDies
  <2>2. Claimant(x)' = Claimant(x) /\ row' = row
    BY DEF TypeOK, Claimant, HandlerDies, Goto
  <2> QED
    BY <2>1, <2>2, ClaimKept
<1>4. PerformedHeld'
  BY DEF TypeOK, PerformedHeld, Claimant, HandlerDies, Goto, Executions
<1>5. AtMostOnce'
  BY DEF AtMostOnce, HandlerDies
<1>6. AnswersAreTrue'
  BY DEF TypeOK, AnswersAreTrue, HandlerDies, Goto, Executions, Resolutions,
         ClaimantUnique, PerformedHeld, Claimant
<1>7. EvidenceIsTrue'
  BY DEF TypeOK, EvidenceIsTrue, HandlerDies, Goto
<1> QED
  BY <1>1, <1>2, <1>3, <1>4, <1>5, <1>6, <1>7

-----------------------------------------------------------------------------
(* The theorems *)

\* A step that changes nothing keeps the invariant.
LEMMA StutterInv == ASSUME Inv, UNCHANGED vars PROVE Inv'
  BY DEF vars, Inv, TypeOK, RowCreated, ClaimantUnique, PerformedHeld,
         Claimant, AtMostOnce, AnswersAreTrue, EvidenceIsTrue

\* Every step keeps the invariant.
LEMMA NextInv == Inv /\ [Next]_vars => Inv'
<1> SUFFICES ASSUME Inv, [Next]_vars PROVE Inv'
  OBVIOUS
<1>1. ASSUME NEW a \in Approvals, CreateApproval(a) PROVE Inv'
  BY <1>1, CreateApprovalInv
<1>2. ASSUME NEW a \in Approvals, CreateFails(a) PROVE Inv'
  BY <1>2, CreateFailsInv
<1>3. ASSUME NEW a \in Approvals, LateCreate(a) PROVE Inv'
  BY <1>3, LateCreateInv
<1>4. ASSUME NEW a \in Approvals, RecordRequested(a) PROVE Inv'
  BY <1>4, RecordRequestedInv
<1>5. ASSUME NEW c \in Resolutions, SetStatus(c) PROVE Inv'
  BY <1>5, SetStatusInv
<1>6. ASSUME NEW c \in Resolutions, SetStatusFails(c) PROVE Inv'
  BY <1>6, SetStatusFailsInv
<1>7. ASSUME NEW c \in Resolutions, LateSetStatus(c) PROVE Inv'
  BY <1>7, LateSetStatusInv
<1>8. ASSUME NEW c \in Resolutions, RecordResolution(c) PROVE Inv'
  BY <1>8, RecordResolutionInv
<1>9. ASSUME NEW x \in Executions, GetApproval(x) PROVE Inv'
  BY <1>9, GetApprovalInv
<1>10. ASSUME NEW x \in Executions, GetFails(x) PROVE Inv'
  BY <1>10, GetFailsInv
<1>11. ASSUME NEW x \in Executions, ClaimExecution(x) PROVE Inv'
  BY <1>11, ClaimExecutionInv
<1>12. ASSUME NEW x \in Executions, ClaimFails(x) PROVE Inv'
  BY <1>12, ClaimFailsInv
<1>13. ASSUME NEW x \in Executions, LateClaim(x) PROVE Inv'
  BY <1>13, LateClaimInv
<1>14. ASSUME NEW x \in Executions, RecordStarted(x) PROVE Inv'
  BY <1>14, RecordStartedInv
<1>15. ASSUME NEW x \in Executions, Execute(x) PROVE Inv'
  BY <1>15, ExecuteInv
<1>16. ASSUME NEW x \in Executions, FailExecution(x) PROVE Inv'
  BY <1>16, FailExecutionInv
<1>17. ASSUME NEW x \in Executions, FailExecutionFails(x) PROVE Inv'
  BY <1>17, FailExecutionFailsInv
<1>18. ASSUME NEW x \in Executions, LateFail(x) PROVE Inv'
  BY <1>18, LateFailInv
<1>19. ASSUME NEW x \in Executions, FinishExecution(x) PROVE Inv'
  BY <1>19, FinishExecutionInv
<1>20. ASSUME NEW x \in Executions, FinishFails(x) PROVE Inv'
  BY <1>20, FinishFailsInv
<1>21. ASSUME NEW x \in Executions, LateFinish(x) PROVE Inv'
  BY <1>21, LateFinishInv
<1>22. ASSUME NEW x \in Executions, RecordSucceeded(x) PROVE Inv'
  BY <1>22, RecordSucceededInv
<1>23. ASSUME NEW x \in Executions, ClientLeaves(x) PROVE Inv'
  BY <1>23, ClientLeavesInv
<1>24. ASSUME NEW x \in Executions, HandlerDies(x) PROVE Inv'
  BY <1>24, HandlerDiesInv
<1>25. CASE UNCHANGED vars
  BY <1>25, StutterInv
<1> QED
  BY <1>1, <1>2, <1>3, <1>4, <1>5, <1>6, <1>7, <1>8, <1>9, <1>10, <1>11,
     <1>12, <1>13, <1>14, <1>15, <1>16, <1>17, <1>18, <1>19, <1>20, <1>21,
     <1>22, <1>23, <1>24, <1>25
  DEF Next, ExecuteStep

\* The inductive invariant holds in every reachable state: the claims are
\* exclusive and every run of the tool is covered by one.
THEOREM ApprovalInvariant == Spec => []Inv
<1>1. Init => Inv
  BY InitInv
<1>2. Inv /\ [Next]_vars => Inv'
  BY NextInv
<1> QED
  BY <1>1, <1>2, PTL DEF Spec

\* Every variable has its type, and the trail holds only the tool events
\* the handlers write.
THEOREM TypeCorrect == Spec => []TypeOK
<1>1. Inv => TypeOK
  BY DEF Inv
<1> QED
  BY <1>1, ApprovalInvariant, PTL

\* An EXECUTING row belongs to exactly one execute call (ClaimExecution,
\* FinishExecution and FailExecution of approval/store.go).
THEOREM ClaimsExclusive == Spec => []ClaimantUnique
<1>1. Inv => ClaimantUnique
  BY DEF Inv
<1> QED
  BY <1>1, ApprovalInvariant, PTL

\* executor.Execute runs the tool at most once per approval, for any number
\* of execute calls, lost statements, disconnects and crashes.
THEOREM ToolRunsOnce == Spec => []AtMostOnce
<1>1. Inv => AtMostOnce
  BY DEF Inv
<1> QED
  BY <1>1, ApprovalInvariant, PTL

\* What the approve, reject and execute handlers answered is what happened.
THEOREM AnswersHold == Spec => []AnswersAreTrue
<1>1. Inv => AnswersAreTrue
  BY DEF Inv
<1> QED
  BY <1>1, ApprovalInvariant, PTL

\* No row of tool_events says what did not happen.
THEOREM EvidenceHolds == Spec => []EvidenceIsTrue
<1>1. Inv => EvidenceIsTrue
  BY DEF Inv
<1> QED
  BY <1>1, ApprovalInvariant, PTL

-----------------------------------------------------------------------------
(* Refinement: only four kinds of step change what the lifecycle sees *)

Decided(status) == IF status \in {"EXECUTING", "EXECUTED"} THEN "APPROVED" ELSE status
DecisionOf  == [a \in Approvals |-> Decided(row[a])]
CompletedOf == {a \in Approvals : row[a] = "EXECUTED"}

\* A step that neither changes a row nor runs the tool is a stutter.
LEMMA RowsKept ==
    ASSUME row' = row, performed' = performed
    PROVE  UNCHANGED Lifecycle!vars
  BY DEF Lifecycle!vars

\* Moving a row between APPROVED and EXECUTING is a stutter.
LEMMA ClaimMoves ==
    ASSUME TypeOK, NEW x \in Executions, performed' = performed,
           row[x.id] \in {"APPROVED", "EXECUTING"},
           NEW status \in {"APPROVED", "EXECUTING"},
           row' = [row EXCEPT ![x.id] = status]
    PROVE  UNCHANGED Lifecycle!vars
<1>1. x.id \in Approvals
  BY DEF Executions
<1>2. \A a \in Approvals : row'[a] = IF a = x.id THEN status ELSE row[a]
  BY <1>1 DEF TypeOK
<1>3. \A a \in Approvals : Decided(row'[a]) = Decided(row[a])
  BY <1>2 DEF Decided
<1>4. CompletedOf' = CompletedOf
  BY <1>2 DEF CompletedOf
<1> QED
  BY <1>3, <1>4 DEF Lifecycle!vars, CompletedOf, Decided

\* An INSERT is the request.
LEMMA InsertRequests ==
    ASSUME TypeOK, NEW a \in Approvals, row[a] = "none", Insert(a),
           performed' = performed
    PROVE  Lifecycle!Request(a)
<1>1. \A b \in Approvals : row'[b] = IF b = a THEN "PENDING" ELSE row[b]
  BY DEF TypeOK, Insert
<1>2. DecisionOf' = [DecisionOf EXCEPT ![a] = "PENDING"]
  BY <1>1 DEF DecisionOf, Decided
<1>3. DecisionOf[a] = "none"
  BY DEF DecisionOf, Decided
<1>4. CompletedOf' = CompletedOf
  BY <1>1 DEF CompletedOf
<1> QED
  BY <1>2, <1>3, <1>4
  DEF Lifecycle!Request, DecisionOf, CompletedOf, Decided

\* The UPDATE of SetStatus is the decision, or changes nothing.
LEMMA UpdateDecides ==
    ASSUME TypeOK, NEW c \in Resolutions, performed' = performed,
           UpdateWhere(c.id, "PENDING", c.verdict)
    PROVE  \/ Lifecycle!Decide(c.id, c.verdict)
           \/ UNCHANGED Lifecycle!vars
<1>1. c.id \in Approvals /\ c.verdict \in {"APPROVED", "REJECTED"}
  BY DEF Resolutions, Verdicts
<1>2. CASE row[c.id] = "PENDING"
  <2>1. \A b \in Approvals : row'[b] = IF b = c.id THEN c.verdict ELSE row[b]
    BY <1>1, <1>2 DEF TypeOK, UpdateWhere
  <2>2. DecisionOf' = [DecisionOf EXCEPT ![c.id] = c.verdict]
    BY <1>1, <2>1 DEF DecisionOf, Decided
  <2>3. DecisionOf[c.id] = "PENDING"
    BY <1>1, <1>2 DEF DecisionOf, Decided
  <2>4. CompletedOf' = CompletedOf
    BY <1>1, <1>2, <2>1 DEF CompletedOf
  <2> QED
    BY <2>2, <2>3, <2>4
    DEF Lifecycle!Decide, DecisionOf, CompletedOf, Decided
<1>3. CASE row[c.id] # "PENDING"
  <2>1. row' = row
    BY <1>3 DEF UpdateWhere
  <2> QED
    BY <2>1, RowsKept
<1> QED
  BY <1>2, <1>3

\* A run of the tool by the claimant is the one permitted performance.
LEMMA RunPerforms ==
    ASSUME Inv, NEW x \in Executions, Execute(x)
    PROVE  Lifecycle!Perform(x) \/ UNCHANGED Lifecycle!vars
<1>1. CASE x \in ctxDone \/ x.id \in Unsupported
  BY <1>1, RowsKept DEF Execute
<1>2. CASE ~(x \in ctxDone \/ x.id \in Unsupported)
  <2>1. x.id \in Approvals
    BY DEF Executions
  <2>2. Claimant(x) /\ row[x.id] = "EXECUTING" /\ x \notin performed
    BY <2>1 DEF Inv, Claimant, ClaimantUnique, PerformedHeld, Execute
  <2>3. \A y \in performed : y.id # x.id
    BY <2>2 DEF Inv, TypeOK, ClaimantUnique, PerformedHeld
  <2>4. performed' = performed \cup {x} /\ row' = row
    BY <1>2 DEF Execute
  <2>5. DecisionOf[x.id] = "APPROVED"
    BY <2>1, <2>2 DEF DecisionOf, Decided
  <2> QED
    BY <2>3, <2>4, <2>5 DEF Lifecycle!Perform, DecisionOf, Decided
<1> QED
  BY <1>1, <1>2

\* FinishExecution completes a request that was performed.
LEMMA FinishCompletes ==
    ASSUME Inv, NEW x \in Executions, execute[x] \in {"ran", "lostfinish"},
           UpdateWhere(x.id, "EXECUTING", "EXECUTED"), performed' = performed
    PROVE  Lifecycle!Complete(x.id)
<1>1. x.id \in Approvals
  BY DEF Executions
<1>2. x \in performed /\ row[x.id] = "EXECUTING"
  BY <1>1 DEF Inv, PerformedHeld, ClaimantUnique, Claimant
<1>3. \A a \in Approvals : row'[a] = IF a = x.id THEN "EXECUTED" ELSE row[a]
  BY <1>1, <1>2 DEF Inv, TypeOK, UpdateWhere
<1>4. x.id \notin CompletedOf /\ CompletedOf' = CompletedOf \cup {x.id}
  BY <1>1, <1>2, <1>3 DEF CompletedOf
<1>5. DecisionOf' = DecisionOf
  BY <1>2, <1>3 DEF DecisionOf, Decided
<1> QED
  BY <1>2, <1>4, <1>5
  DEF Lifecycle!Complete, DecisionOf, CompletedOf, Decided

\* Every step is one of the lifecycle or leaves it alone.
LEMMA NextRefines == Inv /\ [Next]_vars => [Lifecycle!Next]_(Lifecycle!vars)
<1> SUFFICES ASSUME Inv, [Next]_vars
             PROVE  Lifecycle!Next \/ UNCHANGED Lifecycle!vars
  OBVIOUS
<1>0. TypeOK
  BY DEF Inv
<1>1. ASSUME NEW a \in Approvals, CreateApproval(a)
      PROVE  Lifecycle!Next \/ UNCHANGED Lifecycle!vars
  BY <1>1, <1>0, InsertRequests DEF Inv, RowCreated, CreateApproval, Lifecycle!Next
<1>2. ASSUME NEW a \in Approvals, CreateFails(a)
      PROVE  Lifecycle!Next \/ UNCHANGED Lifecycle!vars
  BY <1>2, RowsKept DEF CreateFails
<1>3. ASSUME NEW a \in Approvals, LateCreate(a)
      PROVE  Lifecycle!Next \/ UNCHANGED Lifecycle!vars
  BY <1>3, <1>0, InsertRequests DEF Inv, RowCreated, LateCreate, Lifecycle!Next
<1>4. ASSUME NEW a \in Approvals, RecordRequested(a)
      PROVE  Lifecycle!Next \/ UNCHANGED Lifecycle!vars
  BY <1>4, RowsKept DEF RecordRequested
<1>5. ASSUME NEW c \in Resolutions, SetStatus(c)
      PROVE  Lifecycle!Next \/ UNCHANGED Lifecycle!vars
  <2>1. UpdateWhere(c.id, "PENDING", c.verdict) /\ performed' = performed
    BY <1>5 DEF SetStatus
  <2>2. c.id \in Approvals /\ c.verdict \in Lifecycle!Verdicts
    BY DEF Resolutions, Verdicts, Lifecycle!Verdicts
  <2> QED
    BY <1>0, <2>1, <2>2, UpdateDecides DEF Lifecycle!Next
<1>6. ASSUME NEW c \in Resolutions, SetStatusFails(c)
      PROVE  Lifecycle!Next \/ UNCHANGED Lifecycle!vars
  BY <1>6, RowsKept DEF SetStatusFails
<1>7. ASSUME NEW c \in Resolutions, LateSetStatus(c)
      PROVE  Lifecycle!Next \/ UNCHANGED Lifecycle!vars
  <2>1. UpdateWhere(c.id, "PENDING", c.verdict) /\ performed' = performed
    BY <1>7 DEF LateSetStatus
  <2>2. c.id \in Approvals /\ c.verdict \in Lifecycle!Verdicts
    BY DEF Resolutions, Verdicts, Lifecycle!Verdicts
  <2> QED
    BY <1>0, <2>1, <2>2, UpdateDecides DEF Lifecycle!Next
<1>8. ASSUME NEW c \in Resolutions, RecordResolution(c)
      PROVE  Lifecycle!Next \/ UNCHANGED Lifecycle!vars
  BY <1>8, RowsKept DEF RecordResolution
<1>9. ASSUME NEW x \in Executions, GetApproval(x)
      PROVE  Lifecycle!Next \/ UNCHANGED Lifecycle!vars
  BY <1>9, RowsKept DEF GetApproval
<1>10. ASSUME NEW x \in Executions, GetFails(x)
      PROVE  Lifecycle!Next \/ UNCHANGED Lifecycle!vars
  BY <1>10, RowsKept DEF GetFails
<1>11. ASSUME NEW x \in Executions, ClaimExecution(x)
      PROVE  Lifecycle!Next \/ UNCHANGED Lifecycle!vars
  <2>1. performed' = performed
    BY <1>11 DEF ClaimExecution
  <2>2. CASE row[x.id] = "APPROVED"
    <3>1. row' = [row EXCEPT ![x.id] = "EXECUTING"]
      BY <1>11, <2>2 DEF ClaimExecution, UpdateWhere
    <3> QED
      BY <1>0, <2>1, <2>2, <3>1, ClaimMoves
  <2>3. CASE row[x.id] # "APPROVED"
    <3>1. row' = row
      BY <1>11, <2>3 DEF ClaimExecution, UpdateWhere
    <3> QED
      BY <2>1, <3>1, RowsKept
  <2> QED
    BY <2>2, <2>3
<1>12. ASSUME NEW x \in Executions, ClaimFails(x)
      PROVE  Lifecycle!Next \/ UNCHANGED Lifecycle!vars
  BY <1>12, RowsKept DEF ClaimFails
<1>13. ASSUME NEW x \in Executions, LateClaim(x)
      PROVE  Lifecycle!Next \/ UNCHANGED Lifecycle!vars
  <2>1. performed' = performed
    BY <1>13 DEF LateClaim
  <2>2. CASE row[x.id] = "APPROVED"
    <3>1. row' = [row EXCEPT ![x.id] = "EXECUTING"]
      BY <1>13, <2>2 DEF LateClaim, UpdateWhere
    <3> QED
      BY <1>0, <2>1, <2>2, <3>1, ClaimMoves
  <2>3. CASE row[x.id] # "APPROVED"
    <3>1. row' = row
      BY <1>13, <2>3 DEF LateClaim, UpdateWhere
    <3> QED
      BY <2>1, <3>1, RowsKept
  <2> QED
    BY <2>2, <2>3
<1>14. ASSUME NEW x \in Executions, RecordStarted(x)
      PROVE  Lifecycle!Next \/ UNCHANGED Lifecycle!vars
  BY <1>14, RowsKept DEF RecordStarted
<1>15. ASSUME NEW x \in Executions, Execute(x)
      PROVE  Lifecycle!Next \/ UNCHANGED Lifecycle!vars
  BY <1>15, RunPerforms DEF Lifecycle!Next
<1>16. ASSUME NEW x \in Executions, FailExecution(x)
      PROVE  Lifecycle!Next \/ UNCHANGED Lifecycle!vars
  <2>1. row[x.id] = "EXECUTING"
    BY <1>16 DEF Inv, ClaimantUnique, Claimant, FailExecution, Executions
  <2>2. row' = [row EXCEPT ![x.id] = "APPROVED"] /\ performed' = performed
    BY <1>16, <2>1 DEF FailExecution, UpdateWhere
  <2> QED
    BY <1>0, <2>1, <2>2, ClaimMoves
<1>17. ASSUME NEW x \in Executions, FailExecutionFails(x)
      PROVE  Lifecycle!Next \/ UNCHANGED Lifecycle!vars
  BY <1>17, RowsKept DEF FailExecutionFails
<1>18. ASSUME NEW x \in Executions, LateFail(x)
      PROVE  Lifecycle!Next \/ UNCHANGED Lifecycle!vars
  <2>1. row[x.id] = "EXECUTING"
    BY <1>18 DEF Inv, ClaimantUnique, Claimant, LateFail, Executions
  <2>2. row' = [row EXCEPT ![x.id] = "APPROVED"] /\ performed' = performed
    BY <1>18, <2>1 DEF LateFail, UpdateWhere
  <2> QED
    BY <1>0, <2>1, <2>2, ClaimMoves
<1>19. ASSUME NEW x \in Executions, FinishExecution(x)
      PROVE  Lifecycle!Next \/ UNCHANGED Lifecycle!vars
  <2>1. Lifecycle!Complete(x.id)
    BY <1>19, FinishCompletes DEF FinishExecution
  <2> QED
    BY <2>1 DEF Lifecycle!Next, Executions
<1>20. ASSUME NEW x \in Executions, FinishFails(x)
      PROVE  Lifecycle!Next \/ UNCHANGED Lifecycle!vars
  BY <1>20, RowsKept DEF FinishFails
<1>21. ASSUME NEW x \in Executions, LateFinish(x)
      PROVE  Lifecycle!Next \/ UNCHANGED Lifecycle!vars
  <2>1. Lifecycle!Complete(x.id)
    BY <1>21, FinishCompletes DEF LateFinish
  <2> QED
    BY <2>1 DEF Lifecycle!Next, Executions
<1>22. ASSUME NEW x \in Executions, RecordSucceeded(x)
      PROVE  Lifecycle!Next \/ UNCHANGED Lifecycle!vars
  BY <1>22, RowsKept DEF RecordSucceeded
<1>23. ASSUME NEW x \in Executions, ClientLeaves(x)
      PROVE  Lifecycle!Next \/ UNCHANGED Lifecycle!vars
  BY <1>23, RowsKept DEF ClientLeaves
<1>24. ASSUME NEW x \in Executions, HandlerDies(x)
      PROVE  Lifecycle!Next \/ UNCHANGED Lifecycle!vars
  BY <1>24, RowsKept DEF HandlerDies
<1>25. CASE UNCHANGED vars
  BY <1>25, RowsKept DEF vars
<1> QED
  BY <1>1, <1>2, <1>3, <1>4, <1>5, <1>6, <1>7, <1>8, <1>9, <1>10, <1>11,
     <1>12, <1>13, <1>14, <1>15, <1>16, <1>17, <1>18, <1>19, <1>20, <1>21,
     <1>22, <1>23, <1>24, <1>25
  DEF Next, ExecuteStep

\* The approval handlers and the store implement the workflow: one decision
\* per request, no run of the tool before it is approved or after another
\* run, and EXECUTED only after a run.
THEOREM LifecycleRefinement == Spec => ImplementsLifecycle
<1>1. Init => Lifecycle!Init
  <2> SUFFICES ASSUME Init PROVE Lifecycle!Init
    OBVIOUS
  <2> QED
    BY DEF Init, Lifecycle!Init
<1>2. Inv /\ [Next]_vars => [Lifecycle!Next]_(Lifecycle!vars)
  BY NextRefines
<1> QED
  BY <1>1, <1>2, ApprovalInvariant, PTL
  DEF Spec, ImplementsLifecycle, Lifecycle!LifecycleSpec
==============================================================================
