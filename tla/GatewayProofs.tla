---------------------------- MODULE GatewayProofs -----------------------------
(***************************************************************************)
(* The end of the process in GatewayShutdown, for any number of requests   *)
(* and any queue.  The gateway takes only steps of AsyncAudit, so what     *)
(* AsyncAuditProofs proves of the writer holds in the process as well.     *)
(* What the order of the deferred calls adds is in OrderlyEnd: the writer  *)
(* is closed by the draining main goroutine only, and from then on either  *)
(* Shutdown gave up or no handler runs.                                    *)
(***************************************************************************)
EXTENDS GatewayShutdown, AsyncAuditProofs

AfterShutdown == {"draining", "closing", "exited"}

OrderlyEnd ==
    /\ closed => main \in AfterShutdown
    /\ main \in AfterShutdown /\ ~rushed => arrived \subseteq answered
    /\ \A e \in Events : write[e] = "refused" => rushed

\* The repositories are told to close when Close of the writer has returned.
ClosedInOrder ==
    main \in {"closing", "exited"} => \A c \in Closers : close[c] \in {"drained", "timedout"}

GatewayInv ==
    /\ GatewayTypeOK
    /\ OrderlyEnd
    /\ ClosedInOrder

-----------------------------------------------------------------------------

\* Each step of the process is a step of the writer or leaves it alone.
LEMMA GatewayStepIsAuditStep ==
    ASSUME [GatewayNext]_allVars
    PROVE  [Next]_vars
<1>1. ASSUME NEW e \in Events, Arrive(e) \/ Handle(e) \/ Answer(e) PROVE [Next]_vars
  BY <1>1 DEF Arrive, Handle, Answer, Next
<1>2. CASE Work \/ Persist
  BY <1>2 DEF Work, Persist, Next, WorkerStep
<1>3. CASE LastAttemptFails \/ ListenFails \/ Signal \/ ShutdownCompletes \/ ShutdownTimesOut
           \/ CloseRepositories \/ Exit
  BY <1>3 DEF LastAttemptFails, ListenFails, Signal, ShutdownCompletes, ShutdownTimesOut,
              CloseRepositories, Exit
<1>4. ASSUME NEW c \in Closers, CloseAudit(c) PROVE [Next]_vars
  BY <1>4 DEF CloseAudit, Next
<1> QED
  BY <1>1, <1>2, <1>3, <1>4 DEF GatewayNext, allVars

\* The writer inside the gateway process behaves as AsyncAudit says, so every
\* theorem about it holds of the process.
THEOREM GatewayRunsAudit == GatewaySpec => Spec
<1>1. GatewayInit => Init
  BY DEF GatewayInit
<1>2. [GatewayNext]_allVars => [Next]_vars
  BY GatewayStepIsAuditStep
<1> QED
  BY <1>1, <1>2, PTL DEF GatewaySpec, Spec

-----------------------------------------------------------------------------
(* The order of the end *)

\* The process starts with no request and an open writer.
LEMMA GatewayInvInit ==
    ASSUME GatewayInit, TypeOK
    PROVE  GatewayInv
  BY DEF GatewayInit, Init, GatewayInv, GatewayTypeOK, MainState, OrderlyEnd, AfterShutdown,
         ClosedInOrder

\* A handler moves only while its request is unanswered: before the writer is
\* closed, or after Shutdown gave up.
LEMMA HandleKeeps ==
    ASSUME GatewayInv, TypeOK', NEW e \in Events, Handle(e)
    PROVE  GatewayInv'
<1>1. /\ WriterStep(e) /\ UNCHANGED <<main, arrived, answered, rushed, attempt>>
      /\ e \in arrived \ answered
  BY DEF Handle, mainVars
<1>2. /\ UNCHANGED <<close, deadline, closed, worker>>
      /\ \/ write' = write
         \/ \E s \in WriteState : write' = [write EXCEPT ![e] = s] /\ (s = "refused" => closed)
  BY <1>1 DEF WriterStep, CallWrite, EnterWrite, Send, Saturate, Acknowledge, CancelWrite,
              RequestContextDone, callerVars, closerVars, workerVars, statVars, historyVars,
              WriteState
<1>3. OrderlyEnd'
  <2>1. closed => rushed
    BY <1>1 DEF GatewayInv, OrderlyEnd
  <2>2. \A f \in Events : write'[f] = "refused" => write[f] = "refused" \/ closed
    BY <1>2 DEF GatewayInv, GatewayTypeOK, TypeOK
  <2> QED
    BY <1>1, <1>2, <2>1, <2>2 DEF GatewayInv, OrderlyEnd
<1> QED
  BY <1>1, <1>2, <1>3 DEF GatewayInv, GatewayTypeOK, ClosedInOrder

\* The worker moves nothing that the order of the end speaks of.
LEMMA WorkerKeeps ==
    ASSUME GatewayInv, TypeOK', Work \/ Persist
    PROVE  GatewayInv'
<1>1. UNCHANGED <<write, close, closed, main, arrived, answered, rushed>>
  BY DEF Work, Persist, Receive, Tick, Stop, DrainEmpty, PersistBatch, PersistFails,
         callerVars, closerVars, mainVars
<1>2. attempt' \in BOOLEAN /\ (attempt' => attempt /\ worker' = worker)
  <2>1. CASE Work
    BY <2>1 DEF Work, Receive, Tick, Stop, DrainEmpty, mainVars, GatewayInv, GatewayTypeOK,
                Flushing
  <2>2. CASE Persist
    BY <2>2 DEF Persist
  <2> QED
    BY <2>1, <2>2
<1> QED
  BY <1>1, <1>2 DEF GatewayInv, GatewayTypeOK, OrderlyEnd, ClosedInOrder

\* The deferred Close, called when the main goroutine drains.
LEMMA CloseAuditKeeps ==
    ASSUME GatewayInv, TypeOK', NEW c \in Closers, CloseAudit(c)
    PROVE  GatewayInv'
<1>1. /\ main = "draining" /\ CloserStep(c)
      /\ UNCHANGED <<main, arrived, answered, rushed, attempt>>
  BY DEF CloseAudit, mainVars
<1>2. UNCHANGED <<write, worker>>
  BY <1>1 DEF CloserStep, CallClose, StopWriters, CloseDrained, CloseTimesOut, CloseDeadline,
              callerVars, workerVars
<1> QED
  BY <1>1, <1>2 DEF GatewayInv, GatewayTypeOK, OrderlyEnd, AfterShutdown, ClosedInOrder

\* The steps that leave the audit writer alone.
LEMMA MainKeeps ==
    ASSUME GatewayInv, TypeOK', UNCHANGED vars,
           \/ \E e \in Events : Arrive(e) \/ Answer(e)
           \/ LastAttemptFails \/ ListenFails \/ Signal \/ ShutdownCompletes
           \/ ShutdownTimesOut \/ CloseRepositories \/ Exit
    PROVE  GatewayInv'
<1>1. UNCHANGED <<write, close, closed, worker>>
  BY DEF vars, callerVars, closerVars, workerVars
<1> USE DEF GatewayInv, GatewayTypeOK, MainState, OrderlyEnd, AfterShutdown, ClosedInOrder
<1>2. ASSUME NEW e \in Events, Arrive(e) \/ Answer(e) PROVE GatewayInv'
  BY <1>1, <1>2 DEF Arrive, Answer
<1>3. CASE LastAttemptFails
  BY <1>1, <1>3 DEF LastAttemptFails
<1>4. CASE ListenFails
  BY <1>1, <1>4 DEF ListenFails
<1>5. CASE Signal
  BY <1>1, <1>5 DEF Signal
<1>6. CASE ShutdownCompletes
  BY <1>1, <1>6 DEF ShutdownCompletes
<1>7. CASE ShutdownTimesOut
  BY <1>1, <1>7 DEF ShutdownTimesOut
<1>8. CASE CloseRepositories
  <2>1. \A c \in Closers : close[c] \in {"drained", "timedout"}
    BY <1>8, OneMain DEF CloseRepositories
  <2>2. attempt' \in BOOLEAN /\ (attempt' => worker \in Flushing)
    BY <1>8 DEF CloseRepositories
  <2> QED
    BY <1>1, <1>8, <2>1, <2>2 DEF CloseRepositories
<1>9. CASE Exit
  BY <1>1, <1>9 DEF Exit
<1> QED
  BY <1>2, <1>3, <1>4, <1>5, <1>6, <1>7, <1>8, <1>9

\* Every step keeps the order of the deferred calls.
LEMMA GatewayInvStep ==
    ASSUME GatewayInv, TypeOK', [GatewayNext]_allVars
    PROVE  GatewayInv'
<1>1. CASE UNCHANGED allVars
  BY <1>1 DEF allVars, vars, mainVars, callerVars, closerVars, workerVars, GatewayInv,
              GatewayTypeOK, OrderlyEnd, ClosedInOrder
<1>2. CASE /\ \/ \E e \in Events : Arrive(e) \/ Answer(e)
              \/ LastAttemptFails \/ ListenFails \/ Signal \/ ShutdownCompletes
              \/ ShutdownTimesOut \/ CloseRepositories \/ Exit
  <2>1. UNCHANGED vars
    BY <1>2 DEF Arrive, Answer, LastAttemptFails, ListenFails, Signal, ShutdownCompletes,
                ShutdownTimesOut, CloseRepositories, Exit
  <2> QED
    BY <1>2, <2>1, MainKeeps
<1> QED
  BY <1>1, <1>2, HandleKeeps, WorkerKeeps, CloseAuditKeeps DEF GatewayNext

\* The order of the end of a gateway process, on any schedule.
THEOREM GatewayInvariant == GatewaySpec => []GatewayInv
<1>1. AuditInv => TypeOK
  BY DEF AuditInv
<1>2. GatewayInit /\ TypeOK => GatewayInv
  BY GatewayInvInit
<1>3. GatewayInv /\ TypeOK' /\ [GatewayNext]_allVars => GatewayInv'
  BY GatewayInvStep
<1> QED
  BY <1>1, <1>2, <1>3, GatewayRunsAudit, AuditInvariant, PTL DEF GatewaySpec

\* Every variable keeps its type, and the attempt that outlives the call that
\* closes the repositories is one of a worker that was writing.
THEOREM GatewayTypeCorrect == GatewaySpec => []GatewayTypeOK
<1>1. GatewayInv => GatewayTypeOK
  BY DEF GatewayInv
<1> QED
  BY <1>1, GatewayInvariant, PTL

\* deps.Close runs only when Close of the audit writer reported its drain, with
\* every acknowledged event stored, or gave up.
THEOREM QueueOutlived == GatewaySpec => []RepositoriesOutliveQueue
<1>1. GatewayInv /\ CloseMeansDrained => RepositoriesOutliveQueue
  BY DEF GatewayInv, ClosedInOrder, CloseMeansDrained, RepositoriesOutliveQueue
<1> QED
  BY <1>1, GatewayInvariant, GatewayRunsAudit, CloseDrains, PTL

\* Unless Shutdown gave up, no handler meets a closed audit writer.
THEOREM OrderlyShutdownRefusesNothing == GatewaySpec => []RefusedOnlyWhenRushed
<1>1. GatewayInv => RefusedOnlyWhenRushed
  BY DEF GatewayInv, OrderlyEnd, RefusedOnlyWhenRushed
<1> QED
  BY <1>1, GatewayInvariant, PTL
==============================================================================
