--------------------------- MODULE GatewayShutdown ---------------------------
(***************************************************************************)
(* The end of a gateway process in async audit mode (cmd/sentrymesh/       *)
(* main.go): the main goroutine waits for a signal, calls server.Shutdown, *)
(* and on return from main its deferred calls close the audit writer and   *)
(* then the repositories.  Around it run the requests of the HTTP server,  *)
(* each of which writes one audit event through AsyncAudit, and the worker *)
(* of AsyncAudit.                                                          *)
(***************************************************************************)
EXTENDS AsyncAudit

ASSUME OneMain == \E c \in Closers : Closers = {c}

VARIABLES
    main,      \* where the main goroutine is
    arrived,   \* requests the HTTP server has accepted
    answered,  \* requests whose handler has returned
    rushed,    \* Shutdown returned at its deadline, with requests unanswered
    attempt    \* an attempt of the worker was under way when the repositories
               \* were told to close; they wait for it

mainVars  == <<main, arrived, answered, rushed, attempt>>
allVars   == <<vars, mainVars>>

MainState ==
    {"serving",   \* in the select on errCh and signalCh
     "shutdown",  \* in server.Shutdown
     "draining",  \* in the deferred asyncAudit.Close
     "closing",   \* in the deferred deps.Close
     "exited",    \* main returned
     "fatal"}     \* log.Fatal: no deferred call runs

Running == main \notin {"exited", "fatal"}

GatewayInit ==
    /\ Init
    /\ main = "serving"
    /\ arrived = {} /\ answered = {}
    /\ rushed = FALSE /\ attempt = FALSE

-----------------------------------------------------------------------------
(* Requests *)

Arrive(e) ==
    /\ main = "serving"
    /\ e \notin arrived
    /\ arrived' = arrived \cup {e}
    /\ UNCHANGED <<vars, main, answered, rushed, attempt>>

\* The handler of a request calls Write, and drops the error of Write.
Handle(e) ==
    /\ Running
    /\ e \in arrived \ answered
    /\ WriterStep(e)
    /\ UNCHANGED mainVars

\* The handler returns; a request refused before its audit event writes none.
Answer(e) ==
    /\ Running
    /\ e \in arrived \ answered
    /\ write[e] \in {"idle", "acked", "refused", "cancelled"}
    /\ answered' = answered \cup {e}
    /\ UNCHANGED <<vars, main, arrived, rushed, attempt>>

-----------------------------------------------------------------------------
(* The worker *)

\* Steps that do not touch the repository.
Work ==
    /\ Running
    /\ Receive \/ Tick \/ Stop \/ DrainEmpty
    /\ UNCHANGED mainVars

\* Closing repositories let the attempt that is under way end, and refuse
\* every later one.
Persist ==
    /\ Running
    /\ main = "closing" => attempt
    /\ PersistBatch \/ PersistFails
    /\ attempt' = FALSE
    /\ UNCHANGED <<main, arrived, answered, rushed>>

\* That attempt leaves nothing (failures counts the earlier ones only).
LastAttemptFails ==
    /\ attempt
    /\ attempt' = FALSE
    /\ UNCHANGED <<vars, main, arrived, answered, rushed>>

-----------------------------------------------------------------------------
(* The main goroutine *)

\* ListenAndServe returns an error: log.Fatal ends the process.
ListenFails ==
    /\ main = "serving"
    /\ main' = "fatal"
    /\ UNCHANGED <<vars, arrived, answered, rushed, attempt>>

Signal ==
    /\ main = "serving"
    /\ main' = "shutdown"
    /\ UNCHANGED <<vars, arrived, answered, rushed, attempt>>

\* Mutant: the listener is closed but nobody waits for the handlers.
ShutdownDoesNotWait ==
    /\ main = "shutdown"
    /\ main' = "draining"
    /\ UNCHANGED <<vars, arrived, answered, rushed, attempt>>

\* Shutdown returns when no connection is active.
ShutdownCompletes ==
    /\ main = "shutdown"
    /\ arrived \subseteq answered
    /\ main' = "draining"
    /\ UNCHANGED <<vars, arrived, answered, rushed, attempt>>

\* Shutdown returns at its deadline.  The handlers go on, with contexts that
\* only their clients can end.
ShutdownTimesOut ==
    /\ main = "shutdown"
    /\ ~(arrived \subseteq answered)
    /\ main' = "draining"
    /\ rushed' = TRUE
    /\ UNCHANGED <<vars, arrived, answered, attempt>>

\* The deferred function that closes the audit writer.
CloseAudit(c) ==
    /\ main = "draining"
    /\ CloserStep(c)
    /\ UNCHANGED mainVars

\* Mutant: the deferred calls run in the other order.
CloseRepositoriesFirst ==
    /\ main = "draining"
    /\ main' = "closing"
    /\ attempt' = (worker \in Flushing)
    /\ UNCHANGED <<vars, arrived, answered, rushed>>

\* Mutant: a Close that gave up is not good enough.
CloseRepositoriesWhenDrained ==
    /\ main = "draining"
    /\ \E c \in Closers : close[c] = "drained"
    /\ main' = "closing"
    /\ attempt' = FALSE
    /\ UNCHANGED <<vars, arrived, answered, rushed>>

\* Close of the audit writer returned, whatever it returned; deps.Close.
CloseRepositories ==
    /\ main = "draining"
    /\ \E c \in Closers : close[c] \in {"drained", "timedout"}
    /\ main' = "closing"
    /\ attempt' \in (IF worker \in Flushing THEN BOOLEAN ELSE {FALSE})
    /\ UNCHANGED <<vars, arrived, answered, rushed>>

Exit ==
    /\ main = "closing"
    /\ ~attempt
    /\ main' = "exited"
    /\ UNCHANGED <<vars, arrived, answered, rushed, attempt>>

-----------------------------------------------------------------------------
GatewayNext ==
    \/ \E e \in Events : Arrive(e) \/ Handle(e) \/ Answer(e)
    \/ Work \/ Persist \/ LastAttemptFails
    \/ ListenFails \/ Signal
    \/ ShutdownCompletes \/ ShutdownTimesOut
    \/ \E c \in Closers : CloseAudit(c)
    \/ CloseRepositories \/ Exit

GatewaySpec == GatewayInit /\ [][GatewayNext]_allVars

\* Goroutines run, deadlines pass, and an attempt of the worker ends within
\* WriteTimeout.  Nothing makes the store come back or a client leave.
GatewayFairness ==
    /\ \A e \in Events :
          /\ WF_allVars(Handle(e) /\ UNCHANGED ctxDone)
          /\ WF_allVars(Answer(e) /\ write[e] # "idle")
    /\ WF_allVars(Work)
    /\ WF_allVars(LastAttemptFails)
    /\ WF_allVars(ShutdownCompletes) /\ WF_allVars(ShutdownTimesOut)
    /\ \A c \in Closers : WF_allVars(CloseAudit(c))
    /\ WF_allVars(CloseRepositories) /\ WF_allVars(Exit)

GatewayFairSpec == GatewaySpec /\ GatewayFairness

-----------------------------------------------------------------------------
(* Properties *)

\* Every variable has its type, and an attempt outlives the call that closes
\* the repositories only in a worker that was writing.
GatewayTypeOK ==
    /\ TypeOK
    /\ main \in MainState
    /\ answered \subseteq arrived /\ arrived \subseteq Events
    /\ rushed \in BOOLEAN
    /\ attempt \in BOOLEAN
    /\ attempt => main = "closing" /\ worker \in Flushing

\* The repositories are closed only after the audit writer reported its
\* drain, with every acknowledged event stored, or gave up at its deadline.
RepositoriesOutliveQueue ==
    main \in {"closing", "exited"} =>
        \A c \in Closers :
            \/ close[c] = "timedout"
            \/ close[c] = "drained" /\ \A e \in Events : write[e] = "acked" => Stored(e)

\* Shutdown before Close keeps the writer open for every request that was
\* accepted: none is refused with ErrAsyncClosed unless Shutdown gave up.
RefusedOnlyWhenRushed ==
    \A e \in Events : write[e] = "refused" => rushed

\* After a signal the process ends, with the store up or down, except while
\* a handler whose client stays connected is blocked on the full queue for
\* ever: it holds the read lock, and Close takes the lock without a deadline.
GatewayExits ==
    \/ main = "shutdown" ~> main = "exited"
    \/ <>[](\E e \in Events : write[e] = "blocked" /\ e \notin ctxDone)
==============================================================================
