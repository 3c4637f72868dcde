---------------------------- MODULE ChatPipeline ------------------------------
(***************************************************************************)
(* The chat endpoint (internal/api/chat.go): scan and score the prompt     *)
(* (internal/scanner, internal/risk), refuse it or redact it and ask the   *)
(* provider, scan the answer, audit, answer.  Requests share the counters  *)
(* of internal/metrics and the audit log, of which the model uses the      *)
(* promise, AuditLedger, that AsyncAudit implements.                       *)
(*                                                                         *)
(* A prompt is a sequence of messages, a message a sequence of the lines   *)
(* of Scanner.                                                             *)
(***************************************************************************)
EXTENDS Scanner, AuditLedger, SequencesExt

CONSTANTS
    Prompts,   \* prompts a request can carry
    Outputs,   \* what a provider can answer
    None

ASSUME ChatAssumption ==
    /\ Prompts \subseteq Seq(Seq(Line)) /\ <<>> \notin Prompts
    /\ Outputs \subseteq Seq(Line) /\ None \notin Outputs
    /\ None \notin [action : {"BLOCK", "REVIEW", "ALLOW_WITH_REDACTION", "ALLOW"}, score : Int]

\* The ledger's events are the requests: none writes a second one.
Requests == Events

VARIABLES
    pc, prompt, decision,
    given,      \* the messages the provider received
    output,     \* its answer
    answer,     \* [status, decision, body]
    clientGone, \* the request context is done
    event,      \* what Write was given
    securityBlocks, redactions, providerErrors,   \* counters of metrics.go
    lost        \* history: requests whose audit write returned an error

chatVars == <<pc, prompt, decision, given, output, answer, clientGone, event,
              securityBlocks, redactions, providerErrors, lost>>
vars == <<chatVars, ledgerVars>>

Refusal == [action |-> "BLOCK", score |-> 100]

-----------------------------------------------------------------------------
(* The decision *)

Capped(score) == IF score > 100 THEN 100 ELSE score

Action(score) ==
    IF score >= 80 THEN "BLOCK"
    ELSE IF score >= 60 THEN "REVIEW"
    ELSE IF score >= 30 THEN "ALLOW_WITH_REDACTION"
    ELSE "ALLOW"

\* Mutant: the gravest finding alone decides.
EvaluateGravest(ls) ==
    LET pii == IF PIIFinding(ls) THEN 30 ELSE 0
        secret == IF SecretFinding(ls) THEN 95 ELSE 0
        gravest == CHOOSE m \in {pii, secret, Confidence(ls)} :
                      \A n \in {pii, secret, Confidence(ls)} : m >= n
    IN  [action |-> Action(gravest), score |-> gravest]

\* risk.Evaluate on the findings of the whole prompt.
Evaluate(ls) ==
    LET score == Capped((IF PIIFinding(ls) THEN 30 ELSE 0)
                        + (IF SecretFinding(ls) THEN 95 ELSE 0)
                        + Confidence(ls))
    IN  [action |-> Action(score), score |-> score]

-----------------------------------------------------------------------------
(* The handler *)

Init ==
    /\ pc = [r \in Requests |-> "received"]
    /\ prompt \in [Requests -> Prompts]
    /\ decision = [r \in Requests |-> None]
    /\ given = [r \in Requests |-> None]
    /\ output = [r \in Requests |-> None]
    /\ answer = [r \in Requests |-> None]
    /\ clientGone = [r \in Requests |-> FALSE]
    /\ event = [r \in Requests |-> None]
    /\ securityBlocks = 0 /\ redactions = 0 /\ providerErrors = 0
    /\ lost = {}
    /\ LedgerInit

Step(r, from, to) == pc[r] = from /\ pc' = [pc EXCEPT ![r] = to]

Answer(r, status, action, body) ==
    answer' = [answer EXCEPT ![r] = [status |-> status, decision |-> action, body |-> body]]

\* A body that does not parse, or has no messages.
RejectBody(r) ==
    /\ Step(r, "received", "done")
    /\ Answer(r, 400, None, None)
    /\ UNCHANGED <<prompt, decision, given, output, clientGone, event, securityBlocks,
                   redactions, providerErrors, lost, ledgerVars>>

\* The scans read all messages as one text.  A refusal is counted at once.
ScanAndDecide(r) ==
    LET verdict == Evaluate(FlattenSeq(prompt[r]))
        blocked == verdict.action = "BLOCK"
    IN  /\ Step(r, "received", IF blocked THEN "blocked" ELSE "allowed")
        /\ decision' = [decision EXCEPT ![r] = verdict]
        /\ securityBlocks' = IF blocked THEN securityBlocks + 1 ELSE securityBlocks
        /\ UNCHANGED <<prompt, given, output, answer, clientGone, event,
                       redactions, providerErrors, lost, ledgerVars>>

\* Each message is redacted by itself.
AskProvider(r) ==
    /\ Step(r, "allowed", "asked")
    /\ given' = [given EXCEPT ![r] = [m \in DOMAIN prompt[r] |-> Redacted(prompt[r][m])]]
    /\ UNCHANGED <<prompt, decision, output, answer, clientGone, event, securityBlocks,
                   redactions, providerErrors, lost, ledgerVars>>

\* A provider that fails, does not exist or does not answer in time: the
\* handler ends without an audit event.
ProviderFails(r) ==
    /\ Step(r, "asked", "done")
    /\ providerErrors' = providerErrors + 1
    /\ \E status \in {502, 504} : Answer(r, status, None, None)
    /\ UNCHANGED <<prompt, decision, given, output, clientGone, event, securityBlocks,
                   redactions, lost, ledgerVars>>

\* ScanOutput found a secret: another refusal, also without an audit event.
BlockOutput(r, out) ==
    /\ Step(r, "asked", "done")
    /\ SecretFinding(out)
    /\ output' = [output EXCEPT ![r] = out]
    /\ Answer(r, 403, Refusal.action, None)
    /\ UNCHANGED <<prompt, decision, given, clientGone, event, securityBlocks,
                   redactions, providerErrors, lost, ledgerVars>>

PassOutput(r, out) ==
    /\ Step(r, "asked", "passed")
    /\ ~SecretFinding(out)
    /\ output' = [output EXCEPT ![r] = out]
    /\ redactions' = IF decision[r].action = "ALLOW_WITH_REDACTION" THEN redactions + 1
                                                                      ELSE redactions
    /\ UNCHANGED <<prompt, decision, given, answer, clientGone, event, securityBlocks,
                   providerErrors, lost, ledgerVars>>

\* Mutants: an event is written before the provider is asked, too; a sealed
\* log refuses nothing.
WriteAuditEarly(r) ==
    /\ \/ Step(r, "blocked", "audited")
       \/ Step(r, "allowed", "allowed")
       \/ Step(r, "passed", "audited")
    /\ event' = [event EXCEPT ![r] = decision[r]]
    /\ \/ Accept(r) /\ UNCHANGED lost
       \/ /\ phase # "open" \/ clientGone[r]
          /\ lost' = lost \cup {r}
          /\ UNCHANGED ledgerVars
    /\ UNCHANGED <<prompt, decision, given, output, answer, clientGone, securityBlocks,
                   redactions, providerErrors>>

WriteAuditWhenSealed(r) ==
    /\ \/ Step(r, "blocked", "audited")
       \/ Step(r, "passed", "audited")
    /\ event' = [event EXCEPT ![r] = decision[r]]
    /\ \/ Accept(r) /\ UNCHANGED lost
       \/ clientGone[r] /\ lost' = lost \cup {r} /\ UNCHANGED ledgerVars
    /\ UNCHANGED <<prompt, decision, given, output, answer, clientGone, securityBlocks,
                   redactions, providerErrors>>

\* writeAuditWithTrace returned: the log took the event, or refused it since
\* it is sealed or the client is gone.  Its error is dropped.
WriteAudit(r) ==
    /\ \/ Step(r, "blocked", "audited")
       \/ Step(r, "passed", "audited")
    /\ event' = [event EXCEPT ![r] = decision[r]]
    /\ \/ Accept(r) /\ UNCHANGED lost
       \/ /\ phase # "open" \/ clientGone[r]
          /\ lost' = lost \cup {r}
          /\ UNCHANGED ledgerVars
    /\ UNCHANGED <<prompt, decision, given, output, answer, clientGone, securityBlocks,
                   redactions, providerErrors>>

Respond(r) ==
    /\ Step(r, "audited", "done")
    /\ IF decision[r].action = "BLOCK"
         THEN Answer(r, 403, decision[r].action, None)
         ELSE Answer(r, 200, decision[r].action, Redacted(output[r]))
    /\ UNCHANGED <<prompt, decision, given, output, clientGone, event, securityBlocks,
                   redactions, providerErrors, lost, ledgerVars>>

-----------------------------------------------------------------------------
(* The environment *)

ClientLeaves(r) ==
    /\ pc[r] # "done" /\ ~clientGone[r]
    /\ clientGone' = [clientGone EXCEPT ![r] = TRUE]
    /\ UNCHANGED <<pc, prompt, decision, given, output, answer, event, securityBlocks,
                   redactions, providerErrors, lost, ledgerVars>>

\* Steps of the audit log: Close, and the worker's batches.
LogStep ==
    /\ Seal \/ MakeDurable \/ ReportDrained \/ MakeDurableAndReport
    /\ UNCHANGED chatVars

ProviderAnswers(r) == \E out \in Outputs : BlockOutput(r, out) \/ PassOutput(r, out)

Handle(r) ==
    \/ RejectBody(r) \/ ScanAndDecide(r) \/ AskProvider(r)
    \/ ProviderFails(r) \/ ProviderAnswers(r) \/ WriteAudit(r) \/ Respond(r)

Next ==
    \/ \E r \in Requests : Handle(r) \/ ClientLeaves(r)
    \/ LogStep

Spec == Init /\ [][Next]_vars

\* Handlers run, the provider answers within its timeout or the call fails,
\* and the log persists what it accepted.
Fairness ==
    /\ \A r \in Requests : WF_vars(Handle(r))
    /\ WF_vars(MakeDurable /\ UNCHANGED chatVars)

FairSpec == Spec /\ Fairness

-----------------------------------------------------------------------------
(* Properties *)

\* The scans read the joined messages, the redaction each message, the model
\* all of them: what the provider received holds no secret, no personal
\* datum of one message, no severe instruction, and not both a mild one and
\* a personal datum in the prompt; no answer holds a secret or a personal
\* datum.
NothingSensitiveLeaves ==
    \A r \in Requests :
       /\ given[r] # None =>
             LET sent == FlattenSeq(given[r])
             IN  /\ ~SecretFinding(sent)
                 /\ Confidence(sent) < 80
                 /\ \A m \in DOMAIN given[r] : ~PIIFinding(given[r][m])
                 /\ ~(PIIFinding(FlattenSeq(prompt[r])) /\ Finding(sent))
       /\ answer[r] # None /\ answer[r].body # None =>
             ~PIIFinding(answer[r].body) /\ ~SecretFinding(answer[r].body)

\* The trail, the counters and the answers tell one story.  An event names
\* the decision that was answered; a decided request ends without one only
\* when the provider failed, its output was blocked or the write was
\* refused, and that only after the client left or the log was sealed; a
\* request refused for its prompt never reached the provider; and the block
\* counter differs from the rows by the refused writes and those to come.
TrailAndMetricsAgree ==
    LET refused == {r \in Requests : decision[r] # None /\ decision[r].action = "BLOCK"}
        rows == {r \in Range(accepted) : event[r].action = "BLOCK"}
    IN  /\ \A r \in refused : given[r] = None
        /\ \A r \in Range(accepted) : answer[r] # None => answer[r].decision = event[r].action
        /\ \A r \in Requests \ Range(accepted) :
              answer[r] # None /\ r \notin lost =>
                 \/ answer[r].status \in {400, 502, 504}
                 \/ output[r] # None /\ SecretFinding(output[r])
        /\ \A r \in lost : phase # "open" \/ clientGone[r]
        /\ securityBlocks =
              Cardinality(rows) + Cardinality(refused \cap lost)
              + Cardinality({r \in refused : pc[r] = "blocked"})

DurableEvents == {accepted[i] : i \in 1 .. durable}

\* Every request is answered, and a decision that was answered becomes a row
\* of the audit log unless its write was refused.
AnsweredAndStored ==
    \A r \in Requests :
       <>(pc[r] = "done" /\ (r \in DurableEvents \/ r \in lost \/ event[r] = None))
==============================================================================
