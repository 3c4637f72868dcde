------------------------------ MODULE ChatProofs ------------------------------
(***************************************************************************)
(* The audit trail of ChatPipeline, for any number of requests and any     *)
(* prompts and outputs.  TrailAndMetricsAgree speaks of what has ended;    *)
(* the invariant says of each place in the handler what is decided, given  *)
(* to the provider and logged there (Place), and that the block counter    *)
(* counts the refused (Counted).  Logged is the set of requests whose      *)
(* audit write has returned.  NothingSensitiveLeaves rests on a second     *)
(* invariant, of where each text that leaves came from (Sent), and on what *)
(* ScannerProofs says of redacted and joined texts.                        *)
(***************************************************************************)
EXTENDS ChatPipeline, ScannerProofs, FiniteSetTheorems

Verdict == [action : {"BLOCK", "REVIEW", "ALLOW_WITH_REDACTION", "ALLOW"}, score : Int]

Decided(r) == decision[r] # None
IsRefused(r) == decision[r] # None /\ decision[r].action = "BLOCK"
Refused == {r \in Requests : decision[r] # None /\ decision[r].action = "BLOCK"}
Logged(r) == r \in Range(accepted) \/ r \in lost

ChatTypeOK ==
    /\ pc \in [Requests -> {"received", "blocked", "allowed", "asked", "passed", "audited", "done"}]
    /\ decision \in [Requests -> Verdict \cup {None}]
    /\ given = [r \in Requests |-> given[r]] /\ output = [r \in Requests |-> output[r]]
    /\ answer = [r \in Requests |-> answer[r]] /\ event = [r \in Requests |-> event[r]]
    /\ clientGone \in [Requests -> BOOLEAN]
    /\ accepted \in Seq(Requests) /\ lost \subseteq Requests
    /\ securityBlocks \in Nat

Place(r) ==
    /\ pc[r] = "received" => ~Decided(r) /\ ~Logged(r)
    /\ pc[r] = "blocked" => IsRefused(r) /\ ~Logged(r)
    /\ pc[r] \in {"allowed", "asked", "passed"} => Decided(r) /\ ~IsRefused(r) /\ ~Logged(r)
    /\ pc[r] = "audited" => Decided(r) /\ Logged(r)
    /\ pc[r] # "done" => answer[r] = None
    /\ pc[r] = "done" /\ Logged(r) => Decided(r) /\ answer[r].decision = decision[r].action
    /\ pc[r] = "done" /\ ~Logged(r) =>
          /\ ~IsRefused(r)
          /\ \/ answer[r].status \in {400, 502, 504}
             \/ output[r] # None /\ SecretFinding(output[r])
    /\ pc[r] = "received" \/ IsRefused(r) => given[r] = None

LogAgrees ==
    /\ \A r \in Requests : Logged(r) => event[r] = decision[r]
    /\ \A r \in lost : r \notin Range(accepted) /\ (phase # "open" \/ clientGone[r])

Counted == IsFiniteSet(Refused) /\ securityBlocks = Cardinality(Refused)

ChatInv ==
    /\ ChatTypeOK
    /\ \A r \in Requests : Place(r)
    /\ LogAgrees
    /\ Counted

-----------------------------------------------------------------------------

\* What an accepted event adds to the log.
LEMMA RangeOfAppend ==
    ASSUME NEW S, NEW s \in Seq(S), NEW x \in S
    PROVE  Range(Append(s, x)) = Range(s) \cup {x}
<1> DEFINE t == Append(s, x)
<1>1. /\ Len(s) \in Nat /\ DOMAIN s = 1 .. Len(s)
      /\ DOMAIN t = 1 .. Len(s) + 1 /\ t[Len(s) + 1] = x
      /\ \A i \in 1 .. Len(s) : t[i] = s[i]
  OBVIOUS
<1> HIDE DEF t
<1>2. \A i \in DOMAIN t : i = Len(s) + 1 \/ i \in DOMAIN s
  BY <1>1
<1>3. \A i \in DOMAIN s : i \in DOMAIN t
  BY <1>1
<1>4. Len(s) + 1 \in DOMAIN t
  BY <1>1
<1>5. Range(t) = Range(s) \cup {x}
  BY <1>1, <1>2, <1>3, <1>4 DEF Range
<1> QED
  BY <1>5 DEF t

\* Whatever the lines, the risk engine returns one of its four actions.
LEMMA VerdictsAreTyped ==
    ASSUME NEW ls
    PROVE  Evaluate(ls) \in Verdict /\ Evaluate(ls) # None
<1>1. Confidence(ls) \in Int
  BY DEF Confidence
<1>2. \A score \in Int : Action(score) \in {"BLOCK", "REVIEW", "ALLOW_WITH_REDACTION", "ALLOW"}
  BY DEF Action
<1>3. \A score \in Int : Capped(score) \in Int
  BY DEF Capped
<1>4. (IF PIIFinding(ls) THEN 30 ELSE 0) + (IF SecretFinding(ls) THEN 95 ELSE 0) + Confidence(ls) \in Int
  BY <1>1
<1>5. Evaluate(ls) \in Verdict
  BY <1>2, <1>3, <1>4 DEF Evaluate, Verdict
<1> QED
  BY <1>5, ChatAssumption DEF ChatAssumption, Verdict

-----------------------------------------------------------------------------
(* Steps *)

\* A step of one handler changes what is known of its request only.
LEMMA OthersStay ==
    ASSUME ChatInv, NEW r \in Requests, Handle(r)
    PROVE  /\ \A q \in Requests \ {r} :
                /\ pc'[q] = pc[q] /\ decision'[q] = decision[q] /\ given'[q] = given[q]
                /\ output'[q] = output[q] /\ answer'[q] = answer[q] /\ event'[q] = event[q]
           /\ UNCHANGED <<clientGone, phase>>
<1> USE DEF Step, Answer, ledgerVars, ChatInv, ChatTypeOK
<1>1. CASE RejectBody(r)
  BY <1>1 DEF RejectBody
<1>2. CASE ScanAndDecide(r)
  BY <1>2 DEF ScanAndDecide
<1>3. CASE AskProvider(r)
  BY <1>3 DEF AskProvider
<1>4. CASE ProviderFails(r)
  BY <1>4 DEF ProviderFails
<1>5. ASSUME NEW out \in Outputs, BlockOutput(r, out) \/ PassOutput(r, out)
      PROVE  /\ \A q \in Requests \ {r} :
                  /\ pc'[q] = pc[q] /\ decision'[q] = decision[q] /\ given'[q] = given[q]
                  /\ output'[q] = output[q] /\ answer'[q] = answer[q] /\ event'[q] = event[q]
             /\ UNCHANGED <<clientGone, phase>>
  BY <1>5 DEF BlockOutput, PassOutput
<1>6. CASE WriteAudit(r)
  BY <1>6 DEF WriteAudit, Accept
<1>7. CASE Respond(r)
  BY <1>7 DEF Respond
<1> QED
  BY <1>1, <1>2, <1>3, <1>4, <1>5, <1>6, <1>7 DEF Handle, ProviderAnswers

\* Every step but the decision leaves the refused requests as they are.
LEMMA SameRefusals ==
    ASSUME Counted, UNCHANGED <<decision, securityBlocks>>
    PROVE  Counted'
  BY DEF Counted, Refused

\* A step of a handler that neither decides nor writes to the log.
LEMMA HandlerMoves ==
    ASSUME ChatInv, NEW r \in Requests, Handle(r), ChatTypeOK', Place(r)',
           UNCHANGED <<decision, event, securityBlocks, accepted, lost, phase, clientGone>>
    PROVE  ChatInv'
<1>1. \A q \in Requests \ {r} : Place(q)'
  BY OthersStay DEF ChatInv, Place, Decided, IsRefused, Logged
<1>2. LogAgrees'
  BY DEF ChatInv, LogAgrees, Logged
<1>3. Counted'
  BY SameRefusals DEF ChatInv
<1> QED
  BY <1>1, <1>2, <1>3 DEF ChatInv

\* Handler steps that touch neither the decision nor the log.
LEMMA QuietSteps ==
    ASSUME ChatInv, NEW r \in Requests,
           \/ RejectBody(r) \/ AskProvider(r) \/ ProviderFails(r)
           \/ ProviderAnswers(r) \/ Respond(r)
    PROVE  ChatInv'
<1>1. Handle(r)
  BY DEF Handle
<1>2. UNCHANGED <<decision, event, securityBlocks, accepted, lost, phase, clientGone>>
  BY DEF RejectBody, AskProvider, ProviderFails, ProviderAnswers, BlockOutput, PassOutput,
         Respond, ledgerVars
<1>3. ChatTypeOK'
  BY <1>2 DEF RejectBody, AskProvider, ProviderFails, ProviderAnswers, BlockOutput, PassOutput,
              Respond, Step, Answer, ChatInv, ChatTypeOK
<1>4. Place(r)'
  <2>1. /\ Place(r) /\ UNCHANGED <<decision, accepted, lost>>
        /\ r \in DOMAIN pc /\ r \in DOMAIN given /\ r \in DOMAIN output /\ r \in DOMAIN answer
    BY <1>2 DEF ChatInv, ChatTypeOK
  <2> USE DEF Place, Decided, IsRefused, Logged
  <2>2. CASE RejectBody(r)
    <3>1. /\ pc[r] = "received" /\ pc'[r] = "done" /\ answer'[r].status = 400
          /\ UNCHANGED <<given, output>>
      BY <2>1, <2>2 DEF RejectBody, Step, Answer
    <3> QED
      BY <2>1, <3>1
  <2>3. CASE AskProvider(r)
    <3>1. pc[r] = "allowed" /\ pc'[r] = "asked" /\ UNCHANGED <<output, answer>>
      BY <2>1, <2>3 DEF AskProvider, Step
    <3> QED
      BY <2>1, <3>1
  <2>4. CASE ProviderFails(r)
    <3>1. /\ pc[r] = "asked" /\ pc'[r] = "done" /\ answer'[r].status \in {502, 504}
          /\ UNCHANGED <<given, output>>
      BY <2>1, <2>4 DEF ProviderFails, Step, Answer
    <3> QED
      BY <2>1, <3>1
  <2>5. CASE ProviderAnswers(r)
    <3>1. PICK out \in Outputs : BlockOutput(r, out) \/ PassOutput(r, out)
      BY <2>5 DEF ProviderAnswers
    <3>2. out # None
      BY ChatAssumption DEF ChatAssumption
    <3>3. CASE BlockOutput(r, out)
      <4>1. /\ pc[r] = "asked" /\ pc'[r] = "done" /\ output'[r] = out /\ SecretFinding(out)
            /\ UNCHANGED given
        BY <2>1, <3>3 DEF BlockOutput, Step
      <4> QED
        BY <2>1, <3>2, <4>1
    <3>4. CASE PassOutput(r, out)
      <4>1. pc[r] = "asked" /\ pc'[r] = "passed" /\ UNCHANGED <<given, answer>>
        BY <2>1, <3>4 DEF PassOutput, Step
      <4> QED
        BY <2>1, <4>1
    <3> QED
      BY <3>1, <3>3, <3>4
  <2>6. CASE Respond(r)
    <3>1. /\ pc[r] = "audited" /\ pc'[r] = "done" /\ UNCHANGED <<given, output>>
          /\ answer'[r].decision = decision[r].action
      BY <2>1, <2>6 DEF Respond, Step, Answer
    <3> QED
      BY <2>1, <3>1
  <2> QED
    BY <2>2, <2>3, <2>4, <2>5, <2>6
<1> QED
  BY <1>1, <1>2, <1>3, <1>4, HandlerMoves

\* The decision counts a refusal at once.
LEMMA DecisionKeeps ==
    ASSUME ChatInv, NEW r \in Requests, ScanAndDecide(r)
    PROVE  ChatInv'
<1> DEFINE verdict == Evaluate(FlattenSeq(prompt[r]))
<1>1. /\ pc[r] = "received" /\ verdict \in Verdict /\ verdict # None
      /\ pc' = [pc EXCEPT ![r] = IF verdict.action = "BLOCK" THEN "blocked" ELSE "allowed"]
      /\ decision' = [decision EXCEPT ![r] = verdict]
      /\ securityBlocks' = IF verdict.action = "BLOCK" THEN securityBlocks + 1 ELSE securityBlocks
      /\ UNCHANGED <<given, output, answer, event, lost, accepted, phase, clientGone>>
  BY VerdictsAreTyped DEF ScanAndDecide, Step, ledgerVars
<1> HIDE DEF verdict
<1>2. ChatTypeOK'
  BY <1>1 DEF ChatInv, ChatTypeOK
<1>3. Place(r)
  BY DEF ChatInv
<1>4. decision'[r] = verdict /\ decision[r] = None
  BY <1>1, <1>3 DEF ChatInv, ChatTypeOK, Place, Decided
<1>5. \A q \in Requests : Place(q)'
  <2>1. Place(r)'
    BY <1>1, <1>3, <1>4 DEF ChatInv, ChatTypeOK, Place, Decided, IsRefused, Logged
  <2>2. \A q \in Requests \ {r} : Place(q)'
    BY <1>1, OthersStay DEF Handle, ChatInv, Place, Decided, IsRefused, Logged
  <2> QED
    BY <2>1, <2>2
<1>6. LogAgrees'
  BY <1>1, <1>3 DEF ChatInv, ChatTypeOK, LogAgrees, Place, Logged
<1>7. Counted'
  <2>1. Refused' = IF verdict.action = "BLOCK" THEN Refused \cup {r} ELSE Refused
    BY <1>1, <1>4 DEF Refused, ChatInv, ChatTypeOK
  <2>2. r \notin Refused
    BY <1>4 DEF Refused
  <2> QED
    BY <1>1, <2>1, <2>2, FS_AddElement DEF ChatInv, Counted
<1> QED
  BY <1>2, <1>5, <1>6, <1>7 DEF ChatInv

\* The audit write logs the request, or loses it with a cause.
LEMMA AuditKeeps ==
    ASSUME ChatInv, NEW r \in Requests, WriteAudit(r)
    PROVE  ChatInv'
<1>1. /\ pc[r] \in {"blocked", "passed"} /\ pc' = [pc EXCEPT ![r] = "audited"]
      /\ event' = [event EXCEPT ![r] = decision[r]]
      /\ UNCHANGED <<decision, given, output, answer, clientGone, securityBlocks, phase>>
      /\ \/ /\ r \notin Range(accepted) /\ accepted' = Append(accepted, r) /\ UNCHANGED lost
         \/ /\ phase # "open" \/ clientGone[r]
            /\ lost' = lost \cup {r} /\ UNCHANGED accepted
  BY DEF WriteAudit, Step, Accept, ledgerVars
<1>2. Place(r) /\ ChatTypeOK /\ LogAgrees
  BY DEF ChatInv
<1>3. \/ Range(accepted)' = Range(accepted) \cup {r} /\ lost' = lost
      \/ Range(accepted)' = Range(accepted) /\ lost' = lost \cup {r}
  <2>1. accepted \in Seq(Requests)
    BY <1>2 DEF ChatTypeOK
  <2>2. Range(Append(accepted, r)) = Range(accepted) \cup {r}
    BY <2>1, RangeOfAppend
  <2>3. accepted' = Append(accepted, r) => Range(accepted)' = Range(Append(accepted, r))
    BY DEF Range
  <2>4. accepted' = accepted => Range(accepted)' = Range(accepted)
    BY DEF Range
  <2> QED
    BY <1>1, <2>2, <2>3, <2>4
<1>4. \A q \in Requests : Logged(q)' <=> q = r \/ Logged(q)
  BY <1>3 DEF Logged
<1>5. ChatTypeOK'
  <2>1. accepted' \in Seq(Requests) /\ lost' \subseteq Requests
    <3>1. Append(accepted, r) \in Seq(Requests)
      BY <1>2 DEF ChatTypeOK
    <3> QED
      BY <1>1, <1>2, <3>1 DEF ChatTypeOK
  <2>2. pc' \in [Requests -> {"received", "blocked", "allowed", "asked", "passed", "audited", "done"}]
    BY <1>1, <1>2 DEF ChatTypeOK
  <2>3. event' = [q \in Requests |-> event'[q]]
    BY <1>1, <1>2 DEF ChatTypeOK
  <2> QED
    BY <1>1, <1>2, <2>1, <2>2, <2>3 DEF ChatTypeOK
<1>6. \A q \in Requests : Place(q)'
  <2>1. Place(r)'
    BY <1>1, <1>2, <1>4 DEF ChatTypeOK, Place, Decided, IsRefused
  <2>2. \A q \in Requests \ {r} : Place(q)'
    BY <1>1, <1>4, OthersStay DEF Handle, ChatInv, Place, Decided, IsRefused
  <2> QED
    BY <2>1, <2>2
<1>7. LogAgrees'
  <2>1. \A q \in Requests : Logged(q)' => event'[q] = decision'[q]
    BY <1>1, <1>2, <1>4 DEF ChatTypeOK, LogAgrees
  <2>2. r \notin lost /\ r \notin Range(accepted)
    BY <1>1, <1>2 DEF Place, Logged
  <2>3. \A q \in lost' : q \notin Range(accepted)' /\ (phase' # "open" \/ clientGone'[q])
    BY <1>1, <1>2, <1>3, <2>2 DEF LogAgrees
  <2> QED
    BY <2>1, <2>3 DEF LogAgrees
<1>8. Counted'
  BY <1>1, SameRefusals DEF ChatInv
<1> QED
  BY <1>5, <1>6, <1>7, <1>8 DEF ChatInv

\* Clients that leave and steps of the log.
LEMMA EnvironmentKeeps ==
    ASSUME ChatInv, (\E r \in Requests : ClientLeaves(r)) \/ LogStep
    PROVE  ChatInv'
<1>1. /\ UNCHANGED <<pc, decision, given, output, answer, event, securityBlocks, lost, accepted>>
      /\ clientGone' \in [Requests -> BOOLEAN]
      /\ \A r \in Requests : clientGone[r] => clientGone'[r]
      /\ phase # "open" => phase' # "open"
  BY DEF ClientLeaves, LogStep, chatVars, ledgerVars, Seal, MakeDurable, ReportDrained,
         MakeDurableAndReport, ChatInv, ChatTypeOK
<1>2. ChatTypeOK'
  BY <1>1 DEF ChatInv, ChatTypeOK
<1>3. \A r \in Requests : Place(r)'
  BY <1>1 DEF ChatInv, Place, Decided, IsRefused, Logged
<1>4. LogAgrees'
  BY <1>1 DEF ChatInv, ChatTypeOK, LogAgrees, Logged
<1>5. Counted'
  BY <1>1, SameRefusals DEF ChatInv
<1> QED
  BY <1>2, <1>3, <1>4, <1>5 DEF ChatInv

\* Every step keeps the invariant.
LEMMA ChatInvStep ==
    ASSUME ChatInv, [Next]_vars
    PROVE  ChatInv'
<1>1. CASE UNCHANGED vars
  <2>1. UNCHANGED <<pc, decision, given, output, answer, event, securityBlocks, lost, accepted,
                    clientGone, phase>>
    BY <1>1 DEF vars, chatVars, ledgerVars
  <2> QED
    BY <2>1 DEF ChatInv, ChatTypeOK, Place, Decided, IsRefused, Logged, LogAgrees, Counted,
                Refused
<1> QED
  BY <1>1, QuietSteps, DecisionKeeps, AuditKeeps, EnvironmentKeeps DEF Next, Handle

\* No request has arrived at the start.
LEMMA ChatInvInit ==
    ASSUME Init
    PROVE  ChatInv
<1>1. ChatTypeOK
  BY DEF Init, LedgerInit, ChatTypeOK
<1>2. Range(accepted) = {} /\ lost = {}
  BY DEF Init, LedgerInit, Range
<1>3. \A r \in Requests : Place(r)
  BY <1>2 DEF Init, Place, Decided, IsRefused, Logged
<1>4. LogAgrees
  BY <1>2 DEF LogAgrees, Logged
<1>5. Counted
  <2>1. Refused = {} /\ securityBlocks = 0
    BY DEF Init, Refused
  <2> QED
    BY <2>1, FS_EmptySet DEF Counted
<1> QED
  BY <1>1, <1>3, <1>4, <1>5 DEF ChatInv

-----------------------------------------------------------------------------
(* Theorems *)

\* What is decided, given, logged and counted at each place of the handler.
THEOREM ChatInvariant == Spec => []ChatInv
<1>1. Init => ChatInv
  BY ChatInvInit
<1>2. ChatInv /\ [Next]_vars => ChatInv'
  BY ChatInvStep
<1> QED
  BY <1>1, <1>2, PTL DEF Spec

\* The refused requests are those with a row, those whose write was refused
\* and those whose write is still to come.
LEMMA RefusalsSplit ==
    ASSUME ChatInv
    PROVE  LET rows == {r \in Range(accepted) : event[r].action = "BLOCK"}
           IN  securityBlocks = Cardinality(rows) + Cardinality(Refused \cap lost)
                                + Cardinality({r \in Refused : pc[r] = "blocked"})
<1> DEFINE rows == {r \in Range(accepted) : event[r].action = "BLOCK"}
           coming == {r \in Refused : pc[r] = "blocked"}
           failed == Refused \cap lost
<1>1. Range(accepted) \subseteq Requests
  BY DEF ChatInv, ChatTypeOK, Range
<1>2. rows = Refused \cap Range(accepted)
  <2>1. \A r \in Range(accepted) : Decided(r) /\ event[r] = decision[r]
    BY <1>1 DEF ChatInv, ChatTypeOK, Place, LogAgrees, Logged
  <2> QED
    BY <1>1, <2>1 DEF Refused, Decided
<1>3. \A r \in Refused : r \in Range(accepted) \/ r \in lost \/ pc[r] = "blocked"
  BY DEF Refused, ChatInv, ChatTypeOK, Place, IsRefused, Decided, Logged
<1>4. \A r \in Refused : pc[r] = "blocked" => r \notin Range(accepted) /\ r \notin lost
  BY DEF Refused, ChatInv, Place, Logged
<1>5. \A r \in lost : r \notin Range(accepted)
  BY DEF ChatInv, LogAgrees
<1> HIDE DEF rows, coming, failed
<1>6. /\ Refused = (rows \cup failed) \cup coming
      /\ rows \cap failed = {} /\ (rows \cup failed) \cap coming = {}
  BY <1>2, <1>3, <1>4, <1>5 DEF failed, coming
<1>7. IsFiniteSet(Refused) /\ securityBlocks = Cardinality(Refused)
  BY DEF ChatInv, Counted
<1>8. IsFiniteSet(rows) /\ IsFiniteSet(failed) /\ IsFiniteSet(coming)
  <2>1. rows \in SUBSET Refused /\ failed \in SUBSET Refused /\ coming \in SUBSET Refused
    BY <1>6
  <2> QED
    BY <1>7, <2>1, FS_Subset
<1>9. IsFiniteSet(rows \cup failed)
      /\ Cardinality(rows \cup failed) = Cardinality(rows) + Cardinality(failed) - Cardinality({})
  BY <1>6, <1>8, FS_Union
<1>10. Cardinality(Refused) = Cardinality(rows \cup failed) + Cardinality(coming) - Cardinality({})
  BY <1>6, <1>8, <1>9, FS_Union
<1>11. /\ Cardinality(rows) \in Nat /\ Cardinality(failed) \in Nat
       /\ Cardinality(coming) \in Nat /\ Cardinality({}) = 0
  BY <1>8, FS_CardinalityType, FS_EmptySet
<1>12. securityBlocks = Cardinality(rows) + Cardinality(failed) + Cardinality(coming)
  BY <1>7, <1>9, <1>10, <1>11
<1> QED
  BY <1>12 DEF rows, failed, coming

\* The audit trail, the block counter and the answers of the chat endpoint
\* tell one story.
THEOREM TrailAgrees == Spec => []TrailAndMetricsAgree
<1>1. ASSUME ChatInv PROVE TrailAndMetricsAgree
  <2>1. Range(accepted) \subseteq Requests
    BY <1>1 DEF ChatInv, ChatTypeOK, Range
  <2>2. \A r \in Refused : given[r] = None
    BY <1>1 DEF ChatInv, Place, IsRefused, Refused
  <2>3. \A r \in Range(accepted) : answer[r] # None => answer[r].decision = event[r].action
    BY <1>1, <2>1 DEF ChatInv, Place, LogAgrees, Logged
  <2>4. \A r \in Requests \ Range(accepted) : answer[r] # None /\ r \notin lost =>
          \/ answer[r].status \in {400, 502, 504}
          \/ output[r] # None /\ SecretFinding(output[r])
    BY <1>1 DEF ChatInv, Place, Logged
  <2>5. \A r \in lost : phase # "open" \/ clientGone[r]
    BY <1>1 DEF ChatInv, LogAgrees
  <2> QED
    BY <1>1, <2>2, <2>3, <2>4, <2>5, RefusalsSplit DEF TrailAndMetricsAgree, Refused
<1>2. ChatInv => TrailAndMetricsAgree
  BY <1>1
<1> QED
  BY <1>2, ChatInvariant, PTL

\* The handlers use the log as AuditLedger allows, so the promise that
\* AsyncAudit implements is all they rest on.
THEOREM HandlersUseTheLedger == Spec => LedgerSpec
<1>1. Init => LedgerInit
  BY DEF Init
<1>2. [Next]_vars => [LedgerNext]_ledgerVars
  BY DEF Next, Handle, RejectBody, ScanAndDecide, AskProvider, ProviderFails, ProviderAnswers,
         BlockOutput, PassOutput, WriteAudit, Respond, ClientLeaves, LogStep, LedgerNext, vars,
         Requests
<1> QED
  BY <1>1, <1>2, PTL DEF Spec, LedgerSpec

-----------------------------------------------------------------------------
(* What leaves *)

Redaction(p) == [m \in DOMAIN p |-> Redacted(p[m])]

\* What is given to the provider and to the client, and from what.
Sent(r) ==
    /\ prompt[r] \in Prompts
    /\ decision[r] # None => decision[r] = Evaluate(FlattenSeq(prompt[r]))
    /\ given[r] # None => Decided(r) /\ ~IsRefused(r) /\ given[r] = Redaction(prompt[r])
    /\ output[r] # None => output[r] \in Outputs
    /\ pc[r] = "passed" \/ (pc[r] = "audited" /\ ~IsRefused(r)) =>
          output[r] # None /\ ~SecretFinding(output[r])
    /\ answer[r] # None => answer[r].body = None \/
          /\ answer[r].body = Redacted(output[r])
          /\ output[r] # None /\ ~SecretFinding(output[r])

SentInv == prompt = [r \in Requests |-> prompt[r]] /\ \A r \in Requests : Sent(r)

\* A prompt that is not refused has no secret and no severe instruction, and
\* neither a mild one nor an encoded one together with a personal datum.
LEMMA PassedScore ==
    ASSUME NEW ls, Evaluate(ls).action # "BLOCK"
    PROVE  /\ ~SecretFinding(ls) /\ Confidence(ls) < 80
           /\ ~(PIIFinding(ls) /\ Finding(ls))
<1> DEFINE a == IF PIIFinding(ls) THEN 30 ELSE 0
           b == IF SecretFinding(ls) THEN 95 ELSE 0
           c == Confidence(ls)
<1>1. /\ a \in {0, 30} /\ b \in {0, 95} /\ c \in {0, 75, 90, 95}
      /\ PIIFinding(ls) => a = 30
      /\ SecretFinding(ls) => b = 95
      /\ Finding(ls) => c >= 75
  BY DEF Confidence
<1>2. Evaluate(ls).action = Action(Capped(a + b + c))
  BY DEF Evaluate
<1> HIDE DEF a, b, c
<1>3. a + b + c \in Int
  BY <1>1
<1>4. a + b + c < 80
  BY <1>2, <1>3 DEF Action, Capped
<1>5. ~SecretFinding(ls) /\ c < 80 /\ ~(PIIFinding(ls) /\ Finding(ls))
  BY <1>1, <1>4
<1> QED
  BY <1>5 DEF c

\* The redaction of a prompt: as one text it is to the scanners what the
\* prompt was, message by message it has no personal datum.
LEMMA RedactedPrompt ==
    ASSUME NEW p \in Prompts
    PROVE  /\ SecretFinding(FlattenSeq(Redaction(p))) <=> SecretFinding(FlattenSeq(p))
           /\ Confidence(FlattenSeq(Redaction(p))) = Confidence(FlattenSeq(p))
           /\ Finding(FlattenSeq(Redaction(p))) <=> Finding(FlattenSeq(p))
           /\ \A m \in DOMAIN Redaction(p) : ~PIIFinding(Redaction(p)[m])
<1> DEFINE g == Redaction(p)
<1>1. p \in Seq(Seq(Line)) /\ Len(p) \in Nat /\ DOMAIN p = 1 .. Len(p)
  BY ChatAssumption DEF ChatAssumption
<1>2. \A m \in 1 .. Len(p) : p[m] \in Seq(Line)
  BY <1>1
<1>3. ASSUME NEW m \in 1 .. Len(p)
      PROVE  /\ g[m] \in Seq(Line) /\ Matching(p[m], g[m], Alike) /\ ~PIIFinding(g[m])
  BY <1>1, <1>2, RedactedText DEF Redaction
<1>4. g \in Seq(Seq(Line)) /\ Len(g) = Len(p) /\ DOMAIN g = 1 .. Len(p)
  <2>1. \A m \in 1 .. Len(p) : Redacted(p[m]) \in Seq(Line)
    BY <1>2, RedactedText
  <2> QED
    BY <1>1, <2>1 DEF Redaction
<1> HIDE DEF g
<1>5. Matching(FlattenSeq(p), FlattenSeq(g), Alike)
  BY <1>1, <1>3, <1>4, FlattenTogether
<1>6. FlattenSeq(p) \in Seq(Line) /\ FlattenSeq(g) \in Seq(Line)
  BY <1>1, <1>4, FlattenPieces
<1>7. /\ SecretFinding(FlattenSeq(g)) <=> SecretFinding(FlattenSeq(p))
      /\ Confidence(FlattenSeq(g)) = Confidence(FlattenSeq(p))
      /\ Finding(FlattenSeq(g)) <=> Finding(FlattenSeq(p))
  BY <1>5, <1>6, ScanAlike
<1> QED
  BY <1>3, <1>4, <1>7 DEF g

\* Nothing has left at the start.
LEMMA SentInit ==
    ASSUME Init
    PROVE  SentInv
  BY DEF Init, SentInv, Sent, Decided

\* What leaves was decided upon and redacted before.
LEMMA SentStep ==
    ASSUME ChatInv, SentInv, [Next]_vars
    PROVE  SentInv'
<1>1. prompt' = prompt
  BY DEF Next, vars, chatVars, Handle, RejectBody, ScanAndDecide, AskProvider, ProviderFails,
         ProviderAnswers, BlockOutput, PassOutput, WriteAudit, Respond, ClientLeaves, LogStep
<1>2. CASE UNCHANGED <<pc, decision, given, output, answer>>
  BY <1>1, <1>2 DEF SentInv, Sent, Decided, IsRefused
<1>3. ASSUME NEW r \in Requests, Handle(r)
      PROVE  SentInv'
  <2>1. \A q \in Requests \ {r} : Sent(q)'
    BY <1>1, <1>3, OthersStay DEF SentInv, Sent, Decided, IsRefused
  <2>2. Sent(r) /\ Place(r) /\ ChatTypeOK
    BY DEF SentInv, ChatInv
  <2> USE DEF Step, Answer
  <2>3. CASE RejectBody(r)
    <3>1. answer'[r].body = None /\ pc'[r] = "done" /\ UNCHANGED <<decision, given, output>>
      BY <2>2, <2>3 DEF RejectBody, ChatTypeOK
    <3>2. Sent(r)'
      BY <1>1, <2>2, <3>1 DEF Sent, Decided, IsRefused
    <3> QED
      BY <1>1, <2>1, <3>2 DEF SentInv
  <2>4. CASE ScanAndDecide(r)
    <3>1. /\ decision'[r] = Evaluate(FlattenSeq(prompt[r])) /\ pc'[r] \in {"blocked", "allowed"}
          /\ given[r] = None /\ UNCHANGED <<given, output, answer>>
      BY <2>2, <2>4 DEF ScanAndDecide, ChatTypeOK, Place
    <3>2. Sent(r)'
      BY <1>1, <2>2, <3>1 DEF Sent, Decided, IsRefused
    <3> QED
      BY <1>1, <2>1, <3>2 DEF SentInv
  <2>5. CASE AskProvider(r)
    <3>1. /\ given'[r] = Redaction(prompt[r]) /\ pc'[r] = "asked" /\ Decided(r) /\ ~IsRefused(r)
          /\ UNCHANGED <<decision, output, answer>>
      BY <2>2, <2>5 DEF AskProvider, ChatTypeOK, Place, Redaction
    <3>2. Sent(r)'
      BY <1>1, <2>2, <3>1 DEF Sent, Decided, IsRefused
    <3> QED
      BY <1>1, <2>1, <3>2 DEF SentInv
  <2>6. CASE ProviderFails(r)
    <3>1. answer'[r].body = None /\ pc'[r] = "done" /\ UNCHANGED <<decision, given, output>>
      BY <2>2, <2>6 DEF ProviderFails, ChatTypeOK
    <3>2. Sent(r)'
      BY <1>1, <2>2, <3>1 DEF Sent, Decided, IsRefused
    <3> QED
      BY <1>1, <2>1, <3>2 DEF SentInv
  <2>7. CASE ProviderAnswers(r)
    <3>1. PICK out \in Outputs : BlockOutput(r, out) \/ PassOutput(r, out)
      BY <2>7 DEF ProviderAnswers
    <3>2. /\ output'[r] = out /\ UNCHANGED <<decision, given>> /\ out # None
          /\ \/ pc'[r] = "done" /\ answer'[r].body = None
             \/ pc'[r] = "passed" /\ ~SecretFinding(out) /\ answer'[r] = None
      BY <2>2, <3>1, ChatAssumption DEF BlockOutput, PassOutput, ChatTypeOK, Place, ChatAssumption
    <3>3. Sent(r)'
      BY <1>1, <2>2, <3>2 DEF Sent, Decided, IsRefused
    <3> QED
      BY <1>1, <2>1, <3>3 DEF SentInv
  <2>8. CASE WriteAudit(r)
    <3>1. /\ UNCHANGED <<decision, given, output, answer>>
          /\ pc'[r] = "audited" /\ (IsRefused(r) \/ pc[r] = "passed")
      BY <2>2, <2>8 DEF WriteAudit, ChatTypeOK, Place
    <3>2. Sent(r)'
      BY <1>1, <2>2, <3>1 DEF Sent, Decided, IsRefused
    <3> QED
      BY <1>1, <2>1, <3>2 DEF SentInv
  <2>9. CASE Respond(r)
    <3>1. /\ UNCHANGED <<decision, given, output>> /\ pc'[r] = "done"
          /\ \/ answer'[r].body = None
             \/ answer'[r].body = Redacted(output[r]) /\ ~IsRefused(r) /\ pc[r] = "audited"
      BY <2>2, <2>9 DEF Respond, ChatTypeOK, IsRefused
    <3>2. Sent(r)'
      BY <1>1, <2>2, <3>1 DEF Sent, Decided, IsRefused
    <3> QED
      BY <1>1, <2>1, <3>2 DEF SentInv
  <2> QED
    BY <1>3, <2>3, <2>4, <2>5, <2>6, <2>7, <2>8, <2>9 DEF Handle
<1>4. Next => (\E r \in Requests : Handle(r)) \/ UNCHANGED <<pc, decision, given, output, answer>>
  BY DEF Next, ClientLeaves, LogStep, chatVars
<1> QED
  BY <1>2, <1>3, <1>4 DEF vars, chatVars

\* What the provider received and what the client got is free of what the
\* scanners look for, however the lines are spread over messages.
THEOREM NothingLeaks == Spec => []NothingSensitiveLeaves
<1>1. ASSUME SentInv PROVE NothingSensitiveLeaves
  <2> SUFFICES ASSUME NEW r \in Requests
               PROVE  /\ given[r] # None =>
                            LET sent == FlattenSeq(given[r])
                            IN  /\ ~SecretFinding(sent)
                                /\ Confidence(sent) < 80
                                /\ \A m \in DOMAIN given[r] : ~PIIFinding(given[r][m])
                                /\ ~(PIIFinding(FlattenSeq(prompt[r])) /\ Finding(sent))
                      /\ answer[r] # None /\ answer[r].body # None =>
                            ~PIIFinding(answer[r].body) /\ ~SecretFinding(answer[r].body)
    BY DEF NothingSensitiveLeaves
  <2>1. Sent(r)
    BY <1>1 DEF SentInv
  <2>2. ASSUME given[r] # None
        PROVE  /\ ~SecretFinding(FlattenSeq(given[r])) /\ Confidence(FlattenSeq(given[r])) < 80
               /\ \A m \in DOMAIN given[r] : ~PIIFinding(given[r][m])
               /\ ~(PIIFinding(FlattenSeq(prompt[r])) /\ Finding(FlattenSeq(given[r])))
    <3>1. PICK p : p = prompt[r]
      OBVIOUS
    <3>2. /\ p \in Prompts /\ given[r] = Redaction(p)
          /\ decision[r] = Evaluate(FlattenSeq(p)) /\ decision[r].action # "BLOCK"
      BY <2>1, <2>2, <3>1 DEF Sent, Decided, IsRefused
    <3>3. /\ ~SecretFinding(FlattenSeq(p)) /\ Confidence(FlattenSeq(p)) < 80
          /\ ~(PIIFinding(FlattenSeq(p)) /\ Finding(FlattenSeq(p)))
      BY <3>2, PassedScore
    <3>4. /\ SecretFinding(FlattenSeq(Redaction(p))) <=> SecretFinding(FlattenSeq(p))
          /\ Confidence(FlattenSeq(Redaction(p))) = Confidence(FlattenSeq(p))
          /\ Finding(FlattenSeq(Redaction(p))) <=> Finding(FlattenSeq(p))
          /\ \A m \in DOMAIN Redaction(p) : ~PIIFinding(Redaction(p)[m])
      BY <3>2, RedactedPrompt
    <3> QED
      BY <3>1, <3>2, <3>3, <3>4
  <2>3. ASSUME answer[r] # None, answer[r].body # None
        PROVE  ~PIIFinding(answer[r].body) /\ ~SecretFinding(answer[r].body)
    <3>1. PICK out : out = output[r]
      OBVIOUS
    <3>2. out \in Seq(Line) /\ answer[r].body = Redacted(out) /\ ~SecretFinding(out)
      BY <2>1, <2>3, <3>1, ChatAssumption DEF Sent, ChatAssumption
    <3>3. ~PIIFinding(Redacted(out)) /\ ~SecretFinding(Redacted(out))
      BY <3>2, RedactedText, ScanAlike
    <3> QED
      BY <3>2, <3>3
  <2> QED
    BY <2>2, <2>3
<1>2. Init => SentInv
  BY SentInit
<1>3. ChatInv /\ SentInv /\ [Next]_vars => SentInv'
  BY SentStep
<1>4. SentInv => NothingSensitiveLeaves
  BY <1>1
<1> QED
  BY <1>2, <1>3, <1>4, ChatInvariant, PTL DEF Spec
==============================================================================
