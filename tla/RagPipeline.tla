----------------------------- MODULE RagPipeline ------------------------------
(***************************************************************************)
(* One request to /v1/rag/context or /v1/rag/chat: the five stages of      *)
(* BuildContext (internal/rag/pipeline.go) with the document firewall and  *)
(* the authorization they call, and the handlers that record the trace,    *)
(* ask the model and scan its answer (internal/api/rag_chat.go,            *)
(* rag_context.go).                                                        *)
(*                                                                         *)
(* A document is a sequence of the lines that Scanner tells apart.         *)
(***************************************************************************)
EXTENDS Scanner, SequencesExt

CONSTANTS
    Documents,    \* documents a request can carry, a subset of Document
    Principals,   \* the callers, [role, team]
    Roles, Admin, \* an administrator is one of the roles
    Teams, NoTeam,
    MaxDocuments, \* bound: documents in one request
    None          \* no trace, no context

Document == [restricted : BOOLEAN, roles : SUBSET Roles, team : Teams \cup {NoTeam},
             untrusted : BOOLEAN, lines : Seq(Line)]

ASSUME RagAssumption ==
    /\ Documents \subseteq Document
    /\ Principals \subseteq [role : Roles, team : Teams]
    /\ Admin \in Roles /\ NoTeam \notin Teams
    /\ MaxDocuments \in Nat \ {0}

VARIABLES
    pc, endpoint, principal, documents,
    entries,     \* the trace: one entry for each document of the request
    authorized,  \* authorizedIndexes
    candidates,  \* safeCandidates and safeIndexes, [doc, lines]
    context,     \* contextDocs
    recorded,    \* the trace in rag_events
    given,       \* the context in the prompt of the provider request
    answer       \* the answer, [status, trace]

vars == <<pc, endpoint, principal, documents, entries, authorized, candidates,
          context, recorded, given, answer>>

-----------------------------------------------------------------------------
(* Authorization and document firewall *)

\* Authorize; the team rule has an exception for administrators, the list of
\* roles has none.
MayRead(d, p) ==
    /\ d.restricted => p.role = Admin
    /\ d.roles # {} => p.role \in d.roles
    /\ d.team # NoTeam /\ p.team # d.team => p.role = Admin

\* removeSuspiciousLines
SafeLines(ls) == KeptIn(ls, {l \in Line : ~Finding(<<l>>)})

\* Inspect: the verdict on one document and what is left of it.
Inspect(d) ==
    IF ~Finding(d.lines)
      THEN [decision |-> "ALLOW", reason |-> "passed", lines |-> d.lines]
      ELSE IF d.untrusted
        THEN [decision |-> "BLOCK", reason |-> "untrusted", lines |-> <<>>]
        ELSE [decision |-> "FILTER", reason |-> "filtered", lines |-> SafeLines(d.lines)]

\* What the aggregate scans read.
Joined(ds) == FlattenSeq([k \in DOMAIN ds |-> ds[k].lines])

Entry(decision, reason) == [decision |-> decision, included |-> FALSE, reason |-> reason]

BlockAll(es, indexes, reason) ==
    [i \in DOMAIN es |-> IF i \in indexes THEN Entry("BLOCK", reason) ELSE es[i]]

-----------------------------------------------------------------------------
(* The stages of BuildContext *)

Init ==
    /\ pc = "authorize"
    /\ endpoint \in {"context", "chat"}
    /\ principal \in Principals
    /\ documents \in BoundedSeq(Documents, MaxDocuments)
    /\ entries = <<>> /\ authorized = <<>> /\ candidates = <<>> /\ context = <<>>
    /\ recorded = None /\ given = None /\ answer = None

\* The documents of the request, by index, and those the caller may read.
Indexes == [i \in DOMAIN documents |-> i]

Readable == {i \in DOMAIN documents : MayRead(documents[i], principal)}

\* Mutant: the index of an entry is taken after the entry was appended.
AuthorizeOneTooFar ==
    /\ pc = "authorize" /\ pc' = "rawscan"
    /\ entries' = [i \in DOMAIN documents |->
                     IF i \in Readable THEN Entry("ALLOW", "pending")
                                       ELSE Entry("BLOCK", "denied")]
    /\ authorized' = LET own == KeptIn(Indexes, Readable)
                     IN  [k \in DOMAIN own |-> own[k] + 1]
    /\ UNCHANGED <<endpoint, principal, documents, candidates, context, recorded, given, answer>>

\* Stage 1: every document has its entry, in the order of the request.
AuthorizeDocuments ==
    /\ pc = "authorize" /\ pc' = "rawscan"
    /\ entries' = [i \in DOMAIN documents |->
                     IF i \in Readable THEN Entry("ALLOW", "pending")
                                       ELSE Entry("BLOCK", "denied")]
    /\ authorized' = KeptIn(Indexes, Readable)
    /\ UNCHANGED <<endpoint, principal, documents, candidates, context, recorded, given, answer>>

AuthorizedDocuments == [k \in DOMAIN authorized |-> documents[authorized[k]]]

\* Mutant: the aggregate scan reads every document of the request.
RawScanOfAll ==
    /\ pc = "rawscan"
    /\ IF Finding(Joined(documents)) /\ Len(authorized) > 1
         THEN /\ pc' = "built"
              /\ entries' = BlockAll(entries, Range(authorized), "aggregate")
         ELSE pc' = "inspect" /\ UNCHANGED entries
    /\ UNCHANGED <<endpoint, principal, documents, authorized, candidates, context,
                   recorded, given, answer>>

\* Stage 2: the authorized documents as they were retrieved, taken together;
\* a single one is left to its own inspection.
RawScan ==
    /\ pc = "rawscan"
    /\ IF Finding(Joined(AuthorizedDocuments)) /\ Len(authorized) > 1
         THEN /\ pc' = "built"
              /\ entries' = BlockAll(entries, Range(authorized), "aggregate")
         ELSE pc' = "inspect" /\ UNCHANGED entries
    /\ UNCHANGED <<endpoint, principal, documents, authorized, candidates, context,
                   recorded, given, answer>>

\* Stage 3: each document by itself.
InspectDocuments ==
    /\ pc = "inspect" /\ pc' = "finalscan"
    /\ entries' = [i \in DOMAIN entries |->
                     IF i \in Range(authorized)
                       THEN Entry(Inspect(documents[i]).decision, Inspect(documents[i]).reason)
                       ELSE entries[i]]
    /\ candidates' = LET kept == KeptIn(authorized,
                                        {i \in DOMAIN documents :
                                           Inspect(documents[i]).decision # "BLOCK"})
                     IN  [k \in DOMAIN kept |->
                            [doc |-> kept[k], lines |-> Inspect(documents[kept[k]]).lines]]
    /\ UNCHANGED <<endpoint, principal, documents, authorized, context, recorded, given, answer>>

CandidateIndexes == {candidates[k].doc : k \in DOMAIN candidates}

\* Mutant: no second aggregate scan.
FinalScanSkipped ==
    /\ pc = "finalscan" /\ pc' = "admit"
    /\ UNCHANGED <<endpoint, principal, documents, entries, authorized, candidates, context,
                   recorded, given, answer>>

\* Stage 4: what is left, taken together, also when it is one document.
FinalScan ==
    /\ pc = "finalscan"
    /\ IF Finding(Joined(candidates))
         THEN /\ pc' = "built"
              /\ entries' = BlockAll(entries, CandidateIndexes, "sanitized")
         ELSE pc' = "admit" /\ UNCHANGED entries
    /\ UNCHANGED <<endpoint, principal, documents, authorized, candidates, context,
                   recorded, given, answer>>

\* Mutant: the trace includes every document that may be read.
AdmitAuthorized ==
    /\ pc = "admit" /\ pc' = "built"
    /\ entries' = [i \in DOMAIN entries |->
                     [entries[i] EXCEPT !.included = i \in Range(authorized)]]
    /\ context' = candidates
    /\ UNCHANGED <<endpoint, principal, documents, authorized, candidates, recorded, given, answer>>

\* Stage 5
Admit ==
    /\ pc = "admit" /\ pc' = "built"
    /\ entries' = [i \in DOMAIN entries |->
                     [entries[i] EXCEPT !.included = i \in CandidateIndexes]]
    /\ context' = candidates
    /\ UNCHANGED <<endpoint, principal, documents, authorized, candidates, recorded, given, answer>>

-----------------------------------------------------------------------------
(* The handlers *)

\* The error of WriteRAGEvent is logged and the request goes on.
WriteRAGEvent ==
    /\ pc = "built" /\ pc' = "traced"
    /\ recorded' \in {entries, None}
    /\ UNCHANGED <<endpoint, principal, documents, entries, authorized, candidates, context,
                   given, answer>>

Finish(status, trace) ==
    /\ pc' = "done"
    /\ answer' = [status |-> status, trace |-> trace]
    /\ UNCHANGED <<endpoint, principal, documents, entries, authorized, candidates, context,
                   recorded>>

\* RAGContextHandler answers with the pipeline's result.
AnswerContext ==
    /\ pc = "traced" /\ endpoint = "context"
    /\ Finish(200, entries) /\ UNCHANGED given

\* providerRouter.Chat, also with an empty context.
AskModel ==
    /\ pc = "traced" /\ endpoint = "chat" /\ pc' = "asked"
    /\ given' = context
    /\ UNCHANGED <<endpoint, principal, documents, entries, authorized, candidates, context,
                   recorded, answer>>

ProviderFails == pc = "asked" /\ Finish(502, None) /\ UNCHANGED given

\* ScanOutput found a secret in the model's answer.
BlockOutput == pc = "asked" /\ Finish(403, None) /\ UNCHANGED given

AnswerChat == pc = "asked" /\ Finish(200, entries) /\ UNCHANGED given

Next ==
    \/ AuthorizeDocuments \/ RawScan \/ InspectDocuments \/ FinalScan \/ Admit
    \/ WriteRAGEvent \/ AnswerContext
    \/ AskModel \/ ProviderFails \/ BlockOutput \/ AnswerChat

Spec == Init /\ [][Next]_vars

-----------------------------------------------------------------------------
(* Properties *)

TraceEntry == [decision : {"ALLOW", "FILTER", "BLOCK"}, included : BOOLEAN,
               reason : {"pending", "denied", "aggregate", "passed", "untrusted", "filtered",
                         "sanitized"}]

Text == [doc : 1 .. MaxDocuments, lines : Seq(Line)]

\* Every variable has its type.
TypeOK ==
    /\ pc \in {"authorize", "rawscan", "inspect", "finalscan", "admit", "built", "traced",
               "asked", "done"}
    /\ endpoint \in {"context", "chat"}
    /\ principal \in Principals
    /\ documents \in Seq(Documents) /\ Len(documents) <= MaxDocuments
    /\ entries \in Seq(TraceEntry)
    /\ authorized \in Seq(1 .. MaxDocuments)
    /\ candidates \in Seq(Text) /\ context \in Seq(Text)
    /\ recorded \in Seq(TraceEntry) \cup {None}
    /\ given \in Seq(Text) \cup {None}
    /\ answer \in [status : {200, 403, 502}, trace : Seq(TraceEntry) \cup {None}] \cup {None}

\* Once the trace is built, a document the caller may read is missing from
\* the context only for a reason that lies in what the caller may read:
\* it is untrusted and objectionable itself, or the readable documents are
\* when taken together, as retrieved or as filtered.  Documents of others
\* that the retriever mixed in change nothing, and one objectionable trusted
\* document is filtered, not dropped.
RefusalsHaveCause ==
    pc \in {"built", "traced", "asked", "done"} =>
       LET readable == KeptIn(Indexes, Readable)
           texts == [k \in DOMAIN readable |-> documents[readable[k]].lines]
           cleaned == [k \in DOMAIN readable |-> Inspect(documents[readable[k]]).lines]
       IN  \A k \in DOMAIN readable :
              \/ entries[readable[k]].included
              \/ documents[readable[k]].untrusted /\ Finding(texts[k])
              \/ Len(readable) > 1 /\ Finding(FlattenSeq(texts))
              \/ Finding(FlattenSeq(cleaned))

\* The trace is settled when the handler records it: its verdicts agree with
\* the context, whichever stage ended the pipeline.  No entry is left
\* pending, blocked and included exclude each other, and either every
\* document that was not blocked is included or none is left.
TraceIsSettled ==
    pc \in {"built", "traced", "asked", "done"} =>
       /\ DOMAIN entries = DOMAIN documents
       /\ \A i \in DOMAIN entries :
             /\ entries[i].reason # "pending"
             /\ entries[i].included <=> entries[i].decision # "BLOCK"
             /\ entries[i].included <=> \E k \in DOMAIN context : context[k].doc = i
             /\ entries[i].reason = "denied" <=> ~MayRead(documents[i], principal)

IncludedIn(trace) ==
    IF trace = None THEN None ELSE {i \in DOMAIN trace : trace[i].included}

Stage ==
    CASE pc \in {"authorize", "rawscan", "inspect", "finalscan", "admit"} -> "asked"
      [] pc = "built" -> "chosen"
      [] pc = "traced" -> "noted"
      [] pc = "asked" -> "given"
      [] pc = "done" -> "answered"

Policy == INSTANCE RetrievalPolicy WITH
    readable <- Readable,
    original <- [i \in DOMAIN documents |-> documents[i].lines],
    Clean <- LAMBDA ls : ~Finding(ls),
    Joined <- Joined,
    Unset <- None,
    stage <- Stage,
    answered <- IF answer = None THEN None ELSE IncludedIn(answer.trace),
    recorded <- IncludedIn(recorded)

\* The endpoints implement the retrieval policy: the context is readable and
\* clean, document by document and as a whole, and the trail, the prompt and
\* the answer agree on it.
ImplementsPolicy == Policy!PolicySpec
==============================================================================
