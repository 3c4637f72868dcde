------------------------------- MODULE Scanner --------------------------------
(***************************************************************************)
(* The scanners (internal/scanner) that the chat and the retrieval         *)
(* endpoints share.  A text is a sequence of lines, and a line is one of   *)
(* the kinds that the patterns tell apart.  The scanners read a text with  *)
(* its lines joined, so that two lines can match where neither does.       *)
(***************************************************************************)
EXTENDS Integers, Sequences

Line ==
    {"text",        \* long enough to separate two halves of anything
     "attack",      \* an instruction of a pattern with confidence 95
     "head", "tail",  \* the halves of one
     "mild",        \* ROLE_OVERRIDE, confidence 75
     "encoded",     \* an attack in base64
     "marker",      \* announces an example ("the article says")
     "quoted",      \* an attack in quotation marks
     "discussion",  \* marker and quoted attack in one line
     "pii",         \* an address or a number of a person
     "pii1", "pii2",  \* the halves of a phone number
     "redacted",    \* <..._REDACTED>
     "secret"}      \* a credential; its patterns match no white space

Halves(ls, i, first, second) ==
    ls[i] = first /\ i + 1 \in DOMAIN ls /\ ls[i + 1] = second

Has(ls, kinds) == \E i \in DOMAIN ls : ls[i] \in kinds

\* scanPromptInjectionRaw: does a pattern of confidence 95, or only the mild
\* one, match?
SevereMatch(ls) ==
    \E i \in DOMAIN ls :
       ls[i] \in {"attack", "quoted", "discussion"} \/ Halves(ls, i, "head", "tail")

RawFinding(ls) == SevereMatch(ls) \/ Has(ls, {"mild"})

\* The entries of s that are in S, in order: a loop that appends what passes
\* a test, which the test's set stands for.
KeptIn(s, S) ==
    LET kept[i \in 0 .. Len(s)] ==
          IF i = 0 THEN <<>>
          ELSE IF s[i] \in S THEN Append(kept[i - 1], s[i]) ELSE kept[i - 1]
    IN  kept[Len(s)]

\* The input without what is quoted.
OutsideQuotes(ls) ==
    KeptIn([i \in DOMAIN ls |-> IF ls[i] = "discussion" THEN "marker" ELSE ls[i]],
           Line \ {"quoted"})

\* isBenignInjectionDiscussion: announced, quoted, and nothing outside.
BenignDiscussion(ls) ==
    /\ Has(ls, {"marker", "discussion"})
    /\ Has(ls, {"quoted", "discussion"})
    /\ ~RawFinding(OutsideQuotes(ls))

\* scanEncodedInjection
EncodedFinding(ls) == Has(ls, {"encoded"})

\* ScanPromptInjection: a benign discussion also hides what is encoded.
Finding(ls) ==
    /\ ~BenignDiscussion(ls)
    /\ RawFinding(ls) \/ EncodedFinding(ls)

\* The highest confidence among the findings, 0 without any.
Confidence(ls) ==
    IF ~Finding(ls) THEN 0
    ELSE IF SevereMatch(ls) THEN 95
    ELSE IF EncodedFinding(ls) THEN 90
    ELSE 75

\* ScanSecrets
SecretFinding(ls) == Has(ls, {"secret"})

\* ScanAndRedactPII: what it finds and what it returns.
IsPII(ls, i) ==
    \/ ls[i] = "pii"
    \/ Halves(ls, i, "pii1", "pii2")
    \/ i - 1 \in DOMAIN ls /\ Halves(ls, i - 1, "pii1", "pii2")

PIIFinding(ls) == \E i \in DOMAIN ls : IsPII(ls, i)

Redacted(ls) == [i \in DOMAIN ls |-> IF IsPII(ls, i) THEN "redacted" ELSE ls[i]]
==============================================================================
