--------------------------- MODULE RetrievalPolicy ----------------------------
(***************************************************************************)
(* What the retrieval endpoints promise about one request: a context is    *)
(* chosen once, from documents the caller may read and with nothing in it  *)
(* that the scanner objects to; what the trail and the client are told of  *)
(* it, and what the model receives, is that context and no other.          *)
(***************************************************************************)
EXTENDS Sequences, Integers

CONSTANTS
    Clean(_),        \* the scanner finds nothing in this sequence of lines
    Joined(_),       \* the lines of a context, in order
    Unset            \* not told, not given

VARIABLES
    readable,   \* the documents of the request that the caller may read
    original,   \* the lines of each document, as retrieved
    stage,
    context,    \* sequence of [doc, lines]
    recorded,   \* the documents the trail shows as included
    given,      \* the context the model received
    answered    \* the documents the answer shows as included

pvars == <<readable, original, stage, context, recorded, given, answered>>

Included == {context[k].doc : k \in DOMAIN context}

\* A context that may be built: readable documents in the order of the
\* request, lines of theirs only, each document clean and their join clean.
Admissible(c) ==
    /\ \A k \in DOMAIN c :
          /\ c[k].doc \in readable
          /\ Clean(c[k].lines)
          /\ \A l \in DOMAIN c[k].lines :
                \E o \in DOMAIN original[c[k].doc] : c[k].lines[l] = original[c[k].doc][o]
    /\ \A j, k \in DOMAIN c : j < k => c[j].doc < c[k].doc
    /\ Clean(Joined(c))

PolicyInit ==
    /\ readable \subseteq DOMAIN original
    /\ stage = "asked"
    /\ context = <<>>
    /\ recorded = Unset /\ given = Unset /\ answered = Unset

Choose ==
    /\ stage = "asked" /\ stage' = "chosen"
    /\ Admissible(context')
    /\ UNCHANGED <<readable, original, recorded, given, answered>>

\* The trail may miss the choice; it never shows another one.
Record ==
    /\ stage = "chosen" /\ stage' = "noted"
    /\ recorded' \in {Unset, Included}
    /\ UNCHANGED <<readable, original, context, given, answered>>

Give ==
    /\ stage = "noted" /\ stage' = "given"
    /\ given' = context
    /\ UNCHANGED <<readable, original, context, recorded, answered>>

Answer ==
    /\ stage \in {"noted", "given"} /\ stage' = "answered"
    /\ answered' \in {Unset, Included}
    /\ UNCHANGED <<readable, original, context, recorded, given>>

PolicyNext == Choose \/ Record \/ Give \/ Answer

PolicySpec == PolicyInit /\ [][PolicyNext]_pvars
==============================================================================
