------------------------------ MODULE RagProofs -------------------------------
(***************************************************************************)
(* The retrieval pipeline of RagPipeline, for any documents, callers and   *)
(* number of documents in a request.  The first part says what the stages  *)
(* compute from a request (ReadableOf, OwnOf, ChosenOf: constants, so that *)
(* no step can change them); the invariant says what the variables hold    *)
(* after each stage in these terms, and Outcome how a pipeline can end.    *)
(***************************************************************************)
EXTENDS RagPipeline, ScannerProofs

ReadableOf(ds, p) == {i \in DOMAIN ds : MayRead(ds[i], p)}

OwnOf(ds, p) == KeptIn([i \in DOMAIN ds |-> i], ReadableOf(ds, p))

Passing(ds) == {i \in DOMAIN ds : Inspect(ds[i]).decision # "BLOCK"}

KeptOf(ds, p) == KeptIn(OwnOf(ds, p), Passing(ds))

ChosenOf(ds, p) ==
    [k \in DOMAIN KeptOf(ds, p) |->
       [doc |-> KeptOf(ds, p)[k], lines |-> Inspect(ds[KeptOf(ds, p)[k]]).lines]]

\* The lines that are left of each document, none of a blocked one.
LeftOf(ds) == [i \in DOMAIN ds |-> Inspect(ds[i]).lines]

Increasing(s) == \A j, k \in DOMAIN s : j < k => s[j] < s[k]

-----------------------------------------------------------------------------
(* Inspection of one document *)

IsLineOf(l, ls) == \E o \in DOMAIN ls : l = ls[o]

\* SafeLines keeps lines of the text, and none that is found by itself.
LEMMA SafeLinesAre ==
    ASSUME NEW ls \in Seq(Line)
    PROVE  /\ SafeLines(ls) \in Seq(Line)
           /\ \A i \in 1 .. Len(SafeLines(ls)) : /\ ~Finding(<<SafeLines(ls)[i]>>)
                                                 /\ IsLineOf(SafeLines(ls)[i], ls)
<1> DEFINE S == {l \in Line : ~Finding(<<l>>)}
           u == SafeLines(ls)
<1>1. u = KeptIn(ls, S)
  BY DEF SafeLines
<1> HIDE DEF u
<1>2. \A l \in Line \cap S : ~Finding(<<l>>)
  OBVIOUS
<1> HIDE DEF S
<1>3. u \in Seq(Line \cap S)
  BY <1>1, KeptEnumerates
<1>4. PICK m, e : /\ Enumerates(e, m, Len(ls), Places(ls, S, Len(ls)))
                  /\ Len(u) = m /\ u = Picked(ls, e, m)
  BY <1>1, KeptEnumerates
<1>5. ASSUME NEW i \in 1 .. Len(u)
      PROVE  ~Finding(<<u[i]>>) /\ IsLineOf(u[i], ls)
  <2>1. u[i] \in Line \cap S
    BY <1>3
  <2>2. u[i] = ls[e[i]] /\ e[i] \in 1 .. Len(ls)
    BY <1>4 DEF Picked, Enumerates
  <2> QED
    BY <1>2, <2>1, <2>2 DEF IsLineOf
<1>6. u \in Seq(Line)
  BY <1>3
<1> QED
  BY <1>5, <1>6 DEF u

\* What is left of a document: lines of its own; nothing when it is blocked,
\* and then it is untrusted and objectionable; otherwise a text in which only
\* halves side by side could be found.
LEMMA Inspected ==
    ASSUME NEW d \in Document
    PROVE  /\ Inspect(d).decision \in {"ALLOW", "FILTER", "BLOCK"}
           /\ Inspect(d).reason \in {"passed", "untrusted", "filtered"}
           /\ Inspect(d).lines \in Seq(Line)
           /\ Inspect(d).decision = "BLOCK" =>
                 Inspect(d).lines = <<>> /\ d.untrusted /\ Finding(d.lines)
           /\ \A i \in 1 .. Len(Inspect(d).lines) : IsLineOf(Inspect(d).lines[i], d.lines)
           /\ Finding(Inspect(d).lines) =>
                 \E i \in 1 .. Len(Inspect(d).lines) : Halves(Inspect(d).lines, i, "head", "tail")
<1>1. d.lines \in Seq(Line)
  BY DEF Document
<1>2. CASE ~Finding(d.lines)
  <2>1. Inspect(d) = [decision |-> "ALLOW", reason |-> "passed", lines |-> d.lines]
    BY <1>2 DEF Inspect
  <2>2. \A i \in 1 .. Len(d.lines) : IsLineOf(d.lines[i], d.lines)
    BY <1>1 DEF IsLineOf
  <2> QED
    BY <1>1, <1>2, <2>1, <2>2
<1>3. CASE Finding(d.lines) /\ d.untrusted
  <2>1. Inspect(d) = [decision |-> "BLOCK", reason |-> "untrusted", lines |-> <<>>]
    BY <1>3 DEF Inspect
  <2>2. <<>> \in Seq(Line) /\ Len(<<>>) = 0 /\ ~Finding(<<>>)
    BY DEF Finding, RawFinding, SevereMatch, EncodedFinding, Has
  <2> QED
    BY <1>3, <2>1, <2>2
<1>4. CASE Finding(d.lines) /\ ~d.untrusted
  <2> DEFINE u == SafeLines(d.lines)
  <2>1. Inspect(d) = [decision |-> "FILTER", reason |-> "filtered", lines |-> u]
    BY <1>4 DEF Inspect
  <2>2. /\ u \in Seq(Line)
        /\ \A i \in 1 .. Len(u) : ~Finding(<<u[i]>>) /\ IsLineOf(u[i], d.lines)
    BY <1>1, SafeLinesAre
  <2> HIDE DEF u
  <2>3. \A i \in 1 .. Len(u) : u[i] \notin Telling
    BY <2>2, TellingLines
  <2>4. Finding(u) => \E i \in 1 .. Len(u) : Halves(u, i, "head", "tail")
    BY <2>2, <2>3, CleanTexts
  <2>5. Inspect(d).decision = "FILTER" /\ Inspect(d).reason = "filtered" /\ Inspect(d).lines = u
    BY <2>1
  <2>6. \A i \in 1 .. Len(u) : IsLineOf(u[i], d.lines)
    BY <2>2
  <2> QED
    BY <2>2, <2>4, <2>5, <2>6
<1> QED
  BY <1>2, <1>3, <1>4

-----------------------------------------------------------------------------
(* What the stages choose *)

\* Filtering an increasing sequence leaves an increasing one of the entries
\* that are in the set.
LEMMA KeptIncreasing ==
    ASSUME NEW s \in Seq(Nat), Increasing(s), NEW S
    PROVE  /\ KeptIn(s, S) \in Seq(Nat) /\ Increasing(KeptIn(s, S))
           /\ Range(KeptIn(s, S)) = Range(s) \cap S
<1> DEFINE u == KeptIn(s, S)
<1>1. u \in Seq(Nat \cap S)
  BY KeptEnumerates
<1>2. PICK m, e : /\ Enumerates(e, m, Len(s), Places(s, S, Len(s)))
                  /\ Len(u) = m /\ u = Picked(s, e, m)
  BY KeptEnumerates
<1> HIDE DEF u
<1>3. /\ m \in Nat /\ DOMAIN u = 1 .. m /\ DOMAIN s = 1 .. Len(s) /\ Len(s) \in Nat
      /\ \A k \in 1 .. m : e[k] \in 1 .. Len(s) /\ u[k] = s[e[k]]
  BY <1>2 DEF Enumerates, Picked
<1>4. Increasing(u)
  <2> SUFFICES ASSUME NEW j \in 1 .. m, NEW k \in 1 .. m, j < k PROVE u[j] < u[k]
    BY <1>3 DEF Increasing
  <2>1. e[j] < e[k]
    BY <1>2 DEF Enumerates
  <2> QED
    BY <1>3, <2>1 DEF Increasing
<1>5. \A k \in 1 .. m : u[k] \in Range(s) \cap S
  <2> SUFFICES ASSUME NEW k \in 1 .. m PROVE u[k] \in Range(s) \cap S
    OBVIOUS
  <2>1. e[k] \in Places(s, S, Len(s))
    BY <1>2 DEF Enumerates
  <2> QED
    BY <1>3, <2>1 DEF Places, Range
<1>6. ASSUME NEW x \in Range(s) \cap S PROVE \E k \in 1 .. m : u[k] = x
  <2>1. PICK i \in 1 .. Len(s) : s[i] = x
    BY <1>3 DEF Range
  <2>2. PICK k \in 1 .. m : e[k] = i
    BY <1>2, <2>1 DEF Enumerates, Places
  <2> QED
    BY <1>3, <2>1, <2>2
<1>7. Range(u) = Range(s) \cap S
  BY <1>3, <1>5, <1>6 DEF Range
<1>8. u \in Seq(Nat)
  BY <1>1
<1> QED
  BY <1>4, <1>7, <1>8 DEF u

\* The authorized documents are the readable ones, in order; those kept are
\* the authorized ones that pass, in order.
LEMMA OwnDocuments ==
    ASSUME NEW ds \in Seq(Document), NEW p
    PROVE  /\ OwnOf(ds, p) \in Seq(1 .. Len(ds)) /\ Increasing(OwnOf(ds, p))
           /\ Range(OwnOf(ds, p)) = ReadableOf(ds, p)
           /\ KeptOf(ds, p) \in Seq(1 .. Len(ds)) /\ Increasing(KeptOf(ds, p))
           /\ Range(KeptOf(ds, p)) = ReadableOf(ds, p) \cap Passing(ds)
<1> DEFINE ix == [i \in DOMAIN ds |-> i]
           own == OwnOf(ds, p)
           kept == KeptOf(ds, p)
<1>1. DOMAIN ds = 1 .. Len(ds) /\ Len(ds) \in Nat
  OBVIOUS
<1>2. ix \in Seq(Nat) /\ Increasing(ix) /\ Range(ix) = 1 .. Len(ds)
  BY <1>1 DEF Increasing, Range
<1>3. own = KeptIn(ix, ReadableOf(ds, p)) /\ kept = KeptIn(own, Passing(ds))
  BY DEF OwnOf, KeptOf
<1> HIDE DEF ix, own, kept
<1>4. ReadableOf(ds, p) \subseteq 1 .. Len(ds)
  BY <1>1 DEF ReadableOf
<1>5. own \in Seq(Nat) /\ Increasing(own) /\ Range(own) = ReadableOf(ds, p)
  BY <1>2, <1>3, <1>4, KeptIncreasing
<1>6. kept \in Seq(Nat) /\ Increasing(kept) /\ Range(kept) = ReadableOf(ds, p) \cap Passing(ds)
  BY <1>3, <1>5, KeptIncreasing
<1>7. own \in Seq(1 .. Len(ds)) /\ kept \in Seq(1 .. Len(ds))
  <2>1. ASSUME NEW s \in Seq(Nat), Range(s) \subseteq 1 .. Len(ds)
        PROVE  s \in Seq(1 .. Len(ds))
    <3>1. Len(s) \in Nat /\ DOMAIN s = 1 .. Len(s) /\ s = [i \in 1 .. Len(s) |-> s[i]]
      OBVIOUS
    <3>2. \A i \in 1 .. Len(s) : s[i] \in 1 .. Len(ds)
      BY <2>1, <3>1 DEF Range
    <3> QED
      BY <3>1, <3>2
  <2> QED
    BY <1>4, <1>5, <1>6, <2>1
<1> QED
  BY <1>5, <1>6, <1>7 DEF own, kept

\* What stage 3 hands on is, for each readable document that is not blocked,
\* its index and what inspection left of it.
LEMMA ChosenDocuments ==
    ASSUME NEW ds \in Seq(Document), NEW p
    PROVE  /\ ChosenOf(ds, p) \in Seq([doc : 1 .. Len(ds), lines : Seq(Line)])
           /\ DOMAIN ChosenOf(ds, p) = DOMAIN KeptOf(ds, p)
           /\ \A k \in DOMAIN ChosenOf(ds, p) :
                 /\ ChosenOf(ds, p)[k].doc = KeptOf(ds, p)[k]
                 /\ ChosenOf(ds, p)[k].lines = Inspect(ds[KeptOf(ds, p)[k]]).lines
                 /\ KeptOf(ds, p)[k] \in ReadableOf(ds, p) \cap Passing(ds)
                 /\ ds[KeptOf(ds, p)[k]] \in Document
           /\ {ChosenOf(ds, p)[k].doc : k \in DOMAIN ChosenOf(ds, p)}
                 = ReadableOf(ds, p) \cap Passing(ds)
<1> DEFINE kept == KeptOf(ds, p)
           own == OwnOf(ds, p)
           c == ChosenOf(ds, p)
<1>1. /\ kept \in Seq(1 .. Len(ds)) /\ DOMAIN kept = 1 .. Len(kept) /\ Len(kept) \in Nat
      /\ Range(kept) = ReadableOf(ds, p) \cap Passing(ds)
  BY OwnDocuments
<1>2. \A i \in 1 .. Len(ds) : ds[i] \in Document /\ Inspect(ds[i]).lines \in Seq(Line)
  BY Inspected
<1>3. c = [k \in DOMAIN kept |-> [doc |-> kept[k], lines |-> Inspect(ds[kept[k]]).lines]]
  BY DEF ChosenOf
<1> HIDE DEF kept, c
<1>4. \A k \in DOMAIN kept : /\ kept[k] \in 1 .. Len(ds)
                             /\ kept[k] \in ReadableOf(ds, p) \cap Passing(ds)
                             /\ Inspect(ds[kept[k]]).lines \in Seq(Line)
                             /\ ds[kept[k]] \in Document
  BY <1>1, <1>2 DEF Range
<1>5. c \in Seq([doc : 1 .. Len(ds), lines : Seq(Line)])
  BY <1>1, <1>3, <1>4
<1>6. DOMAIN c = DOMAIN kept
  BY <1>3
<1>7. \A k \in DOMAIN kept : c[k].doc = kept[k] /\ c[k].lines = Inspect(ds[kept[k]]).lines
  BY <1>3
<1>8. {c[k].doc : k \in DOMAIN c} = Range(kept)
  BY <1>6, <1>7 DEF Range
<1> QED
  BY <1>1, <1>4, <1>5, <1>6, <1>7, <1>8 DEF kept, c

\* They are as many as the indexes kept.
LEMMA ChosenDomain ==
    ASSUME NEW ds \in Seq(Document), NEW p
    PROVE  DOMAIN ChosenOf(ds, p) = DOMAIN KeptOf(ds, p)
BY ChosenDocuments

\* The indexes handed on.
LEMMA ChosenIndexes ==
    ASSUME NEW ds \in Seq(Document), NEW p
    PROVE  {ChosenOf(ds, p)[k].doc : k \in DOMAIN ChosenOf(ds, p)}
              = ReadableOf(ds, p) \cap Passing(ds)
BY ChosenDocuments

\* One document handed on.
LEMMA ChosenDocument ==
    ASSUME NEW ds \in Seq(Document), NEW p, NEW k \in DOMAIN ChosenOf(ds, p)
    PROVE  /\ ChosenOf(ds, p)[k].doc = KeptOf(ds, p)[k]
           /\ ChosenOf(ds, p)[k].lines = Inspect(ds[KeptOf(ds, p)[k]]).lines
           /\ KeptOf(ds, p)[k] \in ReadableOf(ds, p) \cap Passing(ds)
           /\ ds[KeptOf(ds, p)[k]] \in Document
BY ChosenDocuments

\* The text of the chosen documents is the text of all authorized ones as
\* filtered: what is blocked adds nothing.
LEMMA ChosenText ==
    ASSUME NEW ds \in Seq(Document), NEW p
    PROVE  Joined(ChosenOf(ds, p)) =
              FlattenSeq([k \in DOMAIN OwnOf(ds, p) |-> Inspect(ds[OwnOf(ds, p)[k]]).lines])
<1> DEFINE own == OwnOf(ds, p)
           kept == KeptOf(ds, p)
           c == ChosenOf(ds, p)
           F == LeftOf(ds)
           I == 1 .. Len(ds)
<1>1. own \in Seq(I) /\ kept = KeptIn(own, Passing(ds)) /\ kept \in Seq(I)
  BY OwnDocuments DEF KeptOf
<1>2. F \in [I -> Seq(Line)]
  BY Inspected DEF LeftOf
<1>3. \A x \in I : F[x] = Inspect(ds[x]).lines
  BY DEF LeftOf
<1>4. ASSUME NEW x \in I, x \notin Passing(ds) PROVE F[x] = <<>>
  <2>1. ds[x] \in Document /\ Inspect(ds[x]).decision = "BLOCK"
    BY <1>4 DEF Passing
  <2> QED
    BY <1>3, <2>1, Inspected
<1>5. \A k \in DOMAIN own : own[k] \in I
  BY <1>1
<1>6. DOMAIN c = DOMAIN kept /\ \A k \in DOMAIN c : c[k].lines = F[kept[k]]
  <2>1. \A k \in DOMAIN kept : kept[k] \in I
    BY <1>1
  <2>2. DOMAIN c = DOMAIN kept
    BY ChosenDomain
  <2>3. ASSUME NEW k \in DOMAIN c PROVE c[k].lines = F[kept[k]]
    <3>1. c[k].lines = Inspect(ds[kept[k]]).lines
      BY <2>3, ChosenDocument
    <3> QED
      BY <1>3, <2>1, <2>2, <3>1
  <2> QED
    BY <2>2, <2>3
<1> HIDE DEF own, kept, c, F, I
<1>7. FlattenSeq(Mapped(kept, F)) = FlattenSeq(Mapped(own, F))
  BY <1>1, <1>2, <1>4, FlattenKept
<1>8. [k \in DOMAIN c |-> c[k].lines] = Mapped(kept, F)
  BY <1>6 DEF Mapped
<1>9. Joined(c) = FlattenSeq(Mapped(kept, F))
  BY <1>8 DEF Joined
<1>10. Mapped(own, F) = [k \in DOMAIN own |-> Inspect(ds[own[k]]).lines]
  BY <1>3, <1>5 DEF Mapped
<1> QED
  BY <1>7, <1>9, <1>10 DEF own, c

\* When nothing is found in the chosen documents together, nothing is found
\* in any of them.
LEMMA ChosenClean ==
    ASSUME NEW ds \in Seq(Document), NEW p, ~Finding(Joined(ChosenOf(ds, p))),
           NEW k \in DOMAIN ChosenOf(ds, p)
    PROVE  ~Finding(ChosenOf(ds, p)[k].lines)
<1> DEFINE c == ChosenOf(ds, p)
           s == [j \in DOMAIN c |-> c[j].lines]
           u == s[k]
           d == ds[KeptOf(ds, p)[k]]
<1>1. /\ c \in Seq([doc : 1 .. Len(ds), lines : Seq(Line)])
      /\ c[k].lines = Inspect(d).lines /\ d \in Document
  <2>1. c \in Seq([doc : 1 .. Len(ds), lines : Seq(Line)])
    BY ChosenDocuments
  <2>2. c[k].lines = Inspect(d).lines /\ d \in Document
    BY ChosenDocument
  <2> QED
    BY <2>1, <2>2
<1>2. Joined(c) = FlattenSeq(s) /\ ~Finding(FlattenSeq(s))
  BY DEF Joined
<1> HIDE DEF c, d
<1>3. s \in Seq(Seq(Line)) /\ k \in 1 .. Len(s) /\ u = Inspect(d).lines /\ u = c[k].lines
  <2>1. k \in DOMAIN c /\ DOMAIN c = 1 .. Len(c) /\ Len(c) \in Nat
    BY <1>1 DEF c
  <2>2. ASSUME NEW j \in DOMAIN c PROVE c[j].lines \in Seq(Line)
    <3> DEFINE R == [doc : 1 .. Len(ds), lines : Seq(Line)]
    <3>1. c \in Seq(R)
      BY <1>1
    <3>2. \A x \in R : x.lines \in Seq(Line)
      OBVIOUS
    <3> HIDE DEF R
    <3>3. c[j] \in R
      BY <3>1
    <3> QED
      BY <3>2, <3>3
  <2> QED
    BY <1>1, <2>1, <2>2
<1>4. u \in Seq(Line)
  BY <1>1, <1>3, Inspected
<1> HIDE DEF s, u
<1>5. FlattenSeq(s) \in Seq(Line) /\ IsPiece(FlattenSeq(s), u)
  BY <1>3, FlattenPieces DEF u
<1> DEFINE t == FlattenSeq(s)
<1> HIDE DEF t
<1>6. PICK off \in Nat : off + Len(u) <= Len(t) /\ \A j \in 1 .. Len(u) : t[off + j] = u[j]
  BY <1>5 DEF IsPiece, t
<1>7. ASSUME NEW i \in 1 .. Len(u), Halves(u, i, "head", "tail") PROVE FALSE
  <2>1. i + 1 \in 1 .. Len(u) /\ u[i] = "head" /\ u[i + 1] = "tail" /\ Len(u) \in Nat
    BY <1>4, <1>7 DEF Halves
  <2>2. t \in Seq(Line) /\ Len(t) \in Nat /\ DOMAIN t = 1 .. Len(t)
    BY <1>5 DEF t
  <2>3. off + i \in 1 .. Len(t) /\ (off + i) + 1 \in 1 .. Len(t) /\ (off + i) + 1 = off + (i + 1)
    BY <1>6, <2>1, <2>2
  <2>4. t[off + i] = "head" /\ t[(off + i) + 1] = "tail"
    BY <1>6, <2>1, <2>3
  <2>5. Halves(t, off + i, "head", "tail")
    BY <2>2, <2>3, <2>4 DEF Halves
  <2>6. Finding(t)
    BY <2>2, <2>3, <2>5, HalvesAreFound
  <2> QED
    BY <1>2, <2>6 DEF t
<1>8. ~Finding(u)
  BY <1>1, <1>3, <1>7, Inspected
<1> QED
  BY <1>3, <1>8 DEF c

-----------------------------------------------------------------------------
(* The invariant *)

Denied == Entry("BLOCK", "denied")

Pending(ds, p) ==
    [i \in DOMAIN ds |-> IF i \in ReadableOf(ds, p) THEN Entry("ALLOW", "pending") ELSE Denied]

Verdicts(ds, p) ==
    [i \in DOMAIN ds |-> IF i \in ReadableOf(ds, p)
                           THEN Entry(Inspect(ds[i]).decision, Inspect(ds[i]).reason) ELSE Denied]

Admitted(ds, p) == ReadableOf(ds, p) \cap Passing(ds)

\* The texts that the aggregate scan reads first.
TextsOf(ds, p) == [k \in DOMAIN OwnOf(ds, p) |-> ds[OwnOf(ds, p)[k]].lines]

\* The three ends of the pipeline.
RawRefused(ds, p) ==
    /\ Finding(FlattenSeq(TextsOf(ds, p))) /\ Len(OwnOf(ds, p)) > 1
    /\ entries = BlockAll(Pending(ds, p), ReadableOf(ds, p), "aggregate")
    /\ context = <<>>

FinalRefused(ds, p) ==
    /\ Finding(Joined(ChosenOf(ds, p)))
    /\ entries = BlockAll(Verdicts(ds, p), Admitted(ds, p), "sanitized")
    /\ context = <<>>

Built(ds, p) ==
    /\ ~Finding(Joined(ChosenOf(ds, p)))
    /\ entries = [i \in DOMAIN ds |->
                     [Verdicts(ds, p)[i] EXCEPT !.included = i \in Admitted(ds, p)]]
    /\ context = ChosenOf(ds, p)

Outcome(ds, p) == RawRefused(ds, p) \/ FinalRefused(ds, p) \/ Built(ds, p)

Working == {"authorize", "rawscan", "inspect", "finalscan", "admit"}

Ended == {"built", "traced", "asked", "done"}

Request ==
    /\ pc \in Working \cup Ended
    /\ endpoint \in {"context", "chat"}
    /\ principal \in Principals
    /\ documents \in Seq(Documents) /\ Len(documents) <= MaxDocuments

\* What the stages have left in the variables.
Stages ==
    /\ pc = "authorize" => entries = <<>> /\ authorized = <<>>
    /\ pc # "authorize" => authorized = OwnOf(documents, principal)
    /\ pc \in {"authorize", "rawscan", "inspect"} => candidates = <<>>
    /\ pc \in {"finalscan", "admit"} => candidates = ChosenOf(documents, principal)
    /\ candidates \in {<<>>, ChosenOf(documents, principal)}
    /\ pc \in {"rawscan", "inspect"} => entries = Pending(documents, principal)
    /\ pc \in {"finalscan", "admit"} => entries = Verdicts(documents, principal)
    /\ pc = "admit" => ~Finding(Joined(ChosenOf(documents, principal)))
    /\ pc \in Working => context = <<>>
    /\ pc \in Ended => Outcome(documents, principal)

\* What the handlers have told.
Told ==
    /\ pc \in Working => recorded = None /\ given = None
    /\ recorded \in {entries, None} /\ given \in {context, None}
    /\ answer = None \/ \E status \in {200, 403, 502}, trace \in {entries, None} :
                           answer = [status |-> status, trace |-> trace]
    /\ pc # "done" => answer = None

RagInv == Request /\ Stages /\ Told

\* The request, in the terms of the first part.
LEMMA RequestDocuments ==
    ASSUME Request
    PROVE  /\ documents \in Seq(Document) /\ Len(documents) \in Nat
           /\ DOMAIN documents = 1 .. Len(documents)
           /\ Readable = ReadableOf(documents, principal)
           /\ \A i \in DOMAIN documents : documents[i] \in Document
  BY RagAssumption DEF Request, RagAssumption, Readable, ReadableOf

\* A request before its first stage.
LEMMA RagInvInit ==
    ASSUME Init
    PROVE  RagInv
<1>1. documents \in Seq(Documents) /\ Len(documents) <= MaxDocuments
  <2>1. documents \in UNION {[1 .. m -> Documents] : m \in 0 .. MaxDocuments}
    BY DEF Init, BoundedSeq, SeqOf
  <2>2. PICK m \in 0 .. MaxDocuments : documents \in [1 .. m -> Documents]
    BY <2>1
  <2> QED
    BY <2>2, RagAssumption DEF RagAssumption
<1> QED
  BY <1>1 DEF Init, RagInv, Request, Stages, Told, Working, Ended

\* Stage 1 writes the entry of each document and its own list.
LEMMA AuthorizeKeeps ==
    ASSUME RagInv, AuthorizeDocuments
    PROVE  RagInv'
<1>1. /\ UNCHANGED <<documents, principal, endpoint, candidates, context, recorded, given, answer>>
      /\ pc = "authorize" /\ pc' = "rawscan"
  BY DEF AuthorizeDocuments
<1>2. entries' = Pending(documents, principal) /\ authorized' = OwnOf(documents, principal)
  BY RequestDocuments DEF AuthorizeDocuments, RagInv, Indexes, OwnOf, Pending, Denied
<1>3. Request'
  BY <1>1 DEF RagInv, Request, Working, Ended
<1>4. Stages'
  BY <1>1, <1>2 DEF RagInv, Stages, Working, Ended
<1>5. Told'
  BY <1>1 DEF RagInv, Told, Working
<1> QED
  BY <1>3, <1>4, <1>5 DEF RagInv

\* Stage 2 ends the pipeline or leaves everything as it is.
LEMMA RawScanKeeps ==
    ASSUME RagInv, RawScan
    PROVE  RagInv'
<1>1. /\ UNCHANGED <<documents, principal, endpoint, authorized, candidates, context, recorded, given, answer>>
      /\ pc = "rawscan" /\ pc' \in {"built", "inspect"}
  BY DEF RawScan
<1>2. /\ authorized = OwnOf(documents, principal) /\ entries = Pending(documents, principal)
      /\ context = <<>> /\ candidates = <<>>
  BY <1>1 DEF RagInv, Stages, Working
<1>3. /\ Range(authorized) = ReadableOf(documents, principal)
      /\ authorized \in Seq(1 .. Len(documents))
  BY <1>2, RequestDocuments, OwnDocuments DEF RagInv
<1>4. Joined(AuthorizedDocuments) = FlattenSeq(TextsOf(documents, principal))
  <2>1. [k \in DOMAIN AuthorizedDocuments |-> AuthorizedDocuments[k].lines]
          = TextsOf(documents, principal)
    BY <1>2 DEF AuthorizedDocuments, TextsOf
  <2> QED
    BY <2>1 DEF Joined
<1>5. CASE pc' = "inspect"
  <2>1. entries' = entries
    BY <1>5 DEF RawScan
  <2>2. Request' /\ Told'
    BY <1>1, <1>5, <2>1 DEF RagInv, Request, Told, Working, Ended
  <2>3. Stages'
    BY <1>1, <1>2, <1>5, <2>1 DEF RagInv, Stages, Working, Ended
  <2> QED
    BY <2>2, <2>3 DEF RagInv
<1>6. CASE pc' = "built"
  <2>1. /\ Finding(Joined(AuthorizedDocuments)) /\ Len(authorized) > 1
        /\ entries' = BlockAll(entries, Range(authorized), "aggregate")
    BY <1>6 DEF RawScan
  <2>2. RawRefused(documents, principal)'
    BY <1>1, <1>2, <1>3, <1>4, <2>1 DEF RawRefused
  <2>3. Request' /\ Told'
    BY <1>1, <1>6 DEF RagInv, Request, Told, Working, Ended
  <2>4. Stages'
    BY <1>1, <1>2, <1>6, <2>2 DEF RagInv, Stages, Working, Ended, Outcome
  <2> QED
    BY <2>3, <2>4 DEF RagInv
<1> QED
  BY <1>1, <1>5, <1>6

\* Stage 3 writes the verdict on each authorized document.
LEMMA InspectKeeps ==
    ASSUME RagInv, InspectDocuments
    PROVE  RagInv'
<1>1. /\ UNCHANGED <<documents, principal, endpoint, authorized, context, recorded, given, answer>>
      /\ pc = "inspect" /\ pc' = "finalscan"
  BY DEF InspectDocuments
<1>2. /\ authorized = OwnOf(documents, principal) /\ entries = Pending(documents, principal)
      /\ context = <<>> /\ candidates = <<>>
  BY <1>1 DEF RagInv, Stages, Working
<1>3. Range(authorized) = ReadableOf(documents, principal)
  BY <1>2, RequestDocuments, OwnDocuments DEF RagInv
<1>4. entries' = Verdicts(documents, principal)
  BY <1>2, <1>3 DEF InspectDocuments, Verdicts, Pending
<1>5. candidates' = ChosenOf(documents, principal)
  BY <1>2 DEF InspectDocuments, ChosenOf, KeptOf, Passing
<1>6. Request' /\ Told'
  BY <1>1 DEF RagInv, Request, Told, Working, Ended
<1>7. Stages'
  BY <1>1, <1>2, <1>4, <1>5 DEF RagInv, Stages, Working, Ended
<1> QED
  BY <1>6, <1>7 DEF RagInv

\* Stage 4 ends the pipeline or leaves a clean context to be.
LEMMA FinalScanKeeps ==
    ASSUME RagInv, FinalScan
    PROVE  RagInv'
<1>1. /\ UNCHANGED <<documents, principal, endpoint, authorized, candidates, context, recorded, given, answer>>
      /\ pc = "finalscan" /\ pc' \in {"built", "admit"}
  BY DEF FinalScan
<1>2. /\ authorized = OwnOf(documents, principal) /\ entries = Verdicts(documents, principal)
      /\ context = <<>> /\ candidates = ChosenOf(documents, principal)
  BY <1>1 DEF RagInv, Stages, Working
<1>3. CandidateIndexes = Admitted(documents, principal)
  BY <1>2, RequestDocuments, ChosenIndexes DEF RagInv, CandidateIndexes, Admitted
<1>4. CASE pc' = "admit"
  <2>1. entries' = entries /\ ~Finding(Joined(candidates))
    BY <1>4 DEF FinalScan
  <2>2. Request' /\ Told'
    BY <1>1, <1>4, <2>1 DEF RagInv, Request, Told, Working, Ended
  <2>3. Stages'
    BY <1>1, <1>2, <1>4, <2>1 DEF RagInv, Stages, Working, Ended
  <2> QED
    BY <2>2, <2>3 DEF RagInv
<1>5. CASE pc' = "built"
  <2>1. /\ Finding(Joined(candidates))
        /\ entries' = BlockAll(entries, CandidateIndexes, "sanitized")
    BY <1>5 DEF FinalScan
  <2>2. FinalRefused(documents, principal)'
    BY <1>1, <1>2, <1>3, <2>1 DEF FinalRefused
  <2>3. Request' /\ Told'
    BY <1>1, <1>5 DEF RagInv, Request, Told, Working, Ended
  <2>4. Stages'
    BY <1>1, <1>2, <1>5, <2>2 DEF RagInv, Stages, Working, Ended, Outcome
  <2> QED
    BY <2>3, <2>4 DEF RagInv
<1> QED
  BY <1>1, <1>4, <1>5

\* Stage 5 includes what is left.
LEMMA AdmitKeeps ==
    ASSUME RagInv, Admit
    PROVE  RagInv'
<1>1. /\ UNCHANGED <<documents, principal, endpoint, authorized, candidates, recorded, given, answer>>
      /\ pc = "admit" /\ pc' = "built" /\ context' = candidates
  BY DEF Admit
<1>2. /\ authorized = OwnOf(documents, principal) /\ entries = Verdicts(documents, principal)
      /\ candidates = ChosenOf(documents, principal)
      /\ ~Finding(Joined(ChosenOf(documents, principal)))
  BY <1>1 DEF RagInv, Stages, Working
<1>3. CandidateIndexes = Admitted(documents, principal)
  BY <1>2, RequestDocuments, ChosenIndexes DEF RagInv, CandidateIndexes, Admitted
<1>4. Built(documents, principal)'
  <2>1. DOMAIN Verdicts(documents, principal) = DOMAIN documents
    BY DEF Verdicts
  <2>2. entries' = [i \in DOMAIN documents |->
                      [Verdicts(documents, principal)[i] EXCEPT
                         !.included = i \in Admitted(documents, principal)]]
    BY <1>2, <1>3, <2>1 DEF Admit
  <2> QED
    BY <1>1, <1>2, <2>2 DEF Built
<1>5. Request' /\ Told'
  BY <1>1 DEF RagInv, Request, Told, Working, Ended
<1>6. Stages'
  BY <1>1, <1>2, <1>4 DEF RagInv, Stages, Working, Ended, Outcome
<1> QED
  BY <1>5, <1>6 DEF RagInv

\* The handlers record, give and answer what was built.
LEMMA HandlersKeep ==
    ASSUME RagInv,
           \/ WriteRAGEvent \/ AnswerContext
           \/ AskModel \/ ProviderFails \/ BlockOutput \/ AnswerChat
    PROVE  RagInv'
<1>1. /\ UNCHANGED <<documents, principal, endpoint, entries, authorized, candidates, context>>
      /\ pc \in Ended /\ pc' \in Ended
  BY DEF WriteRAGEvent, AnswerContext, AskModel, ProviderFails, BlockOutput, AnswerChat, Finish,
         Ended
<1>2. pc # "done" /\ answer = None
  BY DEF WriteRAGEvent, AnswerContext, AskModel, ProviderFails, BlockOutput, AnswerChat, RagInv,
         Told
<1>3. Request'
  BY <1>1 DEF RagInv, Request
<1>4. Stages'
  <2>1. Outcome(documents, principal)'
    BY <1>1 DEF RagInv, Stages, Outcome, RawRefused, FinalRefused, Built
  <2> QED
    BY <1>1, <2>1 DEF RagInv, Stages, Working, Ended
<1>5. Told'
  <2>1. /\ recorded' \in {entries', None} /\ given' \in {context', None}
        /\ pc' \notin Working
    BY <1>1 DEF WriteRAGEvent, AnswerContext, AskModel, ProviderFails, BlockOutput, AnswerChat,
         Finish, RagInv, Told, Ended, Working
  <2>2. /\ answer' = None \/ \E status \in {200, 403, 502}, trace \in {entries', None} :
                               answer' = [status |-> status, trace |-> trace]
        /\ pc' # "done" => answer' = None
    BY <1>1, <1>2 DEF WriteRAGEvent, AnswerContext, AskModel, ProviderFails, BlockOutput,
         AnswerChat, Finish
  <2> QED
    BY <2>1, <2>2 DEF Told
<1> QED
  BY <1>3, <1>4, <1>5 DEF RagInv

\* Every stage and every step of the handlers keeps the invariant.
LEMMA RagInvStep ==
    ASSUME RagInv, [Next]_vars
    PROVE  RagInv'
<1>1. CASE UNCHANGED vars
  BY <1>1 DEF vars, RagInv, Request, Stages, Told, Outcome, RawRefused, FinalRefused, Built
<1> QED
  BY <1>1, AuthorizeKeeps, RawScanKeeps, InspectKeeps, FinalScanKeeps, AdmitKeeps, HandlersKeep
     DEF Next

\* What each stage has left in the variables.
THEOREM RagInvariant == Spec => []RagInv
<1>1. Init => RagInv
  BY RagInvInit
<1>2. RagInv /\ [Next]_vars => RagInv'
  BY RagInvStep
<1> QED
  BY <1>1, <1>2, PTL DEF Spec

-----------------------------------------------------------------------------
(* Theorems *)

\* The traces that the stages write.
LEMMA TracesTyped ==
    ASSUME NEW ds \in Seq(Document), NEW p
    PROVE  /\ Pending(ds, p) \in Seq(TraceEntry)
           /\ Verdicts(ds, p) \in Seq(TraceEntry)
           /\ \A es \in Seq(TraceEntry) :
                 /\ \A S : BlockAll(es, S, "aggregate") \in Seq(TraceEntry)
                 /\ \A S : BlockAll(es, S, "sanitized") \in Seq(TraceEntry)
           /\ [i \in DOMAIN ds |-> [Verdicts(ds, p)[i] EXCEPT !.included = i \in Admitted(ds, p)]]
                 \in Seq(TraceEntry)
<1>1. DOMAIN ds = 1 .. Len(ds) /\ Len(ds) \in Nat
  OBVIOUS
<1>2. \A d \in {"ALLOW", "FILTER", "BLOCK"} :
         \A r \in {"pending", "denied", "aggregate", "passed", "untrusted", "filtered", "sanitized"} :
            Entry(d, r) \in TraceEntry
  BY DEF Entry, TraceEntry
<1>3. Pending(ds, p) \in Seq(TraceEntry)
  <2>1. \A i \in 1 .. Len(ds) :
          (IF i \in ReadableOf(ds, p) THEN Entry("ALLOW", "pending") ELSE Denied) \in TraceEntry
    BY <1>2 DEF Denied
  <2> QED
    BY <1>1, <2>1 DEF Pending
<1>4. \A i \in 1 .. Len(ds) : Verdicts(ds, p)[i] \in TraceEntry
  BY <1>1, <1>2, Inspected DEF Verdicts, Denied
<1>5. Verdicts(ds, p) \in Seq(TraceEntry)
  <2>1. Verdicts(ds, p) = [i \in 1 .. Len(ds) |-> Verdicts(ds, p)[i]]
    BY <1>1 DEF Verdicts
  <2> QED
    BY <1>1, <1>4, <2>1
<1>6. ASSUME NEW es \in Seq(TraceEntry), NEW S, NEW r \in {"aggregate", "sanitized"}
      PROVE  BlockAll(es, S, r) \in Seq(TraceEntry)
  <2>1. \A i \in DOMAIN es : (IF i \in S THEN Entry("BLOCK", r) ELSE es[i]) \in TraceEntry
    BY <1>2
  <2> QED
    BY <2>1 DEF BlockAll
<1>7. [i \in DOMAIN ds |-> [Verdicts(ds, p)[i] EXCEPT !.included = i \in Admitted(ds, p)]]
         \in Seq(TraceEntry)
  <2>1. \A x \in TraceEntry : \A b \in BOOLEAN : [x EXCEPT !.included = b] \in TraceEntry
    BY DEF TraceEntry
  <2>2. ASSUME NEW i \in 1 .. Len(ds)
        PROVE  [Verdicts(ds, p)[i] EXCEPT !.included = i \in Admitted(ds, p)] \in TraceEntry
    <3>1. Verdicts(ds, p)[i] \in TraceEntry /\ (i \in Admitted(ds, p)) \in BOOLEAN
      BY <1>4
    <3> QED
      BY <2>1, <3>1
  <2> QED
    BY <1>1, <2>2
<1> QED
  BY <1>3, <1>5, <1>6, <1>7

\* What the trace says of one document when the pipeline has ended.
EndOf(ds, p, i) ==
    /\ i \notin ReadableOf(ds, p) => entries[i] = Denied /\ i \notin Admitted(ds, p)
    /\ i \in ReadableOf(ds, p) => entries[i].reason \notin {"pending", "denied"}
    /\ entries[i].included <=> entries[i].decision # "BLOCK"
    /\ entries[i].included <=> \E k \in DOMAIN context : context[k].doc = i
    /\ entries[i].included =>
          i \in Admitted(ds, p) /\ entries[i].decision = Inspect(ds[i]).decision

\* However the pipeline ended, the entry of each document is final.
LEMMA DocumentEnds ==
    ASSUME NEW ds \in Seq(Document), NEW p, Outcome(ds, p)
    PROVE  DOMAIN entries = DOMAIN ds /\ \A i \in DOMAIN ds : EndOf(ds, p, i)
<1>1. DOMAIN entries = DOMAIN ds
  BY DEF Outcome, RawRefused, FinalRefused, Built, BlockAll, Pending, Verdicts
<1> SUFFICES ASSUME NEW i \in DOMAIN ds PROVE EndOf(ds, p, i)
  BY <1>1
<1>2. Admitted(ds, p) \subseteq ReadableOf(ds, p)
  BY DEF Admitted
<1>3. ds[i] \in Document
  OBVIOUS
<1>4. /\ Inspect(ds[i]).reason \in {"passed", "untrusted", "filtered"}
      /\ i \in ReadableOf(ds, p) => (i \notin Admitted(ds, p) <=> Inspect(ds[i]).decision = "BLOCK")
  BY <1>3, Inspected DEF Admitted, Passing
<1>5. Denied = [decision |-> "BLOCK", included |-> FALSE, reason |-> "denied"]
  BY DEF Denied, Entry
<1>6. Verdicts(ds, p)[i] =
        IF i \in ReadableOf(ds, p)
          THEN [decision |-> Inspect(ds[i]).decision, included |-> FALSE,
                reason |-> Inspect(ds[i]).reason]
          ELSE Denied
  BY DEF Verdicts, Entry
<1>7. CASE RawRefused(ds, p)
  <2>1. context = <<>>
    BY <1>7 DEF RawRefused
  <2>2. entries[i] = IF i \in ReadableOf(ds, p)
                       THEN [decision |-> "BLOCK", included |-> FALSE, reason |-> "aggregate"]
                       ELSE Denied
    BY <1>7 DEF RawRefused, BlockAll, Pending, Entry
  <2>3. CASE i \in ReadableOf(ds, p)
    BY <2>1, <2>2, <2>3 DEF EndOf
  <2>4. CASE i \notin ReadableOf(ds, p)
    BY <1>2, <1>5, <2>1, <2>2, <2>4 DEF EndOf
  <2> QED
    BY <2>3, <2>4
<1>8. CASE FinalRefused(ds, p)
  <2>1. context = <<>>
    BY <1>8 DEF FinalRefused
  <2>2. entries[i] = IF i \in Admitted(ds, p)
                       THEN [decision |-> "BLOCK", included |-> FALSE, reason |-> "sanitized"]
                       ELSE Verdicts(ds, p)[i]
    BY <1>8 DEF FinalRefused, BlockAll, Verdicts, Entry
  <2>3. CASE i \in Admitted(ds, p)
    BY <1>2, <2>1, <2>2, <2>3 DEF EndOf
  <2>4. CASE i \in ReadableOf(ds, p) /\ i \notin Admitted(ds, p)
    BY <1>4, <1>6, <2>1, <2>2, <2>4 DEF EndOf
  <2>5. CASE i \notin ReadableOf(ds, p)
    BY <1>2, <1>5, <1>6, <2>1, <2>2, <2>5 DEF EndOf
  <2> QED
    BY <2>3, <2>4, <2>5
<1>9. CASE Built(ds, p)
  <2>1. context = ChosenOf(ds, p)
    BY <1>9 DEF Built
  <2>2. entries[i] = [Verdicts(ds, p)[i] EXCEPT !.included = i \in Admitted(ds, p)]
    BY <1>9 DEF Built
  <2>3. i \in Admitted(ds, p) <=> \E k \in DOMAIN context : context[k].doc = i
    <3>1. {context[k].doc : k \in DOMAIN context} = Admitted(ds, p)
      BY <2>1, ChosenIndexes DEF Admitted
    <3> QED
      BY <3>1
  <2>4. CASE i \in ReadableOf(ds, p)
    <3> DEFINE b == i \in Admitted(ds, p)
    <3>1. entries[i] = [decision |-> Inspect(ds[i]).decision, included |-> b,
                        reason |-> Inspect(ds[i]).reason]
      BY <1>6, <2>2, <2>4
    <3> HIDE DEF b
    <3>2. /\ entries[i].decision = Inspect(ds[i]).decision
          /\ entries[i].reason = Inspect(ds[i]).reason
          /\ entries[i].included = b
      BY <3>1
    <3>3. CASE b
      BY <1>4, <2>3, <2>4, <3>2, <3>3 DEF EndOf, b
    <3>4. CASE ~b
      BY <1>4, <2>3, <2>4, <3>2, <3>4 DEF EndOf, b
    <3> QED
      BY <3>3, <3>4
  <2>5. CASE i \notin ReadableOf(ds, p)
    <3> DEFINE b == i \in Admitted(ds, p)
    <3>a. b = FALSE
      BY <1>2, <2>5
    <3>b. entries[i] = [Denied EXCEPT !.included = b]
      BY <1>6, <2>2, <2>5
    <3>c. entries[i] = [Denied EXCEPT !.included = FALSE]
      BY <3>a, <3>b
    <3>1. i \notin Admitted(ds, p) /\ entries[i] = Denied
      BY <1>5, <3>a, <3>c
    <3> QED
      BY <1>5, <2>3, <2>5, <3>1 DEF EndOf
  <2> QED
    BY <2>4, <2>5
<1> QED
  BY <1>7, <1>8, <1>9 DEF Outcome

\* A sequence over a set is one over a larger set.
LEMMA WiderSequences ==
    ASSUME NEW A, NEW B, A \subseteq B, NEW s \in Seq(A)
    PROVE  s \in Seq(B)
  OBVIOUS

\* Every variable has its type.
THEOREM RagTypeCorrect == Spec => []TypeOK
<1>1. ASSUME RagInv PROVE TypeOK
  <2> DEFINE ds == documents
             p == principal
  <2>1. ds \in Seq(Document) /\ Len(ds) \in Nat /\ Len(ds) <= MaxDocuments
    BY <1>1, RequestDocuments DEF RagInv, Request
  <2>2. MaxDocuments \in Nat
    BY RagAssumption DEF RagAssumption
  <2>3. \A i \in 1 .. Len(ds) : i \in 1 .. MaxDocuments
    BY <2>1, <2>2
  <2>4. OwnOf(ds, p) \in Seq(1 .. MaxDocuments) /\ <<>> \in Seq(1 .. MaxDocuments)
    <3> DEFINE A == 1 .. Len(ds)
               B == 1 .. MaxDocuments
    <3>1. OwnOf(ds, p) \in Seq(A)
      BY <2>1, OwnDocuments
    <3>2. A \subseteq B
      BY <2>3
    <3> HIDE DEF A, B
    <3>3. OwnOf(ds, p) \in Seq(B) /\ <<>> \in Seq(B)
      BY <3>1, <3>2, WiderSequences
    <3> QED
      BY <3>3 DEF B
  <2>5. ChosenOf(ds, p) \in Seq(Text) /\ <<>> \in Seq(Text)
    <3> DEFINE A == [doc : 1 .. Len(ds), lines : Seq(Line)]
    <3>1. ChosenOf(ds, p) \in Seq(A)
      BY <2>1, ChosenDocuments
    <3>2. A \subseteq Text
      BY <2>3 DEF Text
    <3> HIDE DEF A
    <3> QED
      BY <3>1, <3>2, WiderSequences
  <2>6. /\ Pending(ds, p) \in Seq(TraceEntry) /\ Verdicts(ds, p) \in Seq(TraceEntry)
        /\ BlockAll(Pending(ds, p), ReadableOf(ds, p), "aggregate") \in Seq(TraceEntry)
        /\ BlockAll(Verdicts(ds, p), Admitted(ds, p), "sanitized") \in Seq(TraceEntry)
        /\ [i \in DOMAIN ds |-> [Verdicts(ds, p)[i] EXCEPT !.included = i \in Admitted(ds, p)]]
              \in Seq(TraceEntry)
    BY <2>1, TracesTyped
  <2>7. <<>> \in Seq(TraceEntry)
    OBVIOUS
  <2> HIDE DEF ds, p
  <2>8. /\ entries \in Seq(TraceEntry) /\ authorized \in Seq(1 .. MaxDocuments)
        /\ candidates \in Seq(Text) /\ context \in Seq(Text)
    BY <1>1, <2>4, <2>5, <2>6, <2>7 DEF RagInv, Request, Stages, Working, Ended, Outcome,
       RawRefused, FinalRefused, Built, ds, p
  <2>9. answer \in [status : {200, 403, 502}, trace : Seq(TraceEntry) \cup {None}] \cup {None}
    BY <1>1, <2>8 DEF RagInv, Told
  <2> QED
    BY <1>1, <2>8, <2>9 DEF RagInv, Request, Told, TypeOK, Working, Ended
<1>2. RagInv => TypeOK
  BY <1>1
<1> QED
  BY <1>2, RagInvariant, PTL

\* Whichever stage ended the pipeline, no entry of the trace is left pending
\* and its verdicts agree with the context.
THEOREM TraceSettled == Spec => []TraceIsSettled
<1>1. ASSUME RagInv PROVE TraceIsSettled
  <2> SUFFICES ASSUME pc \in Ended PROVE
         /\ DOMAIN entries = DOMAIN documents
         /\ \A i \in DOMAIN entries :
               /\ entries[i].reason # "pending"
               /\ entries[i].included <=> entries[i].decision # "BLOCK"
               /\ entries[i].included <=> \E k \in DOMAIN context : context[k].doc = i
               /\ entries[i].reason = "denied" <=> ~MayRead(documents[i], principal)
    BY DEF TraceIsSettled, Ended
  <2>1. Outcome(documents, principal)
    BY <1>1 DEF RagInv, Stages
  <2>2. /\ DOMAIN entries = DOMAIN documents
        /\ \A i \in DOMAIN documents : EndOf(documents, principal, i)
    BY <1>1, <2>1, RequestDocuments, DocumentEnds DEF RagInv
  <2>3. \A i \in DOMAIN documents :
           i \in ReadableOf(documents, principal) <=> MayRead(documents[i], principal)
    BY DEF ReadableOf
  <2>4. Denied.reason = "denied"
    BY DEF Denied, Entry
  <2> QED
    BY <2>2, <2>3, <2>4 DEF EndOf
<1>2. RagInv => TraceIsSettled
  BY <1>1
<1> QED
  BY <1>2, RagInvariant, PTL

\* A document the caller may read is refused only for what the caller may
\* read: the last scan reads what is left of all authorized documents, since
\* those that are blocked leave nothing.
THEOREM RefusalsCaused == Spec => []RefusalsHaveCause
<1>1. ASSUME RagInv PROVE RefusalsHaveCause
  <2> DEFINE ds == documents
             p == principal
             own == OwnOf(ds, p)
             texts == [k \in DOMAIN own |-> ds[own[k]].lines]
             cleaned == [k \in DOMAIN own |-> Inspect(ds[own[k]]).lines]
  <2>1. ds \in Seq(Document) /\ KeptIn(Indexes, Readable) = own
    BY <1>1, RequestDocuments DEF RagInv, OwnOf, Indexes
  <2> SUFFICES ASSUME pc \in Ended, NEW k \in DOMAIN own
               PROVE  \/ entries[own[k]].included
                      \/ ds[own[k]].untrusted /\ Finding(texts[k])
                      \/ Len(own) > 1 /\ Finding(FlattenSeq(texts))
                      \/ Finding(FlattenSeq(cleaned))
    BY <2>1 DEF RefusalsHaveCause, Ended
  <2>2. Outcome(ds, p)
    BY <1>1 DEF RagInv, Stages
  <2>3. texts = TextsOf(ds, p) /\ Joined(ChosenOf(ds, p)) = FlattenSeq(cleaned)
    BY <2>1, ChosenText DEF TextsOf
  <2>4. /\ own[k] \in ReadableOf(ds, p) /\ own[k] \in DOMAIN ds /\ ds[own[k]] \in Document
        /\ texts[k] = ds[own[k]].lines
    <3>1. Range(own) = ReadableOf(ds, p)
      BY <2>1, OwnDocuments
    <3>2. own[k] \in ReadableOf(ds, p)
      BY <3>1 DEF Range
    <3> QED
      BY <2>1, <3>2 DEF ReadableOf
  <2> HIDE DEF ds, p, own, texts, cleaned
  <2>5. CASE RawRefused(ds, p)
    BY <2>3, <2>5 DEF RawRefused, own
  <2>6. CASE FinalRefused(ds, p)
    BY <2>3, <2>6 DEF FinalRefused
  <2>7. CASE Built(ds, p)
    <3>1. CASE own[k] \in Passing(ds)
      <4>1. own[k] \in Admitted(ds, p)
        BY <2>4, <3>1 DEF Admitted
      <4>2. \E j \in DOMAIN context : context[j].doc = own[k]
        <5>1. {context[j].doc : j \in DOMAIN context} = Admitted(ds, p)
          BY <2>1, <2>7, ChosenIndexes DEF Built, Admitted
        <5> QED
          BY <4>1, <5>1
      <4>3. EndOf(ds, p, own[k])
        BY <2>1, <2>2, <2>4, DocumentEnds
      <4> QED
        BY <4>2, <4>3 DEF EndOf
    <3>2. CASE own[k] \notin Passing(ds)
      <4>1. Inspect(ds[own[k]]).decision = "BLOCK"
        BY <2>4, <3>2 DEF Passing
      <4> QED
        BY <2>4, <4>1, Inspected
    <3> QED
      BY <3>1, <3>2
  <2> QED
    BY <2>2, <2>5, <2>6, <2>7 DEF Outcome
<1>2. RagInv => RefusalsHaveCause
  BY <1>1
<1> QED
  BY <1>2, RagInvariant, PTL

-----------------------------------------------------------------------------
(* The retrieval policy *)

\* The stage of the policy at each place in the handler.
LEMMA StageOf ==
    /\ pc \in Working => Stage = "asked"
    /\ pc = "built" => Stage = "chosen"
    /\ pc = "traced" => Stage = "noted"
    /\ pc = "asked" => Stage = "given"
    /\ pc = "done" => Stage = "answered"
    /\ pc' \in Working => Stage' = "asked"
    /\ pc' = "built" => Stage' = "chosen"
    /\ pc' = "traced" => Stage' = "noted"
    /\ pc' = "asked" => Stage' = "given"
    /\ pc' = "done" => Stage' = "answered"
  BY Zenon DEF Stage, Working

\* The empty context is readable and clean.
LEMMA EmptyIsAdmissible == Policy!Admissible(<<>>)
<1>1. Joined(<<>>) = <<>>
  BY DEF Joined, FlattenSeq
<1>2. ~Finding(<<>>)
  BY DEF Finding, RawFinding, SevereMatch, EncodedFinding, Has
<1> QED
  BY <1>1, <1>2 DEF Policy!Admissible

\* What is built is what the policy allows.
LEMMA ChosenIsAdmissible ==
    ASSUME Request, ~Finding(Joined(ChosenOf(documents, principal)))
    PROVE  Policy!Admissible(ChosenOf(documents, principal))
<1> DEFINE c == ChosenOf(documents, principal)
           original == [i \in DOMAIN documents |-> documents[i].lines]
<1>1. /\ documents \in Seq(Document) /\ Readable = ReadableOf(documents, principal)
      /\ DOMAIN documents = 1 .. Len(documents)
  BY RequestDocuments
<1>2. ASSUME NEW k \in DOMAIN c
      PROVE  /\ c[k].doc \in Readable
             /\ ~Finding(c[k].lines)
             /\ \A l \in DOMAIN c[k].lines :
                   \E o \in DOMAIN original[c[k].doc] : c[k].lines[l] = original[c[k].doc][o]
  <2> DEFINE i == KeptOf(documents, principal)[k]
             d == documents[i]
  <2>0. c[k].doc = i /\ c[k].lines = Inspect(d).lines
    <3>1. c[k].doc = i
      BY <1>1, <1>2, ChosenDocument
    <3>2. c[k].lines = Inspect(d).lines
      BY <1>1, <1>2, ChosenDocument
    <3> QED
      BY <3>1, <3>2
  <2>1. i \in ReadableOf(documents, principal) /\ d \in Document
    BY <1>1, <1>2, ChosenDocument
  <2>2. i \in DOMAIN documents
    BY <2>1 DEF ReadableOf
  <2>3. ~Finding(c[k].lines)
    BY <1>1, <1>2, ChosenClean
  <2>4. original[i] = d.lines
    BY <2>2
  <2>5. /\ Inspect(d).lines \in Seq(Line)
        /\ \A l \in 1 .. Len(Inspect(d).lines) : IsLineOf(Inspect(d).lines[l], d.lines)
    BY <2>1, Inspected
  <2> HIDE DEF i, d, c, original
  <2> QED
    BY <1>1, <2>0, <2>1, <2>3, <2>4, <2>5 DEF IsLineOf
<1>3. ASSUME NEW j \in DOMAIN c, NEW k \in DOMAIN c, j < k
      PROVE  c[j].doc < c[k].doc
  <2>1. Increasing(KeptOf(documents, principal))
    BY <1>1, OwnDocuments
  <2>2. DOMAIN c = DOMAIN KeptOf(documents, principal)
    BY <1>1, ChosenDomain
  <2>3. /\ c[j].doc = KeptOf(documents, principal)[j]
        /\ c[k].doc = KeptOf(documents, principal)[k]
    BY <1>1, <1>3, ChosenDocument
  <2> QED
    BY <1>3, <2>1, <2>2, <2>3 DEF Increasing
<1> QED
  BY <1>2, <1>3 DEF Policy!Admissible

\* A step that ends the pipeline chooses; the earlier ones are not seen.
LEMMA PipelineChooses ==
    ASSUME RagInv, RagInv',
           AuthorizeDocuments \/ RawScan \/ InspectDocuments \/ FinalScan \/ Admit
    PROVE  Policy!Choose \/ UNCHANGED Policy!pvars
<1>1. /\ UNCHANGED <<documents, principal, recorded, given, answer>>
      /\ pc \in Working /\ pc' \in Working \cup {"built"}
  BY DEF AuthorizeDocuments, RawScan, InspectDocuments, FinalScan, Admit, Working
<1>2. /\ UNCHANGED Readable
      /\ UNCHANGED [i \in DOMAIN documents |-> documents[i].lines]
      /\ UNCHANGED IncludedIn(recorded)
      /\ UNCHANGED (IF answer = None THEN None ELSE IncludedIn(answer.trace))
  BY <1>1 DEF Readable, IncludedIn
<1>3. Stage = "asked"
  BY <1>1, StageOf
<1>4. CASE pc' \in Working
  <2>1. Stage' = "asked"
    BY <1>4, StageOf
  <2>2. context = <<>> /\ context' = <<>>
    BY <1>1, <1>4 DEF RagInv, Stages
  <2> QED
    BY <1>1, <1>2, <1>3, <2>1, <2>2 DEF Policy!pvars
<1>5. CASE pc' = "built"
  <2>1. Stage' = "chosen"
    BY <1>5, StageOf
  <2>2. PICK c : c = context'
    OBVIOUS
  <2>3. Outcome(documents, principal)'
    BY <1>5 DEF RagInv, Stages, Ended
  <2>4. \/ c = <<>>
        \/ /\ c = ChosenOf(documents, principal)
           /\ ~Finding(Joined(ChosenOf(documents, principal)))
    BY <1>1, <2>2, <2>3 DEF Outcome, RawRefused, FinalRefused, Built
  <2>5. Policy!Admissible(c)
    BY <2>4, EmptyIsAdmissible, ChosenIsAdmissible DEF RagInv
  <2>6. Policy!Admissible(context')
    BY <2>2, <2>5
  <2> QED
    BY <1>1, <1>2, <1>3, <2>1, <2>6 DEF Policy!Choose
<1> QED
  BY <1>1, <1>4, <1>5

\* The included entries are the documents of the context.
LEMMA IncludedAgrees ==
    ASSUME RagInv, pc \in Ended, entries # None
    PROVE  IncludedIn(entries) = Policy!Included
<1>1. Outcome(documents, principal) /\ documents \in Seq(Document)
  BY RequestDocuments DEF RagInv, Stages
<1>2. DOMAIN entries = DOMAIN documents /\ \A i \in DOMAIN documents : EndOf(documents, principal, i)
  BY <1>1, DocumentEnds
<1>3. \A i \in DOMAIN entries : entries[i].included <=> \E k \in DOMAIN context : context[k].doc = i
  BY <1>2 DEF EndOf
<1>4. ASSUME NEW k \in DOMAIN context PROVE context[k].doc \in DOMAIN entries
  <2>1. context = <<>> \/ context = ChosenOf(documents, principal)
    BY <1>1 DEF Outcome, RawRefused, FinalRefused, Built
  <2>2. context = ChosenOf(documents, principal)
    BY <1>4, <2>1
  <2>3. context[k].doc \in ReadableOf(documents, principal)
    BY <1>1, <1>4, <2>2, ChosenDocument
  <2> QED
    BY <1>2, <2>3 DEF ReadableOf
<1> QED
  BY <1>3, <1>4 DEF IncludedIn, Policy!Included

\* Recording, asking and answering are the steps the policy promises.
LEMMA HandlersFollow ==
    ASSUME RagInv,
           \/ WriteRAGEvent \/ AnswerContext
           \/ AskModel \/ ProviderFails \/ BlockOutput \/ AnswerChat
    PROVE  Policy!Record \/ Policy!Give \/ Policy!Answer
<1>1. UNCHANGED <<documents, principal, entries, context>>
  BY DEF WriteRAGEvent, AnswerContext, AskModel, ProviderFails, BlockOutput, AnswerChat, Finish
<1>2. /\ UNCHANGED Readable
      /\ UNCHANGED [i \in DOMAIN documents |-> documents[i].lines]
  BY <1>1 DEF Readable
<1>3. pc \in Ended => IncludedIn(entries) \in {None, Policy!Included}
  BY IncludedAgrees DEF IncludedIn
<1>4. IncludedIn(None) = None
  BY DEF IncludedIn
<1>5. CASE WriteRAGEvent
  <2>1. /\ pc = "built" /\ pc' = "traced" /\ recorded' \in {entries, None}
        /\ UNCHANGED <<given, answer>>
    BY <1>5 DEF WriteRAGEvent
  <2>2. Stage = "chosen" /\ Stage' = "noted"
    BY <2>1, StageOf
  <2>3. IncludedIn(recorded)' \in {None, Policy!Included}
    <3>1. IncludedIn(recorded') \in {None, Policy!Included}
      BY <1>3, <1>4, <2>1 DEF Ended
    <3>2. IncludedIn(recorded)' = IncludedIn(recorded')
      BY DEF IncludedIn
    <3> QED
      BY <3>1, <3>2
  <2>4. UNCHANGED (IF answer = None THEN None ELSE IncludedIn(answer.trace))
    BY <2>1 DEF IncludedIn
  <2> QED
    BY <1>1, <1>2, <2>1, <2>2, <2>3, <2>4 DEF Policy!Record
<1>6. CASE AskModel
  <2>1. /\ pc = "traced" /\ pc' = "asked" /\ given' = context
        /\ UNCHANGED <<recorded, answer>>
    BY <1>6 DEF AskModel
  <2>2. Stage = "noted" /\ Stage' = "given"
    BY <2>1, StageOf
  <2>3. /\ UNCHANGED (IF answer = None THEN None ELSE IncludedIn(answer.trace))
        /\ UNCHANGED IncludedIn(recorded)
    BY <2>1 DEF IncludedIn
  <2> QED
    BY <1>1, <1>2, <2>1, <2>2, <2>3 DEF Policy!Give
<1>7. CASE AnswerContext \/ ProviderFails \/ BlockOutput \/ AnswerChat
  <2>1. PICK status \in {200, 403, 502}, trace \in {entries, None} :
           /\ answer' = [status |-> status, trace |-> trace] /\ pc' = "done"
           /\ pc \in {"traced", "asked"} /\ UNCHANGED <<recorded, given>>
    BY <1>7 DEF AnswerContext, ProviderFails, BlockOutput, AnswerChat, Finish
  <2>2. Stage \in {"noted", "given"} /\ Stage' = "answered"
    BY <2>1, StageOf
  <2>3. (IF answer = None THEN None ELSE IncludedIn(answer.trace))' \in {None, Policy!Included}
    <3>1. IncludedIn(trace) \in {None, Policy!Included}
      BY <1>3, <1>4, <2>1 DEF Ended
    <3>2. answer'.trace = trace
      BY <2>1
    <3>3. IncludedIn(answer.trace)' = IncludedIn(trace)
      BY <3>2 DEF IncludedIn
    <3> QED
      BY <3>1, <3>3
  <2>4. UNCHANGED IncludedIn(recorded)
    BY <2>1 DEF IncludedIn
  <2> QED
    BY <1>1, <1>2, <2>1, <2>2, <2>3, <2>4 DEF Policy!Answer
<1> QED
  BY <1>5, <1>6, <1>7

\* The endpoints implement the retrieval policy: each step is a step of the
\* policy or changes nothing that it knows of.
THEOREM PolicyImplemented == Spec => ImplementsPolicy
<1>1. Init => Policy!PolicyInit
  <2> SUFFICES ASSUME Init PROVE Policy!PolicyInit
    OBVIOUS
  <2>1. Stage = "asked"
    BY StageOf DEF Init, Working
  <2> QED
    BY <2>1 DEF Init, Policy!PolicyInit, Readable, IncludedIn
<1>2. RagInv /\ RagInv' /\ [Next]_vars => [Policy!PolicyNext]_(Policy!pvars)
  <2> SUFFICES ASSUME RagInv, RagInv', [Next]_vars
               PROVE  Policy!PolicyNext \/ UNCHANGED Policy!pvars
    OBVIOUS
  <2>1. CASE UNCHANGED vars
    <3>1. UNCHANGED Stage
      BY <2>1 DEF vars, Stage
    <3> QED
      BY <2>1, <3>1 DEF vars, Policy!pvars, Readable, IncludedIn
  <2> QED
    BY <2>1, PipelineChooses, HandlersFollow DEF Next, Policy!PolicyNext
<1> QED
  BY <1>1, <1>2, RagInvariant, PTL DEF Spec, ImplementsPolicy, Policy!PolicySpec
==============================================================================
