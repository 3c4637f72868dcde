---------------------------- MODULE ScannerProofs -----------------------------
(***************************************************************************)
(* What KeptIn and FlattenSeq compute, for sequences of any length, and    *)
(* what the scanners of Scanner see of texts that were filtered, redacted  *)
(* or joined.  Both operators are recursive functions: the first lemma is  *)
(* induction over the naturals stated for a set, from which follow that    *)
(* the functions exist (KeptSteps, FlattenSteps) and everything else.      *)
(***************************************************************************)
EXTENDS Scanner, SequencesExt, WellFoundedInduction, TLAPS

\* Induction: a set that has 0 and with each number the next has them all.
LEMMA SetInduction ==
    ASSUME NEW S, 0 \in S, \A n \in Nat : n \in S => n + 1 \in S
    PROVE  Nat \subseteq S
<1> DEFINE T == Nat \ S
<1> SUFFICES ASSUME T # {} PROVE FALSE
  OBVIOUS
<1>1. PICK x \in T : \A y \in T : ~(<<y, x>> \in OpToRel(<, Nat))
  BY NatLessThanWellFounded, WFMin
<1>2. \A y \in T : ~(y < x)
  BY <1>1 DEF OpToRel
<1>3. x # 0 /\ x - 1 \in Nat /\ x - 1 < x
  OBVIOUS
<1>4. x - 1 \in S
  BY <1>2, <1>3
<1> QED
  BY <1>3, <1>4

-----------------------------------------------------------------------------
(* KeptIn *)

IsKept(s, S, f, n) ==
    f = [i \in 0 .. n |-> IF i = 0 THEN <<>>
                          ELSE IF s[i] \in S THEN Append(f[i - 1], s[i]) ELSE f[i - 1]]

\* The function of the loop exists for every number of rounds.
LEMMA KeptExists ==
    ASSUME NEW s, NEW S
    PROVE  \A n \in Nat : \E f : IsKept(s, S, f, n)
<1> DEFINE D == {n \in Nat : \E f : IsKept(s, S, f, n)}
<1>1. 0 \in D
  <2> DEFINE f == [i \in 0 .. 0 |-> <<>>]
  <2>1. IsKept(s, S, f, 0)
    BY DEF IsKept
  <2> HIDE DEF f
  <2> QED
    BY <2>1
<1>2. ASSUME NEW n \in Nat, n \in D PROVE n + 1 \in D
  <2>1. PICK f : IsKept(s, S, f, n)
    BY <1>2
  <2> DEFINE g == [i \in 0 .. n + 1 |->
                     IF i <= n THEN f[i]
                     ELSE IF s[i] \in S THEN Append(f[i - 1], s[i]) ELSE f[i - 1]]
  <2>2. \A i \in 0 .. n : f[i] = IF i = 0 THEN <<>>
                                 ELSE IF s[i] \in S THEN Append(f[i - 1], s[i]) ELSE f[i - 1]
    BY <2>1 DEF IsKept
  <2>3. \A i \in 0 .. n + 1 :
          g[i] = IF i = 0 THEN <<>>
                 ELSE IF s[i] \in S THEN Append(g[i - 1], s[i]) ELSE g[i - 1]
    BY <2>2
  <2>4. g = [i \in 0 .. n + 1 |-> g[i]]
    OBVIOUS
  <2> HIDE DEF g
  <2>5. IsKept(s, S, g, n + 1)
    BY <2>3, <2>4 DEF IsKept
  <2> QED
    BY <2>5
<1> HIDE DEF D
<1>3. Nat \subseteq D
  BY <1>1, <1>2, SetInduction
<1> QED
  BY <1>3 DEF D

\* KeptIn in steps: one for each entry of s.
LEMMA KeptSteps ==
    ASSUME NEW A, NEW s \in Seq(A), NEW S
    PROVE  \E h : /\ h[0] = <<>>
                  /\ \A i \in 1 .. Len(s) :
                        h[i] = IF s[i] \in S THEN Append(h[i - 1], s[i]) ELSE h[i - 1]
                  /\ KeptIn(s, S) = h[Len(s)]
<1>1. Len(s) \in Nat
  OBVIOUS
<1>2. PICK f : IsKept(s, S, f, Len(s))
  BY <1>1, KeptExists
<1> DEFINE c == CHOOSE f_1 : IsKept(s, S, f_1, Len(s))
<1>3. KeptIn(s, S) = c[Len(s)]
  BY DEF KeptIn, IsKept
<1>4. IsKept(s, S, c, Len(s))
  BY <1>2
<1> HIDE DEF c
<1>5. c[0] = <<>> /\ \A i \in 1 .. Len(s) :
        c[i] = IF s[i] \in S THEN Append(c[i - 1], s[i]) ELSE c[i - 1]
  <2>1. \A i \in 0 .. Len(s) : c[i] = IF i = 0 THEN <<>>
                                      ELSE IF s[i] \in S THEN Append(c[i - 1], s[i])
                                      ELSE c[i - 1]
    BY <1>1, <1>4 DEF IsKept
  <2>2. 0 \in 0 .. Len(s) /\ \A i \in 1 .. Len(s) : i \in 0 .. Len(s) /\ i # 0
    BY <1>1
  <2> QED
    BY <2>1, <2>2
<1> QED
  BY <1>3, <1>5

\* The places up to n of entries in S; e enumerates a set of places up to n
\* in increasing order; the entries it picks.
Places(s, S, n) == {i \in 1 .. n : s[i] \in S}

Enumerates(e, m, n, I) ==
    /\ m \in Nat
    /\ e \in [1 .. m -> 1 .. n]
    /\ \A j, k \in 1 .. m : j < k => e[j] < e[k]
    /\ \A k \in 1 .. m : e[k] \in I
    /\ \A i \in I : \E k \in 1 .. m : e[k] = i

Picked(s, e, m) == [k \in 1 .. m |-> s[e[k]]]

\* One more place, in the set or not.
LEMMA EnumerationGrows ==
    ASSUME NEW s, NEW S, NEW n \in Nat, NEW m, NEW e,
           Enumerates(e, m, n, Places(s, S, n))
    PROVE  /\ s[n + 1] \notin S => Enumerates(e, m, n + 1, Places(s, S, n + 1))
           /\ s[n + 1] \in S =>
                 \E d : /\ Enumerates(d, m + 1, n + 1, Places(s, S, n + 1))
                        /\ d[m + 1] = n + 1 /\ \A k \in 1 .. m : d[k] = e[k]
<1>1. m \in Nat /\ e \in [1 .. m -> 1 .. n]
  BY DEF Enumerates
<1>2. /\ s[n + 1] \notin S => Places(s, S, n + 1) = Places(s, S, n)
      /\ s[n + 1] \in S => Places(s, S, n + 1) = Places(s, S, n) \cup {n + 1}
  BY DEF Places
<1>3. CASE s[n + 1] \notin S
  <2>1. e \in [1 .. m -> 1 .. n + 1]
    BY <1>1
  <2> QED
    BY <1>2, <1>3, <2>1 DEF Enumerates
<1>4. CASE s[n + 1] \in S
  <2> DEFINE d == [k \in 1 .. m + 1 |-> IF k = m + 1 THEN n + 1 ELSE e[k]]
  <2>1. /\ d \in [1 .. m + 1 -> 1 .. n + 1]
        /\ d[m + 1] = n + 1 /\ \A k \in 1 .. m : d[k] = e[k]
    BY <1>1
  <2> HIDE DEF d
  <2>2. \A j, k \in 1 .. m + 1 : j < k => d[j] < d[k]
    <3> SUFFICES ASSUME NEW j \in 1 .. m + 1, NEW k \in 1 .. m + 1, j < k PROVE d[j] < d[k]
      OBVIOUS
    <3>1. j \in 1 .. m /\ e[j] \in 1 .. n /\ d[j] = e[j]
      BY <1>1, <2>1
    <3>2. CASE k = m + 1
      BY <2>1, <3>1, <3>2
    <3>3. CASE k # m + 1
      <4>1. k \in 1 .. m /\ d[k] = e[k]
        BY <1>1, <2>1, <3>3
      <4> QED
        BY <3>1, <4>1 DEF Enumerates
    <3> QED
      BY <3>2, <3>3
  <2>3. \A k \in 1 .. m + 1 : d[k] \in Places(s, S, n + 1)
    <3> SUFFICES ASSUME NEW k \in 1 .. m + 1 PROVE d[k] \in Places(s, S, n + 1)
      OBVIOUS
    <3>1. k = m + 1 \/ (k \in 1 .. m /\ d[k] = e[k])
      BY <1>1, <2>1
    <3> QED
      BY <1>2, <1>4, <2>1, <3>1 DEF Enumerates
  <2>4. \A i \in Places(s, S, n + 1) : \E k \in 1 .. m + 1 : d[k] = i
    <3> SUFFICES ASSUME NEW i \in Places(s, S, n + 1) PROVE \E k \in 1 .. m + 1 : d[k] = i
      OBVIOUS
    <3>1. CASE i = n + 1
      BY <1>1, <2>1, <3>1
    <3>2. CASE i \in Places(s, S, n)
      <4>1. PICK k \in 1 .. m : e[k] = i
        BY <3>2 DEF Enumerates
      <4> QED
        BY <1>1, <2>1, <4>1
    <3> QED
      BY <1>2, <1>4, <3>1, <3>2
  <2>5. Enumerates(d, m + 1, n + 1, Places(s, S, n + 1))
    BY <1>1, <2>1, <2>2, <2>3, <2>4 DEF Enumerates
  <2> QED
    BY <1>4, <2>1, <2>5
<1> QED
  BY <1>3, <1>4

\* The picks of a longer enumeration.
LEMMA PickedGrows ==
    ASSUME NEW A, NEW s \in Seq(A), NEW n \in Nat, n + 1 <= Len(s),
           NEW m \in Nat, NEW e \in [1 .. m -> 1 .. n], NEW d,
           d[m + 1] = n + 1, \A k \in 1 .. m : d[k] = e[k]
    PROVE  Append(Picked(s, e, m), s[n + 1]) = Picked(s, d, m + 1)
<1>1. \A k \in 1 .. m : e[k] \in 1 .. Len(s) /\ s[e[k]] \in A
  OBVIOUS
<1>2. Picked(s, e, m) \in Seq(A) /\ Len(Picked(s, e, m)) = m /\ s[n + 1] \in A
  BY <1>1 DEF Picked
<1> DEFINE t == Append(Picked(s, e, m), s[n + 1])
<1>3. t \in Seq(A) /\ Len(t) = m + 1 /\ t[m + 1] = s[n + 1]
      /\ \A k \in 1 .. m : t[k] = Picked(s, e, m)[k]
  BY <1>2
<1>4. t = [k \in 1 .. m + 1 |-> t[k]]
  BY <1>3
<1>5. \A k \in 1 .. m + 1 : t[k] = s[d[k]]
  BY <1>3 DEF Picked
<1> HIDE DEF t
<1>6. t = Picked(s, d, m + 1)
  BY <1>4, <1>5 DEF Picked
<1> QED
  BY <1>6 DEF t

\* Two sequences that keep the same places keep them alike: KeptIn picks the
\* places whose entries are in the set.
KeepAlike(s, S, u, U) ==
    Len(s) = Len(u) /\ \A i \in 1 .. Len(s) : s[i] \in S <=> u[i] \in U

PickedTogether(s, S, u, U) ==
    \E m, e : /\ Enumerates(e, m, Len(s), Places(s, S, Len(s)))
              /\ KeptIn(s, S) = Picked(s, e, m)
              /\ KeptIn(u, U) = Picked(u, e, m)

\* Filters that keep the same places of two sequences pick the same places.
LEMMA KeptTogether ==
    ASSUME NEW A, NEW s \in Seq(A), NEW S,
           NEW B, NEW u \in Seq(B), NEW U,
           KeepAlike(s, S, u, U)
    PROVE  PickedTogether(s, S, u, U)
<1>0. Len(s) = Len(u) /\ \A i \in 1 .. Len(s) : s[i] \in S <=> u[i] \in U
  BY DEF KeepAlike
<1>1. PICK f : /\ f[0] = <<>>
               /\ \A i \in 1 .. Len(s) :
                     f[i] = IF s[i] \in S THEN Append(f[i - 1], s[i]) ELSE f[i - 1]
               /\ KeptIn(s, S) = f[Len(s)]
  BY KeptSteps
<1>2. PICK g : /\ g[0] = <<>>
               /\ \A i \in 1 .. Len(u) :
                     g[i] = IF u[i] \in U THEN Append(g[i - 1], u[i]) ELSE g[i - 1]
               /\ KeptIn(u, U) = g[Len(u)]
  BY KeptSteps
<1> DEFINE P(n) == \E m, e : /\ Enumerates(e, m, n, Places(s, S, n))
                             /\ f[n] = Picked(s, e, m) /\ g[n] = Picked(u, e, m)
           D == {n \in Nat : n <= Len(s) => P(n)}
<1>3. 0 \in D
  <2> DEFINE e == [k \in 1 .. 0 |-> 0]
  <2>1. Enumerates(e, 0, 0, Places(s, S, 0))
    BY DEF Enumerates, Places
  <2>2. f[0] = Picked(s, e, 0) /\ g[0] = Picked(u, e, 0)
    BY <1>1, <1>2 DEF Picked
  <2> HIDE DEF e
  <2> QED
    BY <2>1, <2>2
<1>4. ASSUME NEW n \in Nat, n \in D PROVE n + 1 \in D
  <2> SUFFICES ASSUME n + 1 <= Len(s) PROVE P(n + 1)
    OBVIOUS
  <2>1. n + 1 \in 1 .. Len(s) /\ n + 1 \in 1 .. Len(u) /\ (n + 1) - 1 = n
    BY <1>0
  <2>2. PICK m, e : /\ Enumerates(e, m, n, Places(s, S, n))
                    /\ f[n] = Picked(s, e, m) /\ g[n] = Picked(u, e, m)
    BY <1>4
  <2>3. m \in Nat /\ e \in [1 .. m -> 1 .. n]
    BY <2>2 DEF Enumerates
  <2>4. CASE s[n + 1] \notin S
    <3>1. f[n + 1] = f[n] /\ g[n + 1] = g[n]
      BY <1>0, <1>1, <1>2, <2>1, <2>4
    <3>2. Enumerates(e, m, n + 1, Places(s, S, n + 1))
      BY <2>2, <2>4, EnumerationGrows
    <3> QED
      BY <2>2, <3>1, <3>2
  <2>5. CASE s[n + 1] \in S
    <3>1. f[n + 1] = Append(f[n], s[n + 1]) /\ g[n + 1] = Append(g[n], u[n + 1])
      BY <1>0, <1>1, <1>2, <2>1, <2>5
    <3>2. PICK d : /\ Enumerates(d, m + 1, n + 1, Places(s, S, n + 1))
                   /\ d[m + 1] = n + 1 /\ \A k \in 1 .. m : d[k] = e[k]
      BY <2>2, <2>5, EnumerationGrows
    <3>3. f[n + 1] = Picked(s, d, m + 1) /\ g[n + 1] = Picked(u, d, m + 1)
      <4>1. n + 1 <= Len(u)
        BY <2>1
      <4>2. Append(Picked(s, e, m), s[n + 1]) = Picked(s, d, m + 1)
        BY <2>3, <3>2, PickedGrows
      <4>3. Append(Picked(u, e, m), u[n + 1]) = Picked(u, d, m + 1)
        BY <2>3, <3>2, <4>1, PickedGrows
      <4> QED
        BY <2>2, <3>1, <4>2, <4>3
    <3> QED
      BY <3>2, <3>3
  <2> QED
    BY <2>4, <2>5
<1> HIDE DEF D
<1>5. Nat \subseteq D
  BY <1>3, <1>4, SetInduction
<1>6. Len(s) \in D /\ Len(s) \in Nat
  BY <1>5
<1>7. \E m, e : /\ Enumerates(e, m, Len(s), Places(s, S, Len(s)))
                /\ f[Len(s)] = Picked(s, e, m) /\ g[Len(s)] = Picked(u, e, m)
  BY <1>6 DEF D
<1> QED
  BY <1>0, <1>1, <1>2, <1>7 DEF PickedTogether

\* The same for one sequence, with the type of what is kept.
LEMMA KeptEnumerates ==
    ASSUME NEW A, NEW s \in Seq(A), NEW S
    PROVE  /\ KeptIn(s, S) \in Seq(A \cap S)
           /\ \E m, e : /\ Enumerates(e, m, Len(s), Places(s, S, Len(s)))
                        /\ Len(KeptIn(s, S)) = m
                        /\ KeptIn(s, S) = Picked(s, e, m)
<1>1. PICK m, e : /\ Enumerates(e, m, Len(s), Places(s, S, Len(s)))
                  /\ KeptIn(s, S) = Picked(s, e, m)
  <2>1. KeepAlike(s, S, s, S)
    BY DEF KeepAlike
  <2>2. PickedTogether(s, S, s, S)
    BY <2>1, KeptTogether
  <2> QED
    BY <2>2 DEF PickedTogether
<1>2. m \in Nat /\ \A k \in 1 .. m : e[k] \in 1 .. Len(s) /\ s[e[k]] \in A \cap S
  BY <1>1 DEF Enumerates, Places
<1>3. KeptIn(s, S) \in Seq(A \cap S) /\ Len(KeptIn(s, S)) = m
  BY <1>1, <1>2 DEF Picked
<1> QED
  BY <1>1, <1>3

\* Neighbours that are both kept are neighbours among the picks.
PicksNeighbours(e, m, i) ==
    \E k \in 1 .. m : k + 1 \in 1 .. m /\ e[k] = i /\ e[k + 1] = i + 1

\* Neighbours that are both kept stay neighbours.
LEMMA NeighboursStay ==
    ASSUME NEW n \in Nat, NEW m, NEW e, NEW I, Enumerates(e, m, n, I),
           NEW i \in I, i + 1 \in I
    PROVE  PicksNeighbours(e, m, i)
<1>1. m \in Nat /\ e \in [1 .. m -> 1 .. n]
  BY DEF Enumerates
<1>2. PICK k \in 1 .. m : e[k] = i
  BY DEF Enumerates
<1>3. PICK l \in 1 .. m : e[l] = i + 1
  BY DEF Enumerates
<1>4. k < l
  <2>1. l < k => e[l] < e[k]
    BY DEF Enumerates
  <2>2. e[k] \in Nat /\ e[l] \in Nat
    BY <1>1
  <2> QED
    BY <1>1, <1>2, <1>3, <2>1, <2>2
<1>5. l = k + 1
  <2> SUFFICES ASSUME k + 1 < l PROVE FALSE
    BY <1>1, <1>4
  <2>1. k + 1 \in 1 .. m
    BY <1>1
  <2>2. e[k] < e[k + 1] /\ e[k + 1] < e[l]
    BY <1>1, <2>1 DEF Enumerates
  <2>3. e[k] \in Nat /\ e[k + 1] \in Nat /\ e[l] \in Nat
    BY <1>1, <2>1
  <2> QED
    BY <1>2, <1>3, <2>2, <2>3
<1> QED
  BY <1>2, <1>3, <1>5 DEF PicksNeighbours

-----------------------------------------------------------------------------
(* FlattenSeq *)

\* A concatenation and its entries.
IsConcatenation(c, a, b) ==
    /\ Len(a) \in Nat /\ Len(b) \in Nat /\ Len(c) = Len(a) + Len(b)
    /\ \A j \in 1 .. Len(a) : c[j] = a[j]
    /\ \A k \in 1 .. Len(b) : c[Len(a) + k] = b[k]

\* Where the entries of a concatenation come from.
LEMMA Concatenation ==
    ASSUME NEW A, NEW a \in Seq(A), NEW b \in Seq(A)
    PROVE  a \o b \in Seq(A) /\ IsConcatenation(a \o b, a, b)
<1>1. /\ a \o b \in Seq(A)
      /\ Len(a) \in Nat /\ Len(b) \in Nat /\ Len(a \o b) = Len(a) + Len(b)
  OBVIOUS
<1>2. \A j \in 1 .. Len(a) : (a \o b)[j] = a[j]
  OBVIOUS
<1>3. \A k \in 1 .. Len(b) : (a \o b)[Len(a) + k] = b[k]
  OBVIOUS
<1> QED
  BY <1>1, <1>2, <1>3 DEF IsConcatenation

IsFlat(s, f, n) ==
    f = [i \in 1 .. n |-> IF i = 1 THEN s[i] ELSE f[i - 1] \o s[i]]

\* The function of FlattenSeq exists for every number of parts.
LEMMA FlatExists ==
    ASSUME NEW s
    PROVE  \A n \in Nat : \E f : IsFlat(s, f, n)
<1> DEFINE D == {n \in Nat : \E f : IsFlat(s, f, n)}
<1>1. 0 \in D
  <2> DEFINE f == [i \in 1 .. 0 |-> <<>>]
  <2>1. IsFlat(s, f, 0)
    BY DEF IsFlat
  <2> HIDE DEF f
  <2> QED
    BY <2>1
<1>2. ASSUME NEW n \in Nat, n \in D PROVE n + 1 \in D
  <2>1. PICK f : IsFlat(s, f, n)
    BY <1>2
  <2> DEFINE g == [i \in 1 .. n + 1 |->
                     IF i <= n THEN f[i] ELSE IF i = 1 THEN s[i] ELSE f[i - 1] \o s[i]]
  <2>2. \A i \in 1 .. n : f[i] = IF i = 1 THEN s[i] ELSE f[i - 1] \o s[i]
    BY <2>1 DEF IsFlat
  <2>3. \A i \in 1 .. n + 1 : g[i] = IF i = 1 THEN s[i] ELSE g[i - 1] \o s[i]
    BY <2>2
  <2>4. g = [i \in 1 .. n + 1 |-> g[i]]
    OBVIOUS
  <2> HIDE DEF g
  <2>5. IsFlat(s, g, n + 1)
    BY <2>3, <2>4 DEF IsFlat
  <2> QED
    BY <2>5
<1> HIDE DEF D
<1>3. Nat \subseteq D
  BY <1>1, <1>2, SetInduction
<1> QED
  BY <1>3 DEF D

\* FlattenSeq in steps: one for each part of s.
LEMMA FlattenSteps ==
    ASSUME NEW A, NEW s \in Seq(Seq(A))
    PROVE  \E h : /\ h[0] = <<>>
                  /\ \A i \in 1 .. Len(s) : h[i] = h[i - 1] \o s[i]
                  /\ \A i \in 0 .. Len(s) : h[i] \in Seq(A)
                  /\ FlattenSeq(s) = h[Len(s)]
<1>1. Len(s) \in Nat
  OBVIOUS
<1>2. PICK f : IsFlat(s, f, Len(s))
  BY <1>1, FlatExists
<1> DEFINE c == CHOOSE f_1 : IsFlat(s, f_1, Len(s))
<1>3. FlattenSeq(s) = IF Len(s) = 0 THEN s ELSE c[Len(s)]
  BY DEF FlattenSeq, IsFlat
<1>4. IsFlat(s, c, Len(s))
  BY <1>2
<1> HIDE DEF c
<1>5. \A i \in 1 .. Len(s) : c[i] = IF i = 1 THEN s[i] ELSE c[i - 1] \o s[i]
  BY <1>1, <1>4 DEF IsFlat
<1> DEFINE h == [i \in 0 .. Len(s) |-> IF i = 0 THEN <<>> ELSE c[i]]
<1>6. h[0] = <<>> /\ \A i \in 1 .. Len(s) : h[i] = c[i]
  BY <1>1
<1>7. FlattenSeq(s) = h[Len(s)]
  <2>1. CASE Len(s) = 0
    BY <1>3, <1>6, <2>1
  <2>2. CASE Len(s) # 0
    BY <1>1, <1>3, <1>6, <2>2
  <2> QED
    BY <2>1, <2>2
<1> HIDE DEF h
<1>8. \A i \in 1 .. Len(s) : h[i] = h[i - 1] \o s[i]
  <2> SUFFICES ASSUME NEW i \in 1 .. Len(s) PROVE h[i] = h[i - 1] \o s[i]
    OBVIOUS
  <2>1. s[i] \in Seq(A)
    OBVIOUS
  <2>2. CASE i = 1
    <3>1. h[i] = s[i] /\ h[i - 1] = <<>>
      BY <1>5, <1>6, <2>2
    <3>2. <<>> \o s[i] = s[i]
      BY <2>1
    <3> QED
      BY <3>1, <3>2
  <2>3. CASE i # 1
    <3>1. i - 1 \in 1 .. Len(s)
      BY <1>1, <2>3
    <3> QED
      BY <1>5, <1>6, <2>3, <3>1
  <2> QED
    BY <2>2, <2>3
<1> DEFINE D == {n \in Nat : n <= Len(s) => h[n] \in Seq(A)}
<1>9. 0 \in D
  <2>1. <<>> \in Seq(A)
    OBVIOUS
  <2> QED
    BY <1>6, <2>1
<1>10. ASSUME NEW n \in Nat, n \in D PROVE n + 1 \in D
  <2> SUFFICES ASSUME n + 1 <= Len(s) PROVE h[n + 1] \in Seq(A)
    OBVIOUS
  <2>1. n + 1 \in 1 .. Len(s) /\ (n + 1) - 1 = n
    BY <1>1
  <2>2. h[n] \in Seq(A) /\ s[n + 1] \in Seq(A)
    BY <1>10, <2>1
  <2>3. h[n + 1] = h[n] \o s[n + 1]
    BY <1>8, <2>1
  <2> QED
    BY <2>2, <2>3
<1> HIDE DEF D
<1>11. Nat \subseteq D
  BY <1>9, <1>10, SetInduction
<1>12. \A i \in 0 .. Len(s) : h[i] \in Seq(A)
  BY <1>1, <1>11 DEF D
<1> QED
  BY <1>6, <1>7, <1>8, <1>12

\* A part more.
LEMMA FlattenSnoc ==
    ASSUME NEW A, NEW s \in Seq(Seq(A)), NEW x \in Seq(A)
    PROVE  FlattenSeq(Append(s, x)) = FlattenSeq(s) \o x
<1> DEFINE t == Append(s, x)
<1>1. /\ t \in Seq(Seq(A)) /\ Len(t) = Len(s) + 1 /\ t[Len(s) + 1] = x
      /\ \A i \in 1 .. Len(s) : t[i] = s[i]
      /\ Len(s) \in Nat
  OBVIOUS
<1> HIDE DEF t
<1>2. PICK h : /\ h[0] = <<>>
               /\ \A i \in 1 .. Len(s) : h[i] = h[i - 1] \o s[i]
               /\ FlattenSeq(s) = h[Len(s)]
  BY FlattenSteps
<1>3. PICK g : /\ g[0] = <<>>
               /\ \A i \in 1 .. Len(t) : g[i] = g[i - 1] \o t[i]
               /\ FlattenSeq(t) = g[Len(t)]
  BY <1>1, FlattenSteps
<1> DEFINE D == {n \in Nat : n <= Len(s) => g[n] = h[n]}
<1>4. 0 \in D
  BY <1>2, <1>3
<1>5. ASSUME NEW n \in Nat, n \in D PROVE n + 1 \in D
  <2> SUFFICES ASSUME n + 1 <= Len(s) PROVE g[n + 1] = h[n + 1]
    OBVIOUS
  <2>1. n + 1 \in 1 .. Len(s) /\ n + 1 \in 1 .. Len(t) /\ (n + 1) - 1 = n
    BY <1>1
  <2>2. g[n] = h[n]
    BY <1>1, <1>5, <2>1
  <2> QED
    BY <1>1, <1>2, <1>3, <2>1, <2>2
<1> HIDE DEF D
<1>6. Nat \subseteq D
  BY <1>4, <1>5, SetInduction
<1>7. g[Len(s)] = h[Len(s)]
  BY <1>1, <1>6 DEF D
<1>8. Len(t) \in 1 .. Len(t) /\ Len(t) - 1 = Len(s)
  BY <1>1
<1>9. g[Len(t)] = g[Len(s)] \o x
  BY <1>1, <1>3, <1>8
<1> QED
  BY <1>2, <1>3, <1>7, <1>9 DEF t

\* The whole has every part in one piece, and nothing else.
IsPiece(t, u) ==
    \E off \in Nat : /\ off + Len(u) <= Len(t)
                     /\ \A k \in 1 .. Len(u) : t[off + k] = u[k]

IsFrom(x, s, n) == \E i \in 1 .. n : \E k \in 1 .. Len(s[i]) : x = s[i][k]

\* A joined text has every text as a piece, and nothing else.
LEMMA FlattenPieces ==
    ASSUME NEW A, NEW s \in Seq(Seq(A))
    PROVE  /\ FlattenSeq(s) \in Seq(A)
           /\ \A i \in 1 .. Len(s) : IsPiece(FlattenSeq(s), s[i])
           /\ \A j \in 1 .. Len(FlattenSeq(s)) : IsFrom(FlattenSeq(s)[j], s, Len(s))
<1>1. Len(s) \in Nat
  OBVIOUS
<1>2. PICK h : /\ h[0] = <<>>
               /\ \A i \in 1 .. Len(s) : h[i] = h[i - 1] \o s[i]
               /\ \A i \in 0 .. Len(s) : h[i] \in Seq(A)
               /\ FlattenSeq(s) = h[Len(s)]
  BY FlattenSteps
<1> DEFINE D == {n \in Nat : n <= Len(s) => /\ \A i \in 1 .. n : IsPiece(h[n], s[i])
                                            /\ \A j \in 1 .. Len(h[n]) : IsFrom(h[n][j], s, n)}
<1>3. 0 \in D
  BY <1>2
<1>4. ASSUME NEW n \in Nat, n \in D PROVE n + 1 \in D
  <2> SUFFICES ASSUME n + 1 <= Len(s)
               PROVE  /\ \A i \in 1 .. n + 1 : IsPiece(h[n + 1], s[i])
                      /\ \A j \in 1 .. Len(h[n + 1]) : IsFrom(h[n + 1][j], s, n + 1)
    OBVIOUS
  <2>0. /\ \A i \in 1 .. n : IsPiece(h[n], s[i])
        /\ \A j \in 1 .. Len(h[n]) : IsFrom(h[n][j], s, n)
    <3>1. n <= Len(s)
      BY <1>1
    <3> QED
      BY <1>4, <3>1
  <2>1. n + 1 \in 1 .. Len(s) /\ n \in 0 .. Len(s) /\ (n + 1) - 1 = n
    BY <1>1
  <2>2. h[n] \in Seq(A) /\ s[n + 1] \in Seq(A) /\ h[n + 1] = h[n] \o s[n + 1]
    <3>1. h[n + 1] = h[(n + 1) - 1] \o s[n + 1]
      BY <1>2, <2>1
    <3>2. h[n] \in Seq(A)
      BY <1>2, <2>1
    <3> QED
      BY <2>1, <3>1, <3>2
  <2> DEFINE p == Len(h[n])
             q == Len(s[n + 1])
  <2>3. /\ p \in Nat /\ q \in Nat /\ Len(h[n + 1]) = p + q
        /\ \A j \in 1 .. p : h[n + 1][j] = h[n][j]
        /\ \A k \in 1 .. q : h[n + 1][p + k] = s[n + 1][k]
    <3>1. IsConcatenation(h[n + 1], h[n], s[n + 1])
      BY <2>2, Concatenation
    <3> QED
      BY <3>1 DEF IsConcatenation
  <2> HIDE DEF p, q
  <2>4. ASSUME NEW i \in 1 .. n + 1 PROVE IsPiece(h[n + 1], s[i])
    <3>1. CASE i = n + 1
      <4>1. p + Len(s[i]) <= Len(h[n + 1])
        BY <2>3, <3>1 DEF q
      <4>2. \A k \in 1 .. Len(s[i]) : h[n + 1][p + k] = s[i][k]
        BY <2>3, <3>1 DEF q
      <4> QED
        BY <2>3, <4>1, <4>2 DEF IsPiece
    <3>2. CASE i # n + 1
      <4>1. i \in 1 .. n /\ i \in 1 .. Len(s)
        BY <1>1, <2>1, <3>2
      <4>2. PICK off \in Nat : /\ off + Len(s[i]) <= p
                               /\ \A k \in 1 .. Len(s[i]) : h[n][off + k] = s[i][k]
        BY <2>0, <4>1 DEF IsPiece, p
      <4>3. s[i] \in Seq(A) /\ Len(s[i]) \in Nat
        BY <4>1
      <4>4. off + Len(s[i]) <= Len(h[n + 1])
        BY <2>3, <4>2, <4>3
      <4>5. \A k \in 1 .. Len(s[i]) : off + k \in 1 .. p
        BY <2>3, <4>2, <4>3
      <4>6. \A k \in 1 .. Len(s[i]) : h[n + 1][off + k] = s[i][k]
        BY <2>3, <4>2, <4>5
      <4> QED
        BY <4>4, <4>6 DEF IsPiece
    <3> QED
      BY <3>1, <3>2
  <2>5. ASSUME NEW j \in 1 .. Len(h[n + 1]) PROVE IsFrom(h[n + 1][j], s, n + 1)
    <3>1. CASE j \in 1 .. p
      <4>1. PICK i \in 1 .. n : \E k \in 1 .. Len(s[i]) : h[n][j] = s[i][k]
        BY <2>0, <3>1 DEF p, IsFrom
      <4>2. h[n + 1][j] = h[n][j]
        BY <2>3, <3>1
      <4>3. i \in 1 .. n + 1
        OBVIOUS
      <4> QED
        BY <4>1, <4>2, <4>3 DEF IsFrom
    <3>2. CASE j \notin 1 .. p
      <4>1. j - p \in 1 .. q /\ p + (j - p) = j
        BY <2>3, <3>2
      <4>2. h[n + 1][j] = s[n + 1][j - p]
        BY <2>3, <4>1
      <4>3. n + 1 \in 1 .. n + 1
        OBVIOUS
      <4> QED
        BY <4>1, <4>2, <4>3 DEF q, IsFrom
    <3> QED
      BY <3>1, <3>2
  <2> QED
    BY <2>4, <2>5
<1> HIDE DEF D
<1>5. Nat \subseteq D
  BY <1>3, <1>4, SetInduction
<1>6. /\ \A i \in 1 .. Len(s) : IsPiece(h[Len(s)], s[i])
      /\ \A j \in 1 .. Len(h[Len(s)]) : IsFrom(h[Len(s)][j], s, Len(s))
  BY <1>1, <1>5 DEF D
<1>7. h[Len(s)] \in Seq(A)
  BY <1>1, <1>2
<1> QED
  BY <1>2, <1>6, <1>7

\* Two sequences of parts that agree up to a relation have flat sequences
\* that do.
Matching(t, u, R) == Len(t) = Len(u) /\ \A k \in 1 .. Len(t) : <<t[k], u[k]>> \in R

\* Texts that match one by one match when they are joined.
LEMMA FlattenTogether ==
    ASSUME NEW A, NEW s \in Seq(Seq(A)), NEW B, NEW u \in Seq(Seq(B)), NEW R,
           Len(s) = Len(u), \A i \in 1 .. Len(s) : Matching(s[i], u[i], R)
    PROVE  Matching(FlattenSeq(s), FlattenSeq(u), R)
<1>1. Len(s) \in Nat
  OBVIOUS
<1>2. PICK f : /\ f[0] = <<>>
               /\ \A i \in 1 .. Len(s) : f[i] = f[i - 1] \o s[i]
               /\ \A i \in 0 .. Len(s) : f[i] \in Seq(A)
               /\ FlattenSeq(s) = f[Len(s)]
  BY FlattenSteps
<1>3. PICK g : /\ g[0] = <<>>
               /\ \A i \in 1 .. Len(u) : g[i] = g[i - 1] \o u[i]
               /\ \A i \in 0 .. Len(u) : g[i] \in Seq(B)
               /\ FlattenSeq(u) = g[Len(u)]
  BY FlattenSteps
<1> DEFINE D == {n \in Nat : n <= Len(s) => Matching(f[n], g[n], R)}
<1>4. 0 \in D
  BY <1>2, <1>3 DEF Matching
<1>5. ASSUME NEW n \in Nat, n \in D PROVE n + 1 \in D
  <2> SUFFICES ASSUME n + 1 <= Len(s) PROVE Matching(f[n + 1], g[n + 1], R)
    OBVIOUS
  <2>1. n + 1 \in 1 .. Len(s) /\ n \in 0 .. Len(s) /\ (n + 1) - 1 = n
    BY <1>1
  <2>2. f[n] \in Seq(A) /\ s[n + 1] \in Seq(A) /\ f[n + 1] = f[n] \o s[n + 1]
    <3>1. f[n + 1] = f[(n + 1) - 1] \o s[n + 1]
      BY <1>2, <2>1
    <3>2. f[n] \in Seq(A)
      BY <1>2, <2>1
    <3> QED
      BY <2>1, <3>1, <3>2
  <2>3. g[n] \in Seq(B) /\ u[n + 1] \in Seq(B) /\ g[n + 1] = g[n] \o u[n + 1]
    <3>1. g[n + 1] = g[(n + 1) - 1] \o u[n + 1]
      BY <1>3, <2>1
    <3>2. g[n] \in Seq(B)
      BY <1>3, <2>1
    <3> QED
      BY <2>1, <3>1, <3>2
  <2> DEFINE p == Len(f[n])
             q == Len(s[n + 1])
  <2>4. p \in Nat /\ q \in Nat /\ Len(g[n]) = p /\ Len(u[n + 1]) = q
    BY <1>5, <2>1, <2>2 DEF Matching
  <2>5. /\ Len(f[n + 1]) = p + q
        /\ \A j \in 1 .. p : f[n + 1][j] = f[n][j]
        /\ \A k \in 1 .. q : f[n + 1][p + k] = s[n + 1][k]
    <3>1. IsConcatenation(f[n + 1], f[n], s[n + 1])
      BY <2>2, Concatenation
    <3> QED
      BY <3>1 DEF IsConcatenation
  <2>6. /\ Len(g[n + 1]) = p + q
        /\ \A j \in 1 .. p : g[n + 1][j] = g[n][j]
        /\ \A k \in 1 .. q : g[n + 1][p + k] = u[n + 1][k]
    <3>1. IsConcatenation(g[n + 1], g[n], u[n + 1])
      BY <2>3, Concatenation
    <3> HIDE DEF p, q
    <3> QED
      BY <2>4, <3>1 DEF IsConcatenation
  <2>7. /\ \A j \in 1 .. p : <<f[n][j], g[n][j]>> \in R
        /\ \A k \in 1 .. q : <<s[n + 1][k], u[n + 1][k]>> \in R
    BY <1>5, <2>1 DEF Matching
  <2> HIDE DEF p, q
  <2>8. ASSUME NEW j \in 1 .. p + q PROVE <<f[n + 1][j], g[n + 1][j]>> \in R
    <3>1. CASE j \in 1 .. p
      BY <2>5, <2>6, <2>7, <3>1
    <3>2. CASE j \notin 1 .. p
      <4>1. j - p \in 1 .. q /\ p + (j - p) = j
        BY <2>4, <3>2
      <4>2. f[n + 1][j] = s[n + 1][j - p] /\ g[n + 1][j] = u[n + 1][j - p]
        BY <2>5, <2>6, <4>1
      <4> QED
        BY <2>7, <4>1, <4>2
    <3> QED
      BY <3>1, <3>2
  <2> QED
    BY <2>5, <2>6, <2>8 DEF Matching
<1> HIDE DEF D
<1>6. Nat \subseteq D
  BY <1>4, <1>5, SetInduction
<1>7. Matching(f[Len(s)], g[Len(s)], R)
  BY <1>1, <1>6 DEF D
<1> QED
  BY <1>2, <1>3, <1>7

\* Leaving out entries that stand for nothing changes nothing.
Mapped(t, F) == [k \in DOMAIN t |-> F[t[k]]]

AppendMaps(t, x, F) == Mapped(Append(t, x), F) = Append(Mapped(t, F), F[x])

\* Mapping an extended sequence extends the mapped one.
LEMMA MappedAppend ==
    ASSUME NEW A, NEW t \in Seq(A), NEW x \in A, NEW B, NEW F \in [A -> B]
    PROVE  /\ Mapped(t, F) \in Seq(B) /\ Len(Mapped(t, F)) = Len(t)
           /\ AppendMaps(t, x, F)
<1>1. Mapped(t, F) \in Seq(B) /\ Len(Mapped(t, F)) = Len(t)
  BY DEF Mapped
<1>2. Mapped(Append(t, x), F) \in Seq(B) /\ Len(Mapped(Append(t, x), F)) = Len(t) + 1
  BY DEF Mapped
<1> DEFINE a == Mapped(Append(t, x), F)
           b == Append(Mapped(t, F), F[x])
<1>3. b \in Seq(B) /\ Len(b) = Len(t) + 1
  BY <1>1
<1>4. \A k \in 1 .. Len(t) + 1 : a[k] = b[k]
  <2> SUFFICES ASSUME NEW k \in 1 .. Len(t) + 1 PROVE a[k] = b[k]
    OBVIOUS
  <2>1. CASE k = Len(t) + 1
    BY <1>1, <2>1 DEF Mapped
  <2>2. CASE k \in 1 .. Len(t)
    <3>1. Append(t, x)[k] = t[k] /\ k \in DOMAIN t /\ k \in DOMAIN Append(t, x)
      BY <2>2
    <3>2. a[k] = F[t[k]]
      BY <3>1 DEF Mapped
    <3>3. b[k] = Mapped(t, F)[k]
      BY <1>1, <2>2
    <3>4. Mapped(t, F)[k] = F[t[k]]
      BY <3>1 DEF Mapped
    <3> QED
      BY <3>2, <3>3, <3>4
  <2>3. k = Len(t) + 1 \/ k \in 1 .. Len(t)
    OBVIOUS
  <2> QED
    BY <2>1, <2>2, <2>3
<1> HIDE DEF a, b
<1>5. a \in Seq(B) /\ Len(a) = Len(t) + 1
  BY <1>2 DEF a
<1>6. a = b
  BY <1>3, <1>4, <1>5
<1> QED
  BY <1>1, <1>6 DEF a, b, AppendMaps

\* Leaving out what contributes nothing does not change the joined text.
LEMMA FlattenKept ==
    ASSUME NEW A, NEW s \in Seq(A), NEW S, NEW B, NEW F \in [A -> Seq(B)],
           \A x \in A : x \notin S => F[x] = <<>>
    PROVE  FlattenSeq(Mapped(KeptIn(s, S), F)) = FlattenSeq(Mapped(s, F))
<1>1. PICK h : /\ h[0] = <<>>
               /\ \A i \in 1 .. Len(s) :
                     h[i] = IF s[i] \in S THEN Append(h[i - 1], s[i]) ELSE h[i - 1]
               /\ KeptIn(s, S) = h[Len(s)]
  BY KeptSteps
<1> DEFINE u == Mapped(s, F)
<1>2. /\ u \in Seq(Seq(B)) /\ Len(u) = Len(s) /\ Len(s) \in Nat
      /\ \A i \in 1 .. Len(s) : u[i] = F[s[i]] /\ s[i] \in A
  BY DEF Mapped
<1> HIDE DEF u
<1>3. PICK f : /\ f[0] = <<>>
               /\ \A i \in 1 .. Len(u) : f[i] = f[i - 1] \o u[i]
               /\ \A i \in 0 .. Len(u) : f[i] \in Seq(B)
               /\ FlattenSeq(u) = f[Len(u)]
  BY <1>2, FlattenSteps
<1> DEFINE D == {n \in Nat : n <= Len(s) => /\ h[n] \in Seq(A)
                                            /\ FlattenSeq(Mapped(h[n], F)) = f[n]}
<1>4. 0 \in D
  <2>1. Mapped(<<>>, F) = <<>> /\ <<>> \in Seq(A)
    BY DEF Mapped
  <2>2. FlattenSeq(<<>>) = <<>>
    BY DEF FlattenSeq
  <2> QED
    BY <1>1, <1>3, <2>1, <2>2
<1>5. ASSUME NEW n \in Nat, n \in D PROVE n + 1 \in D
  <2> SUFFICES ASSUME n + 1 <= Len(s)
               PROVE  h[n + 1] \in Seq(A) /\ FlattenSeq(Mapped(h[n + 1], F)) = f[n + 1]
    OBVIOUS
  <2>1. n + 1 \in 1 .. Len(s) /\ n \in 0 .. Len(u) /\ n + 1 \in 1 .. Len(u) /\ (n + 1) - 1 = n
    BY <1>2
  <2>2. h[n] \in Seq(A) /\ FlattenSeq(Mapped(h[n], F)) = f[n]
    BY <1>2, <1>5, <2>1
  <2>3. f[n] \in Seq(B)
    BY <1>3, <2>1
  <2>4. u[n + 1] = F[s[n + 1]] /\ s[n + 1] \in A /\ F[s[n + 1]] \in Seq(B)
    BY <1>2, <2>1
  <2>5. f[n + 1] = f[n] \o F[s[n + 1]]
    BY <1>3, <2>1, <2>4
  <2>6. CASE s[n + 1] \in S
    <3>1. h[n + 1] = Append(h[n], s[n + 1])
      BY <1>1, <2>1, <2>6
    <3>2. h[n + 1] \in Seq(A)
      BY <2>2, <2>4, <3>1
    <3>3. /\ Mapped(h[n], F) \in Seq(Seq(B))
          /\ Mapped(h[n + 1], F) = Append(Mapped(h[n], F), F[s[n + 1]])
      <4> DEFINE C == Seq(B)
      <4>1. F \in [A -> C]
        OBVIOUS
      <4> HIDE DEF C
      <4>2. Mapped(h[n], F) \in Seq(C)
        BY <2>2, <2>4, <4>1, MappedAppend
      <4>3. AppendMaps(h[n], s[n + 1], F)
        BY <2>2, <2>4, <4>1, MappedAppend
      <4> QED
        BY <3>1, <4>2, <4>3 DEF C, AppendMaps
    <3>4. FlattenSeq(Mapped(h[n + 1], F)) = FlattenSeq(Mapped(h[n], F)) \o F[s[n + 1]]
      BY <2>4, <3>3, FlattenSnoc
    <3> QED
      BY <2>2, <2>5, <3>2, <3>4
  <2>7. CASE s[n + 1] \notin S
    <3>1. h[n + 1] = h[n]
      BY <1>1, <2>1, <2>7
    <3>2. F[s[n + 1]] = <<>>
      BY <2>4, <2>7
    <3>3. f[n] \o <<>> = f[n]
      BY <2>3
    <3> QED
      BY <2>2, <2>5, <3>1, <3>2, <3>3
  <2> QED
    BY <2>6, <2>7
<1> HIDE DEF D
<1>6. Nat \subseteq D
  BY <1>4, <1>5, SetInduction
<1>7. FlattenSeq(Mapped(h[Len(s)], F)) = f[Len(s)]
  BY <1>2, <1>6 DEF D
<1> QED
  BY <1>1, <1>2, <1>3, <1>7 DEF u

-----------------------------------------------------------------------------
(* The scanners *)

\* Lines that no pattern but that of personal data reads.
Neutral == {"pii", "pii1", "pii2", "redacted"}

Alike == {p \in Line \X Line : p[1] = p[2] \/ (p[1] \in Neutral /\ p[2] \in Neutral)}

\* Lines are alike when they are equal or neither tells a scanner anything.
LEMMA AlikePair ==
    ASSUME NEW k, NEW l
    PROVE  <<k, l>> \in Alike <=> /\ k \in Line /\ l \in Line
                                  /\ k = l \/ (k \in Neutral /\ l \in Neutral)
BY DEF Alike

\* Texts that match are alike line by line.
LEMMA AlikeTexts ==
    ASSUME NEW t \in Seq(Line), NEW u \in Seq(Line), Matching(t, u, Alike)
    PROVE  /\ DOMAIN t = 1 .. Len(t) /\ DOMAIN u = 1 .. Len(t) /\ Len(t) \in Nat
           /\ \A i \in 1 .. Len(t) : /\ t[i] \in Line /\ u[i] \in Line
                                     /\ t[i] = u[i] \/ (t[i] \in Neutral /\ u[i] \in Neutral)
<1>1. DOMAIN t = 1 .. Len(t) /\ DOMAIN u = 1 .. Len(t) /\ Len(t) \in Nat
  BY DEF Matching
<1>2. ASSUME NEW i \in 1 .. Len(t)
      PROVE  t[i] \in Line /\ u[i] \in Line /\ (t[i] = u[i] \/ (t[i] \in Neutral /\ u[i] \in Neutral))
  <2>1. <<t[i], u[i]>> \in Alike
    BY DEF Matching
  <2> QED
    BY <2>1, AlikePair
<1> QED
  BY <1>1, <1>2

\* Two texts that are alike line by line are alike to the raw scan.
LEMMA RawScanAlike ==
    ASSUME NEW t \in Seq(Line), NEW u \in Seq(Line), Matching(t, u, Alike)
    PROVE  /\ SevereMatch(t) <=> SevereMatch(u)
           /\ RawFinding(t) <=> RawFinding(u)
           /\ \A K : K \cap Neutral = {} => (Has(t, K) <=> Has(u, K))
<1>1. /\ DOMAIN t = 1 .. Len(t) /\ DOMAIN u = 1 .. Len(t) /\ Len(t) \in Nat
      /\ \A i \in 1 .. Len(t) : t[i] = u[i] \/ (t[i] \in Neutral /\ u[i] \in Neutral)
  BY AlikeTexts
<1>2. \A K : K \cap Neutral = {} => (Has(t, K) <=> Has(u, K))
  BY <1>1 DEF Has
<1>3. \A i \in 1 .. Len(t) :
         /\ t[i] \in {"attack", "quoted", "discussion"} <=> u[i] \in {"attack", "quoted", "discussion"}
         /\ t[i] = "head" <=> u[i] = "head"
         /\ t[i] = "tail" <=> u[i] = "tail"
  BY <1>1 DEF Neutral
<1>4. SevereMatch(t) <=> SevereMatch(u)
  BY <1>1, <1>3 DEF SevereMatch, Halves
<1>5. Has(t, {"mild"}) <=> Has(u, {"mild"})
  BY <1>2 DEF Neutral
<1> QED
  BY <1>2, <1>4, <1>5 DEF RawFinding

\* What OutsideQuotes keeps: the lines of other kinds, a marker for each
\* discussion.
Unquoted(ls) == [i \in DOMAIN ls |-> IF ls[i] = "discussion" THEN "marker" ELSE ls[i]]

\* Alike texts are alike outside their quotations.
LEMMA OutsideQuotesAlike ==
    ASSUME NEW t \in Seq(Line), NEW u \in Seq(Line), Matching(t, u, Alike)
    PROVE  /\ OutsideQuotes(t) \in Seq(Line) /\ OutsideQuotes(u) \in Seq(Line)
           /\ Matching(OutsideQuotes(t), OutsideQuotes(u), Alike)
<1> DEFINE a == Unquoted(t)
           b == Unquoted(u)
           S == Line \ {"quoted"}
<1>1. OutsideQuotes(t) = KeptIn(a, S) /\ OutsideQuotes(u) = KeptIn(b, S)
  BY DEF OutsideQuotes, Unquoted
<1>2. \A i \in 1 .. Len(t) : t[i] \in Line /\ u[i] \in Line
                             /\ (t[i] = u[i] \/ (t[i] \in Neutral /\ u[i] \in Neutral))
  BY AlikeTexts
<1>3. /\ a \in Seq(Line) /\ b \in Seq(Line) /\ Len(a) = Len(t) /\ Len(b) = Len(t)
      /\ Len(t) \in Nat
      /\ \A i \in 1 .. Len(t) : /\ a[i] = IF t[i] = "discussion" THEN "marker" ELSE t[i]
                                /\ b[i] = IF u[i] = "discussion" THEN "marker" ELSE u[i]
  <2>1. Len(u) = Len(t) /\ DOMAIN t = 1 .. Len(t) /\ DOMAIN u = 1 .. Len(t) /\ Len(t) \in Nat
    BY DEF Matching
  <2>2. "marker" \in Line
    BY DEF Line
  <2> QED
    BY <1>2, <2>1, <2>2 DEF Unquoted
<1> HIDE DEF a, b
<1>4. ASSUME NEW i \in 1 .. Len(t)
      PROVE  /\ a[i] \in Line /\ b[i] \in Line
             /\ a[i] = b[i] \/ (a[i] \in Neutral /\ b[i] \in Neutral)
  <2>1. a[i] \in Line /\ b[i] \in Line
    BY <1>3
  <2>2. a[i] = b[i] \/ (a[i] \in Neutral /\ b[i] \in Neutral)
    BY <1>2, <1>3 DEF Neutral
  <2> QED
    BY <2>1, <2>2
<1>5. ASSUME NEW i \in 1 .. Len(t)
      PROVE  <<a[i], b[i]>> \in Alike /\ (a[i] \in S <=> b[i] \in S)
  <2>1. /\ a[i] \in Line /\ b[i] \in Line
        /\ a[i] = b[i] \/ (a[i] \in Neutral /\ b[i] \in Neutral)
    BY <1>4
  <2>2. <<a[i], b[i]>> \in Alike
    BY <2>1, AlikePair
  <2>3. a[i] \in S <=> b[i] \in S
    BY <2>1 DEF Neutral
  <2> QED
    BY <2>2, <2>3
<1> HIDE DEF S
<1>6. KeepAlike(a, S, b, S)
  BY <1>3, <1>5 DEF KeepAlike
<1>7. PickedTogether(a, S, b, S)
  BY <1>3, <1>6, KeptTogether
<1>8. PICK m, e : /\ Enumerates(e, m, Len(a), Places(a, S, Len(a)))
                  /\ KeptIn(a, S) = Picked(a, e, m) /\ KeptIn(b, S) = Picked(b, e, m)
  BY <1>7 DEF PickedTogether
<1>9. m \in Nat /\ \A k \in 1 .. m : e[k] \in 1 .. Len(t)
  BY <1>3, <1>8 DEF Enumerates
<1>10. ASSUME NEW k \in 1 .. m
       PROVE  <<a[e[k]], b[e[k]]>> \in Alike /\ a[e[k]] \in Line /\ b[e[k]] \in Line
  <2>1. e[k] \in 1 .. Len(t)
    BY <1>9
  <2>2. <<a[e[k]], b[e[k]]>> \in Alike
    BY <1>5, <2>1
  <2>3. a[e[k]] \in Line /\ b[e[k]] \in Line
    BY <1>4, <2>1
  <2> QED
    BY <2>2, <2>3
<1> DEFINE v == KeptIn(a, S)
           w == KeptIn(b, S)
<1>11. v = [k \in 1 .. m |-> a[e[k]]] /\ w = [k \in 1 .. m |-> b[e[k]]]
  BY <1>8 DEF Picked
<1> HIDE DEF v, w
<1>12. v \in Seq(Line) /\ Len(v) = m
  <2>1. \A k \in 1 .. m : a[e[k]] \in Line
    BY <1>10
  <2> QED
    BY <1>9, <1>11, <2>1
<1>13. w \in Seq(Line) /\ Len(w) = m
  <2>1. \A k \in 1 .. m : b[e[k]] \in Line
    BY <1>10
  <2> QED
    BY <1>9, <1>11, <2>1
<1>14. Matching(v, w, Alike)
  BY <1>9, <1>10, <1>11, <1>12, <1>13 DEF Matching
<1> QED
  BY <1>1, <1>12, <1>13, <1>14 DEF v, w

\* Two texts that are alike are alike to every scanner but that of personal
\* data.
LEMMA ScanAlike ==
    ASSUME NEW t \in Seq(Line), NEW u \in Seq(Line), Matching(t, u, Alike)
    PROVE  /\ Finding(t) <=> Finding(u)
           /\ Confidence(t) = Confidence(u)
           /\ SecretFinding(t) <=> SecretFinding(u)
<1>1. /\ SevereMatch(t) <=> SevereMatch(u)
      /\ RawFinding(t) <=> RawFinding(u)
      /\ \A K : K \cap Neutral = {} => (Has(t, K) <=> Has(u, K))
  BY RawScanAlike
<1>2. RawFinding(OutsideQuotes(t)) <=> RawFinding(OutsideQuotes(u))
  BY OutsideQuotesAlike, RawScanAlike
<1>3. /\ Has(t, {"marker", "discussion"}) <=> Has(u, {"marker", "discussion"})
      /\ Has(t, {"quoted", "discussion"}) <=> Has(u, {"quoted", "discussion"})
      /\ Has(t, {"encoded"}) <=> Has(u, {"encoded"})
      /\ Has(t, {"secret"}) <=> Has(u, {"secret"})
  BY <1>1 DEF Neutral
<1>4. BenignDiscussion(t) <=> BenignDiscussion(u)
  BY <1>2, <1>3 DEF BenignDiscussion
<1>5. Finding(t) <=> Finding(u)
  BY <1>1, <1>3, <1>4 DEF Finding, EncodedFinding
<1> QED
  BY <1>1, <1>3, <1>5 DEF Confidence, EncodedFinding, SecretFinding

\* A redacted text is alike to the original and has no personal data left.
LEMMA RedactedText ==
    ASSUME NEW t \in Seq(Line)
    PROVE  /\ Redacted(t) \in Seq(Line)
           /\ Matching(t, Redacted(t), Alike)
           /\ ~PIIFinding(Redacted(t))
<1> DEFINE u == Redacted(t)
<1>1. DOMAIN t = 1 .. Len(t) /\ Len(t) \in Nat /\ \A i \in 1 .. Len(t) : t[i] \in Line
  OBVIOUS
<1>2. \A i \in 1 .. Len(t) : IsPII(t, i) => t[i] \in {"pii", "pii1", "pii2"}
  BY <1>1 DEF IsPII, Halves
<1>3. "redacted" \in Line
  BY DEF Line
<1>4. /\ u \in Seq(Line) /\ Len(u) = Len(t) /\ DOMAIN u = 1 .. Len(t)
      /\ \A i \in 1 .. Len(t) : u[i] = IF IsPII(t, i) THEN "redacted" ELSE t[i]
  BY <1>1, <1>3 DEF Redacted
<1> HIDE DEF u
<1>5. \A i \in 1 .. Len(t) : <<t[i], u[i]>> \in Alike
  BY <1>1, <1>2, <1>3, <1>4, AlikePair DEF Neutral
<1>6. Matching(t, u, Alike)
  BY <1>4, <1>5 DEF Matching
<1>7. \A i \in 1 .. Len(t) : u[i] # "pii"
  BY <1>4 DEF IsPII
<1>8. \A i \in 1 .. Len(t) : ~Halves(u, i, "pii1", "pii2")
  <2> SUFFICES ASSUME NEW i \in 1 .. Len(t), Halves(u, i, "pii1", "pii2") PROVE FALSE
    OBVIOUS
  <2>1. i + 1 \in 1 .. Len(t) /\ u[i] = "pii1" /\ u[i + 1] = "pii2"
    BY <1>4 DEF Halves
  <2>2. t[i] = "pii1" /\ t[i + 1] = "pii2" /\ ~IsPII(t, i)
    BY <1>4, <2>1
  <2> QED
    BY <1>1, <2>1, <2>2 DEF IsPII, Halves
<1>9. ~PIIFinding(u)
  BY <1>4, <1>7, <1>8 DEF PIIFinding, IsPII
<1> QED
  BY <1>4, <1>6, <1>9 DEF u

\* The two halves of an attack side by side are found, whatever else the text
\* holds: what is quoted cannot stand between them, so that they stay side by
\* side without it.
LEMMA HalvesAreFound ==
    ASSUME NEW t \in Seq(Line), NEW i, i \in 1 .. Len(t), Halves(t, i, "head", "tail")
    PROVE  Finding(t)
<1> DEFINE a == Unquoted(t)
           S == Line \ {"quoted"}
<1>1. /\ DOMAIN t = 1 .. Len(t) /\ Len(t) \in Nat
      /\ i + 1 \in 1 .. Len(t) /\ t[i] = "head" /\ t[i + 1] = "tail"
  BY DEF Halves
<1>2. /\ a \in Seq(Line) /\ Len(a) = Len(t) /\ a[i] = "head" /\ a[i + 1] = "tail"
  <2>1. \A k \in 1 .. Len(t) : t[k] \in Line
    OBVIOUS
  <2>2. "marker" \in Line
    BY DEF Line
  <2> QED
    BY <1>1, <2>1, <2>2 DEF Unquoted
<1>3. OutsideQuotes(t) = KeptIn(a, S)
  BY DEF OutsideQuotes, Unquoted
<1>4. "head" \in S /\ "tail" \in S
  BY DEF Line
<1> HIDE DEF a, S
<1>5. PICK m, e : /\ Enumerates(e, m, Len(a), Places(a, S, Len(a)))
                  /\ Len(KeptIn(a, S)) = m /\ KeptIn(a, S) = Picked(a, e, m)
  BY <1>2, KeptEnumerates
<1>6. i \in Places(a, S, Len(a)) /\ i + 1 \in Places(a, S, Len(a))
  BY <1>1, <1>2, <1>4 DEF Places
<1>7. Len(a) \in Nat
  BY <1>2
<1>8. PICK k \in 1 .. m : k + 1 \in 1 .. m /\ e[k] = i /\ e[k + 1] = i + 1
  <2>1. PicksNeighbours(e, m, i)
    BY <1>5, <1>6, <1>7, NeighboursStay
  <2> QED
    BY <2>1 DEF PicksNeighbours
<1> DEFINE u == OutsideQuotes(t)
<1>9. u = [l \in 1 .. m |-> a[e[l]]]
  BY <1>3, <1>5 DEF Picked
<1> HIDE DEF u
<1>10. k \in DOMAIN u /\ k + 1 \in DOMAIN u /\ u[k] = "head" /\ u[k + 1] = "tail"
  BY <1>2, <1>8, <1>9
<1>11. RawFinding(u)
  BY <1>10 DEF RawFinding, SevereMatch, Halves
<1>12. RawFinding(t)
  BY <1>1 DEF RawFinding, SevereMatch, Halves
<1> QED
  BY <1>11, <1>12 DEF Finding, BenignDiscussion, u

\* A line of these kinds is found, alone or not; a text without such lines
\* and without halves side by side is clean, for discussions are benign.
Telling == {"attack", "quoted", "mild", "encoded"}

\* Each of these lines is a finding by itself.
LEMMA TellingLines ==
    ASSUME NEW l \in Telling
    PROVE  Finding(<<l>>)
BY DEF Telling, Finding, BenignDiscussion, Has, RawFinding, SevereMatch, EncodedFinding

\* A text with no such line and no two halves has no finding.
LEMMA CleanTexts ==
    ASSUME NEW t \in Seq(Line), \A i \in 1 .. Len(t) : t[i] \notin Telling,
           \A i \in 1 .. Len(t) : ~Halves(t, i, "head", "tail")
    PROVE  ~Finding(t)
<1> DEFINE a == Unquoted(t)
           S == Line \ {"quoted"}
<1>1. DOMAIN t = 1 .. Len(t) /\ Len(t) \in Nat /\ \A i \in 1 .. Len(t) : t[i] \in Line
  OBVIOUS
<1>2. /\ a \in Seq(Line) /\ Len(a) = Len(t)
      /\ \A i \in 1 .. Len(t) : a[i] = IF t[i] = "discussion" THEN "marker" ELSE t[i]
  <2>1. "marker" \in Line
    BY DEF Line
  <2> QED
    BY <1>1, <2>1 DEF Unquoted
<1>3. OutsideQuotes(t) = KeptIn(a, S)
  BY DEF OutsideQuotes, Unquoted
<1>4. \A i \in 1 .. Len(t) : a[i] \in S
  BY <1>1, <1>2 DEF Line, Telling
<1> HIDE DEF a, S
<1>5. PICK m, e : /\ Enumerates(e, m, Len(a), Places(a, S, Len(a)))
                  /\ Len(KeptIn(a, S)) = m /\ KeptIn(a, S) = Picked(a, e, m)
  BY <1>2, KeptEnumerates
<1> DEFINE u == OutsideQuotes(t)
<1>6. u = [l \in 1 .. m |-> a[e[l]]]
  BY <1>3, <1>5 DEF Picked
<1>7. m \in Nat /\ Len(t) \in Nat /\ \A k \in 1 .. m : e[k] \in 1 .. Len(t)
  BY <1>1, <1>2, <1>5 DEF Enumerates
<1> HIDE DEF u
<1>8. ASSUME NEW k \in 1 .. m
      PROVE  /\ u[k] \notin {"attack", "quoted", "discussion", "mild"}
             /\ ~Halves(u, k, "head", "tail")
  <2>1. e[k] \in 1 .. Len(t) /\ u[k] = a[e[k]]
    BY <1>6, <1>7
  <2>2. u[k] \notin {"attack", "quoted", "discussion", "mild"}
    BY <1>2, <2>1 DEF Telling
  <2>3. ASSUME Halves(u, k, "head", "tail") PROVE FALSE
    <3>1. k + 1 \in 1 .. m /\ u[k] = "head" /\ u[k + 1] = "tail"
      BY <1>6, <2>3 DEF Halves
    <3>2. e[k + 1] \in 1 .. Len(t) /\ u[k + 1] = a[e[k + 1]] /\ e[k] < e[k + 1]
      BY <1>5, <1>6, <1>7, <3>1 DEF Enumerates
    <3>3. e[k] + 1 \in 1 .. Len(t)
      BY <1>7, <2>1, <3>2
    <3>4. e[k] \in Places(a, S, Len(a)) /\ e[k] + 1 \in Places(a, S, Len(a))
      BY <1>2, <1>4, <2>1, <3>3 DEF Places
    <3>5. PICK l \in 1 .. m : l + 1 \in 1 .. m /\ e[l] = e[k] /\ e[l + 1] = e[k] + 1
      <4>1. Len(a) \in Nat
        BY <1>2
      <4>2. PicksNeighbours(e, m, e[k])
        BY <1>5, <3>4, <4>1, NeighboursStay
      <4> QED
        BY <4>2 DEF PicksNeighbours
    <3>6. l = k
      <4>1. l < k => e[l] < e[k]
        BY <1>5 DEF Enumerates
      <4>2. k < l => e[k] < e[l]
        BY <1>5 DEF Enumerates
      <4> QED
        BY <1>7, <2>1, <3>5, <4>1, <4>2
    <3>7. a[e[k]] = "head" /\ a[e[k] + 1] = "tail"
      BY <2>1, <3>1, <3>2, <3>5, <3>6
    <3>8. t[e[k]] = "head" /\ t[e[k] + 1] = "tail"
      BY <1>2, <2>1, <3>3, <3>7
    <3> QED
      BY <1>1, <2>1, <3>3, <3>8 DEF Halves
  <2> QED
    BY <2>2, <2>3
<1>9. DOMAIN u = 1 .. m
  BY <1>6
<1>10. ~RawFinding(u)
  BY <1>8, <1>9 DEF RawFinding, SevereMatch, Has
<1>11. ~EncodedFinding(t) /\ (RawFinding(t) => Has(t, {"discussion"}))
  BY <1>1 DEF Telling, EncodedFinding, RawFinding, SevereMatch, Has
<1>12. Has(t, {"discussion"}) => Has(t, {"marker", "discussion"}) /\ Has(t, {"quoted", "discussion"})
  BY DEF Has
<1> QED
  BY <1>10, <1>11, <1>12 DEF Finding, BenignDiscussion, u
==============================================================================
