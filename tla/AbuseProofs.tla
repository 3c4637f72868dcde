----------------------------- MODULE AbuseProofs ------------------------------
(***************************************************************************)
(* The abuse tracker of AbuseTracker, for any number of requests, points   *)
(* and any parameters, and the tracker inside TrafficGuard.  The three     *)
(* cooldown properties and PointsAreKept rest on two facts: as long as     *)
(* every Save and every needed Load succeeded, a request past RegisterKey  *)
(* finds in memory what is stored (MemoryIsStored); and what is stored     *)
(* knows a running cooldown and every point (StoredKnows, DebtBounded).    *)
(*                                                                         *)
(* RateIsExact rests on an account of the tokens (RateInv): since no tick  *)
(* was more taken than granted less what the bucket has, and since one     *)
(* just as much.  RetryAfterIsEnough rests on HintInv: what memory and row *)
(* know of cooldowns is over, and a token is there, at the instant named.  *)
(***************************************************************************)
EXTENDS TrafficGuard, TLAPS

\* A state that Tracker holds is one of the records above at the current time.
Timely(s) == s.lastUpdated <= now /\ s.cooldownUntil <= promised

StatesTimely ==
    /\ mem # None => Timely(mem)
    /\ stored # None => Timely(stored)
    /\ promised <= now + Cooldown

MemoryIsStored ==
    /\ mem \in {None, stored}
    /\ \A r \in Requests : pc[r] \in {"registered", "admitted"} => mem = stored

\* The cooldown that runs is in the row.
StoredKnows == now < promised => stored # None /\ stored.cooldownUntil = promised

\* Every point added is in the score or has decayed, for which a full
\* interval has gone into lastUpdated.
DebtBounded(s) ==
    s.score <= added /\ DecayEvery * (added - s.score) <= s.lastUpdated - 1

PointsBounded ==
    /\ stored = None => added = 0
    /\ stored # None => DebtBounded(stored)

TrackerInv ==
    /\ TypeOK
    /\ StatesTimely
    /\ ~degraded => MemoryIsStored /\ StoredKnows /\ PointsBounded

-----------------------------------------------------------------------------
(* Arithmetic *)

\* Whole intervals are no longer than the time they are cut from.
LEMMA WholeIntervals ==
    ASSUME NEW t \in Nat, NEW d \in Nat \ {0}
    PROVE  /\ t \div d \in Nat
           /\ d * (t \div d) <= t
           /\ t < d * ((t \div d) + 1)
  BY Z3

\* Decay multiplies intervals; the SMT solver is given the products.
LEMMA ProductSplits ==
    ASSUME NEW d \in Int, NEW a \in Int, NEW b \in Int
    PROVE  d * (a + b) = d * a + d * b
  BY Z3

\* A larger factor gives a larger product.
LEMMA ProductGrows ==
    ASSUME NEW d \in Nat, NEW a \in Int, NEW b \in Int, a <= b
    PROVE  d * a <= d * b
  BY Z3

-----------------------------------------------------------------------------
(* Decay *)

\* decay: a state stays a state, and its cooldown is untouched.
LEMMA DecayKeeps ==
    ASSUME now \in Nat, NEW s \in TrackerState, s.lastUpdated <= now, now \in 1 .. MaxTime
    PROVE  /\ Decayed(s) \in TrackerState
           /\ Decayed(s).cooldownUntil = s.cooldownUntil
           /\ Decayed(s).lastUpdated <= now
           /\ DebtBounded(s) /\ added \in Nat => DebtBounded(Decayed(s))
<1> DEFINE t == now - s.lastUpdated
           steps == t \div DecayEvery
           d == Decayed(s)
<1>1. /\ DecayEvery \in Nat /\ Cooldown \in Nat /\ MaxTime \in Nat
      /\ s.score \in Nat /\ s.lastUpdated \in 1 .. MaxTime
      /\ s.cooldownUntil \in 0 .. MaxTime + Cooldown /\ t \in Nat
  BY TrackerAssumption DEF TrackerAssumption, TrackerState
<1>2. CASE DecayEvery = 0 \/ t < DecayEvery
  <2>1. d = s
    BY <1>2 DEF Decayed
  <2> QED
    BY <2>1
<1>3. CASE ~(DecayEvery = 0 \/ t < DecayEvery)
  <2>1. steps \in Nat /\ DecayEvery * steps <= t
    BY <1>1, <1>3, WholeIntervals
  <2>2. d = [s EXCEPT !.score = Larger(0, s.score - steps),
                      !.lastUpdated = s.lastUpdated + steps * DecayEvery]
    BY <1>3 DEF Decayed
  <2>3. DecayEvery * steps \in Nat /\ steps * DecayEvery = DecayEvery * steps
    BY <1>1, <2>1
  <2> HIDE DEF steps, t
  <2>4. /\ d.score = Larger(0, s.score - steps)
        /\ d.lastUpdated = s.lastUpdated + DecayEvery * steps
        /\ d.cooldownUntil = s.cooldownUntil
    BY <2>2, <2>3 DEF TrackerState
  <2>5. d.score \in Nat /\ d.score <= s.score /\ s.score - d.score <= steps
    BY <1>1, <2>1, <2>4 DEF Larger
  <2>6. d.lastUpdated \in 1 .. MaxTime /\ d.lastUpdated <= now
    BY <1>1, <2>1, <2>3, <2>4 DEF t
  <2>7. d \in TrackerState
    <3>1. d = [score |-> d.score, lastUpdated |-> d.lastUpdated, cooldownUntil |-> d.cooldownUntil]
      BY <2>2 DEF TrackerState
    <3> HIDE DEF d
    <3> QED
      BY <1>1, <2>4, <2>5, <2>6, <3>1 DEF TrackerState
  <2>8. ASSUME DebtBounded(s), added \in Nat PROVE DebtBounded(d)
    <3> HIDE DEF d
    <3>1. s.score <= added /\ DecayEvery * (added - s.score) <= s.lastUpdated - 1
      BY <2>8 DEF DebtBounded
    <3>2. DecayEvery * (s.score - d.score) <= DecayEvery * steps
      BY <1>1, <2>1, <2>5, ProductGrows
    <3>3. DecayEvery * (added - d.score)
            = DecayEvery * (added - s.score) + DecayEvery * (s.score - d.score)
      <4>1. added - d.score = (added - s.score) + (s.score - d.score)
        BY <1>1, <2>5, <2>8
      <4> QED
        BY <1>1, <2>5, <2>8, <4>1, ProductSplits
    <3>4. /\ DecayEvery * (added - s.score) \in Int
          /\ DecayEvery * (s.score - d.score) \in Int
      BY <1>1, <2>5, <2>8
    <3> QED
      BY <1>1, <2>3, <2>4, <2>5, <2>8, <3>1, <3>2, <3>3, <3>4 DEF DebtBounded
  <2> QED
    BY <2>4, <2>6, <2>7, <2>8
<1> QED
  BY <1>2, <1>3

-----------------------------------------------------------------------------
(* The invariant *)

\* Add and Check leave a state s in memory and pass it to Save.
LEMMA SaveKeeps ==
    ASSUME TrackerInv, NEW r \in Requests, NEW q \in RequestState, NEW s \in TrackerState,
           pc[r] \in {"registered", "admitted"}, pc' = [pc EXCEPT ![r] = q],
           mem' = s, Persist(mem'), UNCHANGED <<now, restarts>>,
           added' \in Nat, promised' \in 0 .. MaxTime + Cooldown,
           promised <= promised', promised' <= now + Cooldown,
           s.lastUpdated <= now, s.cooldownUntil <= promised',
           ~degraded => /\ now < promised' => s.cooldownUntil = promised'
                        /\ s.score <= added'
                        /\ DecayEvery * (added' - s.score) <= s.lastUpdated - 1
    PROVE  TrackerInv'
<1>1. \/ stored' = s /\ faults' = faults /\ degraded' = degraded
      \/ stored' = stored /\ faults < MaxFaults /\ faults' = faults + 1 /\ degraded'
  BY DEF Persist
<1>2. s # None
  BY TrackerAssumption DEF TrackerAssumption, TrackerState
<1>3. Cooldown \in Nat /\ MaxTime \in Nat /\ MaxFaults \in Nat
  BY TrackerAssumption DEF TrackerAssumption
<1>4. TypeOK'
  <2>1. faults' \in 0 .. MaxFaults
    BY <1>1, <1>3 DEF TrackerInv, TypeOK
  <2>2. stored' \in TrackerState \cup {None}
    BY <1>1 DEF TrackerInv, TypeOK
  <2>3. degraded' \in BOOLEAN
    BY <1>1 DEF TrackerInv, TypeOK
  <2>4. pc' \in [Requests -> RequestState]
    BY DEF TrackerInv, TypeOK
  <2> QED
    BY <2>1, <2>2, <2>3, <2>4 DEF TrackerInv, TypeOK
<1>5. StatesTimely'
  <2>1. stored # None => Timely(stored)
    BY DEF TrackerInv, StatesTimely
  <2>2. stored # None => stored \in TrackerState
    BY DEF TrackerInv, TypeOK
  <2>3. promised \in Int /\ promised' \in Int
    BY <1>3 DEF TrackerInv, TypeOK
  <2> QED
    BY <1>1, <1>3, <2>1, <2>2, <2>3 DEF StatesTimely, Timely, TrackerState
<1>6. ASSUME ~degraded' PROVE MemoryIsStored' /\ StoredKnows' /\ PointsBounded'
  <2>1. ~degraded /\ stored' = s
    BY <1>1, <1>6
  <2> QED
    BY <1>2, <2>1 DEF MemoryIsStored, StoredKnows, PointsBounded, DebtBounded
<1> QED
  BY <1>4, <1>5, <1>6 DEF TrackerInv

\* One lemma for each critical section of Tracker.mu.
LEMMA RegisterKeeps ==
    ASSUME TrackerInv, NEW r \in Requests, RegisterKey(r)
    PROVE  TrackerInv'
<1>1. /\ pc' = [pc EXCEPT ![r] = "registered"]
      /\ UNCHANGED <<stored, now, restarts, added, promised>>
      /\ \/ mem' = (IF stored = None THEN mem ELSE stored) /\ UNCHANGED <<faults, degraded>>
         \/ /\ faults < MaxFaults /\ faults' = faults + 1
            /\ degraded' = (degraded \/ (mem = None /\ stored # None))
            /\ UNCHANGED mem
  BY DEF RegisterKey
<1>3. degraded' \in BOOLEAN /\ (degraded => degraded')
  BY <1>1 DEF TrackerInv, TypeOK
<1>4. ~degraded' => mem' = (IF stored = None THEN mem ELSE stored) \/ (mem' = mem /\ (mem # None \/ stored = None))
  BY <1>1
<1>5. mem' = (IF stored = None THEN mem ELSE stored) \/ mem' = mem
  BY <1>1
<1>6. UNCHANGED faults \/ (faults < MaxFaults /\ faults' = faults + 1)
  BY <1>1
<1>2. "registered" \in RequestState /\ MaxFaults \in Nat
  BY TrackerAssumption DEF RequestState, TrackerAssumption
<1>7. TypeOK'
  <2>1. faults' \in 0 .. MaxFaults
    BY <1>2, <1>6 DEF TrackerInv, TypeOK
  <2> QED
    BY <1>1, <1>2, <1>3, <1>5, <2>1 DEF TrackerInv, TypeOK
<1>8. StatesTimely'
  BY <1>1, <1>5 DEF TrackerInv, StatesTimely, Timely
<1>9. ASSUME ~degraded' PROVE MemoryIsStored' /\ StoredKnows' /\ PointsBounded'
  <2>1. ~degraded /\ MemoryIsStored /\ StoredKnows /\ PointsBounded
    BY <1>9, <1>3 DEF TrackerInv
  <2>2. mem' = stored
    BY <1>9, <1>4, <2>1 DEF MemoryIsStored
  <2> QED
    BY <1>1, <2>1, <2>2 DEF MemoryIsStored, StoredKnows, PointsBounded, DebtBounded
<1> QED
  BY <1>7, <1>8, <1>9 DEF TrackerInv

\* What a request past RegisterKey finds in memory.
LEMMA MemoryKnows ==
    ASSUME TrackerInv, NEW r \in Requests, pc[r] \in {"registered", "admitted"}
    PROVE  /\ mem # None => /\ mem \in TrackerState /\ mem.lastUpdated <= now
                            /\ mem.cooldownUntil <= promised
           /\ ~degraded => /\ mem = None => added = 0 /\ ~(now < promised)
                           /\ mem # None => /\ now < promised => mem.cooldownUntil = promised
                                            /\ DebtBounded(mem)
  BY DEF TrackerInv, TypeOK, StatesTimely, Timely, MemoryIsStored, StoredKnows, PointsBounded

\* Check brings the row to memory, or decays what is there.
LEMMA CheckKeeps ==
    ASSUME TrackerInv, NEW r \in Requests, Check(r)
    PROVE  TrackerInv'
<1> DEFINE s == Decayed(mem)
           blocked == now < s.cooldownUntil
           q == IF blocked THEN "blocked" ELSE "admitted"
           kept == IF blocked THEN s ELSE [s EXCEPT !.cooldownUntil = 0]
<1>1. pc[r] = "registered" /\ UNCHANGED <<now, restarts, added, promised>>
  BY DEF Check
<1>2. CASE mem = None
  <2>1. /\ pc' = [pc EXCEPT ![r] = "admitted"] /\ "admitted" \in RequestState
        /\ UNCHANGED <<mem, stored, faults, degraded, now, restarts, added, promised>>
    BY <1>2 DEF Check, RequestState
  <2>2. TypeOK' /\ StatesTimely'
    BY <2>1 DEF TrackerInv, TypeOK, StatesTimely, Timely
  <2>3. ~degraded' => MemoryIsStored' /\ StoredKnows' /\ PointsBounded'
    BY <1>1, <2>1 DEF TrackerInv, MemoryIsStored, StoredKnows, PointsBounded, DebtBounded
  <2> QED
    BY <2>2, <2>3 DEF TrackerInv
<1>3. CASE mem # None
  <2>1. pc' = [pc EXCEPT ![r] = q] /\ mem' = kept /\ Persist(mem')
    BY <1>3 DEF Check
  <2>2. /\ mem \in TrackerState /\ mem.lastUpdated <= now /\ mem.cooldownUntil <= promised
        /\ ~degraded => (now < promised => mem.cooldownUntil = promised) /\ DebtBounded(mem)
    BY <1>1, <1>3, MemoryKnows
  <2>3. /\ now \in 1 .. MaxTime /\ added \in Nat /\ promised \in 0 .. MaxTime + Cooldown
        /\ MaxTime \in Nat /\ Cooldown \in Nat /\ now \in Nat /\ promised <= now + Cooldown
    BY TrackerAssumption DEF TrackerInv, TypeOK, TrackerAssumption, StatesTimely
  <2>4. /\ s \in TrackerState /\ s.cooldownUntil = mem.cooldownUntil /\ s.lastUpdated <= now
        /\ DebtBounded(mem) => DebtBounded(s)
    BY <2>2, <2>3, DecayKeeps
  <2> HIDE DEF s
  <2>5. /\ kept \in TrackerState /\ kept.lastUpdated = s.lastUpdated /\ kept.score = s.score
        /\ kept.cooldownUntil = IF blocked THEN s.cooldownUntil ELSE 0
    BY <2>3, <2>4 DEF TrackerState
  <2>6. kept.cooldownUntil <= promised
    BY <2>2, <2>3, <2>4, <2>5
  <2>7. ~degraded => (now < promised => kept.cooldownUntil = promised)
    BY <2>2, <2>4, <2>5
  <2>8. ~degraded => /\ kept.score <= added
                     /\ DecayEvery * (added - kept.score) <= kept.lastUpdated - 1
    BY <2>2, <2>4, <2>5 DEF DebtBounded
  <2>9. q \in RequestState
    BY DEF RequestState
  <2>10. pc[r] \in {"registered", "admitted"} /\ kept.lastUpdated <= now
    BY <1>1, <2>4, <2>5
  <2>11. added' \in Nat /\ promised' \in 0 .. MaxTime + Cooldown /\ promised' = promised /\ added' = added
    BY <1>1, <2>3
  <2>12. promised <= promised' /\ promised' <= now + Cooldown
    BY <2>3, <2>11
  <2> HIDE DEF kept, q
  <2> QED
    BY <1>1, <2>1, <2>5, <2>6, <2>7, <2>8, <2>9, <2>10, <2>11, <2>12, SaveKeeps
<1> QED
  BY <1>2, <1>3

\* Add scores what memory holds and saves it, or fails to.
LEMMA AddKeeps ==
    ASSUME TrackerInv, NEW r \in Requests, NEW points \in Points, Add(r, points)
    PROVE  TrackerInv'
<1> DEFINE old == IF mem = None
                    THEN [score |-> 0, lastUpdated |-> now, cooldownUntil |-> 0]
                    ELSE mem
           d == Decayed(old)
           s == Scored(points)
           enter == s.score >= Threshold /\ now >= s.cooldownUntil
           kept == IF enter THEN [s EXCEPT !.cooldownUntil = now + Cooldown] ELSE s
<1>1. /\ pc[r] = "admitted" /\ pc' = [pc EXCEPT ![r] = "done"] /\ "done" \in RequestState
      /\ UNCHANGED <<now, restarts>> /\ added' = added + points
      /\ mem' = kept /\ Persist(mem')
      /\ promised' = IF enter THEN now + Cooldown ELSE promised
  BY DEF Add, RequestState
<1>2. /\ now \in 1 .. MaxTime /\ added \in Nat /\ promised \in 0 .. MaxTime + Cooldown
      /\ MaxTime \in Nat /\ Cooldown \in Nat /\ now \in Nat /\ promised <= now + Cooldown
      /\ points \in Nat /\ DecayEvery \in Nat
  BY TrackerAssumption DEF TrackerInv, TypeOK, TrackerAssumption, StatesTimely
<1>3. /\ mem # None => /\ mem \in TrackerState /\ mem.lastUpdated <= now
                       /\ mem.cooldownUntil <= promised
      /\ ~degraded => /\ mem = None => added = 0 /\ ~(now < promised)
                      /\ mem # None => /\ now < promised => mem.cooldownUntil = promised
                                       /\ DebtBounded(mem)
  BY <1>1, MemoryKnows
<1>4. /\ old \in TrackerState /\ old.lastUpdated <= now /\ old.cooldownUntil <= promised
      /\ ~degraded => (now < promised => old.cooldownUntil = promised)
  BY <1>2, <1>3 DEF TrackerState
<1>5. ~degraded => DebtBounded(old)
  <2>1. CASE mem = None
    <3>1. DecayEvery * (0 - 0) = 0
      BY <1>2
    <3> QED
      BY <1>2, <1>3, <2>1, <3>1 DEF DebtBounded
  <2>2. CASE mem # None
    BY <1>3, <2>2
  <2> QED
    BY <2>1, <2>2
<1>6. s = [d EXCEPT !.score = @ + points, !.lastUpdated = now]
  BY DEF Scored
<1> HIDE DEF old, s
<1>7. /\ d \in TrackerState /\ d.cooldownUntil = old.cooldownUntil /\ d.lastUpdated <= now
      /\ ~degraded => DebtBounded(d)
  BY <1>2, <1>4, <1>5, DecayKeeps
<1> HIDE DEF d
<1>8. /\ s \in TrackerState /\ s.score = d.score + points /\ s.lastUpdated = now
      /\ s.cooldownUntil = old.cooldownUntil
  <2>1. /\ d.score \in Nat /\ d.lastUpdated \in 1 .. MaxTime
        /\ d.cooldownUntil \in 0 .. MaxTime + Cooldown
    BY <1>7 DEF TrackerState
  <2>2. s = [score |-> d.score + points, lastUpdated |-> now, cooldownUntil |-> d.cooldownUntil]
    BY <1>6, <1>7 DEF TrackerState
  <2>3. d.score + points \in Nat
    BY <1>2, <2>1
  <2> QED
    BY <1>2, <1>7, <2>1, <2>2, <2>3 DEF TrackerState
<1>9. /\ kept \in TrackerState /\ kept.score = s.score /\ kept.lastUpdated = now
      /\ kept.cooldownUntil = IF enter THEN now + Cooldown ELSE s.cooldownUntil
  BY <1>2, <1>8 DEF TrackerState
<1> HIDE DEF enter, kept
<1>10. /\ promised' \in 0 .. MaxTime + Cooldown /\ promised <= promised'
       /\ promised' <= now + Cooldown
  BY <1>1, <1>2
<1>11. kept.cooldownUntil <= promised'
  BY <1>1, <1>2, <1>4, <1>8, <1>9
<1>12. ~degraded => (now < promised' => kept.cooldownUntil = promised')
  BY <1>1, <1>4, <1>8, <1>9
<1>13. ASSUME ~degraded
       PROVE  /\ kept.score <= added'
              /\ DecayEvery * (added' - kept.score) <= kept.lastUpdated - 1
  <2>1. d.score <= added /\ DecayEvery * (added - d.score) <= d.lastUpdated - 1
    BY <1>7, <1>13 DEF DebtBounded
  <2>2. d.score \in Nat /\ d.lastUpdated \in Int
    BY <1>7 DEF TrackerState
  <2>3. added' - kept.score = added - d.score
    BY <1>1, <1>2, <1>8, <1>9, <2>2
  <2>4. DecayEvery * (added - d.score) \in Int
    BY <1>2, <2>2
  <2> QED
    BY <1>1, <1>2, <1>7, <1>8, <1>9, <2>1, <2>2, <2>3, <2>4
<1>14. added' \in Nat /\ pc[r] \in {"registered", "admitted"} /\ kept.lastUpdated <= now
  BY <1>1, <1>2, <1>9
<1> QED
  BY <1>1, <1>9, <1>10, <1>11, <1>12, <1>13, <1>14, SaveKeeps

\* The remaining steps, and all of them together.
LEMMA TrackerStep ==
    ASSUME TrackerInv, [Next]_vars
    PROVE  TrackerInv'
<1>1. ASSUME NEW r \in Requests, AnswerWithoutPoints(r) PROVE TrackerInv'
  <2>1. /\ pc[r] = "admitted" /\ pc' = [pc EXCEPT ![r] = "done"] /\ "done" \in RequestState
        /\ UNCHANGED <<mem, stored, now, faults, restarts, added, promised, degraded>>
    BY <1>1 DEF AnswerWithoutPoints, RequestState
  <2>2. TypeOK' /\ StatesTimely'
    BY <2>1 DEF TrackerInv, TypeOK, StatesTimely, Timely
  <2>3. ~degraded' => MemoryIsStored' /\ StoredKnows' /\ PointsBounded'
    BY <2>1 DEF TrackerInv, TypeOK, MemoryIsStored, StoredKnows, PointsBounded, DebtBounded
  <2> QED
    BY <2>2, <2>3 DEF TrackerInv
<1>2. CASE Tick
  <2>1. /\ now < MaxTime /\ now' = now + 1 /\ MaxTime \in Nat /\ Cooldown \in Nat
        /\ UNCHANGED <<pc, mem, stored, faults, restarts, added, promised, degraded>>
    BY <1>2, TrackerAssumption DEF Tick, TrackerAssumption
  <2>2. TypeOK'
    BY <2>1 DEF TrackerInv, TypeOK
  <2>3. StatesTimely'
    BY <2>1 DEF TrackerInv, TypeOK, TrackerState, StatesTimely, Timely
  <2>4. ~degraded' => MemoryIsStored' /\ StoredKnows' /\ PointsBounded'
    BY <2>1 DEF TrackerInv, TypeOK, MemoryIsStored, StoredKnows, PointsBounded, DebtBounded
  <2> QED
    BY <2>2, <2>3, <2>4 DEF TrackerInv
<1>3. CASE Restart
  <2>1. /\ restarts < MaxRestarts /\ restarts' = restarts + 1 /\ mem' = None
        /\ pc' = [r \in Requests |->
                    IF pc[r] \in {"registered", "admitted"} THEN "dead" ELSE pc[r]]
        /\ UNCHANGED <<stored, now, faults, added, promised, degraded>>
        /\ MaxRestarts \in Nat
    BY <1>3, TrackerAssumption DEF Restart, TrackerAssumption
  <2>2. TypeOK'
    <3>1. pc' \in [Requests -> RequestState]
      BY <2>1 DEF TrackerInv, TypeOK, RequestState
    <3>2. restarts' \in 0 .. MaxRestarts
      BY <2>1 DEF TrackerInv, TypeOK
    <3> QED
      BY <2>1, <3>1, <3>2 DEF TrackerInv, TypeOK
  <2>3. StatesTimely'
    BY <2>1 DEF TrackerInv, StatesTimely, Timely
  <2>4. ~degraded' => MemoryIsStored' /\ StoredKnows' /\ PointsBounded'
    BY <2>1 DEF TrackerInv, MemoryIsStored, StoredKnows, PointsBounded, DebtBounded
  <2> QED
    BY <2>2, <2>3, <2>4 DEF TrackerInv
<1>4. CASE UNCHANGED vars
  BY <1>4 DEF vars, TrackerInv, TypeOK, StatesTimely, Timely, MemoryIsStored, StoredKnows,
              PointsBounded, DebtBounded
<1> QED
  BY <1>1, <1>2, <1>3, <1>4, RegisterKeeps, CheckKeeps, AddKeeps DEF Next

\* A new process of an empty store.
LEMMA TrackerInit ==
    ASSUME Init
    PROVE  TrackerInv
<1>1. /\ MaxTime \in Nat \ {0} /\ Cooldown \in Nat /\ MaxFaults \in Nat /\ MaxRestarts \in Nat
  BY TrackerAssumption DEF TrackerAssumption
<1>2. TypeOK
  <2>1. pc \in [Requests -> RequestState]
    BY DEF Init, RequestState
  <2>2. /\ now \in 1 .. MaxTime /\ promised \in 0 .. MaxTime + Cooldown
        /\ faults \in 0 .. MaxFaults /\ restarts \in 0 .. MaxRestarts
    BY <1>1 DEF Init
  <2> QED
    BY <2>1, <2>2 DEF Init, TypeOK
<1> QED
  BY <1>1, <1>2 DEF Init, TrackerInv, StatesTimely, Timely, MemoryIsStored, StoredKnows,
                    PointsBounded, DebtBounded

-----------------------------------------------------------------------------
(* Theorems *)

\* Whatever requests overlap, fail and restart, tracker and store satisfy the
\* invariant.
THEOREM TrackerInvariant == Spec => []TrackerInv
<1>1. Init => TrackerInv
  BY TrackerInit
<1>2. TrackerInv /\ [Next]_vars => TrackerInv'
  BY TrackerStep
<1> QED
  BY <1>1, <1>2, PTL DEF Spec

\* Tracker and store hold values of their types; no score is negative.
THEOREM TypeCorrect == Spec => []TypeOK
<1>1. TrackerInv => TypeOK
  BY DEF TrackerInv
<1> QED
  BY <1>1, TrackerInvariant, PTL

\* The stored score is what was added less what has decayed.
THEOREM PointsKept == Spec => []PointsAreKept
<1>1. ASSUME TrackerInv, ~degraded, DecayEvery # 0,
             NEW score, score = IF stored = None THEN 0 ELSE stored.score
      PROVE  score <= added /\ added <= score + ((now - 1) \div DecayEvery)
  <2>1. /\ now \in 1 .. MaxTime /\ added \in Nat /\ MaxTime \in Nat
        /\ DecayEvery \in Nat \ {0} /\ now - 1 \in Nat
    BY <1>1, TrackerAssumption DEF TrackerInv, TypeOK, TrackerAssumption
  <2> DEFINE intervals == (now - 1) \div DecayEvery
  <2>2. intervals \in Nat /\ now - 1 < DecayEvery * (intervals + 1)
    BY <2>1, WholeIntervals
  <2> HIDE DEF intervals
  <2>3. CASE stored = None
    BY <1>1, <2>1, <2>2, <2>3 DEF TrackerInv, PointsBounded, intervals
  <2>4. CASE stored # None
    <3>1. /\ stored.score \in Nat /\ stored.lastUpdated \in Int /\ stored.lastUpdated <= now
          /\ score = stored.score
          /\ score <= added /\ DecayEvery * (added - score) <= stored.lastUpdated - 1
      BY <1>1, <2>4 DEF TrackerInv, TypeOK, TrackerState, StatesTimely, Timely,
                        PointsBounded, DebtBounded
    <3>2. DecayEvery * (added - score) < DecayEvery * (intervals + 1)
      <4>1. DecayEvery * (added - score) \in Int /\ DecayEvery * (intervals + 1) \in Int
        BY <2>1, <2>2, <3>1
      <4> QED
        BY <2>1, <2>2, <3>1, <4>1
    <3>3. ASSUME intervals + 1 <= added - score PROVE FALSE
      <4>1. DecayEvery * (intervals + 1) <= DecayEvery * (added - score)
        BY <2>1, <2>2, <3>1, <3>3, ProductGrows
      <4>2. DecayEvery * (added - score) \in Int /\ DecayEvery * (intervals + 1) \in Int
        BY <2>1, <2>2, <3>1
      <4> QED
        BY <3>2, <4>1, <4>2
    <3> QED
      BY <2>1, <2>2, <3>1, <3>3 DEF intervals
  <2> QED
    BY <2>3, <2>4
<1>2. TrackerInv => PointsAreKept
  BY <1>1 DEF PointsAreKept
<1> QED
  BY <1>2, TrackerInvariant, PTL

\* Check lets no request through while a cooldown runs.
THEOREM CooldownsHold == Spec => CooldownHolds
<1>1. ASSUME TrackerInv, [Next]_vars, NEW r \in Requests,
             pc[r] = "registered", pc'[r] = "admitted", ~degraded
      PROVE  now >= promised
  <2>1. Check(r)
    <3>1. pc \in [Requests -> RequestState]
      BY <1>1 DEF TrackerInv, TypeOK
    <3> QED
      BY <1>1, <3>1 DEF Next, RegisterKey, Check, AnswerWithoutPoints, Add, Tick, Restart, vars
  <2>2. /\ now \in 1 .. MaxTime /\ promised \in 0 .. MaxTime + Cooldown
        /\ MaxTime \in Nat /\ Cooldown \in Nat /\ now \in Nat
    BY <1>1, TrackerAssumption DEF TrackerInv, TypeOK, TrackerAssumption
  <2>3. CASE mem = None
    BY <1>1, <2>2, <2>3, MemoryKnows
  <2>4. CASE mem # None
    <3>1. /\ mem \in TrackerState /\ mem.lastUpdated <= now
          /\ now < promised => mem.cooldownUntil = promised
      BY <1>1, <2>4, MemoryKnows
    <3>2. Decayed(mem).cooldownUntil = mem.cooldownUntil
      BY <2>2, <3>1, DecayKeeps
    <3>3. pc' = [pc EXCEPT ![r] = IF now < Decayed(mem).cooldownUntil THEN "blocked" ELSE "admitted"]
      BY <2>1, <2>4 DEF Check
    <3>4. ~(now < mem.cooldownUntil)
      BY <1>1, <3>2, <3>3 DEF TrackerInv, TypeOK
    <3> QED
      BY <2>2, <3>1, <3>4
  <2> QED
    BY <2>3, <2>4
<1>2. TrackerInv /\ [Next]_vars =>
        [\A r \in Requests :
           pc[r] = "registered" /\ pc'[r] = "admitted" /\ ~degraded => now >= promised]_vars
  BY <1>1
<1> QED
  BY <1>2, TrackerInvariant, PTL DEF Spec, CooldownHolds

\* Points added during a cooldown neither restart nor extend it.
THEOREM CooldownsNotExtended == Spec => CooldownNotExtended
<1>1. ASSUME TrackerInv, [Next]_vars, promised' # promised, ~degraded
      PROVE  now >= promised
  <2>1. PICK r \in Requests, points \in Points : Add(r, points)
    BY <1>1 DEF Next, RegisterKey, Check, AnswerWithoutPoints, Add, Tick, Restart, vars
  <2>2. /\ now \in 1 .. MaxTime /\ promised \in 0 .. MaxTime + Cooldown
        /\ MaxTime \in Nat /\ Cooldown \in Nat /\ now \in Nat /\ added \in Nat /\ points \in Nat
    BY <1>1, TrackerAssumption DEF TrackerInv, TypeOK, TrackerAssumption
  <2>3. pc[r] = "admitted" /\ now >= Scored(points).cooldownUntil
    BY <1>1, <2>1 DEF Add
  <2>4. CASE mem = None
    BY <1>1, <2>2, <2>3, <2>4, MemoryKnows
  <2>5. CASE mem # None
    <3>1. /\ mem \in TrackerState /\ mem.lastUpdated <= now
          /\ now < promised => mem.cooldownUntil = promised
      BY <1>1, <2>3, <2>5, MemoryKnows
    <3>2. Decayed(mem) \in TrackerState /\ Decayed(mem).cooldownUntil = mem.cooldownUntil
      BY <2>2, <3>1, DecayKeeps
    <3>3. Scored(points) = [Decayed(mem) EXCEPT !.score = @ + points, !.lastUpdated = now]
      BY <2>5 DEF Scored
    <3>4. Scored(points).cooldownUntil = mem.cooldownUntil
      BY <3>2, <3>3 DEF TrackerState
    <3> QED
      BY <2>2, <2>3, <3>1, <3>4
  <2> QED
    BY <2>4, <2>5
<1>2. TrackerInv /\ [Next]_vars => [promised' # promised /\ ~degraded => now >= promised]_vars
  BY <1>1
<1> QED
  BY <1>2, TrackerInvariant, PTL DEF Spec, CooldownNotExtended

\* AbuseGuard refuses a request only during a cooldown that Add entered.
THEOREM BlocksJustified == Spec => BlockIsJustified
<1>1. ASSUME TrackerInv, [Next]_vars, NEW r \in Requests, pc[r] # "blocked", pc'[r] = "blocked"
      PROVE  now < promised /\ promised <= now + Cooldown
  <2>1. pc \in [Requests -> RequestState]
    BY <1>1 DEF TrackerInv, TypeOK
  <2>2. Check(r)
    BY <1>1, <2>1 DEF Next, RegisterKey, Check, AnswerWithoutPoints, Add, Tick, Restart, vars
  <2>3. /\ now \in 1 .. MaxTime /\ promised \in 0 .. MaxTime + Cooldown /\ now \in Nat
        /\ MaxTime \in Nat /\ Cooldown \in Nat /\ promised <= now + Cooldown
    BY <1>1, TrackerAssumption DEF TrackerInv, TypeOK, TrackerAssumption, StatesTimely
  <2>4. mem # None /\ now < Decayed(mem).cooldownUntil
    BY <1>1, <2>1, <2>2 DEF Check
  <2>5. mem \in TrackerState /\ mem.lastUpdated <= now /\ mem.cooldownUntil <= promised
    BY <1>1, <2>2, <2>4, MemoryKnows DEF Check
  <2>6. Decayed(mem).cooldownUntil = mem.cooldownUntil /\ mem.cooldownUntil \in Nat
    BY <2>3, <2>5, DecayKeeps DEF TrackerState
  <2> QED
    BY <2>3, <2>4, <2>5, <2>6
<1>2. TrackerInv /\ [Next]_vars =>
        [\A r \in Requests : pc[r] # "blocked" /\ pc'[r] = "blocked" =>
           now < promised /\ promised <= now + Cooldown]_vars
  BY <1>1
<1> QED
  BY <1>2, TrackerInvariant, PTL DEF Spec, BlockIsJustified

\* Behind AbuseGuard, with the rate limiter inside, the tracker takes only
\* steps of AbuseTracker, so the theorems above hold of the gateway's chain.
THEOREM GuardedTracker == GuardSpec => Spec
<1>1. GuardInit => Init
  BY DEF GuardInit
<1>2. ASSUME [GuardNext]_<<vars, guardVars>> PROVE [Next]_vars
  <2>1. ASSUME NEW r \in Requests, Score(r) PROVE Next
    <3>1. 1 \in Points /\ 3 \in Points
      BY GuardAssumption DEF GuardAssumption
    <3> QED
      BY <2>1, <3>1 DEF Score, Next
  <2>2. ASSUME NEW r \in Requests, Enter(r) \/ AskTracker(r) PROVE Next
    BY <2>2 DEF Enter, AskTracker, Next
  <2>3. ASSUME NEW r \in Requests, Allow(r) PROVE UNCHANGED vars
    BY <2>3 DEF Allow
  <2>4. GuardTick \/ GuardRestart => Next
    BY DEF GuardTick, GuardRestart, Next
  <2> QED
    BY <1>2, <2>1, <2>2, <2>3, <2>4 DEF GuardNext
<1> QED
  BY <1>1, <1>2, PTL DEF GuardSpec, Spec

\* In particular a cooldown holds whatever the limiter answers.
THEOREM GuardedCooldownsHold == GuardSpec => CooldownHolds
  BY GuardedTracker, CooldownsHold, PTL

-----------------------------------------------------------------------------
(* The limiter.  What was admitted since some tick and what is left in the  *)
(* bucket add up to what was granted, and for no tick to more: the tick is  *)
(* the last at which the bucket was full.                                   *)

Bucket == [tokens : 0 .. Full, lastRefill : 1 .. MaxTime]

GuardTypeOK ==
    /\ bucket \in Bucket \cup {None}
    /\ bucket # None => bucket.lastRefill <= now
    /\ admitted \in [1 .. MaxTime -> Nat]
    /\ answer \in [Requests -> {"none", "passed", "limited"}]
    /\ hint \in Nat

RateInv ==
    /\ \A s \in 1 .. MaxTime : now < s => admitted[s] = 0
    /\ \A s \in 1 .. now : Taken(s) + Refilled <= Granted(s)
    /\ \E s \in 1 .. now : Taken(s) + Refilled = Granted(s)

GuardInv == TrackerInv /\ GuardTypeOK /\ RateInv

\* Products of naturals are naturals.
LEMMA ProductNat ==
    ASSUME NEW a \in Nat, NEW b \in Nat
    PROVE  a * b \in Nat
  BY Z3

\* The parameters, and that a full bucket has a token.
LEMMA GuardNumbers ==
    /\ Capacity \in Nat /\ TokenUnits \in Nat \ {0} /\ Refill \in Nat \ {0}
    /\ TicksPerSecond \in Nat \ {0}
    /\ Full \in Nat /\ TokenUnits <= Full
    /\ MaxTime \in Nat /\ Cooldown \in Nat \ {0}
<1>1. /\ Capacity \in Nat \ {0} /\ TokenUnits \in Nat \ {0} /\ Refill \in Nat \ {0}
      /\ TicksPerSecond \in Nat \ {0} /\ MaxTime \in Nat /\ Cooldown \in Nat \ {0}
  BY GuardAssumption, TrackerAssumption DEF GuardAssumption, TrackerAssumption
<1>2. TokenUnits * 1 <= TokenUnits * Capacity
  BY <1>1, ProductGrows
<1>3. TokenUnits * 1 = TokenUnits /\ TokenUnits * Capacity = Full /\ Full \in Nat
  BY <1>1, ProductNat DEF Full
<1> QED
  BY <1>1, <1>2, <1>3

\* Allow refills the bucket to at most its capacity.
LEMMA RefilledType ==
    ASSUME GuardTypeOK, now \in 1 .. MaxTime
    PROVE  /\ Refilled \in 0 .. Full
           /\ bucket # None =>
                 /\ bucket.tokens \in 0 .. Full /\ bucket.lastRefill \in Nat
                 /\ bucket.lastRefill <= now
                 /\ (now - bucket.lastRefill) * Refill \in Nat
                 /\ Refilled = Smaller(Full, bucket.tokens + (now - bucket.lastRefill) * Refill)
<1>1. CASE bucket = None
  BY <1>1, GuardNumbers DEF Refilled
<1>2. CASE bucket # None
  <2>1. /\ bucket.tokens \in 0 .. Full /\ bucket.lastRefill \in 1 .. MaxTime
        /\ bucket.lastRefill <= now
    BY <1>2 DEF GuardTypeOK, Bucket
  <2>2. now - bucket.lastRefill \in Nat /\ bucket.lastRefill \in Nat
    BY <2>1, GuardNumbers
  <2>3. (now - bucket.lastRefill) * Refill \in Nat
    BY <2>2, GuardNumbers, ProductNat
  <2>4. Refilled = Smaller(Full, bucket.tokens + (now - bucket.lastRefill) * Refill)
    BY <1>2 DEF Refilled
  <2> QED
    BY <2>1, <2>2, <2>3, <2>4, GuardNumbers DEF Smaller
<1> QED
  BY <1>1, <1>2

\* What was taken and granted since a past tick are natural numbers.
LEMMA RateTypes ==
    ASSUME GuardTypeOK, now \in 1 .. MaxTime, NEW s \in 1 .. now
    PROVE  /\ s \in 1 .. MaxTime /\ admitted[s] \in Nat
           /\ Taken(s) \in Nat /\ Granted(s) \in Nat
<1>1. s \in 1 .. MaxTime /\ now - s \in Nat
  BY GuardNumbers
<1>2. admitted[s] \in Nat
  BY <1>1 DEF GuardTypeOK
<1>3. TokenUnits * admitted[s] \in Nat /\ (now - s) * Refill \in Nat
  BY <1>1, <1>2, GuardNumbers, ProductNat
<1> QED
  BY <1>1, <1>2, <1>3, GuardNumbers DEF Taken, Granted

\* A tick brings Refill, up to a full bucket.
LEMMA TickRefills ==
    ASSUME GuardTypeOK, now \in 1 .. MaxTime, now' = now + 1, UNCHANGED bucket
    PROVE  Refilled' = Smaller(Full, Refilled + Refill)
<1>1. CASE bucket = None
  BY <1>1, GuardNumbers DEF Refilled, Smaller
<1>2. CASE bucket # None
  <2> DEFINE past == (now - bucket.lastRefill) * Refill
  <2>1. /\ bucket.tokens \in 0 .. Full /\ bucket.lastRefill \in Nat
        /\ past \in Nat /\ Refilled = Smaller(Full, bucket.tokens + past)
    BY <1>2, RefilledType
  <2>2. (now' - bucket'.lastRefill) * Refill = past + Refill
    <3>1. Refill * ((now - bucket.lastRefill) + 1)
            = Refill * (now - bucket.lastRefill) + Refill * 1
      BY <2>1, GuardNumbers, ProductSplits
    <3>2. now' - bucket'.lastRefill = (now - bucket.lastRefill) + 1
      BY <2>1, GuardNumbers
    <3> QED
      BY <2>1, <3>1, <3>2, GuardNumbers, Z3
  <2> HIDE DEF past
  <2>3. Refilled' = Smaller(Full, bucket.tokens + (past + Refill))
    BY <1>2, <2>2 DEF Refilled
  <2> QED
    BY <2>1, <2>3, GuardNumbers DEF Smaller
<1> QED
  BY <1>1, <1>2

\* A tick grants Refill to every interval and at most as much to the bucket.
LEMMA RateTick ==
    ASSUME GuardInv, GuardTick
    PROVE  GuardTypeOK' /\ RateInv'
<1>1. /\ now \in 1 .. MaxTime /\ now < MaxTime /\ now' = now + 1
      /\ UNCHANGED <<bucket, answer, admitted, hint>> /\ GuardTypeOK
  BY DEF GuardInv, TrackerInv, TypeOK, GuardTick, Tick, guardVars
<1>2. GuardTypeOK'
  <2>1. bucket # None => bucket.lastRefill <= now + 1
    BY <1>1, RefilledType, GuardNumbers
  <2> QED
    BY <1>1, <2>1 DEF GuardTypeOK
<1>3. Refilled' = Smaller(Full, Refilled + Refill) /\ Refilled \in 0 .. Full
  BY <1>1, TickRefills, RefilledType
<1>4. ASSUME NEW s \in 1 .. now
      PROVE  Granted(s)' = Granted(s) + Refill /\ Taken(s)' = Taken(s)
  <2>1. Refill * ((now - s) + 1) = Refill * (now - s) + Refill * 1
    BY <1>1, GuardNumbers, ProductSplits
  <2>2. now' - s = (now - s) + 1
    BY <1>1, GuardNumbers
  <2>3. (now' - s) * Refill = (now - s) * Refill + Refill
    BY <1>1, <2>1, <2>2, GuardNumbers, Z3
  <2>4. (now - s) * Refill \in Nat
    BY <1>1, RateTypes, GuardNumbers, ProductNat
  <2> QED
    BY <1>1, <2>3, <2>4, GuardNumbers DEF Granted, Taken
<1>5. PICK tick \in 1 .. MaxTime : tick = now'
  BY <1>1, GuardNumbers
<1>6. Granted(tick)' = Full /\ Taken(tick)' = 0
  <2>1. now < tick /\ tick \in Nat
    BY <1>1, <1>5, GuardNumbers
  <2>2. admitted[tick] = 0
    BY <2>1 DEF GuardInv, RateInv
  <2>3. (now' - tick) * Refill = 0 /\ TokenUnits * 0 = 0
    <3>1. now' - tick = 0
      <4>1. tick - tick = 0
        BY <2>1
      <4> QED
        BY <1>5, <4>1
    <3>2. 0 * Refill = 0 /\ TokenUnits * 0 = 0
      BY GuardNumbers
    <3> QED
      BY <3>1, <3>2
  <2> QED
    BY <1>1, <2>2, <2>3, GuardNumbers DEF Granted, Taken
<1>7. \A s \in 1 .. MaxTime : now' < s => admitted'[s] = 0
  <2>1. \A s \in 1 .. MaxTime : now' < s => now < s
    BY <1>1, GuardNumbers
  <2> QED
    BY <1>1, <2>1 DEF GuardInv, RateInv
<1>8. \A s \in 1 .. now' : s \in 1 .. now \/ s = tick
  BY <1>1, <1>5, GuardNumbers
<1>9. ASSUME NEW s \in 1 .. now' PROVE (Taken(s) + Refilled)' <= Granted(s)'
  <2>1. CASE s \in 1 .. now
    <3>1. Taken(s) + Refilled <= Granted(s) /\ Taken(s) \in Nat /\ Granted(s) \in Nat
      BY <1>1, <2>1, RateTypes DEF GuardInv, RateInv
    <3>2. Taken(s)' = Taken(s) /\ Granted(s)' = Granted(s) + Refill
      BY <1>4, <2>1
    <3> QED
      BY <1>3, <3>1, <3>2, GuardNumbers DEF Smaller
  <2>2. CASE s = tick
    <3>1. Taken(s)' = 0 /\ Granted(s)' = Full
      BY <1>6, <2>2
    <3> QED
      BY <1>3, <3>1, GuardNumbers DEF Smaller
  <2> QED
    BY <1>8, <2>1, <2>2
<1>10. \E s \in 1 .. now' : (Taken(s) + Refilled)' = Granted(s)'
  <2>1. CASE Refilled + Refill <= Full
    <3>1. PICK s \in 1 .. now : Taken(s) + Refilled = Granted(s)
      BY DEF GuardInv, RateInv
    <3>2. Taken(s) \in Nat /\ Granted(s) \in Nat
      BY <1>1, RateTypes
    <3>3. Taken(s)' = Taken(s) /\ Granted(s)' = Granted(s) + Refill
      BY <1>4
    <3>4. s \in 1 .. now'
      BY <1>1, GuardNumbers
    <3>5. (Taken(s) + Refilled)' = Granted(s)'
      BY <1>3, <2>1, <3>1, <3>2, <3>3, GuardNumbers DEF Smaller
    <3> QED
      BY <3>4, <3>5
  <2>2. CASE ~(Refilled + Refill <= Full)
    <3>1. tick \in 1 .. now'
      BY <1>1, <1>5, GuardNumbers
    <3>2. Refilled' = Full
      BY <1>3, <2>2, GuardNumbers DEF Smaller
    <3>3. (Taken(tick) + Refilled)' = Granted(tick)'
      BY <1>6, <3>2, GuardNumbers
    <3> QED
      BY <3>1, <3>3
  <2> QED
    BY <2>1, <2>2
<1> QED
  BY <1>2, <1>7, <1>9, <1>10 DEF RateInv

\* Allow leaves in the bucket what it found, less a token if it gave one.
LEMMA BucketAfter ==
    ASSUME GuardInv, NEW r \in Requests, Allow(r)
    PROVE  /\ UNCHANGED vars /\ now \in 1 .. MaxTime
           /\ bucket' \in Bucket /\ bucket'.lastRefill = now /\ bucket' # None
           /\ bucket'.tokens = IF Refilled >= TokenUnits THEN Refilled - TokenUnits ELSE Refilled
           /\ Refilled' = bucket'.tokens
<1>1. UNCHANGED vars /\ now \in 1 .. MaxTime /\ now' = now /\ now \in Nat
  BY GuardNumbers DEF Allow, vars, GuardInv, TrackerInv, TypeOK
<1>2. Refilled \in 0 .. Full
  BY <1>1, RefilledType DEF GuardInv
<1> DEFINE left == IF Refilled >= TokenUnits THEN Refilled - TokenUnits ELSE Refilled
<1>3. bucket' = [tokens |-> left, lastRefill |-> now] /\ left \in 0 .. Full /\ left \in Int
  BY <1>2, GuardNumbers DEF Allow
<1> HIDE DEF left
<1>4. bucket' \in Bucket
  BY <1>1, <1>3 DEF Bucket
<1>5. bucket' \in [tokens : Int, lastRefill : Int]
  BY <1>1, <1>3
<1>6. bucket' # None
  BY <1>5, GuardAssumption DEF GuardAssumption
<1>7. bucket'.lastRefill = now /\ bucket'.tokens = left
  BY <1>3
<1>8. Refilled' = left
  <2>1. now' - bucket'.lastRefill = 0
    BY <1>1, <1>7
  <2>2. (now' - bucket'.lastRefill) * Refill = 0
    BY <2>1, GuardNumbers
  <2>3. Refilled' = Smaller(Full, left + 0)
    BY <1>6, <1>7, <2>2 DEF Refilled
  <2> QED
    BY <1>3, <2>3, GuardNumbers DEF Smaller
<1> QED
  BY <1>1, <1>4, <1>6, <1>7, <1>8 DEF left

\* Allow takes a token from the bucket and adds it to every interval, or
\* neither.
LEMMA RateAllow ==
    ASSUME GuardInv, NEW r \in Requests, Allow(r)
    PROVE  (hint' \in Nat => GuardTypeOK') /\ RateInv'
<1>1. /\ now \in 1 .. MaxTime /\ now' = now /\ now \in Nat
      /\ bucket' \in Bucket /\ bucket'.lastRefill = now
      /\ Refilled' = IF Refilled >= TokenUnits THEN Refilled - TokenUnits ELSE Refilled
  BY BucketAfter, GuardNumbers DEF vars
<1>2. Refilled \in 0 .. Full /\ GuardTypeOK
  BY <1>1, RefilledType DEF GuardInv
<1>3. admitted' = [s \in 1 .. MaxTime |->
                     IF Refilled >= TokenUnits /\ s <= now THEN admitted[s] + 1 ELSE admitted[s]]
  BY DEF Allow
<1>4. hint' \in Nat => GuardTypeOK'
  <2>1. admitted' \in [1 .. MaxTime -> Nat]
    BY <1>2, <1>3 DEF GuardTypeOK
  <2>2. answer' \in [Requests -> {"none", "passed", "limited"}]
    BY <1>2 DEF Allow, GuardTypeOK
  <2> QED
    BY <1>1, <2>1, <2>2 DEF GuardTypeOK
<1>5. \A s \in 1 .. MaxTime : now' < s => admitted'[s] = 0
  BY <1>1, <1>3 DEF GuardInv, RateInv
<1>6. ASSUME NEW s \in 1 .. now
      PROVE  /\ Granted(s)' = Granted(s) /\ Taken(s)' + Refilled' = Taken(s) + Refilled
  <2>1. /\ s \in 1 .. MaxTime /\ admitted[s] \in Nat /\ s <= now
        /\ Taken(s) \in Nat /\ Granted(s) \in Nat
    BY <1>1, <1>2, RateTypes
  <2>2. CASE Refilled >= TokenUnits
    <3>1. admitted'[s] = admitted[s] + 1
      BY <1>3, <2>1, <2>2
    <3>2. TokenUnits * (admitted[s] + 1) = TokenUnits * admitted[s] + TokenUnits * 1
      BY <2>1, GuardNumbers, ProductSplits
    <3>3. TokenUnits * admitted[s] \in Nat /\ TokenUnits * 1 = TokenUnits
      BY <2>1, GuardNumbers, ProductNat
    <3>4. Taken(s)' = Taken(s) + TokenUnits
      BY <3>1, <3>2, <3>3 DEF Taken
    <3> QED
      BY <1>1, <1>2, <2>1, <2>2, <3>4, GuardNumbers DEF Granted
  <2>3. CASE ~(Refilled >= TokenUnits)
    <3>1. admitted'[s] = admitted[s]
      BY <1>3, <2>1, <2>3
    <3> QED
      BY <1>1, <2>3, <3>1 DEF Granted, Taken
  <2> QED
    BY <2>2, <2>3
<1>7. ASSUME NEW s \in 1 .. now' PROVE (Taken(s) + Refilled)' <= Granted(s)'
  BY <1>1, <1>6 DEF GuardInv, RateInv
<1>8. \E s \in 1 .. now' : (Taken(s) + Refilled)' = Granted(s)'
  <2>1. PICK s \in 1 .. now : Taken(s) + Refilled = Granted(s)
    BY DEF GuardInv, RateInv
  <2>2. s \in 1 .. now' /\ (Taken(s) + Refilled)' = Granted(s)'
    BY <1>1, <1>6, <2>1
  <2> QED
    BY <2>2
<1> QED
  BY <1>4, <1>5, <1>7, <1>8 DEF RateInv

\* A process without buckets.
Fresh ==
    /\ now \in 1 .. MaxTime
    /\ bucket = None
    /\ admitted = [t \in 1 .. MaxTime |-> 0]

\* A process that starts has a full bucket and admitted nobody.
LEMMA RateFresh == Fresh => RateInv
<1> SUFFICES ASSUME now \in 1 .. MaxTime, bucket = None, admitted = [t \in 1 .. MaxTime |-> 0]
             PROVE  RateInv
  BY DEF Fresh
<1>1. Refilled = Full /\ now \in Nat
  BY GuardNumbers DEF Refilled
<1>2. \A s \in 1 .. MaxTime : admitted[s] = 0
  OBVIOUS
<1>3. ASSUME NEW s \in 1 .. now
      PROVE  Taken(s) = 0 /\ (now - s) * Refill \in Nat
  <2>1. s \in 1 .. MaxTime /\ now - s \in Nat
    BY GuardNumbers
  <2> QED
    BY <1>2, <2>1, GuardNumbers, ProductNat DEF Taken
<1>4. \A s \in 1 .. now : Taken(s) + Refilled <= Granted(s)
  BY <1>1, <1>3, GuardNumbers DEF Granted
<1>5. \E s \in 1 .. now : Taken(s) + Refilled = Granted(s)
  <2>1. now \in 1 .. now /\ now - now = 0
    BY <1>1
  <2>2. Taken(now) = 0 /\ Granted(now) = Full
    <3>1. (now - now) * Refill = 0
      BY <2>1, GuardNumbers
    <3> QED
      BY <1>3, <2>1, <3>1, GuardNumbers DEF Granted
  <2> QED
    BY <1>1, <2>1, <2>2, GuardNumbers
<1> QED
  BY <1>2, <1>4, <1>5 DEF RateInv

\* The same of the state after a restart.
LEMMA RateFreshNext == Fresh' => RateInv'
  BY RateFresh, PTL

\* retrySeconds names at least a second, and less than what was asked for by
\* at most half of one.
LEMMA SecondsReach ==
    ASSUME NEW t \in Nat
    PROVE  /\ Seconds(t) * TicksPerSecond \in Nat
           /\ TicksPerSecond <= Seconds(t) * TicksPerSecond
           /\ TicksPerSecond \div 2 \in Nat
           /\ t <= Seconds(t) * TicksPerSecond + TicksPerSecond \div 2
<1> DEFINE q == (2 * t + TicksPerSecond) \div (2 * TicksPerSecond)
           half == TicksPerSecond \div 2
<1>1. /\ TicksPerSecond \in Nat \ {0} /\ 2 * TicksPerSecond \in Nat \ {0}
      /\ 2 * t + TicksPerSecond \in Nat
  BY GuardNumbers
<1>2. q \in Nat /\ 2 * t + TicksPerSecond < (2 * TicksPerSecond) * (q + 1)
  BY <1>1, WholeIntervals
<1>3. half \in Nat /\ TicksPerSecond < 2 * (half + 1)
  BY <1>1, WholeIntervals
<1>4. Seconds(t) = Larger(1, q)
  BY DEF Seconds
<1> HIDE DEF q, half
<1>5. Seconds(t) \in Nat /\ 1 <= Seconds(t) /\ q <= Seconds(t)
  BY <1>2, <1>4 DEF Larger
<1>6. /\ TicksPerSecond * 1 <= TicksPerSecond * Seconds(t)
      /\ TicksPerSecond * q <= TicksPerSecond * Seconds(t)
  BY <1>1, <1>2, <1>5, ProductGrows
<1>7. /\ TicksPerSecond * q \in Nat /\ TicksPerSecond * Seconds(t) \in Nat
      /\ TicksPerSecond * 1 = TicksPerSecond
      /\ Seconds(t) * TicksPerSecond = TicksPerSecond * Seconds(t)
  BY <1>1, <1>2, <1>5, ProductNat
<1>8. (2 * TicksPerSecond) * (q + 1) = 2 * (TicksPerSecond * q) + 2 * TicksPerSecond
  BY <1>1, <1>2, Z3
<1>9. t <= TicksPerSecond * q + half
  BY <1>1, <1>2, <1>3, <1>7, <1>8
<1> QED
  BY <1>1, <1>3, <1>6, <1>7, <1>9 DEF half

\* What a limited client is told is not in the past.
LEMMA LimitedHint ==
    ASSUME GuardInv, ~(Refilled >= TokenUnits)
    PROVE  LET told == now + Seconds(Missing(Refilled)) * TicksPerSecond
           IN  told \in Nat /\ now + TicksPerSecond <= told
<1>1. now \in Nat /\ Refilled \in 0 .. Full
  BY RefilledType, GuardNumbers DEF GuardInv, TrackerInv, TypeOK
<1>2. /\ TokenUnits - Refilled + Refill - 1 \in Nat /\ Refill \in Nat \ {0}
      /\ TicksPerSecond \in Nat
  BY <1>1, GuardNumbers
<1>3. Missing(Refilled) \in Nat
  BY <1>2, WholeIntervals DEF Missing
<1>4. /\ Seconds(Missing(Refilled)) * TicksPerSecond \in Nat
      /\ TicksPerSecond <= Seconds(Missing(Refilled)) * TicksPerSecond
  BY <1>3, SecondsReach
<1> QED
  BY <1>1, <1>2, <1>4

\* What a blocked client is told is not before the end of its cooldown.
LEMMA BlockedHint ==
    ASSUME GuardInv, NEW end \in Nat, now < end
    PROVE  LET told == now + Seconds(end - now) * TicksPerSecond + TicksPerSecond \div 2
           IN  told \in Nat /\ now + TicksPerSecond <= told /\ end <= told
<1>1. now \in Nat /\ TicksPerSecond \in Nat
  BY GuardNumbers DEF GuardInv, TrackerInv, TypeOK
<1>2. end - now \in Nat
  BY <1>1
<1> DEFINE wait == Seconds(end - now) * TicksPerSecond
           half == TicksPerSecond \div 2
<1>3. wait \in Nat /\ TicksPerSecond <= wait /\ half \in Nat /\ end - now <= wait + half
  BY <1>2, SecondsReach
<1> HIDE DEF wait, half
<1>4. now + wait + half \in Nat /\ now + TicksPerSecond <= now + wait + half /\ end <= now + wait + half
  BY <1>1, <1>2, <1>3
<1> QED
  BY <1>4 DEF wait, half

\* Check lets a request through, or leaves the state it decayed, whose
\* cooldown is the one it found.
LEMMA CheckOutcome ==
    ASSUME TrackerInv, NEW r \in Requests, Check(r)
    PROVE  \/ /\ pc'[r] = "admitted"
              /\ UNCHANGED <<mem, stored, now>>
           \/ /\ mem # None /\ mem \in TrackerState /\ mem.cooldownUntil \in Nat
              /\ mem' # None /\ stored' \in {stored, mem'} /\ UNCHANGED now
              /\ \/ pc'[r] = "admitted" /\ mem'.cooldownUntil = 0
                 \/ /\ pc'[r] = "blocked" /\ mem'.cooldownUntil = mem.cooldownUntil
                    /\ now < mem.cooldownUntil
<1>1. /\ pc \in [Requests -> RequestState] /\ pc[r] = "registered" /\ UNCHANGED now
      /\ now \in 1 .. MaxTime /\ now \in Nat /\ None \notin TrackerState
      /\ MaxTime \in Nat /\ Cooldown \in Nat
  <2>1. TrackerState \subseteq [score : Int, lastUpdated : Int, cooldownUntil : Int]
    BY GuardNumbers DEF TrackerState
  <2> QED
    BY <2>1, GuardNumbers, TrackerAssumption DEF TrackerAssumption, Check, TrackerInv, TypeOK
<1>2. CASE mem = None
  BY <1>1, <1>2 DEF Check
<1>3. CASE mem # None
  <2> DEFINE s == Decayed(mem)
             blocked == now < s.cooldownUntil
             kept == IF blocked THEN s ELSE [s EXCEPT !.cooldownUntil = 0]
  <2>1. mem \in TrackerState /\ mem.lastUpdated <= now
    BY <1>1, <1>3, MemoryKnows
  <2>2. s \in TrackerState /\ s.cooldownUntil = mem.cooldownUntil
    BY <1>1, <2>1, DecayKeeps
  <2>3. /\ pc' = [pc EXCEPT ![r] = IF blocked THEN "blocked" ELSE "admitted"]
        /\ mem' = kept /\ stored' \in {stored, mem'}
    BY <1>3 DEF Check, Persist
  <2>4. mem.cooldownUntil \in Nat
    BY <1>1, <2>1 DEF TrackerState
  <2> HIDE DEF s
  <2>5. /\ kept \in TrackerState
        /\ kept.cooldownUntil = IF blocked THEN mem.cooldownUntil ELSE 0
    BY <1>1, <2>2 DEF TrackerState
  <2>6. mem' # None
    BY <1>1, <2>3, <2>5
  <2> HIDE DEF kept
  <2> QED
    BY <1>1, <1>3, <2>1, <2>2, <2>3, <2>4, <2>5, <2>6
<1> QED
  BY <1>2, <1>3

\* Add enters a cooldown when none runs, or keeps the one it found.
LEMMA AddOutcome ==
    ASSUME TrackerInv, NEW r \in Requests, NEW points \in Points, Add(r, points)
    PROVE  /\ UNCHANGED now /\ pc'[r] = "done"
           /\ mem' # None /\ stored' \in {stored, mem'}
           /\ \/ ~Cooling(mem) /\ mem'.cooldownUntil = now + Cooldown
              \/ mem'.cooldownUntil = IF mem = None THEN 0 ELSE mem.cooldownUntil
<1> DEFINE old == IF mem = None
                    THEN [score |-> 0, lastUpdated |-> now, cooldownUntil |-> 0]
                    ELSE mem
           s == Scored(points)
           enter == s.score >= Threshold /\ now >= s.cooldownUntil
           kept == IF enter THEN [s EXCEPT !.cooldownUntil = now + Cooldown] ELSE s
<1>1. /\ pc \in [Requests -> RequestState] /\ pc[r] = "admitted" /\ UNCHANGED now
      /\ pc' = [pc EXCEPT ![r] = "done"] /\ mem' = kept /\ stored' \in {stored, mem'}
      /\ now \in 1 .. MaxTime /\ now \in Nat /\ points \in Nat
  BY GuardNumbers, TrackerAssumption DEF TrackerAssumption, Add, Persist, TrackerInv, TypeOK
<1>2. MaxTime \in Nat /\ Cooldown \in Nat
  BY GuardNumbers
<1>3. old \in TrackerState /\ old.lastUpdated <= now
  <2>1. CASE mem = None
    BY <1>1, <1>2, <2>1 DEF TrackerState
  <2>2. CASE mem # None
    BY <1>1, <2>2, MemoryKnows
  <2> QED
    BY <2>1, <2>2
<1>4. old.cooldownUntil = IF mem = None THEN 0 ELSE mem.cooldownUntil
  OBVIOUS
<1>5. s = [Decayed(old) EXCEPT !.score = @ + points, !.lastUpdated = now]
  BY DEF Scored
<1> HIDE DEF old
<1> DEFINE d == Decayed(old)
<1>6. d \in TrackerState /\ d.cooldownUntil = old.cooldownUntil
  BY <1>1, <1>3, DecayKeeps
<1>7. s \in TrackerState /\ s.cooldownUntil = old.cooldownUntil
  <2>1. s = [d EXCEPT !.score = d.score + points, !.lastUpdated = now]
    BY <1>5, <1>6 DEF TrackerState
  <2>2. d.score + points \in Nat
    BY <1>1, <1>6 DEF TrackerState
  <2> HIDE DEF s, d
  <2> QED
    BY <1>1, <1>6, <2>1, <2>2 DEF TrackerState
<1> HIDE DEF s
<1>8. /\ kept \in [score : Int, lastUpdated : Int, cooldownUntil : Int]
      /\ kept.cooldownUntil = IF enter THEN now + Cooldown ELSE old.cooldownUntil
  BY <1>1, <1>2, <1>7 DEF TrackerState
<1>9. kept # None
  BY <1>8, TrackerAssumption DEF TrackerAssumption
<1>10. enter => ~Cooling(mem)
  <2>1. old.cooldownUntil \in Nat
    BY <1>2, <1>3 DEF TrackerState
  <2> QED
    BY <1>1, <1>4, <1>7, <2>1 DEF Cooling
<1> HIDE DEF enter
<1>11. /\ mem'.cooldownUntil = IF enter THEN now + Cooldown ELSE old.cooldownUntil
       /\ mem' # None
  BY <1>1, <1>8, <1>9
<1> QED
  BY <1>1, <1>4, <1>10, <1>11

-----------------------------------------------------------------------------
(* The invariant of the guard *)

\* Every step of the middleware keeps the account of the tokens.
LEMMA GuardStep ==
    ASSUME GuardInv, TrackerInv', [GuardNext]_<<vars, guardVars>>
    PROVE  GuardInv'
<1>1. /\ GuardTypeOK /\ now \in 1 .. MaxTime /\ now \in Nat /\ hint \in Nat
      /\ pc \in [Requests -> RequestState] /\ mem \in TrackerState \cup {None}
  BY GuardNumbers DEF GuardInv, GuardTypeOK, TrackerInv, TypeOK
<1>2. ASSUME UNCHANGED <<bucket, answer, admitted, now>>, hint' \in Nat
      PROVE  GuardTypeOK' /\ RateInv'
  BY <1>1, <1>2 DEF GuardTypeOK, GuardInv, RateInv, Taken, Granted, Refilled
<1>3. ASSUME NEW r \in Requests, Enter(r) PROVE GuardTypeOK' /\ RateInv'
  BY <1>1, <1>2, <1>3 DEF Enter, RegisterKey, guardVars
<1>4. ASSUME NEW r \in Requests, AskTracker(r) PROVE GuardTypeOK' /\ RateInv'
  <2>1. UNCHANGED <<bucket, answer, admitted>> /\ Check(r)
    BY <1>4 DEF AskTracker
  <2>2. CASE pc'[r] # "blocked"
    BY <1>1, <1>2, <1>4, <2>1, <2>2, CheckOutcome DEF AskTracker, GuardInv
  <2>3. CASE pc'[r] = "blocked"
    <3>1. /\ mem.cooldownUntil \in Nat /\ now < mem.cooldownUntil /\ UNCHANGED now
          /\ mem'.cooldownUntil = mem.cooldownUntil
      BY <2>1, <2>3, CheckOutcome DEF GuardInv
    <3>2. hint' = now + Seconds(mem.cooldownUntil - now) * TicksPerSecond + TicksPerSecond \div 2
      BY <1>4, <2>3, <3>1 DEF AskTracker
    <3>3. hint' \in Nat
      BY <3>1, <3>2, BlockedHint
    <3> QED
      BY <1>2, <2>1, <3>1, <3>3
  <2> QED
    BY <2>2, <2>3
<1>5. ASSUME NEW r \in Requests, Allow(r) PROVE GuardTypeOK' /\ RateInv'
  <2>1. \/ hint' \in {0, hint}
        \/ /\ ~(Refilled >= TokenUnits)
           /\ hint' = now + Seconds(Missing(Refilled)) * TicksPerSecond
    BY <1>5 DEF Allow
  <2>2. hint' \in Nat
    BY <1>1, <2>1, LimitedHint
  <2> QED
    BY <1>5, <2>2, RateAllow
<1>6. ASSUME NEW r \in Requests, Score(r) PROVE GuardTypeOK' /\ RateInv'
  <2>1. UNCHANGED <<bucket, answer, admitted, now>> /\ hint' \in {0, hint}
    BY <1>6 DEF Score, Add, AnswerWithoutPoints
  <2> QED
    BY <1>1, <1>2, <2>1
<1>7. ASSUME GuardTick PROVE GuardTypeOK' /\ RateInv'
  BY <1>7, RateTick
<1>8. ASSUME GuardRestart PROVE GuardTypeOK' /\ RateInv'
  <2>1. /\ now' \in 1 .. MaxTime /\ bucket' = None /\ admitted' = [t \in 1 .. MaxTime |-> 0]
        /\ UNCHANGED <<answer, hint>>
    BY <1>1, <1>8 DEF GuardRestart, Restart
  <2>2. GuardTypeOK'
    BY <1>1, <2>1 DEF GuardTypeOK
  <2>3. RateInv'
    BY <2>1, RateFreshNext DEF Fresh
  <2> QED
    BY <2>2, <2>3
<1>9. ASSUME UNCHANGED <<vars, guardVars>> PROVE GuardTypeOK' /\ RateInv'
  BY <1>1, <1>2, <1>9 DEF vars, guardVars
<1>10. GuardTypeOK' /\ RateInv'
  BY <1>3, <1>4, <1>5, <1>6, <1>7, <1>8, <1>9 DEF GuardNext
<1> QED
  BY <1>10 DEF GuardInv

\* Tracker, bucket and what was admitted agree, whatever requests overlap and
\* whenever the process restarts.
THEOREM GuardInvariant == GuardSpec => []GuardInv
<1>1. GuardInit => GuardTypeOK /\ RateInv
  <2> SUFFICES ASSUME GuardInit PROVE GuardTypeOK /\ RateInv
    OBVIOUS
  <2>1. /\ now \in 1 .. MaxTime /\ bucket = None /\ admitted = [t \in 1 .. MaxTime |-> 0]
        /\ answer = [r \in Requests |-> "none"] /\ hint = 0
    BY TrackerAssumption DEF TrackerAssumption, GuardInit, Init
  <2>2. GuardTypeOK
    BY <2>1 DEF GuardTypeOK
  <2> QED
    BY <2>1, <2>2, RateFresh DEF Fresh
<1>2. GuardInv /\ TrackerInv' /\ [GuardNext]_<<vars, guardVars>> => GuardInv'
  BY GuardStep
<1>3. GuardSpec => []TrackerInv
  BY GuardedTracker, TrackerInvariant, PTL
<1>4. GuardTypeOK /\ RateInv /\ TrackerInv => GuardInv
  BY DEF GuardInv
<1> QED
  BY <1>1, <1>2, <1>3, <1>4, PTL DEF GuardSpec

\* Of what was granted since some tick, no more has been taken.
GrantedBefore == \A s \in 1 .. now : Taken(s) <= Granted(s)

\* The limiter keeps its rate exactly: over no interval do more requests pass
\* than were granted, and none is refused that was.
THEOREM RateKept == GuardSpec => RateIsExact
<1>1. ASSUME GuardInv PROVE GrantedBefore
  <2> SUFFICES ASSUME NEW s \in 1 .. now PROVE Taken(s) <= Granted(s)
    BY DEF GrantedBefore
  <2>1. /\ Refilled \in 0 .. Full /\ Taken(s) \in Nat /\ Granted(s) \in Nat
    BY <1>1, RefilledType, RateTypes DEF GuardInv, TrackerInv, TypeOK
  <2>2. Taken(s) + Refilled <= Granted(s)
    BY <1>1 DEF GuardInv, RateInv
  <2> QED
    BY <2>1, <2>2, GuardNumbers
<1>2. ASSUME GrantedBefore, GrantedBefore', [GuardNext]_<<vars, guardVars>>, NEW s \in 1 .. now
      PROVE  Taken(s)' <= Granted(s)
  <2>1. UNCHANGED now \/ UNCHANGED admitted
    BY <1>2 DEF GuardNext, Enter, RegisterKey, AskTracker, Check, Allow, Score, Add,
                AnswerWithoutPoints, GuardTick, GuardRestart, Restart, vars, guardVars
  <2> QED
    BY <1>2, <2>1 DEF GrantedBefore, Taken, Granted
<1>3. ASSUME GuardInv, [GuardNext]_<<vars, guardVars>>, NEW r \in Requests,
             answer[r] = "none", answer'[r] = "limited"
      PROVE  \E s \in 1 .. now : Taken(s) + TokenUnits > Granted(s)
  <2>1. /\ answer \in [Requests -> {"none", "passed", "limited"}]
        /\ Refilled \in 0 .. Full
    BY <1>3, RefilledType DEF GuardInv, GuardTypeOK, TrackerInv, TypeOK
  <2>2. Allow(r)
    BY <1>3, <2>1 DEF GuardNext, Enter, AskTracker, Allow, Score, GuardTick, GuardRestart,
                      vars, guardVars
  <2>3. ~(Refilled >= TokenUnits)
    BY <1>3, <2>1, <2>2 DEF Allow
  <2>4. PICK s \in 1 .. now : Taken(s) + Refilled = Granted(s)
    BY <1>3 DEF GuardInv, RateInv
  <2>5. Taken(s) \in Nat /\ Granted(s) \in Nat
    BY <1>3, RateTypes DEF GuardInv, TrackerInv, TypeOK
  <2>6. Taken(s) + TokenUnits > Granted(s)
    BY <2>1, <2>3, <2>4, <2>5, GuardNumbers
  <2> QED
    BY <2>6
<1>4. GuardInv => GrantedBefore
  BY <1>1
<1>5. GuardInv /\ GrantedBefore /\ GrantedBefore' /\ [GuardNext]_<<vars, guardVars>> =>
        [\A r \in Requests :
           /\ answer'[r] = "passed" =>
                 \A s \in 1 .. now : Taken(s)' <= Granted(s)
           /\ answer[r] = "none" /\ answer'[r] = "limited" =>
                 \E s \in 1 .. now : Taken(s) + TokenUnits > Granted(s)]_<<vars, guardVars>>
  BY <1>2, <1>3
<1> QED
  BY <1>4, <1>5, GuardInvariant, PTL DEF GuardSpec, RateIsExact

-----------------------------------------------------------------------------
(* Retry-After.  Nothing the tracker knows, in memory or stored, keeps the  *)
(* key blocked beyond the instant the last refused client was told, and by  *)
(* then the bucket has a token.                                             *)

\* A row is never ahead of what memory knows of a cooldown.
StoredNotAhead ==
    mem # None /\ stored # None /\ mem.cooldownUntil # 0 =>
       stored.cooldownUntil <= mem.cooldownUntil

CooldownsOver(t) ==
    /\ mem # None => mem.cooldownUntil <= t
    /\ stored # None => stored.cooldownUntil <= t

TokenBy(b, t) ==
    b # None => TokenUnits <= b.tokens + (t - b.lastRefill) * Refill

HintInv ==
    /\ StoredNotAhead
    /\ hint # 0 => CooldownsOver(hint) /\ TokenBy(bucket, hint)

\* The fields of a bucket are natural numbers.
LEMMA BucketNumbers ==
    ASSUME NEW b \in Bucket
    PROVE  b.tokens \in Nat /\ b.lastRefill \in Nat
  BY GuardNumbers DEF Bucket

\* A second brings a token.
LEMMA SecondBrings ==
    ASSUME TokenUnits <= TicksPerSecond * Refill,
           NEW b \in Bucket, NEW m \in Nat, b.lastRefill <= m,
           NEW t \in Nat, m + TicksPerSecond <= t
    PROVE  TokenBy(b, t)
<1>1. b.tokens \in Nat /\ b.lastRefill \in Nat
  BY BucketNumbers
<1>2. t - b.lastRefill \in Nat /\ TicksPerSecond <= t - b.lastRefill
  BY <1>1, GuardNumbers
<1>3. Refill * TicksPerSecond <= Refill * (t - b.lastRefill)
  BY <1>2, GuardNumbers, ProductGrows
<1>4. /\ Refill * TicksPerSecond \in Nat /\ Refill * (t - b.lastRefill) \in Nat
      /\ TicksPerSecond * Refill = Refill * TicksPerSecond
      /\ (t - b.lastRefill) * Refill = Refill * (t - b.lastRefill)
  BY <1>2, GuardNumbers, ProductNat
<1> QED
  BY <1>1, <1>3, <1>4, GuardNumbers DEF TokenBy

\* A token that has come by then is there.
LEMMA TokenThere ==
    ASSUME GuardInv, NEW t \in Nat, t <= now, TokenBy(bucket, t)
    PROVE  Refilled >= TokenUnits
<1>1. CASE bucket = None
  BY <1>1, GuardNumbers DEF Refilled
<1>2. CASE bucket # None
  <2>1. /\ now \in Nat /\ bucket.tokens \in Nat /\ bucket.lastRefill \in Nat
        /\ (now - bucket.lastRefill) * Refill \in Nat
        /\ Refilled = Smaller(Full, bucket.tokens + (now - bucket.lastRefill) * Refill)
    BY <1>2, RefilledType, GuardNumbers DEF GuardInv, TrackerInv, TypeOK
  <2>2. /\ t - bucket.lastRefill \in Int /\ now - bucket.lastRefill \in Int
        /\ t - bucket.lastRefill <= now - bucket.lastRefill
    BY <2>1
  <2>3. Refill * (t - bucket.lastRefill) <= Refill * (now - bucket.lastRefill)
    BY <2>2, GuardNumbers, ProductGrows
  <2>4. /\ (t - bucket.lastRefill) * Refill = Refill * (t - bucket.lastRefill)
        /\ (now - bucket.lastRefill) * Refill = Refill * (now - bucket.lastRefill)
        /\ (t - bucket.lastRefill) * Refill \in Int
    BY <2>2, GuardNumbers
  <2>5. TokenUnits <= bucket.tokens + (t - bucket.lastRefill) * Refill
    BY <1>2 DEF TokenBy
  <2>6. (t - bucket.lastRefill) * Refill <= (now - bucket.lastRefill) * Refill
    BY <2>3, <2>4
  <2>7. TokenUnits <= bucket.tokens + (now - bucket.lastRefill) * Refill
    BY <2>1, <2>4, <2>5, <2>6, GuardNumbers
  <2> QED
    BY <2>1, <2>7, GuardNumbers DEF Smaller
<1> QED
  BY <1>1, <1>2

\* A refusal for want of a token takes nothing from what will have come.
LEMMA TokenStillComes ==
    ASSUME GuardInv, NEW r \in Requests, Allow(r), ~(Refilled >= TokenUnits),
           NEW t \in Nat, TokenBy(bucket, t)
    PROVE  TokenBy(bucket', t)
<1>1. /\ now \in Nat /\ bucket'.lastRefill = now /\ bucket'.tokens = Refilled
      /\ Refilled \in Nat
  BY BucketAfter, RefilledType, GuardNumbers DEF GuardInv
<1>2. bucket # None
  BY GuardNumbers DEF Refilled
<1>3. /\ bucket.tokens \in Nat /\ bucket.lastRefill \in Nat
      /\ (now - bucket.lastRefill) * Refill \in Nat
      /\ Refilled = Smaller(Full, bucket.tokens + (now - bucket.lastRefill) * Refill)
  BY <1>2, RefilledType, GuardNumbers DEF GuardInv, TrackerInv, TypeOK
<1>4. Refilled = bucket.tokens + (now - bucket.lastRefill) * Refill
  BY <1>1, <1>3, GuardNumbers DEF Smaller
<1>5. (t - bucket.lastRefill) * Refill
        = (now - bucket.lastRefill) * Refill + (t - now) * Refill
  <2>1. t - bucket.lastRefill = (now - bucket.lastRefill) + (t - now)
    BY <1>1, <1>3
  <2>2. /\ now - bucket.lastRefill \in Int /\ t - now \in Int
    BY <1>1, <1>3
  <2>3. Refill * ((now - bucket.lastRefill) + (t - now))
          = Refill * (now - bucket.lastRefill) + Refill * (t - now)
    BY <2>2, GuardNumbers, ProductSplits
  <2>4. \A x \in Int : x * Refill = Refill * x
    BY GuardNumbers
  <2> QED
    BY <2>1, <2>2, <2>3, <2>4
<1>6. TokenUnits <= bucket.tokens + (t - bucket.lastRefill) * Refill
  BY <1>2 DEF TokenBy
<1>7. (t - now) * Refill \in Int
  BY <1>1, GuardNumbers
<1>8. TokenUnits <= Refilled + (t - now) * Refill
  BY <1>1, <1>3, <1>4, <1>5, <1>6, <1>7, GuardNumbers
<1> QED
  BY <1>1, <1>8 DEF TokenBy

\* The ends of the cooldowns are natural numbers that were promised.
LEMMA CooldownNumbers ==
    ASSUME TrackerInv
    PROVE  /\ now \in Nat /\ 0 < now /\ promised \in Nat /\ promised <= now + Cooldown
           /\ mem # None => mem.cooldownUntil \in Nat /\ mem.cooldownUntil <= promised
           /\ stored # None => stored.cooldownUntil \in Nat /\ stored.cooldownUntil <= promised
<1>1. /\ mem \in TrackerState \cup {None} /\ stored \in TrackerState \cup {None}
      /\ now \in 1 .. MaxTime /\ promised \in 0 .. MaxTime + Cooldown
  BY DEF TrackerInv, TypeOK
<1>2. \A s \in TrackerState : s.cooldownUntil \in Nat
  BY GuardNumbers DEF TrackerState
<1>3. /\ promised <= now + Cooldown
      /\ mem # None => mem.cooldownUntil <= promised
      /\ stored # None => stored.cooldownUntil <= promised
  BY DEF TrackerInv, StatesTimely, Timely
<1> QED
  BY <1>1, <1>2, <1>3, GuardNumbers

\* Steps that leave the last hint alone and let no cooldown begin.
LEMMA HintStays ==
    ASSUME HintInv, TrackerInv, hint \in Nat, UNCHANGED <<hint, bucket>>,
           stored' \in {stored, mem'},
           \/ mem' \in {mem, stored, None}
           \/ mem'.cooldownUntil = 0
           \/ mem # None /\ mem'.cooldownUntil = mem.cooldownUntil
    PROVE  HintInv'
<1>1. /\ mem # None => mem.cooldownUntil \in Nat
      /\ stored # None => stored.cooldownUntil \in Nat
  BY CooldownNumbers
<1>2. \/ mem' = None
      \/ mem' # None /\ mem' = mem
      \/ mem' # None /\ mem' = stored
      \/ mem' # None /\ mem'.cooldownUntil = 0
      \/ mem' # None /\ mem # None /\ mem'.cooldownUntil = mem.cooldownUntil
  OBVIOUS
<1>3. StoredNotAhead'
  <2>1. CASE stored' = mem'
    BY <1>1, <1>2, <2>1 DEF StoredNotAhead
  <2>2. CASE stored' = stored
    BY <1>1, <1>2, <2>2 DEF HintInv, StoredNotAhead
  <2> QED
    BY <2>1, <2>2
<1>4. ASSUME hint # 0 PROVE CooldownsOver(hint)' /\ TokenBy(bucket, hint)'
  <2>1. CooldownsOver(hint) /\ TokenBy(bucket, hint)
    BY <1>4 DEF HintInv
  <2>2. TokenBy(bucket, hint)'
    BY <2>1 DEF TokenBy
  <2>3. mem' # None => mem'.cooldownUntil <= hint
    BY <1>1, <1>2, <2>1 DEF CooldownsOver
  <2>4. CooldownsOver(hint)'
    BY <2>1, <2>3 DEF CooldownsOver
  <2> QED
    BY <2>2, <2>4
<1> QED
  BY <1>3, <1>4 DEF HintInv

\* A refusal for abuse names an instant after the cooldown, and by then at
\* least a token has come.
LEMMA HintCheck ==
    ASSUME TokenUnits <= TicksPerSecond * Refill,
           GuardInv, HintInv, NEW r \in Requests, AskTracker(r)
    PROVE  HintInv'
<1>1. TrackerInv /\ hint \in Nat /\ UNCHANGED bucket /\ Check(r)
  BY DEF GuardInv, GuardTypeOK, AskTracker
<1>2. CASE pc'[r] # "blocked"
  <2>1. UNCHANGED hint
    BY <1>2 DEF AskTracker
  <2> QED
    BY <1>1, <1>2, <2>1, CheckOutcome, HintStays
<1>3. CASE pc'[r] = "blocked"
  <2>1. /\ mem # None /\ mem.cooldownUntil \in Nat /\ now < mem.cooldownUntil
        /\ mem' # None /\ mem'.cooldownUntil = mem.cooldownUntil
        /\ stored' \in {stored, mem'} /\ UNCHANGED now
    BY <1>1, <1>3, CheckOutcome
  <2> DEFINE told == now + Seconds(mem.cooldownUntil - now) * TicksPerSecond + TicksPerSecond \div 2
  <2>2. hint' = told
    BY <1>3, <2>1 DEF AskTracker
  <2>3. told \in Nat /\ now + TicksPerSecond <= told /\ mem.cooldownUntil <= told
    BY <2>1, BlockedHint
  <2> HIDE DEF told
  <2>4. now \in Nat /\ 0 < now /\ (stored # None => stored.cooldownUntil \in Nat)
    BY <1>1, CooldownNumbers
  <2>5. stored # None => stored.cooldownUntil <= mem.cooldownUntil
    BY <2>1, <2>4 DEF HintInv, StoredNotAhead
  <2>6. StoredNotAhead'
    BY <2>1, <2>4, <2>5 DEF StoredNotAhead
  <2>7. CooldownsOver(hint)'
    BY <2>1, <2>2, <2>3, <2>4, <2>5 DEF CooldownsOver
  <2>8. TokenBy(bucket, told)
    <3>1. CASE bucket = None
      BY <3>1 DEF TokenBy
    <3>2. CASE bucket # None
      <4>1. bucket \in Bucket /\ bucket.lastRefill <= now
        BY <3>2 DEF GuardInv, GuardTypeOK
      <4> QED
        BY <2>3, <2>4, <4>1, SecondBrings
    <3> QED
      BY <3>1, <3>2
  <2>9. TokenBy(bucket, hint)'
    BY <1>1, <2>2, <2>8 DEF TokenBy
  <2> QED
    BY <2>6, <2>7, <2>9 DEF HintInv
<1> QED
  BY <1>2, <1>3

\* A refusal by the limiter names an instant at which the token has come.
LEMMA HintAllow ==
    ASSUME TokenUnits <= TicksPerSecond * Refill,
           GuardInv, HintInv, NEW r \in Requests, Allow(r)
    PROVE  HintInv'
<1>1. /\ TrackerInv /\ hint \in Nat /\ UNCHANGED vars
      /\ bucket' \in Bucket /\ bucket'.lastRefill = now /\ now \in Nat
  BY BucketAfter, CooldownNumbers DEF GuardInv, GuardTypeOK
<1>2. UNCHANGED <<mem, stored, now>> /\ StoredNotAhead'
  BY <1>1 DEF vars, HintInv, StoredNotAhead
<1>3. CASE Refilled >= TokenUnits
  <2>1. hint' = 0
    BY <1>3 DEF Allow
  <2> QED
    BY <1>2, <2>1 DEF HintInv
<1>4. CASE ~(Refilled >= TokenUnits) /\ now < promised
  <2>1. hint' = hint
    BY <1>4 DEF Allow
  <2>2. ASSUME hint # 0 PROVE TokenBy(bucket, hint)'
    <3>1. TokenBy(bucket', hint)
      BY <1>1, <1>4, <2>2, TokenStillComes DEF HintInv
    <3> QED
      BY <2>1, <3>1 DEF TokenBy
  <2> QED
    BY <1>2, <2>1, <2>2 DEF HintInv, CooldownsOver
<1>5. CASE ~(Refilled >= TokenUnits) /\ ~(now < promised)
  <2> DEFINE told == now + Seconds(Missing(Refilled)) * TicksPerSecond
  <2>1. hint' = told
    BY <1>5 DEF Allow
  <2>2. told \in Nat /\ now + TicksPerSecond <= told
    BY <1>5, LimitedHint
  <2> HIDE DEF told
  <2>3. now <= told
    BY <1>1, <2>2, GuardNumbers
  <2>4. CooldownsOver(told)
    BY <1>1, <1>5, <2>2, <2>3, CooldownNumbers DEF CooldownsOver
  <2>5. TokenBy(bucket', told)
    BY <1>1, <2>2, <2>3, SecondBrings
  <2> QED
    BY <1>2, <2>1, <2>4, <2>5 DEF HintInv, CooldownsOver, TokenBy
<1> QED
  BY <1>3, <1>4, <1>5

\* An answer that begins a cooldown withdraws what was said before.
LEMMA HintScore ==
    ASSUME GuardInv, HintInv, NEW r \in Requests, Score(r)
    PROVE  HintInv'
<1>1. TrackerInv /\ hint \in Nat /\ UNCHANGED bucket
  BY DEF GuardInv, GuardTypeOK, Score
<1>2. CASE AnswerWithoutPoints(r)
  <2>1. UNCHANGED <<mem, stored, now>>
    BY <1>2 DEF AnswerWithoutPoints
  <2>2. UNCHANGED hint
    BY <2>1 DEF Score, Cooling
  <2> QED
    BY <1>1, <2>1, <2>2, HintStays
<1>3. ASSUME NEW points \in Points, Add(r, points) PROVE HintInv'
  <2>1. /\ UNCHANGED now /\ mem' # None /\ stored' \in {stored, mem'}
        /\ \/ ~Cooling(mem) /\ mem'.cooldownUntil = now + Cooldown
           \/ mem'.cooldownUntil = IF mem = None THEN 0 ELSE mem.cooldownUntil
    BY <1>1, <1>3, AddOutcome
  <2>2. CASE ~Cooling(mem) /\ mem'.cooldownUntil = now + Cooldown
    <3>1. now \in Nat /\ Cooldown \in Nat \ {0}
      BY <1>1, CooldownNumbers, GuardNumbers
    <3>2. Cooling(mem')
      BY <2>1, <2>2, <3>1 DEF Cooling
    <3>3. hint' = 0
      BY <2>2, <3>2 DEF Score
    <3>4. stored # None => stored.cooldownUntil \in Nat /\ stored.cooldownUntil <= now + Cooldown
      BY <1>1, <3>1, CooldownNumbers
    <3>5. StoredNotAhead'
      BY <2>1, <2>2, <3>1, <3>4 DEF StoredNotAhead
    <3> QED
      BY <3>3, <3>5 DEF HintInv
  <2>3. CASE mem'.cooldownUntil = IF mem = None THEN 0 ELSE mem.cooldownUntil
    <3>1. Cooling(mem') => Cooling(mem)
      BY <2>1, <2>3, CooldownNumbers, <1>1 DEF Cooling
    <3>2. UNCHANGED hint
      BY <3>1 DEF Score
    <3> QED
      BY <1>1, <2>1, <2>3, <3>2, HintStays
  <2> QED
    BY <2>1, <2>2, <2>3
<1> QED
  BY <1>2, <1>3, GuardAssumption DEF Score, GuardAssumption

\* Every step keeps what the last refused client was told true.
LEMMA HintStep ==
    ASSUME TokenUnits <= TicksPerSecond * Refill,
           GuardInv, HintInv, [GuardNext]_<<vars, guardVars>>
    PROVE  HintInv'
<1>1. TrackerInv /\ hint \in Nat
  BY DEF GuardInv, GuardTypeOK
<1>2. ASSUME NEW r \in Requests, Enter(r) PROVE HintInv'
  <2>1. /\ UNCHANGED <<hint, bucket, stored>> /\ mem' \in {mem, stored}
    BY <1>2 DEF Enter, RegisterKey, guardVars
  <2> QED
    BY <1>1, <2>1, HintStays
<1>3. CASE GuardRestart
  <2>1. mem' = None /\ bucket' = None /\ UNCHANGED <<stored, hint>>
    BY <1>3 DEF GuardRestart, Restart
  <2> QED
    BY <2>1 DEF HintInv, StoredNotAhead, CooldownsOver, TokenBy
<1>4. CASE GuardTick \/ UNCHANGED <<vars, guardVars>>
  <2>1. UNCHANGED <<hint, bucket, stored, mem>>
    BY <1>4 DEF GuardTick, Tick, vars, guardVars
  <2> QED
    BY <1>1, <2>1, HintStays
<1> QED
  BY <1>2, <1>3, <1>4, HintCheck, HintAllow, HintScore DEF GuardNext

\* With a limiter that brings a token within a second, as the gateway's does,
\* a client that waits out its Retry-After, and half a second more, is not
\* refused again, whether it was the tracker or the limiter that refused it,
\* and although both round to whole seconds.
THEOREM RetryAfterSuffices ==
    ASSUME TokenUnits <= TicksPerSecond * Refill
    PROVE  GuardSpec => RetryAfterIsEnough
<1>1. GuardInit => HintInv
  BY DEF GuardInit, Init, HintInv, StoredNotAhead
<1>2. GuardInv /\ HintInv /\ [GuardNext]_<<vars, guardVars>> => HintInv'
  BY HintStep
<1>3. ASSUME GuardInv, HintInv, NEW r \in Requests, Check(r), pc'[r] = "blocked"
      PROVE  hint = 0 \/ now < hint
  <2>1. /\ mem # None /\ mem.cooldownUntil \in Nat /\ now < mem.cooldownUntil
        /\ now \in Nat /\ hint \in Nat
    BY <1>3, CheckOutcome, CooldownNumbers DEF GuardInv, GuardTypeOK
  <2> QED
    BY <1>3, <2>1 DEF HintInv, CooldownsOver
<1>4. ASSUME GuardInv, HintInv, NEW r \in Requests, Allow(r), ~(Refilled >= TokenUnits)
      PROVE  hint = 0 \/ now < hint
  <2>1. now \in Nat /\ hint \in Nat
    BY <1>4, CooldownNumbers DEF GuardInv, GuardTypeOK
  <2>2. ASSUME hint # 0, ~(now < hint) PROVE FALSE
    BY <1>4, <2>1, <2>2, TokenThere DEF HintInv
  <2> QED
    BY <2>2
<1>5. ASSUME GuardInv, [GuardNext]_<<vars, guardVars>>, NEW r \in Requests
      PROVE  /\ pc[r] = "registered" /\ pc'[r] = "blocked" => Check(r)
             /\ answer[r] = "none" /\ answer'[r] = "limited" =>
                   Allow(r) /\ ~(Refilled >= TokenUnits)
  <2>1. /\ answer \in [Requests -> {"none", "passed", "limited"}]
        /\ pc \in [Requests -> RequestState]
    BY <1>5 DEF GuardInv, GuardTypeOK, TrackerInv, TypeOK
  <2>2. ASSUME pc[r] = "registered", pc'[r] = "blocked" PROVE Check(r)
    BY <1>5, <2>1, <2>2 DEF GuardNext, Enter, RegisterKey, AskTracker, Check, Allow, Score, Add,
        AnswerWithoutPoints, GuardTick, Tick, GuardRestart, Restart, vars, guardVars
  <2>3. ASSUME answer[r] = "none", answer'[r] = "limited"
        PROVE  Allow(r) /\ ~(Refilled >= TokenUnits)
    <3>1. Allow(r)
      BY <1>5, <2>1, <2>3 DEF GuardNext, Enter, AskTracker, Allow, Score, GuardTick, GuardRestart,
                              vars, guardVars
    <3> QED
      BY <2>1, <2>3, <3>1 DEF Allow
  <2> QED
    BY <2>2, <2>3
<1>6. GuardInv /\ HintInv /\ [GuardNext]_<<vars, guardVars>> =>
        [\A r \in Requests :
           \/ pc[r] = "registered" /\ pc'[r] = "blocked"
           \/ answer[r] = "none" /\ answer'[r] = "limited"
           => hint = 0 \/ now < hint]_<<vars, guardVars>>
  BY <1>3, <1>4, <1>5
<1> QED
  BY <1>1, <1>2, <1>6, GuardInvariant, PTL DEF GuardSpec, RetryAfterIsEnough
==============================================================================
