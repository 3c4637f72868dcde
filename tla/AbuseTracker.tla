---------------------------- MODULE AbuseTracker -----------------------------
(***************************************************************************)
(* The abuse tracker (internal/abuse/tracker.go) under the middleware that *)
(* drives it (internal/middleware/abuse.go).  Every request of a key loads *)
(* the key's state from the store, asks whether the key is in a cooldown,  *)
(* and, when it was let through and answered 429 or 403, adds points.      *)
(* Each of the three is one critical section of Tracker.mu; requests of    *)
(* one key interleave between them, the process restarts, and calls of the *)
(* store fail.                                                             *)
(*                                                                         *)
(* Keys share no state, so the model has one key.  Tracker.persist skips a *)
(* key that was never registered, which AbuseGuard rules out: it registers *)
(* the key of every request before anything else.                          *)
(***************************************************************************)
EXTENDS Integers

CONSTANTS
    Requests,      \* requests made with the key
    Points,        \* what abusePoints returns for an answer, 0 left out
    Threshold, Cooldown, DecayEvery,    \* the parameters of abuse.New
    None,          \* no entry in Tracker.states, or no row in abuse_state
    MaxTime,       \* bound: the last instant
    MaxFaults,     \* bound: failed calls of the store
    MaxRestarts    \* bound: restarts of the process

ASSUME TrackerAssumption ==
    /\ Points \subseteq Nat \ {0}
    /\ Threshold \in Nat \ {0} /\ Cooldown \in Nat \ {0}
    /\ DecayEvery \in Nat
    /\ MaxTime \in Nat \ {0} /\ MaxFaults \in Nat /\ MaxRestarts \in Nat
    /\ None \notin [score : Int, lastUpdated : Int, cooldownUntil : Int]

VARIABLES
    pc,        \* [Requests -> RequestState]
    mem,       \* Tracker.states[key]
    stored,    \* the row of abuse_state
    now,       \* the clock, from 1; 0 is the zero time.Time
    faults, restarts,
    \* history
    added,     \* all points added
    promised,  \* the end of the last cooldown that Add entered
    degraded   \* a Save failed, or a Load failed when only the store knew the key

vars == <<pc, mem, stored, now, faults, restarts, added, promised, degraded>>

RequestState ==
    {"idle",
     "registered",  \* RegisterKey returned
     "admitted",    \* Check let the request through; the handler runs
     "blocked",     \* answered 429 by AbuseGuard
     "done",        \* answered, the points added
     "dead"}        \* lost in a restart

TrackerState == [score : Nat, lastUpdated : 1 .. MaxTime,
                 cooldownUntil : 0 .. MaxTime + Cooldown]

Larger(m, n) == IF m >= n THEN m ELSE n

\* Mutants: a decay that is taken again at the next call, and one that is
\* not stopped at zero.
DecayedAgain(s) ==
    IF DecayEvery = 0 \/ now - s.lastUpdated < DecayEvery
      THEN s
      ELSE [s EXCEPT !.score = Larger(0, @ - ((now - s.lastUpdated) \div DecayEvery))]

DecayedBelowZero(s) ==
    IF DecayEvery = 0 \/ now - s.lastUpdated < DecayEvery
      THEN s
      ELSE LET steps == (now - s.lastUpdated) \div DecayEvery
           IN  [s EXCEPT !.score = @ - steps,
                         !.lastUpdated = @ + steps * DecayEvery]

\* Tracker.applyDecay: one point for each full interval; the rest of the
\* time stays in lastUpdated.
Decayed(s) ==
    IF DecayEvery = 0 \/ now - s.lastUpdated < DecayEvery
      THEN s
      ELSE LET steps == (now - s.lastUpdated) \div DecayEvery
           IN  [s EXCEPT !.score = Larger(0, @ - steps),
                         !.lastUpdated = @ + steps * DecayEvery]

\* Tracker.persist drops the error of Save.
Persist(s) ==
    \/ stored' = s /\ UNCHANGED <<faults, degraded>>
    \/ /\ faults < MaxFaults
       /\ faults' = faults + 1
       /\ degraded' = TRUE
       /\ UNCHANGED stored

Init ==
    /\ pc = [r \in Requests |-> "idle"]
    /\ mem = None /\ stored = None
    /\ now = 1
    /\ faults = 0 /\ restarts = 0
    /\ added = 0 /\ promised = 0 /\ degraded = FALSE

\* RegisterKey replaces what is in memory by what is stored; a Load that
\* fails, or finds no row, leaves memory as it is.
RegisterKey(r) ==
    /\ pc[r] = "idle"
    /\ pc' = [pc EXCEPT ![r] = "registered"]
    /\ \/ mem' = (IF stored = None THEN mem ELSE stored) /\ UNCHANGED <<faults, degraded>>
       \/ /\ faults < MaxFaults
          /\ faults' = faults + 1
          /\ degraded' = (degraded \/ (mem = None /\ stored # None))
          /\ UNCHANGED mem
    /\ UNCHANGED <<stored, now, restarts, added, promised>>

\* Mutant: a key is blocked for its score.
CheckByScore(r) ==
    /\ pc[r] = "registered"
    /\ IF mem = None
         THEN /\ pc' = [pc EXCEPT ![r] = "admitted"]
              /\ UNCHANGED <<mem, stored, faults, degraded>>
         ELSE LET s == Decayed(mem)
              IN  /\ pc' = [pc EXCEPT ![r] = IF s.score >= Threshold THEN "blocked" ELSE "admitted"]
                  /\ mem' = s
                  /\ Persist(s)
    /\ UNCHANGED <<now, restarts, added, promised>>

\* Check refuses during a cooldown and clears one that is over; the score
\* is left to decay.
Check(r) ==
    /\ pc[r] = "registered"
    /\ IF mem = None
         THEN /\ pc' = [pc EXCEPT ![r] = "admitted"]
              /\ UNCHANGED <<mem, stored, faults, degraded>>
         ELSE LET s == Decayed(mem)
                  blocked == now < s.cooldownUntil
              IN  /\ pc' = [pc EXCEPT ![r] = IF blocked THEN "blocked" ELSE "admitted"]
                  /\ mem' = IF blocked THEN s ELSE [s EXCEPT !.cooldownUntil = 0]
                  /\ Persist(mem')
    /\ UNCHANGED <<now, restarts, added, promised>>

\* The handler answered with a status that costs nothing.
AnswerWithoutPoints(r) ==
    /\ pc[r] = "admitted"
    /\ pc' = [pc EXCEPT ![r] = "done"]
    /\ UNCHANGED <<mem, stored, now, faults, restarts, added, promised, degraded>>

Scored(points) ==
    LET s == Decayed(IF mem = None
                       THEN [score |-> 0, lastUpdated |-> now, cooldownUntil |-> 0]
                       ELSE mem)
    IN  [s EXCEPT !.score = @ + points, !.lastUpdated = now]

\* Mutants: a cooldown is entered again while one runs, and the new state
\* stays in memory.
AddExtendsCooldown(r, points) ==
    /\ pc[r] = "admitted"
    /\ pc' = [pc EXCEPT ![r] = "done"]
    /\ added' = added + points
    /\ LET s == Scored(points)
           enter == s.score >= Threshold
       IN  /\ mem' = IF enter THEN [s EXCEPT !.cooldownUntil = now + Cooldown] ELSE s
           /\ promised' = IF enter THEN now + Cooldown ELSE promised
    /\ Persist(mem')
    /\ UNCHANGED <<now, restarts>>

AddWithoutPersist(r, points) ==
    /\ pc[r] = "admitted"
    /\ pc' = [pc EXCEPT ![r] = "done"]
    /\ added' = added + points
    /\ LET s == Scored(points)
           enter == s.score >= Threshold /\ now >= s.cooldownUntil
       IN  /\ mem' = IF enter THEN [s EXCEPT !.cooldownUntil = now + Cooldown] ELSE s
           /\ promised' = IF enter THEN now + Cooldown ELSE promised
    /\ UNCHANGED <<stored, now, faults, restarts, degraded>>

\* Add: the points of a 429 or 403 answer.  The request may have been let
\* through before the cooldown that it finds now.
Add(r, points) ==
    /\ pc[r] = "admitted"
    /\ pc' = [pc EXCEPT ![r] = "done"]
    /\ added' = added + points
    /\ LET s == Scored(points)
           enter == s.score >= Threshold /\ now >= s.cooldownUntil
       IN  /\ mem' = IF enter THEN [s EXCEPT !.cooldownUntil = now + Cooldown] ELSE s
           /\ promised' = IF enter THEN now + Cooldown ELSE promised
    /\ Persist(mem')
    /\ UNCHANGED <<now, restarts>>

Tick ==
    /\ now < MaxTime
    /\ now' = now + 1
    /\ UNCHANGED <<pc, mem, stored, faults, restarts, added, promised, degraded>>

\* The process stops and another one starts with an empty tracker.
Restart ==
    /\ restarts < MaxRestarts
    /\ restarts' = restarts + 1
    /\ mem' = None
    /\ pc' = [r \in Requests |-> IF pc[r] \in {"registered", "admitted"} THEN "dead" ELSE pc[r]]
    /\ UNCHANGED <<stored, now, faults, added, promised, degraded>>

Next ==
    \/ \E r \in Requests :
          \/ RegisterKey(r) \/ Check(r) \/ AnswerWithoutPoints(r)
          \/ \E points \in Points : Add(r, points)
    \/ Tick
    \/ Restart

Spec == Init /\ [][Next]_vars

-----------------------------------------------------------------------------
(* Properties *)

\* Every variable has its type; in particular no score is negative.
TypeOK ==
    /\ pc \in [Requests -> RequestState]
    /\ mem \in TrackerState \cup {None}
    /\ stored \in TrackerState \cup {None}
    /\ now \in 1 .. MaxTime
    /\ faults \in 0 .. MaxFaults /\ restarts \in 0 .. MaxRestarts
    /\ added \in Nat
    /\ promised \in 0 .. MaxTime + Cooldown
    /\ degraded \in BOOLEAN

\* No points are lost or invented, whatever requests overlap and however
\* often the process restarts: the score is at most what was added, and at
\* least that less one point for each full interval since the start.
PointsAreKept ==
    ~degraded /\ DecayEvery # 0 =>
       LET score == IF stored = None THEN 0 ELSE stored.score
       IN  score <= added /\ added <= score + ((now - 1) \div DecayEvery)

\* While a cooldown that Add entered runs, Check lets no request through,
\* also after a restart and after a Load that failed with the key in memory.
CooldownHolds ==
    [][\A r \in Requests :
          pc[r] = "registered" /\ pc'[r] = "admitted" /\ ~degraded => now >= promised]_vars

\* Requests that were let through before a cooldown and answered during it
\* add points but neither start it again nor extend it.
CooldownNotExtended ==
    [][promised' # promised /\ ~degraded => now >= promised]_vars

\* A request is refused only during a cooldown that Add entered, so a key is
\* never refused for longer than Cooldown without a new offence, even when
\* the store fails.
BlockIsJustified ==
    [][\A r \in Requests :
          pc[r] # "blocked" /\ pc'[r] = "blocked" =>
             now < promised /\ promised <= now + Cooldown]_vars
==============================================================================
