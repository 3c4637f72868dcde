----------------------------- MODULE TrafficGuard -----------------------------
(***************************************************************************)
(* middleware.TrafficGuard: the abuse guard around the rate limiter        *)
(* (internal/ratelimit/limiter.go, internal/middleware/ratelimit.go)       *)
(* around a handler.  A request that the tracker lets through takes a      *)
(* token of the key's bucket or is answered 429, and the answer decides    *)
(* the points that AbuseGuard adds.  The buckets live in memory only.      *)
(*                                                                         *)
(* Time is counted in ticks, TicksPerSecond to a second, because both      *)
(* refusals round their Retry-After to whole seconds.  A token is          *)
(* TokenUnits units, of which every tick brings Refill.                    *)
(***************************************************************************)
EXTENDS AbuseTracker

CONSTANTS
    Capacity,         \* tokens in a full bucket
    TokenUnits, Refill,
    TicksPerSecond

ASSUME GuardAssumption ==
    /\ Capacity \in Nat \ {0} /\ TokenUnits \in Nat \ {0} /\ Refill \in Nat \ {0}
    /\ TicksPerSecond \in Nat \ {0}
    /\ {1, 3} \subseteq Points
    /\ None \notin [tokens : Int, lastRefill : Int]

VARIABLES
    bucket,    \* Limiter.buckets[key]
    answer,    \* what RateLimit answered
    \* history
    admitted,  \* for every tick, how many requests got a token from then on,
               \* since the process started
    hint       \* when the last refused client was told to come back

guardVars == <<bucket, answer, admitted, hint>>

Full == Capacity * TokenUnits

GuardInit ==
    /\ Init
    /\ bucket = None
    /\ answer = [r \in Requests |-> "none"]
    /\ admitted = [t \in 1 .. MaxTime |-> 0]
    /\ hint = 0

Smaller(m, n) == IF m <= n THEN m ELSE n

\* Mutant: a bucket that is not cut at its capacity.
RefilledBeyond ==
    IF bucket = None THEN Full ELSE bucket.tokens + (now - bucket.lastRefill) * Refill

\* The bucket at the top of Allow: a new one is full.
Refilled ==
    IF bucket = None
      THEN Full
      ELSE Smaller(Full, bucket.tokens + (now - bucket.lastRefill) * Refill)

\* Mutant: whole seconds are cut off.
SecondsCut(ticks) == Larger(1, ticks \div TicksPerSecond)

\* retrySeconds: rounded to the nearest second, half a second up, and at
\* least one.
Seconds(ticks) == Larger(1, (2 * ticks + TicksPerSecond) \div (2 * TicksPerSecond))

\* The time until the missing part of a token has come.
Missing(units) == (TokenUnits - units + Refill - 1) \div Refill

-----------------------------------------------------------------------------

Enter(r) ==
    /\ RegisterKey(r)
    /\ UNCHANGED guardVars

\* A refusal may name an instant up to half a second before the end of the
\* cooldown.
AskTracker(r) ==
    /\ Check(r)
    /\ hint' = IF pc'[r] = "blocked"
                 THEN now + Seconds(mem'.cooldownUntil - now) * TicksPerSecond
                          + TicksPerSecond \div 2
                 ELSE hint
    /\ UNCHANGED <<bucket, answer, admitted>>

\* RateLimit and Limiter.Allow.  The Retry-After of a request that was already
\* inside when a cooldown began says nothing of the cooldown.
Allow(r) ==
    /\ pc[r] = "admitted" /\ answer[r] = "none"
    /\ LET tokens == Refilled
           allowed == tokens >= TokenUnits
       IN  /\ bucket' = [tokens |-> IF allowed THEN tokens - TokenUnits ELSE tokens,
                         lastRefill |-> now]
           /\ answer' = [answer EXCEPT ![r] = IF allowed THEN "passed" ELSE "limited"]
           /\ admitted' = [s \in 1 .. MaxTime |->
                             IF allowed /\ s <= now THEN admitted[s] + 1 ELSE admitted[s]]
           /\ hint' = IF allowed THEN 0
                      ELSE IF now < promised THEN hint
                      ELSE now + Seconds(Missing(tokens)) * TicksPerSecond
    /\ UNCHANGED vars

\* The state of a key in a cooldown.
Cooling(s) == s # None /\ now < s.cooldownUntil

\* A limited request costs one point, a security block of the chat handlers
\* three, every other answer nothing.
Score(r) ==
    /\ \/ answer[r] = "limited" /\ Add(r, 1)
       \/ answer[r] = "passed" /\ Add(r, 3)
       \/ answer[r] = "passed" /\ AnswerWithoutPoints(r)
    /\ hint' = IF Cooling(mem') /\ ~Cooling(mem) THEN 0 ELSE hint
    /\ UNCHANGED <<bucket, answer, admitted>>

GuardTick == Tick /\ UNCHANGED guardVars

GuardRestart ==
    /\ Restart
    /\ bucket' = None
    /\ admitted' = [t \in 1 .. MaxTime |-> 0]
    /\ UNCHANGED <<answer, hint>>

GuardNext ==
    \/ \E r \in Requests : Enter(r) \/ AskTracker(r) \/ Allow(r) \/ Score(r)
    \/ GuardTick
    \/ GuardRestart

GuardSpec == GuardInit /\ [][GuardNext]_<<vars, guardVars>>

-----------------------------------------------------------------------------
(* Properties *)

\* Units that the requests admitted from tick s on have taken.
Taken(s) == TokenUnits * admitted[s]

Granted(s) == Full + (now - s) * Refill

\* The limiter keeps exactly its rate: of the requests of one process that
\* meet it, in every interval no more pass than a full bucket and what comes
\* in during the interval, and one is refused only when it would be one more
\* than that in some interval.
RateIsExact ==
    [][\A r \in Requests :
          /\ answer'[r] = "passed" =>
                \A s \in 1 .. now : Taken(s)' <= Granted(s)
          /\ answer[r] = "none" /\ answer'[r] = "limited" =>
                \E s \in 1 .. now : Taken(s) + TokenUnits > Granted(s)]_<<vars, guardVars>>

\* A client that comes back when its Retry-After is over, and half a second
\* later when it was refused for abuse, is not refused again, unless another
\* request of the key passed or a new cooldown began in between.
RetryAfterIsEnough ==
    [][\A r \in Requests :
          \/ pc[r] = "registered" /\ pc'[r] = "blocked"
          \/ answer[r] = "none" /\ answer'[r] = "limited"
          => hint = 0 \/ now < hint]_<<vars, guardVars>>
==============================================================================
