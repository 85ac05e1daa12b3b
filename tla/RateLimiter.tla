---------------------------- MODULE RateLimiter ----------------------------
(***************************************************************************)
(* shared/middleware/ratelimit.go: the token bucket kept in Redis by a Lua *)
(* script.  Requests of all instances of the application run the script on *)
(* the same keys; each run is atomic and goes by the clock of Redis, which *)
(* may be set back between two of them.  The script stores tokens and time *)
(* of the last run and refills by the difference; a bucket that nobody     *)
(* asks for expires.  Tokens are counted in parts, Unit to a token, so the *)
(* script's divisions are exact (its floating point rounding is left out). *)
(***************************************************************************)
EXTENDS Integers

CONSTANTS
    Key,        \* rate limit keys: per address, or per route and address
    Burst,      \* max_tokens
    Unit,       \* parts in a token
    Rate,       \* parts refilled in a tick (refill_rate, per tick)
    Second,     \* ticks in a second
    MaxClock,   \* bound: the latest time of the Redis clock
    Null        \* no bucket in Redis, nothing asked yet

(* NewRateLimiter panics on anything else. *)
ASSUME LimiterAssumption == Burst \in Nat \ {0} /\ Rate \in Nat \ {0}

ASSUME ScaleAssumption == Unit \in Nat \ {0} /\ Second \in Nat \ {0} /\ MaxClock \in Nat

Full == Burst * Unit

Bucket == [tokens : 0..Full, last : Nat, expires : Nat]

Reply == [key : Key, allowed : BOOLEAN, retry : Nat, remaining : 0..Burst]

ASSUME NullAssumption == Null \notin Bucket \cup Reply \cup Nat

VARIABLES
    clock,     \* the time of Redis
    bucket,    \* the hash stored under each key, or Null
    reply      \* the last answer to a request

vars == <<clock, bucket, reply>>

-----------------------------------------------------------------------------
(* Definitions named Bug... are the mutants of the definition that follows
   them: what a plausible mistake there would say.  Nothing uses them. *)

Ceil(a, b) == (a + b - 1) \div b

BugOneToken == Ceil(Unit, Rate * Second)

(* The seconds a bucket stays: the time it takes to fill up, and one more. *)
Lifetime == Ceil(Full, Rate * Second) + 1

(* HMGET finds the key unless it has expired. *)
Found(k) == bucket[k] # Null /\ clock <= bucket[k].expires

Elapsed(k) == IF clock > bucket[k].last THEN clock - bucket[k].last ELSE 0

(* The parts in the bucket of k now: what was stored and what time added. *)
Level(k) ==
    LET refilled == bucket[k].tokens + Elapsed(k) * Rate
    IN  IF Found(k) /\ refilled < Full THEN refilled ELSE Full

BugKeepsLast(k, parts) ==
    bucket' = [bucket EXCEPT ![k] =
        [tokens |-> parts, last |-> IF Found(k) THEN bucket[k].last ELSE clock,
         expires |-> clock + Lifetime * Second]]

(* HSET and EXPIRE. *)
Stored(k, parts) ==
    bucket' = [bucket EXCEPT ![k] =
        [tokens |-> parts, last |-> clock, expires |-> clock + Lifetime * Second]]

BugRoundsDown(k) == (Unit - Level(k)) \div (Rate * Second)

RetryAfter(k) == Ceil(Unit - Level(k), Rate * Second)

Answered(k, allowed, retry, remaining) ==
    reply' = [key |-> k, allowed |-> allowed, retry |-> retry, remaining |-> remaining]

Init ==
    /\ clock = 0
    /\ bucket = [k \in Key |-> Null]
    /\ reply = Null

(* A token is taken and the request goes on. *)
Admit(k) ==
    /\ Level(k) >= Unit
    /\ Stored(k, Level(k) - Unit)
    /\ Answered(k, TRUE, 0, (Level(k) - Unit) \div Unit)
    /\ UNCHANGED clock

(* 429, and the seconds until there is a token again. *)
Refuse(k) ==
    /\ Level(k) < Unit
    /\ Stored(k, Level(k))
    /\ Answered(k, FALSE, RetryAfter(k), Level(k) \div Unit)
    /\ UNCHANGED clock

(* The script fails or its answer does not arrive: the request goes on, and
   whether a token was taken for it is not known. *)
FailOpen(k) ==
    /\ \/ UNCHANGED bucket
       \/ Stored(k, IF Level(k) >= Unit THEN Level(k) - Unit ELSE Level(k))
    /\ Answered(k, TRUE, 0, Burst)
    /\ UNCHANGED clock

-----------------------------------------------------------------------------
Tick ==
    /\ clock < MaxClock
    /\ clock' = clock + 1
    /\ UNCHANGED <<bucket, reply>>

(* The clock of Redis is set back, or a replica that is behind takes over. *)
SetBack ==
    /\ clock' \in 0..(clock - 1)
    /\ UNCHANGED <<bucket, reply>>

(* Redis deletes a bucket that has expired. *)
Expire(k) ==
    /\ bucket[k] # Null /\ clock > bucket[k].expires
    /\ bucket' = [bucket EXCEPT ![k] = Null]
    /\ UNCHANGED <<clock, reply>>

(* Redis loses a bucket: a restart, an eviction. *)
Lose(k) ==
    /\ bucket[k] # Null
    /\ bucket' = [bucket EXCEPT ![k] = Null]
    /\ UNCHANGED <<clock, reply>>

Next ==
    \/ \E k \in Key : Admit(k) \/ Refuse(k) \/ FailOpen(k) \/ Expire(k) \/ Lose(k)
    \/ Tick
    \/ SetBack

Spec == Init /\ [][Next]_vars

-----------------------------------------------------------------------------
(* The types; a bucket expires a lifetime after it was last used, and a client
   that is refused is always told to wait. *)
TypeOK ==
    /\ clock \in 0..MaxClock
    /\ bucket \in [Key -> Bucket \cup {Null}]
    /\ \A k \in Key : bucket[k] # Null =>
          bucket[k].last <= MaxClock /\ bucket[k].expires = bucket[k].last + Lifetime * Second
    /\ reply \in Reply \cup {Null}
    /\ reply # Null /\ ~reply.allowed => reply.retry >= 1 /\ reply.remaining = 0

Told == IF reply = Null THEN Null ELSE [key |-> reply.key, allowed |-> reply.allowed]

Levels == [k \in Key |-> Level(k)]

Held == {k \in Key : bucket[k] # Null}

Ideal == INSTANCE TokenBucket WITH level <- Levels, held <- Held, reply <- Told

(* Refilling on demand and letting idle buckets expire cannot be told from a
   bucket that fills continuously: no tick, no expiry and no clock set back ever
   brings in more than the rate, and only an empty bucket refuses. *)
ImplementsTokenBucket == Ideal!Spec
=============================================================================
