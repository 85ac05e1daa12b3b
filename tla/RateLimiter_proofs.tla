------------------------- MODULE RateLimiter_proofs -------------------------
(***************************************************************************)
(* The rate limiter for every burst, rate and number of keys: its types,   *)
(* that it implements TokenBucket, and then, with the record of a window   *)
(* that RateLimiterWindow keeps, that the limit holds in every window of   *)
(* time and Retry-After is honest.                                         *)
(***************************************************************************)
EXTENDS RateLimiterWindow, TLAPS

(* Rounding up: enough to cover a, and not zero unless a is. *)
LEMMA CeilProperties ==
    ASSUME NEW a \in Nat, NEW b \in Nat \ {0}
    PROVE  /\ Ceil(a, b) \in Nat
           /\ Ceil(a, b) * b >= a
           /\ a > 0 => Ceil(a, b) >= 1
<1> DEFINE c == a + b - 1
           q == c \div b
<1>1. c \in Nat /\ q \in Int
  OBVIOUS
<1>2. c = q * b + (c % b) /\ c % b \in 0..(b - 1)
  OBVIOUS
<1>3. q >= 0
  <2> SUFFICES ASSUME q < 0 PROVE FALSE
    BY <1>1
  <2>1. q * b <= -b
    BY <1>1
  <2> QED
    BY <1>1, <1>2, <2>1
<1>4. q * b >= a
  BY <1>1, <1>2
<1>5. ASSUME a > 0 PROVE q >= 1
  BY <1>1, <1>3, <1>4, <1>5
<1> QED
  BY <1>1, <1>3, <1>4, <1>5 DEF Ceil

(* The products the script's arithmetic is made of. *)
LEMMA Parameters ==
    /\ Full \in Nat /\ Full >= Unit /\ Unit \in Nat /\ Unit >= 1
    /\ Rate * Second \in Nat \ {0}
    /\ Lifetime \in Nat
    /\ Lifetime * Second \in Nat
    /\ (Lifetime * Second) * Rate >= Full
<1>1. Full \in Nat /\ Full >= Unit /\ Unit \in Nat /\ Unit >= 1
  <2>1. Burst \in Nat /\ Burst >= 1 /\ Unit \in Nat /\ Unit >= 1
    BY LimiterAssumption, ScaleAssumption
  <2>2. \A m, n \in Nat : m >= 1 => m * n \in Nat /\ m * n >= n
    OBVIOUS
  <2> QED
    BY <2>1, <2>2 DEF Full
<1>2. Rate * Second \in Nat \ {0}
  <2>1. \A m, n \in Nat \ {0} : m * n \in Nat \ {0}
    OBVIOUS
  <2> QED
    BY <2>1, LimiterAssumption, ScaleAssumption
<1>3. /\ Ceil(Full, Rate * Second) \in Nat
      /\ Ceil(Full, Rate * Second) * (Rate * Second) >= Full
  BY <1>1, <1>2, CeilProperties
<1>4. Lifetime \in Nat /\ Lifetime = Ceil(Full, Rate * Second) + 1
  BY <1>3 DEF Lifetime
<1>5. Lifetime * Second \in Nat
  <2>1. \A m, n \in Nat : m * n \in Nat
    OBVIOUS
  <2> QED
    BY <2>1, <1>4, ScaleAssumption
<1>6. (Lifetime * Second) * Rate >= Full
  <2>1. \A c, r, t \in Nat : ((c + 1) * t) * r = c * (r * t) + r * t
    OBVIOUS
  <2>2. ((Ceil(Full, Rate * Second) + 1) * Second) * Rate =
           Ceil(Full, Rate * Second) * (Rate * Second) + Rate * Second
    BY <1>3, <2>1, LimiterAssumption, ScaleAssumption
  <2>3. \A c, f, s \in Int : c >= f /\ s >= 0 => c + s >= f
    OBVIOUS
  <2>4. Ceil(Full, Rate * Second) * (Rate * Second) \in Int
    BY <1>2, <1>3
  <2>5. (Lifetime * Second) * Rate = Ceil(Full, Rate * Second) * (Rate * Second) + Rate * Second
    BY <1>4, <2>2
  <2> QED
    BY <1>1, <1>2, <1>3, <2>3, <2>4, <2>5
<1> QED
  BY <1>1, <1>2, <1>4, <1>5, <1>6

-----------------------------------------------------------------------------
(* What is known of a stored bucket. *)
LEMMA BucketFacts ==
    ASSUME TypeOK, NEW k \in Key, bucket[k] # Null
    PROVE  /\ bucket[k].tokens \in 0..Full
           /\ bucket[k].last \in Nat
           /\ bucket[k].expires = bucket[k].last + Lifetime * Second
BY DEF TypeOK, Bucket

(* The elapsed time and what it refills are natural numbers. *)
LEMMA ElapsedFacts ==
    ASSUME TypeOK, NEW k \in Key, bucket[k] # Null
    PROVE  Elapsed(k) \in Nat /\ Elapsed(k) * Rate \in Nat
<1>1. Elapsed(k) \in Nat
  BY BucketFacts DEF Elapsed, TypeOK
<1>2. \A m, n \in Nat : m * n \in Nat
  OBVIOUS
<1> QED
  BY <1>1, <1>2, LimiterAssumption

(* A bucket never holds more than the burst, nor less than nothing. *)
LEMMA LevelInRange ==
    ASSUME TypeOK, NEW k \in Key
    PROVE  Level(k) \in 0..Full
<1>1. CASE ~Found(k)
  BY <1>1, Parameters DEF Level
<1>2. CASE Found(k)
  <2>1. bucket[k] # Null
    BY <1>2 DEF Found
  <2> DEFINE refilled == bucket[k].tokens + Elapsed(k) * Rate
  <2>2. refilled \in Nat
    BY <2>1, BucketFacts, ElapsedFacts, Parameters
  <2>3. Level(k) = IF refilled < Full THEN refilled ELSE Full
    BY <1>2 DEF Level
  <2> HIDE DEF refilled
  <2> QED
    BY <2>2, <2>3, Parameters
<1> QED
  BY <1>1, <1>2

(* A bucket that has expired was full. *)
LEMMA ExpiredIsFull ==
    ASSUME TypeOK, NEW k \in Key, bucket[k] # Null, clock >= bucket[k].expires
    PROVE  Level(k) = Full
<1>1. Elapsed(k) \in Nat /\ Elapsed(k) >= Lifetime * Second
  <2>1. clock >= bucket[k].last + Lifetime * Second
    BY BucketFacts
  <2>2. clock \in Nat
    BY DEF TypeOK
  <2> QED
    BY <2>1, <2>2, BucketFacts, Parameters DEF Elapsed
<1>2. \A e, s, r \in Nat : e >= s => e * r >= s * r
  OBVIOUS
<1>3. Elapsed(k) * Rate >= (Lifetime * Second) * Rate
  BY <1>1, <1>2, Parameters, LimiterAssumption
<1>4. (Lifetime * Second) * Rate \in Nat
  <2>1. \A m, n \in Nat : m * n \in Nat
    OBVIOUS
  <2> QED
    BY <2>1, Parameters, LimiterAssumption
<1>5. Elapsed(k) * Rate >= Full
  <2>1. \A x, y, z \in Int : x >= y /\ y >= z => x >= z
    OBVIOUS
  <2> QED
    BY <1>3, <1>4, <2>1, ElapsedFacts, Parameters
<1>6. bucket[k].tokens + Elapsed(k) * Rate >= Full
  <2>1. \A m, x, f \in Nat : x >= f => m + x >= f
    OBVIOUS
  <2> QED
    BY <1>5, <2>1, ElapsedFacts, BucketFacts, Parameters
<1> QED
  <2>1. ~(bucket[k].tokens + Elapsed(k) * Rate < Full)
    <3>1. \A x, f \in Int : x >= f => ~(x < f)
      OBVIOUS
    <3>2. bucket[k].tokens + Elapsed(k) * Rate \in Int
      BY ElapsedFacts, BucketFacts, Parameters
    <3> QED
      BY <1>6, <3>1, <3>2, Parameters
  <2> QED
    BY <2>1 DEF Level

-----------------------------------------------------------------------------
(* What a run of the script stores is what the next run finds. *)
LEMMA StoredLevel ==
    ASSUME TypeOK, NEW k \in Key, NEW parts \in 0..Full, Stored(k, parts), UNCHANGED clock
    PROVE  /\ Level(k)' = parts
           /\ \A j \in Key : j # k => Level(j)' = Level(j)
           /\ Levels' = [Levels EXCEPT ![k] = parts]
           /\ Held' = Held \cup {k}
<1>1. bucket'[k] = [tokens |-> parts, last |-> clock, expires |-> clock + Lifetime * Second]
  BY DEF Stored, TypeOK
<1>2. bucket'[k] # Null /\ clock \in Nat /\ clock + Lifetime * Second \in Nat
  <2>1. clock \in Nat /\ clock + Lifetime * Second \in Nat
    BY Parameters DEF TypeOK
  <2>2. bucket'[k] \in Bucket
    BY <1>1, <2>1 DEF Bucket
  <2> QED
    BY <2>1, <2>2, NullAssumption
<1>3. Found(k)' /\ Elapsed(k)' = 0
  BY <1>1, <1>2, Parameters DEF Found, Elapsed
<1>4. bucket'[k].tokens + Elapsed(k)' * Rate = parts
  <2>1. 0 * Rate = 0
    BY LimiterAssumption
  <2> QED
    BY <1>1, <1>3, <2>1, Parameters
<1>5. Level(k)' = parts
  BY <1>3, <1>4, Parameters DEF Level
<1>6. ASSUME NEW j \in Key, j # k PROVE Level(j)' = Level(j)
  <2>1. bucket'[j] = bucket[j]
    BY <1>6 DEF Stored, TypeOK
  <2> QED
    BY <2>1 DEF Level, Found, Elapsed
<1>7. Levels' = [Levels EXCEPT ![k] = parts]
  BY <1>5, <1>6 DEF Levels
<1>8. Held' = Held \cup {k}
  <2>1. \A j \in Key : j # k => bucket'[j] = bucket[j]
    BY DEF Stored, TypeOK
  <2> QED
    BY <1>2, <2>1 DEF Held
<1> QED
  BY <1>5, <1>6, <1>7, <1>8

(* A bucket with time on its side gains Rate parts in a tick; no bucket gains
   more, and none loses any. *)
LEMMA TickLevel ==
    ASSUME TypeOK, NEW k \in Key, Tick
    PROVE  /\ Level(k)' \in Level(k)..Ideal!Capped(Level(k) + Rate)
           /\ bucket[k] = Null \/ bucket[k].last <= clock =>
                 Level(k)' = Ideal!Capped(Level(k) + Rate)
<1>0. /\ clock \in Nat /\ clock' = clock + 1 /\ bucket' = bucket
      /\ Rate \in Nat /\ Rate >= 1 /\ Full \in Nat
  BY Parameters, LimiterAssumption DEF TypeOK, Tick
<1>1. Ideal!Full = Full
  BY DEF Ideal!Full, Full
<1>2. CASE bucket[k] = Null
  <2>1. Level(k) = Full /\ Level(k)' = Full
    BY <1>0, <1>2 DEF Level, Found
  <2> QED
    BY <1>0, <1>1, <2>1 DEF Ideal!Capped
<1>3. CASE bucket[k] # Null /\ clock >= bucket[k].expires
  <2>1. Level(k) = Full
    BY <1>3, ExpiredIsFull
  <2>2. ~Found(k)'
    BY <1>0, <1>3, BucketFacts, Parameters DEF Found
  <2>3. Level(k)' = Full
    BY <2>2 DEF Level
  <2> QED
    BY <1>0, <1>1, <2>1, <2>3 DEF Ideal!Capped
<1>4. CASE bucket[k] # Null /\ clock < bucket[k].expires
  <2> DEFINE t == bucket[k].tokens
             x == Elapsed(k) * Rate
             y == Elapsed(k)' * Rate
  <2>1. Found(k) /\ Found(k)'
    BY <1>0, <1>4, BucketFacts, Parameters DEF Found
  <2>2. /\ Level(k) = IF t + x < Full THEN t + x ELSE Full
        /\ Level(k)' = IF t + y < Full THEN t + y ELSE Full
    BY <1>0, <2>1 DEF Level
  <2>3. t \in Nat /\ x \in Nat
    BY <1>4, BucketFacts, ElapsedFacts, Parameters
  <2>4. Elapsed(k)' = IF clock + 1 > bucket[k].last THEN clock + 1 - bucket[k].last ELSE 0
    BY <1>0, <1>4, BucketFacts DEF Elapsed
  <2>5. ASSUME bucket[k].last <= clock PROVE y = x + Rate
    <3>1. Elapsed(k) \in Nat /\ Elapsed(k)' = Elapsed(k) + 1
      BY <1>0, <1>4, <2>4, <2>5, BucketFacts DEF Elapsed
    <3>2. \A m, n \in Nat : (m + 1) * n = m * n + n
      OBVIOUS
    <3> QED
      BY <1>0, <3>1, <3>2
  <2>6. ASSUME ~(bucket[k].last <= clock) PROVE y = x
    BY <1>0, <1>4, <2>4, <2>6, BucketFacts DEF Elapsed
  <2> HIDE DEF t, x, y
  <2>7. CASE bucket[k].last <= clock
    BY <1>0, <1>1, <1>4, <2>2, <2>3, <2>5, <2>7 DEF Ideal!Capped
  <2>8. CASE ~(bucket[k].last <= clock)
    BY <1>0, <1>1, <1>4, <2>2, <2>3, <2>6, <2>8 DEF Ideal!Capped
  <2> QED
    BY <2>7, <2>8
<1> QED
  BY <1>2, <1>3, <1>4, <1>0, BucketFacts, Parameters

(* Setting the clock back adds nothing to any bucket. *)
LEMMA SetBackLevel ==
    ASSUME TypeOK, NEW k \in Key, SetBack
    PROVE  Level(k)' \in 0..Level(k)
<1>0. /\ clock \in Nat /\ clock' \in Nat /\ clock' < clock /\ bucket' = bucket
      /\ Rate \in Nat /\ Full \in Nat
  BY Parameters, LimiterAssumption DEF TypeOK, SetBack
<1>1. CASE ~Found(k)
  <2>1. Level(k) = Full
    BY <1>1 DEF Level
  <2>2. CASE ~Found(k)'
    BY <1>0, <2>1, <2>2 DEF Level
  <2>3. CASE Found(k)'
    <3>1. bucket[k] # Null
      BY <1>0, <2>3 DEF Found
    <3>2. Elapsed(k)' \in Nat
      BY <1>0, <3>1, BucketFacts DEF Elapsed
    <3>3. \A m, n \in Nat : m * n \in Nat
      OBVIOUS
    <3>4. Elapsed(k)' * Rate \in Nat
      BY <1>0, <3>2, <3>3
    <3> DEFINE y == Elapsed(k)' * Rate
    <3>5. Level(k)' = IF bucket[k].tokens + y < Full THEN bucket[k].tokens + y ELSE Full
      BY <1>0, <2>3 DEF Level
    <3> HIDE DEF y
    <3> QED
      BY <1>0, <2>1, <3>1, <3>4, <3>5, BucketFacts DEF y
  <2> QED
    BY <2>2, <2>3
<1>2. CASE Found(k)
  <2> DEFINE t == bucket[k].tokens
             x == Elapsed(k) * Rate
             y == Elapsed(k)' * Rate
  <2>1. bucket[k] # Null
    BY <1>2 DEF Found
  <2>2. Found(k)'
    BY <1>0, <1>2, <2>1, BucketFacts, Parameters DEF Found
  <2>3. Elapsed(k) \in Nat /\ Elapsed(k)' \in Nat /\ Elapsed(k)' <= Elapsed(k)
    BY <1>0, <2>1, BucketFacts DEF Elapsed
  <2>4. \A m, n, r \in Nat : m * r \in Nat /\ n * r \in Nat /\ (m <= n => m * r <= n * r)
    OBVIOUS
  <2>5. x \in Nat /\ y \in Nat /\ y <= x
    BY <1>0, <2>3, <2>4
  <2>6. t \in Nat
    BY <2>1, BucketFacts, Parameters
  <2>7. /\ Level(k) = IF t + x < Full THEN t + x ELSE Full
        /\ Level(k)' = IF t + y < Full THEN t + y ELSE Full
    BY <1>0, <1>2, <2>2 DEF Level
  <2> HIDE DEF t, x, y
  <2> QED
    BY <1>0, <2>5, <2>6, <2>7
<1> QED
  BY <1>1, <1>2

-----------------------------------------------------------------------------
(* What the script answers has the type of an answer. *)
LEMMA AnswerTypes ==
    ASSUME TypeOK, NEW k \in Key
    PROVE  /\ Level(k) >= Unit =>
                 /\ Level(k) - Unit \in 0..Full
                 /\ (Level(k) - Unit) \div Unit \in 0..Burst
           /\ Level(k) < Unit =>
                 /\ Level(k) \div Unit = 0
                 /\ RetryAfter(k) \in Nat
                 /\ RetryAfter(k) >= 1
                 /\ RetryAfter(k) * (Rate * Second) >= Unit - Level(k)
<1>1. Level(k) \in 0..Full /\ Unit \in Nat \ {0} /\ Burst \in Nat \ {0}
  BY LevelInRange, LimiterAssumption, ScaleAssumption
<1>2. ASSUME Level(k) >= Unit
      PROVE  /\ Level(k) - Unit \in 0..Full
             /\ (Level(k) - Unit) \div Unit \in 0..Burst
  <2> DEFINE p == Level(k) - Unit
             q == p \div Unit
  <2>1. p \in Nat /\ p <= Full /\ q \in Int
    BY <1>1, <1>2, Parameters
  <2>2. p = q * Unit + (p % Unit) /\ p % Unit \in 0..(Unit - 1)
    <3> HIDE DEF p
    <3> QED
      BY <1>1, <2>1
  <2>3. q >= 0
    <3> SUFFICES ASSUME q < 0 PROVE FALSE
      BY <2>1
    <3>1. \A m \in Int, n \in Nat \ {0} : m < 0 => m * n <= -n
      OBVIOUS
    <3>2. q * Unit <= -Unit /\ q * Unit \in Int
      BY <1>1, <2>1, <3>1
    <3> HIDE DEF p, q
    <3> QED
      BY <1>1, <2>1, <2>2, <3>2
  <2>4. q <= Burst
    <3> SUFFICES ASSUME q > Burst PROVE FALSE
      BY <1>1, <2>1
    <3>1. \A m \in Int, b, n \in Nat \ {0} : m > b => m * n >= b * n + n /\ m * n \in Int
      OBVIOUS
    <3>2. q * Unit >= Full + Unit /\ q * Unit \in Int
      <4> HIDE DEF q
      <4> QED
        BY <1>1, <2>1, <3>1 DEF Full
    <3> HIDE DEF p, q
    <3> QED
      BY <1>1, <2>1, <2>2, <3>2, Parameters
  <2> QED
    BY <2>1, <2>3, <2>4, <1>1
<1>3. ASSUME Level(k) < Unit
      PROVE  /\ Level(k) \div Unit = 0
             /\ RetryAfter(k) \in Nat
             /\ RetryAfter(k) >= 1
             /\ RetryAfter(k) * (Rate * Second) >= Unit - Level(k)
  <2>1. \A m \in Nat, n \in Nat \ {0} : m < n => m \div n = 0
    OBVIOUS
  <2>2. Unit - Level(k) \in Nat /\ Unit - Level(k) > 0
    BY <1>1, <1>3
  <2>3. Level(k) \div Unit = 0
    BY <1>1, <1>3, <2>1
  <2>4. /\ Ceil(Unit - Level(k), Rate * Second) \in Nat
        /\ Ceil(Unit - Level(k), Rate * Second) * (Rate * Second) >= Unit - Level(k)
        /\ Unit - Level(k) > 0 => Ceil(Unit - Level(k), Rate * Second) >= 1
    BY <2>2, Parameters, CeilProperties
  <2> QED
    BY <2>2, <2>3, <2>4 DEF RetryAfter
<1> QED
  BY <1>2, <1>3

(* A run of the script leaves well-typed buckets. *)
LEMMA StoredTypes ==
    ASSUME TypeOK, NEW k \in Key, NEW parts \in 0..Full, Stored(k, parts)
    PROVE  /\ bucket' \in [Key -> Bucket \cup {Null}]
           /\ \A j \in Key : bucket'[j] # Null =>
                 /\ bucket'[j].last <= MaxClock
                 /\ bucket'[j].expires = bucket'[j].last + Lifetime * Second
<1> DEFINE b == [tokens |-> parts, last |-> clock, expires |-> clock + Lifetime * Second]
<1>1. clock \in Nat /\ clock <= MaxClock /\ clock + Lifetime * Second \in Nat
  BY Parameters, ScaleAssumption DEF TypeOK
<1>2. /\ b \in Bucket /\ b.last <= MaxClock
      /\ b.expires = b.last + Lifetime * Second
  BY <1>1 DEF Bucket
<1>3. bucket' = [bucket EXCEPT ![k] = b] /\ bucket \in [Key -> Bucket \cup {Null}]
  BY DEF Stored, TypeOK
<1>4. \A j \in Key : bucket[j] # Null =>
          bucket[j].last <= MaxClock /\ bucket[j].expires = bucket[j].last + Lifetime * Second
  BY DEF TypeOK
<1> HIDE DEF b
<1>5. \A j \in Key : bucket'[j] = IF j = k THEN b ELSE bucket[j]
  BY <1>3
<1> QED
  BY <1>2, <1>3, <1>4, <1>5

(* The types are preserved by every step. *)
LEMMA TypeStep ==
    ASSUME TypeOK, [Next]_vars
    PROVE  TypeOK'
<1> DEFINE RepliesOK ==
        /\ reply' \in Reply \cup {Null}
        /\ reply' # Null /\ ~reply'.allowed => reply'.retry >= 1 /\ reply'.remaining = 0
<1>1. \A k \in Key, retry \in Nat, remaining \in 0..Burst :
          Answered(k, TRUE, retry, remaining) => RepliesOK
  BY DEF Answered, Reply
<1>2. \A k \in Key, retry \in Nat :
          Answered(k, FALSE, retry, 0) /\ retry >= 1 => RepliesOK
  BY LimiterAssumption DEF Answered, Reply
<1>3. UNCHANGED reply => RepliesOK
  BY DEF TypeOK
<1> HIDE DEF RepliesOK
<1>4. ASSUME NEW k \in Key, Admit(k) PROVE TypeOK'
  <2>1. Level(k) - Unit \in 0..Full /\ (Level(k) - Unit) \div Unit \in 0..Burst
    BY <1>4, AnswerTypes DEF Admit
  <2>2. Stored(k, Level(k) - Unit) /\ UNCHANGED clock /\ RepliesOK
    BY <1>1, <1>4, <2>1 DEF Admit
  <2> QED
    BY <2>1, <2>2, StoredTypes DEF TypeOK, RepliesOK
<1>5. ASSUME NEW k \in Key, Refuse(k) PROVE TypeOK'
  <2>1. Stored(k, Level(k)) /\ UNCHANGED clock /\ Level(k) \in 0..Full
    BY <1>5, LevelInRange DEF Refuse
  <2>2. RepliesOK
    BY <1>2, <1>5, AnswerTypes DEF Refuse
  <2> QED
    BY <2>1, <2>2, StoredTypes DEF TypeOK, RepliesOK
<1>6. ASSUME NEW k \in Key, FailOpen(k) PROVE TypeOK'
  <2>1. RepliesOK /\ UNCHANGED clock
    <3>1. Answered(k, TRUE, 0, Burst) /\ UNCHANGED clock
      BY <1>6, Zenon DEF FailOpen
    <3>2. 0 \in Nat /\ Burst \in 0..Burst
      BY LimiterAssumption
    <3> QED
      BY <1>1, <3>1, <3>2
  <2>2. CASE UNCHANGED bucket
    BY <2>1, <2>2 DEF TypeOK, RepliesOK
  <2>3. CASE Stored(k, IF Level(k) >= Unit THEN Level(k) - Unit ELSE Level(k))
    <3>1. (IF Level(k) >= Unit THEN Level(k) - Unit ELSE Level(k)) \in 0..Full
      BY LevelInRange, AnswerTypes
    <3> QED
      BY <2>1, <2>3, <3>1, StoredTypes DEF TypeOK, RepliesOK
  <2> QED
    BY <1>6, <2>2, <2>3 DEF FailOpen
<1>7. ASSUME NEW k \in Key, Expire(k) \/ Lose(k) PROVE TypeOK'
  BY <1>7 DEF Expire, Lose, TypeOK
<1>8. CASE Tick
  BY <1>8, ScaleAssumption DEF Tick, TypeOK
<1>9. CASE SetBack
  BY <1>9, ScaleAssumption DEF SetBack, TypeOK
<1>10. CASE UNCHANGED vars
  BY <1>10 DEF vars, TypeOK
<1> QED
  BY <1>4, <1>5, <1>6, <1>7, <1>8, <1>9, <1>10 DEF Next

(* Clock, buckets and answers are well typed in every reachable state; a client
   that is refused is told to wait a positive number of seconds. *)
THEOREM TypeCorrect == Spec => []TypeOK
<1>1. Init => TypeOK
  BY ScaleAssumption DEF Init, TypeOK
<1> QED
  BY <1>1, TypeStep, PTL DEF Spec

-----------------------------------------------------------------------------
(* Every step is a step of the ideal bucket, or one it does not notice. *)
LEMMA StepSimulation ==
    ASSUME TypeOK, [Next]_vars
    PROVE  [Ideal!Next]_(Ideal!vars)
<1>1. \A k \in Key : Levels[k] = Level(k)
  BY DEF Levels
<1>2. Levels' = [k \in Key |-> Level(k)']
  BY DEF Levels
<1>3. Ideal!Full = Full
  BY DEF Ideal!Full, Full
<1>4. ASSUME NEW k \in Key, NEW allowed \in BOOLEAN, NEW retry \in Nat,
             NEW remaining \in 0..Burst, Answered(k, allowed, retry, remaining)
      PROVE  Told' = [key |-> k, allowed |-> allowed]
  <2>1. reply' \in Reply
    BY <1>4 DEF Answered, Reply
  <2>2. reply' # Null
    BY <2>1, NullAssumption
  <2> QED
    BY <1>4, <2>2 DEF Answered, Told
<1>5. ASSUME NEW k \in Key, Admit(k) PROVE Ideal!Admit(k)
  <2>1. /\ Level(k) - Unit \in 0..Full /\ Stored(k, Level(k) - Unit)
        /\ UNCHANGED clock /\ Level(k) >= Unit
    BY <1>5, AnswerTypes DEF Admit
  <2>2. Told' = [key |-> k, allowed |-> TRUE]
    <3>1. Answered(k, TRUE, 0, (Level(k) - Unit) \div Unit)
      BY <1>5 DEF Admit
    <3>2. (Level(k) - Unit) \div Unit \in 0..Burst /\ 0 \in Nat
      BY <2>1, AnswerTypes
    <3> QED
      BY <1>4, <3>1, <3>2
  <2>3. Levels' = [Levels EXCEPT ![k] = Levels[k] - Unit] /\ Held' = Held \cup {k}
    BY <1>1, <2>1, StoredLevel
  <2> QED
    BY <1>1, <2>1, <2>2, <2>3 DEF Ideal!Admit
<1>6. ASSUME NEW k \in Key, Refuse(k) PROVE Ideal!Refuse(k)
  <2>1. /\ Level(k) \in 0..Full /\ Stored(k, Level(k))
        /\ UNCHANGED clock /\ Level(k) < Unit
    BY <1>6, LevelInRange DEF Refuse
  <2>2. Told' = [key |-> k, allowed |-> FALSE]
    <3>1. Answered(k, FALSE, RetryAfter(k), Level(k) \div Unit)
      BY <1>6 DEF Refuse
    <3>2. Level(k) \div Unit = 0 /\ RetryAfter(k) \in Nat
      BY <2>1, AnswerTypes
    <3>3. Level(k) \div Unit \in 0..Burst
      BY <3>2, LimiterAssumption
    <3> QED
      BY <1>4, <3>1, <3>2, <3>3
  <2>3. Levels' = Levels
    BY <1>1, <2>1, StoredLevel DEF Levels
  <2>4. Held' = Held \cup {k}
    BY <2>1, StoredLevel
  <2> QED
    BY <1>1, <2>1, <2>2, <2>3, <2>4 DEF Ideal!Refuse
<1>7. ASSUME NEW k \in Key, FailOpen(k) PROVE Ideal!Admit(k) \/ Ideal!Pass(k)
  <2>1. Told' = [key |-> k, allowed |-> TRUE]
    <3>1. Answered(k, TRUE, 0, Burst)
      BY <1>7, Zenon DEF FailOpen
    <3>2. 0 \in Nat /\ Burst \in 0..Burst
      BY LimiterAssumption
    <3> QED
      BY <1>4, <3>1, <3>2
  <2>2. UNCHANGED clock
    BY <1>7 DEF FailOpen
  <2>3. CASE UNCHANGED bucket
    <3>1. \A j \in Key : Level(j)' = Level(j)
      BY <2>2, <2>3 DEF Level, Found, Elapsed
    <3>2. Levels' = Levels /\ Held' = Held
      BY <2>3, <3>1 DEF Levels, Held
    <3> QED
      BY <2>1, <3>2 DEF Ideal!Pass
  <2>4. CASE Stored(k, Level(k) - Unit) /\ Level(k) >= Unit
    <3>1. Level(k) - Unit \in 0..Full
      BY <2>4, AnswerTypes
    <3>2. Levels' = [Levels EXCEPT ![k] = Levels[k] - Unit] /\ Held' = Held \cup {k}
      BY <1>1, <2>2, <2>4, <3>1, StoredLevel
    <3> QED
      BY <1>1, <2>1, <2>4, <3>2 DEF Ideal!Admit
  <2>5. CASE Stored(k, Level(k))
    <3>1. Levels' = Levels
      BY <1>1, <2>2, <2>5, LevelInRange, StoredLevel DEF Levels
    <3>2. Held' = Held \cup {k}
      BY <2>2, <2>5, LevelInRange, StoredLevel
    <3> QED
      BY <2>1, <3>1, <3>2 DEF Ideal!Pass
  <2> QED
    BY <1>7, <2>3, <2>4, <2>5 DEF FailOpen
<1>8. ASSUME NEW k \in Key, Expire(k) \/ Lose(k)
      PROVE  /\ Levels' = [Levels EXCEPT ![k] = Full] /\ Told' = Told
             /\ k \in Held /\ Held' = Held \ {k}
             /\ Expire(k) => Level(k) = Full
  <2>1. bucket' = [bucket EXCEPT ![k] = Null] /\ UNCHANGED <<clock, reply>>
    BY <1>8 DEF Expire, Lose
  <2>2. bucket'[k] = Null /\ \A j \in Key : j # k => bucket'[j] = bucket[j]
    BY <2>1 DEF TypeOK
  <2>3. Level(k)' = Full
    BY <2>2 DEF Level, Found
  <2>4. \A j \in Key : j # k => Level(j)' = Level(j)
    BY <2>1, <2>2 DEF Level, Found, Elapsed
  <2>5. Levels' = [Levels EXCEPT ![k] = Full]
    BY <2>3, <2>4 DEF Levels
  <2>6. Told' = Told
    BY <2>1 DEF Told
  <2>7. Expire(k) => Level(k) = Full
    BY DEF Expire, Level, Found, TypeOK, Bucket
  <2>8. k \in Held /\ Held' = Held \ {k}
    BY <1>8, <2>2 DEF Expire, Lose, Held
  <2> QED
    BY <2>5, <2>6, <2>7, <2>8
<1>9. ASSUME NEW k \in Key, Lose(k) PROVE Ideal!Reset(k)
  BY <1>3, <1>8, <1>9 DEF Ideal!Reset
<1>10. ASSUME NEW k \in Key, Expire(k) PROVE Ideal!Forget(k)
  <2>1. Levels' = Levels
    BY <1>1, <1>8, <1>10 DEF Levels
  <2> QED
    BY <1>1, <1>3, <1>8, <1>10, <2>1 DEF Ideal!Forget
<1>11. ASSUME \A k \in Key : Level(k)' \in 0..Full /\ Level(k)' <= Ideal!Capped(Level(k) + Rate),
              UNCHANGED <<bucket, reply>>
       PROVE  Ideal!Time
  <2>1. Levels' \in [Key -> 0..Ideal!Full]
    BY <1>2, <1>3, <1>11
  <2>2. \A k \in Key : Levels'[k] <= Ideal!Capped(Levels[k] + Rate)
    BY <1>1, <1>2, <1>11
  <2> QED
    BY <1>11, <2>1, <2>2 DEF Ideal!Time, Told, Held
<1>12. TypeOK'
  BY TypeStep
<1>13. CASE Tick
  <2>1. ASSUME NEW k \in Key
        PROVE  Level(k)' \in 0..Full /\ Level(k)' <= Ideal!Capped(Level(k) + Rate)
    <3>1. Level(k)' \in Level(k)..Ideal!Capped(Level(k) + Rate)
      BY <1>13, TickLevel
    <3>2. Ideal!Capped(Level(k) + Rate) \in 0..Full
      BY <1>3, LevelInRange, Parameters, LimiterAssumption DEF Ideal!Capped
    <3> QED
      BY <3>1, <3>2, LevelInRange, Parameters
  <2>2. Ideal!Time
    BY <1>11, <1>13, <2>1 DEF Tick
  <2> QED
    BY <2>2 DEF Ideal!Next
<1>14. CASE SetBack
  <2>1. ASSUME NEW k \in Key
        PROVE  Level(k)' \in 0..Full /\ Level(k)' <= Ideal!Capped(Level(k) + Rate)
    <3>1. Level(k)' \in 0..Level(k)
      BY <1>14, SetBackLevel
    <3> QED
      BY <1>3, <3>1, LevelInRange, Parameters, LimiterAssumption DEF Ideal!Capped
  <2>2. Ideal!Time
    BY <1>11, <1>14, <2>1 DEF SetBack
  <2> QED
    BY <2>2 DEF Ideal!Next
<1>15. CASE UNCHANGED vars
  BY <1>15 DEF vars, Levels, Level, Found, Elapsed, Told, Held, Ideal!vars
<1> QED
  BY <1>5, <1>6, <1>7, <1>9, <1>10, <1>13, <1>14, <1>15 DEF Next, Ideal!Next

(* The script limits exactly as a bucket that fills continuously would. *)
THEOREM KeepsTheLimit == Spec => ImplementsTokenBucket
<1>1. Init => Ideal!Init
  <2> SUFFICES ASSUME Init PROVE Ideal!Init
    OBVIOUS
  <2>1. Levels = [k \in Key |-> Full]
    BY DEF Init, Levels, Level, Found
  <2> QED
    BY <2>1 DEF Init, Ideal!Init, Ideal!Full, Full, Told, Held
<1> QED
  BY <1>1, TypeCorrect, StepSimulation, PTL DEF Spec, ImplementsTokenBucket, Ideal!Spec
-----------------------------------------------------------------------------

(* A promise is backed by what is in the bucket and what time will add. *)
Backed(k) ==
    promise[k] # Null =>
        /\ bucket[k] = Null \/ bucket[k].last <= clock
        /\ IF clock >= promise[k] THEN Level(k) >= Unit
           ELSE Level(k) + (promise[k] - clock) * Rate >= Unit

HistoryOK ==
    /\ open \in BOOLEAN
    /\ elapsed \in Nat
    /\ spent \in [Key -> Nat] /\ lost \in [Key -> Nat]
    /\ promise \in [Key -> Nat \cup {Null}]
    /\ ~open => elapsed = 0 /\ spent = Nothing /\ lost = Nothing

IInv ==
    /\ TypeOK
    /\ HistoryOK
    /\ WithinLimit
    /\ \A k \in Key : Backed(k)

-----------------------------------------------------------------------------
(* The sums in WithinLimit are sums of natural numbers. *)
LEMMA Sums ==
    ASSUME NEW m \in Nat, NEW n \in Nat, NEW e \in Nat
    PROVE  /\ m * Unit \in Nat /\ (m + 1) * Unit = m * Unit + Unit
           /\ (1 + n) * Full \in Nat /\ (1 + (n + 1)) * Full = (1 + n) * Full + Full
           /\ e * Rate \in Nat /\ (e + 1) * Rate = e * Rate + Rate
<1>1. \A x, y \in Nat : x * y \in Nat /\ (x + 1) * y = x * y + y
  OBVIOUS
<1>2. Unit \in Nat /\ Rate \in Nat /\ Full \in Nat
  BY Parameters, LimiterAssumption
<1>3. 1 + n \in Nat /\ 1 + (n + 1) = (1 + n) + 1
  OBVIOUS
<1>4. m * Unit \in Nat /\ (m + 1) * Unit = m * Unit + Unit
  BY <1>1, <1>2
<1>5. (1 + n) * Full \in Nat /\ (1 + (n + 1)) * Full = (1 + n) * Full + Full
  BY <1>1, <1>2, <1>3
<1>6. e * Rate \in Nat /\ (e + 1) * Rate = e * Rate + Rate
  BY <1>1, <1>2
<1> QED
  BY <1>4, <1>5, <1>6

(* Requests spend from the bucket of their own key only. *)
LEMMA OthersUntouched ==
    ASSUME TypeOK, NEW k \in Key, WAdmit(k) \/ WRefuse(k) \/ WFailOpen(k) \/ WExpire(k) \/ WLose(k),
           NEW j \in Key, j # k
    PROVE  bucket'[j] = bucket[j] /\ clock' = clock /\ Level(j)' = Level(j)
<1>1. bucket'[j] = bucket[j]
  BY DEF WAdmit, Admit, WRefuse, Refuse, WFailOpen, FailOpen, WExpire, Expire, WLose, Lose,
         Stored, TypeOK
<1>2. clock' = clock
  BY DEF WAdmit, Admit, WRefuse, Refuse, WFailOpen, FailOpen, WExpire, Expire, WLose, Lose
<1> QED
  BY <1>1, <1>2 DEF Level, Found, Elapsed

(* What each operation makes of the bucket of its own key. *)
LEMMA OwnLevel ==
    ASSUME TypeOK, NEW k \in Key
    PROVE  /\ WAdmit(k) => Level(k) >= Unit /\ Level(k)' = Level(k) - Unit
           /\ WRefuse(k) => /\ Level(k) < Unit /\ Level(k)' = Level(k)
                            /\ bucket'[k].last = clock /\ clock' = clock
           /\ WFailOpen(k) => Level(k)' <= Level(k)
           /\ WExpire(k) => Level(k) = Full /\ Level(k)' = Full /\ bucket'[k] = Null
           /\ WLose(k) => Level(k)' = Full /\ bucket'[k] = Null /\ clock' = clock
<1>1. ASSUME WAdmit(k) PROVE Level(k) >= Unit /\ Level(k)' = Level(k) - Unit
  <2>1. Level(k) >= Unit /\ Stored(k, Level(k) - Unit) /\ UNCHANGED clock
    BY <1>1 DEF WAdmit, Admit
  <2>2. Level(k) - Unit \in 0..Full
    BY <2>1, AnswerTypes
  <2> QED
    BY <2>1, <2>2, StoredLevel
<1>2. ASSUME WRefuse(k)
      PROVE  /\ Level(k) < Unit /\ Level(k)' = Level(k)
             /\ bucket'[k].last = clock /\ clock' = clock
  <2>1. Level(k) < Unit /\ Stored(k, Level(k)) /\ UNCHANGED clock
    BY <1>2 DEF WRefuse, Refuse
  <2>2. Level(k)' = Level(k)
    BY <2>1, LevelInRange, StoredLevel
  <2>3. bucket'[k].last = clock
    BY <2>1 DEF Stored, TypeOK
  <2> QED
    BY <2>1, <2>2, <2>3
<1>3. ASSUME WFailOpen(k) PROVE Level(k)' <= Level(k)
  <2>1. UNCHANGED clock
    BY <1>3 DEF WFailOpen, FailOpen
  <2>2. CASE UNCHANGED bucket
    <3>1. Level(k)' = Level(k)
      BY <2>1, <2>2 DEF Level, Found, Elapsed
    <3> QED
      BY <3>1, LevelInRange, Parameters
  <2>3. CASE Stored(k, Level(k) - Unit) /\ Level(k) >= Unit
    <3>1. Level(k)' = Level(k) - Unit
      BY <2>1, <2>3, AnswerTypes, StoredLevel
    <3> QED
      BY <3>1, LevelInRange, Parameters
  <2>4. CASE Stored(k, Level(k))
    <3>1. Level(k)' = Level(k)
      BY <2>1, <2>4, LevelInRange, StoredLevel
    <3> QED
      BY <3>1, LevelInRange, Parameters
  <2> QED
    BY <1>3, <2>2, <2>3, <2>4 DEF WFailOpen, FailOpen
<1>4. ASSUME WExpire(k) PROVE Level(k) = Full /\ Level(k)' = Full /\ bucket'[k] = Null
  <2>1. bucket[k] # Null /\ clock > bucket[k].expires /\ bucket'[k] = Null
    BY <1>4 DEF WExpire, Expire, TypeOK
  <2>2. ~Found(k)
    BY <2>1, BucketFacts, Parameters DEF Found, TypeOK
  <2> QED
    BY <2>1, <2>2 DEF Level, Found
<1>5. ASSUME WLose(k) PROVE Level(k)' = Full /\ bucket'[k] = Null /\ clock' = clock
  BY <1>5 DEF WLose, Lose, TypeOK, Level, Found
<1> QED
  BY <1>1, <1>2, <1>3, <1>4, <1>5

-----------------------------------------------------------------------------
(* The bookkeeping keeps its types. *)
LEMMA HistoryStep ==
    ASSUME IInv, [WindowNext]_windowVars
    PROVE  HistoryOK'
<1>0. HistoryOK /\ Null \notin Nat
  BY NullAssumption DEF IInv
<1>1. ASSUME NEW counter \in [Key -> Nat], NEW k \in Key
      PROVE  /\ Counted(counter, k) \in [Key -> Nat]
             /\ ~open => Counted(counter, k) = counter
  BY DEF Counted
<1>2. CASE Open
  BY <1>0, <1>2 DEF Open, HistoryOK
<1>3. ASSUME NEW k \in Key, WAdmit(k) PROVE HistoryOK'
  BY <1>0, <1>1, <1>3 DEF WAdmit, HistoryOK, Nothing
<1>4. ASSUME NEW k \in Key, WRefuse(k) PROVE HistoryOK'
  <2>1. clock + RetryAfter(k) * Second \in Nat
    <3>1. RetryAfter(k) \in Nat /\ clock \in Nat /\ Second \in Nat
      BY <1>4, AnswerTypes, ScaleAssumption DEF WRefuse, Refuse, IInv, TypeOK
    <3>2. \A c, m, n \in Nat : c + m * n \in Nat
      OBVIOUS
    <3> QED
      BY <3>1, <3>2
  <2>2. promise' \in [Key -> Nat \cup {Null}]
    BY <1>0, <1>4, <2>1 DEF WRefuse, HistoryOK
  <2> QED
    BY <1>0, <1>4, <2>2 DEF WRefuse, HistoryOK, Nothing
<1>5. ASSUME NEW k \in Key, WFailOpen(k) PROVE HistoryOK'
  BY <1>0, <1>5 DEF WFailOpen, HistoryOK, Nothing
<1>6. ASSUME NEW k \in Key, WExpire(k) PROVE HistoryOK'
  BY <1>0, <1>6 DEF WExpire, history, HistoryOK, Nothing
<1>7. ASSUME NEW k \in Key, WLose(k) PROVE HistoryOK'
  BY <1>0, <1>1, <1>7 DEF WLose, HistoryOK, Nothing
<1>8. CASE WTick
  BY <1>0, <1>8 DEF WTick, HistoryOK, Nothing
<1>9. CASE WSetBack
  BY <1>0, <1>9 DEF WSetBack, HistoryOK, Nothing
<1>10. CASE UNCHANGED windowVars
  BY <1>0, <1>10 DEF windowVars, history, HistoryOK, Nothing
<1> QED
  BY <1>2, <1>3, <1>4, <1>5, <1>6, <1>7, <1>8, <1>9, <1>10 DEF WindowNext

(* Without history, a step is a step of the limiter. *)
LEMMA LimiterStep ==
    ASSUME [WindowNext]_windowVars
    PROVE  [Next]_vars
BY DEF WindowNext, Next, Open, WAdmit, WRefuse, WFailOpen, WExpire, WLose, WTick, WSetBack,
       windowVars

(* The range of a level, for the state after a step. *)
LEMMA LevelBounds == TypeOK => (\A k \in Key : Level(k) \in 0..Full)
BY LevelInRange

LEMMA NextLevelBounds == TypeOK' => (\A k \in Key : Level(k) \in 0..Full)'
BY LevelBounds, PTL

(* What one key has spent and still has, against what it was allowed. *)
Within(k) ==
    spent[k] * Unit + (IF open THEN Level(k) ELSE 0) <= (1 + lost[k]) * Full + elapsed * Rate

(* The sum is kept below the allowance by every step. *)
LEMMA WithinStep ==
    ASSUME IInv, [WindowNext]_windowVars, NEW j \in Key
    PROVE  Within(j)'
<1>0. /\ spent[j] \in Nat /\ lost[j] \in Nat /\ elapsed \in Nat /\ open \in BOOLEAN
      /\ ~open => spent[j] = 0 /\ lost[j] = 0 /\ elapsed = 0
      /\ Within(j) /\ TypeOK
  BY DEF IInv, HistoryOK, WithinLimit, Within, Nothing
<1>1. Level(j) \in 0..Full /\ Level(j)' \in 0..Full /\ Full \in Nat
  <2>1. TypeOK'
    BY <1>0, LimiterStep, TypeStep
  <2> QED
    BY <1>0, <2>1, LevelInRange, NextLevelBounds, Parameters
<1> DEFINE s == spent[j] * Unit
           n == (1 + lost[j]) * Full
           e == elapsed * Rate
<1>2. s \in Nat /\ n \in Nat /\ e \in Nat /\ n >= Full
  <2>1. \A m, f \in Nat : (1 + m) * f >= f
    OBVIOUS
  <2>2. n >= Full
    BY <1>0, <1>1, <2>1
  <2> QED
    BY <1>0, <2>2, Sums
<1>3. ~open => s = 0 /\ e = 0
  BY <1>0, Parameters, LimiterAssumption
<1>4. s + (IF open THEN Level(j) ELSE 0) <= n + e
  BY <1>0 DEF Within
<1>5. ASSUME spent'[j] = spent[j], lost'[j] = lost[j], elapsed' = elapsed, open' = open,
             ~open \/ Level(j)' <= Level(j)
      PROVE  Within(j)'
  <2>1. Within(j)' <=> s + (IF open THEN Level(j)' ELSE 0) <= n + e
    BY <1>5 DEF Within
  <2> HIDE DEF s, n, e
  <2> QED
    BY <1>0, <1>1, <1>2, <1>4, <1>5, <2>1
<1>6. CASE Open
  <2>1. /\ spent'[j] = spent[j] /\ lost'[j] = lost[j] /\ elapsed' = elapsed
        /\ ~open /\ open' = TRUE
    BY <1>6 DEF Open
  <2>2. Within(j)' <=> s + Level(j)' <= n + e
    BY <2>1 DEF Within
  <2> HIDE DEF s, n, e
  <2> QED
    BY <1>1, <1>2, <1>3, <2>1, <2>2
<1>7. ASSUME NEW k \in Key, WAdmit(k) PROVE Within(j)'
  <2>1. lost' = lost /\ elapsed' = elapsed /\ open' = open /\ spent' = Counted(spent, k)
    BY <1>7 DEF WAdmit
  <2>2. spent \in [Key -> Nat]
    BY DEF IInv, HistoryOK
  <2>3. CASE j = k /\ open
    <3>1. Level(j) >= Unit /\ Level(j)' = Level(j) - Unit
      BY <1>0, <1>7, <2>3, OwnLevel
    <3>2. spent'[j] = spent[j] + 1
      BY <2>1, <2>2, <2>3 DEF Counted
    <3>3. Within(j)' <=> (spent[j] + 1) * Unit + Level(j)' <= n + e
      BY <2>1, <2>3, <3>2 DEF Within
    <3>4. (spent[j] + 1) * Unit = s + Unit
      BY <1>0, Sums
    <3> HIDE DEF s, n, e
    <3> QED
      BY <1>1, <1>2, <1>4, <2>3, <3>1, <3>3, <3>4, Parameters
  <2>4. CASE ~(j = k /\ open)
    <3>1. spent'[j] = spent[j]
      BY <2>1, <2>2, <2>4 DEF Counted
    <3>2. ~open \/ Level(j)' <= Level(j)
      BY <1>0, <1>1, <1>7, <2>4, OthersUntouched
    <3> QED
      BY <1>5, <2>1, <3>1, <3>2
  <2> QED
    BY <2>3, <2>4
<1>8. ASSUME NEW k \in Key, WRefuse(k) \/ WFailOpen(k) \/ WExpire(k) PROVE Within(j)'
  <2>1. Level(j)' <= Level(j)
    BY <1>0, <1>1, <1>8, OwnLevel, OthersUntouched
  <2> QED
    BY <1>5, <1>8, <2>1 DEF WRefuse, WFailOpen, WExpire, history
<1>9. ASSUME NEW k \in Key, WLose(k) PROVE Within(j)'
  <2>1. spent' = spent /\ elapsed' = elapsed /\ open' = open /\ lost' = Counted(lost, k)
    BY <1>9 DEF WLose
  <2>2. lost \in [Key -> Nat]
    BY DEF IInv, HistoryOK
  <2>3. CASE j = k /\ open
    <3>1. lost'[j] = lost[j] + 1
      BY <2>1, <2>2, <2>3 DEF Counted
    <3>2. Within(j)' <=> s + Level(j)' <= (1 + (lost[j] + 1)) * Full + e
      BY <2>1, <2>3, <3>1 DEF Within
    <3>3. (1 + (lost[j] + 1)) * Full = n + Full
      BY <1>0, Sums
    <3> HIDE DEF s, n, e
    <3> QED
      BY <1>1, <1>2, <1>4, <2>3, <3>2, <3>3
  <2>4. CASE ~(j = k /\ open)
    <3>1. lost'[j] = lost[j]
      BY <2>1, <2>2, <2>4 DEF Counted
    <3>2. ~open \/ Level(j)' <= Level(j)
      BY <1>0, <1>1, <1>9, <2>4, OthersUntouched
    <3> QED
      BY <1>5, <2>1, <3>1, <3>2
  <2> QED
    BY <2>3, <2>4
<1>10. CASE WTick
  <2>1. /\ spent' = spent /\ lost' = lost /\ open' = open
        /\ elapsed' = IF open THEN elapsed + 1 ELSE elapsed
    BY <1>10 DEF WTick
  <2>2. CASE open
    <3>1. Level(j)' <= Level(j) + Rate
      <4>1. Level(j)' \in Level(j)..Ideal!Capped(Level(j) + Rate)
        BY <1>0, <1>10, TickLevel DEF WTick
      <4> QED
        BY <1>1, <4>1, LimiterAssumption DEF Ideal!Capped, Ideal!Full, Full
    <3>2. Within(j)' <=> s + Level(j)' <= n + (elapsed + 1) * Rate
      BY <2>1, <2>2 DEF Within
    <3>3. (elapsed + 1) * Rate = e + Rate
      BY <1>0, Sums
    <3> HIDE DEF s, n, e
    <3> QED
      BY <1>1, <1>2, <1>4, <2>2, <3>1, <3>2, <3>3, LimiterAssumption
  <2>3. CASE ~open
    BY <1>5, <2>1, <2>3
  <2> QED
    BY <1>0, <2>2, <2>3
<1>11. CASE WSetBack
  <2>1. Level(j)' <= Level(j)
    <3>1. Level(j)' \in 0..Level(j)
      BY <1>0, <1>11, SetBackLevel DEF WSetBack
    <3> QED
      BY <1>1, <3>1
  <2> QED
    BY <1>5, <1>11, <2>1 DEF WSetBack
<1>12. CASE UNCHANGED windowVars
  <2>1. Level(j)' = Level(j)
    BY <1>12 DEF windowVars, vars, Level, Found, Elapsed
  <2> QED
    BY <1>1, <1>5, <1>12, <2>1 DEF windowVars, history
<1> QED
  BY <1>6, <1>7, <1>8, <1>9, <1>10, <1>11, <1>12 DEF WindowNext

-----------------------------------------------------------------------------
(* Promises stay backed. *)
LEMMA BackedStep ==
    ASSUME IInv, [WindowNext]_windowVars, NEW j \in Key
    PROVE  Backed(j)'
<1>0. /\ TypeOK /\ Backed(j) /\ promise \in [Key -> Nat \cup {Null}] /\ Null \notin Nat
      /\ clock \in Nat /\ Rate \in Nat /\ Rate >= 1 /\ Unit \in Nat /\ Full \in Nat
      /\ Full >= Unit
  BY NullAssumption, Parameters, LimiterAssumption DEF IInv, HistoryOK, TypeOK
<1>1. Level(j) \in 0..Full
  BY <1>0, LevelInRange
<1>2. ASSUME promise'[j] = promise[j], bucket'[j] = bucket[j], clock' = clock
      PROVE  Backed(j)'
  <2>1. Level(j)' = Level(j)
    BY <1>2 DEF Level, Found, Elapsed
  <2> QED
    BY <1>0, <1>2, <2>1 DEF Backed
<1>3. ASSUME promise'[j] = Null PROVE Backed(j)'
  BY <1>3 DEF Backed
<1>4. ASSUME NEW k \in Key, k # j,
             WAdmit(k) \/ WRefuse(k) \/ WFailOpen(k) \/ WExpire(k) \/ WLose(k)
      PROVE  Backed(j)'
  <2>1. bucket'[j] = bucket[j] /\ clock' = clock
    BY <1>0, <1>4, OthersUntouched
  <2>2. promise'[j] = promise[j]
    BY <1>0, <1>4 DEF WAdmit, WRefuse, WFailOpen, WExpire, WLose, history
  <2> QED
    BY <1>2, <2>1, <2>2
<1>5. CASE WAdmit(j) \/ WFailOpen(j)
  BY <1>0, <1>3, <1>5 DEF WAdmit, WFailOpen
<1>6. CASE WRefuse(j)
  <2>1. /\ Level(j) < Unit /\ Level(j)' = Level(j)
        /\ bucket'[j].last = clock /\ clock' = clock
    BY <1>0, <1>6, OwnLevel
  <2>2. CASE promise[j] # Null
    <3>1. promise'[j] = promise[j]
      BY <1>0, <1>6, <2>2 DEF WRefuse
    <3>2. bucket'[j].last <= clock'
      BY <1>0, <2>1
    <3> QED
      BY <1>0, <2>1, <2>2, <3>1, <3>2 DEF Backed
  <2>3. CASE promise[j] = Null
    <3> DEFINE wait == RetryAfter(j) * Second
    <3>1. promise'[j] = clock + wait
      BY <1>0, <1>6, <2>3 DEF WRefuse
    <3>2. wait \in Nat /\ wait >= 1 /\ wait * Rate >= Unit - Level(j)
      <4>1. /\ RetryAfter(j) \in Nat /\ RetryAfter(j) >= 1
            /\ RetryAfter(j) * (Rate * Second) >= Unit - Level(j)
        BY <1>0, <2>1, AnswerTypes
      <4>2. \A m, r, t \in Nat : /\ (m * t) * r = m * (r * t)
                                 /\ m * t \in Nat
                                 /\ m >= 1 /\ t >= 1 => m * t >= 1
        OBVIOUS
      <4>3. wait * Rate = RetryAfter(j) * (Rate * Second)
        BY <1>0, <4>1, <4>2, ScaleAssumption
      <4> QED
        BY <4>1, <4>2, <4>3, ScaleAssumption
    <3>3. (clock + wait) - clock = wait
      BY <1>0, <3>2
    <3>4. wait * Rate \in Nat
      <4>1. \A m, r \in Nat : m * r \in Nat
        OBVIOUS
      <4> HIDE DEF wait
      <4> QED
        BY <1>0, <3>2, <4>1
    <3>5. Level(j)' + (promise'[j] - clock') * Rate >= Unit
      <4>1. (promise'[j] - clock') * Rate = wait * Rate
        BY <2>1, <3>1, <3>3
      <4> HIDE DEF wait
      <4> QED
        BY <1>0, <1>1, <2>1, <3>2, <3>4, <4>1
    <3>6. ~(clock' >= promise'[j])
      <4> HIDE DEF wait
      <4> QED
        BY <1>0, <2>1, <3>1, <3>2
    <3>7. bucket'[j].last <= clock'
      BY <1>0, <2>1
    <3> QED
      BY <3>5, <3>6, <3>7 DEF Backed
  <2> QED
    BY <2>2, <2>3
<1>7. CASE WExpire(j) \/ WLose(j)
  <2>1. Level(j)' = Full /\ bucket'[j] = Null
    BY <1>0, <1>7, OwnLevel
  <2>2. promise' = promise /\ clock' = clock
    BY <1>7 DEF WExpire, Expire, WLose, Lose, history
  <2>3. \A d, r \in Nat : d * r \in Nat
    OBVIOUS
  <2>4. ASSUME promise[j] # Null, ~(clock >= promise[j])
        PROVE  (promise[j] - clock) * Rate \in Nat
    BY <1>0, <2>3, <2>4
  <2> QED
    BY <1>0, <2>1, <2>2, <2>4 DEF Backed
<1>8. CASE WTick
  <2>1. promise' = promise /\ bucket' = bucket /\ clock' = clock + 1
    BY <1>8 DEF WTick, Tick
  <2>2. CASE promise[j] = Null
    BY <1>3, <2>1, <2>2
  <2>3. CASE promise[j] # Null
    <3>1. promise[j] \in Nat /\ (bucket[j] = Null \/ bucket[j].last <= clock)
      BY <1>0, <2>3 DEF Backed
    <3>2. Level(j)' = IF Level(j) + Rate > Full THEN Full ELSE Level(j) + Rate
      BY <1>0, <1>8, <3>1, TickLevel DEF WTick, Ideal!Capped, Ideal!Full, Full
    <3>3. bucket'[j] = Null \/ bucket'[j].last <= clock'
      BY <1>0, <2>1, <3>1, BucketFacts
    <3>4. CASE clock >= promise[j]
      <4>1. Level(j) >= Unit
        BY <2>3, <3>4 DEF Backed, IInv
      <4>2. Level(j)' >= Unit /\ clock' >= promise'[j]
        BY <1>0, <1>1, <2>1, <3>1, <3>2, <3>4, <4>1
      <4> QED
        BY <3>3, <4>2 DEF Backed
    <3>5. CASE ~(clock >= promise[j])
      <4> DEFINE x == (promise[j] - clock) * Rate
                 y == (promise[j] - (clock + 1)) * Rate
      <4>1. Level(j) + x >= Unit
        BY <1>0, <2>3, <3>5 DEF Backed
      <4>2. x \in Nat /\ y \in Nat /\ x = y + Rate
        <5>1. \A d, r \in Nat : (d + 1) * r = d * r + r /\ d * r \in Nat
          OBVIOUS
        <5>2. /\ promise[j] - (clock + 1) \in Nat
              /\ promise[j] - clock = (promise[j] - (clock + 1)) + 1
          BY <1>0, <3>1, <3>5
        <5>3. y \in Nat /\ ((promise[j] - (clock + 1)) + 1) * Rate = y + Rate
          BY <1>0, <5>1, <5>2
        <5>4. x = y + Rate
          BY <5>2, <5>3
        <5> HIDE DEF x, y
        <5> QED
          BY <1>0, <5>3, <5>4
      <4>3. promise[j] = clock + 1 => y = 0
        BY <1>0
      <4>4. Backed(j)' <=> IF clock + 1 >= promise[j] THEN Level(j)' >= Unit
                           ELSE Level(j)' + y >= Unit
        BY <2>1, <2>3, <3>3 DEF Backed
      <4> HIDE DEF x, y
      <4>5. Level(j)' + y >= Unit
        BY <1>0, <1>1, <3>2, <4>1, <4>2
      <4>6. clock + 1 >= promise[j] => Level(j)' >= Unit
        <5>1. clock + 1 >= promise[j] => promise[j] = clock + 1
          BY <1>0, <3>1, <3>5
        <5> QED
          BY <1>0, <1>1, <3>2, <4>3, <4>5, <5>1
      <4> QED
        BY <4>4, <4>5, <4>6
    <3> QED
      BY <3>4, <3>5
  <2> QED
    BY <2>2, <2>3
<1>9. CASE WSetBack
  BY <1>3, <1>9 DEF WSetBack
<1>10. CASE Open \/ UNCHANGED windowVars
  BY <1>2, <1>10 DEF Open, windowVars, vars, history
<1> QED
  BY <1>4, <1>5, <1>6, <1>7, <1>8, <1>9, <1>10 DEF WindowNext

(* The invariant holds in every reachable state. *)
THEOREM Invariance == WindowSpec => []IInv
<1>1. WindowInit => IInv
  <2> SUFFICES ASSUME WindowInit PROVE IInv
    OBVIOUS
  <2>1. TypeOK
    BY ScaleAssumption DEF WindowInit, Init, TypeOK
  <2>0. HistoryOK
    BY DEF WindowInit, HistoryOK, Nothing
  <2>2. WithinLimit
    <3>1. 0 * Unit = 0 /\ 0 * Rate = 0 /\ (1 + 0) * Full = Full /\ 0 + 0 <= Full + 0
      BY Parameters, LimiterAssumption
    <3> QED
      BY <3>1, Parameters DEF WindowInit, WithinLimit, Nothing
  <2>3. \A k \in Key : Backed(k)
    BY DEF WindowInit, Backed
  <2> QED
    BY <2>0, <2>1, <2>2, <2>3 DEF IInv
<1>2. IInv /\ [WindowNext]_windowVars => IInv'
  <2> SUFFICES ASSUME IInv, [WindowNext]_windowVars PROVE IInv'
    OBVIOUS
  <2>1. TypeOK'
    BY LimiterStep, TypeStep DEF IInv
  <2>2. WithinLimit'
    BY WithinStep DEF WithinLimit, Within
  <2> QED
    BY <2>1, <2>2, HistoryStep, BackedStep DEF IInv
<1> QED
  BY <1>1, <1>2, PTL DEF WindowSpec

(* In no window of time does the script admit more than burst and rate allow. *)
THEOREM LimitHolds == WindowSpec => []WithinLimit
BY Invariance, PTL DEF IInv

(* Whoever waits as long as Retry-After says finds a token. *)
THEOREM RetryAfterIsHonest == WindowSpec => []RetryAfterSuffices
<1>1. IInv => RetryAfterSuffices
  BY DEF IInv, Backed, RetryAfterSuffices
<1> QED
  BY <1>1, Invariance, PTL
=============================================================================
