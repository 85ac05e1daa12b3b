------------------------- MODULE RateLimiterWindow -------------------------
(***************************************************************************)
(* RateLimiter with a record of one window of time, opened at any moment,  *)
(* and of the promises made in Retry-After, to say what limit the clients  *)
(* and the service behind the limiter can count on.                        *)
(***************************************************************************)
EXTENDS RateLimiter

CONSTANTS
    MaxElapsed,   \* bound: the length of the window in ticks
    MaxLost       \* bound: how often Redis loses a bucket in the window

VARIABLES
    open,      \* the window has begun
    elapsed,   \* ticks since
    spent,     \* requests of each key admitted by the script since
    lost,      \* buckets of each key lost since
    promise    \* when each key may retry, since its last admission, or Null

history == <<open, elapsed, spent, lost, promise>>

Nothing == [k \in Key |-> 0]

WindowInit ==
    /\ Init
    /\ open = FALSE /\ elapsed = 0
    /\ spent = Nothing /\ lost = Nothing
    /\ promise = [k \in Key |-> Null]

Open ==
    /\ ~open
    /\ open' = TRUE
    /\ UNCHANGED <<vars, elapsed, spent, lost, promise>>

Counted(counter, k) == [counter EXCEPT ![k] = IF open THEN @ + 1 ELSE @]

WAdmit(k) ==
    /\ Admit(k)
    /\ spent' = Counted(spent, k)
    /\ promise' = [promise EXCEPT ![k] = Null]
    /\ UNCHANGED <<open, elapsed, lost>>

(* The first promise stands; asking again before the time does not renew it. *)
WRefuse(k) ==
    /\ Refuse(k)
    /\ promise' = [promise EXCEPT ![k] =
                      IF @ = Null THEN clock + RetryAfter(k) * Second ELSE @]
    /\ UNCHANGED <<open, elapsed, spent, lost>>

WFailOpen(k) ==
    /\ FailOpen(k)
    /\ promise' = [promise EXCEPT ![k] = Null]
    /\ UNCHANGED <<open, elapsed, spent, lost>>

WExpire(k) == Expire(k) /\ UNCHANGED history

WLose(k) ==
    /\ Lose(k)
    /\ lost[k] < MaxLost
    /\ lost' = Counted(lost, k)
    /\ UNCHANGED <<open, elapsed, spent, promise>>

WTick ==
    /\ Tick
    /\ elapsed < MaxElapsed
    /\ elapsed' = IF open THEN elapsed + 1 ELSE elapsed
    /\ UNCHANGED <<open, spent, lost, promise>>

(* When the clock is set back all waits get longer. *)
WSetBack ==
    /\ SetBack
    /\ promise' = [k \in Key |-> Null]
    /\ UNCHANGED <<open, elapsed, spent, lost>>

WindowNext ==
    \/ Open
    \/ \E k \in Key : WAdmit(k) \/ WRefuse(k) \/ WFailOpen(k) \/ WExpire(k) \/ WLose(k)
    \/ WTick
    \/ WSetBack

windowVars == <<vars, history>>

WindowSpec == WindowInit /\ [][WindowNext]_windowVars

(* In any window of time the script admits at most the burst and what the rate
   allows for the time that passed, even if the clock is set back in between;
   each loss of the bucket costs another burst. *)
WithinLimit ==
    \A k \in Key :
        spent[k] * Unit + (IF open THEN Level(k) ELSE 0) <=
            (1 + lost[k]) * Full + elapsed * Rate

(* A client that waits as long as Retry-After told it, and has not been admitted
   in the meantime, is admitted: asking too early does not put it back. *)
RetryAfterSuffices ==
    \A k \in Key : promise[k] # Null /\ clock >= promise[k] => Level(k) >= Unit
=============================================================================
