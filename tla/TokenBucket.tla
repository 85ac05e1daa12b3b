---------------------------- MODULE TokenBucket ----------------------------
(***************************************************************************)
(* What a rate limiter promises: each key has a bucket of Burst tokens, a  *)
(* request takes one or is refused, and time puts tokens back at no more   *)
(* than the configured rate.  Tokens are counted in parts, Unit to a token *)
(* so that a rate of less than a token per tick can be said in integers.   *)
(***************************************************************************)
EXTENDS Integers

CONSTANTS
    Key,      \* what is limited: client addresses, or routes and addresses
    Burst,    \* tokens in a full bucket
    Unit,     \* parts in a token
    Rate,     \* parts refilled in a tick
    Null      \* nothing asked yet

VARIABLES
    level,    \* parts in each bucket
    held,     \* keys whose bucket the store holds
    reply     \* the last answer

vars == <<level, held, reply>>

Full == Burst * Unit

Capped(parts) == IF parts > Full THEN Full ELSE parts

Init ==
    /\ level = [k \in Key |-> Full]
    /\ held = {}
    /\ reply = Null

Admit(k) ==
    /\ level[k] >= Unit
    /\ level' = [level EXCEPT ![k] = @ - Unit]
    /\ held' = held \cup {k}
    /\ reply' = [key |-> k, allowed |-> TRUE]

(* Only an empty bucket is a reason to refuse. *)
Refuse(k) ==
    /\ level[k] < Unit
    /\ held' = held \cup {k}
    /\ reply' = [key |-> k, allowed |-> FALSE]
    /\ UNCHANGED level

(* The limiter is out of order and lets the request through uncounted. *)
Pass(k) ==
    /\ held' \in {held, held \cup {k}}
    /\ reply' = [key |-> k, allowed |-> TRUE]
    /\ UNCHANGED level

(* A tick, or a clock set back: at most Rate parts come into any bucket. *)
Time ==
    /\ level' \in [Key -> 0..Full]
    /\ \A k \in Key : level'[k] <= Capped(level[k] + Rate)
    /\ UNCHANGED <<held, reply>>

(* The store loses a bucket, which starts full again: the only way to gain more
   than Rate in a step. *)
Reset(k) ==
    /\ k \in held
    /\ held' = held \ {k}
    /\ level' = [level EXCEPT ![k] = Full]
    /\ UNCHANGED reply

(* The store drops a bucket that is full, which nobody notices. *)
Forget(k) ==
    /\ k \in held
    /\ level[k] = Full
    /\ held' = held \ {k}
    /\ UNCHANGED <<level, reply>>

Next ==
    \/ \E k \in Key : Admit(k) \/ Refuse(k) \/ Pass(k) \/ Reset(k) \/ Forget(k)
    \/ Time

Spec == Init /\ [][Next]_vars
=============================================================================
