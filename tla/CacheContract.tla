---------------------------- MODULE CacheContract ----------------------------
(***************************************************************************)
(* What the Cache interface promises its callers, whichever implementation *)
(* cache.New picks.  A Get returns the value of the latest Set of that key *)
(* that was not deleted since, or nothing; a value is served for no longer *)
(* than its TTL after the Set, however often it is read.  The cache is     *)
(* free to forget: an entry may vanish at any time, and never comes back.  *)
(***************************************************************************)
EXTENDS Integers

CONSTANTS
    Key,
    Value,
    TTL,      \* ticks after its Set at which a value is last served
    Null      \* nothing stored, nothing found

VARIABLES
    store,    \* what a Get of each key would find, and for how long
    reply     \* the last operation and its result

vars == <<store, reply>>

Entry == [value : Value, life : 0..TTL]

Reply == [op : {"new", "get", "set", "delete", "close"},
          key : Key \cup {Null},
          result : Value \cup {Null, "ok", "error", "panic"}]

(* Operation op on key k returned res. *)
Returned(op, k, res) == reply' = [op |-> op, key |-> k, result |-> res]

Init ==
    /\ store = [k \in Key |-> Null]
    /\ reply = [op |-> "new", key |-> Null, result |-> "ok"]

Get(k) ==
    /\ UNCHANGED store
    /\ Returned("get", k, IF store[k] = Null THEN Null ELSE store[k].value)

(* A stored value that cannot be decoded is reported as an error. *)
GetFails(k) ==
    /\ UNCHANGED store
    /\ Returned("get", k, "error")

(* Room for the new entry may be made at the expense of others. *)
Set(k, v) ==
    /\ \E lost \in SUBSET (Key \ {k}) :
          store' = [j \in Key |-> IF j = k THEN [value |-> v, life |-> TTL]
                                  ELSE IF j \in lost THEN Null ELSE store[j]]
    /\ Returned("set", k, "ok")

SetFails(k) ==
    /\ UNCHANGED store
    /\ Returned("set", k, "error")

Delete(k) ==
    /\ store' = [store EXCEPT ![k] = Null]
    /\ Returned("delete", k, "ok")

(* Closing says nothing of what is stored. *)
Close ==
    /\ UNCHANGED store
    /\ \E res \in {"ok", "panic"} : Returned("close", Null, res)

(* Time passes for all entries at once; none outlives its TTL. *)
Tick ==
    /\ store' = [k \in Key |-> IF store[k] = Null \/ store[k].life = 0 THEN Null
                               ELSE [store[k] EXCEPT !.life = @ - 1]]
    /\ UNCHANGED reply

Next ==
    \/ \E k \in Key : Get(k) \/ GetFails(k) \/ SetFails(k) \/ Delete(k)
    \/ \E k \in Key, v \in Value : Set(k, v)
    \/ Close
    \/ Tick

Spec == Init /\ [][Next]_vars
=============================================================================
