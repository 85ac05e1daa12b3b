---------------------------- MODULE TieredCache ----------------------------
(***************************************************************************)
(* cache/multilevel.go: a cache of two levels, as cache.New builds it for  *)
(* Level "multi": L1 in the memory of each instance of the service         *)
(* (module MemoryCache), L2 in the Redis they share (redis.go).  No lock   *)
(* spans the two, so an operation is two steps, one at each level, and     *)
(* operations of other goroutines and instances come in between.           *)
(*                                                                         *)
(* One key is modelled: nothing relates the entries of different keys      *)
(* except that the memory cache may evict one for another.                 *)
(***************************************************************************)
EXTENDS Integers

CONSTANTS
    Node,             \* instances of the service, each with its own L1
    Client,           \* goroutines that use the cache
    Home,             \* the instance each of them runs in
    ConfiguredTTL,    \* Options.TTL, in ticks
    ConfiguredL1TTL,  \* Options.L1TTL, in ticks
    HalfMinute,       \* ticks in 30 seconds
    FaultyL1,         \* instances whose L1 may fail
    FaultyL2,         \* whether Redis may fail
    MaxWrites,        \* bound: how many values are written
    Null              \* no entry

(* cache.go: the TTL that stands for "no expiry". *)
NoExpire == -1

(* Definitions named Bug... are the mutants of the definition that follows
   them: what a plausible mistake there would say.  Nothing uses them. *)

BugL1TakesTTL == ConfiguredTTL

(* withDefaults, and then NewMemoryCache, for which -1 is no TTL either. *)
L1TTL == IF ConfiguredL1TTL = 0 THEN HalfMinute
         ELSE IF ConfiguredL1TTL < 0 THEN 2 * HalfMinute ELSE ConfiguredL1TTL

(* withDefaults, and then RedisCache.Set, which understands NoExpire. *)
L2TTL == IF ConfiguredTTL = 0 THEN 10 * HalfMinute ELSE ConfiguredTTL

ASSUME HomeAssumption == Home \in [Client -> Node]

ASSUME TimeAssumption ==
    /\ HalfMinute \in Nat /\ HalfMinute >= 1
    /\ ConfiguredTTL \in Nat \cup {NoExpire}
    /\ ConfiguredL1TTL \in Nat \cup {NoExpire}

ASSUME BoundAssumption == MaxWrites \in Nat /\ MaxWrites >= 1

ASSUME FaultAssumption == FaultyL1 \subseteq Node /\ FaultyL2 \in BOOLEAN

(* Every Set writes a value of its own, numbered in the order in which Redis
   executes them; 0 is no value. *)
Version == 1..MaxWrites

Entry == [value : Version, life : Nat \cup {NoExpire}]

ASSUME NullAssumption == Null \notin Entry

VARIABLES
    l1,        \* each instance's entry in memory
    l2,        \* the entry in Redis
    client,    \* each goroutine: which call it is about to make, and with what
    last       \* the value written last

vars == <<l1, l2, client, last>>

-----------------------------------------------------------------------------
Idle == [at |-> "idle", value |-> 0]

At(c, stage) == client[c].at = stage

(* Goroutine c goes on to its next call with value v, or returns. *)
Goto(c, stage, v) == client' = [client EXCEPT ![c] = [at |-> stage, value |-> v]]

Return(c) == client' = [client EXCEPT ![c] = Idle]

Fresh(v, ttl) == [value |-> v, life |-> ttl]

L1Fails(c) == Home[c] \in FaultyL1 /\ UNCHANGED l1

StoreL1(c, v) == l1' = [l1 EXCEPT ![Home[c]] = Fresh(v, L1TTL)]

Init ==
    /\ l1 = [n \in Node |-> Null]
    /\ l2 = Null
    /\ client = [c \in Client |-> Idle]
    /\ last = 0

-----------------------------------------------------------------------------
BugHitRenews(c) ==
    /\ At(c, "idle")
    /\ l1[Home[c]] # Null
    /\ l1' = [l1 EXCEPT ![Home[c]].life = L1TTL]
    /\ UNCHANGED <<l2, client, last>>

(* Get: L1 has the value, and it is returned. *)
GetL1Hit(c) ==
    /\ At(c, "idle")
    /\ l1[Home[c]] # Null
    /\ UNCHANGED vars

(* Get: L1 has nothing or failed to read it. *)
GetL1Miss(c) ==
    /\ At(c, "idle")
    /\ l1[Home[c]] = Null \/ Home[c] \in FaultyL1
    /\ Goto(c, "getL2", 0)
    /\ UNCHANGED <<l1, l2, last>>

(* Get: the error of L2 is returned. *)
GetL2Fails(c) ==
    /\ At(c, "getL2")
    /\ FaultyL2
    /\ Return(c)
    /\ UNCHANGED <<l1, l2, last>>

(* Get: nothing in L2 either. *)
GetL2Miss(c) ==
    /\ At(c, "getL2")
    /\ l2 = Null
    /\ Return(c)
    /\ UNCHANGED <<l1, l2, last>>

GetL2Hit(c) ==
    /\ At(c, "getL2")
    /\ l2 # Null
    /\ Goto(c, "backfill", l2.value)
    /\ UNCHANGED <<l1, l2, last>>

(* Get: L1 takes what was found in L2, or does not; it is returned anyway. *)
Backfill(c) ==
    /\ At(c, "backfill")
    /\ StoreL1(c, client[c].value) \/ L1Fails(c)
    /\ Return(c)
    /\ UNCHANGED <<l2, last>>

(* Set: L2 first. *)
SetL2(c) ==
    /\ At(c, "idle")
    /\ last < MaxWrites
    /\ last' = last + 1
    /\ l2' = Fresh(last + 1, L2TTL)
    /\ Goto(c, "setL1", last + 1)
    /\ UNCHANGED l1

(* Set: L2 failed, or wrote the value and its answer was lost; either way L1 is
   left alone and the error returned. *)
SetL2Fails(c) ==
    /\ At(c, "idle")
    /\ FaultyL2
    /\ last < MaxWrites
    /\ last' = last + 1
    /\ l2' \in {l2, Fresh(last + 1, L2TTL)}
    /\ UNCHANGED <<l1, client>>

(* Set: then L1, whose failure is ignored. *)
SetL1(c) ==
    /\ At(c, "setL1")
    /\ StoreL1(c, client[c].value) \/ L1Fails(c)
    /\ Return(c)
    /\ UNCHANGED <<l2, last>>

(* Delete: L2 first; if it fails, the entry may be gone or not. *)
DeleteL2(c) ==
    /\ At(c, "idle")
    /\ \/ l2' = Null /\ Goto(c, "deleteL1", 0)
       \/ FaultyL2 /\ l2' \in {l2, Null} /\ Goto(c, "deleteL1Failed", 0)
    /\ UNCHANGED <<l1, last>>

BugSkipsL1(c) ==
    /\ client[c].at \in {"deleteL1", "deleteL1Failed"}
    /\ Return(c)
    /\ UNCHANGED <<l1, l2, last>>

(* Delete: then L1, whether L2 failed or not.  An error of L2 is returned, one
   of L1 is not. *)
DeleteL1(c) ==
    /\ client[c].at \in {"deleteL1", "deleteL1Failed"}
    /\ l1' = [l1 EXCEPT ![Home[c]] = Null] \/ L1Fails(c)
    /\ Return(c)
    /\ UNCHANGED <<l2, last>>

-----------------------------------------------------------------------------
(* The memory cache makes room for another key. *)
Evict(n) ==
    /\ l1[n] # Null
    /\ l1' = [l1 EXCEPT ![n] = Null]
    /\ UNCHANGED <<l2, client, last>>

(* Redis evicts the key or restarts. *)
Lose ==
    /\ l2 # Null
    /\ l2' = Null
    /\ UNCHANGED <<l1, client, last>>

Aged(e) ==
    IF e = Null \/ e.life = NoExpire THEN e
    ELSE IF e.life = 0 THEN Null ELSE [e EXCEPT !.life = @ - 1]

Tick ==
    /\ l1' = [n \in Node |-> Aged(l1[n])]
    /\ l2' = Aged(l2)
    /\ UNCHANGED <<client, last>>

Next ==
    \/ \E c \in Client :
          \/ GetL1Hit(c) \/ GetL1Miss(c) \/ GetL2Fails(c) \/ GetL2Miss(c)
          \/ GetL2Hit(c) \/ Backfill(c)
          \/ SetL2(c) \/ SetL2Fails(c) \/ SetL1(c)
          \/ DeleteL2(c) \/ DeleteL1(c)
    \/ \E n \in Node : Evict(n)
    \/ Lose
    \/ Tick

Spec == Init /\ [][Next]_vars

-----------------------------------------------------------------------------
Stages == {"idle", "getL2", "backfill", "setL1", "deleteL1", "deleteL1Failed"}

(* The types: no level ever holds an entry without a value, and what is on its
   way to L1 is a value that was written. *)
TypeOK ==
    /\ l1 \in [Node -> Entry \cup {Null}]
    /\ l2 \in Entry \cup {Null}
    /\ client \in [Client -> [at : Stages, value : 0..last]]
    /\ \A c \in Client : client[c].value # 0 <=> client[c].at \in {"backfill", "setL1"}
    /\ last \in 0..MaxWrites
=============================================================================
