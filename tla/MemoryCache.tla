----------------------------- MODULE MemoryCache -----------------------------
(***************************************************************************)
(* cache/memory.go: an LRU map with expiry, guarded by one mutex.  The map *)
(* is "items", the linked list is "order" (front = most recently used);    *)
(* the two hold the same elements and every operation must keep them so.   *)
(* A goroutine of the cache sweeps expired entries until Close; it holds   *)
(* the mutex for a whole sweep, during which time passes but no operation  *)
(* runs.                                                                   *)
(***************************************************************************)
EXTENDS SequencesExt

CONSTANTS
    Key,
    Value,
    Unencodable,     \* values json.Marshal refuses
    Undecodable,     \* values json.Unmarshal refuses to read back
    ConfiguredMax,   \* maxSize as passed to NewMemoryCache
    ConfiguredTTL,   \* ttl as passed to NewMemoryCache, in ticks
    DefaultMax,      \* 5000 in the code
    Minute,          \* ticks in a minute
    Null             \* nothing stored, nothing found

MaxSize == IF ConfiguredMax <= 0 THEN DefaultMax ELSE ConfiguredMax

(* NoExpire, which is -1, counts as not set here. *)
TTL == IF ConfiguredTTL <= 0 THEN Minute ELSE ConfiguredTTL

ASSUME SizeAssumption ==
    /\ ConfiguredMax \in Int
    /\ DefaultMax \in Nat /\ DefaultMax >= 1

ASSUME TimeAssumption ==
    /\ ConfiguredTTL \in Int
    /\ Minute \in Nat /\ Minute >= 1

ASSUME ValueAssumption == Unencodable \subseteq Value /\ Undecodable \subseteq Value

(* An entry is served while life >= 0 and has expired at -1: now.After is
   strict, so it is still served at the very end of its time. *)
Entry == [data : Value, life : -1..TTL]

ASSUME NullAssumption ==
    Null \notin Entry \cup Value \cup {"ok", "error", "panic"}
              \cup [value : Value, life : 0..TTL]

VARIABLES
    items,     \* the map: each key's entry, or Null
    order,     \* the list, as the sequence of the keys of its elements
    doomed,    \* entries the sweep in progress has yet to remove
    stopped,   \* Close has closed the stop channel
    reply      \* the last operation and its result

vars == <<items, order, doomed, stopped, reply>>

-----------------------------------------------------------------------------
Present(k) == items[k] # Null

Expired(k) == Present(k) /\ items[k].life < 0

Unlocked == doomed = {}

Position(k) == CHOOSE i \in DOMAIN order : order[i] = k

(* order.Remove(elem), for the element of key k. *)
Without(k) == RemoveAt(order, Position(k))

(* order.MoveToFront(elem) *)
MovedToFront(k) == <<k>> \o Without(k)

(* removeLocked: out of the list and out of the map. *)
RemoveLocked(k) ==
    /\ order' = Without(k)
    /\ items' = [items EXCEPT ![k] = Null]

(* Definitions named Bug... are the mutants of the definition that follows
   them: what a plausible mistake there would say.  Nothing uses them. *)

BugEvictsLate == SubSeq(order, 1, IF Len(order) > MaxSize THEN MaxSize - 1 ELSE Len(order))

(* The loop "for order.Len() >= maxSize { evictLRU() }". *)
Kept == SubSeq(order, 1, IF Len(order) >= MaxSize THEN MaxSize - 1 ELSE Len(order))

Returned(op, k, res) == reply' = [op |-> op, key |-> k, result |-> res]

Fresh(v) == [data |-> v, life |-> TTL]

Init ==
    /\ items = [k \in Key |-> Null]
    /\ order = <<>>
    /\ doomed = {}
    /\ stopped = FALSE
    /\ reply = [op |-> "new", key |-> Null, result |-> "ok"]

(* Get: nothing under that key. *)
GetAbsent(k) ==
    /\ Unlocked
    /\ ~Present(k)
    /\ Returned("get", k, Null)
    /\ UNCHANGED <<items, order, doomed, stopped>>

(* Get: the entry has expired and is removed on the way. *)
GetExpired(k) ==
    /\ Unlocked
    /\ Expired(k)
    /\ RemoveLocked(k)
    /\ Returned("get", k, Null)
    /\ UNCHANGED <<doomed, stopped>>

BugReadRenews(k) ==
    /\ Unlocked
    /\ Present(k) /\ ~Expired(k)
    /\ order' = MovedToFront(k)
    /\ items' = [items EXCEPT ![k].life = TTL]
    /\ Returned("get", k, IF items[k].data \in Undecodable THEN "error" ELSE items[k].data)
    /\ UNCHANGED <<doomed, stopped>>

BugFirstInFirstOut(k) ==
    /\ Unlocked
    /\ Present(k) /\ ~Expired(k)
    /\ Returned("get", k, IF items[k].data \in Undecodable THEN "error" ELSE items[k].data)
    /\ UNCHANGED <<items, order, doomed, stopped>>

(* Get: a hit, which renews the place in the list but not the time left. *)
GetLive(k) ==
    /\ Unlocked
    /\ Present(k) /\ ~Expired(k)
    /\ order' = MovedToFront(k)
    /\ Returned("get", k, IF items[k].data \in Undecodable THEN "error" ELSE items[k].data)
    /\ UNCHANGED <<items, doomed, stopped>>

(* Set: json.Marshal fails, before the mutex is taken. *)
SetFails(k, v) ==
    /\ v \in Unencodable
    /\ Returned("set", k, "error")
    /\ UNCHANGED <<items, order, doomed, stopped>>

(* Set of a key in the map, be its entry expired or not. *)
SetExisting(k, v) ==
    /\ Unlocked
    /\ v \notin Unencodable
    /\ Present(k)
    /\ items' = [items EXCEPT ![k] = Fresh(v)]
    /\ order' = MovedToFront(k)
    /\ Returned("set", k, "ok")
    /\ UNCHANGED <<doomed, stopped>>

(* Set of a new key: the least recently used make room, expired or not. *)
SetNew(k, v) ==
    /\ Unlocked
    /\ v \notin Unencodable
    /\ ~Present(k)
    /\ order' = <<k>> \o Kept
    /\ items' = [j \in Key |-> IF j = k THEN Fresh(v)
                               ELSE IF j \in ToSet(Kept) THEN items[j] ELSE Null]
    /\ Returned("set", k, "ok")
    /\ UNCHANGED <<doomed, stopped>>

Delete(k) ==
    /\ Unlocked
    /\ IF Present(k) THEN RemoveLocked(k) ELSE UNCHANGED <<items, order>>
    /\ Returned("delete", k, "ok")
    /\ UNCHANGED <<doomed, stopped>>

(* close(stop); closing a closed channel panics. *)
Close ==
    /\ stopped' = TRUE
    /\ Returned("close", Null, IF stopped THEN "panic" ELSE "ok")
    /\ UNCHANGED <<items, order, doomed>>

-----------------------------------------------------------------------------
BugSweepsTheLive ==
    /\ Unlocked
    /\ ~stopped
    /\ doomed' = {k \in Key : Present(k) /\ ~Expired(k)}
    /\ UNCHANGED <<items, order, stopped, reply>>

(* cleanupLoop, on a tick of its ticker: deleteExpired takes the mutex and
   looks at the clock once. *)
StartSweep ==
    /\ Unlocked
    /\ ~stopped
    /\ doomed' = {k \in Key : Expired(k)}
    /\ UNCHANGED <<items, order, stopped, reply>>

(* deleteExpired, one turn of the loop, in whatever order the map yields;
   with the last one the mutex is free again. *)
SweepOne(k) ==
    /\ k \in doomed
    /\ RemoveLocked(k)
    /\ doomed' = doomed \ {k}
    /\ UNCHANGED <<stopped, reply>>

Aged(e) == IF e = Null \/ e.life < 0 THEN e ELSE [e EXCEPT !.life = @ - 1]

Tick ==
    /\ items' = [k \in Key |-> Aged(items[k])]
    /\ UNCHANGED <<order, doomed, stopped, reply>>

Sweep == StartSweep \/ \E k \in Key : SweepOne(k)

Next ==
    \/ \E k \in Key : GetAbsent(k) \/ GetExpired(k) \/ GetLive(k) \/ Delete(k)
    \/ \E k \in Key, v \in Value : SetFails(k, v) \/ SetExisting(k, v) \/ SetNew(k, v)
    \/ Close
    \/ Sweep
    \/ Tick

Spec == Init /\ [][Next]_vars

(* The ticker of the cleanup goroutine fires and its loop over the map ends. *)
FairSpec == Spec /\ WF_vars(Sweep)

-----------------------------------------------------------------------------
Reply == [op : {"new", "get", "set", "delete", "close"},
          key : Key \cup {Null},
          result : Value \cup {Null, "ok", "error", "panic"}]

(* The types; the list holds an element once, and a sweep works on entries
   that are still there and expired. *)
TypeOK ==
    /\ items \in [Key -> Entry \cup {Null}]
    /\ order \in Seq(Key)
    /\ \A i, j \in DOMAIN order : order[i] = order[j] => i = j
    /\ doomed \subseteq {k \in Key : Expired(k)}
    /\ stopped \in BOOLEAN
    /\ reply \in Reply

(* Map and list hold the same elements, and never more than MaxSize of them. *)
Coherent ==
    /\ ToSet(order) = {k \in Key : Present(k)}
    /\ Len(order) <= MaxSize

(* What callers can find: an expired entry is as good as none. *)
Served(e) == IF e # Null /\ e.life >= 0 THEN [value |-> e.data, life |-> e.life] ELSE Null

Store == [k \in Key |-> Served(items[k])]

Contract == INSTANCE CacheContract WITH store <- Store

(* The cache keeps the contract of the Cache interface: no stale or deleted
   value is ever served, and reading a value does not prolong its life. *)
ImplementsContract == Contract!Spec

(* Until Close, an expired entry does not occupy memory for ever. *)
ExpiredAreSwept ==
    \A k \in Key : Expired(k) ~> ~Expired(k) \/ stopped
=============================================================================
