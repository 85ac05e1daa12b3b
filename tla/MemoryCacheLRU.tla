--------------------------- MODULE MemoryCacheLRU ---------------------------
(***************************************************************************)
(* MemoryCache with a record of who used what since, to say what "least    *)
(* recently used" guarantees: an entry that is set, not deleted and not    *)
(* expired is there as long as fewer than MaxSize other keys have been     *)
(* used after it.                                                          *)
(***************************************************************************)
EXTENDS MemoryCache

VARIABLES
    due,      \* keys set and since then neither deleted nor expired
    since     \* for each key the other keys used since its own last use

lruVars == <<vars, due, since>>

LRUInit == Init /\ due = {} /\ since = [k \in Key |-> {}]

Used(k) ==
    since' = [j \in Key |-> IF j = k THEN {} ELSE since[j] \cup {k}]

LRUNext ==
    \/ \E k \in Key : GetLive(k) /\ Used(k) /\ UNCHANGED due
    \/ \E k \in Key, v \in Value :
          (SetExisting(k, v) \/ SetNew(k, v)) /\ Used(k) /\ due' = due \cup {k}
    \/ \E k \in Key : Delete(k) /\ due' = due \ {k} /\ UNCHANGED since
    \/ Tick /\ due' = {k \in due : ~Expired(k)'} /\ UNCHANGED since
    \/ /\ \/ \E k \in Key : GetAbsent(k) \/ GetExpired(k)
          \/ \E k \in Key, v \in Value : SetFails(k, v)
          \/ Close \/ Sweep
       /\ UNCHANGED <<due, since>>

LRUSpec == LRUInit /\ [][LRUNext]_lruVars

LRUFairSpec == LRUSpec /\ WF_vars(Sweep)

(* The guarantee of the eviction policy, across reads, sets, deletions,
   expiry and sweeps. *)
RecentlyUsedAreKept ==
    \A k \in due : Cardinality(since[k]) < MaxSize => Present(k)
=============================================================================
