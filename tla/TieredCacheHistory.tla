------------------------- MODULE TieredCacheHistory -------------------------
(***************************************************************************)
(* TieredCache with a record of what each goroutine has been told and of   *)
(* how long ago each value left Redis, to say how stale the first level    *)
(* can be and what a goroutine may see after its own calls.                *)
(***************************************************************************)
EXTENDS TieredCache

CONSTANT MaxPause   \* bound: ticks a goroutine rests between its two calls

ASSUME PauseAssumption == MaxPause \in Nat

VARIABLES
    floor,    \* for each goroutine, the oldest value it may still be given
    pause,    \* ticks since each goroutine's call to L2
    gone      \* ticks since each value left Redis

history == <<floor, pause, gone>>

HistoryInit ==
    /\ Init
    /\ floor = [c \in Client |-> 0]
    /\ pause = [c \in Client |-> 0]
    /\ gone = [v \in Version |-> 0]

(* Goroutines that have their instance to themselves, and a sound L1. *)
Alone == {c \in Client : Home[c] \notin FaultyL1 /\ \A d \in Client \ {c} : Home[d] # Home[c]}

InL2(v) == l2 # Null /\ l2.value = v

(* Goroutine c was given, wrote or deleted with success: older is old. *)
Told(c, v) == floor' = [floor EXCEPT ![c] = IF c \in Alone THEN v ELSE 0]

HGetL1Hit(c) == GetL1Hit(c) /\ Told(c, l1[Home[c]].value) /\ UNCHANGED <<pause, gone>>

HGetL2(c) ==
    /\ GetL1Miss(c) \/ GetL2Fails(c) \/ GetL2Miss(c) \/ GetL2Hit(c)
    /\ UNCHANGED <<floor, gone>>
    /\ pause' = [pause EXCEPT ![c] = 0]

HFinish(c) ==
    /\ Backfill(c) \/ SetL1(c)
    /\ Told(c, client[c].value)
    /\ pause' = [pause EXCEPT ![c] = 0]
    /\ UNCHANGED gone

HSet(c) ==
    /\ SetL2(c) \/ SetL2Fails(c)
    /\ UNCHANGED <<floor, pause, gone>>

HDelete(c) ==
    /\ DeleteL2(c)
    /\ Told(c, IF At(c, "deleteL1")' THEN last + 1 ELSE floor[c])
    /\ UNCHANGED <<pause, gone>>

HDeleteL1(c) ==
    /\ DeleteL1(c)
    /\ pause' = [pause EXCEPT ![c] = 0]
    /\ UNCHANGED <<floor, gone>>

(* Nobody rests for ever between two calls. *)
HTick ==
    /\ \A c \in Client : client[c].at \notin {"idle", "getL2"} => pause[c] < MaxPause
    /\ Tick
    /\ pause' = [c \in Client |->
                    IF client[c].at \in {"idle", "getL2"} THEN 0 ELSE pause[c] + 1]
    /\ gone' = [v \in Version |->
                    IF v <= last /\ ~InL2(v) /\ gone[v] <= L1TTL + MaxPause
                    THEN gone[v] + 1 ELSE gone[v]]
    /\ UNCHANGED floor

HistoryNext ==
    \/ \E c \in Client :
          HGetL1Hit(c) \/ HGetL2(c) \/ HFinish(c) \/ HSet(c) \/ HDelete(c) \/ HDeleteL1(c)
    \/ (Lose \/ \E n \in Node : Evict(n)) /\ UNCHANGED history
    \/ HTick

historyVars == <<vars, history>>

HistorySpec == HistoryInit /\ [][HistoryNext]_historyVars

(* After its call to L2 each goroutine makes the one to L1, and time passes. *)
HistoryFairness ==
    /\ \A c \in Client : WF_historyVars(HFinish(c) \/ HDeleteL1(c))
    /\ WF_historyVars(HTick)

FairHistorySpec == HistorySpec /\ HistoryFairness

(* A value that has left Redis (overwritten, deleted, expired, lost) is gone
   from every L1 after the L1 TTL and the longest pause between the two calls of
   one operation, whatever read, write or deletion raced with its removal. *)
StalenessBounded ==
    \A n \in Node :
        l1[n] # Null /\ ~InL2(l1[n].value) =>
            gone[l1[n].value] + l1[n].life <= L1TTL + MaxPause

(* A goroutine that has its instance to itself never goes back in time: what it
   may be given is no older than what it was given, wrote or deleted before,
   although other instances write and delete and Redis fails. *)
SessionOrder ==
    \A c \in Alone :
        /\ At(c, "idle") /\ l1[Home[c]] # Null => l1[Home[c]].value >= floor[c]
        /\ At(c, "backfill") => client[c].value >= floor[c]

(* A value that is no longer in Redis disappears from all instances for good. *)
StaleFades ==
    \A v \in Version :
        (v <= last /\ ~InL2(v)) ~> [](\A n \in Node : l1[n] # Null => l1[n].value # v)
=============================================================================
