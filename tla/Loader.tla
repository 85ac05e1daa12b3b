------------------------------- MODULE Loader -------------------------------
(***************************************************************************)
(* cache/loader.go: a cache in front of a slow source.  Callers that miss  *)
(* share one load through a singleflight group: the first to arrive (the   *)
(* leader) looks into the cache again, loads and stores, the others wait   *)
(* for its result.  Meanwhile the source changes, entries expire and other *)
(* code sets and deletes through the Loader's own Set and Delete.          *)
(*                                                                         *)
(* One key is modelled: calls for different keys have nothing in common.   *)
(***************************************************************************)
EXTENDS Naturals

CONSTANTS
    Caller,       \* goroutines inside GetOrLoad at one time
    TTL,          \* ticks after its Set at which a value is last served
    Ending,       \* how a load can end, a subset of Endings
    FaultyCache,  \* whether the cache may fail
    MaxVersion,   \* bound: how often the source changes
    Null          \* no entry, no leader

Endings == {"value", "nothing", "error", "panic"}

ASSUME ParameterAssumption ==
    /\ TTL \in Nat
    /\ Ending \subseteq Endings
    /\ FaultyCache \in BOOLEAN
    /\ MaxVersion \in Nat

Version == 0..MaxVersion

Entry == [value : Version, life : 0..TTL]

ASSUME NullAssumption == Null \notin Entry \cup Caller

VARIABLES
    cache,      \* the entry, or Null
    source,     \* what a load finds
    caller,     \* each goroutine: where it is, what it holds, its last result
    flight,     \* singleflight: the leader of the call in progress, or Null
    cancelled   \* goroutines whose context has been cancelled

vars == <<cache, source, caller, flight, cancelled>>

-----------------------------------------------------------------------------
At(c, stage) == caller[c].at = stage

Goto(c, stage) == caller' = [caller EXCEPT ![c].at = stage]

Done(res) == [at |-> "idle", value |-> 0, result |-> res]

Return(c, res) == caller' = [caller EXCEPT ![c] = Done(res)]

Fresh(v) == [value |-> v, life |-> TTL]

(* The function given to the group is over, with this outcome. *)
Conclude(c, res) ==
    caller' = [caller EXCEPT ![c] = [at |-> "deliver", value |-> 0, result |-> res]]

(* Goroutine c leaves the group, with all that wait for it. *)
Deliver(c) ==
    LET served == {c} \cup {d \in Caller : At(d, "waiting")}
    IN  /\ caller' = [d \in Caller |->
                        IF d \in served THEN Done(caller[c].result) ELSE caller[d]]
        /\ flight' = Null
        /\ cancelled' = cancelled \ served

Init ==
    /\ cache = Null
    /\ source = 0
    /\ caller = [c \in Caller |-> Done("none")]
    /\ flight = Null
    /\ cancelled = {}

-----------------------------------------------------------------------------
Start(c) ==
    /\ At(c, "idle")
    /\ caller' = [caller EXCEPT ![c] = [at |-> "get", value |-> 0, result |-> "none"]]
    /\ UNCHANGED <<cache, source, flight, cancelled>>

(* Definitions named Bug... are the mutants of the definition that follows
   them: what a plausible mistake there would say.  Nothing uses them. *)

BugHitRenews(c) ==
    /\ At(c, "get")
    /\ cache # Null
    /\ Return(c, "value")
    /\ cache' = Fresh(cache.value)
    /\ cancelled' = cancelled \ {c}
    /\ UNCHANGED <<source, flight>>

GetHit(c) ==
    /\ At(c, "get")
    /\ cache # Null
    /\ Return(c, "value")
    /\ cancelled' = cancelled \ {c}
    /\ UNCHANGED <<cache, source, flight>>

(* The error of the cache is returned; it may be the caller's own context. *)
GetFails(c) ==
    /\ At(c, "get")
    /\ FaultyCache \/ c \in cancelled
    /\ Return(c, IF c \in cancelled THEN "cancelled" ELSE "error")
    /\ cancelled' = cancelled \ {c}
    /\ UNCHANGED <<cache, source, flight>>

GetMiss(c) ==
    /\ At(c, "get")
    /\ cache = Null
    /\ Goto(c, "do")
    /\ UNCHANGED <<cache, source, flight, cancelled>>

(* group.Do while a call for the key is in progress. *)
Join(c) ==
    /\ At(c, "do")
    /\ flight # Null
    /\ Goto(c, "waiting")
    /\ UNCHANGED <<cache, source, flight, cancelled>>

BugNoSecondLook(c) ==
    /\ At(c, "do")
    /\ flight = Null
    /\ flight' = c
    /\ Goto(c, "load")
    /\ UNCHANGED <<cache, source, cancelled>>

(* group.Do when there is none: c becomes the leader. *)
Lead(c) ==
    /\ At(c, "do")
    /\ flight = Null
    /\ flight' = c
    /\ Goto(c, "recheck")
    /\ UNCHANGED <<cache, source, cancelled>>

(* The double check finds that another goroutine has populated the cache. *)
RecheckHit(c) ==
    /\ At(c, "recheck")
    /\ cache # Null
    /\ Conclude(c, "value")
    /\ UNCHANGED <<cache, source, flight, cancelled>>

RecheckMiss(c) ==
    /\ At(c, "recheck")
    /\ cache = Null
    /\ Goto(c, "load")
    /\ UNCHANGED <<cache, source, flight, cancelled>>

(* The double check fails, which counts as a miss. *)
RecheckFails(c) ==
    /\ At(c, "recheck")
    /\ FaultyCache
    /\ Goto(c, "load")
    /\ UNCHANGED <<cache, source, flight, cancelled>>

(* The load finds what the source holds at this time; what it returns is to be
   stored. *)
LoadValue(c) ==
    /\ At(c, "load")
    /\ "value" \in Ending
    /\ caller' = [caller EXCEPT ![c].at = "store", ![c].value = source]
    /\ UNCHANGED <<cache, source, flight, cancelled>>

BugUsesCallersContext(c) ==
    /\ At(c, "load")
    /\ \/ \E res \in Ending \ {"value"} : Conclude(c, res)
       \/ c \in cancelled /\ Conclude(c, "cancelled")
    /\ UNCHANGED <<cache, source, flight, cancelled>>

(* The load finds nothing, fails or panics: nothing is stored.  It cannot be
   cancelled, since its context is detached from the leader's. *)
LoadOther(c) ==
    /\ At(c, "load")
    /\ \E res \in Ending \ {"value"} : Conclude(c, res)
    /\ UNCHANGED <<cache, source, flight, cancelled>>

(* The value is stored, or not; the error of the cache is ignored. *)
Store(c) ==
    /\ At(c, "store")
    /\ cache' = Fresh(caller[c].value) \/ (FaultyCache /\ UNCHANGED cache)
    /\ Conclude(c, "value")
    /\ UNCHANGED <<source, flight, cancelled>>

BugKeepsTheFlight(c) ==
    /\ At(c, "deliver")
    /\ IF caller[c].result = "panic"
       THEN Return(c, "panic") /\ cancelled' = cancelled \ {c} /\ UNCHANGED flight
       ELSE Deliver(c)
    /\ UNCHANGED <<cache, source>>

BugForgetsTheWaiting(c) ==
    /\ At(c, "deliver")
    /\ Return(c, caller[c].result)
    /\ flight' = Null
    /\ cancelled' = cancelled \ {c}
    /\ UNCHANGED <<cache, source>>

(* singleflight: the call is taken out of the group, and its result goes to the
   leader and to everybody who waits; a panic is raised again in all of them. *)
EndFlight(c) ==
    /\ At(c, "deliver")
    /\ Deliver(c)
    /\ UNCHANGED <<cache, source>>

-----------------------------------------------------------------------------
(* A client goes away; no code looks while the caller waits or loads. *)
Cancel(c) ==
    /\ ~At(c, "idle")
    /\ c \notin cancelled
    /\ cancelled' = cancelled \cup {c}
    /\ UNCHANGED <<cache, source, caller, flight>>

(* Loader.Set and Loader.Delete, by code that changed the source or knows it. *)
Set ==
    /\ cache' = Fresh(source)
    /\ UNCHANGED <<source, caller, flight, cancelled>>

Delete ==
    /\ cache # Null
    /\ cache' = Null
    /\ UNCHANGED <<source, caller, flight, cancelled>>

ChangeSource ==
    /\ source < MaxVersion
    /\ source' = source + 1
    /\ UNCHANGED <<cache, caller, flight, cancelled>>

Tick ==
    /\ cache # Null
    /\ cache' = IF cache.life = 0 THEN Null ELSE [cache EXCEPT !.life = @ - 1]
    /\ UNCHANGED <<source, caller, flight, cancelled>>

Step(c) ==
    \/ GetHit(c) \/ GetFails(c) \/ GetMiss(c) \/ Join(c) \/ Lead(c)
    \/ RecheckHit(c) \/ RecheckMiss(c) \/ RecheckFails(c)
    \/ LoadValue(c) \/ LoadOther(c) \/ Store(c) \/ EndFlight(c)

Next ==
    \/ \E c \in Caller : Start(c) \/ Step(c) \/ Cancel(c)
    \/ Set \/ Delete \/ ChangeSource \/ Tick

Spec == Init /\ [][Next]_vars

(* Calls of the cache and loads end, and time passes. *)
Fairness == WF_vars(Tick) /\ \A c \in Caller : WF_vars(Step(c))

FairSpec == Spec /\ Fairness

-----------------------------------------------------------------------------
InCharge == {"recheck", "load", "store", "deliver"}

Stages == {"idle", "get", "do", "waiting"} \cup InCharge

(* The types; the goroutine in charge of the load is the one the group knows. *)
TypeOK ==
    /\ cache \in Entry \cup {Null}
    /\ source \in Version
    /\ caller \in [Caller -> [at : Stages, value : Version,
                              result : Endings \cup {"none", "cancelled"}]]
    /\ \A c \in Caller : caller[c].at \in InCharge <=> c = flight
    /\ \A c \in Caller : At(c, "deliver") => caller[c].result \in Endings
    /\ cancelled \subseteq {c \in Caller : ~At(c, "idle")}

(* Nobody waits for nothing: whoever waits, waits for one goroutine that is still
   looking again, loading, storing or delivering, however earlier loads ended.  (It waits as
   long as that takes: neither the wait nor the load has a timeout.) *)
WaitsForALoad ==
    \A c \in Caller : At(c, "waiting") =>
        /\ flight # Null
        /\ caller[flight].at \in InCharge

(* A goroutine is told "context cancelled" only if its own context was, not
   because it shared the load of one that went away ("cancellation of the first
   caller doesn't fail all waiting goroutines"). *)
NoForeignCancellation ==
    [][ \A c \in Caller :
          ~At(c, "idle") /\ At(c, "idle")' /\ caller'[c].result = "cancelled" =>
              c \in cancelled ]_vars

(* Every call returns, however the load it waits for ends and whoever shares it. *)
CallersReturn == \A c \in Caller : ~At(c, "idle") ~> At(c, "idle")

(* When the source has changed for the last time, the cache comes to agree with
   it for good, although a load under way may store what it read before and no
   read of the cache looks at the source. *)
CatchesUp ==
    \A v \in Version :
        <>[](source = v) => <>[](cache # Null => cache.value = v)
=============================================================================
