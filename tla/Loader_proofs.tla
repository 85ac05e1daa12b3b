---------------------------- MODULE Loader_proofs ----------------------------
(***************************************************************************)
(* The Loader for any number of callers, any TTL and any way a load can    *)
(* end.  TypeOK is inductive as it stands: that the goroutine in charge of *)
(* the load is the one the singleflight group knows is what delivers each  *)
(* result to whom it belongs.                                              *)
(***************************************************************************)
EXTENDS LoaderSharing, Integers, TLAPS

Result == Endings \cup {"none", "cancelled"}

CallerState == [at : Stages, value : Version, result : Result]

-----------------------------------------------------------------------------
LEMMA Parts ==
    /\ 0 \in Version
    /\ \A v \in Version : Fresh(v) \in Entry
    /\ \A e \in Entry : e # Null /\ e.value \in Version
    /\ \A res \in Result : Done(res) \in CallerState
    /\ Null \notin Caller
<1>1. 0 \in Version
  BY ParameterAssumption DEF Version
<1>2. \A v \in Version : Fresh(v) \in Entry
  BY ParameterAssumption DEF Fresh, Entry
<1>3. \A e \in Entry : e # Null /\ e.value \in Version
  BY NullAssumption DEF Entry
<1>4. \A res \in Result : Done(res) \in CallerState
  BY <1>1 DEF Done, CallerState, Stages
<1> QED
  BY <1>1, <1>2, <1>3, <1>4, NullAssumption

LEMMA InitType == Init => TypeOK
<1> SUFFICES ASSUME Init PROVE TypeOK
  OBVIOUS
<1>1. "none" \in Result
  BY DEF Result
<1>2. caller \in [Caller -> CallerState]
  BY <1>1, Parts DEF Init
<1>3. \A c \in Caller : caller[c].at = "idle"
  BY DEF Init, Done
<1> QED
  BY <1>2, <1>3, Parts DEF Init, TypeOK, CallerState, Result, InCharge, At

(* One goroutine moves on; who leads does not change. *)
LEMMA Moves ==
    ASSUME TypeOK, NEW c \in Caller, NEW q \in CallerState,
           caller' = [caller EXCEPT ![c] = q],
           flight' = flight, cache' \in Entry \cup {Null}, source' = source,
           q.at \in InCharge <=> caller[c].at \in InCharge,
           q.at = "deliver" => q.result \in Endings,
           cancelled' \subseteq cancelled,
           q.at = "idle" => c \notin cancelled'
    PROVE  TypeOK'
<1>1. caller' \in [Caller -> CallerState]
  BY DEF TypeOK, CallerState, Result
<1>2. \A d \in Caller : caller'[d] = IF d = c THEN q ELSE caller[d]
  BY DEF TypeOK
<1>3. \A d \in Caller : caller'[d].at \in InCharge <=> d = flight'
  BY <1>2 DEF TypeOK, At
<1>4. cancelled' \subseteq {d \in Caller : ~At(d, "idle")'}
  BY <1>2 DEF TypeOK, At
<1>5. \A d \in Caller : At(d, "deliver")' => caller'[d].result \in Endings
  BY <1>2 DEF TypeOK, At
<1> QED
  BY <1>1, <1>3, <1>4, <1>5 DEF TypeOK, CallerState, Result

(* The leader's function ends, whatever it stored. *)
LEMMA Concluded ==
    ASSUME TypeOK, NEW c \in Caller, NEW res \in Endings, caller[c].at \in InCharge,
           Conclude(c, res), flight' = flight, cancelled' = cancelled,
           cache' \in Entry \cup {Null}, source' = source
    PROVE  TypeOK'
<1> DEFINE q == [at |-> "deliver", value |-> 0, result |-> res]
<1>1. q \in CallerState /\ q.at = "deliver" /\ q.result = res
  BY Parts DEF CallerState, Stages, InCharge, Result
<1>2. caller' = [caller EXCEPT ![c] = q]
  BY DEF Conclude
<1> HIDE DEF q
<1> QED
  BY <1>1, <1>2, Moves DEF InCharge

(* The leader's call is over, for itself and for all who wait. *)
LEMMA Delivered ==
    ASSUME TypeOK, NEW c \in Caller, EndFlight(c)
    PROVE  TypeOK'
<1> DEFINE res == caller[c].result
<1>1. c = flight /\ At(c, "deliver") /\ res \in Result
  BY DEF EndFlight, TypeOK, At, InCharge, Result
<1>2. \A d \in Caller :
         caller'[d] = IF d = flight \/ At(d, "waiting") THEN Done(res) ELSE caller[d]
  BY <1>1 DEF EndFlight, Deliver
<1>3. caller' \in [Caller -> CallerState]
  BY <1>1, Parts DEF EndFlight, Deliver, TypeOK, CallerState, Result
<1>4. \A d \in Caller : caller'[d].at \notin InCharge
  BY <1>2 DEF TypeOK, Done, InCharge
<1>5. cancelled' \subseteq {d \in Caller : ~At(d, "idle")'}
  BY <1>1, <1>2 DEF EndFlight, Deliver, TypeOK, At
<1>6. \A d \in Caller : ~At(d, "deliver")'
  BY <1>4 DEF At, InCharge
<1> QED
  BY <1>3, <1>4, <1>5, <1>6, Parts DEF EndFlight, Deliver, TypeOK, CallerState, Result

LEMMA StepType == ASSUME TypeOK, NEW c \in Caller, Step(c) PROVE TypeOK'
<1>0. caller[c] \in CallerState
  BY DEF TypeOK, CallerState, Result
<1>1. CASE GetHit(c)
  <2>1. Done("value") \in CallerState /\ Done("value").at = "idle"
    BY Parts DEF Result, Endings, Done
  <2> QED
    BY <1>1, <2>1, Moves DEF GetHit, Return, At, InCharge, TypeOK
<1>2. CASE GetFails(c)
  <2>1. PICK res \in {"cancelled", "error"} : Return(c, res)
    BY <1>2 DEF GetFails
  <2>2. Done(res) \in CallerState /\ Done(res).at = "idle"
    BY Parts DEF Result, Endings, Done
  <2> QED
    BY <1>2, <2>1, <2>2, Moves DEF GetFails, Return, At, InCharge, TypeOK
<1>3. CASE GetMiss(c) \/ Join(c)
  <2>1. PICK stage \in {"do", "waiting"} : Goto(c, stage)
    BY <1>3 DEF GetMiss, Join
  <2>2. [caller[c] EXCEPT !.at = stage] \in CallerState
    BY <1>0 DEF CallerState, Stages, InCharge
  <2>3. caller' = [caller EXCEPT ![c] = [caller[c] EXCEPT !.at = stage]]
    BY <2>1 DEF Goto
  <2>4. [caller[c] EXCEPT !.at = stage].at = stage
    BY <1>0 DEF CallerState
  <2> QED
    BY <1>3, <2>2, <2>3, <2>4, Moves DEF GetMiss, Join, At, InCharge, TypeOK
<1>4. CASE Lead(c)
  <2>1. \A d \in Caller : caller'[d] = IF d = c THEN [caller[c] EXCEPT !.at = "recheck"] ELSE caller[d]
    BY <1>4 DEF Lead, Goto, TypeOK
  <2>2. caller' \in [Caller -> CallerState]
    BY <1>0, <1>4 DEF Lead, Goto, TypeOK, CallerState, Stages, InCharge, Result
  <2>3. [caller[c] EXCEPT !.at = "recheck"].at = "recheck"
    BY <1>0 DEF CallerState
  <2>4. \A d \in Caller : caller'[d].at \in InCharge <=> d = flight'
    BY <1>4, <2>1, <2>3, Parts DEF Lead, TypeOK, InCharge
  <2>5. cancelled' \subseteq {d \in Caller : ~At(d, "idle")'}
    BY <1>4, <2>1, <2>3 DEF Lead, TypeOK, At
  <2>6. \A d \in Caller : At(d, "deliver")' => caller'[d].result \in Endings
    BY <2>1, <2>3 DEF TypeOK, At
  <2> QED
    BY <1>4, <2>2, <2>4, <2>5, <2>6 DEF Lead, TypeOK, CallerState, Result
<1>5. CASE RecheckHit(c)
  <2>1. "value" \in Endings /\ caller[c].at \in InCharge
    BY <1>5 DEF Endings, RecheckHit, At, InCharge
  <2> QED
    BY <1>5, <2>1, Concluded DEF RecheckHit, TypeOK
<1>6. CASE RecheckMiss(c) \/ RecheckFails(c)
  <2>1. [caller[c] EXCEPT !.at = "load"] \in CallerState /\ [caller[c] EXCEPT !.at = "load"].at = "load"
    BY <1>0 DEF CallerState, Stages, InCharge
  <2>2. caller' = [caller EXCEPT ![c] = [caller[c] EXCEPT !.at = "load"]]
    BY <1>6 DEF RecheckMiss, RecheckFails, Goto
  <2> QED
    BY <1>6, <2>1, <2>2, Moves DEF RecheckMiss, RecheckFails, At, InCharge, TypeOK
<1>7. CASE LoadValue(c)
  <2> DEFINE q == [caller[c] EXCEPT !.at = "store", !.value = source]
  <2>1. q \in CallerState /\ q.at = "store"
    BY <1>0 DEF CallerState, Stages, InCharge, TypeOK
  <2>2. caller' = [caller EXCEPT ![c] = q]
    BY <1>7 DEF LoadValue
  <2> HIDE DEF q
  <2> QED
    BY <1>7, <2>1, <2>2, Moves DEF LoadValue, At, InCharge, TypeOK
<1>8. CASE LoadOther(c)
  <2>1. PICK res \in Ending \ {"value"} : Conclude(c, res)
    BY <1>8 DEF LoadOther
  <2>2. res \in Endings /\ caller[c].at \in InCharge
    BY <1>8, ParameterAssumption DEF LoadOther, At, InCharge
  <2> QED
    BY <1>8, <2>1, <2>2, Concluded DEF LoadOther, TypeOK
<1>9. CASE Store(c)
  <2>1. "value" \in Endings /\ caller[c].at \in InCharge
    BY <1>9 DEF Endings, Store, At, InCharge
  <2>2. cache' \in Entry \cup {Null}
    BY <1>0, <1>9, Parts DEF Store, TypeOK, CallerState
  <2> QED
    BY <1>9, <2>1, <2>2, Concluded DEF Store
<1> QED
  BY <1>1, <1>2, <1>3, <1>4, <1>5, <1>6, <1>7, <1>8, <1>9, Delivered DEF Step

LEMMA NextType == TypeOK /\ [Next]_vars => TypeOK'
<1> SUFFICES ASSUME TypeOK, [Next]_vars PROVE TypeOK'
  OBVIOUS
<1>1. ASSUME NEW c \in Caller, Start(c) PROVE TypeOK'
  <2> DEFINE q == [at |-> "get", value |-> 0, result |-> "none"]
  <2>1. q \in CallerState /\ q.at = "get"
    BY Parts DEF CallerState, Stages, InCharge, Result
  <2>2. caller' = [caller EXCEPT ![c] = q]
    BY <1>1 DEF Start
  <2> HIDE DEF q
  <2> QED
    BY <1>1, <2>1, <2>2, Moves DEF Start, At, InCharge, TypeOK
<1>2. ASSUME NEW c \in Caller, Cancel(c) PROVE TypeOK'
  BY <1>2 DEF Cancel, TypeOK, At
<1>3. CASE Set
  BY <1>3, Parts DEF Set, TypeOK, At
<1>4. CASE Delete
  BY <1>4 DEF Delete, TypeOK, At
<1>5. CASE ChangeSource
  BY <1>5, ParameterAssumption DEF ChangeSource, TypeOK, Version, At
<1>6. CASE Tick
  <2>1. cache \in Entry
    BY <1>6 DEF Tick, TypeOK
  <2>2. cache.life # 0 => cache.life - 1 \in 0..TTL
    BY <2>1, ParameterAssumption DEF Entry
  <2>3. cache' \in Entry \cup {Null}
    BY <1>6, <2>1, <2>2 DEF Tick, Entry
  <2> QED
    BY <1>6, <2>3 DEF Tick, TypeOK, At
<1>7. CASE UNCHANGED vars
  BY <1>7 DEF vars, TypeOK, At
<1> QED
  BY <1>1, <1>2, <1>3, <1>4, <1>5, <1>6, <1>7, StepType DEF Next

(* Every variable keeps its type, and the goroutine that looks again, loads or
   stores is the leader the group knows, for any number of callers. *)
THEOREM TypeCorrect == Spec => []TypeOK
BY InitType, NextType, PTL DEF Spec

-----------------------------------------------------------------------------
Accompanied ==
    /\ flight \in Caller \cup {Null}
    /\ \A c \in Caller : At(c, "waiting") => flight # Null

(* The group forgets a call only together with all who wait for it. *)
LEMMA AccompaniedStep == TypeOK /\ Accompanied /\ [Next]_vars => Accompanied'
<1> SUFFICES ASSUME TypeOK, Accompanied, [Next]_vars PROVE Accompanied'
  OBVIOUS
<1>0. flight' \in Caller \cup {Null}
  <2>1. \A c \in Caller : Step(c) => flight' = flight \/ flight' \in Caller \cup {Null}
    BY DEF Step, GetHit, GetFails, GetMiss, Join, Lead, RecheckHit, RecheckMiss, RecheckFails,
       LoadValue, LoadOther, Store, EndFlight, Deliver
  <2> QED
    BY <2>1 DEF Accompanied, Next, vars, Start, Cancel, Set, Delete, ChangeSource, Tick
<1> SUFFICES ASSUME NEW c \in Caller, At(c, "waiting")' PROVE flight' # Null
  BY <1>0 DEF Accompanied
<1>1. caller \in [Caller -> CallerState]
  BY DEF TypeOK, CallerState, Result
<1>3. ASSUME NEW d \in Caller, Step(d) PROVE flight' # Null
  <2>1. ~EndFlight(d)
    BY DEF EndFlight, Deliver, At, Done
  <2>5. CASE RecheckHit(d) \/ LoadOther(d) \/ Store(d)
    <3>1. (\E res : Conclude(d, res)) /\ flight' = flight
      BY <2>5 DEF RecheckHit, LoadOther, Store
    <3>2. At(c, "waiting")
      BY <1>1, <3>1 DEF Conclude, At
    <3> QED
      BY <3>1, <3>2 DEF Accompanied
  <2>2. CASE Join(d) \/ Lead(d)
    BY <2>2, Parts DEF Join, Lead
  <2>3. CASE GetHit(d) \/ GetFails(d) \/ GetMiss(d) \/ RecheckMiss(d) \/ RecheckFails(d)
    <3>1. flight' = flight
      BY <2>3 DEF GetHit, GetFails, GetMiss, RecheckMiss, RecheckFails
    <3>2. At(c, "waiting")
      BY <1>1, <2>3 DEF GetHit, GetFails, GetMiss, RecheckMiss, RecheckFails, Goto, Return,
         Done, At, CallerState
    <3> QED
      BY <3>1, <3>2 DEF Accompanied
  <2>4. CASE LoadValue(d)
    <3>1. At(c, "waiting")
      BY <1>1, <2>4 DEF LoadValue, At, CallerState
    <3> QED
      BY <2>4, <3>1 DEF LoadValue, Accompanied
  <2> QED
    BY <1>3, <2>1, <2>2, <2>3, <2>4, <2>5 DEF Step
<1>4. ASSUME NEW d \in Caller, Start(d) PROVE flight' # Null
  <2>1. At(c, "waiting")
    BY <1>1, <1>4 DEF Start, At
  <2> QED
    BY <1>4, <2>1 DEF Start, Accompanied
<1>5. ASSUME caller' = caller, flight' = flight PROVE flight' # Null
  BY <1>5 DEF Accompanied, At
<1> QED
  BY <1>3, <1>4, <1>5 DEF Next, vars, Cancel, Set, Delete, ChangeSource, Tick

(* However many share it and however it ends, a load is never forgotten by the
   group while a goroutine waits for it. *)
THEOREM NobodyWaitsForNothing == Spec => []WaitsForALoad
<1>1. Init => Accompanied
  BY DEF Init, Accompanied, At, Done
<1>2. TypeOK /\ Accompanied => WaitsForALoad
  BY Parts DEF TypeOK, Accompanied, WaitsForALoad
<1> QED
  BY <1>1, <1>2, AccompaniedStep, TypeCorrect, PTL DEF Spec

-----------------------------------------------------------------------------
(* The steps a goroutine at this stage has before it at most. *)
Remaining(stage) ==
    CASE stage = "get"     -> 6
      [] stage = "do"      -> 5
      [] stage = "recheck" -> 4
      [] stage = "load"    -> 3
      [] stage = "store"   -> 2
      [] stage = "deliver" -> 1
      [] OTHER             -> 0

(* The goroutine on whose steps the call of c depends. *)
Worker(c) == IF At(c, "waiting") THEN flight ELSE c

StepsLeft(c) == Remaining(caller[Worker(c)].at)

(* A call that has not returned needs at most six steps of its worker; each of
   them brings the end nearer, and nobody else's step puts it off. *)
Shortens ==
    \A c \in Caller : ~At(c, "idle") =>
        /\ Worker(c) \in Caller /\ StepsLeft(c) \in 1..6
        /\ \/ At(c, "idle")'
           \/ StepsLeft(c)' = StepsLeft(c)
           \/ StepsLeft(c)' < StepsLeft(c) /\ Step(Worker(c))
        /\ Step(Worker(c)) => At(c, "idle")' \/ StepsLeft(c)' < StepsLeft(c)

Busy == {"get", "do"} \cup InCharge

LEMMA WorkerWorks ==
    ASSUME TypeOK, Accompanied, NEW c \in Caller, ~At(c, "idle")
    PROVE  /\ Worker(c) \in Caller /\ caller[Worker(c)].at \in Busy
           /\ StepsLeft(c) \in 1..6
<1>1. Worker(c) \in Caller /\ caller[Worker(c)].at \in Busy
  BY Parts DEF TypeOK, Accompanied, Worker, At, Stages, InCharge, Busy
<1> QED
  BY <1>1 DEF StepsLeft, Remaining, Busy, InCharge

(* A step of the worker is a step forward for the call. *)
LEMMA WorkerStep ==
    ASSUME TypeOK, Accompanied, NEW c \in Caller, ~At(c, "idle"), Step(Worker(c))
    PROVE  At(c, "idle")' \/ StepsLeft(c)' < StepsLeft(c)
<1> DEFINE w == Worker(c)
<1>1. /\ w \in Caller /\ caller \in [Caller -> CallerState]
      /\ w = IF At(c, "waiting") THEN flight ELSE c
      /\ caller[w].at \in InCharge <=> w = flight
      /\ flight # Null => flight \in Caller /\ ~At(flight, "waiting")
      /\ Null \notin Caller
  BY WorkerWorks, Parts DEF Worker, TypeOK, CallerState, Result, Accompanied, At, Stages, InCharge
<1>a. At(c, "waiting") => caller[w].at \in InCharge
  BY <1>1
<1>b. /\ Remaining("get") = 6 /\ Remaining("do") = 5 /\ Remaining("recheck") = 4
      /\ Remaining("load") = 3 /\ Remaining("store") = 2 /\ Remaining("deliver") = 1
  BY DEF Remaining
<1> HIDE DEF w
<1>2. CASE EndFlight(w)
  BY <1>1, <1>2 DEF EndFlight, Deliver, Done, At
<1>3. ASSUME NEW res, Return(w, res), caller[w].at = "get" PROVE At(c, "idle")'
  BY <1>1, <1>3 DEF Return, Done, At, InCharge
<1>4. ASSUME NEW stage, caller'[w].at = stage, flight' = flight,
             caller[w].at \in InCharge, stage \in InCharge,
             \A d \in Caller \ {w} : caller'[d] = caller[d]
      PROVE  StepsLeft(c)' = Remaining(stage) /\ StepsLeft(c) = Remaining(caller[w].at)
  BY <1>1, <1>4 DEF StepsLeft, Worker, At, InCharge, w
<1>5. CASE GetHit(w) \/ GetFails(w)
  <2>1. \E res : Return(w, res)
    BY <1>5 DEF GetHit, GetFails
  <2> QED
    BY <1>3, <1>5, <2>1 DEF GetHit, GetFails, At
<1>6. CASE GetMiss(w)
  <2>1. w = c /\ caller[c].at = "get" /\ caller'[c].at = "do"
    BY <1>1, <1>6 DEF GetMiss, Goto, At, CallerState, InCharge
  <2> QED
    BY <1>b, <2>1 DEF StepsLeft, Worker, At
<1>7. CASE Join(w)
  <2>1. /\ w = c /\ caller[c].at = "do" /\ caller'[c].at = "waiting"
        /\ flight' = flight /\ flight \in Caller /\ caller'[flight] = caller[flight]
    BY <1>1, <1>7 DEF Join, Goto, At, CallerState, TypeOK, Accompanied, InCharge
  <2>2. caller[flight].at \in InCharge
    BY <2>1 DEF TypeOK
  <2> QED
    BY <1>b, <2>1, <2>2 DEF StepsLeft, Worker, At, InCharge
<1>8. CASE Lead(w)
  <2>1. w = c /\ caller[c].at = "do" /\ caller'[c].at = "recheck"
    BY <1>1, <1>8 DEF Lead, Goto, At, CallerState
  <2> QED
    BY <1>b, <2>1 DEF StepsLeft, Worker, At
<1>9. CASE RecheckHit(w) \/ LoadOther(w) \/ Store(w)
  <2>1. (\E res : Conclude(w, res)) /\ flight' = flight
    BY <1>9 DEF RecheckHit, LoadOther, Store
  <2>2. /\ caller[w].at \in {"recheck", "load", "store"} /\ caller'[w].at = "deliver"
        /\ \A d \in Caller \ {w} : caller'[d] = caller[d]
    BY <1>1, <1>9, <2>1 DEF RecheckHit, LoadOther, Store, Conclude, At
  <2> QED
    BY <1>4, <1>b, <2>1, <2>2 DEF InCharge
<1>10. CASE RecheckMiss(w) \/ RecheckFails(w)
  <2>1. /\ caller[w].at = "recheck" /\ caller'[w].at = "load" /\ flight' = flight
        /\ \A d \in Caller \ {w} : caller'[d] = caller[d]
    BY <1>1, <1>10 DEF RecheckMiss, RecheckFails, Goto, At, CallerState
  <2> QED
    BY <1>4, <1>b, <2>1 DEF InCharge
<1>11. CASE LoadValue(w)
  <2>1. /\ caller[w].at = "load" /\ caller'[w].at = "store" /\ flight' = flight
        /\ \A d \in Caller \ {w} : caller'[d] = caller[d]
    BY <1>1, <1>11 DEF LoadValue, At, CallerState
  <2> QED
    BY <1>4, <1>b, <2>1 DEF InCharge
<1> QED
  BY <1>2, <1>5, <1>6, <1>7, <1>8, <1>9, <1>10, <1>11 DEF Step, w

(* What others do leaves a call where it is. *)
LEMMA OthersStep ==
    ASSUME TypeOK, Accompanied, [Next]_vars,
           NEW c \in Caller, ~At(c, "idle"), ~Step(Worker(c))
    PROVE  At(c, "idle")' \/ StepsLeft(c)' = StepsLeft(c)
<1>1. /\ Worker(c) \in Caller /\ caller[Worker(c)].at \in Busy
      /\ caller \in [Caller -> CallerState] /\ Null \notin Caller
      /\ \A d \in Caller : caller[d].at \in InCharge <=> d = flight
  BY WorkerWorks, Parts DEF TypeOK, CallerState, Result
<1>2. ASSUME caller'[c] = caller[c], caller'[Worker(c)] = caller[Worker(c)],
             At(c, "waiting") => flight' = flight
      PROVE  StepsLeft(c)' = StepsLeft(c)
  BY <1>2 DEF StepsLeft, Worker, At
<1>3. ASSUME NEW d \in Caller, d # Worker(c), d # c \/ At(c, "idle"),
             \A e \in Caller \ {d} : caller'[e] = caller[e],
             flight' = flight \/ flight = Null
      PROVE  StepsLeft(c)' = StepsLeft(c)
  <2>1. At(c, "waiting") => flight' = flight
    BY <1>1, <1>3 DEF Worker
  <2> QED
    BY <1>1, <1>2, <1>3, <2>1
<1>4. ASSUME NEW d \in Caller, Step(d) PROVE StepsLeft(c)' = StepsLeft(c)
  <2>1. d # Worker(c) /\ ~At(d, "waiting")
    BY <1>4 DEF Step, GetHit, GetFails, GetMiss, Join, Lead, RecheckHit, RecheckMiss,
       RecheckFails, LoadValue, LoadOther, Store, EndFlight, At
  <2>2. d # c
    BY <2>1 DEF Worker
  <2>3. CASE EndFlight(d)
    <3>1. d = flight
      BY <1>1, <2>3 DEF EndFlight, At, InCharge
    <3>2. ~At(c, "waiting") /\ Worker(c) = c
      BY <2>1, <3>1 DEF Worker
    <3>3. caller'[c] = caller[c]
      BY <2>2, <2>3, <3>2 DEF EndFlight, Deliver
    <3> QED
      BY <1>2, <3>2, <3>3
  <2>4. CASE \/ GetHit(d) \/ GetFails(d) \/ GetMiss(d) \/ Join(d) \/ Lead(d)
             \/ RecheckHit(d) \/ RecheckMiss(d) \/ RecheckFails(d)
             \/ LoadValue(d) \/ LoadOther(d) \/ Store(d)
    <3>1. \A e \in Caller \ {d} : caller'[e] = caller[e]
      BY <1>1, <2>4 DEF GetHit, GetFails, GetMiss, Join, Lead, RecheckHit, RecheckMiss,
         RecheckFails, LoadValue, LoadOther, Store, Conclude, Goto, Return
    <3>2. flight' = flight \/ flight = Null
      BY <2>4 DEF GetHit, GetFails, GetMiss, Join, Lead, RecheckHit, RecheckMiss, RecheckFails,
         LoadValue, LoadOther, Store
    <3> QED
      BY <1>3, <2>1, <2>2, <3>1, <3>2
  <2> QED
    BY <1>4, <2>3, <2>4 DEF Step
<1>5. ASSUME NEW d \in Caller, Start(d) PROVE StepsLeft(c)' = StepsLeft(c)
  <2>1. d # Worker(c) /\ d # c
    BY <1>1, <1>5 DEF Start, At, Busy, InCharge
  <2>2. \A e \in Caller \ {d} : caller'[e] = caller[e]
    BY <1>1, <1>5 DEF Start
  <2> QED
    BY <1>3, <1>5, <2>1, <2>2 DEF Start
<1>6. ASSUME UNCHANGED <<caller, flight>> PROVE StepsLeft(c)' = StepsLeft(c)
  BY <1>2, <1>6
<1> QED
  BY <1>4, <1>5, <1>6 DEF Next, vars, Cancel, Set, Delete, ChangeSource, Tick

(* The bound behind CallersReturn: a call is over after at most six steps, its own
   or those of the one load it waits for, however many callers share that load,
   however it ends and whatever is set, deleted, cancelled or expires meanwhile. *)
THEOREM CallsAreShort == Spec => [][Shortens]_vars
<1>1. Init => Accompanied
  BY DEF Init, Accompanied, At, Done
<1>2. TypeOK /\ Accompanied /\ [Next]_vars => Shortens
  BY WorkerWorks, WorkerStep, OthersStep DEF Shortens
<1> QED
  BY <1>1, <1>2, AccompaniedStep, TypeCorrect, PTL DEF Spec

-----------------------------------------------------------------------------
(* What the source no longer has: in the cache, or about to be put there by the
   load under way.  The whole of it, in ticks and that one store. *)
StaleEntry == cache # Null /\ cache.value # source

StaleLoad == flight # Null /\ At(flight, "store") /\ caller[flight].value # source

StaleFor == (IF StaleEntry THEN cache.life + 1 ELSE 0) + (IF StaleLoad THEN TTL + 2 ELSE 0)

(* Without a change of the source nothing makes the cache stale for longer, and
   with each tick a stale entry is nearer to its end. *)
Freshens ==
    /\ StaleFor \in 0..(2 * TTL + 3)
    /\ source' = source =>
          /\ StaleFor' <= StaleFor
          /\ Tick /\ StaleEntry => StaleFor' < StaleFor

LEMMA FreshensStep == TypeOK /\ Accompanied /\ [Next]_vars => Freshens
<1> SUFFICES ASSUME TypeOK, Accompanied, [Next]_vars PROVE Freshens
  OBVIOUS
<1> DEFINE E == IF StaleEntry THEN cache.life + 1 ELSE 0
           L == IF StaleLoad THEN TTL + 2 ELSE 0
<1>1. /\ TTL \in Nat /\ Null \notin Caller /\ caller \in [Caller -> CallerState]
      /\ flight \in Caller \cup {Null}
      /\ cache # Null => cache \in Entry /\ cache.life \in 0..TTL /\ cache.value \in Version
      /\ \A c \in Caller : caller[c].at \in InCharge <=> c = flight
  BY Parts, ParameterAssumption DEF TypeOK, CallerState, Result, Accompanied, Entry
<1>2. StaleFor = E + L /\ E \in 0..(TTL + 1) /\ L \in {0, TTL + 2} /\ StaleFor' = E' + L'
  BY <1>1 DEF StaleFor, StaleEntry
<1>3. StaleFor \in 0..(2 * TTL + 3)
  BY <1>1, <1>2
<1> HIDE DEF E, L
<1>4. SUFFICES ASSUME source' = source
               PROVE  E' + L' <= E + L /\ (Tick /\ StaleEntry => E' + L' < E + L)
  BY <1>2, <1>3 DEF Freshens
<1>5. UNCHANGED cache => E' = E
  BY <1>4 DEF E, StaleEntry
<1>6. ASSUME UNCHANGED flight,
             flight # Null => caller'[flight].at = caller[flight].at /\ caller'[flight].value = caller[flight].value
      PROVE  L' = L
  BY <1>4, <1>6 DEF L, StaleLoad, At
<1>7. ASSUME Tick PROVE L' = L /\ E' <= E /\ E' \in 0..(TTL + 1) /\ (StaleEntry => E' < E)
  <2>1. L' = L /\ cache # Null
    BY <1>6, <1>7 DEF Tick
  <2>2. CASE cache.life = 0
    BY <1>1, <1>7, <2>1, <2>2 DEF Tick, E, StaleEntry
  <2>3. CASE cache.life # 0
    <3>1. /\ cache' # Null /\ cache'.value = cache.value /\ cache'.life = cache.life - 1
      BY <1>1, <1>7, <2>1, <2>3, Parts DEF Tick, Entry
    <3> QED
      BY <1>1, <1>4, <2>1, <2>3, <3>1 DEF E, StaleEntry
  <2> QED
    BY <2>2, <2>3
<1>8. ASSUME NEW c \in Caller, Store(c) PROVE E' + L' <= E + L
  <2>1. flight = c /\ At(c, "store") /\ flight' = c /\ At(c, "deliver")'
    BY <1>1, <1>8 DEF Store, Conclude, At, InCharge
  <2>2. L' = 0
    BY <2>1 DEF L, StaleLoad, At
  <2>3. CASE UNCHANGED cache
    BY <1>1, <1>2, <1>5, <2>2, <2>3
  <2>4. CASE cache' = Fresh(caller[c].value)
    <3>1. cache' # Null => cache'.value = caller[c].value /\ cache'.life = TTL
      BY <2>4 DEF Fresh
    <3>2. StaleEntry' => StaleLoad
      BY <1>1, <1>4, <2>1, <3>1 DEF StaleEntry, StaleLoad
    <3>3. E' = (IF StaleEntry' THEN TTL + 1 ELSE 0) /\ (StaleLoad => L = TTL + 2)
      BY <1>1, <3>1 DEF E, L, StaleEntry
    <3>4. CASE StaleEntry'
      BY <1>1, <1>2, <2>2, <3>2, <3>3, <3>4
    <3>5. CASE ~StaleEntry'
      BY <1>1, <1>2, <2>2, <3>3, <3>5
    <3> QED
      BY <3>4, <3>5
  <2> QED
    BY <1>8, <2>3, <2>4 DEF Store
<1>9. ASSUME NEW c \in Caller, RecheckHit(c) \/ LoadOther(c) \/ EndFlight(c)
      PROVE  E' = E /\ L' = 0
  <2>1. CASE EndFlight(c)
    BY <1>5, <2>1 DEF EndFlight, Deliver, L, StaleLoad
  <2>2. CASE RecheckHit(c) \/ LoadOther(c)
    <3>1. flight' = c /\ At(c, "deliver")' /\ UNCHANGED cache
      BY <1>1, <2>2 DEF RecheckHit, LoadOther, Conclude, At, InCharge
    <3> QED
      BY <1>5, <3>1 DEF L, StaleLoad, At
  <2> QED
    BY <1>9, <2>1, <2>2
<1>10. ASSUME NEW c \in Caller, LoadValue(c) PROVE E' = E /\ L' = 0
  <2>1. flight = c /\ flight' = c /\ caller'[c].value = source /\ UNCHANGED cache
    BY <1>1, <1>10 DEF LoadValue, At, CallerState, InCharge
  <2> QED
    BY <1>4, <1>5, <2>1 DEF L, StaleLoad
<1>11. ASSUME NEW c \in Caller, RecheckMiss(c) \/ RecheckFails(c) \/ Lead(c)
       PROVE  E' = E /\ L' = 0
  <2>1. flight' = c /\ caller'[c].at \in {"load", "recheck"} /\ UNCHANGED cache
    BY <1>1, <1>11 DEF RecheckMiss, RecheckFails, Lead, Goto, At, CallerState, InCharge
  <2> QED
    BY <1>5, <2>1 DEF L, StaleLoad, At
<1>12. ASSUME NEW c \in Caller, Start(c) \/ GetHit(c) \/ GetFails(c) \/ GetMiss(c) \/ Join(c)
       PROVE  E' = E /\ L' = L
  <2>1. c # flight /\ UNCHANGED <<cache, flight>> /\ \A d \in Caller \ {c} : caller'[d] = caller[d]
    BY <1>1, <1>12 DEF Start, GetHit, GetFails, GetMiss, Join, Goto, Return, At, InCharge
  <2> QED
    BY <1>1, <1>5, <1>6, <2>1
<1>13. ASSUME UNCHANGED <<caller, flight>>, Set \/ Delete PROVE E' = 0 /\ L' = L
  <2>1. L' = L
    BY <1>6, <1>13
  <2>2. cache' # Null => cache'.value = source
    BY <1>13 DEF Set, Delete, Fresh
  <2> QED
    BY <1>4, <2>1, <2>2 DEF E, StaleEntry
<1>14. ASSUME UNCHANGED <<cache, caller, flight>> PROVE E' = E /\ L' = L
  BY <1>5, <1>6, <1>14
<1>15. E' + L' <= E + L
  <2>1. ASSUME E' = E \/ E' = 0, L' = L \/ L' = 0 PROVE E' + L' <= E + L
    BY <1>1, <1>2, <2>1
  <2>2. CASE \E c \in Caller : Start(c) \/ Step(c) \/ Cancel(c)
    BY <1>8, <1>9, <1>10, <1>11, <1>12, <1>14, <2>1, <2>2 DEF Step, Cancel
  <2>3. CASE Tick
    BY <1>1, <1>2, <1>7, <2>3
  <2>4. CASE Set \/ Delete
    BY <1>13, <2>1, <2>4 DEF Set, Delete
  <2>5. CASE ChangeSource \/ UNCHANGED vars
    BY <1>14, <2>1, <2>5 DEF ChangeSource, vars
  <2> QED
    BY <2>2, <2>3, <2>4, <2>5 DEF Next
<1>16. Tick /\ StaleEntry => E' + L' < E + L
  BY <1>1, <1>2, <1>7
<1> QED
  BY <1>15, <1>16

(* The bound behind CatchesUp: after a change of the source what is stale is gone
   within the life of the entry that was there and of one more, the last that the
   load under way can leave; no later load and no Set of another goroutine adds to
   it, however the cache fails. *)
THEOREM StalenessRunsOut == Spec => [][Freshens]_vars
<1>1. Init => Accompanied
  BY DEF Init, Accompanied, At, Done
<1> QED
  BY <1>1, FreshensStep, AccompaniedStep, TypeCorrect, PTL DEF Spec

-----------------------------------------------------------------------------
(* A step in which a goroutine that is at work returns is its own step, or the
   leader's delivery of something that is not "cancelled". *)
LEMMA OnlyItsOwn ==
    ASSUME TypeOK, Next, NEW c \in Caller, ~At(c, "idle"), At(c, "idle")',
           caller'[c].result = "cancelled"
    PROVE  c \in cancelled
<1>1. caller \in [Caller -> CallerState]
  BY DEF TypeOK, CallerState, Result
<1>2. ASSUME NEW d \in Caller, EndFlight(d) PROVE FALSE
  <2>1. caller'[c] = Done(caller[d].result)
    BY <1>2 DEF EndFlight, Deliver, At
  <2>2. caller[d].result = "cancelled"
    BY <2>1 DEF Done
  <2> QED
    BY <1>2, <2>2 DEF EndFlight, Endings, TypeOK
<1>3. ASSUME NEW d \in Caller, NEW q \in CallerState, q.at # "idle",
             caller' = [caller EXCEPT ![d] = q]
      PROVE  FALSE
  BY <1>1, <1>3 DEF At
<1>4. ASSUME NEW d \in Caller, NEW stage \in Stages \ {"idle"}, Goto(d, stage) PROVE FALSE
  BY <1>1, <1>4 DEF Goto, At, CallerState
<1>5. ASSUME caller' = caller PROVE FALSE
  BY <1>5 DEF At
<1>6. ASSUME NEW d \in Caller, Step(d) PROVE c \in cancelled
  <2>1. CASE GetHit(d)
    <3>1. d = c => caller'[c].result = "value"
      BY <1>1, <2>1 DEF GetHit, Return, Done
    <3> QED
      BY <1>1, <2>1, <3>1 DEF GetHit, Return, At
  <2>2. CASE GetFails(d)
    <3>1. d = c
      BY <1>1, <2>2 DEF GetFails, Return, At
    <3>2. c \notin cancelled => caller'[c].result = "error"
      BY <1>1, <2>2, <3>1 DEF GetFails, Return, Done
    <3> QED
      BY <3>2
  <2>3. CASE GetMiss(d) \/ Join(d) \/ Lead(d) \/ RecheckMiss(d) \/ RecheckFails(d)
    BY <1>4, <2>3 DEF GetMiss, Join, Lead, RecheckMiss, RecheckFails, Stages, InCharge
  <2>4. CASE LoadValue(d)
    BY <1>1, <2>4 DEF LoadValue, At, CallerState
  <2>5. CASE RecheckHit(d) \/ LoadOther(d) \/ Store(d)
    BY <1>1, <2>5 DEF RecheckHit, LoadOther, Store, Conclude, At
  <2> QED
    BY <1>2, <1>6, <2>1, <2>2, <2>3, <2>4, <2>5 DEF Step
<1>7. ASSUME NEW d \in Caller, Start(d) PROVE FALSE
  BY <1>1, <1>7 DEF Start, At
<1> QED
  BY <1>5, <1>6, <1>7 DEF Next, Cancel, Set, Delete, ChangeSource, Tick

(* Whoever is told "context cancelled" was cancelled itself, however many
   goroutines share a load and whoever leads them. *)
THEOREM CancelledForItself == Spec => NoForeignCancellation
<1>1. TypeOK /\ [Next]_vars =>
         [ \A c \in Caller :
             ~At(c, "idle") /\ At(c, "idle")' /\ caller'[c].result = "cancelled" =>
                 c \in cancelled ]_vars
  BY OnlyItsOwn
<1> QED
  BY <1>1, TypeCorrect, PTL DEF Spec, NoForeignCancellation

-----------------------------------------------------------------------------
(* The history only watches. *)
LEMMA Watches == SharingSpec => Spec
<1>1. SharingInit => Init
  BY DEF SharingInit
<1>2. [SharingNext]_sharingVars => [Next]_vars
  BY DEF SharingNext, sharingVars, Next
<1> QED
  BY <1>1, <1>2, PTL DEF SharingSpec, Spec

(* For whom a loaded value was cached the cache has something. *)
Served == filled \subseteq Caller /\ (filled # {} => cache # Null)

LEMMA ServedStep == Served /\ [SharingNext]_sharingVars => Served'
BY DEF SharingNext, Noted, LoadIsCached, sharingVars, vars, Served

(* A goroutine never loads again what was loaded and cached since it missed,
   unless the cache fails to show it: the second look inside the group is enough,
   however many goroutines arrive at whatever moment, loads that end without a
   value included. *)
THEOREM SharesWhatIsCached == SharingSpec => CachedLoadsAreShared
<1>1. SharingInit => Served
  BY DEF SharingInit, Served
<1>4. TypeOK /\ Served /\ [SharingNext]_sharingVars =>
         [ \A c \in filled : ~At(c, "load") /\ At(c, "load")' => RecheckFails(c) ]_sharingVars
  <2> SUFFICES ASSUME TypeOK, Served, SharingNext, NEW c \in filled,
                      ~At(c, "load"), At(c, "load")'
               PROVE  RecheckFails(c)
    BY DEF Served
  <2>1. caller \in [Caller -> CallerState]
    BY DEF TypeOK, CallerState, Result
  <2>2. c \in Caller /\ cache # Null
    BY DEF Served
  <2>3. ASSUME NEW d \in Caller, EndFlight(d) PROVE FALSE
    BY <2>1, <2>2, <2>3 DEF EndFlight, Deliver, Done, At
  <2>4. ASSUME NEW d \in Caller, Step(d) PROVE RecheckFails(c)
    <3>1. d = c
      <4>1. CASE caller'[c] = caller[c]
        BY <4>1 DEF At
      <4>2. d # c => caller'[c] = caller[c] \/ EndFlight(d)
        BY <2>1, <2>2, <2>4 DEF Step, GetHit, GetFails, GetMiss, Join, Lead, RecheckHit,
           RecheckMiss, RecheckFails, LoadValue, LoadOther, Store, Conclude, Goto, Return
      <4> QED
        BY <2>3, <2>4, <4>1, <4>2
    <3>2. ASSUME NEW stage, stage # "load", Goto(c, stage) PROVE FALSE
      BY <2>1, <2>2, <3>2 DEF Goto, At, CallerState
    <3>3. ASSUME NEW res, Return(c, res) PROVE FALSE
      BY <2>1, <2>2, <3>3 DEF Return, Done, At
    <3>4. ~GetHit(c) /\ ~GetFails(c)
      BY <3>3 DEF GetHit, GetFails
    <3>5. ~GetMiss(c) /\ ~Join(c) /\ ~Lead(c)
      BY <3>2 DEF GetMiss, Join, Lead
    <3>6. ~RecheckHit(c) /\ ~LoadOther(c) /\ ~Store(c) /\ ~EndFlight(c)
      BY <2>1, <2>2, <2>3 DEF RecheckHit, LoadOther, Store, Conclude, At
    <3>7. ~LoadValue(c) /\ ~RecheckMiss(c)
      BY <2>2 DEF LoadValue, RecheckMiss
    <3> QED
      BY <2>4, <3>1, <3>4, <3>5, <3>6, <3>7 DEF Step
  <2>5. ASSUME NEW d \in Caller, Start(d) PROVE FALSE
    BY <2>1, <2>2, <2>5 DEF Start, At
  <2>6. caller' # caller
    BY DEF At
  <2> QED
    BY <2>4, <2>5, <2>6 DEF SharingNext, Cancel, Set, Delete, ChangeSource, Tick
<1> QED
  BY <1>1, <1>4, ServedStep, Watches, TypeCorrect, PTL DEF SharingSpec, CachedLoadsAreShared
=============================================================================
