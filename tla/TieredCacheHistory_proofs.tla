---------------------- MODULE TieredCacheHistory_proofs ----------------------
(***************************************************************************)
(* The multi-level cache for any number of instances, goroutines and       *)
(* values, any TTLs and any pause.  The invariant has three layers: the    *)
(* types (Typed), the order of values, which can only grow from L1 over    *)
(* what goroutines carry to L2 (Ordered), and, on top of them, how long    *)
(* ago the values that goroutines carry left Redis (Dated) and what a      *)
(* goroutine that is alone may rely on (Private).                          *)
(***************************************************************************)
EXTENDS TieredCacheHistory, TLAPS

L1Entry == [value : Version, life : 0..L1TTL]

ClientState == [at : Stages, value : 0..MaxWrites]

Carries(c) == client[c].at \in {"backfill", "setL1"}

Typed ==
    /\ l1 \in [Node -> L1Entry \cup {Null}]
    /\ l2 \in Entry \cup {Null}
    /\ client \in [Client -> ClientState]
    /\ \A c \in Client : client[c].value # 0 <=> Carries(c)
    /\ last \in 0..MaxWrites

(* What is in L1, or on its way there, is no newer than what is in L2. *)
Ordered ==
    /\ l2 # Null => l2.value <= last
    /\ \A c \in Client :
          /\ client[c].value <= last
          /\ l2 # Null => client[c].value <= l2.value
    /\ \A n \in Node : l1[n] # Null =>
          /\ l1[n].value <= last
          /\ l2 # Null => l1[n].value <= l2.value

(* A value on its way to L1 left Redis no longer ago than its goroutine rests. *)
Dated ==
    /\ pause \in [Client -> 0..MaxPause]
    /\ gone \in [Version -> Nat]
    /\ \A v \in Version : v > last \/ InL2(v) => gone[v] = 0
    /\ \A c \in Client : At(c, "idle") \/ At(c, "getL2") => pause[c] = 0
    /\ \A c \in Client : Carries(c) /\ ~InL2(client[c].value) =>
          gone[client[c].value] <= pause[c]
    /\ StalenessBounded

(* For a goroutine alone in its instance nothing it can get is below its floor;
   while it asks L2, its L1 is empty. *)
PrivateTo(c) ==
    /\ floor[c] <= last + 1
    /\ l2 # Null => floor[c] <= l2.value
    /\ Carries(c) => floor[c] <= client[c].value
    /\ At(c, "getL2") => l1[Home[c]] = Null
    /\ At(c, "idle") /\ l1[Home[c]] # Null => floor[c] <= l1[Home[c]].value

Private ==
    /\ floor \in [Client -> 0..(MaxWrites + 1)]
    /\ \A c \in Alone : PrivateTo(c)

-----------------------------------------------------------------------------
(* NewMemoryCache never leaves L1 without a TTL. *)
LEMMA L1Expires == L1TTL \in Nat /\ L1TTL >= 1
BY TimeAssumption DEF L1TTL, NoExpire

LEMMA L2TTLType == L2TTL \in Nat \cup {NoExpire}
BY TimeAssumption DEF L2TTL, NoExpire

LEMMA Entries ==
    /\ \A v \in Version : Fresh(v, L1TTL) \in L1Entry /\ Fresh(v, L2TTL) \in Entry
    /\ \A ttl : \A v \in Version : Fresh(v, ttl).value = v
    /\ L1Entry \subseteq Entry
    /\ \A e \in Entry : e # Null /\ e.value \in Version /\ e.life \in Nat \cup {NoExpire}
    /\ \A e \in L1Entry : e # Null /\ e.value \in Version /\ e.life \in 0..L1TTL
<1>1. L1Entry \subseteq Entry
  BY L1Expires DEF L1Entry, Entry
<1> QED
  BY <1>1, L1Expires, L2TTLType, NullAssumption DEF L1Entry, Entry, Fresh

(* An entry grows older and keeps its value. *)
LEMMA AgedL1 ==
    ASSUME NEW e \in L1Entry \cup {Null}
    PROVE  /\ Aged(e) \in L1Entry \cup {Null}
           /\ Aged(e) # Null =>
                 e # Null /\ Aged(e).value = e.value /\ Aged(e).life = e.life - 1
<1>1. CASE e = Null
  BY <1>1 DEF Aged
<1>2. CASE e \in L1Entry
  <2>1. e # Null /\ e.life \in Nat /\ e.life \in 0..L1TTL /\ e.life # NoExpire
    BY <1>2, Entries, L1Expires DEF NoExpire
  <2>2. e.life # 0 => e.life - 1 \in 0..L1TTL
    BY <2>1, L1Expires
  <2>3. e.life # 0 => [e EXCEPT !.life = @ - 1] \in L1Entry
    BY <1>2, <2>2 DEF L1Entry
  <2>4. /\ [e EXCEPT !.life = @ - 1].value = e.value
        /\ [e EXCEPT !.life = @ - 1].life = e.life - 1
    BY <1>2 DEF L1Entry
  <2> QED
    BY <2>1, <2>3, <2>4 DEF Aged
<1> QED
  BY <1>1, <1>2

LEMMA AgedL2 ==
    ASSUME NEW e \in Entry \cup {Null}
    PROVE  /\ Aged(e) \in Entry \cup {Null}
           /\ Aged(e) # Null => e # Null /\ Aged(e).value = e.value
<1>1. CASE e = Null
  BY <1>1 DEF Aged
<1>2. CASE e \in Entry
  <2>1. e.life \in Nat \cup {NoExpire}
    BY <1>2, Entries
  <2>2. e.life # 0 /\ e.life # NoExpire => e.life - 1 \in Nat
    BY <2>1
  <2>3. e.life # 0 /\ e.life # NoExpire => [e EXCEPT !.life = @ - 1] \in Entry
    BY <1>2, <2>2 DEF Entry
  <2>4. [e EXCEPT !.life = @ - 1].value = e.value
    BY <1>2 DEF Entry
  <2> QED
    BY <1>2, <2>3, <2>4, Entries DEF Aged
<1> QED
  BY <1>1, <1>2

-----------------------------------------------------------------------------
LEMMA InitTyped == Init => Typed
<1> SUFFICES ASSUME Init PROVE Typed
  OBVIOUS
<1>1. Idle \in ClientState /\ Idle.value = 0 /\ Idle.at = "idle"
  BY BoundAssumption DEF Idle, ClientState, Stages
<1>2. last \in 0..MaxWrites
  BY BoundAssumption DEF Init
<1> HIDE DEF Idle
<1>3. client \in [Client -> ClientState]
  BY <1>1 DEF Init
<1> QED
  BY <1>1, <1>2, <1>3 DEF Init, Typed, Carries

(* What a step does to its own goroutine's state. *)
Moved(c, stage, v) ==
    /\ client' = [client EXCEPT ![c] = [at |-> stage, value |-> v]]
    /\ stage \in Stages
    /\ v # 0 <=> stage \in {"backfill", "setL1"}

LEMMA MovedTyped ==
    ASSUME Typed, NEW c \in Client, NEW stage, NEW v \in 0..MaxWrites, Moved(c, stage, v)
    PROVE  /\ client' \in [Client -> ClientState]
           /\ \A d \in Client : client'[d].value # 0 <=> Carries(d)'
           /\ client'[c].at = stage /\ client'[c].value = v
           /\ \A d \in Client \ {c} : client'[d] = client[d]
<1>1. [at |-> stage, value |-> v] \in ClientState
  BY DEF ClientState, Moved
<1>2. client'[c].at = stage /\ client'[c].value = v
  BY DEF Moved, Typed
<1>3. \A d \in Client \ {c} : client'[d] = client[d]
  BY DEF Moved, Typed
<1>4. client' \in [Client -> ClientState]
  BY <1>1 DEF Moved, Typed
<1>5. \A d \in Client : client'[d].value # 0 <=> Carries(d)'
  BY <1>2, <1>3 DEF Moved, Typed, Carries
<1> QED
  BY <1>2, <1>3, <1>4, <1>5

LEMMA ReturnMoves ==
    ASSUME NEW c \in Client, Return(c)
    PROVE  Moved(c, "idle", 0)
BY DEF Return, Idle, Moved, Stages

LEMMA GotoMoves ==
    ASSUME NEW c \in Client, NEW stage \in Stages, NEW v, Goto(c, stage, v),
           v # 0 <=> stage \in {"backfill", "setL1"}
    PROVE  Moved(c, stage, v)
BY DEF Goto, Moved

(* What each step comes to, for its own goroutine and the two levels. *)
LEMMA Steps ==
    ASSUME Typed, NEW c \in Client
    PROVE  /\ 0 \in 0..MaxWrites
           /\ GetL1Miss(c) => Moved(c, "getL2", 0)
           /\ GetL2Fails(c) \/ GetL2Miss(c) => Moved(c, "idle", 0)
           /\ GetL2Hit(c) => Moved(c, "backfill", l2.value) /\ l2.value \in Version
           /\ Backfill(c) \/ SetL1(c) =>
                 Moved(c, "idle", 0) /\ Carries(c) /\ client[c].value \in Version
           /\ SetL2(c) => Moved(c, "setL1", last + 1)
           /\ SetL2(c) \/ SetL2Fails(c) => last + 1 \in Version
           /\ DeleteL2(c) => \/ Moved(c, "deleteL1", 0) /\ l2' = Null
                             \/ Moved(c, "deleteL1Failed", 0) /\ l2' \in {l2, Null}
           /\ DeleteL1(c) => Moved(c, "idle", 0)
<1>0. 0 \in 0..MaxWrites /\ last \in Nat /\ Version \subseteq 0..MaxWrites
  BY BoundAssumption DEF Typed, Version
<1>1. GetL1Miss(c) => Moved(c, "getL2", 0)
  BY GotoMoves DEF GetL1Miss, Stages
<1>2. GetL2Fails(c) \/ GetL2Miss(c) => Moved(c, "idle", 0)
  BY ReturnMoves DEF GetL2Fails, GetL2Miss
<1>3. ASSUME GetL2Hit(c) PROVE Moved(c, "backfill", l2.value) /\ l2.value \in Version
  <2>1. l2.value \in Version /\ l2.value # 0
    BY <1>3, Entries DEF GetL2Hit, Typed, Version
  <2> QED
    BY <1>3, <2>1, GotoMoves DEF GetL2Hit, Stages
<1>4. ASSUME Backfill(c) \/ SetL1(c)
      PROVE  Moved(c, "idle", 0) /\ Carries(c) /\ client[c].value \in Version
  <2>1. Moved(c, "idle", 0) /\ Carries(c)
    BY <1>4, ReturnMoves DEF Backfill, SetL1, Carries, At
  <2>2. client[c].value \in 0..MaxWrites /\ client[c].value # 0
    BY <2>1 DEF Typed, ClientState
  <2> QED
    BY <2>1, <2>2 DEF Version
<1>5. SetL2(c) \/ SetL2Fails(c) => last + 1 \in Version
  BY BoundAssumption DEF SetL2, SetL2Fails, Typed, Version
<1>6. SetL2(c) => Moved(c, "setL1", last + 1)
  BY <1>0, GotoMoves DEF SetL2, Stages
<1>7. DeleteL2(c) => \/ Moved(c, "deleteL1", 0) /\ l2' = Null
                     \/ Moved(c, "deleteL1Failed", 0) /\ l2' \in {l2, Null}
  BY GotoMoves DEF DeleteL2, Stages
<1>8. DeleteL1(c) => Moved(c, "idle", 0)
  BY ReturnMoves DEF DeleteL1
<1> QED
  BY <1>0, <1>1, <1>2, <1>3, <1>4, <1>5, <1>6, <1>7, <1>8

LEMMA NextTyped == Typed /\ [Next]_vars => Typed'
<1> SUFFICES ASSUME Typed, [Next]_vars PROVE Typed'
  OBVIOUS
<1>1. ASSUME NEW c \in Client,
             GetL1Miss(c) \/ GetL2Fails(c) \/ GetL2Miss(c) \/ GetL2Hit(c)
      PROVE  Typed'
  <2>1. Version \subseteq 0..MaxWrites
    BY DEF Version
  <2>2. GetL2Hit(c) => Moved(c, "backfill", l2.value) /\ l2.value \in Version
    BY Steps
  <2>3. ~GetL2Hit(c) => \E stage \in Stages : Moved(c, stage, 0) /\ 0 \in 0..MaxWrites
    BY <1>1, Steps DEF Moved
  <2>4. PICK stage \in Stages, v \in 0..MaxWrites : Moved(c, stage, v)
    BY <2>1, <2>2, <2>3 DEF Moved
  <2>5. UNCHANGED <<l1, l2, last>>
    BY <1>1 DEF GetL1Miss, GetL2Fails, GetL2Miss, GetL2Hit
  <2> QED
    BY <2>4, <2>5, MovedTyped DEF Typed
<1>2. ASSUME NEW c \in Client, Backfill(c) \/ SetL1(c) PROVE Typed'
  <2>1. Moved(c, "idle", 0) /\ client[c].value \in Version /\ 0 \in 0..MaxWrites
    BY <1>2, Steps
  <2>2. StoreL1(c, client[c].value) \/ UNCHANGED l1
    BY <1>2 DEF Backfill, SetL1, L1Fails
  <2>3. l1' \in [Node -> L1Entry \cup {Null}]
    BY <2>1, <2>2, Entries DEF StoreL1, Typed
  <2> QED
    BY <1>2, <2>1, <2>3, MovedTyped DEF Typed, Backfill, SetL1
<1>3. ASSUME NEW c \in Client, SetL2(c) PROVE Typed'
  <2>1. Moved(c, "setL1", last + 1) /\ last + 1 \in 1..MaxWrites
    BY <1>3, Steps DEF Version
  <2>2. l2' \in Entry
    BY <1>3, <2>1, Entries DEF SetL2, Version
  <2> QED
    BY <1>3, <2>1, <2>2, MovedTyped DEF Typed, SetL2
<1>4. ASSUME NEW c \in Client, SetL2Fails(c) PROVE Typed'
  <2>1. last + 1 \in 1..MaxWrites /\ Fresh(last + 1, L2TTL) \in Entry
    BY <1>4, Steps, Entries DEF Version
  <2> QED
    BY <1>4, <2>1 DEF Typed, SetL2Fails, Carries
<1>5. ASSUME NEW c \in Client, DeleteL2(c) PROVE Typed'
  <2>1. PICK stage : Moved(c, stage, 0) /\ l2' \in {l2, Null} /\ 0 \in 0..MaxWrites
    BY <1>5, Steps
  <2> QED
    BY <1>5, <2>1, MovedTyped DEF Typed, DeleteL2
<1>6. ASSUME NEW c \in Client, DeleteL1(c) PROVE Typed'
  <2>1. Moved(c, "idle", 0) /\ 0 \in 0..MaxWrites
    BY <1>6, Steps
  <2>2. l1' \in [Node -> L1Entry \cup {Null}]
    BY <1>6 DEF DeleteL1, L1Fails, Typed
  <2> QED
    BY <1>6, <2>1, <2>2, MovedTyped DEF Typed, DeleteL1
<1>7. ASSUME NEW n \in Node, Evict(n) PROVE Typed'
  BY <1>7 DEF Typed, Evict, Carries
<1>8. CASE Lose
  BY <1>8 DEF Typed, Lose, Carries
<1>9. CASE Tick
  <2>1. l1' \in [Node -> L1Entry \cup {Null}]
    BY <1>9, AgedL1 DEF Tick, Typed
  <2>2. l2' \in Entry \cup {Null}
    BY <1>9, AgedL2 DEF Tick, Typed
  <2> QED
    BY <1>9, <2>1, <2>2 DEF Tick, Typed, Carries
<1>10. CASE UNCHANGED vars
  BY <1>10 DEF vars, Typed, Carries
<1> QED
  BY <1>1, <1>2, <1>3, <1>4, <1>5, <1>6, <1>7, <1>8, <1>9, <1>10 DEF Next, GetL1Hit

-----------------------------------------------------------------------------
LEMMA InitOrdered == Init => Ordered
BY DEF Init, Ordered, Idle

(* Nothing new in L1 or in anybody's hands: the order stays as it is. *)
LEMMA LessIsOrdered ==
    ASSUME Typed, Ordered,
           last' = last,
           l2' # Null => l2 # Null /\ l2'.value = l2.value,
           \A c \in Client : client'[c].value \in {0, client[c].value},
           \A n \in Node : l1'[n] # Null => l1[n] # Null /\ l1'[n].value = l1[n].value
    PROVE  Ordered'
<1>1. last \in Nat /\ l2 # Null => l2.value \in Nat
  BY Entries DEF Typed, Version
<1>2. last \in Nat
  BY DEF Typed
<1> QED
  BY <1>1, <1>2 DEF Ordered

LEMMA NextOrdered == Typed /\ Ordered /\ [Next]_vars => Ordered'
<1> SUFFICES ASSUME Typed, Ordered, [Next]_vars PROVE Ordered'
  OBVIOUS
<1>0. last \in Nat /\ (l2 # Null => l2.value \in Nat) /\ \A c \in Client : client[c].value \in Nat
  BY Entries DEF Typed, Version, ClientState
<1>1. ASSUME NEW c \in Client, GetL1Miss(c) \/ GetL2Fails(c) \/ GetL2Miss(c) PROVE Ordered'
  <2>1. PICK stage : Moved(c, stage, 0) /\ 0 \in 0..MaxWrites
    BY <1>1, Steps
  <2>2. UNCHANGED <<l1, l2, last>>
    BY <1>1 DEF GetL1Miss, GetL2Fails, GetL2Miss
  <2>3. \A d \in Client : client'[d].value \in {0, client[d].value}
    BY <2>1, MovedTyped
  <2> QED
    BY <2>2, <2>3, LessIsOrdered
<1>2. ASSUME NEW c \in Client, GetL2Hit(c) PROVE Ordered'
  <2>1. Moved(c, "backfill", l2.value) /\ l2.value \in 0..MaxWrites
    BY <1>2, Steps DEF Version
  <2>2. /\ client'[c].value = l2.value
        /\ \A d \in Client \ {c} : client'[d] = client[d]
    BY <2>1, MovedTyped
  <2>3. l2 # Null /\ UNCHANGED <<l1, l2, last>>
    BY <1>2 DEF GetL2Hit
  <2> QED
    BY <1>0, <2>2, <2>3 DEF Ordered
<1>3. ASSUME NEW c \in Client, Backfill(c) \/ SetL1(c) PROVE Ordered'
  <2>1. Moved(c, "idle", 0) /\ client[c].value \in Version /\ 0 \in 0..MaxWrites
    BY <1>3, Steps
  <2>2. StoreL1(c, client[c].value) \/ UNCHANGED l1
    BY <1>3 DEF Backfill, SetL1, L1Fails
  <2>3. \A n \in Node : l1'[n] # l1[n] => l1'[n].value = client[c].value
    BY <2>1, <2>2, Entries DEF StoreL1, Typed
  <2>4. \A d \in Client : client'[d].value \in {0, client[d].value}
    BY <2>1, MovedTyped
  <2> QED
    BY <1>0, <1>3, <2>3, <2>4 DEF Ordered, Backfill, SetL1
<1>4. ASSUME NEW c \in Client, SetL2(c) PROVE Ordered'
  <2>1. Moved(c, "setL1", last + 1) /\ last + 1 \in Version /\ last + 1 \in 0..MaxWrites
    BY <1>4, Steps DEF Version
  <2>2. /\ client'[c].value = last + 1
        /\ \A d \in Client \ {c} : client'[d] = client[d]
    BY <2>1, MovedTyped
  <2>3. l2'.value = last + 1 /\ last' = last + 1 /\ l1' = l1
    BY <1>4, <2>1, Entries DEF SetL2
  <2>4. \A n \in Node : l1[n] # Null => l1[n].value \in Nat
    BY Entries DEF Typed, Version
  <2> QED
    BY <1>0, <2>2, <2>3, <2>4 DEF Ordered
<1>5. ASSUME NEW c \in Client, SetL2Fails(c) PROVE Ordered'
  <2>1. Fresh(last + 1, L2TTL).value = last + 1
    BY <1>5, Steps, Entries
  <2>2. \A n \in Node : l1[n] # Null => l1[n].value \in Nat
    BY Entries DEF Typed, Version
  <2> HIDE DEF Fresh
  <2>3. l2' = l2 \/ l2'.value = last + 1
    BY <1>5, <2>1 DEF SetL2Fails
  <2>4. last' = last + 1 /\ UNCHANGED <<l1, client>>
    BY <1>5 DEF SetL2Fails
  <2> QED
    BY <1>0, <2>2, <2>3, <2>4 DEF Ordered
<1>6. ASSUME NEW c \in Client, DeleteL2(c) PROVE Ordered'
  <2>1. PICK stage : Moved(c, stage, 0) /\ l2' \in {l2, Null} /\ 0 \in 0..MaxWrites
    BY <1>6, Steps
  <2>2. \A d \in Client : client'[d].value \in {0, client[d].value}
    BY <2>1, MovedTyped
  <2> QED
    BY <1>6, <2>1, <2>2, LessIsOrdered DEF DeleteL2
<1>7. ASSUME NEW c \in Client, DeleteL1(c) PROVE Ordered'
  <2>1. Moved(c, "idle", 0) /\ 0 \in 0..MaxWrites
    BY <1>7, Steps
  <2>2. \A d \in Client : client'[d].value \in {0, client[d].value}
    BY <2>1, MovedTyped
  <2>3. \A n \in Node : l1'[n] # Null => l1'[n] = l1[n]
    BY <1>7 DEF DeleteL1, L1Fails, Typed
  <2> QED
    BY <1>7, <2>2, <2>3, LessIsOrdered DEF DeleteL1
<1>8. ASSUME NEW n \in Node, Evict(n) PROVE Ordered'
  <2>1. \A m \in Node : l1'[m] # Null => l1'[m] = l1[m]
    BY <1>8 DEF Evict, Typed
  <2> QED
    BY <1>8, <2>1, LessIsOrdered DEF Evict
<1>9. CASE Lose
  BY <1>9, LessIsOrdered DEF Lose
<1>10. CASE Tick
  <2>1. \A n \in Node : l1'[n] # Null => l1[n] # Null /\ l1'[n].value = l1[n].value
    BY <1>10, AgedL1 DEF Tick, Typed
  <2>2. l2' # Null => l2 # Null /\ l2'.value = l2.value
    BY <1>10, AgedL2 DEF Tick, Typed
  <2> QED
    BY <1>10, <2>1, <2>2, LessIsOrdered DEF Tick
<1>11. CASE UNCHANGED vars
  BY <1>11, LessIsOrdered DEF vars
<1> QED
  BY <1>1, <1>2, <1>3, <1>4, <1>5, <1>6, <1>7, <1>8, <1>9, <1>10, <1>11 DEF Next, GetL1Hit

-----------------------------------------------------------------------------
(* The history only watches. *)
LEMMA Watches == [HistoryNext]_historyVars => [Next]_vars
<1> SUFFICES ASSUME [HistoryNext]_historyVars PROVE [Next]_vars
  OBVIOUS
<1>1. ASSUME NEW c \in Client,
             HGetL1Hit(c) \/ HGetL2(c) \/ HFinish(c) \/ HSet(c) \/ HDelete(c) \/ HDeleteL1(c)
      PROVE  Next
  BY <1>1 DEF HGetL1Hit, HGetL2, HFinish, HSet, HDelete, HDeleteL1, Next
<1> QED
  BY <1>1 DEF HistoryNext, HTick, historyVars, Next

LEMMA Base == HistorySpec => [](Typed /\ Ordered)
<1>1. HistoryInit => Typed /\ Ordered
  BY InitTyped, InitOrdered DEF HistoryInit
<1>2. Typed /\ Ordered /\ [HistoryNext]_historyVars => (Typed /\ Ordered)'
  BY Watches, NextTyped, NextOrdered
<1> QED
  BY <1>1, <1>2, PTL DEF HistorySpec

-----------------------------------------------------------------------------
LEMMA InitDated == HistoryInit => Dated
<1> SUFFICES ASSUME HistoryInit PROVE Dated
  OBVIOUS
<1>1. Idle.at = "idle" /\ Idle.value = 0
  BY DEF Idle
<1>2. 0 \in 0..MaxPause
  BY PauseAssumption
<1> QED
  BY <1>1, <1>2 DEF HistoryInit, Init, Dated, Carries, InL2, StalenessBounded

(* No time passes: it is enough that L1 and those who carry values to it have
   got them from somebody who carried them or from L2. *)
LEMMA DatedKept ==
    ASSUME Typed, Typed', Dated, gone' = gone,
           last' >= last,
           \A v \in Version : InL2(v)' => InL2(v) \/ v > last,
           pause' \in [Client -> 0..MaxPause],
           \A c \in Client : At(c, "idle")' \/ At(c, "getL2")' => pause'[c] = 0,
           \A c \in Client : Carries(c)' =>
               \/ InL2(client[c].value)'
               \/ Carries(c) /\ client'[c].value = client[c].value /\ pause'[c] = pause[c],
           \A n \in Node : l1'[n] # Null =>
               \/ l1'[n] = l1[n]
               \/ \E c \in Client : Carries(c) /\ l1'[n].value = client[c].value
    PROVE  Dated'
<1>0. /\ L1TTL \in Nat /\ MaxPause \in Nat /\ last \in Nat /\ last' \in Nat
      /\ Version \subseteq Nat
  BY L1Expires, PauseAssumption DEF Typed, Version
<1>1. \A c \in Client : Carries(c) => client[c].value \in Version
  BY DEF Typed, ClientState, Version
<1>2. \A c \in Client : Carries(c)' => client'[c].value \in Version
  BY DEF Typed, ClientState, Version
<1>3. \A v \in Version : v > last' \/ InL2(v)' => gone'[v] = 0
  BY <1>0 DEF Dated
<1>4. ASSUME NEW c \in Client, Carries(c)', ~InL2(client[c].value)'
      PROVE  gone'[client'[c].value] <= pause'[c]
  <2>1. Carries(c) /\ client'[c].value = client[c].value /\ pause'[c] = pause[c]
    BY <1>4
  <2>2. client[c].value \in Version /\ pause[c] \in Nat
    BY <1>1, <2>1 DEF Dated
  <2> QED
    BY <2>1, <2>2 DEF Dated
<1>5. ASSUME NEW n \in Node, l1'[n] # Null, ~InL2(l1[n].value)'
      PROVE  gone'[l1'[n].value] + l1'[n].life <= L1TTL + MaxPause
  <2> DEFINE v == l1'[n].value
  <2>1. v \in Version /\ l1'[n].life \in 0..L1TTL
    BY <1>5, Entries DEF Typed
  <2>2. gone[v] \in Nat /\ (InL2(v) => gone[v] = 0)
    BY <2>1 DEF Dated
  <2>3. CASE \E c \in Client : Carries(c) /\ v = client[c].value
    <3>1. PICK c \in Client : Carries(c) /\ v = client[c].value
      BY <2>3
    <3>2. pause[c] \in 0..MaxPause /\ (~InL2(v) => gone[v] <= pause[c])
      BY <3>1 DEF Dated
    <3> HIDE DEF v
    <3>3. gone[v] <= MaxPause
      BY <1>0, <2>2, <3>2
    <3>4. gone[v] + l1'[n].life <= L1TTL + MaxPause
      BY <1>0, <2>1, <2>2, <3>3
    <3> QED
      BY <3>4 DEF v
  <2>4. CASE l1'[n] = l1[n]
    <3>1. ~InL2(v) => gone[v] + l1[n].life <= L1TTL + MaxPause
      BY <1>5, <2>4 DEF Dated, StalenessBounded
    <3>2. InL2(v) => gone[v] + l1'[n].life <= L1TTL + MaxPause
      BY <1>0, <2>1, <2>2
    <3> QED
      BY <2>4, <3>1, <3>2
  <2> QED
    BY <1>5, <2>3, <2>4
<1> QED
  BY <1>3, <1>4, <1>5 DEF Dated, StalenessBounded

(* A tick: what is out of Redis is out for one tick more, and what is in L1 has
   one tick less to live. *)
LEMMA DatedTick ==
    ASSUME Typed, Typed', Dated, HTick
    PROVE  Dated'
<1>0. /\ L1TTL \in Nat /\ MaxPause \in Nat /\ last \in Nat
      /\ last' = last /\ client' = client /\ l2' = Aged(l2)
      /\ l1' = [n \in Node |-> Aged(l1[n])]
  BY L1Expires, PauseAssumption DEF Typed, HTick, Tick
<1>1. \A v \in Version : InL2(v)' => InL2(v)
  <2>1. l2' # Null => l2 # Null /\ l2'.value = l2.value
    BY <1>0, AgedL2 DEF Typed
  <2> QED
    BY <2>1 DEF InL2
<1>2. gone \in [Version -> Nat] /\ pause \in [Client -> 0..MaxPause]
  BY DEF Dated
<1>3. \A v \in Version :
         gone'[v] = IF v <= last /\ ~InL2(v) /\ gone[v] <= L1TTL + MaxPause
                    THEN gone[v] + 1 ELSE gone[v]
  BY DEF HTick
<1>4. \A c \in Client :
         pause'[c] = IF client[c].at \in {"idle", "getL2"} THEN 0 ELSE pause[c] + 1
  BY DEF HTick
<1>5. gone' \in [Version -> Nat]
  <2>1. \A v \in Version : gone[v] + 1 \in Nat
    BY <1>2
  <2> QED
    BY <1>2, <2>1 DEF HTick
<1>6. pause' \in [Client -> 0..MaxPause]
  <2>1. \A c \in Client : client[c].at \notin {"idle", "getL2"} => pause[c] + 1 \in 0..MaxPause
    BY <1>0, <1>2 DEF HTick
  <2>2. 0 \in 0..MaxPause
    BY <1>0
  <2> QED
    BY <2>1, <2>2 DEF HTick
<1>7. \A v \in Version : v > last' \/ InL2(v)' => gone'[v] = 0
  <2> SUFFICES ASSUME NEW v \in Version, v > last \/ InL2(v) PROVE gone'[v] = 0
    BY <1>0, <1>1
  <2>1. gone[v] = 0 /\ v \in Nat
    BY DEF Dated, Version
  <2> QED
    BY <1>0, <1>3, <2>1
<1>8. \A c \in Client : At(c, "idle")' \/ At(c, "getL2")' => pause'[c] = 0
  BY <1>0, <1>4 DEF At
<1>9. ASSUME NEW c \in Client, Carries(c)' PROVE gone'[client'[c].value] <= pause'[c]
  <2>1. Carries(c) /\ client[c].value \in Version
    BY <1>0, <1>9 DEF Carries, Typed, ClientState, Version
  <2>2. gone[client[c].value] <= pause[c]
    BY <1>2, <2>1 DEF Dated
  <2>3. pause'[c] = pause[c] + 1
    BY <1>4, <2>1 DEF Carries
  <2>4. gone'[client[c].value] <= gone[client[c].value] + 1
    BY <1>2, <1>3, <2>1
  <2>5. \A g, h, p \in Nat : g <= p /\ h <= g + 1 => h <= p + 1
    OBVIOUS
  <2> QED
    BY <1>0, <1>2, <1>5, <2>1, <2>2, <2>3, <2>4, <2>5
<1>10. ASSUME NEW n \in Node, l1'[n] # Null
       PROVE  gone'[l1'[n].value] + l1'[n].life <= L1TTL + MaxPause
  <2>1. l1[n] # Null /\ l1'[n].value = l1[n].value /\ l1'[n].life = l1[n].life - 1
    BY <1>0, <1>10, AgedL1 DEF Typed
  <2>2. l1[n].value \in Version /\ l1[n].life \in 0..L1TTL
    BY <2>1, Entries DEF Typed
  <2>3. gone[l1[n].value] + l1[n].life <= L1TTL + MaxPause
    BY <1>0, <1>2, <2>1, <2>2 DEF Dated, StalenessBounded
  <2>4. gone'[l1[n].value] <= gone[l1[n].value] + 1
    BY <1>2, <1>3, <2>2
  <2>5. \A g, h, t, m \in Nat : g + t <= m /\ h <= g + 1 => h + (t - 1) <= m
    OBVIOUS
  <2>6. gone[l1[n].value] \in Nat /\ gone'[l1[n].value] \in Nat /\ l1[n].life \in Nat
    BY <1>2, <1>5, <2>2, <1>0
  <2>7. L1TTL + MaxPause \in Nat
    BY <1>0
  <2> QED
    BY <2>1, <2>3, <2>4, <2>5, <2>6, <2>7
<1> QED
  BY <1>5, <1>6, <1>7, <1>8, <1>9, <1>10 DEF Dated, StalenessBounded

LEMMA NextDated ==
    ASSUME Typed, Typed', Dated, [HistoryNext]_historyVars
    PROVE  Dated'
<1>0. last \in Nat /\ 0 \in 0..MaxPause /\ pause \in [Client -> 0..MaxPause]
  BY PauseAssumption DEF Typed, Dated
<1>1. ASSUME NEW c \in Client, HGetL1Hit(c) PROVE Dated'
  BY <1>0, <1>1, DatedKept DEF HGetL1Hit, GetL1Hit, vars, Dated, At, InL2, Carries
<1>2. ASSUME NEW c \in Client, HGetL2(c) PROVE Dated'
  <2>1. /\ UNCHANGED <<l1, l2, last, gone>> /\ pause' = [pause EXCEPT ![c] = 0]
    BY <1>2 DEF HGetL2, GetL1Miss, GetL2Fails, GetL2Miss, GetL2Hit
  <2>2. /\ \A d \in Client \ {c} : client'[d] = client[d]
        /\ Carries(c)' => InL2(client[c].value)'
    <3>1. CASE GetL2Hit(c)
      <4>1. Moved(c, "backfill", l2.value) /\ l2.value \in 0..MaxWrites
        BY <3>1, Steps DEF Version
      <4>2. client'[c].value = l2.value /\ \A d \in Client \ {c} : client'[d] = client[d]
        BY <4>1, MovedTyped
      <4> QED
        BY <3>1, <4>2 DEF GetL2Hit, InL2
    <3>2. CASE ~GetL2Hit(c)
      <4>1. \E stage \in {"idle", "getL2"} : Moved(c, stage, 0) /\ 0 \in 0..MaxWrites
        BY <1>2, <3>2, Steps DEF HGetL2
      <4>2. /\ client'[c].at \in {"idle", "getL2"}
            /\ \A d \in Client \ {c} : client'[d] = client[d]
        BY <4>1, MovedTyped
      <4> QED
        BY <4>2 DEF Carries
    <3> QED
      BY <3>1, <3>2
  <2>3. /\ pause' \in [Client -> 0..MaxPause] /\ pause'[c] = 0
        /\ \A d \in Client \ {c} : pause'[d] = pause[d]
    BY <1>0, <2>1
  <2>4. \A d \in Client : At(d, "idle")' \/ At(d, "getL2")' => pause'[d] = 0
    BY <2>2, <2>3 DEF Dated, At
  <2>5. \A d \in Client : Carries(d)' =>
               \/ InL2(client[d].value)'
               \/ Carries(d) /\ client'[d].value = client[d].value /\ pause'[d] = pause[d]
    BY <2>2, <2>3 DEF Carries
  <2>6. \A v \in Version : InL2(v)' => InL2(v)
    BY <2>1 DEF InL2
  <2> QED
    BY <1>0, <2>1, <2>3, <2>4, <2>5, <2>6, DatedKept
<1>3. ASSUME NEW c \in Client, HFinish(c) \/ HDeleteL1(c) PROVE Dated'
  <2>1. Moved(c, "idle", 0) /\ 0 \in 0..MaxWrites
    BY <1>3, Steps DEF HFinish, HDeleteL1
  <2>2. client'[c].at = "idle" /\ \A d \in Client \ {c} : client'[d] = client[d]
    BY <2>1, MovedTyped
  <2>3. /\ UNCHANGED <<l2, last, gone>> /\ pause' = [pause EXCEPT ![c] = 0]
    BY <1>3 DEF HFinish, HDeleteL1, Backfill, SetL1, DeleteL1
  <2>4. /\ pause' \in [Client -> 0..MaxPause] /\ pause'[c] = 0
        /\ \A d \in Client \ {c} : pause'[d] = pause[d]
    BY <1>0, <2>3
  <2>5. \A d \in Client : At(d, "idle")' \/ At(d, "getL2")' => pause'[d] = 0
    BY <2>2, <2>4 DEF Dated, At
  <2>6. \A d \in Client : Carries(d)' =>
               Carries(d) /\ client'[d].value = client[d].value /\ pause'[d] = pause[d]
    BY <2>2, <2>4 DEF Carries
  <2>7. \A n \in Node : l1'[n] # Null =>
               \/ l1'[n] = l1[n]
               \/ \E d \in Client : Carries(d) /\ l1'[n].value = client[d].value
    <3>1. CASE HFinish(c)
      <4>1. Carries(c) /\ client[c].value \in Version
        BY <3>1, Steps DEF HFinish
      <4>2. StoreL1(c, client[c].value) \/ UNCHANGED l1
        BY <3>1 DEF HFinish, Backfill, SetL1, L1Fails
      <4>3. \A n \in Node : l1'[n] = l1[n] \/ l1'[n].value = client[c].value
        BY <4>1, <4>2, Entries DEF StoreL1, Typed
      <4> QED
        BY <4>1, <4>3
    <3>2. CASE HDeleteL1(c)
      BY <3>2 DEF HDeleteL1, DeleteL1, L1Fails, Typed
    <3> QED
      BY <1>3, <3>1, <3>2
  <2>8. \A v \in Version : InL2(v)' => InL2(v)
    BY <2>3 DEF InL2
  <2> QED
    BY <1>0, <2>3, <2>4, <2>5, <2>6, <2>7, <2>8, DatedKept
<1>4. ASSUME NEW c \in Client, HSet(c) PROVE Dated'
  <2>1. /\ last' = last + 1 /\ UNCHANGED <<l1, pause, gone>> /\ last + 1 \in Version
        /\ last + 1 \in 0..MaxWrites
    BY <1>4, Steps DEF HSet, SetL2, SetL2Fails, Version
  <2>2. \A v \in Version : InL2(v)' => InL2(v) \/ v > last
    <3>1. Fresh(last + 1, L2TTL).value = last + 1
      BY <2>1, Entries
    <3> HIDE DEF Fresh
    <3>2. l2' = l2 \/ l2' = Fresh(last + 1, L2TTL)
      BY <1>4 DEF HSet, SetL2, SetL2Fails
    <3>3. last + 1 > last
      BY <1>0
    <3> QED
      BY <3>1, <3>2, <3>3 DEF InL2
  <2>3. /\ \A d \in Client \ {c} : client'[d] = client[d]
        /\ \/ client'[c] = client[c]
           \/ client'[c].at = "setL1" /\ InL2(client[c].value)'
    <3>1. CASE SetL2(c)
      <4>1. Moved(c, "setL1", last + 1)
        BY <3>1, Steps
      <4>2. /\ client'[c].at = "setL1" /\ client'[c].value = last + 1
            /\ \A d \in Client \ {c} : client'[d] = client[d]
        BY <2>1, <4>1, MovedTyped
      <4>3. l2' # Null /\ l2'.value = last + 1
        BY <2>1, <3>1, Entries DEF SetL2
      <4> QED
        BY <4>2, <4>3 DEF InL2
    <3>2. CASE SetL2Fails(c)
      BY <3>2 DEF SetL2Fails
    <3> QED
      BY <1>4, <3>1, <3>2 DEF HSet
  <2>4. \A d \in Client : At(d, "idle")' \/ At(d, "getL2")' => pause'[d] = 0
    BY <2>1, <2>3 DEF Dated, At
  <2>5. \A d \in Client : Carries(d)' =>
               \/ InL2(client[d].value)'
               \/ Carries(d) /\ client'[d].value = client[d].value /\ pause'[d] = pause[d]
    BY <2>1, <2>3 DEF Carries
  <2> QED
    BY <1>0, <2>1, <2>2, <2>4, <2>5, DatedKept
<1>5. ASSUME NEW c \in Client, HDelete(c) PROVE Dated'
  <2>1. UNCHANGED <<l1, last, pause, gone>> /\ l2' \in {l2, Null} /\ 0 \in 0..MaxWrites
    BY <1>5, Steps DEF HDelete, DeleteL2
  <2>2. \E stage \in {"deleteL1", "deleteL1Failed"} : Moved(c, stage, 0)
    BY <1>5, Steps DEF HDelete
  <2>3. /\ client'[c].at \in {"deleteL1", "deleteL1Failed"}
        /\ \A d \in Client \ {c} : client'[d] = client[d]
    BY <2>1, <2>2, MovedTyped
  <2>4. \A d \in Client : At(d, "idle")' \/ At(d, "getL2")' => pause'[d] = 0
    BY <2>1, <2>3 DEF Dated, At
  <2>5. \A d \in Client : Carries(d)' =>
               Carries(d) /\ client'[d].value = client[d].value /\ pause'[d] = pause[d]
    BY <2>1, <2>3 DEF Carries
  <2>6. \A v \in Version : InL2(v)' => InL2(v)
    BY <2>1 DEF InL2
  <2> QED
    BY <1>0, <2>1, <2>4, <2>5, <2>6, DatedKept
<1>6. ASSUME Lose \/ (\E n \in Node : Evict(n)) \/ UNCHANGED vars, UNCHANGED history
      PROVE  Dated'
  <2>1. UNCHANGED <<client, last, pause, gone>> /\ l2' \in {l2, Null}
    BY <1>6 DEF Lose, Evict, history, vars
  <2>2. \A n \in Node : l1'[n] \in {l1[n], Null}
    BY <1>6 DEF Lose, Evict, Typed, vars
  <2>3. \A v \in Version : InL2(v)' => InL2(v)
    BY <2>1 DEF InL2
  <2> QED
    BY <1>0, <2>1, <2>2, <2>3, DatedKept DEF Dated, At, Carries
<1> QED
  BY <1>1, <1>2, <1>3, <1>4, <1>5, <1>6, DatedTick DEF HistoryNext, historyVars

(* A value that left Redis is gone from every L1 after the L1 TTL and the pause
   of the operation that brought it there, for any number of instances and
   goroutines. *)
THEOREM StalenessIsBounded == HistorySpec => []StalenessBounded
<1>1. Typed /\ Typed' /\ Dated /\ [HistoryNext]_historyVars => Dated'
  BY NextDated
<1>2. Dated => StalenessBounded
  BY DEF Dated
<1> QED
  BY <1>1, <1>2, Base, InitDated, PTL DEF HistorySpec

-----------------------------------------------------------------------------
LEMMA InitPrivate == HistoryInit => Private
<1> SUFFICES ASSUME HistoryInit PROVE Private
  OBVIOUS
<1>1. Idle.at = "idle"
  BY DEF Idle
<1>2. floor \in [Client -> 0..(MaxWrites + 1)] /\ \A c \in Client : floor[c] = 0
  BY BoundAssumption DEF HistoryInit
<1>3. \A c \in Client : PrivateTo(c)
  BY <1>1, <1>2, HomeAssumption DEF HistoryInit, Init, PrivateTo, Carries, At
<1> QED
  BY <1>2, <1>3 DEF Private, Alone

(* What others do leaves a goroutine that is alone what it has: they do not
   reach its L1, and L2 only takes newer values from them. *)
LEMMA OthersKeep ==
    ASSUME Typed, Typed', NEW c \in Client, PrivateTo(c), floor \in [Client -> 0..(MaxWrites + 1)],
           floor'[c] = floor[c], client'[c] = client[c],
           l1'[Home[c]] # Null => l1[Home[c]] # Null /\ l1'[Home[c]].value = l1[Home[c]].value,
           last' \in {last, last + 1},
           l2' # Null => (l2 # Null /\ l2'.value = l2.value) \/ l2'.value = last + 1
    PROVE  PrivateTo(c)'
<1>1. floor[c] \in Nat /\ last \in Nat
  BY DEF Typed
<1> QED
  BY <1>1 DEF PrivateTo, Carries, At

LEMMA NextPrivate ==
    ASSUME Typed, Typed', Ordered, Private, [HistoryNext]_historyVars
    PROVE  Private'
<1>0. /\ floor \in [Client -> 0..(MaxWrites + 1)] /\ last \in Nat /\ last \in 0..MaxWrites
      /\ MaxWrites \in Nat /\ 0 \in 0..MaxWrites
      /\ \A c \in Client : floor[c] \in Nat /\ client[c].value \in 0..MaxWrites
      /\ \A c \in Client : Home[c] \in Node
  BY HomeAssumption, BoundAssumption DEF Typed, Private, ClientState
<1>01. \A c \in Alone : c \in Client /\ Home[c] \notin FaultyL1 /\ PrivateTo(c)
  BY DEF Private, Alone
<1>02. \A c \in Alone, d \in Client : d # c => Home[d] # Home[c]
  BY DEF Alone
<1>03. ASSUME NEW c \in Client, NEW v \in 0..(MaxWrites + 1), Told(c, v)
       PROVE  /\ floor' \in [Client -> 0..(MaxWrites + 1)]
              /\ \A d \in Client \ {c} : floor'[d] = floor[d]
              /\ c \in Alone => floor'[c] = v
  BY <1>0, <1>03 DEF Told
<1>1. ASSUME NEW c \in Client, HGetL1Hit(c) PROVE Private'
  <2> DEFINE v == l1[Home[c]].value
  <2>1. l1[Home[c]] # Null /\ At(c, "idle") /\ UNCHANGED <<l1, l2, client, last>>
    BY <1>1 DEF HGetL1Hit, GetL1Hit, vars
  <2>2. v \in 0..(MaxWrites + 1) /\ v <= last /\ (l2 # Null => v <= l2.value) /\ v \in Nat
    BY <1>0, <2>1, Entries DEF Typed, Ordered, Version
  <2>3. Told(c, v)
    BY <1>1 DEF HGetL1Hit
  <2> HIDE DEF v
  <2>4. /\ floor' \in [Client -> 0..(MaxWrites + 1)]
        /\ \A d \in Client \ {c} : floor'[d] = floor[d]
        /\ c \in Alone => floor'[c] = v
    BY <1>03, <2>2, <2>3
  <2>5. \A d \in Alone \ {c} : PrivateTo(d)'
    BY <1>0, <1>01, <2>1, <2>4 DEF PrivateTo, At, Carries
  <2>6. c \in Alone => PrivateTo(c)'
    BY <1>0, <2>1, <2>2, <2>4 DEF PrivateTo, At, Carries, v
  <2> QED
    BY <2>4, <2>5, <2>6 DEF Private
<1>2. ASSUME NEW c \in Client, HGetL2(c) PROVE Private'
  <2>1. UNCHANGED <<l1, l2, last, floor>>
    BY <1>2 DEF HGetL2, GetL1Miss, GetL2Fails, GetL2Miss, GetL2Hit
  <2>2. GetL2Hit(c) => Moved(c, "backfill", l2.value) /\ l2.value \in 0..MaxWrites /\ l2 # Null
    BY Steps DEF Version, GetL2Hit
  <2>3. GetL1Miss(c) => Moved(c, "getL2", 0) /\ (c \in Alone => l1[Home[c]] = Null)
    BY <1>01, Steps DEF GetL1Miss
  <2>4. GetL2Fails(c) \/ GetL2Miss(c) => Moved(c, "idle", 0) /\ (c \in Alone => l1[Home[c]] = Null)
    BY <1>01, Steps DEF GetL2Fails, GetL2Miss, PrivateTo
  <2>5. /\ \A d \in Client \ {c} : client'[d] = client[d]
        /\ \/ client'[c].at = "backfill" /\ client'[c].value = l2.value /\ l2 # Null
           \/ client'[c].at \in {"idle", "getL2"} /\ (c \in Alone => l1[Home[c]] = Null)
    BY <1>0, <1>2, <2>2, <2>3, <2>4, MovedTyped DEF HGetL2
  <2>6. \A d \in Alone \ {c} : PrivateTo(d)'
    BY <1>01, <2>1, <2>5 DEF PrivateTo, At, Carries
  <2>7. c \in Alone => PrivateTo(c)'
    BY <1>01, <2>1, <2>5 DEF PrivateTo, At, Carries
  <2> QED
    BY <2>1, <2>6, <2>7, <1>0 DEF Private
<1>3. ASSUME NEW c \in Client, HFinish(c) PROVE Private'
  <2> DEFINE v == client[c].value
  <2>1. Moved(c, "idle", 0) /\ Carries(c) /\ v \in Version
    BY <1>3, Steps DEF HFinish
  <2>2. client'[c].at = "idle" /\ \A d \in Client \ {c} : client'[d] = client[d]
    BY <1>0, <2>1, MovedTyped
  <2>3. /\ StoreL1(c, v) \/ L1Fails(c)
        /\ UNCHANGED <<l2, last>> /\ Told(c, v)
    BY <1>3 DEF HFinish, Backfill, SetL1
  <2>4. v <= last /\ (l2 # Null => v <= l2.value) /\ v \in 0..(MaxWrites + 1) /\ v \in Nat
    BY <1>0, <2>1 DEF Ordered, Version
  <2>5. Fresh(v, L1TTL).value = v
    BY <2>1, Entries
  <2> HIDE DEF v, Fresh
  <2>6. /\ floor' \in [Client -> 0..(MaxWrites + 1)]
        /\ \A d \in Client \ {c} : floor'[d] = floor[d]
        /\ c \in Alone => floor'[c] = v
    BY <1>03, <2>3, <2>4
  <2>7. c \in Alone => l1'[Home[c]].value = v
    BY <1>0, <1>01, <2>3, <2>5 DEF StoreL1, L1Fails, Typed
  <2>8. \A d \in Alone \ {c} : l1'[Home[d]] = l1[Home[d]]
    BY <1>0, <1>01, <1>02, <2>3 DEF StoreL1, L1Fails, Typed
  <2>9. \A d \in Alone \ {c} : PrivateTo(d)'
    BY <1>01, <2>2, <2>3, <2>6, <2>8 DEF PrivateTo, At, Carries
  <2>10. c \in Alone => PrivateTo(c)'
    BY <1>0, <2>2, <2>3, <2>4, <2>6, <2>7 DEF PrivateTo, At, Carries
  <2> QED
    BY <2>6, <2>9, <2>10 DEF Private
<1>4. ASSUME NEW c \in Client, HSet(c) PROVE Private'
  <2>1. /\ last' = last + 1 /\ UNCHANGED <<l1, floor>> /\ last + 1 \in Version
        /\ last + 1 \in 0..MaxWrites
    BY <1>4, Steps DEF HSet, SetL2, SetL2Fails, Version
  <2>2. l2' = l2 \/ l2'.value = last + 1
    <3>1. Fresh(last + 1, L2TTL).value = last + 1
      BY <2>1, Entries
    <3> HIDE DEF Fresh
    <3> QED
      BY <1>4, <3>1 DEF HSet, SetL2, SetL2Fails
  <2>3. /\ \A d \in Client \ {c} : client'[d] = client[d]
        /\ client'[c] = client[c] \/ (client'[c].at = "setL1" /\ client'[c].value = last + 1)
    <3>1. SetL2(c) => Moved(c, "setL1", last + 1)
      BY Steps
    <3>2. SetL2Fails(c) => client' = client
      BY DEF SetL2Fails
    <3> QED
      BY <1>4, <2>1, <3>1, <3>2, MovedTyped DEF HSet
  <2>4. \A d \in Alone : client'[d] = client[d] => PrivateTo(d)'
    BY <1>0, <1>01, <2>1, <2>2, OthersKeep
  <2>5. c \in Alone /\ client'[c].at = "setL1" /\ client'[c].value = last + 1 => PrivateTo(c)'
    BY <1>0, <1>01, <2>1, <2>2 DEF PrivateTo, At, Carries
  <2> QED
    BY <1>0, <1>01, <2>1, <2>3, <2>4, <2>5 DEF Private
<1>5. ASSUME NEW c \in Client, HDelete(c) PROVE Private'
  <2>1. UNCHANGED <<l1, last>> /\ l2' \in {l2, Null}
    BY <1>5, Steps DEF HDelete, DeleteL2
  <2>2. \/ Moved(c, "deleteL1", 0) /\ l2' = Null
        \/ Moved(c, "deleteL1Failed", 0)
    BY <1>5, Steps DEF HDelete
  <2>3. /\ \A d \in Client \ {c} : client'[d] = client[d]
        /\ \/ client'[c].at = "deleteL1" /\ l2' = Null
           \/ client'[c].at = "deleteL1Failed"
    BY <1>0, <2>2, MovedTyped
  <2> DEFINE v == IF At(c, "deleteL1")' THEN last + 1 ELSE floor[c]
  <2>4. Told(c, v)
    BY <1>5 DEF HDelete
  <2>5. v \in 0..(MaxWrites + 1)
    BY <1>0
  <2>6. (v = last + 1 /\ l2' = Null) \/ v = floor[c]
    BY <2>3 DEF At
  <2> HIDE DEF v
  <2>7. /\ floor' \in [Client -> 0..(MaxWrites + 1)]
        /\ \A d \in Client \ {c} : floor'[d] = floor[d]
        /\ c \in Alone => floor'[c] = v
    BY <1>03, <2>4, <2>5
  <2>8. \A d \in Alone \ {c} : PrivateTo(d)'
    BY <1>0, <1>01, <2>1, <2>3, <2>7, OthersKeep
  <2>9. c \in Alone => PrivateTo(c)'
    BY <1>0, <1>01, <2>1, <2>3, <2>6, <2>7 DEF PrivateTo, At, Carries
  <2> QED
    BY <2>7, <2>8, <2>9 DEF Private
<1>6. ASSUME NEW c \in Client, HDeleteL1(c) PROVE Private'
  <2>1. Moved(c, "idle", 0) /\ UNCHANGED <<l2, last, floor>>
    BY <1>6, Steps DEF HDeleteL1, DeleteL1
  <2>2. client'[c].at = "idle" /\ \A d \in Client \ {c} : client'[d] = client[d]
    BY <1>0, <2>1, MovedTyped
  <2>3. l1' = [l1 EXCEPT ![Home[c]] = Null] \/ L1Fails(c)
    BY <1>6 DEF HDeleteL1, DeleteL1
  <2>4. c \in Alone => l1'[Home[c]] = Null
    BY <1>0, <1>01, <2>3 DEF L1Fails, Typed
  <2>5. \A d \in Alone \ {c} : l1'[Home[d]] = l1[Home[d]]
    BY <1>0, <1>01, <1>02, <2>3 DEF L1Fails, Typed
  <2>6. \A d \in Alone \ {c} : PrivateTo(d)'
    BY <1>01, <2>1, <2>2, <2>5 DEF PrivateTo, At, Carries
  <2>7. c \in Alone => PrivateTo(c)'
    BY <1>01, <2>1, <2>2, <2>4 DEF PrivateTo, At, Carries
  <2> QED
    BY <1>0, <2>1, <2>6, <2>7 DEF Private
<1>7. ASSUME Lose \/ (\E n \in Node : Evict(n)) \/ Tick \/ UNCHANGED vars, UNCHANGED floor
      PROVE  Private'
  <2>1. /\ UNCHANGED <<client, last, floor>>
        /\ l2' # Null => l2 # Null /\ l2'.value = l2.value
    BY <1>7, AgedL2 DEF Lose, Evict, Tick, vars, Typed
  <2>2. \A n \in Node : l1'[n] # Null => l1[n] # Null /\ l1'[n].value = l1[n].value
    BY <1>7, AgedL1 DEF Lose, Evict, Tick, vars, Typed
  <2>3. \A d \in Alone : PrivateTo(d)'
    BY <1>0, <1>01, <2>1, <2>2, OthersKeep
  <2> QED
    BY <1>0, <2>1, <2>3 DEF Private
<1> QED
  BY <1>1, <1>2, <1>3, <1>4, <1>5, <1>6, <1>7 DEF HistoryNext, HTick, history, historyVars

(* A goroutine that has its instance to itself never goes back in time, whatever
   other instances write and delete and however often Redis fails. *)
THEOREM SessionsAreOrdered == HistorySpec => []SessionOrder
<1>1. Typed /\ Typed' /\ Ordered /\ Private /\ [HistoryNext]_historyVars => Private'
  BY NextPrivate
<1>2. Private => SessionOrder
  BY DEF Private, PrivateTo, SessionOrder, Carries, At
<1> QED
  BY <1>1, <1>2, Base, InitPrivate, PTL DEF HistorySpec

(* Every variable of the two levels keeps its type. *)
THEOREM TypeCorrect == HistorySpec => []TypeOK
<1>1. Typed /\ Ordered => TypeOK
  <2> SUFFICES ASSUME Typed, Ordered PROVE TypeOK
    OBVIOUS
  <2>1. \A c \in Client : client[c] \in [at : Stages, value : 0..last]
    <3> SUFFICES ASSUME NEW c \in Client PROVE client[c] \in [at : Stages, value : 0..last]
      OBVIOUS
    <3>1. client[c] \in ClientState /\ client[c].value \in 0..MaxWrites /\ client[c].value <= last
      BY DEF Typed, Ordered, ClientState
    <3>2. client[c].value \in 0..last
      BY <3>1 DEF Typed
    <3> QED
      BY <3>1, <3>2 DEF ClientState
  <2>2. client \in [Client -> [at : Stages, value : 0..last]]
    BY <2>1 DEF Typed
  <2>3. l1 \in [Node -> Entry \cup {Null}]
    BY Entries DEF Typed
  <2> QED
    BY <2>2, <2>3 DEF Typed, TypeOK, Carries
<1> QED
  BY <1>1, Base, PTL
=============================================================================
