------------------------- MODULE MemoryCache_proofs -------------------------
(***************************************************************************)
(* The in-memory cache for every set of keys and values, every size and    *)
(* TTL: map and list stay in step, the size bound holds, and the cache     *)
(* implements the contract of the Cache interface.  TypeOK and Coherent    *)
(* are inductive together: the list can only be kept without duplicates    *)
(* because the map knows which keys are in it.  What eviction may take     *)
(* follows from LRUSound, which orders the list by the record of use.      *)
(***************************************************************************)
EXTENDS MemoryCacheLRU, SequenceTheorems, FiniteSetTheorems, TLAPS

IInv == TypeOK /\ Coherent

(* No element occurs twice in s. *)
Distinct(s) == \A i, j \in DOMAIN s : s[i] = s[j] => i = j

-----------------------------------------------------------------------------
(* NewMemoryCache makes size and TTL positive whatever it is passed. *)
LEMMA Positive == MaxSize \in Nat /\ MaxSize >= 1 /\ TTL \in Nat /\ TTL >= 1
BY SizeAssumption, TimeAssumption DEF MaxSize, TTL

(* What is where in a list after an element was taken out of it. *)
LEMMA RemoveAtElements ==
    ASSUME NEW S, NEW s \in Seq(S), NEW i \in 1..Len(s)
    PROVE  /\ RemoveAt(s, i) \in Seq(S) /\ Len(RemoveAt(s, i)) = Len(s) - 1
           /\ DOMAIN RemoveAt(s, i) = 1..(Len(s) - 1)
           /\ \A j \in 1..(Len(s) - 1) : RemoveAt(s, i)[j] = IF j < i THEN s[j] ELSE s[j + 1]
<1> DEFINE a == SubSeq(s, 1, i - 1)
           b == SubSeq(s, i + 1, Len(s))
           r == RemoveAt(s, i)
<1>0. Len(s) \in Nat /\ DOMAIN s = 1..Len(s)
  OBVIOUS
<1>1. /\ a \in Seq(S) /\ Len(a) = i - 1
      /\ \A j \in 1..(i - 1) : a[j] = s[j]
  BY <1>0, SubSeqProperties
<1>2. /\ b \in Seq(S) /\ Len(b) = Len(s) - i
      /\ \A j \in 1..(Len(s) - i) : b[j] = s[i + j]
  <2>1. /\ i + 1 \in Int /\ Len(s) \in Int
        /\ \A j \in (i + 1)..Len(s) : s[j] \in S
    BY <1>0
  <2>2. /\ b \in Seq(S)
        /\ Len(b) = IF i + 1 <= Len(s) THEN Len(s) - (i + 1) + 1 ELSE 0
        /\ \A j \in 1..(Len(s) - (i + 1) + 1) : b[j] = s[(i + 1) + j - 1]
    BY <2>1, SubSeqProperties
  <2>3. ASSUME NEW j \in 1..(Len(s) - i) PROVE b[j] = s[i + j]
    <3>1. j \in 1..(Len(s) - (i + 1) + 1) /\ (i + 1) + j - 1 = i + j
      BY <1>0
    <3> QED
      BY <2>2, <3>1
  <2> HIDE DEF b
  <2>4. Len(b) = Len(s) - i
    <3>1. Len(b) = IF i + 1 <= Len(s) THEN Len(s) - (i + 1) + 1 ELSE 0
      BY <2>2
    <3>2. \A m, n \in Int : m <= n =>
            (IF m + 1 <= n THEN n - (m + 1) + 1 ELSE 0) = n - m
      OBVIOUS
    <3>3. i \in Int /\ Len(s) \in Int /\ i <= Len(s)
      BY <1>0
    <3> QED
      BY <3>1, <3>2, <3>3
  <2> QED
    BY <2>2, <2>3, <2>4
<1>3. r = a \o b
  BY DEF RemoveAt
<1> HIDE DEF a, b, r
<1>4. /\ r \in Seq(S) /\ Len(r) = Len(s) - 1 /\ DOMAIN r = 1..(Len(s) - 1)
      /\ \A j \in 1..(Len(s) - 1) : r[j] = IF j < i THEN s[j] ELSE s[j + 1]
  <2>1. /\ r \in Seq(S) /\ Len(r) = Len(a) + Len(b)
        /\ \A j \in 1..(Len(a) + Len(b)) :
              r[j] = IF j <= Len(a) THEN a[j] ELSE b[j - Len(a)]
    BY <1>1, <1>2, <1>3, ConcatProperties
  <2>2. Len(r) = Len(s) - 1
    BY <1>0, <1>1, <1>2, <2>1
  <2>3. ASSUME NEW j \in 1..(Len(s) - 1), j < i PROVE r[j] = s[j]
    <3>1. j \in 1..(i - 1) /\ j \in 1..(Len(a) + Len(b)) /\ j <= Len(a)
      BY <1>0, <1>1, <1>2, <2>3
    <3> QED
      BY <1>1, <2>1, <3>1
  <2>4. ASSUME NEW j \in 1..(Len(s) - 1), ~(j < i) PROVE r[j] = s[j + 1]
    <3>1. j - Len(a) \in 1..(Len(s) - i) /\ i + (j - Len(a)) = j + 1
      BY <1>0, <1>1, <2>4
    <3>2. j \in 1..(Len(a) + Len(b)) /\ ~(j <= Len(a))
      BY <1>0, <1>1, <1>2, <2>4
    <3>3. r[j] = b[j - Len(a)]
      BY <2>1, <3>2
    <3> QED
      BY <1>2, <3>1, <3>3
  <2> QED
    BY <2>1, <2>2, <2>3, <2>4
<1> QED
  BY <1>4 DEF r

(* Taking one element out of a list without duplicates. *)
LEMMA RemoveAtProperties ==
    ASSUME NEW S, NEW s \in Seq(S), Distinct(s), NEW i \in 1..Len(s)
    PROVE  /\ RemoveAt(s, i) \in Seq(S)
           /\ Len(RemoveAt(s, i)) = Len(s) - 1
           /\ Distinct(RemoveAt(s, i))
           /\ ToSet(RemoveAt(s, i)) = ToSet(s) \ {s[i]}
<1> DEFINE r == RemoveAt(s, i)
<1>0. Len(s) \in Nat /\ DOMAIN s = 1..Len(s)
  OBVIOUS
<1> HIDE DEF r
<1>4. /\ r \in Seq(S) /\ Len(r) = Len(s) - 1 /\ DOMAIN r = 1..(Len(s) - 1)
      /\ \A j \in 1..(Len(s) - 1) : r[j] = IF j < i THEN s[j] ELSE s[j + 1]
  BY RemoveAtElements DEF r
<1>5. Distinct(r)
  <2> SUFFICES ASSUME NEW j \in 1..(Len(s) - 1), NEW l \in 1..(Len(s) - 1), r[j] = r[l]
               PROVE  j = l
    BY <1>4 DEF Distinct
  <2> DEFINE at(m) == IF m < i THEN m ELSE m + 1
  <2>1. at(j) \in DOMAIN s /\ at(l) \in DOMAIN s
    BY <1>0
  <2>2. s[at(j)] = s[at(l)]
    BY <1>4
  <2>3. at(j) = at(l)
    BY <2>1, <2>2 DEF Distinct
  <2> QED
    BY <1>0, <2>3
<1>6. ToSet(r) \subseteq ToSet(s) \ {s[i]}
  BY <1>0, <1>4 DEF ToSet, Distinct
<1>7. ASSUME NEW x \in ToSet(s) \ {s[i]} PROVE x \in ToSet(r)
  <2>1. PICK j \in 1..Len(s) : s[j] = x /\ j # i
    BY <1>0, <1>7 DEF ToSet
  <2>2. CASE j < i
    BY <1>0, <1>4, <2>1, <2>2 DEF ToSet
  <2>3. CASE j > i
    <3>1. j - 1 \in 1..(Len(s) - 1) /\ r[j - 1] = x
      BY <1>0, <1>4, <2>1, <2>3
    <3> QED
      BY <1>4, <3>1 DEF ToSet
  <2> QED
    BY <1>0, <2>1, <2>2, <2>3
<1> QED
  BY <1>4, <1>5, <1>6, <1>7 DEF r

(* Putting a new element in front of a list without duplicates. *)
LEMMA PushFrontProperties ==
    ASSUME NEW S, NEW s \in Seq(S), Distinct(s), NEW k \in S, k \notin ToSet(s)
    PROVE  /\ <<k>> \o s \in Seq(S)
           /\ Len(<<k>> \o s) = Len(s) + 1
           /\ Distinct(<<k>> \o s)
           /\ ToSet(<<k>> \o s) = ToSet(s) \cup {k}
<1> DEFINE r == <<k>> \o s
<1>0. Len(s) \in Nat /\ DOMAIN s = 1..Len(s)
  OBVIOUS
<1>1. /\ r \in Seq(S) /\ Len(r) = Len(s) + 1 /\ DOMAIN r = 1..(Len(s) + 1)
      /\ r[1] = k
      /\ \A j \in 1..Len(s) : r[j + 1] = s[j]
  BY <1>0
<1> HIDE DEF r
<1>2. \A j \in 2..(Len(s) + 1) : j - 1 \in 1..Len(s) /\ r[j] = s[j - 1]
  <2> SUFFICES ASSUME NEW j \in 2..(Len(s) + 1)
               PROVE  j - 1 \in 1..Len(s) /\ r[j] = s[j - 1]
    OBVIOUS
  <2>1. j - 1 \in 1..Len(s) /\ (j - 1) + 1 = j
    BY <1>0
  <2> QED
    BY <1>1, <2>1
<1>3. \A j \in 1..Len(s) : s[j] # k
  BY <1>0 DEF ToSet
<1>4. Distinct(r)
  <2> SUFFICES ASSUME NEW i \in 1..(Len(s) + 1), NEW j \in 1..(Len(s) + 1), r[i] = r[j]
               PROVE  i = j
    BY <1>1 DEF Distinct
  <2>1. CASE i = 1 /\ j = 1
    BY <2>1
  <2>2. CASE i = 1 /\ j # 1
    BY <1>0, <1>1, <1>2, <1>3, <2>2
  <2>3. CASE i # 1 /\ j = 1
    BY <1>0, <1>1, <1>2, <1>3, <2>3
  <2>4. CASE i # 1 /\ j # 1
    <3>1. s[i - 1] = s[j - 1] /\ i - 1 \in DOMAIN s /\ j - 1 \in DOMAIN s
      BY <1>0, <1>2, <2>4
    <3>2. i - 1 = j - 1
      BY <3>1 DEF Distinct
    <3> QED
      BY <3>2
  <2> QED
    BY <2>1, <2>2, <2>3, <2>4
<1>5. ToSet(r) = ToSet(s) \cup {k}
  <2>1. ToSet(r) \subseteq ToSet(s) \cup {k}
    <3> SUFFICES ASSUME NEW j \in 1..(Len(s) + 1) PROVE r[j] \in ToSet(s) \cup {k}
      BY <1>1 DEF ToSet
    <3>1. CASE j = 1
      BY <1>1, <3>1
    <3>2. CASE j # 1
      BY <1>0, <1>2, <3>2 DEF ToSet
    <3> QED
      BY <3>1, <3>2
  <2>2. k \in ToSet(r)
    BY <1>0, <1>1 DEF ToSet
  <2>3. ASSUME NEW j \in 1..Len(s) PROVE s[j] \in ToSet(r)
    <3>1. j + 1 \in 1..(Len(s) + 1)
      BY <1>0
    <3> QED
      BY <1>1, <3>1 DEF ToSet
  <2> QED
    BY <1>0, <2>1, <2>2, <2>3 DEF ToSet
<1> QED
  BY <1>1, <1>4, <1>5 DEF r

(* Cutting a list without duplicates short. *)
LEMMA PrefixProperties ==
    ASSUME NEW S, NEW s \in Seq(S), Distinct(s), NEW n \in 0..Len(s)
    PROVE  /\ SubSeq(s, 1, n) \in Seq(S)
           /\ Len(SubSeq(s, 1, n)) = n
           /\ Distinct(SubSeq(s, 1, n))
           /\ ToSet(SubSeq(s, 1, n)) \subseteq ToSet(s)
<1>1. /\ SubSeq(s, 1, n) \in Seq(S) /\ Len(SubSeq(s, 1, n)) = n
      /\ DOMAIN SubSeq(s, 1, n) = 1..n
      /\ \A j \in 1..n : SubSeq(s, 1, n)[j] = s[j]
  BY SubSeqProperties
<1>2. 1..n \subseteq DOMAIN s
  OBVIOUS
<1> QED
  BY <1>1, <1>2 DEF Distinct, ToSet

-----------------------------------------------------------------------------
(* The list operations of the cache, for a key that is in the map. *)
LEMMA WithoutProperties ==
    ASSUME IInv, NEW k \in Key, Present(k)
    PROVE  /\ Without(k) \in Seq(Key)
           /\ Len(Without(k)) = Len(order) - 1
           /\ Distinct(Without(k))
           /\ ToSet(Without(k)) = {j \in Key : Present(j)} \ {k}
<1>1. order \in Seq(Key) /\ Distinct(order) /\ k \in ToSet(order)
  BY DEF IInv, TypeOK, Coherent, Distinct
<1>2. Position(k) \in 1..Len(order) /\ order[Position(k)] = k
  BY <1>1 DEF Position, ToSet
<1> QED
  BY <1>1, <1>2, RemoveAtProperties DEF Without, IInv, Coherent

(* Moving to the front leaves the same elements in the list. *)
LEMMA MovedToFrontProperties ==
    ASSUME IInv, NEW k \in Key, Present(k)
    PROVE  /\ MovedToFront(k) \in Seq(Key)
           /\ Len(MovedToFront(k)) = Len(order)
           /\ Distinct(MovedToFront(k))
           /\ ToSet(MovedToFront(k)) = {j \in Key : Present(j)}
<1>1. Len(order) \in Nat
  BY DEF IInv, TypeOK
<1>2. k \notin ToSet(Without(k))
  BY WithoutProperties
<1> QED
  BY <1>1, <1>2, WithoutProperties, PushFrontProperties DEF MovedToFront

(* Eviction makes room for one element. *)
LEMMA KeptProperties ==
    ASSUME IInv
    PROVE  /\ Kept \in Seq(Key)
           /\ Len(Kept) < MaxSize
           /\ Distinct(Kept)
           /\ ToSet(Kept) \subseteq {j \in Key : Present(j)}
<1> DEFINE n == IF Len(order) >= MaxSize THEN MaxSize - 1 ELSE Len(order)
<1>1. /\ order \in Seq(Key) /\ Distinct(order) /\ Len(order) \in Nat
      /\ ToSet(order) = {j \in Key : Present(j)}
  BY DEF IInv, TypeOK, Coherent, Distinct
<1>2. n \in 0..Len(order) /\ n < MaxSize
  BY <1>1, Positive
<1> HIDE DEF n
<1>3. Kept = SubSeq(order, 1, n)
  BY DEF Kept, n
<1> QED
  BY <1>1, <1>2, <1>3, PrefixProperties

(* A new entry is an entry, and is not expired. *)
LEMMA FreshEntry ==
    ASSUME NEW v \in Value
    PROVE  Fresh(v) \in Entry /\ Fresh(v) # Null /\ Fresh(v).life = TTL /\ Fresh(v).data = v
BY Positive, NullAssumption DEF Fresh, Entry

(* Removing a present entry keeps the invariant's part on map and list. *)
LEMMA RemoveLockedSound ==
    ASSUME IInv, NEW k \in Key, Present(k), RemoveLocked(k)
    PROVE  /\ items' \in [Key -> Entry \cup {Null}]
           /\ order' \in Seq(Key)
           /\ Distinct(order')
           /\ Coherent'
           /\ \A j \in Key : j # k => items'[j] = items[j]
           /\ items'[k] = Null
<1>1. /\ items \in [Key -> Entry \cup {Null}] /\ Len(order) \in Nat
      /\ items' = [items EXCEPT ![k] = Null] /\ order' = Without(k)
  BY DEF IInv, TypeOK, RemoveLocked
<1>2. {j \in Key : Present(j)} \ {k} = {j \in Key : Present(j)'}
  BY <1>1 DEF Present
<1> QED
  BY <1>1, <1>2, WithoutProperties, Positive DEF IInv, Coherent

(* Replacing present entries by others and reordering the list does not change
   what is in them. *)
LEMMA SameKeysCoherent ==
    ASSUME IInv, \A j \in Key : Present(j)' <=> Present(j),
           ToSet(order') = {j \in Key : Present(j)}, Len(order') = Len(order)
    PROVE  Coherent'
BY DEF IInv, Coherent

(* Nothing is doomed while the mutex is free. *)
LEMMA UnlockedSound ==
    ASSUME Unlocked, UNCHANGED doomed
    PROVE  doomed' \subseteq {j \in Key : Expired(j)'}
BY DEF Unlocked

-----------------------------------------------------------------------------
(* Every step preserves the invariant. *)
LEMMA Inductive == IInv /\ [Next]_vars => IInv'
<1> SUFFICES ASSUME IInv, [Next]_vars
             PROVE  IInv'
  OBVIOUS
<1>0. /\ items \in [Key -> Entry \cup {Null}] /\ order \in Seq(Key) /\ Distinct(order)
      /\ doomed \subseteq {j \in Key : Expired(j)}
      /\ stopped \in BOOLEAN /\ reply \in Reply
  BY DEF IInv, TypeOK, Distinct
<1>1. ASSUME items' \in [Key -> Entry \cup {Null}], order' \in Seq(Key), Distinct(order'),
             doomed' \subseteq {j \in Key : Expired(j)'},
             stopped' \in BOOLEAN, reply' \in Reply, Coherent'
      PROVE  IInv'
  BY <1>1 DEF IInv, TypeOK, Distinct
<1>2. ASSUME NEW k \in Key, GetAbsent(k) PROVE IInv'
  <2>1. reply' \in Reply /\ UNCHANGED <<items, order, doomed, stopped>>
    BY <1>2 DEF GetAbsent, Returned, Reply
  <2> QED
    BY <2>1 DEF IInv, TypeOK, Coherent, Present, Expired
<1>3. ASSUME NEW k \in Key, GetExpired(k) PROVE IInv'
  <2>1. /\ reply' \in Reply /\ stopped' = stopped /\ doomed' = doomed /\ Unlocked
        /\ RemoveLocked(k) /\ Present(k)
    BY <1>3 DEF GetExpired, Returned, Reply, Expired
  <2> QED
    BY <1>0, <1>1, <2>1, RemoveLockedSound, UnlockedSound
<1>4. ASSUME NEW k \in Key, GetLive(k) PROVE IInv'
  <2>1. /\ stopped' = stopped /\ doomed' = doomed /\ Unlocked
        /\ items' = items /\ order' = MovedToFront(k) /\ Present(k)
    BY <1>4 DEF GetLive
  <2>2. reply' \in Reply
    <3>1. items[k].data \in Value
      BY <1>0, <2>1 DEF Present, Entry
    <3> QED
      BY <1>4, <3>1 DEF GetLive, Returned, Reply
  <2>3. Coherent'
    BY <2>1, MovedToFrontProperties, SameKeysCoherent DEF Present
  <2> QED
    BY <1>0, <1>1, <2>1, <2>2, <2>3, MovedToFrontProperties, UnlockedSound
<1>5. ASSUME NEW k \in Key, Delete(k) PROVE IInv'
  <2>1. /\ reply' \in Reply /\ stopped' = stopped /\ doomed' = doomed /\ Unlocked
    BY <1>5 DEF Delete, Returned, Reply
  <2>2. CASE Present(k)
    <3>1. RemoveLocked(k)
      BY <1>5, <2>2 DEF Delete
    <3> QED
      BY <1>0, <1>1, <2>1, <2>2, <3>1, RemoveLockedSound, UnlockedSound
  <2>3. CASE ~Present(k)
    <3>1. UNCHANGED <<items, order>>
      BY <1>5, <2>3 DEF Delete
    <3> QED
      BY <2>1, <3>1 DEF IInv, TypeOK, Coherent, Present, Expired
  <2> QED
    BY <2>2, <2>3
<1>6. ASSUME NEW k \in Key, NEW v \in Value, SetFails(k, v) PROVE IInv'
  <2>1. reply' \in Reply /\ UNCHANGED <<items, order, doomed, stopped>>
    BY <1>6 DEF SetFails, Returned, Reply
  <2> QED
    BY <2>1 DEF IInv, TypeOK, Coherent, Present, Expired
<1>7. ASSUME NEW k \in Key, NEW v \in Value, SetExisting(k, v) PROVE IInv'
  <2>1. /\ reply' \in Reply /\ stopped' = stopped /\ doomed' = doomed /\ Unlocked
        /\ items' = [items EXCEPT ![k] = Fresh(v)] /\ order' = MovedToFront(k) /\ Present(k)
    BY <1>7 DEF SetExisting, Returned, Reply
  <2>2. items' \in [Key -> Entry \cup {Null}] /\ \A j \in Key : Present(j)' <=> Present(j)
    BY <1>0, <2>1, FreshEntry DEF Present
  <2>3. Coherent'
    BY <2>1, <2>2, MovedToFrontProperties, SameKeysCoherent
  <2> QED
    BY <1>0, <1>1, <2>1, <2>2, <2>3, MovedToFrontProperties, UnlockedSound
<1>8. ASSUME NEW k \in Key, NEW v \in Value, SetNew(k, v) PROVE IInv'
  <2>1. /\ reply' \in Reply /\ stopped' = stopped /\ doomed' = doomed /\ Unlocked
        /\ ~Present(k) /\ order' = <<k>> \o Kept
        /\ items' = [j \in Key |-> IF j = k THEN Fresh(v)
                                   ELSE IF j \in ToSet(Kept) THEN items[j] ELSE Null]
    BY <1>8 DEF SetNew, Returned, Reply
  <2>2. items' \in [Key -> Entry \cup {Null}]
    BY <1>0, <2>1, FreshEntry
  <2>3. k \notin ToSet(Kept)
    BY <2>1, KeptProperties
  <2>4. /\ order' \in Seq(Key) /\ Distinct(order')
        /\ Len(order') = Len(Kept) + 1 /\ ToSet(order') = ToSet(Kept) \cup {k}
    BY <2>1, <2>3, KeptProperties, PushFrontProperties
  <2>5. ToSet(Kept) \cup {k} = {j \in Key : Present(j)'}
    BY <2>1, KeptProperties, FreshEntry DEF Present
  <2>6. Len(Kept) + 1 <= MaxSize
    <3>1. Len(Kept) \in Nat
      BY KeptProperties
    <3> QED
      BY <3>1, KeptProperties, Positive
  <2> QED
    BY <1>0, <1>1, <2>1, <2>2, <2>4, <2>5, <2>6, UnlockedSound DEF Coherent
<1>9. CASE Close
  <2>1. reply' \in Reply /\ stopped' \in BOOLEAN /\ UNCHANGED <<items, order, doomed>>
    BY <1>9 DEF Close, Returned, Reply
  <2> QED
    BY <2>1 DEF IInv, TypeOK, Coherent, Present, Expired
<1>10. CASE StartSweep
  <2>1. doomed' = {j \in Key : Expired(j)} /\ UNCHANGED <<items, order, stopped, reply>>
    BY <1>10 DEF StartSweep
  <2> QED
    BY <2>1 DEF IInv, TypeOK, Coherent, Present, Expired
<1>11. ASSUME NEW k \in Key, SweepOne(k) PROVE IInv'
  <2>1. /\ stopped' = stopped /\ reply' = reply /\ doomed' = doomed \ {k}
        /\ k \in doomed /\ RemoveLocked(k) /\ Present(k)
    BY <1>0, <1>11 DEF SweepOne, Expired
  <2>2. \A j \in Key : j # k => (Expired(j)' <=> Expired(j))
    BY <2>1, RemoveLockedSound DEF Expired, Present
  <2>3. doomed' \subseteq {j \in Key : Expired(j)'}
    BY <1>0, <2>1, <2>2
  <2> QED
    BY <1>0, <1>1, <2>1, <2>3, RemoveLockedSound
<1>12. CASE Tick
  <2>1. UNCHANGED <<order, doomed, stopped, reply>> /\ items' = [j \in Key |-> Aged(items[j])]
    BY <1>12 DEF Tick
  <2>2. ASSUME NEW j \in Key
        PROVE  /\ items'[j] \in Entry \cup {Null}
               /\ Present(j)' <=> Present(j)
               /\ Expired(j) => Expired(j)'
    <3>1. items'[j] = Aged(items[j]) /\ items[j] \in Entry \cup {Null}
      BY <1>0, <2>1
    <3>2. CASE items[j] = Null
      BY <3>1, <3>2 DEF Aged, Present, Expired
    <3>3. CASE items[j] \in Entry
      <4>1. Aged(items[j]) \in Entry /\ (items[j].life < 0 => Aged(items[j]) = items[j])
        BY <3>3, NullAssumption, Positive DEF Aged, Entry
      <4> QED
        BY <3>1, <3>3, <4>1, NullAssumption DEF Present, Expired
    <3> QED
      BY <3>1, <3>2, <3>3
  <2>3. items' \in [Key -> Entry \cup {Null}]
    BY <2>1, <2>2
  <2> QED
    BY <1>0, <1>1, <2>1, <2>2, <2>3 DEF IInv, Coherent
<1>13. CASE UNCHANGED vars
  BY <1>13 DEF IInv, TypeOK, Coherent, Present, Expired, vars
<1> QED
  BY <1>2, <1>3, <1>4, <1>5, <1>6, <1>7, <1>8, <1>9, <1>10, <1>11, <1>12, <1>13
  DEF Next, Sweep

(* The invariant holds in every reachable state. *)
THEOREM Invariance == Spec => []IInv
<1>1. Init => IInv
  <2> SUFFICES ASSUME Init PROVE IInv
    OBVIOUS
  <2>1. order = <<>> /\ DOMAIN order = {} /\ Len(order) = 0
    BY DEF Init
  <2>2. ToSet(order) = {} /\ {k \in Key : Present(k)} = {}
    BY <2>1 DEF Init, ToSet, Present
  <2>3. reply \in Reply
    BY DEF Init, Reply
  <2>4. items \in [Key -> Entry \cup {Null}] /\ order \in Seq(Key)
    BY <2>1, EmptySeq DEF Init
  <2>5. TypeOK
    BY <2>1, <2>3, <2>4 DEF Init, TypeOK
  <2>6. Coherent
    BY <2>1, <2>2, Positive DEF Coherent
  <2> QED
    BY <2>5, <2>6 DEF IInv
<1> QED
  BY <1>1, Inductive, PTL DEF Spec

(* Every variable keeps its type, and the list has no duplicates. *)
THEOREM TypeCorrect == Spec => []TypeOK
BY Invariance, PTL DEF IInv

(* Map and list never come apart, and the cache never outgrows its size. *)
THEOREM AlwaysCoherent == Spec => []Coherent
BY Invariance, PTL DEF IInv

-----------------------------------------------------------------------------
(* What is served of an entry, before and after a tick. *)
LEMMA ServedProperties ==
    ASSUME NEW e \in Entry \cup {Null}
    PROVE  /\ Served(e) = Null <=> (e = Null \/ e.life < 0)
           /\ Served(e) # Null => /\ Served(e) \in [value : Value, life : 0..TTL]
                                 /\ Served(e) = [value |-> e.data, life |-> e.life]
<1>1. CASE e = Null
  BY <1>1 DEF Served
<1>2. CASE e \in Entry
  <2>1. e # Null /\ e.data \in Value /\ e.life \in -1..TTL
    BY <1>2, NullAssumption DEF Entry
  <2>2. CASE e.life = -1
    BY <2>1, <2>2 DEF Served
  <2>3. CASE e.life \in 0..TTL
    <3>1. /\ Served(e) = [value |-> e.data, life |-> e.life]
          /\ Served(e) \in [value : Value, life : 0..TTL]
      BY <2>1, <2>3 DEF Served
    <3>2. Served(e) # Null
      BY <3>1, NullAssumption
    <3> QED
      BY <2>1, <2>3, <3>1, <3>2
  <2> QED
    BY <2>1, <2>2, <2>3, Positive
<1> QED
  BY <1>1, <1>2

(* What a tick makes of what is served. *)
LEMMA ServedAges ==
    ASSUME NEW e \in Entry \cup {Null}
    PROVE  Served(Aged(e)) = IF Served(e) = Null \/ Served(e).life = 0 THEN Null
                             ELSE [Served(e) EXCEPT !.life = @ - 1]
<1>1. CASE e = Null
  BY <1>1 DEF Served, Aged
<1>2. CASE e \in Entry
  <2>1. e # Null /\ e.data \in Value /\ e.life \in -1..TTL
    BY <1>2, NullAssumption DEF Entry
  <2>2. CASE e.life = -1
    BY <2>1, <2>2 DEF Served, Aged
  <2>3. CASE e.life \in 0..TTL
    <3>1. Served(e) = [value |-> e.data, life |-> e.life] /\ Served(e) # Null
      BY <1>2, <2>1, <2>3, ServedProperties
    <3>2. /\ Aged(e) = [e EXCEPT !.life = @ - 1] /\ Aged(e) \in Entry
          /\ Aged(e).data = e.data /\ Aged(e).life = e.life - 1 /\ Aged(e) # Null
      <4>1. Aged(e) = [e EXCEPT !.life = @ - 1]
        BY <2>1, <2>3, Positive DEF Aged
      <4>2. e.life - 1 \in -1..TTL
        BY <2>3, Positive
      <4> QED
        BY <1>2, <4>1, <4>2, NullAssumption DEF Entry
    <3>3. Served(e).life = e.life
      BY <3>1
    <3>4. CASE e.life = 0
      <4>1. ~(Aged(e).life >= 0)
        BY <3>2, <3>4
      <4>2. Served(Aged(e)) = Null
        BY <4>1 DEF Served
      <4> QED
        BY <3>3, <3>4, <4>2
    <3>5. CASE e.life # 0
      <4>1. Aged(e).life >= 0
        BY <2>3, <3>2, <3>5, Positive
      <4>2. Served(Aged(e)) = [value |-> e.data, life |-> e.life - 1]
        BY <3>2, <4>1 DEF Served
      <4>3. [Served(e) EXCEPT !.life = @ - 1] = [value |-> e.data, life |-> e.life - 1]
        BY <3>1
      <4> QED
        BY <3>1, <3>3, <3>5, <4>2, <4>3
    <3> QED
      BY <3>4, <3>5
  <2> QED
    BY <2>1, <2>2, <2>3, Positive
<1> QED
  BY <1>1, <1>2

(* Every step is a step of the contract, or one its callers cannot see. *)
LEMMA StepSimulation ==
    ASSUME IInv, [Next]_vars
    PROVE  [Contract!Next]_(Contract!vars)
<1>0. items \in [Key -> Entry \cup {Null}]
  BY DEF IInv, TypeOK
<1>1. \A j \in Key : Store[j] = Served(items[j])
  BY DEF Store
<1>2. Store' = [j \in Key |-> Served(items'[j])]
  BY DEF Store
<1>3. ASSUME NEW k \in Key, Served(items[k]) = Null, items' = [items EXCEPT ![k] = Null]
      PROVE  Store' = Store
  <2>1. ASSUME NEW j \in Key PROVE Served(items'[j]) = Served(items[j])
    <3>1. CASE j = k
      BY <1>0, <1>3, <3>1 DEF Served
    <3>2. CASE j # k
      BY <1>0, <1>3, <3>2
    <3> QED
      BY <3>1, <3>2
  <2> QED
    BY <1>2, <2>1 DEF Store
<1>4. ASSUME NEW k \in Key, GetAbsent(k) PROVE Contract!Get(k)
  <2>1. Store[k] = Null /\ Store' = Store
    BY <1>1, <1>4 DEF GetAbsent, Present, Served, Store
  <2> QED
    BY <1>4, <2>1 DEF GetAbsent, Returned, Contract!Get, Contract!Returned
<1>5. ASSUME NEW k \in Key, GetExpired(k) PROVE Contract!Get(k)
  <2>1. Served(items[k]) = Null
    BY <1>0, <1>5, ServedProperties DEF GetExpired, Expired, Present
  <2>2. Store[k] = Null /\ Store' = Store
    BY <1>1, <1>3, <1>5, <2>1 DEF GetExpired, RemoveLocked
  <2> QED
    BY <1>5, <2>2 DEF GetExpired, Returned, Contract!Get, Contract!Returned
<1>6. ASSUME NEW k \in Key, GetLive(k) PROVE Contract!Get(k) \/ Contract!GetFails(k)
  <2>1. Store' = Store
    BY <1>6 DEF GetLive, Store
  <2>2. Store[k] # Null /\ Store[k].value = items[k].data
    BY <1>0, <1>1, <1>6, ServedProperties DEF GetLive, Present, Expired
  <2> QED
    BY <1>6, <2>1, <2>2
    DEF GetLive, Returned, Contract!Get, Contract!GetFails, Contract!Returned
<1>7. ASSUME NEW k \in Key, NEW v \in Value, SetFails(k, v) PROVE Contract!SetFails(k)
  BY <1>7 DEF SetFails, Store, Returned, Contract!SetFails, Contract!Returned
<1>8. ASSUME NEW v \in Value PROVE Served(Fresh(v)) = [value |-> v, life |-> TTL]
  BY FreshEntry, Positive DEF Served
<1>9. ASSUME NEW k \in Key, NEW v \in Value, NEW lost \in SUBSET (Key \ {k}),
             \A j \in Key : items'[j] = IF j = k THEN Fresh(v)
                                       ELSE IF j \in lost THEN Null ELSE items[j],
             Returned("set", k, "ok")
      PROVE  Contract!Set(k, v)
  <2>1. ASSUME NEW j \in Key
        PROVE  Served(items'[j]) = IF j = k THEN [value |-> v, life |-> TTL]
                                   ELSE IF j \in lost THEN Null ELSE Store[j]
    <3>1. Served(Null) = Null
      BY DEF Served
    <3> QED
      BY <1>1, <1>8, <1>9, <3>1
  <2>2. Store' = [j \in Key |-> IF j = k THEN [value |-> v, life |-> TTL]
                                ELSE IF j \in lost THEN Null ELSE Store[j]]
    BY <1>2, <2>1
  <2> QED
    BY <1>9, <2>2 DEF Returned, Contract!Set, Contract!Returned
<1>10. ASSUME NEW k \in Key, NEW v \in Value, SetExisting(k, v) PROVE Contract!Set(k, v)
  <2>1. \A j \in Key : items'[j] = IF j = k THEN Fresh(v)
                                   ELSE IF j \in {} THEN Null ELSE items[j]
    BY <1>0, <1>10 DEF SetExisting
  <2>2. Returned("set", k, "ok") /\ {} \in SUBSET (Key \ {k})
    BY <1>10 DEF SetExisting
  <2> QED
    BY <1>9, <2>1, <2>2
<1>11. ASSUME NEW k \in Key, NEW v \in Value, SetNew(k, v) PROVE Contract!Set(k, v)
  <2> DEFINE lost == (Key \ {k}) \ ToSet(Kept)
  <2>1. \A j \in Key : items'[j] = IF j = k THEN Fresh(v)
                                   ELSE IF j \in lost THEN Null ELSE items[j]
    BY <1>11 DEF SetNew
  <2>2. Returned("set", k, "ok") /\ lost \in SUBSET (Key \ {k})
    BY <1>11 DEF SetNew
  <2> HIDE DEF lost
  <2> QED
    BY <1>9, <2>1, <2>2
<1>12. ASSUME NEW k \in Key, Delete(k) PROVE Contract!Delete(k)
  <2>1. items' = [items EXCEPT ![k] = Null]
    <3>1. CASE Present(k)
      BY <1>12, <3>1 DEF Delete, RemoveLocked
    <3>2. CASE ~Present(k)
      BY <1>0, <1>12, <3>2 DEF Delete, Present
    <3> QED
      BY <3>1, <3>2
  <2>2. Store' = [Store EXCEPT ![k] = Null]
    <3>1. ASSUME NEW j \in Key PROVE Served(items'[j]) = IF j = k THEN Null ELSE Store[j]
      BY <1>0, <1>1, <2>1 DEF Served
    <3>2. Store \in [Key -> {Store[j] : j \in Key}] /\ DOMAIN Store = Key
      BY DEF Store
    <3> QED
      BY <1>2, <3>1, <3>2
  <2> QED
    BY <1>12, <2>2 DEF Delete, Returned, Contract!Delete, Contract!Returned
<1>13. ASSUME Close PROVE Contract!Close
  BY <1>13 DEF Close, Store, Returned, Contract!Close, Contract!Returned
<1>14. ASSUME StartSweep PROVE UNCHANGED Contract!vars
  BY <1>14 DEF StartSweep, Store, Contract!vars
<1>15. ASSUME NEW k \in Key, SweepOne(k) PROVE UNCHANGED Contract!vars
  <2>1. Expired(k)
    BY <1>15 DEF SweepOne, IInv, TypeOK
  <2>2. Served(items[k]) = Null
    BY <1>0, <2>1, ServedProperties DEF Expired, Present
  <2> QED
    BY <1>3, <1>15, <2>2 DEF SweepOne, RemoveLocked, Contract!vars
<1>16. ASSUME Tick PROVE Contract!Tick
  <2>1. \A j \in Key : items'[j] = Aged(items[j])
    BY <1>16 DEF Tick
  <2>2. ASSUME NEW j \in Key
        PROVE  Served(items'[j]) = IF Store[j] = Null \/ Store[j].life = 0 THEN Null
                                   ELSE [Store[j] EXCEPT !.life = @ - 1]
    BY <1>0, <1>1, <2>1, ServedAges
  <2>3. Store' = [j \in Key |-> IF Store[j] = Null \/ Store[j].life = 0 THEN Null
                                ELSE [Store[j] EXCEPT !.life = @ - 1]]
    BY <1>2, <2>2
  <2> QED
    BY <1>16, <2>3 DEF Tick, Contract!Tick
<1>17. ASSUME UNCHANGED vars PROVE UNCHANGED Contract!vars
  BY <1>17 DEF vars, Store, Contract!vars
<1> QED
  BY <1>4, <1>5, <1>6, <1>7, <1>10, <1>11, <1>12, <1>13, <1>14, <1>15, <1>16, <1>17
  DEF Next, Sweep, Contract!Next

(* The in-memory cache implements the Cache contract. *)
THEOREM KeepsContract == Spec => ImplementsContract
<1>1. Init => Contract!Init
  <2> SUFFICES ASSUME Init PROVE Contract!Init
    OBVIOUS
  <2>1. Store = [k \in Key |-> Null]
    BY DEF Init, Store, Served
  <2> QED
    BY <2>1 DEF Init, Contract!Init
<1> QED
  BY <1>1, Invariance, StepSimulation, PTL DEF Spec, ImplementsContract, Contract!Spec

-----------------------------------------------------------------------------
(* Every key in s has all keys before it among those that f has for it. *)
Sorted(s, f) == \A m \in DOMAIN s : \A i \in 1..(m - 1) : s[i] \in f[s[m]]

(* The order of the rest does not change if an element is taken out. *)
LEMMA RemoveAtSorted ==
    ASSUME NEW S, NEW s \in Seq(S), NEW i \in 1..Len(s), NEW f, Sorted(s, f)
    PROVE  Sorted(RemoveAt(s, i), f)
<1> DEFINE r == RemoveAt(s, i)
           at(m) == IF m < i THEN m ELSE m + 1
<1>0. Len(s) \in Nat /\ DOMAIN s = 1..Len(s) /\ i \in Nat
  OBVIOUS
<1>1. DOMAIN r = 1..(Len(s) - 1) /\ \A j \in 1..(Len(s) - 1) : r[j] = s[at(j)]
  BY RemoveAtElements
<1> HIDE DEF r
<1>2. ASSUME NEW m \in 1..(Len(s) - 1), NEW j \in 1..(m - 1) PROVE r[j] \in f[r[m]]
  <2>1. at(m) \in DOMAIN s /\ at(j) \in 1..(at(m) - 1) /\ j \in 1..(Len(s) - 1)
    BY <1>0
  <2>2. s[at(j)] \in f[s[at(m)]]
    BY <2>1 DEF Sorted
  <2> QED
    BY <1>1, <2>1, <2>2
<1>3. Sorted(r, f)
  BY <1>1, <1>2 DEF Sorted
<1> QED
  BY <1>3 DEF r

(* Nor if the end is cut off. *)
LEMMA PrefixSorted ==
    ASSUME NEW S, NEW s \in Seq(S), NEW n \in 0..Len(s), NEW f, Sorted(s, f)
    PROVE  Sorted(SubSeq(s, 1, n), f)
<1>1. /\ DOMAIN SubSeq(s, 1, n) = 1..n
      /\ \A j \in 1..n : SubSeq(s, 1, n)[j] = s[j]
  BY SubSeqProperties
<1>2. 1..n \subseteq DOMAIN s /\ n \in Nat
  OBVIOUS
<1>3. ASSUME NEW m \in 1..n, NEW j \in 1..(m - 1) PROVE j \in 1..n /\ s[j] \in f[s[m]]
  BY <1>2 DEF Sorted
<1> QED
  BY <1>1, <1>3 DEF Sorted

(* A key may be put in front once every other key has it among its own. *)
LEMMA PushFrontSorted ==
    ASSUME NEW S, NEW s \in Seq(S), NEW k \in S, NEW f, NEW g, Sorted(s, f),
           \A x \in ToSet(s) : f[x] \cup {k} \subseteq g[x]
    PROVE  Sorted(<<k>> \o s, g)
<1> DEFINE r == <<k>> \o s
<1>0. Len(s) \in Nat /\ DOMAIN s = 1..Len(s)
  OBVIOUS
<1>1. /\ DOMAIN r = 1..(Len(s) + 1)
      /\ r[1] = k
      /\ \A j \in 1..Len(s) : r[j + 1] = s[j]
  BY <1>0
<1> HIDE DEF r
<1>2. \A j \in 2..(Len(s) + 1) : j - 1 \in 1..Len(s) /\ r[j] = s[j - 1]
  <2> SUFFICES ASSUME NEW j \in 2..(Len(s) + 1)
               PROVE  j - 1 \in 1..Len(s) /\ r[j] = s[j - 1]
    OBVIOUS
  <2>1. j - 1 \in 1..Len(s) /\ (j - 1) + 1 = j
    BY <1>0
  <2> QED
    BY <1>1, <2>1
<1>3. ASSUME NEW m \in 1..(Len(s) + 1), NEW j \in 1..(m - 1) PROVE r[j] \in g[r[m]]
  <2>1. m \in 2..(Len(s) + 1)
    BY <1>0
  <2>2. m - 1 \in 1..Len(s) /\ r[m] = s[m - 1]
    BY <1>2, <2>1
  <2>3. f[r[m]] \cup {k} \subseteq g[r[m]]
    BY <1>0, <2>2 DEF ToSet
  <2>4. CASE j = 1
    BY <1>1, <2>3, <2>4
  <2>5. CASE j # 1
    <3>1. j \in 2..(Len(s) + 1) /\ j - 1 \in 1..((m - 1) - 1)
      BY <1>0, <2>1, <2>5
    <3>2. s[j - 1] \in f[s[m - 1]]
      BY <1>0, <2>2, <3>1 DEF Sorted
    <3> QED
      BY <1>2, <2>2, <2>3, <3>1, <3>2
  <2> QED
    BY <2>4, <2>5
<1>4. Sorted(r, g)
  BY <1>1, <1>3 DEF Sorted
<1> QED
  BY <1>4 DEF r

(* The first n keys of a list without duplicates are n different ones. *)
LEMMA ManyAhead ==
    ASSUME NEW S, NEW s \in Seq(S), Distinct(s), NEW n \in 0..Len(s),
           NEW T, IsFiniteSet(T), \A i \in 1..n : s[i] \in T
    PROVE  Cardinality(T) >= n
<1> DEFINE f == [i \in 1..n |-> s[i]]
<1>1. 1..n \subseteq DOMAIN s /\ n \in Nat
  OBVIOUS
<1>2. f \in Injection(1..n, T)
  BY <1>1 DEF Injection, IsInjective, Distinct
<1>3. Cardinality(1..n) <= Cardinality(T)
  BY <1>2, FS_Injection
<1>4. Cardinality(1..n) = n
  BY <1>1, FS_Interval
<1> QED
  BY <1>3, <1>4, FS_CardinalityType

-----------------------------------------------------------------------------
(* What the record of uses and the list say of each other: the keys ahead of a
   key have been used since it was, and a key that has gone without being
   deleted or expiring has had MaxSize others used since. *)
LRUSound ==
    /\ due \subseteq Key
    /\ since \in [Key -> SUBSET Key]
    /\ \A k \in Key : IsFiniteSet(since[k])
    /\ \A k \in due : ~Expired(k)
    /\ Sorted(order, since)
    /\ \A k \in due : ~Present(k) => Cardinality(since[k]) >= MaxSize

(* What a use of k records. *)
LEMMA UsedFacts ==
    ASSUME LRUSound, NEW k \in Key, Used(k)
    PROVE  /\ since' \in [Key -> SUBSET Key]
           /\ \A j \in Key : IsFiniteSet(since'[j])
           /\ \A j \in Key : j # k => since'[j] = since[j] \cup {k}
           /\ \A j \in Key : j # k => Cardinality(since[j]) <= Cardinality(since'[j])
           /\ \A j \in Key : Cardinality(since[j]) \in Nat /\ Cardinality(since'[j]) \in Nat
<1>0. since \in [Key -> SUBSET Key] /\ \A j \in Key : IsFiniteSet(since[j])
  BY DEF LRUSound
<1>1. since' = [j \in Key |-> IF j = k THEN {} ELSE since[j] \cup {k}]
  BY DEF Used
<1>2. since' \in [Key -> SUBSET Key]
  BY <1>0, <1>1
<1>3. ASSUME NEW j \in Key
      PROVE  /\ IsFiniteSet(since'[j])
             /\ j # k => since'[j] = since[j] \cup {k}
             /\ j # k => Cardinality(since[j]) <= Cardinality(since'[j])
             /\ Cardinality(since[j]) \in Nat
  <2>1. IsFiniteSet(since[j]) /\ Cardinality(since[j]) \in Nat
    BY <1>0, FS_CardinalityType
  <2>2. CASE j = k
    <3>1. since'[j] = {}
      BY <1>1, <2>2
    <3> QED
      BY <2>1, <2>2, <3>1, FS_EmptySet
  <2>3. CASE j # k
    <3>1. since'[j] = since[j] \cup {k}
      BY <1>1, <2>3
    <3>2. /\ IsFiniteSet(since[j] \cup {k})
          /\ Cardinality(since[j] \cup {k}) =
                IF k \in since[j] THEN Cardinality(since[j]) ELSE Cardinality(since[j]) + 1
      BY <2>1, FS_AddElement
    <3> QED
      BY <2>1, <2>3, <3>1, <3>2
  <2> QED
    BY <2>2, <2>3
<1>4. \A j \in Key : Cardinality(since'[j]) \in Nat
  BY <1>3, FS_CardinalityType
<1> QED
  BY <1>2, <1>3, <1>4

(* A use of a key that is in the map moves it to the front. *)
LEMMA MoveSound ==
    ASSUME IInv, LRUSound, NEW k \in Key, Present(k), Used(k), order' = MovedToFront(k)
    PROVE  Sorted(order', since')
<1>1. order \in Seq(Key) /\ k \in ToSet(order)
  BY DEF IInv, TypeOK, Coherent
<1>2. Position(k) \in 1..Len(order)
  BY <1>1 DEF Position, ToSet
<1>3. Without(k) \in Seq(Key) /\ ToSet(Without(k)) \subseteq Key \ {k}
  BY WithoutProperties
<1>4. Sorted(Without(k), since)
  BY <1>1, <1>2, RemoveAtSorted DEF Without, LRUSound
<1>5. \A x \in ToSet(Without(k)) : since[x] \cup {k} \subseteq since'[x]
  BY <1>3, UsedFacts
<1>6. PICK f : f = since
  OBVIOUS
<1>7. PICK g : g = since'
  OBVIOUS
<1>8. Sorted(<<k>> \o Without(k), g)
  BY <1>3, <1>4, <1>5, <1>6, <1>7, PushFrontSorted
<1> QED
  BY <1>7, <1>8 DEF MovedToFront

(* Taking a key out leaves the order of the others. *)
LEMMA RemoveSound ==
    ASSUME IInv, LRUSound, NEW k \in Key, Present(k), order' = Without(k)
    PROVE  Sorted(order', since)
<1>1. order \in Seq(Key) /\ k \in ToSet(order)
  BY DEF IInv, TypeOK, Coherent
<1>2. Position(k) \in 1..Len(order)
  BY <1>1 DEF Position, ToSet
<1> QED
  BY <1>1, <1>2, RemoveAtSorted DEF Without, LRUSound

(* A key that a new one pushes out has MaxSize others used since, the new one
   among them. *)
LEMMA EvictedLate ==
    ASSUME IInv, LRUSound, NEW k \in Key, ~Present(k), Used(k),
           NEW x \in Key, Present(x), x \notin ToSet(Kept)
    PROVE  Cardinality(since'[x]) >= MaxSize
<1>1. /\ order \in Seq(Key) /\ Distinct(order) /\ Len(order) \in Nat
      /\ DOMAIN order = 1..Len(order)
      /\ x \in ToSet(order) /\ k \notin ToSet(order)
  BY DEF IInv, TypeOK, Coherent, Distinct
<1>2. PICK m \in 1..Len(order) : order[m] = x
  BY <1>1 DEF ToSet
<1>3. m >= MaxSize /\ MaxSize - 1 \in 0..Len(order)
  <2> DEFINE n == IF Len(order) >= MaxSize THEN MaxSize - 1 ELSE Len(order)
  <2>1. n \in 0..Len(order)
    BY <1>1, Positive
  <2> HIDE DEF n
  <2>2. /\ DOMAIN SubSeq(order, 1, n) = 1..n
        /\ \A j \in 1..n : SubSeq(order, 1, n)[j] = order[j]
    BY <1>1, <2>1, SubSeqProperties
  <2>3. Kept = SubSeq(order, 1, n)
    BY DEF Kept, n
  <2>4. m \notin 1..n
    BY <1>2, <2>2, <2>3 DEF ToSet
  <2> QED
    BY <1>1, <1>2, <2>1, <2>4, Positive DEF n
<1> DEFINE T == since[x] \ {k}
<1>4. IsFiniteSet(since[x])
  BY DEF LRUSound
<1>5. IsFiniteSet(T) /\ Cardinality(T) \in Nat
  BY <1>4, FS_RemoveElement, FS_CardinalityType
<1>6. ASSUME NEW i \in 1..(MaxSize - 1) PROVE order[i] \in T
  <2>1. i \in 1..(m - 1) /\ i \in DOMAIN order /\ m \in DOMAIN order
    BY <1>1, <1>2, <1>3, Positive
  <2>2. order[i] \in since[order[m]]
    BY <2>1 DEF LRUSound, Sorted
  <2>3. order[i] # k
    BY <1>1, <2>1 DEF ToSet
  <2> QED
    BY <1>2, <2>2, <2>3
<1> HIDE DEF T
<1>7. Cardinality(T) >= MaxSize - 1
  BY <1>1, <1>3, <1>5, <1>6, ManyAhead
<1>8. since'[x] = T \cup {k} /\ k \notin T
  <2>1. x # k
    OBVIOUS
  <2> QED
    BY <2>1, UsedFacts DEF T
<1>9. Cardinality(T \cup {k}) = Cardinality(T) + 1
  BY <1>5, <1>8, FS_AddElement
<1> QED
  BY <1>5, <1>7, <1>8, <1>9, Positive

(* Every step of the cache that its record follows keeps both in agreement. *)
LEMMA LRUInductive == IInv /\ LRUSound /\ [LRUNext]_lruVars => LRUSound'
<1> SUFFICES ASSUME IInv, LRUSound, [LRUNext]_lruVars
             PROVE  LRUSound'
  OBVIOUS
<1>0. /\ items \in [Key -> Entry \cup {Null}] /\ due \subseteq Key
      /\ since \in [Key -> SUBSET Key] /\ \A j \in Key : IsFiniteSet(since[j])
      /\ \A j \in due : ~Expired(j)
      /\ \A j \in due : ~Present(j) => Cardinality(since[j]) >= MaxSize
      /\ Sorted(order, since)
  BY DEF IInv, TypeOK, LRUSound
<1>1. ASSUME NEW k \in Key, GetLive(k), Used(k), UNCHANGED due PROVE LRUSound'
  <2>1. items' = items /\ order' = MovedToFront(k) /\ Present(k)
    BY <1>1 DEF GetLive
  <2>2. Sorted(order', since')
    BY <1>1, <2>1, MoveSound
  <2>3. ASSUME NEW j \in due, ~Present(j)' PROVE Cardinality(since'[j]) >= MaxSize
    <3>1. j \in Key /\ j # k /\ ~Present(j)
      BY <1>0, <2>1, <2>3 DEF Present
    <3> QED
      BY <1>0, <1>1, <3>1, UsedFacts, Positive
  <2>4. \A j \in due : ~Expired(j)'
    BY <1>0, <2>1 DEF Expired, Present
  <2> QED
    BY <1>0, <1>1, <2>2, <2>3, <2>4, UsedFacts DEF LRUSound
<1>2. ASSUME NEW k \in Key, NEW v \in Value, SetExisting(k, v), Used(k), due' = due \cup {k}
      PROVE  LRUSound'
  <2>1. items' = [items EXCEPT ![k] = Fresh(v)] /\ order' = MovedToFront(k) /\ Present(k)
    BY <1>2 DEF SetExisting
  <2>2. Sorted(order', since')
    BY <1>2, <2>1, MoveSound
  <2>3. Present(k)' /\ ~Expired(k)'
    BY <1>0, <2>1, FreshEntry, Positive DEF Present, Expired
  <2>4. \A j \in Key : j # k => (Present(j)' <=> Present(j)) /\ (Expired(j)' <=> Expired(j))
    BY <1>0, <2>1 DEF Present, Expired
  <2>5. ASSUME NEW j \in due', ~Present(j)' PROVE Cardinality(since'[j]) >= MaxSize
    <3>1. j \in due /\ j \in Key /\ j # k /\ ~Present(j)
      BY <1>0, <1>2, <2>3, <2>4, <2>5
    <3> QED
      BY <1>0, <1>2, <3>1, UsedFacts, Positive
  <2>6. \A j \in due' : ~Expired(j)'
    BY <1>0, <1>2, <2>3, <2>4
  <2> QED
    BY <1>0, <1>2, <2>2, <2>5, <2>6, UsedFacts DEF LRUSound
<1>3. ASSUME NEW k \in Key, NEW v \in Value, SetNew(k, v), Used(k), due' = due \cup {k}
      PROVE  LRUSound'
  <2>1. /\ ~Present(k) /\ order' = <<k>> \o Kept
        /\ items' = [j \in Key |-> IF j = k THEN Fresh(v)
                                   ELSE IF j \in ToSet(Kept) THEN items[j] ELSE Null]
    BY <1>3 DEF SetNew
  <2>2. Sorted(order', since')
    <3> DEFINE n == IF Len(order) >= MaxSize THEN MaxSize - 1 ELSE Len(order)
    <3>1. order \in Seq(Key) /\ Len(order) \in Nat
      BY DEF IInv, TypeOK
    <3>2. n \in 0..Len(order) /\ Kept = SubSeq(order, 1, n)
      BY <3>1, Positive DEF Kept
    <3> HIDE DEF n
    <3>3. PICK f : f = since
      OBVIOUS
    <3>4. PICK g : g = since'
      OBVIOUS
    <3>5. Sorted(Kept, f)
      BY <1>0, <3>1, <3>2, <3>3, PrefixSorted
    <3>6. \A x \in ToSet(Kept) : f[x] \cup {k} \subseteq g[x]
      <4> SUFFICES ASSUME NEW x \in ToSet(Kept) PROVE f[x] \cup {k} \subseteq g[x]
        OBVIOUS
      <4>1. x \in Key /\ x # k
        BY <2>1, KeptProperties
      <4> QED
        BY <1>3, <3>3, <3>4, <4>1, UsedFacts
    <3>7. Sorted(<<k>> \o Kept, g)
      BY <3>5, <3>6, KeptProperties, PushFrontSorted
    <3> QED
      BY <2>1, <3>4, <3>7
  <2>3. Present(k)' /\ ~Expired(k)'
    BY <1>0, <2>1, FreshEntry, Positive DEF Present, Expired
  <2>4. ASSUME NEW j \in Key, j # k
        PROVE  items'[j] = IF j \in ToSet(Kept) THEN items[j] ELSE Null
    BY <2>1, <2>4
  <2>5. ASSUME NEW j \in due', ~Present(j)' PROVE Cardinality(since'[j]) >= MaxSize
    <3>1. j \in due /\ j \in Key /\ j # k
      BY <1>0, <1>3, <2>3, <2>5
    <3>2. CASE Present(j)
      <4>1. j \notin ToSet(Kept)
        BY <2>4, <2>5, <3>1, <3>2 DEF Present
      <4> QED
        BY <1>3, <2>1, <3>1, <3>2, <4>1, EvictedLate
    <3>3. CASE ~Present(j)
      BY <1>0, <1>3, <3>1, <3>3, UsedFacts, Positive
    <3> QED
      BY <3>2, <3>3
  <2>6. ASSUME NEW j \in due' PROVE ~Expired(j)'
    <3>1. CASE j = k
      BY <2>3, <3>1
    <3>2. CASE j # k
      <4>1. j \in due /\ j \in Key /\ ~Expired(j)
        BY <1>0, <1>3, <3>2
      <4> QED
        BY <2>4, <3>2, <4>1 DEF Expired, Present
    <3> QED
      BY <3>1, <3>2
  <2> QED
    BY <1>0, <1>3, <2>2, <2>5, <2>6, UsedFacts DEF LRUSound
<1>4. ASSUME NEW k \in Key, RemoveLocked(k), Present(k), due' \subseteq due \ {k}, UNCHANGED since
      PROVE  LRUSound'
  <2>1. Sorted(order', since')
    BY <1>4, RemoveSound DEF RemoveLocked
  <2>2. \A j \in Key : j # k => items'[j] = items[j]
    BY <1>0, <1>4 DEF RemoveLocked
  <2>3. ASSUME NEW j \in due'
        PROVE  j \in due /\ j \in Key /\ (Present(j)' <=> Present(j)) /\ ~Expired(j)'
    BY <1>0, <1>4, <2>2 DEF Present, Expired
  <2> QED
    BY <1>0, <1>4, <2>1, <2>3 DEF LRUSound
<1>5. ASSUME UNCHANGED <<items, order, since>>, due' \subseteq due PROVE LRUSound'
  <2>1. \A j \in Key : (Present(j)' <=> Present(j)) /\ (Expired(j)' <=> Expired(j))
    BY <1>5 DEF Present, Expired
  <2> QED
    BY <1>0, <1>5, <2>1 DEF LRUSound
<1>6. ASSUME NEW k \in Key, Delete(k), due' = due \ {k}, UNCHANGED since PROVE LRUSound'
  <2>1. CASE Present(k)
    BY <1>4, <1>6, <2>1 DEF Delete
  <2>2. CASE ~Present(k)
    BY <1>5, <1>6, <2>2 DEF Delete
  <2> QED
    BY <2>1, <2>2
<1>7. ASSUME Tick, due' = {j \in due : ~Expired(j)'}, UNCHANGED since PROVE LRUSound'
  <2>1. order' = order /\ items' = [j \in Key |-> Aged(items[j])]
    BY <1>7 DEF Tick
  <2>2. ASSUME NEW j \in Key PROVE Present(j)' <=> Present(j)
    <3>1. items'[j] = Aged(items[j]) /\ items[j] \in Entry \cup {Null}
      BY <1>0, <2>1
    <3>2. CASE items[j] = Null
      BY <3>1, <3>2 DEF Aged, Present
    <3>3. CASE items[j] \in Entry
      <4>1. Aged(items[j]) \in Entry
        BY <3>3, NullAssumption, Positive DEF Aged, Entry
      <4> QED
        BY <3>1, <3>3, <4>1, NullAssumption DEF Present
    <3> QED
      BY <3>1, <3>2, <3>3
  <2> QED
    BY <1>0, <1>7, <2>1, <2>2 DEF LRUSound
<1>8. ASSUME NEW k \in Key, GetExpired(k), UNCHANGED <<due, since>> PROVE LRUSound'
  <2>1. RemoveLocked(k) /\ Expired(k) /\ Present(k)
    BY <1>8 DEF GetExpired, Expired
  <2> QED
    BY <1>0, <1>4, <1>8, <2>1
<1>9. ASSUME NEW k \in Key, SweepOne(k), UNCHANGED <<due, since>> PROVE LRUSound'
  <2>1. RemoveLocked(k) /\ Expired(k) /\ Present(k)
    BY <1>9 DEF SweepOne, Expired, IInv, TypeOK
  <2> QED
    BY <1>0, <1>4, <1>9, <2>1
<1>10. ASSUME UNCHANGED <<due, since>>,
              \/ \E k \in Key : GetAbsent(k)
              \/ \E k \in Key, v \in Value : SetFails(k, v)
              \/ Close \/ StartSweep
       PROVE  LRUSound'
  BY <1>5, <1>10 DEF GetAbsent, SetFails, Close, StartSweep
<1>11. CASE UNCHANGED lruVars
  BY <1>5, <1>11 DEF lruVars, vars
<1> QED
  BY <1>1, <1>2, <1>3, <1>6, <1>7, <1>8, <1>9, <1>10, <1>11 DEF LRUNext, Sweep

(* Keeping a record does not change what the cache does. *)
LEMMA RecordOnly == LRUNext => Next
BY DEF LRUNext, Next, Sweep

(* An entry that is set, not deleted and not expired is there as long as fewer
   than MaxSize other keys have been used since its own last use. *)
THEOREM KeepsRecentlyUsed == LRUSpec => []RecentlyUsedAreKept
<1>1. LRUInit => LRUSound
  <2> SUFFICES ASSUME LRUInit PROVE LRUSound
    OBVIOUS
  <2>1. order = <<>> /\ DOMAIN order = {} /\ due = {} /\ since = [k \in Key |-> {}]
    BY DEF LRUInit, Init
  <2>2. Sorted(order, since)
    BY <2>1 DEF Sorted
  <2> QED
    BY <2>1, <2>2, FS_EmptySet DEF LRUSound
<1>2. LRUSpec => Spec
  <2>1. LRUInit => Init
    BY DEF LRUInit
  <2>2. [LRUNext]_lruVars => [Next]_vars
    BY RecordOnly DEF lruVars
  <2> QED
    BY <2>1, <2>2, PTL DEF LRUSpec, Spec
<1>3. LRUSound => RecentlyUsedAreKept
  <2> SUFFICES ASSUME LRUSound, NEW k \in due, ~Present(k), Cardinality(since[k]) < MaxSize
               PROVE  FALSE
    BY DEF RecentlyUsedAreKept
  <2>1. k \in Key /\ Cardinality(since[k]) >= MaxSize /\ Cardinality(since[k]) \in Nat
    BY FS_CardinalityType DEF LRUSound
  <2> QED
    BY <2>1, Positive
<1> QED
  BY <1>1, <1>2, <1>3, LRUInductive, Invariance, PTL DEF LRUSpec
=============================================================================
