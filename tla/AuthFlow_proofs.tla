--------------------------- MODULE AuthFlow_proofs ---------------------------
(***************************************************************************)
(* The authentication flow for any number of requests, tokens and users,   *)
(* whatever may fail.  The invariant is kept per request (SoundReq): a     *)
(* request's part of it speaks of the shared state only through facts that *)
(* other requests can never undo (Extends: rows stay, under their ids;     *)
(* revoked tokens stay revoked).                                           *)
(***************************************************************************)
EXTENDS GuardedAuth, AuthHistory, TLAPS

ReqType ==
    [stage : Stages, token : Token \cup {Null}, who : Identity \cup {Null},
     id : Id \cup {Null}, answer : {0, 200, 401, 404, 500, 503}]

UsersType == [PrepUser -> Row \cup {Null}]

(* The table after holds every row of the table before, under the same id. *)
Extends(before, after) ==
    \A u \in PrepUser : before[u] # Null =>
        after[u] # Null /\ after[u].id = before[u].id

(* What is true of request r in state q, given the users table and the tokens
   the provider accepts. *)
SoundReq(r, q, table, accepted) ==
    /\ q \in ReqType
    /\ q.stage # "done" => q.token \in Token
    /\ q.stage \in Identified => q.who \in Identity
    /\ q.who # Null => q.token \in Token /\ q.who.user = Owner[q.token]
    /\ q.stage \in {"upsert", "update", "getMe"} => q.id \in Id
    /\ q.stage = "upsert" => q.id = Minted(r, q.who.user)
    /\ q.stage = "update" =>
          table[q.who.user] # Null /\ q.id = table[q.who.user].id
    /\ q.stage = "getMe" =>
          /\ table[q.who.user] # Null
          /\ \/ q.id = table[q.who.user].id
             \/ q.id = Minted(r, q.who.user)
    /\ q.answer = 401 /\ q.token # Null => ~accepted[q.token]

SoundCache(c) ==
    /\ c \in [Key -> Entry \cup {Null}]
    /\ \A t \in Token : c[HashToken(t)] # Null => c[HashToken(t)].who.user = Owner[t]

IInv ==
    /\ req \in [Request -> ReqType]
    /\ \A r \in Request : SoundReq(r, req[r], users, valid)
    /\ SoundCache(cache)
    /\ users \in UsersType
    /\ valid \in [Token -> BOOLEAN]
    /\ profile \in [PrepUser -> Profile]

-----------------------------------------------------------------------------
(* Null is none of the values it stands in for. *)
LEMMA NullIsNothing ==
    Null \notin Identity /\ Null \notin Id /\ Null \notin Row
    /\ Null \notin Entry /\ Null \notin Token
BY NullAssumption

(* Other requests cannot spoil what is known of a request. *)
LEMMA SoundReqStable ==
    ASSUME NEW r, NEW q, NEW table, NEW after, NEW accepted, NEW still,
           SoundReq(r, q, table, accepted),
           Extends(table, after),
           \A t \in Token : ~accepted[t] => ~still[t]
    PROVE  SoundReq(r, q, after, still)
<1>1. q.stage \in {"update", "getMe"} => q.who.user \in PrepUser
  BY DEF SoundReq, Identified, Identity
<1>2. q.token # Null => q.token \in Token
  BY DEF SoundReq, ReqType
<1> QED
  BY <1>1, <1>2 DEF SoundReq, Extends

(* A step that changes only request r, and the shared state only in ways that
   no other request notices, preserves the invariant of all requests. *)
LEMMA OneRequestMoves ==
    ASSUME IInv, NEW r \in Request, NEW q,
           req' = [req EXCEPT ![r] = q],
           SoundReq(r, q, users', valid'),
           Extends(users, users'),
           \A t \in Token : ~valid[t] => ~valid'[t]
    PROVE  /\ req' \in [Request -> ReqType]
           /\ \A s \in Request : SoundReq(s, req'[s], users', valid')
<1>1. q \in ReqType
  BY DEF SoundReq
<1>2. req' \in [Request -> ReqType]
  BY <1>1 DEF IInv
<1>3. ASSUME NEW s \in Request PROVE SoundReq(s, req'[s], users', valid')
  <2>1. CASE s = r
    BY <2>1 DEF IInv
  <2>2. CASE s # r
    <3>1. req'[s] = req[s]
      BY <2>2 DEF IInv
    <3>2. SoundReq(s, req[s], users, valid)
      BY DEF IInv
    <3> QED
      BY <3>1, <3>2, SoundReqStable
  <2> QED
    BY <2>1, <2>2
<1> QED
  BY <1>2, <1>3

(* A request that is answered is sound, provided that a 401 has a reason. *)
LEMMA AnsweredSound ==
    ASSUME NEW r, NEW t \in Token \cup {Null}, NEW table, NEW accepted,
           NEW code \in {0, 200, 401, 404, 500, 503},
           code = 401 /\ t # Null => ~accepted[t]
    PROVE  SoundReq(r, Answered(t, code), table, accepted)
<1> DEFINE q == Answered(t, code)
<1>0. q = [stage |-> "done", token |-> t, who |-> Null, id |-> Null, answer |-> code]
  BY DEF Answered
<1> HIDE DEF q
<1>1. /\ q.stage = "done" /\ q.token = t /\ q.who = Null /\ q.id = Null
      /\ q.answer = code
  BY <1>0
<1>2. q \in ReqType
  <2>1. "done" \in Stages
    BY DEF Stages
  <2>2. Null \in Identity \cup {Null} /\ Null \in Id \cup {Null}
    OBVIOUS
  <2> QED
    BY <1>0, <2>1, <2>2 DEF ReqType
<1>3. SoundReq(r, q, table, accepted)
  BY <1>1, <1>2 DEF SoundReq, Identified
<1> QED
  BY <1>3 DEF q

WithWho(me, s, w) == [me EXCEPT !.stage = s, !.who = w]

WithId(me, s, i) == [me EXCEPT !.stage = s, !.id = i]

(* Going on with a new identity changes nothing else a request knows. *)
LEMMA MovesWithWho ==
    ASSUME NEW me \in ReqType, NEW s \in Stages, NEW w \in Identity \cup {Null}
    PROVE  LET q == WithWho(me, s, w) IN
           /\ q \in ReqType /\ q.stage = s /\ q.who = w /\ q.id = me.id
           /\ q.token = me.token /\ q.answer = me.answer
<1> DEFINE p == [me EXCEPT !.stage = s]
<1>1. /\ p \in ReqType /\ p.stage = s /\ p.who = me.who /\ p.id = me.id
      /\ p.token = me.token /\ p.answer = me.answer
  BY DEF ReqType
<1>2. WithWho(me, s, w) = [p EXCEPT !.who = w]
  BY DEF WithWho
<1> HIDE DEF p
<1> QED
  BY <1>1, <1>2 DEF ReqType

(* Going on with a new id changes nothing else a request knows. *)
LEMMA MovesWithId ==
    ASSUME NEW me \in ReqType, NEW s \in Stages, NEW i \in Id \cup {Null}
    PROVE  LET q == WithId(me, s, i) IN
           /\ q \in ReqType /\ q.stage = s /\ q.who = me.who /\ q.id = i
           /\ q.token = me.token /\ q.answer = me.answer
<1> DEFINE p == [me EXCEPT !.stage = s]
<1>1. /\ p \in ReqType /\ p.stage = s /\ p.who = me.who /\ p.id = me.id
      /\ p.token = me.token /\ p.answer = me.answer
  BY DEF ReqType
<1>2. WithId(me, s, i) = [p EXCEPT !.id = i]
  BY DEF WithId
<1> HIDE DEF p
<1> QED
  BY <1>1, <1>2 DEF ReqType

(* A pending write keeps the table's type, its rows and their ids, and leaves
   the user of the request registered. *)
LEMMA WrittenExtends ==
    ASSUME IInv, NEW r \in Request, req[r].stage \in {"upsert", "update"}
    PROVE  /\ Written(r) \in UsersType
           /\ Extends(users, Written(r))
           /\ Written(r)[req[r].who.user] # Null
           /\ At(r, "update") => Written(r)[req[r].who.user].id = req[r].id
<1> DEFINE w == req[r].who
           new == [id |-> req[r].id, profile |-> w.profile]
<1>1. /\ SoundReq(r, req[r], users, valid)
      /\ users \in UsersType
  BY DEF IInv
<1>2. w \in Identity /\ w.user \in PrepUser /\ w.profile \in Profile /\ req[r].id \in Id
  BY <1>1 DEF SoundReq, Identified, Identity
<1>3. new \in Row
  BY <1>2 DEF Row
<1>4. CASE At(r, "upsert")
  <2>1. InsertOrUpdate(users[w.user], new) \in Row
    BY <1>1, <1>2, <1>3 DEF InsertOrUpdate, Row, UsersType
  <2>2. users[w.user] # Null =>
            InsertOrUpdate(users[w.user], new).id = users[w.user].id
    BY <1>1, <1>2 DEF InsertOrUpdate, Row, UsersType
  <2>3. Written(r) = [users EXCEPT ![w.user] = InsertOrUpdate(users[w.user], new)]
    BY <1>4 DEF Written
  <2> QED
    BY <1>1, <1>2, <1>4, <2>1, <2>2, <2>3, NullIsNothing DEF UsersType, Extends, At
<1>5. CASE At(r, "update")
  <2>1. users[w.user] \in Row /\ users[w.user].id = req[r].id
    BY <1>1, <1>2, <1>5 DEF SoundReq, UsersType, At
  <2>2. Written(r) = [users EXCEPT ![w.user] = [users[w.user] EXCEPT !.profile = w.profile]]
    BY <1>5, <2>1 DEF Written, At
  <2>3. /\ [users[w.user] EXCEPT !.profile = w.profile] \in Row
        /\ [users[w.user] EXCEPT !.profile = w.profile].id = users[w.user].id
    BY <1>2, <2>1 DEF Row
  <2> QED
    BY <1>1, <1>2, <2>1, <2>2, <2>3, NullIsNothing DEF UsersType, Extends
<1> QED
  BY <1>4, <1>5 DEF At

-----------------------------------------------------------------------------
(* The users table changes only by a pending write. *)
LEMMA RowsStay == IInv /\ [Next]_vars => users' \in UsersType /\ Extends(users, users')
<1> SUFFICES ASSUME IInv, [Next]_vars
             PROVE  users' \in UsersType /\ Extends(users, users')
  OBVIOUS
<1>1. users \in UsersType /\ Extends(users, users)
  BY DEF IInv, Extends
<1>2. \/ users' = users
      \/ \E r \in Request : req[r].stage \in {"upsert", "update"} /\ users' = Written(r)
  <2>1. CASE \E r \in Request : Handle(r)
    BY <2>1 DEF Handle, ValidateToken, UpsertFromPrepUser, CacheHit, CacheMiss,
       BreakerRefuses, PrepAccepts, PrepRejects, PrepFails, CacheSet, FindNothing,
       FindRow, Upsert, Update, GetMe, DatabaseFails, At
  <2>2. CASE ~\E r \in Request : Handle(r)
    BY <2>2 DEF Next, Arrive, ArriveBare, Tick, Revoke, ChangeProfile, vars
  <2> QED
    BY <2>1, <2>2
<1> QED
  BY <1>1, <1>2, WrittenExtends

(* The token cache stays sound: an entry is written under the token the
   request presented, for the user the provider named, and md5 keeps the
   entries of different tokens apart. *)
LEMMA CacheStaysSound ==
    ASSUME IInv, [Next]_vars
    PROVE  SoundCache(cache')
<1>1. ASSUME NEW r \in Request, At(r, "cacheSet"),
             cache' = [cache EXCEPT ![HashToken(req[r].token)] =
                          [who |-> req[r].who, life |-> TTL]]
      PROVE  SoundCache(cache')
  <2>1. /\ req[r].token \in Token /\ req[r].who \in Identity
        /\ req[r].who.user = Owner[req[r].token]
    BY <1>1, NullIsNothing DEF IInv, SoundReq, Identified, At
  <2>2. [who |-> req[r].who, life |-> TTL] \in Entry
    BY <2>1, ParameterAssumption DEF Entry
  <2>3. HashToken(req[r].token) \in Key
    BY <2>1, Md5Assumption DEF HashToken
  <2>4. cache' \in [Key -> Entry \cup {Null}]
    BY <1>1, <2>2, <2>3 DEF IInv, SoundCache
  <2>5. ASSUME NEW t \in Token, cache'[HashToken(t)] # Null
        PROVE  cache'[HashToken(t)].who.user = Owner[t]
    <3>1. CASE t = req[r].token
      BY <1>1, <2>1, <2>3, <3>1 DEF IInv, SoundCache
    <3>2. CASE t # req[r].token
      <4>1. HashToken(t) # HashToken(req[r].token) /\ HashToken(t) \in Key
        BY <2>1, <3>2, Md5Assumption DEF HashToken
      <4> QED
        BY <1>1, <2>5, <4>1 DEF IInv, SoundCache
    <3> QED
      BY <3>1, <3>2
  <2> QED
    BY <2>4, <2>5 DEF SoundCache
<1>2. ASSUME Tick PROVE SoundCache(cache')
  <2>1. ASSUME NEW k \in Key
        PROVE  /\ cache'[k] \in Entry \cup {Null}
               /\ cache'[k] # Null => cache[k] # Null /\ cache'[k].who = cache[k].who
    <3>1. cache'[k] = Aged(cache[k]) /\ cache[k] \in Entry \cup {Null}
      BY <1>2 DEF Tick, IInv, SoundCache
    <3> QED
      BY <3>1, ParameterAssumption DEF Aged, Entry
  <2>2. cache' \in [Key -> Entry \cup {Null}]
    BY <1>2, <2>1 DEF Tick
  <2>3. \A t \in Token : HashToken(t) \in Key
    BY Md5Assumption DEF HashToken
  <2> QED
    BY <2>1, <2>2, <2>3 DEF IInv, SoundCache
<1>3. CASE UNCHANGED cache
  BY <1>3 DEF IInv
<1>4. \/ UNCHANGED cache
      \/ Tick
      \/ \E r \in Request : /\ At(r, "cacheSet")
                            /\ cache' = [cache EXCEPT ![HashToken(req[r].token)] =
                                            [who |-> req[r].who, life |-> TTL]]
  <2>1. CASE \E r \in Request : Handle(r)
    BY <2>1 DEF Handle, ValidateToken, UpsertFromPrepUser, CacheHit, CacheMiss,
       BreakerRefuses, PrepAccepts, PrepRejects, PrepFails, CacheSet, FindNothing,
       FindRow, Upsert, Update, GetMe, DatabaseFails
  <2>2. CASE ~\E r \in Request : Handle(r)
    BY <2>2 DEF Next, Arrive, ArriveBare, Revoke, ChangeProfile, vars
  <2> QED
    BY <2>1, <2>2
<1> QED
  BY <1>1, <1>2, <1>3, <1>4

(* A request that handles itself stays sound, in each of its steps. *)
LEMMA HandleSound ==
    ASSUME IInv, NEW r \in Request, Handle(r), users' \in UsersType,
           Extends(users, users')
    PROVE  \E q : req' = [req EXCEPT ![r] = q] /\ SoundReq(r, q, users', valid')
<1> DEFINE me == req[r]
           Goal == \E q : req' = [req EXCEPT ![r] = q] /\ SoundReq(r, q, users', valid')
<1>1. /\ SoundReq(r, me, users, valid) /\ me \in ReqType
      /\ req \in [Request -> ReqType] /\ users \in UsersType
  BY DEF IInv
<1>2. SoundReq(r, me, users', valid)
  BY <1>1, SoundReqStable DEF IInv
<1>3. me.token \in Token \cup {Null}
  BY <1>1 DEF ReqType
<1>4. ASSUME NEW code \in {200, 404, 500, 503}, Answer(r, code) PROVE Goal
  <2>1. req' = [req EXCEPT ![r] = Answered(me.token, code)]
    BY <1>4 DEF Answer
  <2>2. SoundReq(r, Answered(me.token, code), users', valid')
    BY <1>3, AnsweredSound
  <2> QED
    BY <2>1, <2>2
<1>5. CASE CacheHit(r)
  <2> DEFINE entry == cache[HashToken(me.token)]
             q == WithWho(me, "find", entry.who)
  <2>1. me.token \in Token /\ HashToken(me.token) \in Key
    BY <1>1, <1>5, Md5Assumption DEF CacheHit, At, SoundReq, HashToken
  <2>2. entry \in Entry /\ entry.who \in Identity /\ entry.who.user = Owner[me.token]
    BY <1>5, <2>1 DEF CacheHit, IInv, SoundCache, Entry
  <2>3. /\ q \in ReqType /\ q.stage = "find" /\ q.who = entry.who
        /\ q.token = me.token /\ q.answer = me.answer
    <3>1. "find" \in Stages /\ entry.who \in Identity \cup {Null}
      BY <2>2 DEF Stages
    <3> QED
      BY <1>1, <3>1, MovesWithWho
  <2>4. req' = [req EXCEPT ![r] = q] /\ UNCHANGED <<users, valid>>
    BY <1>5 DEF CacheHit, WithWho
  <2> HIDE DEF q
  <2>5. SoundReq(r, q, users', valid')
    BY <1>1, <2>1, <2>2, <2>3, <2>4 DEF SoundReq
  <2> QED
    BY <2>4, <2>5
<1>6. CASE CacheMiss(r)
  <2> DEFINE q == [me EXCEPT !.stage = "prepMe"]
  <2>1. /\ q \in ReqType /\ q.stage = "prepMe" /\ q.who = me.who
        /\ q.token = me.token /\ q.answer = me.answer
    BY <1>1 DEF ReqType, Stages
  <2>2. req' = [req EXCEPT ![r] = q] /\ UNCHANGED <<users, valid>> /\ me.stage = "cacheGet"
    BY <1>6 DEF CacheMiss, Goto, At
  <2> HIDE DEF q
  <2>3. SoundReq(r, q, users', valid')
    BY <1>1, <2>1, <2>2 DEF SoundReq, Identified
  <2> QED
    BY <2>2, <2>3
<1>7. CASE BreakerRefuses(r) \/ PrepFails(r) \/ DatabaseFails(r)
  BY <1>4, <1>7 DEF BreakerRefuses, PrepFails, DatabaseFails
<1>8. CASE PrepRejects(r)
  <2>1. me.token \in Token /\ ~valid[me.token]
    BY <1>1, <1>8 DEF PrepRejects, At, SoundReq
  <2>2. req' = [req EXCEPT ![r] = Answered(me.token, 401)] /\ valid' = valid
    BY <1>8 DEF PrepRejects, Answer
  <2>3. SoundReq(r, Answered(me.token, 401), users', valid')
    BY <2>1, <2>2, AnsweredSound
  <2> QED
    BY <2>2, <2>3
<1>9. CASE PrepAccepts(r)
  <2> DEFINE w == [user |-> Owner[me.token], profile |-> profile[Owner[me.token]]]
             q == WithWho(me, "cacheSet", w)
  <2>1. me.token \in Token
    BY <1>1, <1>9 DEF PrepAccepts, At, SoundReq
  <2>2. w \in Identity /\ w.user = Owner[me.token]
    BY <2>1, OwnerAssumption DEF Identity, IInv
  <2> HIDE DEF w
  <2>3. /\ q \in ReqType /\ q.stage = "cacheSet" /\ q.who = w
        /\ q.token = me.token /\ q.answer = me.answer
    <3>1. "cacheSet" \in Stages /\ w \in Identity \cup {Null}
      BY <2>2 DEF Stages
    <3> QED
      BY <1>1, <3>1, MovesWithWho
  <2>4. req' = [req EXCEPT ![r] = q] /\ UNCHANGED <<users, valid>>
    BY <1>9 DEF PrepAccepts, w, WithWho
  <2> HIDE DEF q
  <2>5. SoundReq(r, q, users', valid')
    BY <1>1, <2>1, <2>2, <2>3, <2>4 DEF SoundReq
  <2> QED
    BY <2>4, <2>5
<1>10. CASE CacheSet(r)
  <2> DEFINE q == [me EXCEPT !.stage = "find"]
  <2>1. /\ q \in ReqType /\ q.stage = "find" /\ q.who = me.who
        /\ q.token = me.token /\ q.answer = me.answer
    BY <1>1 DEF ReqType, Stages
  <2>2. req' = [req EXCEPT ![r] = q] /\ UNCHANGED <<users, valid>> /\ me.stage = "cacheSet"
    BY <1>10 DEF CacheSet, Goto, At
  <2> HIDE DEF q
  <2>3. SoundReq(r, q, users', valid')
    BY <1>1, <2>1, <2>2 DEF SoundReq, Identified
  <2> QED
    BY <2>2, <2>3
<1>11. CASE FindNothing(r)
  <2> DEFINE q == WithId(me, "upsert", Minted(r, me.who.user))
  <2>1. me.who \in Identity /\ Minted(r, me.who.user) \in Id
    BY <1>1, <1>11 DEF FindNothing, At, SoundReq, Identified, Identity, Id, Minted
  <2>2. /\ q \in ReqType /\ q.stage = "upsert" /\ q.who = me.who
        /\ q.id = Minted(r, me.who.user) /\ q.token = me.token /\ q.answer = me.answer
    <3>1. "upsert" \in Stages /\ Minted(r, me.who.user) \in Id \cup {Null}
      BY <2>1 DEF Stages
    <3> QED
      BY <1>1, <3>1, MovesWithId
  <2>3. req' = [req EXCEPT ![r] = q] /\ UNCHANGED <<users, valid>> /\ me.stage = "find"
    BY <1>11 DEF FindNothing, GotoWith, At, WithId
  <2> HIDE DEF q
  <2>4. SoundReq(r, q, users', valid')
    BY <1>1, <2>1, <2>2, <2>3 DEF SoundReq, Identified
  <2> QED
    BY <2>3, <2>4
<1>12. CASE FindRow(r)
  <2> DEFINE row == users[me.who.user]
             next == IF row.profile = me.who.profile THEN "getMe" ELSE "update"
             q == WithId(me, next, row.id)
  <2>1. me.who \in Identity /\ row \in Row /\ row.id \in Id
    BY <1>1, <1>12 DEF FindRow, At, SoundReq, Identified, Identity, UsersType, Row
  <2>2. /\ q \in ReqType /\ q.stage \in {"getMe", "update"} /\ q.who = me.who
        /\ q.id = row.id /\ q.token = me.token /\ q.answer = me.answer
    <3>1. next \in Stages /\ next \in {"getMe", "update"} /\ row.id \in Id \cup {Null}
      BY <2>1 DEF Stages
    <3> QED
      BY <1>1, <3>1, MovesWithId
  <2>3. req' = [req EXCEPT ![r] = q] /\ UNCHANGED <<users, valid>> /\ me.stage = "find"
    BY <1>12 DEF FindRow, GotoWith, At, WithId
  <2> HIDE DEF q
  <2>4. SoundReq(r, q, users', valid')
    BY <1>1, <2>1, <2>2, <2>3, NullIsNothing DEF SoundReq, Identified
  <2> QED
    BY <2>3, <2>4
<1>13. CASE Upsert(r)
  <2> DEFINE q == [me EXCEPT !.stage = "getMe"]
  <2>1. /\ q \in ReqType /\ q.stage = "getMe" /\ q.who = me.who /\ q.id = me.id
        /\ q.token = me.token /\ q.answer = me.answer
    BY <1>1 DEF ReqType, Stages
  <2>2. req' = [req EXCEPT ![r] = q] /\ valid' = valid /\ me.stage = "upsert"
    BY <1>13 DEF Upsert, Goto, At
  <2>3. users'[me.who.user] # Null
    BY <1>13, <2>2, WrittenExtends DEF Upsert
  <2>4. me.id = Minted(r, me.who.user) /\ me.who \in Identity /\ me.id \in Id
    BY <1>1, <2>2 DEF SoundReq, Identified
  <2> HIDE DEF q
  <2>5. SoundReq(r, q, users', valid')
    BY <1>1, <2>1, <2>2, <2>3, <2>4 DEF SoundReq, Identified
  <2> QED
    BY <2>2, <2>5
<1>14. CASE Update(r)
  <2> DEFINE q == [me EXCEPT !.stage = "getMe"]
  <2>1. /\ q \in ReqType /\ q.stage = "getMe" /\ q.who = me.who /\ q.id = me.id
        /\ q.token = me.token /\ q.answer = me.answer
    BY <1>1 DEF ReqType, Stages
  <2>2. req' = [req EXCEPT ![r] = q] /\ valid' = valid /\ me.stage = "update"
    BY <1>14 DEF Update, Goto, At
  <2>3. users'[me.who.user] # Null /\ me.id = users'[me.who.user].id
    BY <1>2, <2>2 DEF SoundReq
  <2> HIDE DEF q
  <2>4. SoundReq(r, q, users', valid')
    BY <1>1, <2>1, <2>2, <2>3 DEF SoundReq, Identified
  <2> QED
    BY <2>2, <2>4
<1>15. CASE GetMe(r)
  BY <1>4, <1>15 DEF GetMe
<1> QED
  BY <1>5, <1>6, <1>7, <1>8, <1>9, <1>10, <1>11, <1>12, <1>13, <1>14, <1>15
  DEF Handle, ValidateToken, UpsertFromPrepUser

(* Every step preserves the invariant. *)
LEMMA Inductive == IInv /\ [Next]_vars => IInv'
<1> SUFFICES ASSUME IInv, [Next]_vars
             PROVE  IInv'
  OBVIOUS
<1>1. users' \in UsersType /\ Extends(users, users')
  BY RowsStay
<1>2. SoundCache(cache')
  BY CacheStaysSound
<1>3. /\ valid' \in [Token -> BOOLEAN]
      /\ \A t \in Token : ~valid[t] => ~valid'[t]
  BY DEF IInv, Next, Arrive, ArriveBare, Handle, ValidateToken, UpsertFromPrepUser,
     CacheHit, CacheMiss, BreakerRefuses, PrepAccepts, PrepRejects, PrepFails, CacheSet,
     FindNothing, FindRow, Upsert, Update, GetMe, DatabaseFails, Tick, Revoke,
     ChangeProfile, vars
<1>4. profile' \in [PrepUser -> Profile]
  <2>1. CASE \E u \in PrepUser : ChangeProfile(u)
    BY <2>1, ParameterAssumption DEF IInv, ChangeProfile, Profile
  <2>2. CASE UNCHANGED profile
    BY <2>2 DEF IInv
  <2> QED
    BY <2>1, <2>2 DEF Next, Arrive, ArriveBare, Handle, ValidateToken,
       UpsertFromPrepUser, CacheHit, CacheMiss, BreakerRefuses, PrepAccepts,
       PrepRejects, PrepFails, CacheSet, FindNothing, FindRow, Upsert, Update, GetMe,
       DatabaseFails, Tick, Revoke, vars
<1>5. /\ req' \in [Request -> ReqType]
      /\ \A r \in Request : SoundReq(r, req'[r], users', valid')
  <2>1. ASSUME NEW r \in Request, NEW t \in Token, Arrive(r, t)
        PROVE  <1>5!1 /\ <1>5!2
    <3>1. req' = [req EXCEPT ![r] = Started(t)]
      BY <2>1 DEF Arrive
    <3>2. SoundReq(r, Started(t), users', valid')
      BY NullIsNothing DEF SoundReq, ReqType, Started, Stages, Identified
    <3> QED
      BY <1>1, <1>3, <3>1, <3>2, OneRequestMoves
  <2>2. ASSUME NEW r \in Request, ArriveBare(r)
        PROVE  <1>5!1 /\ <1>5!2
    <3>1. req' = [req EXCEPT ![r] = Answered(Null, 401)]
      BY <2>2 DEF ArriveBare
    <3>2. SoundReq(r, Answered(Null, 401), users', valid')
      BY AnsweredSound
    <3> QED
      BY <1>1, <1>3, <3>1, <3>2, OneRequestMoves
  <2>3. ASSUME NEW r \in Request, Handle(r)
        PROVE  <1>5!1 /\ <1>5!2
    <3>1. PICK q : req' = [req EXCEPT ![r] = q] /\ SoundReq(r, q, users', valid')
      BY <1>1, <2>3, HandleSound
    <3> QED
      BY <1>1, <1>3, <3>1, OneRequestMoves
  <2>4. CASE UNCHANGED req
    BY <1>1, <1>3, <2>4, SoundReqStable DEF IInv
  <2> QED
    BY <2>1, <2>2, <2>3, <2>4 DEF Next, Tick, Revoke, ChangeProfile, vars
<1> QED
  BY <1>1, <1>2, <1>3, <1>4, <1>5 DEF IInv

(* The invariant holds in every reachable state. *)
THEOREM Invariance == Spec => []IInv
<1>1. Init => IInv
  <2> SUFFICES ASSUME Init PROVE IInv
    OBVIOUS
  <2>1. ASSUME NEW r \in Request PROVE SoundReq(r, req[r], users, valid)
    BY AnsweredSound DEF Init
  <2>2. req \in [Request -> ReqType]
    BY <2>1 DEF Init, SoundReq
  <2>3. SoundCache(cache)
    BY Md5Assumption DEF Init, SoundCache, HashToken
  <2> QED
    BY <2>1, <2>2, <2>3, ParameterAssumption DEF Init, IInv, UsersType, Profile
<1> QED
  BY <1>1, Inductive, PTL DEF Spec

-----------------------------------------------------------------------------
(* Every variable keeps its type, and a request knows what its stage needs. *)
THEOREM TypeCorrect == Spec => []TypeOK
<1>1. IInv => TypeOK
  BY NullIsNothing DEF IInv, SoundReq, SoundCache, TypeOK, ReqType, UsersType, At
<1> QED
  BY <1>1, Invariance, PTL

(* Requests never act for, nor cache, another user than their token's. *)
THEOREM IdentitySafe == Spec => []IdentityMatchesToken
<1>1. IInv => IdentityMatchesToken
  BY DEF IInv, SoundReq, SoundCache, IdentityMatchesToken
<1> QED
  BY <1>1, Invariance, PTL

(* A 401 in answer to a token means that the provider rejected the token. *)
THEOREM RejectionsJustified == Spec => []UnauthorizedOnlyIfRejected
<1>1. IInv => UnauthorizedOnlyIfRejected
  BY DEF IInv, SoundReq, UnauthorizedOnlyIfRejected
<1> QED
  BY <1>1, Invariance, PTL

(* Rows are never lost and never change their id. *)
THEOREM RegistrationIsPermanent == Spec => RegisteredOnce
<1>1. IInv /\ [Next]_vars =>
        [ \A u \in PrepUser : users[u] # Null =>
              users'[u] # Null /\ users'[u].id = users[u].id ]_vars
  BY RowsStay DEF Extends
<1> QED
  BY <1>1, Invariance, PTL DEF Spec, RegisteredOnce

-----------------------------------------------------------------------------
(* Whatever the service holds of a user, in the table, in the token cache or in
   a request, is something the provider once said of that very user: ids are
   minted for the user whose row has them, and no profile runs ahead. *)
Genuine ==
    /\ \A u \in PrepUser : users[u] # Null =>
          /\ \E r \in Request : users[u].id = Minted(r, u)
          /\ users[u].profile <= profile[u]
    /\ \A k \in Key : cache[k] # Null => cache[k].who.profile <= profile[cache[k].who.user]
    /\ \A r \in Request : req[r].who # Null => req[r].who.profile <= profile[req[r].who.user]

(* The handler's GetMe finds the row of the user the token was issued to, if any:
   two users never come to share an id. *)
OwnRowOnly ==
    \A r \in Request : At(r, "getMe") =>
        \A u \in PrepUser : users[u] # Null /\ users[u].id = req[r].id => u = Owner[req[r].token]

(* Where each kind of record takes its contents from. *)
LEMMA Sources ==
    ASSUME IInv, [Next]_vars
    PROVE  /\ \A u \in PrepUser : profile'[u] \in Profile /\ profile'[u] >= profile[u]
           /\ \/ users' = users
              \/ \E r \in Request : req[r].stage \in {"upsert", "update"} /\ users' = Written(r)
           /\ \A k \in Key : cache'[k] # Null =>
                 \/ cache[k] # Null /\ cache'[k].who = cache[k].who
                 \/ \E r \in Request : At(r, "cacheSet") /\ cache'[k].who = req[r].who
           /\ \A r \in Request : req'[r].who # Null =>
                 \/ req'[r].who = req[r].who
                 \/ \E k \in Key : cache[k] # Null /\ req'[r].who = cache[k].who
                 \/ \E u \in PrepUser : req'[r].who = [user |-> u, profile |-> profile[u]]
<1>1. /\ req \in [Request -> ReqType] /\ cache \in [Key -> Entry \cup {Null}]
      /\ profile \in [PrepUser -> Profile]
  BY DEF IInv, SoundCache
<1>2. \A u \in PrepUser : profile'[u] \in Profile /\ profile'[u] >= profile[u]
  <2>1. CASE \E u \in PrepUser : ChangeProfile(u)
    BY <1>1, <2>1, ParameterAssumption DEF ChangeProfile, Profile
  <2>2. CASE UNCHANGED profile
    BY <1>1, <2>2, ParameterAssumption DEF Profile
  <2> QED
    BY <2>1, <2>2 DEF Next, Arrive, ArriveBare, Handle, ValidateToken, UpsertFromPrepUser,
       CacheHit, CacheMiss, BreakerRefuses, PrepAccepts, PrepRejects, PrepFails, CacheSet,
       FindNothing, FindRow, Upsert, Update, GetMe, DatabaseFails, Tick, Revoke, vars
<1>3. \/ users' = users
      \/ \E r \in Request : req[r].stage \in {"upsert", "update"} /\ users' = Written(r)
  BY DEF Next, Arrive, ArriveBare, Handle, ValidateToken, UpsertFromPrepUser, CacheHit,
     CacheMiss, BreakerRefuses, PrepAccepts, PrepRejects, PrepFails, CacheSet, FindNothing,
     FindRow, Upsert, Update, GetMe, DatabaseFails, Tick, Revoke, ChangeProfile, vars, At
<1>4. ASSUME NEW k \in Key, cache'[k] # Null
      PROVE  \/ cache[k] # Null /\ cache'[k].who = cache[k].who
             \/ \E r \in Request : At(r, "cacheSet") /\ cache'[k].who = req[r].who
  <2>1. CASE UNCHANGED cache
    BY <1>4, <2>1
  <2>2. CASE Tick
    BY <1>1, <1>4, <2>2 DEF Tick, Aged, Entry
  <2>3. ASSUME NEW r \in Request, CacheSet(r)
        PROVE  \/ cache[k] # Null /\ cache'[k].who = cache[k].who
               \/ \E s \in Request : At(s, "cacheSet") /\ cache'[k].who = req[s].who
    <3>1. \/ cache' = cache
          \/ cache' = [cache EXCEPT ![HashToken(req[r].token)] =
                           [who |-> req[r].who, life |-> TTL]]
      BY <2>3 DEF CacheSet
    <3> QED
      BY <1>1, <1>4, <2>3, <3>1 DEF CacheSet
  <2> QED
    BY <2>1, <2>2, <2>3 DEF Next, Arrive, ArriveBare, Handle, ValidateToken, UpsertFromPrepUser,
       CacheHit, CacheMiss, BreakerRefuses, PrepAccepts, PrepRejects, PrepFails,
       FindNothing, FindRow, Upsert, Update, GetMe, DatabaseFails, Revoke, ChangeProfile, vars
<1>5. ASSUME NEW r \in Request, req'[r].who # Null
      PROVE  \/ req'[r].who = req[r].who
             \/ \E k \in Key : cache[k] # Null /\ req'[r].who = cache[k].who
             \/ \E u \in PrepUser : req'[r].who = [user |-> u, profile |-> profile[u]]
  <2>1. ASSUME NEW s \in Request, NEW q, req' = [req EXCEPT ![s] = q],
               q.who = Null \/ q.who = req[s].who
        PROVE  req'[r].who = req[r].who
    BY <1>1, <1>5, <2>1
  <2>2. ASSUME NEW s \in Request, CacheHit(s)
        PROVE  \/ req'[r].who = req[r].who
               \/ \E k \in Key : cache[k] # Null /\ req'[r].who = cache[k].who
    <3>1. HashToken(req[s].token) \in Key
      BY <2>2, Md5Assumption DEF CacheHit, At, IInv, SoundReq, HashToken
    <3> QED
      BY <1>1, <2>2, <3>1 DEF CacheHit, ReqType
  <2>3. ASSUME NEW s \in Request, PrepAccepts(s)
        PROVE  \/ req'[r].who = req[r].who
               \/ \E u \in PrepUser : req'[r].who = [user |-> u, profile |-> profile[u]]
    <3>1. Owner[req[s].token] \in PrepUser
      BY <2>3, OwnerAssumption DEF PrepAccepts, At, IInv, SoundReq
    <3> QED
      BY <1>1, <2>3, <3>1 DEF PrepAccepts, ReqType
  <2>4. ASSUME NEW s \in Request, Handle(s), ~CacheHit(s), ~PrepAccepts(s)
        PROVE  req'[r].who = req[r].who
    BY <1>1, <1>5, <2>4 DEF Handle, ValidateToken, UpsertFromPrepUser, CacheMiss,
       BreakerRefuses, PrepRejects, PrepFails, CacheSet, FindNothing, FindRow, Upsert,
       Update, GetMe, DatabaseFails, Goto, GotoWith, Answer, Answered, ReqType
  <2>5. ASSUME NEW s \in Request, NEW t \in Token, Arrive(s, t) PROVE req'[r].who = req[r].who
    BY <1>1, <1>5, <2>5 DEF Arrive, Started
  <2>6. ASSUME NEW s \in Request, ArriveBare(s) PROVE req'[r].who = req[r].who
    BY <1>1, <1>5, <2>6 DEF ArriveBare, Answered
  <2> QED
    BY <2>2, <2>3, <2>4, <2>5, <2>6 DEF Next, Tick, Revoke, ChangeProfile, vars
<1> QED
  BY <1>2, <1>3, <1>4, <1>5

(* Records that are copied stay genuine, and the provider never goes back. *)
LEMMA GenuineStep == IInv /\ Genuine /\ [Next]_vars => Genuine'
<1> SUFFICES ASSUME IInv, Genuine, [Next]_vars PROVE Genuine'
  OBVIOUS
<1>1. /\ users \in UsersType /\ profile \in [PrepUser -> Profile]
      /\ cache \in [Key -> Entry \cup {Null}] /\ req \in [Request -> ReqType]
  BY DEF IInv, SoundCache
<1>2. ASSUME NEW i \in Identity, i.profile <= profile[i.user]
      PROVE  i.profile <= profile'[i.user]
  BY <1>1, <1>2, Sources, ParameterAssumption DEF Identity, Profile
<1>3. \A r \in Request : req[r].who # Null =>
          req[r].who \in Identity /\ req[r].who.profile <= profile[req[r].who.user]
  BY <1>1 DEF ReqType, Genuine
<1>4. \A k \in Key : cache[k] # Null =>
          cache[k].who \in Identity /\ cache[k].who.profile <= profile[cache[k].who.user]
  BY <1>1 DEF Entry, Genuine
<1>5. ASSUME NEW u \in PrepUser, users'[u] # Null
      PROVE  (\E r \in Request : users'[u].id = Minted(r, u)) /\ users'[u].profile <= profile'[u]
  <2>1. CASE users'[u] = users[u]
    <3>1. users[u].profile \in Profile /\ users[u].profile <= profile[u]
      BY <1>1, <1>5, <2>1 DEF UsersType, Row, Genuine
    <3> QED
      BY <1>1, <1>5, <2>1, <3>1, Sources, ParameterAssumption DEF Profile, Genuine
  <2>2. ASSUME NEW r \in Request, req[r].stage \in {"upsert", "update"}, users' = Written(r),
               u = req[r].who.user
        PROVE  (\E s \in Request : users'[u].id = Minted(s, u)) /\ users'[u].profile <= profile'[u]
    <3>1. req[r].who \in Identity /\ req[r].who.profile <= profile'[u]
      BY <1>2, <1>3, <2>2, NullIsNothing DEF IInv, SoundReq, Identified
    <3>2. CASE At(r, "upsert")
      <4>1. users'[u] = InsertOrUpdate(users[u], [id |-> req[r].id, profile |-> req[r].who.profile])
        BY <1>1, <2>2, <3>2 DEF Written, UsersType
      <4>2. req[r].id = Minted(r, u)
        BY <2>2, <3>2 DEF IInv, SoundReq, At
      <4>3. users'[u].profile = req[r].who.profile
        BY <1>1, <4>1 DEF InsertOrUpdate, UsersType, Row
      <4>4. \E s \in Request : users'[u].id = Minted(s, u)
        BY <1>1, <4>1, <4>2 DEF InsertOrUpdate, UsersType, Row, Genuine
      <4> QED
        BY <3>1, <4>3, <4>4
    <3>3. CASE At(r, "update")
      <4>1. users[u] \in Row
        BY <1>1, <2>2, <3>3 DEF IInv, SoundReq, At, UsersType
      <4>2. users'[u] = [users[u] EXCEPT !.profile = req[r].who.profile]
        BY <1>1, <2>2, <3>3, <4>1 DEF Written, At, UsersType
      <4>3. users'[u].profile = req[r].who.profile /\ users'[u].id = users[u].id
        BY <4>1, <4>2 DEF Row
      <4> QED
        BY <3>1, <4>1, <4>3, NullIsNothing DEF Genuine
    <3> QED
      BY <2>2, <3>2, <3>3 DEF At
  <2>3. ASSUME NEW r \in Request, users' = Written(r), u # req[r].who.user
        PROVE  users'[u] = users[u]
    BY <1>1, <2>3 DEF Written, UsersType
  <2> QED
    BY <2>1, <2>2, <2>3, Sources
<1>6. ASSUME NEW k \in Key, cache'[k] # Null
      PROVE  cache'[k].who.profile <= profile'[cache'[k].who.user]
  <2>1. /\ cache'[k].who \in Identity
        /\ cache'[k].who.profile <= profile[cache'[k].who.user]
    BY <1>3, <1>4, <1>6, Sources, NullIsNothing DEF IInv, SoundReq, At, Identified
  <2> QED
    BY <1>2, <2>1
<1>7. ASSUME NEW r \in Request, req'[r].who # Null
      PROVE  req'[r].who.profile <= profile'[req'[r].who.user]
  <2>1. /\ req'[r].who \in Identity
        /\ req'[r].who.profile <= profile[req'[r].who.user]
    <3>1. ASSUME NEW u \in PrepUser
          PROVE  LET i == [user |-> u, profile |-> profile[u]]
                 IN  i \in Identity /\ i.profile <= profile[i.user]
      BY <1>1, ParameterAssumption DEF Identity, Profile
    <3> QED
      BY <1>3, <1>4, <1>7, <3>1, Sources
  <2> QED
    BY <1>2, <2>1
<1> QED
  BY <1>5, <1>6, <1>7 DEF Genuine

(* Nothing the service holds of a user was made up or belongs to another. *)
THEOREM RecordsAreGenuine == Spec => []Genuine
<1>1. Init => Genuine
  BY DEF Init, Genuine, Answered
<1> QED
  BY <1>1, GenuineStep, Invariance, PTL DEF Spec

(* No request is shown the row of a user other than its token's, even where the
   id in its context is one that was minted in vain. *)
THEOREM ShownOwnRow == Spec => []OwnRowOnly
<1>1. IInv /\ Genuine => OwnRowOnly
  <2> SUFFICES ASSUME IInv, Genuine, NEW r \in Request, At(r, "getMe"),
                      NEW u \in PrepUser, users[u] # Null, users[u].id = req[r].id
               PROVE  u = Owner[req[r].token]
    BY DEF OwnRowOnly
  <2> DEFINE w == req[r].who.user
  <2>1. /\ w = Owner[req[r].token] /\ w \in PrepUser /\ users[w] # Null
        /\ req[r].id = users[w].id \/ req[r].id = Minted(r, w)
    BY NullIsNothing DEF IInv, SoundReq, At, Identified, Identity
  <2>2. \E s, t \in Request : Minted(s, u) = Minted(t, w)
    BY <2>1 DEF Genuine
  <2> QED
    BY <2>1, <2>2 DEF Minted
<1> QED
  BY <1>1, Invariance, RecordsAreGenuine, PTL

-----------------------------------------------------------------------------
(* AuthFlow and CircuitBreaker leave open what GuardedAuth decides: what was
   proved of either holds of the two together. *)
THEOREM GuardedIsAuthFlow == GuardedSpec => Spec
<1>1. GuardedInit => Init
  BY DEF GuardedInit
<1>2. [GuardedNext]_guardedVars => [Next]_vars
  <2> SUFFICES ASSUME [GuardedNext]_guardedVars PROVE [Next]_vars
    OBVIOUS
  <2>1. ASSUME NEW r \in Request, GuardedHandle(r) PROVE [Next]_vars
    <3>1. CASE Enter(r)
      BY <3>1 DEF Enter
    <3>2. CASE Refused(r)
      BY <3>2 DEF Refused, Next, Handle, ValidateToken
    <3>3. CASE Leave(r)
      BY <3>3 DEF Leave, Next, Handle, ValidateToken
    <3>4. CASE Unguarded(r)
      BY <3>4 DEF Unguarded, Next, Handle, ValidateToken
    <3> QED
      BY <2>1, <3>1, <3>2, <3>3, <3>4 DEF GuardedHandle
  <2>2. CASE RedisTick \/ BreakerTick \/ Provider
    BY <2>2 DEF RedisTick, BreakerTick, Provider, Next
  <2>3. CASE UNCHANGED guardedVars
    BY <2>3 DEF guardedVars
  <2> QED
    BY <2>1, <2>2, <2>3 DEF GuardedNext, GuardedArrive, Next
<1> QED
  BY <1>1, <1>2, PTL DEF GuardedSpec, Spec

THEOREM GuardedIsCircuitBreaker == GuardedSpec => Breaker!Spec
<1>1. GuardedInit => Breaker!Init
  BY DEF GuardedInit
<1>2. [GuardedNext]_guardedVars => [Breaker!Next]_(Breaker!vars)
  <2> SUFFICES ASSUME [GuardedNext]_guardedVars PROVE [Breaker!Next]_(Breaker!vars)
    OBVIOUS
  <2>1. ASSUME NEW r \in Request, GuardedHandle(r) PROVE [Breaker!Next]_(Breaker!vars)
    <3>1. CASE Enter(r)
      BY <3>1 DEF Enter, Breaker!Next
    <3>2. CASE Refused(r)
      BY <3>2 DEF Refused, Breaker!Next
    <3>3. CASE Leave(r)
      BY <3>3 DEF Leave, Breaker!Next
    <3>4. CASE Unguarded(r)
      BY <3>4 DEF Unguarded, breakerVars, Breaker!vars
    <3> QED
      BY <2>1, <3>1, <3>2, <3>3, <3>4 DEF GuardedHandle
  <2>2. CASE UNCHANGED breakerVars
    BY <2>2 DEF breakerVars, Breaker!vars
  <2>3. CASE BreakerTick \/ Provider
    BY <2>2, <2>3 DEF BreakerTick, Provider, Breaker!Next
  <2>4. CASE UNCHANGED guardedVars
    BY <2>2, <2>4 DEF guardedVars
  <2> QED
    BY <2>1, <2>2, <2>3, <2>4 DEF GuardedNext, GuardedArrive, RedisTick
<1> QED
  BY <1>1, <1>2, PTL DEF GuardedSpec, Breaker!Spec

(* What the breaker has in flight are requests that wait for the provider. *)
Callers == inFlight \subseteq Request /\ CallersWait

LEMMA WaitStep == TypeOK /\ Callers /\ [GuardedNext]_guardedVars => Callers'
<1> SUFFICES ASSUME TypeOK, inFlight \subseteq Request, CallersWait,
                    [GuardedNext]_guardedVars
             PROVE  inFlight' \subseteq Request /\ CallersWait'
  BY DEF Callers
<1>1. ASSUME NEW r \in Request, req' = req, inFlight' = inFlight \cup {r}, At(r, "prepMe")
      PROVE  inFlight' \subseteq Request /\ CallersWait'
  BY <1>1 DEF CallersWait, At
<1>2. ASSUME NEW r \in Request, NEW q, req' = [req EXCEPT ![r] = q],
             inFlight' = inFlight \/ inFlight' = inFlight \ {r}, r \notin inFlight'
      PROVE  inFlight' \subseteq Request /\ CallersWait'
  BY <1>2 DEF CallersWait, At, TypeOK
<1>3. ASSUME req' = req, inFlight' = inFlight
      PROVE  inFlight' \subseteq Request /\ CallersWait'
  BY <1>3 DEF CallersWait, At
<1>4. ASSUME NEW r \in Request, GuardedHandle(r)
      PROVE  inFlight' \subseteq Request /\ CallersWait'
  <2>1. CASE Enter(r)
    BY <1>1, <2>1 DEF Enter, vars, Breaker!Admit
  <2>2. CASE Refused(r)
    BY <1>2, <2>2 DEF Refused, Breaker!Refuse, BreakerRefuses, Answer
  <2>3. CASE Leave(r)
    <3>1. inFlight' = inFlight \ {r}
      BY <2>3 DEF Leave, Breaker!Finish
    <3>2. \E q : req' = [req EXCEPT ![r] = q]
      BY <2>3 DEF Leave, PrepAccepts, PrepRejects, PrepFails, Answer, TypeOK
    <3> QED
      BY <1>2, <3>1, <3>2
  <2>4. CASE Unguarded(r)
    <3>1. inFlight' = inFlight
      BY <2>4 DEF Unguarded, breakerVars
    <3>2. r \notin inFlight
      BY <2>4 DEF Unguarded, CacheHit, CacheMiss, CacheSet, UpsertFromPrepUser, FindNothing,
         FindRow, Upsert, Update, GetMe, DatabaseFails, CallersWait, At
    <3>3. \E q : req' = [req EXCEPT ![r] = q]
      BY <2>4 DEF Unguarded, CacheHit, CacheMiss, CacheSet, UpsertFromPrepUser, FindNothing,
         FindRow, Upsert, Update, GetMe, DatabaseFails, Goto, GotoWith, Answer, TypeOK
    <3> QED
      BY <1>2, <3>1, <3>2, <3>3
  <2> QED
    BY <1>4, <2>1, <2>2, <2>3, <2>4 DEF GuardedHandle
<1>5. ASSUME NEW r \in Request, NEW t \in Token, GuardedArrive(r, t)
      PROVE  inFlight' \subseteq Request /\ CallersWait'
  <2>1. r \notin inFlight /\ inFlight' = inFlight /\ req' = [req EXCEPT ![r] = Started(t)]
    BY <1>5 DEF GuardedArrive, Arrive, breakerVars, CallersWait, At
  <2> QED
    BY <1>2, <2>1
<1>6. ASSUME NEW r \in Request, ArriveBare(r), UNCHANGED breakerVars
      PROVE  inFlight' \subseteq Request /\ CallersWait'
  <2>1. r \notin inFlight /\ inFlight' = inFlight
    BY <1>6 DEF ArriveBare, breakerVars, CallersWait, At
  <2> QED
    BY <1>2, <1>6, <2>1 DEF ArriveBare
<1>7. CASE RedisTick \/ BreakerTick \/ Provider \/ UNCHANGED guardedVars
  BY <1>3, <1>7 DEF RedisTick, Tick, BreakerTick, Breaker!Tick, Provider, Revoke,
     ChangeProfile, Breaker!Flap, guardedVars, vars, breakerVars
<1> QED
  BY <1>4, <1>5, <1>6, <1>7 DEF GuardedNext

(* No request is answered while the breaker still counts it as a call. *)
THEOREM CallsAreReported == GuardedSpec => []CallersWait
<1>1. GuardedInit => Callers
  BY DEF GuardedInit, Breaker!Init, Callers, CallersWait
<1>2. GuardedSpec => []TypeOK
  BY GuardedIsAuthFlow, TypeCorrect
<1>3. Callers => CallersWait
  BY DEF Callers
<1> QED
  BY <1>1, <1>2, <1>3, WaitStep, PTL DEF GuardedSpec

(* The two together are safe for the requests: whatever the breaker refuses and
   the provider does, nobody is taken for another or rejected without reason. *)
THEOREM GuardedIsSafe ==
    GuardedSpec => [](IdentityMatchesToken /\ UnauthorizedOnlyIfRejected)
BY GuardedIsAuthFlow, IdentitySafe, RejectionsJustified, PTL

-----------------------------------------------------------------------------
(* How long a withdrawn token is honoured.  What is left of the life of its
   cache entry, and what is left of the pause of a request that is about to
   write one, shrink while the time since the withdrawal grows. *)
RevInv ==
    /\ pause \in [Request -> 0..MaxPause]
    /\ gone \in [Token -> 0..Longest]
    /\ \A t \in Token : valid[t] => gone[t] = 0
    /\ \A r \in Request : At(r, "cacheSet") => gone[req[r].token] <= pause[r]
    /\ \A t \in Token :
          cache[HashToken(t)] # Null => gone[t] + cache[HashToken(t)].life <= Longest

(* The record of the history is kept beside the requests, and only adds that
   none of them rests for ever. *)
THEOREM HistoryIsAuthFlow == HistorySpec => Spec
<1>1. HistoryInit => Init
  BY DEF HistoryInit
<1>2. [HistoryNext]_historyVars => [Next]_vars
  <2> SUFFICES ASSUME [HistoryNext]_historyVars PROVE [Next]_vars
    OBVIOUS
  <2>1. ASSUME NEW r \in Request, HHandle(r) PROVE [Next]_vars
    BY <2>1 DEF HHandle, Next
  <2>2. CASE HTick
    BY <2>2 DEF HTick, Next
  <2>3. CASE UNCHANGED historyVars
    BY <2>3 DEF historyVars
  <2> QED
    BY <2>1, <2>2, <2>3 DEF HistoryNext, HArrive, Next
<1> QED
  BY <1>1, <1>2, PTL DEF HistorySpec, Spec

LEMMA LongestNat == TTL \in Nat /\ TTL >= 1 /\ MaxPause \in Nat /\ Longest = TTL + MaxPause
BY ParameterAssumption, PauseAssumption DEF Longest

(* A step that neither counts time nor withdraws a token, and caches nothing for
   longer than it may. *)
LEMMA NothingCounted ==
    ASSUME RevInv, UNCHANGED <<valid, gone>>,
           pause' \in [Request -> 0..MaxPause],
           \A r \in Request : At(r, "cacheSet")' =>
               /\ At(r, "cacheSet") /\ req'[r].token = req[r].token
               /\ pause'[r] = pause[r],
           \A t \in Token :
               \/ cache'[HashToken(t)] = cache[HashToken(t)]
               \/ gone[t] + cache'[HashToken(t)].life <= Longest
    PROVE  RevInv'
BY DEF RevInv, HashToken, Longest

(* Each step keeps the two accounts. *)
LEMMA AccountsKept == IInv /\ RevInv /\ [HistoryNext]_historyVars => RevInv'
<1> SUFFICES ASSUME IInv, RevInv, [HistoryNext]_historyVars
             PROVE  RevInv'
  OBVIOUS
<1>1. ASSUME NEW r \in Request, NEW q, req' = [req EXCEPT ![r] = q],
             UNCHANGED <<cache, valid, pause, gone>>, q.stage # "cacheSet"
      PROVE  RevInv'
  BY <1>1, NothingCounted DEF IInv, RevInv, At
<1>2. ASSUME NEW r \in Request, NEW t \in Token, HArrive(r, t)
      PROVE  RevInv'
  <2>1. Started(t).stage # "cacheSet" /\ req' = [req EXCEPT ![r] = Started(t)]
    BY <1>2 DEF HArrive, Arrive, Started
  <2> QED
    BY <1>1, <1>2, <2>1 DEF HArrive, Arrive
<1>3. ASSUME NEW r \in Request, ArriveBare(r), UNCHANGED history
      PROVE  RevInv'
  <2>1. /\ Answered(Null, 401).stage # "cacheSet"
        /\ req' = [req EXCEPT ![r] = Answered(Null, 401)]
    BY <1>3 DEF ArriveBare, Answered
  <2> QED
    BY <1>1, <1>3, <2>1 DEF ArriveBare, history
<1>4. ASSUME NEW r \in Request, HHandle(r)
      PROVE  /\ pause' \in [Request -> 0..MaxPause] /\ pause'[r] = 0
             /\ \A s \in Request \ {r} : pause'[s] = pause[s] /\ req'[s] = req[s]
             /\ UNCHANGED <<valid, gone>>
  <2>1. /\ pause' \in [Request -> 0..MaxPause] /\ pause'[r] = 0
        /\ \A s \in Request \ {r} : pause'[s] = pause[s]
    BY <1>4, LongestNat DEF HHandle, RevInv
  <2>2. valid' = valid /\ \A s \in Request \ {r} : req'[s] = req[s]
    BY <1>4 DEF HHandle, Handle, ValidateToken, CacheHit, CacheMiss, BreakerRefuses,
       PrepAccepts, PrepRejects, PrepFails, CacheSet, UpsertFromPrepUser, FindNothing, FindRow,
       Upsert, Update, GetMe, DatabaseFails, Goto, GotoWith, Answer, IInv
  <2> QED
    BY <1>4, <2>1, <2>2 DEF HHandle
<1>5. ASSUME NEW r \in Request, HHandle(r)
      PROVE  RevInv'
  <2>1. CASE PrepAccepts(r)
    <3>1. req[r].token \in Token /\ valid[req[r].token]
      BY <2>1 DEF PrepAccepts, At, IInv, SoundReq
    <3>2. req'[r].token = req[r].token /\ UNCHANGED cache
      BY <2>1 DEF PrepAccepts, IInv, ReqType
    <3>3. ASSUME NEW s \in Request, At(s, "cacheSet")'
          PROVE  gone'[req'[s].token] <= pause'[s]
      BY <1>4, <1>5, <3>1, <3>2, <3>3 DEF RevInv, At
    <3> QED
      BY <1>4, <1>5, <3>2, <3>3 DEF RevInv, At, HashToken, Longest
  <2>2. CASE ~PrepAccepts(r)
    <3>1. ~At(r, "cacheSet")'
      <4>1. CASE ValidateToken(r)
        BY <2>2, <4>1 DEF ValidateToken, CacheHit, CacheMiss, BreakerRefuses, PrepRejects,
           PrepFails, CacheSet, Goto, Answer, Answered, At, IInv, ReqType
      <4>2. CASE UpsertFromPrepUser(r) \/ GetMe(r) \/ DatabaseFails(r)
        BY <4>2 DEF UpsertFromPrepUser, FindNothing, FindRow, Upsert, Update, GetMe,
           DatabaseFails, Goto, GotoWith, Answer, Answered, At, IInv, ReqType
      <4> QED
        BY <1>5, <4>1, <4>2 DEF HHandle, Handle
    <3>2. ASSUME NEW s \in Request, At(s, "cacheSet")'
          PROVE  /\ At(s, "cacheSet") /\ req'[s].token = req[s].token
                 /\ pause'[s] = pause[s]
      BY <1>4, <1>5, <3>1, <3>2 DEF At
    <3>3. CASE CacheSet(r)
      <4>1. req[r].token \in Token /\ gone[req[r].token] <= pause[r]
        BY <3>3 DEF CacheSet, At, IInv, SoundReq, RevInv
      <4>2. ASSUME NEW t \in Token
            PROVE  \/ cache'[HashToken(t)] = cache[HashToken(t)]
                   \/ gone[t] + cache'[HashToken(t)].life <= Longest
        <5>1. CASE t = req[r].token
          BY <3>3, <4>1, <5>1, Md5Assumption, LongestNat
             DEF CacheSet, RevInv, IInv, SoundCache, HashToken
        <5>2. CASE t # req[r].token
          BY <3>3, <4>1, <5>2, Md5Assumption DEF CacheSet, IInv, SoundCache, HashToken
        <5> QED
          BY <5>1, <5>2
      <4> QED
        BY <1>4, <1>5, <3>2, <4>2, NothingCounted
    <3>4. CASE ~CacheSet(r)
      <4>1. UNCHANGED cache
        BY <1>5, <2>2, <3>4 DEF HHandle, Handle, ValidateToken, CacheHit, CacheMiss,
           BreakerRefuses, PrepRejects, PrepFails, UpsertFromPrepUser, FindNothing, FindRow,
           Upsert, Update, GetMe, DatabaseFails
      <4> QED
        BY <1>4, <1>5, <3>2, <4>1, NothingCounted
    <3> QED
      BY <3>3, <3>4
  <2> QED
    BY <2>1, <2>2
<1>6. CASE HTick
  <2>1. UNCHANGED <<req, valid>> /\ pause' \in [Request -> 0..MaxPause]
    BY <1>6, LongestNat DEF HTick, Tick, vars, RevInv
  <2>2. \A t \in Token : gone'[t] \in 0..Longest /\ gone'[t] <= gone[t] + 1
    BY <1>6, LongestNat DEF HTick, RevInv
  <2>3. ASSUME NEW r \in Request, At(r, "cacheSet")'
        PROVE  gone'[req'[r].token] <= pause'[r]
    <3>1. At(r, "cacheSet") /\ req[r].token \in Token /\ pause'[r] = pause[r] + 1
      BY <1>6, <2>1, <2>3 DEF HTick, At, IInv, SoundReq
    <3> QED
      BY <2>1, <2>2, <3>1, LongestNat DEF RevInv
  <2>4. ASSUME NEW t \in Token, cache'[HashToken(t)] # Null
        PROVE  gone'[t] + cache'[HashToken(t)].life <= Longest
    <3>1. HashToken(t) \in Key
      BY Md5Assumption DEF HashToken
    <3>2. cache[HashToken(t)] \in Entry /\ cache'[HashToken(t)] = Aged(cache[HashToken(t)])
      BY <1>6, <2>4, <3>1 DEF HTick, Tick, vars, Aged, IInv, SoundCache
    <3>3. /\ cache[HashToken(t)].life \in Nat /\ cache'[HashToken(t)].life \in Nat
          /\ cache'[HashToken(t)].life + 1 = cache[HashToken(t)].life
      BY <2>4, <3>2, LongestNat DEF Aged, Entry
    <3>4. gone[t] \in Nat /\ gone'[t] \in Nat /\ gone[t] + cache[HashToken(t)].life <= Longest
      BY <2>2, <3>2, LongestNat, NullIsNothing DEF RevInv
    <3> QED
      BY <2>2, <3>3, <3>4, LongestNat
  <2> QED
    BY <1>6, <2>1, <2>2, <2>3, <2>4, LongestNat DEF HTick, RevInv
<1>7. ASSUME NEW t \in Token, Revoke(t), UNCHANGED history
      PROVE  RevInv'
  BY <1>7 DEF Revoke, RevInv, IInv, history, At
<1>8. ASSUME NEW u \in PrepUser, ChangeProfile(u), UNCHANGED history
      PROVE  RevInv'
  BY <1>8, NothingCounted DEF ChangeProfile, RevInv, history, At
<1>9. CASE UNCHANGED historyVars
  BY <1>9, NothingCounted DEF historyVars, vars, RevInv, history, At
<1> QED
  BY <1>2, <1>3, <1>5, <1>6, <1>7, <1>8, <1>9 DEF HistoryNext

(* The accounts are kept in every reachable state. *)
THEOREM HistoryInvariance == HistorySpec => [](IInv /\ RevInv)
<1>1. HistoryInit => RevInv
  BY LongestNat, Md5Assumption DEF HistoryInit, Init, RevInv, Answered, At, HashToken
<1>2. HistorySpec => []IInv
  BY HistoryIsAuthFlow, Invariance
<1> QED
  BY <1>1, <1>2, AccountsKept, PTL DEF HistorySpec

(* A withdrawn token is honoured for TTL and one pause, and never after that,
   for any number of requests, tokens and users and whatever fails meanwhile. *)
THEOREM RevocationIsBounded == HistorySpec => HonouredBriefly
<1> DEFINE Entering(r) == ~At(r, "find") /\ At(r, "find")'
<1>1. IInv /\ RevInv /\ [HistoryNext]_historyVars =>
        [ \A r \in Request : Entering(r) =>
              LET t == req[r].token IN valid[t] \/ gone[t] < Longest ]_historyVars
  <2> SUFFICES ASSUME IInv, RevInv, HistoryNext, NEW r \in Request, Entering(r)
               PROVE  gone[req[r].token] < Longest
    OBVIOUS
  <2>1. CacheHit(r) \/ CacheSet(r)
    <3> SUFFICES ASSUME ~CacheHit(r), ~CacheSet(r) PROVE FALSE
      OBVIOUS
    <3>1. ASSUME NEW s \in Request, Handle(s) PROVE FALSE
      <4>1. s = r \/ req'[r] = req[r]
        BY <3>1 DEF Handle, ValidateToken, CacheHit, CacheMiss, BreakerRefuses, PrepAccepts,
           PrepRejects, PrepFails, CacheSet, UpsertFromPrepUser, FindNothing, FindRow, Upsert,
           Update, GetMe, DatabaseFails, Goto, GotoWith, Answer, IInv
      <4>2. CASE s = r /\ ValidateToken(s)
        BY <4>2 DEF ValidateToken, CacheMiss, BreakerRefuses, PrepAccepts, PrepRejects,
           PrepFails, Goto, Answer, Answered, At, IInv, ReqType
      <4>3. CASE s = r /\ (UpsertFromPrepUser(s) \/ GetMe(s) \/ DatabaseFails(s))
        BY <4>3 DEF UpsertFromPrepUser, FindNothing, FindRow, Upsert, Update, GetMe,
           DatabaseFails, Goto, GotoWith, Answer, Answered, At, IInv, ReqType
      <4> QED
        BY <3>1, <4>1, <4>2, <4>3 DEF Handle, At
    <3>2. ASSUME NEW s \in Request, NEW t \in Token, Arrive(s, t) PROVE FALSE
      BY <3>2 DEF Arrive, Started, At, IInv
    <3>3. ASSUME NEW s \in Request, ArriveBare(s) PROVE FALSE
      BY <3>3 DEF ArriveBare, Answered, At, IInv
    <3> QED
      BY <3>1, <3>2, <3>3
      DEF HistoryNext, HArrive, HHandle, HTick, Tick, Revoke, ChangeProfile, vars, At
  <2>2. CASE CacheHit(r)
    <3> DEFINE t == req[r].token
    <3>1. t \in Token /\ HashToken(t) \in Key
      BY <2>2, Md5Assumption DEF CacheHit, At, IInv, SoundReq, HashToken
    <3>2. cache[HashToken(t)] # Null /\ cache[HashToken(t)].life \in 1..TTL
      BY <2>2, <3>1 DEF CacheHit, IInv, SoundCache, Entry
    <3> QED
      BY <3>1, <3>2, LongestNat DEF RevInv
  <2>3. CASE CacheSet(r)
    <3>1. req[r].token \in Token /\ gone[req[r].token] <= pause[r]
      BY <2>3 DEF CacheSet, At, IInv, SoundReq, RevInv
    <3> QED
      BY <3>1, LongestNat DEF RevInv
  <2> QED
    BY <2>1, <2>2, <2>3
<1> QED
  BY <1>1, HistoryInvariance, PTL DEF HistorySpec, HonouredBriefly

-----------------------------------------------------------------------------
(* A request whose user was registered before it never holds another id than
   the one of the row: it finds the row, which stays, and inserts nothing. *)
Known ==
    /\ known \subseteq Request
    /\ \A r \in known :
          LET u == Owner[req[r].token]
          IN  /\ req[r].stage \notin {"done", "upsert"}
              /\ users[u] # Null
              /\ req[r].stage \in {"update", "getMe"} => req[r].id = users[u].id

(* What a request of a registered user may become, given the table. *)
Sure(q, u, table) ==
    /\ q.stage = "done" => q.answer # 404
    /\ q.stage # "upsert"
    /\ q.stage \in {"update", "getMe"} => q.id = table[u].id

(* Such a request finds its row, keeps the row's id and is shown the row. *)
LEMMA KnownHandled ==
    ASSUME IInv, Known, NEW r \in known, Handle(r),
           users' \in UsersType, Extends(users, users')
    PROVE  /\ At(r, "done")' \/ req'[r].token = req[r].token
           /\ Sure(req'[r], Owner[req[r].token], users')
<1> DEFINE u == Owner[req[r].token]
<1>1. /\ r \in Request /\ req \in [Request -> ReqType] /\ req[r].token \in Token
      /\ u \in PrepUser /\ users[u] # Null /\ users'[u] # Null /\ users'[u].id = users[u].id
      /\ req[r].stage \in {"update", "getMe"} => req[r].id = users[u].id
      /\ req[r].stage \in Identified => req[r].who.user = u
  BY OwnerAssumption, NullIsNothing DEF Known, IInv, SoundReq, Extends
<1>2. CASE ValidateToken(r)
  BY <1>1, <1>2 DEF ValidateToken, CacheHit, CacheMiss, BreakerRefuses, PrepAccepts,
     PrepRejects, PrepFails, CacheSet, Goto, Answer, Answered, At, ReqType, Sure
<1>3. CASE UpsertFromPrepUser(r)
  <2>1. ~FindNothing(r) /\ ~Upsert(r)
    BY <1>1 DEF FindNothing, Upsert, At, Known, Identified
  <2>2. CASE FindRow(r)
    BY <1>1, <2>2 DEF FindRow, GotoWith, At, ReqType, Sure, Identified
  <2>3. CASE Update(r)
    BY <1>1, <2>3 DEF Update, Goto, At, ReqType, Sure
  <2> QED
    BY <1>3, <2>1, <2>2, <2>3 DEF UpsertFromPrepUser
<1>4. CASE GetMe(r)
  <2>1. users[u] # Null /\ users[u].id = req[r].id
    BY <1>1, <1>4 DEF GetMe, At
  <2>2. Answer(r, 200)
    <3>1. \E v \in PrepUser : users[v] # Null /\ users[v].id = req[r].id
      BY <1>1, <2>1
    <3>2. (IF \E v \in PrepUser : users[v] # Null /\ users[v].id = req[r].id
           THEN 200 ELSE 404) = 200
      BY <3>1
    <3> QED
      BY <1>4, <3>2 DEF GetMe
  <2>3. req' = [req EXCEPT ![r] = Answered(req[r].token, 200)]
    BY <2>2 DEF Answer
  <2> QED
    BY <1>1, <2>3 DEF Answered, At, Sure
<1>5. CASE DatabaseFails(r)
  <2>1. req' = [req EXCEPT ![r] = Answered(req[r].token, 500)]
    BY <1>5 DEF DatabaseFails, Answer
  <2> QED
    BY <1>1, <2>1 DEF Answered, At, Sure
<1> QED
  BY <1>2, <1>3, <1>4, <1>5 DEF Handle

(* No step of any request takes the row, or its id, from such a request. *)
LEMMA KnownStep ==
    ASSUME IInv, Known, [HistoryNext]_historyVars
    PROVE  /\ Known'
           /\ \A r \in known : At(r, "done")' => req'[r].answer # 404
<1>1. [Next]_vars
  BY DEF HistoryNext, HArrive, HHandle, HTick, Next, historyVars
<1>2. users' \in UsersType /\ Extends(users, users')
  BY <1>1, RowsStay
<1>3. /\ known \subseteq Request /\ req \in [Request -> ReqType]
      /\ \A r \in known : req[r].token \in Token /\ Owner[req[r].token] \in PrepUser
  BY OwnerAssumption DEF Known, IInv, SoundReq
(* A request that does not move. *)
<1>4. ASSUME NEW r \in known, req'[r] = req[r]
      PROVE  LET u == Owner[req'[r].token]
             IN  /\ req'[r].stage \notin {"done", "upsert"}
                 /\ users'[u] # Null
                 /\ req'[r].stage \in {"update", "getMe"} => req'[r].id = users'[u].id
  BY <1>2, <1>3, <1>4 DEF Known, Extends
<1>5. CASE UNCHANGED <<req, known>>
  BY <1>3, <1>4, <1>5 DEF Known, At
<1>6. ASSUME NEW r \in Request, HHandle(r)
      PROVE  Known' /\ \A s \in known : At(s, "done")' => req'[s].answer # 404
  <2>1. \A s \in Request \ {r} : req'[s] = req[s]
    BY <1>3, <1>6 DEF HHandle, Handle, ValidateToken, CacheHit, CacheMiss, BreakerRefuses,
       PrepAccepts, PrepRejects, PrepFails, CacheSet, UpsertFromPrepUser, FindNothing, FindRow,
       Upsert, Update, GetMe, DatabaseFails, Goto, GotoWith, Answer
  <2>2. known' = IF At(r, "done")' THEN known \ {r} ELSE known
    BY <1>6 DEF HHandle
  <2>3. ASSUME r \in known
        PROVE  /\ At(r, "done")' \/ req'[r].token = req[r].token
               /\ Sure(req'[r], Owner[req[r].token], users')
               /\ users'[Owner[req[r].token]] # Null
    BY <1>2, <1>3, <1>6, <2>3, KnownHandled DEF HHandle, Known, Extends
  <2>4. ASSUME NEW s \in known'
        PROVE  LET u == Owner[req'[s].token]
               IN  /\ req'[s].stage \notin {"done", "upsert"}
                   /\ users'[u] # Null
                   /\ req'[s].stage \in {"update", "getMe"} => req'[s].id = users'[u].id
    <3>1. CASE s = r
      BY <2>2, <2>3, <2>4, <3>1 DEF Sure, At
    <3>2. CASE s # r
      BY <1>3, <1>4, <2>1, <2>2, <2>4, <3>2
    <3> QED
      BY <3>1, <3>2
  <2>5. ASSUME NEW s \in known, At(s, "done")' PROVE req'[s].answer # 404
    BY <1>3, <1>4, <2>1, <2>3, <2>5 DEF Sure, At
  <2> QED
    BY <1>3, <2>2, <2>4, <2>5 DEF Known
<1>7. ASSUME NEW r \in Request, NEW t \in Token, HArrive(r, t)
      PROVE  Known' /\ \A s \in known : At(s, "done")' => req'[s].answer # 404
  <2>1. /\ req' = [req EXCEPT ![r] = Started(t)] /\ users' = users /\ r \notin known
        /\ known' = IF users[Owner[t]] = Null THEN known ELSE known \cup {r}
    BY <1>7 DEF HArrive, Arrive, Known, At
  <2>2. \A s \in known : req'[s] = req[s]
    BY <1>3, <2>1
  <2>3. req'[r].stage = "cacheGet" /\ req'[r].token = t
    BY <1>3, <2>1 DEF Started
  <2> QED
    BY <1>3, <1>4, <2>1, <2>2, <2>3 DEF Known, At
<1>8. ASSUME NEW r \in Request, ArriveBare(r), UNCHANGED history
      PROVE  Known' /\ \A s \in known : At(s, "done")' => req'[s].answer # 404
  <2>1. known' = known /\ \A s \in known : req'[s] = req[s]
    BY <1>3, <1>8 DEF ArriveBare, history, Known, At
  <2> QED
    BY <1>3, <1>4, <2>1 DEF Known, At
<1> QED
  BY <1>5, <1>6, <1>7, <1>8
  DEF HistoryNext, HTick, Tick, Revoke, ChangeProfile, historyVars, history, vars

(* Whoever was registered when a request of theirs arrived is never told that
   there is no such user, for any number of requests and whatever fails. *)
THEOREM RegisteredNeverLost == HistorySpec => RegisteredAreFound
<1>1. HistoryInit => Known
  BY DEF HistoryInit, Known
<1>2. HistorySpec => []IInv
  BY HistoryIsAuthFlow, Invariance
<1>3. IInv /\ Known /\ [HistoryNext]_historyVars =>
        Known' /\ [ \A r \in known : At(r, "done")' => req'[r].answer # 404 ]_historyVars
  BY KnownStep
<1> QED
  BY <1>1, <1>2, <1>3, PTL DEF HistorySpec, RegisteredAreFound
=============================================================================
