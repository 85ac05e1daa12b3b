------------------------------ MODULE AuthFlow ------------------------------
(***************************************************************************)
(* GET /v1/auth/me from the Authorization header to the answer: the        *)
(* authentication middleware, PrepUserService with its token cache, the    *)
(* auth use case, the user repository and the handler.  Requests are       *)
(* handled concurrently and share the token cache (Redis) and the users    *)
(* table; each call to Redis, to the identity provider or to the database  *)
(* is a step, and the other requests may take steps between any two.       *)
(***************************************************************************)
EXTENDS Naturals

CONSTANTS
    Request,     \* requests that can be in progress at one time
    Token,       \* bearer tokens
    PrepUser,    \* prep_user_ids: users as the identity provider knows them
    Owner,       \* the user a token was issued to
    Key,         \* the possible md5 sums of tokens
    Md5,         \* the md5 sum of each token
    TTL,         \* ticks a validated token stays cached
    Faults,      \* what may fail, a subset of AllFaults
    MaxVersion,  \* bound: how often a user's profile changes
    Null         \* no row, no cache entry, no identity

AllFaults == {"redis", "breaker", "provider", "database"}

ASSUME OwnerAssumption == Owner \in [Token -> PrepUser]

(* Collisions of md5 are left out. *)
ASSUME Md5Assumption ==
    /\ Md5 \in [Token -> Key]
    /\ \A t1, t2 \in Token : Md5[t1] = Md5[t2] => t1 = t2

ASSUME ParameterAssumption ==
    /\ TTL \in Nat /\ TTL >= 1
    /\ Faults \subseteq AllFaults
    /\ MaxVersion \in Nat

Profile == 0..MaxVersion

(* domain.PrepUser: whom the provider named and with what email and name. *)
Identity == [user : PrepUser, profile : Profile]

(* NewUser mints a uuid; a row's id tells which request minted it for whom. *)
Id == Request \X PrepUser

Row == [id : Id, profile : Profile]

Entry == [who : Identity, life : 1..TTL]

ASSUME NullAssumption == Null \notin Identity \cup Id \cup Row \cup Entry \cup Token

VARIABLES
    req,       \* each request: how far it got and what it knows
    cache,     \* Redis, auth:token:<md5>: validated tokens
    users,     \* the users table, unique by prep_user_id
    valid,     \* the provider: which tokens it accepts
    profile    \* the provider: each user's current profile

vars == <<req, cache, users, valid, profile>>

-----------------------------------------------------------------------------
(* Definitions named Bug... are the mutants of the definition that follows
   them: what a plausible mistake there would say.  Nothing uses them. *)

BugSharedKey(t) == CHOOSE k \in Key : TRUE

HashToken(t) == Md5[t]

Minted(r, u) == <<r, u>>

At(r, stage) == req[r].stage = stage

(* Request r goes on to another stage. *)
Goto(r, stage) == req' = [req EXCEPT ![r].stage = stage]

GotoWith(r, stage, id) == req' = [req EXCEPT ![r].stage = stage, ![r].id = id]

Started(t) ==
    [stage |-> "cacheGet", token |-> t, who |-> Null, id |-> Null, answer |-> 0]

Answered(t, code) ==
    [stage |-> "done", token |-> t, who |-> Null, id |-> Null, answer |-> code]

(* HandleError or Success writes the answer; the request is over and its
   context goes with it. *)
Answer(r, code) == req' = [req EXCEPT ![r] = Answered(@.token, code)]

Init ==
    /\ req = [r \in Request |-> Answered(Null, 0)]
    /\ cache = [k \in Key |-> Null]
    /\ users = [u \in PrepUser |-> Null]
    /\ valid \in [Token -> BOOLEAN]
    /\ profile = [u \in PrepUser |-> 0]

-----------------------------------------------------------------------------
(* A request with a bearer token enters AuthMiddleware. *)
Arrive(r, t) ==
    /\ At(r, "done")
    /\ req' = [req EXCEPT ![r] = Started(t)]
    /\ UNCHANGED <<cache, users, valid, profile>>

(* No header, or not a bearer token: answered without further ado. *)
ArriveBare(r) ==
    /\ At(r, "done")
    /\ req' = [req EXCEPT ![r] = Answered(Null, 401)]
    /\ UNCHANGED <<cache, users, valid, profile>>

BugHitRefreshes(r) ==
    LET entry == cache[HashToken(req[r].token)]
    IN  /\ At(r, "cacheGet")
        /\ entry # Null
        /\ req' = [req EXCEPT ![r].stage = "cacheSet", ![r].who = entry.who]
        /\ UNCHANGED <<cache, users, valid, profile>>

(* ValidateToken: getFromCache finds the token. *)
CacheHit(r) ==
    LET entry == cache[HashToken(req[r].token)]
    IN  /\ At(r, "cacheGet")
        /\ entry # Null
        /\ req' = [req EXCEPT ![r].stage = "find", ![r].who = entry.who]
        /\ UNCHANGED <<cache, users, valid, profile>>

(* getFromCache finds nothing; an error of Redis counts as nothing found. *)
CacheMiss(r) ==
    /\ At(r, "cacheGet")
    /\ cache[HashToken(req[r].token)] = Null \/ "redis" \in Faults
    /\ Goto(r, "prepMe")
    /\ UNCHANGED <<cache, users, valid, profile>>

(* callPrepMe: the circuit breaker refuses (module CircuitBreaker). *)
BreakerRefuses(r) ==
    /\ At(r, "prepMe")
    /\ "breaker" \in Faults
    /\ Answer(r, 503)
    /\ UNCHANGED <<cache, users, valid, profile>>

(* callPrepMe: 200 and the user. *)
PrepAccepts(r) ==
    LET u == Owner[req[r].token]
    IN  /\ At(r, "prepMe")
        /\ valid[req[r].token]
        /\ req' = [req EXCEPT ![r].stage = "cacheSet",
                              ![r].who = [user |-> u, profile |-> profile[u]]]
        /\ UNCHANGED <<cache, users, valid, profile>>

(* callPrepMe: 401.  fetchReturnURL only adds a link to the answer. *)
PrepRejects(r) ==
    /\ At(r, "prepMe")
    /\ ~valid[req[r].token]
    /\ Answer(r, 401)
    /\ UNCHANGED <<cache, users, valid, profile>>

BugFailureIsRejection(r) ==
    /\ At(r, "prepMe")
    /\ "provider" \in Faults
    /\ Answer(r, 401)
    /\ UNCHANGED <<cache, users, valid, profile>>

(* callPrepMe: no connection, another status, or a body that is not JSON; or a
   configured address from which no request can be made, which is no AppError. *)
PrepFails(r) ==
    /\ At(r, "prepMe")
    /\ "provider" \in Faults
    /\ \E code \in {500, 503} : Answer(r, code)
    /\ UNCHANGED <<cache, users, valid, profile>>

(* setToCache; its error is ignored. *)
CacheSet(r) ==
    /\ At(r, "cacheSet")
    /\ \/ cache' = [cache EXCEPT ![HashToken(req[r].token)] =
                        [who |-> req[r].who, life |-> TTL]]
       \/ "redis" \in Faults /\ UNCHANGED cache
    /\ Goto(r, "find")
    /\ UNCHANGED <<users, valid, profile>>

BugInsertsUnseen(r) ==
    /\ At(r, "find")
    /\ GotoWith(r, "upsert", Minted(r, req[r].who.user))
    /\ UNCHANGED <<cache, users, valid, profile>>

(* UpsertFromPrepUser: FindByPrepUserID, and NewUser when there is no row. *)
FindNothing(r) ==
    LET u == req[r].who.user
    IN  /\ At(r, "find")
        /\ users[u] = Null
        /\ GotoWith(r, "upsert", Minted(r, u))
        /\ UNCHANGED <<cache, users, valid, profile>>

BugNeverUpdates(r) ==
    LET row == users[req[r].who.user]
    IN  /\ At(r, "find")
        /\ row # Null
        /\ GotoWith(r, "getMe", row.id)
        /\ UNCHANGED <<cache, users, valid, profile>>

(* UpsertFromPrepUser: FindByPrepUserID, and what differs from the row. *)
FindRow(r) ==
    LET row == users[req[r].who.user]
    IN  /\ At(r, "find")
        /\ row # Null
        /\ GotoWith(r, IF row.profile = req[r].who.profile THEN "getMe" ELSE "update",
                    row.id)
        /\ UNCHANGED <<cache, users, valid, profile>>

BugOverwritesId(row, new) == new

(* INSERT ... ON CONFLICT (prep_user_id) DO UPDATE email, name, updated_at. *)
InsertOrUpdate(row, new) ==
    IF row = Null THEN new ELSE [row EXCEPT !.profile = new.profile]

(* What the pending write of request r makes of the users table. *)
Written(r) ==
    LET who == req[r].who
        new == [id |-> req[r].id, profile |-> who.profile]
    IN  IF At(r, "upsert")
        THEN [users EXCEPT ![who.user] = InsertOrUpdate(@, new)]
        ELSE [users EXCEPT ![who.user].profile = who.profile]

(* UserRepository.Upsert.  gorm reads back only columns whose value the database
   is to supply, and UserModel.ID is not one: after a conflict m.ID, and so
   user.ID, is still the id minted for the insert, and not the one of the row. *)
Upsert(r) ==
    /\ At(r, "upsert")
    /\ users' = Written(r)
    /\ Goto(r, "getMe")
    /\ UNCHANGED <<cache, valid, profile>>

(* UserRepository.Update of the row found. *)
Update(r) ==
    /\ At(r, "update")
    /\ users' = Written(r)
    /\ Goto(r, "getMe")
    /\ UNCHANGED <<cache, valid, profile>>

(* The handler's GetMe: FindByID with the id the middleware put in context. *)
GetMe(r) ==
    /\ At(r, "getMe")
    /\ Answer(r, IF \E u \in PrepUser : users[u] # Null /\ users[u].id = req[r].id
                 THEN 200 ELSE 404)
    /\ UNCHANGED <<cache, users, valid, profile>>

(* A database call fails; a failed write may have been applied all the same. *)
DatabaseFails(r) ==
    /\ req[r].stage \in {"find", "upsert", "update", "getMe"}
    /\ "database" \in Faults
    /\ \/ UNCHANGED users
       \/ req[r].stage \in {"upsert", "update"} /\ users' = Written(r)
    /\ Answer(r, 500)
    /\ UNCHANGED <<cache, valid, profile>>

-----------------------------------------------------------------------------
(* Redis drops entries whose time is up. *)
Aged(entry) ==
    IF entry = Null \/ entry.life = 1 THEN Null ELSE [entry EXCEPT !.life = @ - 1]

Tick ==
    /\ \E k \in Key : cache[k] # Null
    /\ cache' = [k \in Key |-> Aged(cache[k])]
    /\ UNCHANGED <<req, users, valid, profile>>

(* The provider withdraws a token: logout, expiry, a changed password. *)
Revoke(t) ==
    /\ valid[t]
    /\ valid' = [valid EXCEPT ![t] = FALSE]
    /\ UNCHANGED <<req, cache, users, profile>>

(* A user changes name or email at the provider. *)
ChangeProfile(u) ==
    /\ profile[u] < MaxVersion
    /\ profile' = [profile EXCEPT ![u] = @ + 1]
    /\ UNCHANGED <<req, cache, users, valid>>

ValidateToken(r) ==
    \/ CacheHit(r) \/ CacheMiss(r) \/ BreakerRefuses(r)
    \/ PrepAccepts(r) \/ PrepRejects(r) \/ PrepFails(r) \/ CacheSet(r)

UpsertFromPrepUser(r) ==
    FindNothing(r) \/ FindRow(r) \/ Upsert(r) \/ Update(r)

Handle(r) == ValidateToken(r) \/ UpsertFromPrepUser(r) \/ GetMe(r) \/ DatabaseFails(r)

Next ==
    \/ \E r \in Request, t \in Token : Arrive(r, t)
    \/ \E r \in Request : ArriveBare(r)
    \/ \E r \in Request : Handle(r)
    \/ Tick
    \/ \E t \in Token : Revoke(t)
    \/ \E u \in PrepUser : ChangeProfile(u)

Spec == Init /\ [][Next]_vars

(* Every call of a request returns (client and driver timeouts), time passes,
   and clients keep using their tokens. *)
Fairness ==
    /\ \A r \in Request : WF_vars(Handle(r))
    /\ WF_vars(Tick)
    /\ \A t \in Token : SF_vars(\E r \in Request : Arrive(r, t))

FairSpec == Spec /\ Fairness

-----------------------------------------------------------------------------
Stages == {"done", "cacheGet", "prepMe", "cacheSet", "find", "upsert", "update", "getMe"}

Identified == {"cacheSet", "find", "upsert", "update", "getMe"}

TypeOK ==
    /\ req \in [Request -> [stage : Stages, token : Token \cup {Null},
                            who : Identity \cup {Null}, id : Id \cup {Null},
                            answer : {0, 200, 401, 404, 500, 503}]]
    /\ \A r \in Request : ~At(r, "done") => req[r].token # Null
    /\ \A r \in Request : req[r].stage \in Identified => req[r].who # Null
    /\ \A r \in Request : req[r].stage \in {"upsert", "update", "getMe"} => req[r].id # Null
    /\ cache \in [Key -> Entry \cup {Null}]
    /\ users \in [PrepUser -> Row \cup {Null}]
    /\ valid \in [Token -> BOOLEAN]
    /\ profile \in [PrepUser -> Profile]

(* Whatever is cached under a token, and whomever a request acts for, is the
   user that token was issued to: requests sharing the cache never swap users. *)
IdentityMatchesToken ==
    /\ \A t \in Token : cache[HashToken(t)] # Null => cache[HashToken(t)].who.user = Owner[t]
    /\ \A r \in Request : req[r].who # Null => req[r].who.user = Owner[req[r].token]

(* A request that carries a token is answered 401 only if the provider rejected
   the token: no failure of Redis, breaker, provider or database logs out. *)
UnauthorizedOnlyIfRejected ==
    \A r \in Request :
        req[r].answer = 401 /\ req[r].token # Null => ~valid[req[r].token]

(* A user registers once: the row stays, under the id it was inserted with,
   whatever requests of the same user run at the same time. *)
RegisteredOnce ==
    [][ \A u \in PrepUser : users[u] # Null =>
            users'[u] # Null /\ users'[u].id = users[u].id ]_vars

(* A withdrawn token stops working: there comes a time after which no request
   that presents it gets past the middleware. *)
RevocationTakesEffect ==
    \A t \in Token : ~valid[t] ~>
        [](\A r \in Request : req[r].token = t => req[r].stage \notin Identified)

(* A request ends because a call failed. *)
Failure ==
    \E r \in Request : ~At(r, "done") /\ At(r, "done")' /\ req'[r].answer \in {500, 503}

(* Once calls stop failing, a user whose token stays good gets registered, and
   when the profile has stopped changing the row ends up with it, in spite of
   the failures before and of older copies in the cache. *)
ProfileConverges ==
    <>[][~Failure]_vars =>
        \A t \in Token : []valid[t] =>
            LET u == Owner[t]
            IN  <>[](users[u] # Null /\ users[u].profile = profile[u])
=============================================================================
