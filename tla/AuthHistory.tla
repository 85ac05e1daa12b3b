---------------------------- MODULE AuthHistory ----------------------------
(***************************************************************************)
(* AuthFlow with a record of how long ago each token was withdrawn, of how *)
(* long each request has rested between the provider's answer and the      *)
(* write to the token cache, and of which requests arrived when their user *)
(* was registered, to say for how long a withdrawn token is still honoured *)
(* and who may be told that there is no such user.                         *)
(***************************************************************************)
EXTENDS AuthFlow

CONSTANT MaxPause    \* bound: ticks between the provider's answer and setToCache

ASSUME PauseAssumption == MaxPause \in Nat

VARIABLES
    pause,    \* ticks each request has waited with the provider's answer
    gone,     \* ticks since each token was withdrawn
    known     \* requests in progress whose user was registered when they arrived

history == <<pause, gone, known>>

Longest == TTL + MaxPause

HistoryInit ==
    /\ Init
    /\ pause = [r \in Request |-> 0]
    /\ gone = [t \in Token |-> 0]
    /\ known = {}

HArrive(r, t) ==
    /\ Arrive(r, t)
    /\ known' = IF users[Owner[t]] = Null THEN known ELSE known \cup {r}
    /\ UNCHANGED <<pause, gone>>

HHandle(r) ==
    /\ Handle(r)
    /\ known' = IF At(r, "done")' THEN known \ {r} ELSE known
    /\ pause' = [pause EXCEPT ![r] = 0]
    /\ UNCHANGED gone

(* Time passes also when the cache is empty; no request rests for ever between
   the two calls, and a token withdrawn long ago need not be counted on. *)
HTick ==
    /\ \A r \in Request : At(r, "cacheSet") => pause[r] < MaxPause
    /\ \/ Tick
       \/ (\A k \in Key : cache[k] = Null) /\ UNCHANGED vars
    /\ pause' = [r \in Request |-> IF At(r, "cacheSet") THEN pause[r] + 1 ELSE pause[r]]
    /\ gone' = [t \in Token |->
                   IF ~valid[t] /\ gone[t] < Longest THEN gone[t] + 1 ELSE gone[t]]
    /\ UNCHANGED known

HistoryNext ==
    \/ \E r \in Request, t \in Token : HArrive(r, t)
    \/ \E r \in Request : ArriveBare(r) /\ UNCHANGED history
    \/ \E r \in Request : HHandle(r)
    \/ HTick
    \/ \E t \in Token : Revoke(t) /\ UNCHANGED history
    \/ \E u \in PrepUser : ChangeProfile(u) /\ UNCHANGED history

historyVars == <<vars, history>>

HistorySpec == HistoryInit /\ [][HistoryNext]_historyVars

-----------------------------------------------------------------------------
(* A withdrawn token is honoured for no longer than the cache's TTL and the
   longest pause of a request that was let in just before: after that no request
   that presents it gets past the middleware, however the reads, the writes and
   the expiry of its cache entry interleave. *)
HonouredBriefly ==
    [][ \A r \in Request : ~At(r, "find") /\ At(r, "find")' =>
            LET t == req[r].token IN valid[t] \/ gone[t] < Longest ]_historyVars

(* Once a user is registered, no request of theirs is told "User not found",
   whatever other requests of the same user write between its look at the table
   and GetMe.  Only requests that were there before the user was registered can
   be: the one that loses the race of two first logins goes on with an id that
   no row has. *)
RegisteredAreFound ==
    [][ \A r \in known : At(r, "done")' => req'[r].answer # 404 ]_historyVars
=============================================================================
