----------------------------- MODULE GuardedAuth -----------------------------
(***************************************************************************)
(* AuthFlow and CircuitBreaker put together the way auth.NewModule does:   *)
(* one breaker guards the calls of all requests to the identity provider.  *)
(* What AuthFlow leaves to chance (whether the breaker refuses, whether    *)
(* the provider answers) is decided here by the breaker and the provider,  *)
(* and what the breaker sees of its callers, that they come only when the  *)
(* token cache has nothing, and whether their tokens are rejected, is      *)
(* decided by the requests.                                                *)
(***************************************************************************)
EXTENDS AuthFlow

CONSTANTS Configured, Minute, Successful, CountBound    \* of the breaker

VARIABLES gen, inFlight, refused, upstream              \* of the breaker

Breaker == INSTANCE CircuitBreaker
    WITH Call <- Request, Outcome <- {"ok", "business", "cancelled", "infra"}

breakerVars == <<gen, inFlight, refused, upstream>>

guardedVars == <<vars, breakerVars>>

ASSUME GuardedAssumption == {"breaker", "provider"} \subseteq Faults

ASSUME BreakerAssumption ==
    /\ Breaker!CallAssumption /\ Breaker!ConfiguredAssumption /\ Breaker!MinuteAssumption
    /\ Breaker!OutcomeAssumption /\ Breaker!BoundAssumption

GuardedInit == Init /\ Breaker!Init

(* breaker.Execute lets the call of request r through. *)
Enter(r) ==
    /\ At(r, "prepMe")
    /\ Breaker!Admit(r)
    /\ UNCHANGED vars

Refused(r) == BreakerRefuses(r) /\ Breaker!Refuse(r)

(* Definitions named Bug... are the mutants of the definition that follows
   them: what a plausible mistake there would say.  Nothing uses them. *)

BugCancelledNotReported(r) ==
    \/ PrepAccepts(r) /\ Breaker!Finish(r, "ok")
    \/ PrepRejects(r) /\ Breaker!Finish(r, "business")
    \/ PrepFails(r) /\ (Breaker!Finish(r, "infra") \/ UNCHANGED breakerVars)

(* The guarded function ends and the breaker hears of it.  A rejected token is
   an error to it like any other, and so is a call that ends because the client
   went away, which takes the request's context with it. *)
Leave(r) ==
    \/ PrepAccepts(r) /\ Breaker!Finish(r, "ok")
    \/ PrepRejects(r) /\ Breaker!Finish(r, "business")
    \/ PrepFails(r) /\ (Breaker!Finish(r, "infra") \/ Breaker!Finish(r, "cancelled"))

(* The steps of a request that do not concern the breaker. *)
Unguarded(r) ==
    /\ \/ CacheHit(r) \/ CacheMiss(r) \/ CacheSet(r)
       \/ UpsertFromPrepUser(r) \/ GetMe(r) \/ DatabaseFails(r)
    /\ UNCHANGED breakerVars

GuardedHandle(r) == Enter(r) \/ Refused(r) \/ Leave(r) \/ Unguarded(r)

GuardedArrive(r, t) == Arrive(r, t) /\ UNCHANGED breakerVars

RedisTick == Tick /\ UNCHANGED breakerVars

BreakerTick == Breaker!Tick /\ UNCHANGED vars

Provider ==
    \/ /\ (\E t \in Token : Revoke(t)) \/ (\E u \in PrepUser : ChangeProfile(u))
       /\ UNCHANGED breakerVars
    \/ Breaker!Flap /\ UNCHANGED vars

GuardedNext ==
    \/ \E r \in Request, t \in Token : GuardedArrive(r, t)
    \/ \E r \in Request : ArriveBare(r) /\ UNCHANGED breakerVars
    \/ \E r \in Request : GuardedHandle(r)
    \/ RedisTick \/ BreakerTick
    \/ Provider

GuardedSpec == GuardedInit /\ [][GuardedNext]_guardedVars

(* As in the two parts: calls return, time passes, clients keep coming.  The
   fairness of a request is strong only because CountBound may hold it up at
   times; in the code nothing does. *)
FairGuardedSpec ==
    /\ GuardedSpec
    /\ \A r \in Request : SF_guardedVars(GuardedHandle(r))
    /\ WF_guardedVars(RedisTick) /\ WF_guardedVars(BreakerTick)
    /\ \A t \in Token : SF_guardedVars(\E r \in Request : GuardedArrive(r, t))

-----------------------------------------------------------------------------
(* Whoever the breaker takes for being inside is still waiting for the provider:
   no request is answered, for whatever reason, without its call being reported,
   which would hold a place of the half-open breaker for ever. *)
CallersWait == \A r \in inFlight : At(r, "prepMe")

(* A call to the provider ends in an error. *)
CallFails == \E r \in inFlight \ inFlight' : req'[r].stage # "cacheSet"

(* Once calls no longer fail, be it for the provider, for clients that go away
   or for rejected tokens, there comes a time when no request is refused: those
   the token cache lets through to the breaker are enough to close it. *)
OutageEnds ==
    <>[][~CallFails]_guardedVars => <>[][\A r \in Request : ~Refused(r)]_guardedVars

(* After an outage a user whose token stays good is served again, and again,
   whether from the token cache or by the provider. *)
ServedAgain ==
    \A t \in Token : <>[][~CallFails]_guardedVars /\ []valid[t] =>
        []<>(\E r \in Request : req[r].token = t /\ req[r].answer = 200)
=============================================================================
