--------------------------- MODULE CircuitBreaker ---------------------------
(***************************************************************************)
(* The circuit breaker that stands between the API and the identity        *)
(* provider (internal/infrastructure/circuitbreaker).  The repository      *)
(* supplies the configuration, the trip rule and the mapping of refusals;  *)
(* the automaton itself is gobreaker v2, modelled from how Breaker uses    *)
(* it: every call takes the breaker's lock once to be admitted and once to *)
(* report its result, and time passes in between.                          *)
(*                                                                         *)
(* gobreaker numbers its generations and ignores a result that carries an  *)
(* old number.  Here the current generation remembers which callers it     *)
(* admitted, which says the same without an unbounded counter: a caller in *)
(* inFlight but not in gen.current belongs to an earlier generation.       *)
(***************************************************************************)
EXTENDS Naturals, FiniteSets

CONSTANTS
    Call,         \* goroutines that may be inside Execute at one time
    Configured,   \* the BreakerConfig handed to NewBreaker; 0 = not set
    Minute,       \* ticks of the model's clock in a minute
    Outcome,      \* how the guarded function can end, a subset of Outcomes
    Successful,   \* the outcomes IsSuccessful accepts
    CountBound    \* bound: most requests counted in one generation

(* ok: 200 and decoded; business: the provider answered 401; cancelled: the
   client went away and took the request's context with it; infra: no answer,
   another status or an unreadable body; panic: the function panicked. *)
Outcomes == {"ok", "business", "cancelled", "infra", "panic"}

WithDefaults(c) ==
    [MaxRequests  |-> IF c.MaxRequests = 0 THEN 5 ELSE c.MaxRequests,
     Interval     |-> IF c.Interval = 0 THEN Minute ELSE c.Interval,
     Timeout      |-> IF c.Timeout = 0 THEN Minute \div 2 ELSE c.Timeout,
     FailureRatio |-> IF c.FailureRatio = 0 THEN 60 ELSE c.FailureRatio,
     MinRequests  |-> IF c.MinRequests = 0 THEN 10 ELSE c.MinRequests]

Config == WithDefaults(Configured)

ASSUME CallAssumption == IsFiniteSet(Call)

(* FailureRatio is in percent, Interval and Timeout in ticks. *)
ASSUME ConfiguredAssumption ==
    Configured \in [MaxRequests : Nat, Interval : Nat, Timeout : Nat,
                    FailureRatio : Nat, MinRequests : Nat]

ASSUME MinuteAssumption == Minute \in Nat /\ Minute >= 2

ASSUME OutcomeAssumption == Outcome \subseteq Outcomes /\ Successful \subseteq Outcomes

ASSUME BoundAssumption == CountBound \in Nat /\ Config.MaxRequests <= CountBound

VARIABLES
    gen,        \* the current generation: state, counts, age, who it admitted
    inFlight,   \* callers whose guarded function is running
    refused,    \* callers whose last Execute returned ServiceUnavailable
    upstream    \* the identity provider: "up" or "down"

vars == <<gen, inFlight, refused, upstream>>

-----------------------------------------------------------------------------
(* Definitions named Bug... are the mutants of the definition that follows
   them: what a plausible mistake there would say.  Nothing uses them. *)

(* toNewGeneration: entering a state, or a new period of the closed state,
   clears the counts and disowns the callers still in flight. *)
NewGeneration(s) ==
    [state |-> s, requests |-> 0, successes |-> 0, failures |-> 0,
     age |-> 0, current |-> {}]

Lifetime(s) == IF s = "closed" THEN Config.Interval ELSE Config.Timeout

(* Expiry is strict (expiry.Before(now)); the half-open state has none. *)
Expired == gen.state # "half-open" /\ gen.age > Lifetime(gen.state)

BugStaysOpen == IF ~Expired \/ gen.state = "open" THEN gen ELSE NewGeneration("closed")

(* currentState: transitions by time are taken lazily, by the next caller. *)
CurrentState ==
    IF ~Expired THEN gen
    ELSE NewGeneration(IF gen.state = "open" THEN "half-open" ELSE "closed")

BugOneTooMany(g) ==
    \/ g.state = "closed"
    \/ g.state = "half-open" /\ g.requests <= Config.MaxRequests

Admits(g) ==
    \/ g.state = "closed"
    \/ g.state = "half-open" /\ g.requests < Config.MaxRequests

(* The trip rule NewBreaker installs.  Requests counts the calls still in
   flight too, so the ratio is of the failures among all admitted calls. *)
ReadyToTrip(g) ==
    /\ g.requests >= Config.MinRequests
    /\ 100 * g.failures >= Config.FailureRatio * g.requests

BugClosesOnFirstSuccess(g) ==
    IF g.state = "half-open" THEN NewGeneration("closed")
    ELSE [g EXCEPT !.successes = @ + 1]

BugOneSuccessMore(g) ==
    IF g.state = "half-open" /\ g.successes >= Config.MaxRequests
    THEN NewGeneration("closed")
    ELSE [g EXCEPT !.successes = @ + 1]

OnSuccess(g) ==
    LET counted == [g EXCEPT !.successes = @ + 1]
    IN  IF g.state = "half-open" /\ counted.successes >= Config.MaxRequests
        THEN NewGeneration("closed")
        ELSE counted

OnFailure(g) ==
    LET counted == [g EXCEPT !.failures = @ + 1]
    IN  IF g.state = "half-open" \/ ReadyToTrip(counted)
        THEN NewGeneration("open")
        ELSE counted

-----------------------------------------------------------------------------
Init ==
    /\ gen = NewGeneration("closed")
    /\ inFlight = {}
    /\ refused = {}
    /\ upstream = "up"

(* Execute, first half: beforeRequest lets the caller in. *)
Admit(c) ==
    /\ c \notin inFlight
    /\ Admits(CurrentState)
    /\ CurrentState.requests < CountBound
    /\ gen' = [CurrentState EXCEPT !.requests = @ + 1, !.current = @ \cup {c}]
    /\ inFlight' = inFlight \cup {c}
    /\ refused' = refused \ {c}
    /\ UNCHANGED upstream

(* Execute, first half: ErrOpenState or ErrTooManyRequests, both turned into
   ServiceUnavailable without running the function. *)
Refuse(c) ==
    /\ c \notin inFlight
    /\ ~Admits(CurrentState)
    /\ gen' = CurrentState
    /\ refused' = refused \cup {c}
    /\ UNCHANGED <<inFlight, upstream>>

(* What the guarded function can return, given the state of the provider. *)
Possible(o) ==
    /\ o \in Outcome
    /\ o \in {"ok", "business"} => upstream = "up"
    /\ o = "infra" => upstream = "down"

BugPanicNotReported(g, c, o) ==
    LET answered == [g EXCEPT !.current = @ \ {c}]
    IN  CASE o = "panic"      -> g
          [] o \in Successful -> OnSuccess(answered)
          [] OTHER            -> OnFailure(answered)

(* The generation after caller c, admitted by this one, reports outcome o. *)
Reported(g, c, o) ==
    LET answered == [g EXCEPT !.current = @ \ {c}]
    IN  IF o \in Successful THEN OnSuccess(answered) ELSE OnFailure(answered)

(* afterRequest: a result of an earlier generation only triggers the lazy
   transition. *)
AfterRequest(c, o) ==
    IF c \in CurrentState.current THEN Reported(CurrentState, c, o) ELSE CurrentState

(* Execute, second half: the function ends and its result is reported; the
   report is deferred, so that a panic is reported too. *)
Finish(c, o) ==
    /\ c \in inFlight
    /\ Possible(o)
    /\ gen' = AfterRequest(c, o)
    /\ inFlight' = inFlight \ {c}
    /\ UNCHANGED <<refused, upstream>>

(* State(): reading the state also takes the lazy transition. *)
Observe ==
    /\ gen' = CurrentState
    /\ UNCHANGED <<inFlight, refused, upstream>>

(* The clock; a generation past its lifetime need not age further. *)
Tick ==
    /\ gen.state # "half-open"
    /\ ~Expired
    /\ gen' = [gen EXCEPT !.age = @ + 1]
    /\ UNCHANGED <<inFlight, refused, upstream>>

(* The identity provider fails or recovers. *)
Flap ==
    /\ upstream' = IF upstream = "up" THEN "down" ELSE "up"
    /\ UNCHANGED <<gen, inFlight, refused>>

Next ==
    \/ \E c \in Call : Admit(c)
    \/ \E c \in Call : Refuse(c)
    \/ \E c \in Call, o \in Outcome : Finish(c, o)
    \/ Observe
    \/ Tick
    \/ Flap

Spec == Init /\ [][Next]_vars

(* Every guarded call ends, because the HTTP client has a timeout; the clock
   runs; requests keep arriving. *)
Fairness ==
    /\ \A c \in Call : WF_vars(\E o \in Outcome : Finish(c, o))
    /\ WF_vars(Tick)
    /\ WF_vars(\E c \in Call : Admit(c))

FairSpec == Spec /\ Fairness

-----------------------------------------------------------------------------
States == {"closed", "half-open", "open"}

(* The types; a half-open generation has no age, since it has no expiry. *)
TypeOK ==
    /\ gen \in [state : States, requests : 0..CountBound, successes : Nat,
                failures : Nat, age : Nat, current : SUBSET Call]
    /\ gen.state = "half-open" => gen.age = 0
    /\ inFlight \subseteq Call
    /\ refused \subseteq Call
    /\ upstream \in {"up", "down"}

(* The books balance in every generation: each request it counted is answered
   or in flight, whatever calls of earlier generations do and however a call
   ends (a panic must not leave its request unanswered for ever). *)
Tally ==
    /\ gen.current \subseteq inFlight
    /\ gen.requests = gen.successes + gen.failures + Cardinality(gen.current)
    /\ gen.state = "open" => gen.requests = 0

(* At most MaxRequests calls of a half-open period reach the provider, and no
   half-open period survives a failure. *)
HalfOpenLimit ==
    gen.state = "half-open" =>
        /\ gen.failures = 0
        /\ gen.successes + Cardinality(gen.current) <= Config.MaxRequests

(* A half-open breaker that refuses calls is waiting for a probe that can still
   decide: without one it would refuse for ever, since half-open never expires. *)
NotWedged ==
    gen.state = "half-open" /\ ~Admits(gen) => gen.current # {}

(* The breaker closes again only on the answer of the last probe out: every
   probe of the half-open period has answered, and answered well. *)
ClosesAfterAllProbes ==
    [][ gen.state = "half-open" /\ gen'.state = "closed" =>
          /\ gen.successes + 1 = Config.MaxRequests
          /\ \E c \in inFlight : gen.current = {c} /\ inFlight' = inFlight \ {c} ]_vars

(* A guarded call of this generation fails, or opens the breaker. *)
Failure ==
    \/ gen'.failures > gen.failures
    \/ gen'.state = "open" /\ gen.state # "open"

(* Once calls stop failing, and as long as clients keep calling, the breaker
   closes and stays closed, whatever calls of earlier generations still run. *)
Recovers == <>[][~Failure]_vars => <>[](gen.state = "closed")

(* What breaker_test.go asks of a breaker whose classifier knows business
   errors ("business errors should not trip"): while the provider answers, be
   it with 401, the breaker stays closed. *)
BusinessErrorsDoNotTrip ==
    Outcome \subseteq {"ok", "business"} => gen.state # "open"
=============================================================================
