------------------------ MODULE CircuitBreaker_proofs ------------------------
(***************************************************************************)
(* What the breaker promises for every set of callers, every configuration *)
(* and every classifier of outcomes.  GenOK is the strengthening: beyond   *)
(* the type, the tally and the limit it says that a half-open generation   *)
(* is still short of its successes, which is why it can always decide.     *)
(***************************************************************************)
EXTENDS CircuitBreaker, FiniteSetTheorems, TLAPS

GenType ==
    [state : States, requests : 0..CountBound, successes : Nat,
     failures : Nat, age : Nat, current : SUBSET Call]

(* g is a sound generation while the callers in out are in flight. *)
GenOK(g, out) ==
    /\ g \in GenType
    /\ g.current \subseteq out
    /\ g.requests = g.successes + g.failures + Cardinality(g.current)
    /\ g.state = "open" => g.requests = 0
    /\ g.state = "half-open" =>
          /\ g.age = 0
          /\ g.failures = 0
          /\ g.successes < Config.MaxRequests
          /\ g.successes + Cardinality(g.current) <= Config.MaxRequests

IInv ==
    /\ GenOK(gen, inFlight)
    /\ inFlight \subseteq Call
    /\ refused \subseteq Call
    /\ upstream \in {"up", "down"}

-----------------------------------------------------------------------------
(* withDefaults leaves no threshold at zero. *)
LEMMA ConfigPositive ==
    /\ Config.MaxRequests \in Nat /\ Config.MaxRequests >= 1
    /\ Config.Interval \in Nat
    /\ Config.Timeout \in Nat
BY ConfiguredAssumption, MinuteAssumption DEF Config, WithDefaults

(* Callers counted by a generation form a finite set. *)
LEMMA FiniteCallers ==
    ASSUME NEW S, S \subseteq Call
    PROVE  IsFiniteSet(S) /\ Cardinality(S) \in Nat
BY CallAssumption, FS_Subset, FS_CardinalityType

(* A fresh generation is sound in whatever state it starts. *)
LEMMA NewGenerationOK ==
    ASSUME NEW s \in States, NEW out, out \subseteq Call
    PROVE  GenOK(NewGeneration(s), out)
BY ConfigPositive, BoundAssumption, FS_EmptySet
DEF GenOK, GenType, NewGeneration, States

(* The lazy transition keeps a generation sound. *)
LEMMA CurrentStateOK ==
    ASSUME IInv
    PROVE  GenOK(CurrentState, inFlight)
<1>1. CASE ~Expired
  BY <1>1 DEF IInv, CurrentState
<1>2. CASE Expired
  BY <1>2, NewGenerationOK DEF IInv, CurrentState, States
<1> QED
  BY <1>1, <1>2

(* Admitting one more caller keeps a generation sound. *)
LEMMA AdmittedOK ==
    ASSUME NEW g, NEW out, NEW c \in Call, out \subseteq Call,
           GenOK(g, out), c \notin out, Admits(g), g.requests < CountBound
    PROVE  GenOK([g EXCEPT !.requests = @ + 1, !.current = @ \cup {c}], out \cup {c})
<1> DEFINE h == [g EXCEPT !.requests = @ + 1, !.current = @ \cup {c}]
<1>1. /\ g \in GenType
      /\ IsFiniteSet(g.current) /\ Cardinality(g.current) \in Nat
      /\ c \notin g.current
  BY FiniteCallers DEF GenOK, GenType
<1>2. Cardinality(g.current \cup {c}) = Cardinality(g.current) + 1
  BY <1>1, FS_AddElement
<1>3. /\ h.state = g.state /\ h.age = g.age /\ h.successes = g.successes /\ h.failures = g.failures
      /\ h.requests = g.requests + 1 /\ h.current = g.current \cup {c}
  BY <1>1 DEF GenType
<1>4. h \in GenType
  <2>1. g.requests + 1 \in 0..CountBound
    BY <1>1, BoundAssumption DEF GenType
  <2>2. g.current \cup {c} \in SUBSET Call
    BY <1>1 DEF GenType
  <2> QED
    BY <1>1, <2>1, <2>2 DEF GenType
<1>5. g.state # "open"
  BY DEF Admits
<1>6. g.state = "half-open" => g.requests < Config.MaxRequests
  BY <1>1, ConfigPositive DEF Admits, GenType
<1>7. h.state = "half-open" =>
          h.successes + Cardinality(h.current) <= Config.MaxRequests
  BY <1>1, <1>2, <1>3, <1>6, ConfigPositive DEF GenOK, GenType
<1> HIDE DEF h
<1>8. GenOK(h, out \cup {c})
  BY <1>1, <1>2, <1>3, <1>4, <1>5, <1>7 DEF GenOK, GenType
<1> QED
  BY <1>8 DEF h

(* Reporting the result of a caller the generation admitted keeps it sound,
   whether the result closes the breaker, trips it or only counts. *)
LEMMA ReportedOK ==
    ASSUME NEW g, NEW out, NEW c, NEW o, out \subseteq Call,
           GenOK(g, out), c \in g.current
    PROVE  GenOK(Reported(g, c, o), out \ {c})
<1> DEFINE a == [g EXCEPT !.current = @ \ {c}]
           s == [a EXCEPT !.successes = @ + 1]
           f == [a EXCEPT !.failures = @ + 1]
<1>1. /\ g \in GenType
      /\ IsFiniteSet(g.current) /\ Cardinality(g.current) \in Nat
  BY FiniteCallers DEF GenOK, GenType
<1>2. /\ Cardinality(g.current \ {c}) = Cardinality(g.current) - 1
      /\ Cardinality(g.current \ {c}) \in Nat
  BY <1>1, FS_RemoveElement, FiniteCallers, g.current \ {c} \subseteq Call DEF GenType
<1>a. /\ a \in GenType /\ a.state = g.state /\ a.requests = g.requests /\ a.age = g.age
      /\ a.successes = g.successes /\ a.failures = g.failures
      /\ a.current = g.current \ {c}
  BY <1>1 DEF GenType
<1>3. /\ s \in GenType /\ s.state = g.state /\ s.requests = g.requests /\ s.age = g.age
      /\ s.successes = g.successes + 1 /\ s.failures = g.failures
      /\ s.current = g.current \ {c}
  <2> HIDE DEF a
  <2> QED
    BY <1>a DEF GenType
<1>4. /\ f \in GenType /\ f.state = g.state /\ f.requests = g.requests /\ f.age = g.age
      /\ f.successes = g.successes /\ f.failures = g.failures + 1
      /\ f.current = g.current \ {c}
  <2> HIDE DEF a
  <2> QED
    BY <1>a DEF GenType
<1>5. ASSUME NEW t \in States PROVE GenOK(NewGeneration(t), out \ {c})
  BY NewGenerationOK, out \ {c} \subseteq Call
<1>6. CASE o \in Successful
  <2>1. Reported(g, c, o) =
          IF g.state = "half-open" /\ s.successes >= Config.MaxRequests
          THEN NewGeneration("closed") ELSE s
    BY <1>1, <1>6 DEF Reported, OnSuccess, GenType
  <2>2. CASE g.state = "half-open" /\ s.successes >= Config.MaxRequests
    BY <1>5, <2>1, <2>2 DEF States
  <2>3. CASE ~(g.state = "half-open" /\ s.successes >= Config.MaxRequests)
    <3> HIDE DEF s
    <3>1. GenOK(s, out \ {c})
      BY <1>1, <1>2, <1>3, <2>3, ConfigPositive DEF GenOK, GenType
    <3> QED
      BY <2>1, <2>3, <3>1
  <2> QED
    BY <2>2, <2>3
<1>7. CASE o \notin Successful
  <2>1. Reported(g, c, o) =
          IF g.state = "half-open" \/ ReadyToTrip(f)
          THEN NewGeneration("open") ELSE f
    BY <1>1, <1>7 DEF Reported, OnFailure, GenType
  <2>2. CASE g.state = "half-open" \/ ReadyToTrip(f)
    BY <1>5, <2>1, <2>2 DEF States
  <2>3. CASE ~(g.state = "half-open" \/ ReadyToTrip(f))
    <3> HIDE DEF f
    <3>1. GenOK(f, out \ {c})
      BY <1>1, <1>2, <1>4, <2>3 DEF GenOK, GenType
    <3> QED
      BY <2>1, <2>3, <3>1
  <2> QED
    BY <2>2, <2>3
<1> QED
  BY <1>6, <1>7

(* Every step preserves the strengthened invariant. *)
LEMMA Inductive == IInv /\ [Next]_vars => IInv'
<1> SUFFICES ASSUME IInv, [Next]_vars
             PROVE  IInv'
  OBVIOUS
<1>1. GenOK(CurrentState, inFlight)
  BY CurrentStateOK
<1>2. ASSUME NEW c \in Call, Admit(c) PROVE IInv'
  <2>1. GenOK([CurrentState EXCEPT !.requests = @ + 1, !.current = @ \cup {c}],
              inFlight \cup {c})
    BY <1>1, <1>2, AdmittedOK DEF IInv, Admit
  <2> QED
    BY <1>2, <2>1 DEF IInv, Admit
<1>3. ASSUME NEW c \in Call, Refuse(c) PROVE IInv'
  BY <1>1, <1>3 DEF IInv, Refuse
<1>4. ASSUME NEW c \in Call, NEW o \in Outcome, Finish(c, o) PROVE IInv'
  <2>1. GenOK(gen', inFlight \ {c})
    <3>1. CASE c \in CurrentState.current
      BY <1>1, <1>4, <3>1, ReportedOK DEF IInv, Finish, AfterRequest
    <3>2. CASE c \notin CurrentState.current
      BY <1>1, <1>4, <3>2 DEF GenOK, Finish, AfterRequest
    <3> QED
      BY <3>1, <3>2
  <2> QED
    BY <1>4, <2>1 DEF IInv, Finish
<1>5. CASE Observe
  BY <1>1, <1>5 DEF IInv, Observe
<1>6. CASE Tick
  <2>1. GenOK([gen EXCEPT !.age = @ + 1], inFlight)
    BY <1>6 DEF Tick, IInv, GenOK, GenType
  <2> QED
    BY <1>6, <2>1 DEF IInv, Tick
<1>7. CASE Flap
  BY <1>7 DEF IInv, Flap
<1>8. CASE UNCHANGED vars
  BY <1>8 DEF IInv, vars
<1> QED
  BY <1>2, <1>3, <1>4, <1>5, <1>6, <1>7, <1>8 DEF Next

(* The strengthened invariant holds in every reachable state. *)
THEOREM Invariance == Spec => []IInv
<1>1. Init => IInv
  BY NewGenerationOK DEF Init, IInv, States
<1> QED
  BY <1>1, Inductive, PTL DEF Spec

-----------------------------------------------------------------------------
(* Every variable keeps its type. *)
THEOREM TypeCorrect == Spec => []TypeOK
<1>1. IInv => TypeOK
  BY DEF IInv, GenOK, GenType, TypeOK
<1> QED
  BY <1>1, Invariance, PTL

(* The counts of a generation always balance, whatever late answers, panics
   and lazy transitions are interleaved. *)
THEOREM TallyHolds == Spec => []Tally
<1>1. IInv => Tally
  BY DEF IInv, GenOK, Tally
<1> QED
  BY <1>1, Invariance, PTL

(* No more than MaxRequests calls reach the provider in a half-open period. *)
THEOREM HalfOpenLimitHolds == Spec => []HalfOpenLimit
<1>1. IInv => HalfOpenLimit
  BY DEF IInv, GenOK, HalfOpenLimit
<1> QED
  BY <1>1, Invariance, PTL

(* A half-open breaker never refuses without a probe that will decide. *)
THEOREM NeverWedged == Spec => []NotWedged
<1>1. IInv => NotWedged
  <2> SUFFICES ASSUME IInv, gen.state = "half-open", ~Admits(gen), gen.current = {}
               PROVE  FALSE
    BY DEF NotWedged
  <2>1. gen.requests = gen.successes
    BY FS_EmptySet DEF IInv, GenOK, GenType
  <2> QED
    BY <2>1, ConfigPositive DEF IInv, GenOK, GenType, Admits
<1> QED
  BY <1>1, Invariance, PTL

(* The breaker closes only on the answer of its last outstanding probe. *)
THEOREM ClosesLate == Spec => ClosesAfterAllProbes
<1> DEFINE Closing == gen.state = "half-open" /\ gen'.state = "closed"
           LastProbe == /\ gen.successes + 1 = Config.MaxRequests
                        /\ \E c \in inFlight :
                              gen.current = {c} /\ inFlight' = inFlight \ {c}
<1>1. IInv /\ [Next]_vars => [Closing => LastProbe]_vars
  <2> SUFFICES ASSUME IInv, [Next]_vars, Closing
               PROVE  LastProbe
    OBVIOUS
  <2>1. CurrentState = gen
    BY DEF CurrentState, Expired
  <2>2. PICK c \in Call, o \in Outcome : Finish(c, o)
    <3>1. gen \in GenType
      BY DEF IInv, GenOK
    <3>2. ASSUME NEW c \in Call, Admit(c) PROVE FALSE
      BY <2>1, <3>1, <3>2 DEF Admit, GenType
    <3> QED
      BY <2>1, <3>1, <3>2 DEF Next, Refuse, Observe, Tick, Flap, vars, GenType
  <2>3. c \in gen.current /\ gen' = Reported(gen, c, o)
    BY <2>1, <2>2 DEF Finish, AfterRequest
  <2>4. /\ gen \in GenType /\ c \in inFlight
        /\ IsFiniteSet(gen.current) /\ Cardinality(gen.current) \in Nat
    BY <2>2, FiniteCallers DEF IInv, GenOK, GenType, Finish
  <2>5. gen.successes + 1 >= Config.MaxRequests
    <3> DEFINE a == [gen EXCEPT !.current = @ \ {c}]
    <3>1. a.state = "half-open" /\ a.successes = gen.successes
      BY <2>4 DEF GenType
    <3>2. gen' = OnSuccess(a)
      <4> HIDE DEF a
      <4>1. gen' # OnFailure(a)
        BY <3>1 DEF OnFailure, NewGeneration
      <4> QED
        BY <2>3, <4>1 DEF Reported, a
    <3>3. a \in GenType
      BY <2>4 DEF GenType
    <3> HIDE DEF a
    <3>4. [a EXCEPT !.successes = @ + 1].state = "half-open"
      BY <3>1, <3>3 DEF GenType
    <3>5. [a EXCEPT !.successes = @ + 1].successes = gen.successes + 1
      BY <3>1, <3>3 DEF GenType
    <3> QED
      BY <3>1, <3>2, <3>4, <3>5 DEF OnSuccess
  <2>6. gen.successes + 1 = Config.MaxRequests /\ Cardinality(gen.current) <= 1
    BY <2>4, <2>5, ConfigPositive DEF IInv, GenOK, GenType
  <2>7. gen.current = {c}
    <3>1. Cardinality(gen.current \ {c}) = Cardinality(gen.current) - 1
      BY <2>3, <2>4, FS_RemoveElement
    <3>2. IsFiniteSet(gen.current \ {c}) /\ Cardinality(gen.current \ {c}) \in Nat
      BY <2>4, FiniteCallers, gen.current \ {c} \subseteq Call DEF GenType
    <3>3. Cardinality(gen.current \ {c}) = 0
      BY <2>4, <2>6, <3>1, <3>2
    <3>4. gen.current \ {c} = {}
      BY <3>2, <3>3, FS_EmptySet
    <3> QED
      BY <2>3, <3>4
  <2>8. inFlight' = inFlight \ {c}
    BY <2>2 DEF Finish
  <2> QED
    BY <2>4, <2>6, <2>7, <2>8
<1> QED
  BY <1>1, Invariance, PTL DEF Spec, ClosesAfterAllProbes

-----------------------------------------------------------------------------
(* How far a half-open breaker is from closing: the probes it has yet to admit
   and the answers it has yet to get. *)
ToGo == (Config.MaxRequests - gen.requests) + (Config.MaxRequests - gen.successes)

(* The way to go is finite, and can be gone on: there is a probe to wait for or a
   slot for the next caller. *)
OnItsWay ==
    gen.state = "half-open" =>
        /\ ToGo \in 1..(2 * Config.MaxRequests)
        /\ gen.current # {} \/ Admits(gen)

(* Unless a probe fails, no step leads a half-open breaker back: it closes, one
   step before which nothing but that step was left to go, or it stays half-open,
   and each probe admitted and each probe answered brings it one step nearer. *)
NearsClosing ==
    gen.state = "half-open" /\ ~Failure =>
        \/ gen'.state = "closed" /\ ToGo = 1
        \/ /\ gen'.state = "half-open"
           /\ ToGo' = IF \/ \E c \in Call : Admit(c)
                         \/ \E c \in gen.current : c \notin inFlight'
                      THEN ToGo - 1 ELSE ToGo

LEMMA NearsClosingStep == IInv /\ [Next]_vars => NearsClosing
<1> SUFFICES ASSUME IInv, [Next]_vars, gen.state = "half-open", ~Failure
             PROVE  \/ gen'.state = "closed" /\ ToGo = 1
                    \/ /\ gen'.state = "half-open"
                       /\ ToGo' = IF \/ \E c \in Call : Admit(c)
                                     \/ \E c \in gen.current : c \notin inFlight'
                                  THEN ToGo - 1 ELSE ToGo
  BY DEF NearsClosing
<1>1. /\ CurrentState = gen /\ gen \in GenType
      /\ gen.requests \in Nat /\ gen.successes \in Nat /\ gen.failures = 0
      /\ Config.MaxRequests \in Nat
      /\ gen.current \subseteq inFlight
  BY ConfigPositive, BoundAssumption DEF CurrentState, Expired, IInv, GenOK, GenType
<1>2. ASSUME NEW c \in Call, Admit(c)
      PROVE  gen'.state = "half-open" /\ ToGo' = ToGo - 1
  BY <1>1, <1>2 DEF Admit, ToGo, GenType
<1>3. ASSUME gen' = gen, ~\E c \in gen.current : c \notin inFlight'
      PROVE  gen'.state = "half-open" /\ ToGo' = ToGo /\ ~\E c \in Call : Admit(c)
  <2>1. ~\E c \in Call : Admit(c)
    <3> SUFFICES ASSUME NEW c \in Call, Admit(c) PROVE FALSE
      OBVIOUS
    <3> QED
      BY <1>1, <1>2, <1>3 DEF ToGo
  <2> QED
    BY <1>3, <2>1 DEF ToGo
<1>4. ASSUME NEW c \in Call, NEW o \in Outcome, Finish(c, o), c \in gen.current
      PROVE  \/ gen'.state = "closed" /\ ToGo = 1
             \/ gen'.state = "half-open" /\ ToGo' = ToGo - 1
  <2> DEFINE a == [gen EXCEPT !.current = @ \ {c}]
             s == [a EXCEPT !.successes = @ + 1]
  <2>1. gen' = Reported(gen, c, o)
    BY <1>1, <1>4 DEF Finish, AfterRequest
  <2>2. /\ a \in GenType /\ a.state = "half-open" /\ a.requests = gen.requests
        /\ a.successes = gen.successes
    BY <1>1 DEF GenType
  <2>3. gen' = OnSuccess(a)
    <3> HIDE DEF a
    <3>1. OnFailure(a) = NewGeneration("open")
      BY <2>2 DEF OnFailure
    <3>2. gen' # OnFailure(a)
      BY <3>1 DEF NewGeneration, Failure
    <3> QED
      BY <2>1, <3>2 DEF Reported, a
  <2>4. /\ s.state = "half-open" /\ s.requests = gen.requests
        /\ s.successes = gen.successes + 1
    <3> HIDE DEF a
    <3> QED
      BY <2>2 DEF GenType
  <2>5. gen' = IF s.successes >= Config.MaxRequests THEN NewGeneration("closed") ELSE s
    <3> HIDE DEF a
    <3> QED
      BY <2>2, <2>3 DEF OnSuccess
  <2>6. CASE gen.successes + 1 < Config.MaxRequests
    <3> HIDE DEF s
    <3>1. gen' = s
      BY <1>1, <2>4, <2>5, <2>6
    <3> QED
      BY <1>1, <2>4, <3>1 DEF ToGo
  <2>7. CASE gen.successes + 1 >= Config.MaxRequests
    <3>1. gen'.state = "closed"
      BY <2>4, <2>5, <2>7 DEF NewGeneration
    <3>2. IsFiniteSet(gen.current) /\ Cardinality(gen.current) \in Nat
      BY <1>1, FiniteCallers DEF GenType
    <3>3. Cardinality(gen.current) >= 1
      BY <1>4, <3>2, FS_EmptySet
    <3>4. /\ gen.requests = gen.successes + Cardinality(gen.current)
          /\ gen.successes + Cardinality(gen.current) <= Config.MaxRequests
      BY <1>1, <3>2 DEF IInv, GenOK
    <3>5. gen.successes + 1 = Config.MaxRequests /\ gen.requests = Config.MaxRequests
      BY <1>1, <2>7, <3>2, <3>3, <3>4
    <3> QED
      BY <1>1, <3>1, <3>5 DEF ToGo
  <2> QED
    BY <1>1, <2>6, <2>7
<1>5. ASSUME NEW c \in Call, NEW o \in Outcome, Finish(c, o), c \notin gen.current
      PROVE  gen' = gen /\ ~\E d \in gen.current : d \notin inFlight'
  BY <1>1, <1>5 DEF Finish, AfterRequest
<1>6. ASSUME \/ \E c \in Call : Refuse(c)
             \/ Observe \/ Tick \/ Flap \/ UNCHANGED vars
      PROVE  gen' = gen /\ ~\E d \in gen.current : d \notin inFlight'
  BY <1>1, <1>6 DEF Refuse, Observe, Tick, Flap, vars
<1>7. ASSUME NEW c \in Call, NEW o \in Outcome, Finish(c, o), c \in gen.current
      PROVE  c \notin inFlight'
  BY <1>7 DEF Finish
<1> QED
  BY <1>2, <1>3, <1>4, <1>5, <1>6, <1>7 DEF Next

(* The bound behind Recovers: a half-open breaker none of whose probes fails closes
   after no more than MaxRequests admissions and MaxRequests answers, whatever late
   answers and refused calls come between, and it never lacks both a probe to wait
   for and a slot to give. *)
THEOREM ProbesLeadToClosed == Spec => []OnItsWay /\ [][NearsClosing]_vars
<1>1. IInv => OnItsWay
  <2> SUFFICES ASSUME IInv, gen.state = "half-open"
               PROVE  ToGo \in 1..(2 * Config.MaxRequests) /\ (gen.current # {} \/ Admits(gen))
    BY DEF OnItsWay
  <2>1. /\ gen \in GenType /\ Config.MaxRequests \in Nat
        /\ IsFiniteSet(gen.current) /\ Cardinality(gen.current) \in Nat
    BY FiniteCallers, ConfigPositive DEF IInv, GenOK, GenType
  <2>2. /\ gen.requests \in Nat /\ gen.successes \in Nat
        /\ gen.requests = gen.successes + Cardinality(gen.current)
        /\ gen.successes < Config.MaxRequests /\ gen.requests <= Config.MaxRequests
    BY <2>1, BoundAssumption DEF IInv, GenOK, GenType
  <2>3. ToGo \in 1..(2 * Config.MaxRequests)
    BY <2>1, <2>2 DEF ToGo
  <2>4. ASSUME gen.current = {} PROVE Admits(gen)
    <3>1. gen.requests = gen.successes
      BY <2>2, <2>4, FS_EmptySet
    <3> QED
      BY <2>2, <3>1 DEF Admits
  <2> QED
    BY <2>3, <2>4
<1> QED
  BY <1>1, NearsClosingStep, Invariance, PTL DEF Spec
=============================================================================
