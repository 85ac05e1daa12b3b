-------------------------- MODULE Lifecycle_proofs --------------------------
(***************************************************************************)
(* The life of the process for any number of requests and any time of      *)
(* grace.  The invariant says, for each line of main, what is open by then *)
(* (OpenBy), what may still be open (StillOpen) and where requests can     *)
(* come from: only a listening server accepts, Shutdown ends listening,    *)
(* and main goes on to close only when no request is left.                 *)
(***************************************************************************)
EXTENDS Lifecycle, TLAPS

Serving == {"notify", "wait", "draining"}

Closing == {"closeDatabase", "closeRedis", "flushSentry", "stopTracer", "syncLogger", "return"}

(* What the line that main is at relies on to be open. *)
OpenBy ==
    /\ main \in Serving \cup {"tracer", "sentry", "database", "redis", "router", "serve"}
                        \cup (Closing \ {"return"}) => "logger" \in opened
    /\ main \in Serving \cup {"redis", "router", "serve"} => "database" \in opened
    /\ main \in Serving \cup {"router", "serve"} => "redis" \in opened

(* What main has closed, or not opened yet. *)
StillOpen ==
    /\ main \in {"config", "logger"} => opened = {}
    /\ main = "closeRedis" => opened \subseteq {"logger", "tracer", "sentry", "redis"}
    /\ main = "flushSentry" => opened \subseteq {"logger", "tracer", "sentry"}
    /\ main = "stopTracer" => opened \subseteq {"logger", "tracer"}
    /\ main = "syncLogger" => opened \subseteq {"logger"}
    /\ main = "return" => opened = {}

(* Who is served, and until when. *)
ServedWhile ==
    /\ run # "none" => main \in Serving \cup Closing
    /\ run = "listening" => main \in Serving \ {"draining"}
    /\ requests # {} => main \in Serving

IInv ==
    /\ TypeOK
    /\ OpenBy
    /\ StillOpen
    /\ ServedWhile
    /\ exit = "ok" => main = "return"

-----------------------------------------------------------------------------
LEMMA InitIInv == Init => IInv
<1> SUFFICES ASSUME Init PROVE IInv
  OBVIOUS
<1>1. notified \in BOOLEAN /\ quit \in BOOLEAN
  BY Zenon DEF Init
<1>2. waited \in 0..Grace
  BY GraceAssumption DEF Init
<1>3. TypeOK
  BY <1>1, <1>2 DEF Init, TypeOK
<1>4. OpenBy /\ StillOpen /\ ServedWhile
  BY DEF Init, OpenBy, StillOpen, ServedWhile, Serving, Closing
<1> QED
  BY <1>3, <1>4 DEF Init, IInv

(* Start-up opens one thing after the other and serves only when all is open. *)
LEMMA NewAppStep == IInv /\ NewApp => IInv'
<1> SUFFICES ASSUME IInv, NewApp PROVE IInv'
  OBVIOUS
<1> USE DEF IInv, TypeOK, OpenBy, StillOpen, ServedWhile, Serving, Closing, Resource, ShutDown
<1>1. CASE LoadConfig
  BY <1>1 DEF LoadConfig
<1>2. CASE InitLogger \/ InitTracer \/ InitSentry
  BY <1>2 DEF InitLogger, InitTracer, InitSentry, Opens
<1>3. CASE OpenDatabase \/ OpenRedis
  BY <1>3 DEF OpenDatabase, OpenRedis, Opens
<1>4. CASE NoTracer \/ NoSentry
  BY <1>4 DEF NoTracer, NoSentry, Without
<1>5. CASE BuildRouter
  BY <1>5 DEF BuildRouter
<1>6. CASE InitFails
  BY <1>6 DEF InitFails, Exit
<1> QED
  BY <1>1, <1>2, <1>3, <1>4, <1>5, <1>6 DEF NewApp

(* Shutdown ends listening, and closing starts when no request is left. *)
LEMMA StopStep == IInv /\ Stop => IInv'
<1> SUFFICES ASSUME IInv, Stop PROVE IInv'
  OBVIOUS
<1> USE DEF IInv, TypeOK, OpenBy, StillOpen, ServedWhile, Serving, Closing, Resource, ShutDown
<1>1. CASE BeginShutdown
  BY <1>1 DEF BeginShutdown
<1>2. CASE Drained
  BY <1>2 DEF Drained
<1>3. CASE DrainTimeout
  BY <1>3 DEF DrainTimeout, Exit
<1>4. CASE CloseDatabase
  BY <1>4 DEF CloseDatabase, Closes
<1>5. CASE CloseRedis
  BY <1>5 DEF CloseRedis, Closes
<1>6. CASE FlushSentry
  BY <1>6 DEF FlushSentry, Closes
<1>7. CASE StopTracer
  BY <1>7 DEF StopTracer, Closes
<1>8. CASE SyncLogger
  BY <1>8 DEF SyncLogger, Closes
<1>9. CASE Return
  BY <1>9 DEF Return, Exit, Alive
<1> QED
  BY <1>1, <1>2, <1>3, <1>4, <1>5, <1>6, <1>7, <1>8, <1>9 DEF Stop

(* The server accepts only between Listen and Shutdown, and may fail always. *)
LEMMA ServerStep ==
    ASSUME IInv,
           \/ Serve \/ Notify \/ Enter \/ Listen \/ RunFails
           \/ \E r \in Request : Accept(r) \/ Respond(r)
    PROVE  IInv'
<1> USE DEF IInv, TypeOK, OpenBy, StillOpen, ServedWhile, Serving, Closing, Resource, ShutDown
<1>1. CASE Serve
  BY <1>1 DEF Serve
<1>2. CASE Notify
  BY <1>2 DEF Notify
<1>3. CASE Enter
  BY <1>3 DEF Enter
<1>4. CASE Listen
  BY <1>4 DEF Listen
<1>5. CASE RunFails
  BY <1>5 DEF RunFails, Exit, Alive
<1>6. ASSUME NEW r \in Request, Accept(r) PROVE IInv'
  BY <1>6 DEF Accept
<1>7. ASSUME NEW r \in Request, Respond(r) PROVE IInv'
  BY <1>7 DEF Respond
<1> QED
  BY <1>1, <1>2, <1>3, <1>4, <1>5, <1>6, <1>7

LEMMA NextIInv == IInv /\ [Next]_vars => IInv'
<1> SUFFICES ASSUME IInv, [Next]_vars PROVE IInv'
  OBVIOUS
<1>1. CASE Signal
  BY <1>1 DEF Signal, Exit, Alive, IInv, TypeOK, OpenBy, StillOpen, ServedWhile, ShutDown
<1>2. CASE Tick
  BY <1>2, GraceAssumption
     DEF Tick, IInv, TypeOK, OpenBy, StillOpen, ServedWhile, ShutDown
<1>3. CASE UNCHANGED vars
  BY <1>3 DEF vars, IInv, TypeOK, OpenBy, StillOpen, ServedWhile, ShutDown
<1> QED
  BY <1>1, <1>2, <1>3, NewAppStep, StopStep, ServerStep DEF Next

LEMMA Invariant == Spec => []IInv
BY InitIInv, NextIInv, PTL DEF Spec

-----------------------------------------------------------------------------
(* Every variable keeps its type, and nobody listens once Shutdown was called. *)
THEOREM TypeCorrect == Spec => []TypeOK
<1>1. IInv => TypeOK
  BY DEF IInv
<1> QED
  BY <1>1, Invariant, PTL

(* Nothing is closed under a request, however many there are and however start,
   failure of the server, signals and the end of the grace time meet. *)
THEOREM NothingClosedEarly == Spec => []OutlivesRequests
<1>1. IInv => OutlivesRequests
  BY DEF IInv, TypeOK, OpenBy, StillOpen, ServedWhile, OutlivesRequests, Serving, Closing,
         Resource
<1> QED
  BY <1>1, Invariant, PTL

(* The process ends with status 0 only when every request has been answered and
   everything is closed and flushed. *)
THEOREM ExitsInOrder == Spec => []OrderlyExit
<1>1. IInv => OrderlyExit
  BY DEF IInv, StillOpen, ServedWhile, OrderlyExit, Serving
<1> QED
  BY <1>1, Invariant, PTL

(* What ends the process while a request is in progress: a step that changes exit
   is one of the five below, and three of them are the excused ones. *)
THEOREM CutOffForCause == Spec => CutOffOnlyForCause
<1> DEFINE Cause == requests # {} /\ exit' # exit =>
              \/ exit' = "failed" /\ run \in {"binding", "listening"}
              \/ exit' = "failed" /\ main = "draining" /\ waited >= Grace
              \/ exit' = "killed" /\ ~notified
<1>1. IInv /\ [Next]_vars => [Cause]_vars
  <2> SUFFICES ASSUME IInv, [Next]_vars, requests # {}, exit' # exit
               PROVE  Cause
    OBVIOUS
  <2>1. main \in Serving
    BY DEF IInv, ServedWhile
  <2>2. \/ InitFails \/ RunFails \/ DrainTimeout \/ Return \/ Signal
    BY DEF Next, vars, NewApp, LoadConfig, InitLogger, InitTracer, InitSentry, OpenDatabase,
           OpenRedis, NoTracer, NoSentry, Opens, Without, BuildRouter, Serve, Notify, Stop,
           BeginShutdown, Drained, CloseDatabase, CloseRedis, FlushSentry, StopTracer,
           SyncLogger, Closes, Enter, Listen, Accept, Respond, Tick
  <2>3. CASE InitFails \/ Return
    BY <2>1, <2>3 DEF InitFails, Return, Serving
  <2>4. CASE RunFails
    BY <2>4 DEF RunFails, Exit
  <2>5. CASE DrainTimeout
    BY <2>5 DEF DrainTimeout, Exit
  <2>6. CASE Signal
    BY <2>6 DEF Signal, Exit
  <2> QED
    BY <2>2, <2>3, <2>4, <2>5, <2>6
<1> QED
  BY <1>1, Invariant, PTL DEF Spec, CutOffOnlyForCause

-----------------------------------------------------------------------------
(* What is left of the shutdown, in lines of main and ticks of the clock. *)
LinesLeft ==
    CASE main = "wait" -> 8
      [] main = "draining" -> 7
      [] main = "closeDatabase" -> 6
      [] main = "closeRedis" -> 5
      [] main = "flushSentry" -> 4
      [] main = "stopTracer" -> 3
      [] main = "syncLogger" -> 2
      [] main = "return" -> 1
      [] OTHER -> 9

Left == LinesLeft + (Grace - waited)

ShuttingDown == main \in Closing \cup {"draining"}

(* Main has a signal, or acts on one. *)
Told == quit \/ ShuttingDown

(* Signals reach main only at or after its line "<-quit". *)
HeardFrom == (notified => main = "wait" \/ ShuttingDown) /\ (quit => notified)

(* A step taken when main has been told ends the process, or leaves main told and
   no more to do than before; and less, if main or the clock moves. *)
Shrinks ==
    Told /\ Alive =>
        /\ Left \in 1..(Grace + 8)
        /\ \/ ~Alive'
           \/ Told' /\ Left' <= Left /\ (Stop \/ Tick => Left' < Left)

LEMMA HeardFromStep == HeardFrom /\ [Next]_vars => HeardFrom'
<1> SUFFICES ASSUME HeardFrom, [Next]_vars PROVE HeardFrom'
  OBVIOUS
<1> USE DEF HeardFrom, ShuttingDown, Closing, Resource
<1>1. CASE NewApp
  BY <1>1 DEF NewApp, LoadConfig, InitLogger, InitTracer, InitSentry, OpenDatabase, OpenRedis,
     NoTracer, NoSentry, Opens, Without, BuildRouter, InitFails, Exit
<1>2. CASE Stop
  BY <1>2 DEF Stop, BeginShutdown, Drained, DrainTimeout, CloseDatabase, CloseRedis,
     FlushSentry, StopTracer, SyncLogger, Closes, Return, Exit
<1>3. CASE Serve \/ Notify \/ Enter \/ Listen \/ RunFails \/ Signal \/ Tick
  BY <1>3 DEF Serve, Notify, Enter, Listen, RunFails, Signal, Tick, Exit
<1>4. ASSUME NEW r \in Request, Accept(r) \/ Respond(r) PROVE HeardFrom'
  BY <1>4 DEF Accept, Respond
<1>5. CASE UNCHANGED vars
  BY <1>5 DEF vars
<1> QED
  BY <1>1, <1>2, <1>3, <1>4, <1>5 DEF Next

LEMMA Shrinking == IInv /\ HeardFrom /\ [Next]_vars => Shrinks
<1> SUFFICES ASSUME IInv, HeardFrom, [Next]_vars, Told, Alive
             PROVE  /\ Left \in 1..(Grace + 8)
                    /\ \/ ~Alive'
                       \/ Told' /\ Left' <= Left /\ (Stop \/ Tick => Left' < Left)
  BY DEF Shrinks
<1>1. waited \in 0..Grace /\ (main = "wait" \/ ShuttingDown) /\ (main = "wait" => quit)
  BY DEF IInv, TypeOK, HeardFrom, Told, ShuttingDown, Closing
<1>2. LinesLeft \in 1..8
  BY <1>1 DEF LinesLeft, ShuttingDown, Closing
<1>3. Left \in 1..(Grace + 8)
  BY <1>1, <1>2, GraceAssumption DEF Left
<1>4. ASSUME UNCHANGED <<main, waited>>, quit => quit'
      PROVE  Left' = Left /\ Told'
  BY <1>1, <1>4 DEF Left, LinesLeft, Told, ShuttingDown
<1>5. CASE Stop
  <2>1. CASE DrainTimeout \/ Return
    BY <1>3, <2>1 DEF DrainTimeout, Return, Exit, Alive
  <2>2. CASE BeginShutdown
    BY <1>1, <1>3, <2>2, GraceAssumption DEF BeginShutdown, Left, LinesLeft, Told, ShuttingDown
  <2>3. CASE Drained
    BY <1>1, <2>3, GraceAssumption DEF Drained, Left, LinesLeft, Told, ShuttingDown, Closing
  <2>4. CASE CloseDatabase \/ CloseRedis \/ FlushSentry \/ StopTracer \/ SyncLogger
    BY <1>1, <2>4, GraceAssumption DEF CloseDatabase, CloseRedis, FlushSentry, StopTracer,
       SyncLogger, Closes, Left, LinesLeft, Told, ShuttingDown, Closing
  <2> QED
    BY <1>3, <1>5, <2>1, <2>2, <2>3, <2>4, GraceAssumption DEF Stop
<1>6. CASE Tick
  <2>1. waited < Grace /\ waited' = waited + 1 /\ main' = main /\ quit' = quit
    BY <1>6 DEF Tick
  <2>2. LinesLeft' = LinesLeft /\ Told'
    BY <2>1 DEF LinesLeft, Told, ShuttingDown
  <2> QED
    BY <1>1, <1>2, <1>3, <2>1, <2>2, GraceAssumption DEF Left
<1>7. CASE /\ ~Stop /\ ~Tick
           /\ \/ Enter \/ Listen \/ RunFails \/ Signal \/ UNCHANGED vars
              \/ \E r \in Request : Accept(r) \/ Respond(r)
  <2>1. UNCHANGED <<main, waited>> /\ (quit => quit')
    BY <1>7 DEF Enter, Listen, RunFails, Signal, Accept, Respond, Exit, vars
  <2>2. Left' = Left /\ Told'
    BY <1>4, <2>1
  <2> QED
    BY <1>3, <1>7, <2>2
<1>8. ~NewApp /\ ~Serve /\ ~Notify
  BY <1>1 DEF ShuttingDown, Closing, NewApp, LoadConfig, InitLogger, InitTracer, InitSentry,
     OpenDatabase, OpenRedis, NoTracer, NoSentry, Opens, Without, BuildRouter, InitFails,
     Serve, Notify, Resource
<1> QED
  BY <1>5, <1>6, <1>7, <1>8 DEF Next

(* Once main has been told to stop, at most Grace + 8 steps of it and of the clock
   are left of the process, whatever requests, further signals and the server's
   goroutine do meanwhile: the bound behind StopsWhenTold. *)
THEOREM ShutdownShrinks == Spec => [][Shrinks]_vars
<1>1. Init => HeardFrom
  BY DEF Init, HeardFrom
<1> QED
  BY <1>1, HeardFromStep, Shrinking, Invariant, PTL DEF Spec
=============================================================================
