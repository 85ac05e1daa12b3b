----------------------------- MODULE Lifecycle -----------------------------
(***************************************************************************)
(* The life of the process: di.NewApp opens what the service needs, main   *)
(* starts the HTTP server in a goroutine and waits for a signal, then      *)
(* drains the server for five seconds and closes everything.  Two          *)
(* goroutines run besides the requests, main and the one in server.Run,    *)
(* and either can end the process with logger.Fatal at any time.           *)
(***************************************************************************)
EXTENDS Naturals

CONSTANTS
    Request,    \* requests the server may be handling
    Grace       \* ticks Shutdown waits for them, five seconds in the code

ASSUME GraceAssumption == Grace \in Nat

Resource == {"logger", "tracer", "sentry", "database", "redis"}

VARIABLES
    main,       \* what the main goroutine is about to do
    opened,     \* resources initialised whose clean-up has not been tried yet
    run,        \* the goroutine in server.Run
    requests,   \* requests in progress
    notified,   \* signal.Notify has been called
    quit,       \* a signal is in the channel
    waited,     \* ticks since Shutdown was called
    exit        \* "no", or how the process ended

vars == <<main, opened, run, requests, notified, quit, waited, exit>>

-----------------------------------------------------------------------------
Alive == exit = "no"

Init ==
    /\ main = "config"
    /\ opened = {}
    /\ run = "none"
    /\ requests = {}
    /\ notified = FALSE
    /\ quit = FALSE
    /\ waited = 0
    /\ exit = "no"

(* log.Fatalf, logger.Fatal, or the end of main: the process ends, and what it
   was doing stays undone. *)
Exit(how) ==
    /\ exit' = how
    /\ UNCHANGED <<main, opened, run, requests, notified, quit, waited>>

LoadConfig ==
    /\ Alive
    /\ main = "config"
    /\ main' = "logger"
    /\ UNCHANGED <<opened, run, requests, notified, quit, waited, exit>>

(* One of the steps of initObservability and initPersistence. *)
Opens(resource, next) ==
    /\ Alive
    /\ main = resource
    /\ opened' = opened \cup {resource}
    /\ main' = next
    /\ UNCHANGED <<run, requests, notified, quit, waited, exit>>

InitLogger == Opens("logger", "tracer")

InitTracer == Opens("tracer", "sentry")

InitSentry == Opens("sentry", "database")

OpenDatabase == Opens("database", "redis")

OpenRedis == Opens("redis", "router")

(* Tracer and Sentry are optional: not configured, or failed with a warning. *)
Without(resource, next) ==
    /\ Alive
    /\ main = resource
    /\ main' = next
    /\ UNCHANGED <<opened, run, requests, notified, quit, waited, exit>>

NoTracer == Without("tracer", "sentry")

NoSentry == Without("sentry", "database")

(* auth.NewModule, NewRouter, NewServer *)
BuildRouter ==
    /\ Alive
    /\ main = "router"
    /\ main' = "serve"
    /\ UNCHANGED <<opened, run, requests, notified, quit, waited, exit>>

(* NewApp returns an error, or panics over a rate limit that is not positive:
   the process ends, and nothing opened so far is closed. *)
InitFails ==
    /\ Alive
    /\ main \in {"config", "logger", "database", "redis", "router"}
    /\ Exit("failed")

(* go func() { server.Run() }() *)
Serve ==
    /\ Alive
    /\ main = "serve"
    /\ main' = "notify"
    /\ run' = "started"
    /\ UNCHANGED <<opened, requests, notified, quit, waited, exit>>

Notify ==
    /\ Alive
    /\ main = "notify"
    /\ main' = "wait"
    /\ notified' = TRUE
    /\ UNCHANGED <<opened, run, requests, quit, waited, exit>>

ShutDown == main \notin {"config", "router", "serve", "notify", "wait"} \cup Resource

(* ListenAndServe: http.ErrServerClosed after Shutdown, which is no failure. *)
Enter ==
    /\ Alive
    /\ run = "started"
    /\ run' = IF ShutDown THEN "closed" ELSE "binding"
    /\ UNCHANGED <<main, opened, requests, notified, quit, waited, exit>>

(* The port is bound; Serve looks for a Shutdown once more. *)
Listen ==
    /\ Alive
    /\ run = "binding"
    /\ run' = IF ShutDown THEN "closed" ELSE "listening"
    /\ UNCHANGED <<main, opened, requests, notified, quit, waited, exit>>

(* The port is taken, or accepting fails: logger.Fatal, wherever main is. *)
RunFails ==
    /\ Alive
    /\ run \in {"binding", "listening"}
    /\ Exit("failed")

Accept(r) ==
    /\ Alive
    /\ run = "listening"
    /\ r \notin requests
    /\ requests' = requests \cup {r}
    /\ UNCHANGED <<main, opened, run, notified, quit, waited, exit>>

Respond(r) ==
    /\ Alive
    /\ r \in requests
    /\ requests' = requests \ {r}
    /\ UNCHANGED <<main, opened, run, notified, quit, waited, exit>>

(* SIGINT or SIGTERM: before Notify it kills the process, afterwards it goes to
   the channel, which has room for one. *)
Signal ==
    /\ Alive
    /\ IF notified
       THEN quit' = TRUE /\ UNCHANGED <<main, opened, run, requests, notified, waited, exit>>
       ELSE Exit("killed")

(* <-quit, and Shutdown closes the listener. *)
BeginShutdown ==
    /\ Alive
    /\ main = "wait"
    /\ quit
    /\ main' = "draining"
    /\ quit' = FALSE
    /\ run' = IF run = "listening" THEN "closed" ELSE run
    /\ UNCHANGED <<opened, requests, notified, waited, exit>>

Drained ==
    /\ Alive
    /\ main = "draining"
    /\ requests = {}
    /\ main' = "closeDatabase"
    /\ UNCHANGED <<opened, run, requests, notified, quit, waited, exit>>

(* Definitions named Bug... are the mutants of the definition that follows
   them: what a plausible mistake there would say.  Nothing uses them. *)

BugNoTimeout == FALSE /\ UNCHANGED vars

BugGoesOn ==
    /\ Alive
    /\ main = "draining"
    /\ waited >= Grace
    /\ main' = "closeDatabase"
    /\ UNCHANGED <<opened, run, requests, notified, quit, waited, exit>>

BugJustReturns ==
    /\ Alive
    /\ main = "draining"
    /\ requests # {}
    /\ waited >= Grace
    /\ Exit("ok")

BugImpatient ==
    /\ Alive
    /\ main = "draining"
    /\ requests # {}
    /\ Exit("failed")

(* The five seconds are over: logger.Fatal, and nothing is closed. *)
DrainTimeout ==
    /\ Alive
    /\ main = "draining"
    /\ requests # {}
    /\ waited >= Grace
    /\ Exit("failed")

(* One of the steps of the two cleanup functions.  Each is tried once: that the
   handle cannot be had, a flush that takes too long and errors are ignored, so
   that a resource that left opened may not have been closed with success. *)
Closes(stage, resource, next) ==
    /\ Alive
    /\ main = stage
    /\ opened' = opened \ {resource}
    /\ main' = next
    /\ UNCHANGED <<run, requests, notified, quit, waited, exit>>

CloseDatabase == Closes("closeDatabase", "database", "closeRedis")

CloseRedis == Closes("closeRedis", "redis", "flushSentry")

FlushSentry == Closes("flushSentry", "sentry", "stopTracer")

StopTracer == Closes("stopTracer", "tracer", "syncLogger")

SyncLogger == Closes("syncLogger", "logger", "return")

Return ==
    /\ Alive
    /\ main = "return"
    /\ Exit("ok")

Tick ==
    /\ Alive
    /\ main = "draining"
    /\ waited < Grace
    /\ waited' = waited + 1
    /\ UNCHANGED <<main, opened, run, requests, notified, quit, exit>>

NewApp ==
    \/ LoadConfig \/ InitLogger \/ InitTracer \/ NoTracer \/ InitSentry \/ NoSentry
    \/ OpenDatabase \/ OpenRedis \/ BuildRouter \/ InitFails

Stop ==
    \/ BeginShutdown \/ Drained \/ DrainTimeout
    \/ CloseDatabase \/ CloseRedis \/ FlushSentry \/ StopTracer \/ SyncLogger \/ Return

Next ==
    \/ NewApp \/ Serve \/ Notify \/ Stop
    \/ Enter \/ Listen \/ RunFails
    \/ \E r \in Request : Accept(r) \/ Respond(r)
    \/ Signal
    \/ Tick

Spec == Init /\ [][Next]_vars

(* The main goroutine runs and time passes; requests may hang for ever. *)
FairSpec == Spec /\ WF_vars(Stop) /\ WF_vars(Tick)

-----------------------------------------------------------------------------
TypeOK ==
    /\ main \in Resource \cup {"config", "router", "serve", "notify", "wait", "draining",
                               "closeDatabase", "closeRedis", "flushSentry",
                               "stopTracer", "syncLogger", "return"}
    /\ opened \subseteq Resource
    /\ run \in {"none", "started", "binding", "listening", "closed"}
    /\ requests \subseteq Request
    /\ notified \in BOOLEAN /\ quit \in BOOLEAN
    /\ waited \in 0..Grace
    /\ exit \in {"no", "ok", "failed", "killed"}
    /\ run = "listening" => ~ShutDown

(* Whoever is served finds everything open: no request sees a closed database or
   Redis connection or logs to a closed log, and the log outlives the rest. *)
OutlivesRequests ==
    /\ requests # {} => {"logger", "database", "redis"} \subseteq opened
    /\ opened # {} => "logger" \in opened

(* An orderly exit leaves no request without an answer and no resource whose
   clean-up was not tried. *)
OrderlyExit == exit = "ok" => requests = {} /\ opened = {}

(* A request in progress is cut off only if the server goroutine fails, if its
   time to drain is over, or if a signal arrives in the moment between the start
   of the server and signal.Notify. *)
CutOffOnlyForCause ==
    [][ requests # {} /\ exit' # exit =>
          \/ exit' = "failed" /\ run \in {"binding", "listening"}
          \/ exit' = "failed" /\ main = "draining" /\ waited >= Grace
          \/ exit' = "killed" /\ ~notified ]_vars

(* A signal that main has been told of ends the process, even if a request never
   ends and further signals arrive. *)
StopsWhenTold == quit ~> ~Alive
=============================================================================
