------------------------------ MODULE Pipeline ------------------------------
(***************************************************************************)
(* What happens to a request inside the server: gin runs the handlers that *)
(* NewRouter installed one after the other until one aborts, a panic is    *)
(* caught by the recovery middleware and answered there, errors are turned *)
(* into one envelope with a translated message, and the logger, which      *)
(* waited for the rest of the chain, writes its line.  Requests run        *)
(* concurrently and meet where the translations are read (Translations).   *)
(* What the rate limiter, the authentication and the database decide is    *)
(* left open here: modules RateLimiter and AuthFlow are about that.        *)
(***************************************************************************)
EXTENDS Translations

CONSTANT Wants      \* the language preferences requests come with

(* ?lang=, the X-Lang header and the list in the Accept-Language header. *)
ASSUME WantsAssumption == Wants \subseteq [query : Tag, header : Tag, accept : Seq(Tag)]

VARIABLE req        \* each request: its handler, what it sent, what was logged

vars == <<req, catalogVars>>

(* "not GET" is /health with any other method, "slash" the path of a GET route
   with a slash too many or too few, "preflight" any OPTIONS request, and
   "other" all else that has no route. *)
Route == {"/health", "/me", "not GET", "slash", "preflight", "other"}

(* The logger looks at the path alone, whatever the method. *)
SkipPaths == {"/health", "not GET"}

-----------------------------------------------------------------------------
(* AppError: a machine-readable code and a message, usually a key. *)
AppError(code, message) == [code |-> code, message |-> message]

Unauthorized == AppError("UNAUTHORIZED", "common.unauthorized")

UserNotFound == AppError("NOT_FOUND", "auth.not_found")

InternalServerError == AppError("INTERNAL_SERVER_ERROR", "common.internal_error")

ServiceUnavailable == AppError("SERVICE_UNAVAILABLE", "common.service_unavailable")

(* An error in whose chain there is no AppError. *)
PlainError == AppError("", "")

CodeToStatus(code) ==
    CASE code = "BAD_REQUEST"         -> 400
      [] code = "UNAUTHORIZED"        -> 401
      [] code = "FORBIDDEN"           -> 403
      [] code = "NOT_FOUND"           -> 404
      [] code = "CONFLICT"            -> 409
      [] code = "VALIDATION_FAILED"   -> 422
      [] code = "TOO_MANY_REQUESTS"   -> 429
      [] code = "SERVICE_UNAVAILABLE" -> 503
      [] OTHER                        -> 500

-----------------------------------------------------------------------------
(* The handler that gin runs after h: "unwind" when h was the last one. *)
Following(route, h) ==
    CASE h = "cors"      -> "requestID"
      [] h = "requestID" -> "logger"
      [] h = "logger"    -> "language"
      [] h = "language"  -> "recovery"
      (* HandleMethodNotAllowed is off by default: a wrong method is no route. *)
      [] h = "recovery"  -> (CASE route = "/health" -> "limit"
                               [] route = "/me"     -> "auth"
                               [] OTHER             -> "noRoute")
      [] h = "limit"     -> "health"
      [] h = "auth"      -> "me"
      [] OTHER           -> "unwind"

(* The handlers that RecoveryMiddleware guards. *)
Guarded == {"limit", "health", "auth", "me", "noRoute"}

Arrived(route, wants) ==
    [route |-> route, wants |-> wants, at |-> "cors", lang |-> "", user |-> FALSE,
     reply |-> Null, sent |-> <<>>, logged |-> <<>>]

(* Request r is inside sendError or HandleError. *)
Translating(r) == req[r].reply # Null

(* Request r is in handler h, which has not decided yet. *)
In(r, h) == req[r].at = h /\ ~Translating(r)

Resting(r) == req[r].at \in {"idle", "done"}

Init ==
    /\ \E wants \in Wants : req = [r \in Request |-> [Arrived("other", wants) EXCEPT !.at = "idle"]]
    /\ CatalogInit

Arrive(r) ==
    /\ Resting(r)
    /\ \E route \in Route \ {"slash"}, wants \in Wants :
           req' = [req EXCEPT ![r] = Arrived(route, wants)]
    /\ UNCHANGED catalogVars

(* Where r is next if nobody aborts. *)
Proceed(r) == Following(req[r].route, req[r].at)

(* c.Next(): gin goes on to the following handler. *)
Continue(r) == req' = [req EXCEPT ![r].at = Proceed(r)]

(* A body is written; the client takes the first. *)
Answered(q, answer, next) ==
    [q EXCEPT !.sent = Append(@, answer), !.reply = Null, !.at = next]

(* An answer without a message to translate. *)
Plain(status) == [status |-> status, key |-> NoText, text |-> NoText]

(* RedirectTrailingSlash is on by default: the router itself sends the client to
   the right path, and none of the handlers runs. *)
Redirect(r) ==
    /\ Resting(r)
    /\ \E wants \in Wants :
           req' = [req EXCEPT ![r] = Answered(Arrived("slash", wants), Plain(301), "done")]
    /\ UNCHANGED catalogVars

(* CORS answers a preflight itself, before there is a logger to note it. *)
Preflight(r) ==
    /\ In(r, "cors")
    /\ req[r].route = "preflight"
    /\ req' = [req EXCEPT ![r] = Answered(@, Plain(204), "done")]
    /\ UNCHANGED catalogVars

(* The middlewares that decide nothing: security headers, the request id, the
   start of the logger, and the recovery as long as nobody panics. *)
Passes(r) ==
    /\ \/ In(r, "cors") /\ req[r].route # "preflight"
       \/ In(r, "requestID") \/ In(r, "logger") \/ In(r, "recovery")
    /\ Continue(r)
    /\ UNCHANGED catalogVars

(* LanguageMiddleware: ?lang=, else X-Lang, else Accept-Language. *)
Preferred(wants) ==
    Normalize(IF wants.query # "" THEN wants.query
              ELSE IF wants.header # "" THEN wants.header
              ELSE FromAcceptLanguage(wants.accept))

Language(r) ==
    /\ In(r, "language")
    /\ req' = [req EXCEPT ![r].lang = Preferred(req[r].wants), ![r].at = "recovery"]
    /\ UNCHANGED catalogVars

(* c.Abort(): the handlers that follow do not run. *)
Abort == "unwind"

(* A handler decides on an error; the message is still to be translated. *)
SendError(r, status, key, next) ==
    /\ req' = [req EXCEPT ![r].reply = [status |-> status, key |-> key, next |-> next]]
    /\ UNCHANGED catalogVars

HandleError(r, err, next) ==
    IF err = PlainError THEN SendError(r, 500, "common.internal_error", next)
    ELSE SendError(r, CodeToStatus(err.code), err.message, next)

(* c.JSON with a body that needs no translation. *)
SendJSON(r, status) ==
    /\ req' = [req EXCEPT ![r] = Answered(@, Plain(status), Proceed(r))]
    /\ UNCHANGED catalogVars

(* RateLimitMiddleware on /health. *)
Limit(r) ==
    /\ In(r, "limit")
    /\ \/ Continue(r) /\ UNCHANGED catalogVars
       \/ SendError(r, 429, "common.too_many_requests", Abort)

Health(r) ==
    /\ In(r, "health")
    /\ \E status \in {200, 503} : SendJSON(r, status)

NoRoute(r) ==
    /\ In(r, "noRoute")
    /\ SendError(r, 404, "common.route_not_found", Proceed(r))

(* Definitions named Bug... are the mutants of the definition that follows
   them: what a plausible mistake there would say.  Nothing uses them. *)

BugNotAborted(r) ==
    /\ In(r, "auth")
    /\ HandleError(r, Unauthorized, Proceed(r))

(* AuthMiddleware: no token, or ValidateToken or UpsertFromPrepUser failed. *)
AuthRejects(r) ==
    /\ In(r, "auth")
    /\ \E err \in {Unauthorized, ServiceUnavailable, InternalServerError, PlainError} :
           HandleError(r, err, Abort)

AuthIdentifies(r) ==
    /\ In(r, "auth")
    /\ req' = [req EXCEPT ![r].user = TRUE, ![r].at = "me"]
    /\ UNCHANGED catalogVars

(* AuthHandler.GetMe; Unauthorized if it should run without a user. *)
GetMe(r) ==
    /\ In(r, "me")
    /\ IF req[r].user
       THEN \/ SendJSON(r, 200)
            \/ \E err \in {UserNotFound, InternalServerError} : HandleError(r, err, Proceed(r))
       ELSE HandleError(r, Unauthorized, Proceed(r))

BugPanicGoesOn(r) ==
    /\ req[r].at \in Guarded
    /\ ~Translating(r)
    /\ SendError(r, 500, "common.internal_error", Proceed(r))

(* A handler panics; the deferred function of RecoveryMiddleware answers. *)
Panics(r) ==
    /\ req[r].at \in Guarded
    /\ ~Translating(r)
    /\ SendError(r, 500, "common.internal_error", Abort)

-----------------------------------------------------------------------------
GetLang(q) ==
    IF q.lang # "" THEN Normalize(q.lang) ELSE FromAcceptLanguage(q.wants.accept)

(* TranslateText calls ensureLoaded: the first request in reads the files. *)
Begin(r) == Translating(r) /\ BeginLoad(r) /\ UNCHANGED req

Read(r) == LoadFile(r) /\ UNCHANGED req

End(r) == EndLoad(r) /\ UNCHANGED req

Envelope(q) ==
    [status |-> q.reply.status, key |-> q.reply.key,
     text |-> TranslateText(GetLang(q), q.reply.key)]

(* The rest of sendError or HandleError, and of the handler. *)
Send(r) ==
    /\ Translating(r)
    /\ loaded
    /\ req' = [req EXCEPT ![r] = Answered(@, Envelope(@), @.reply.next)]
    /\ UNCHANGED catalogVars

(* c.Writer.Status(): the first status written counts; 200 if nothing was. *)
WriterStatus(q) == IF q.sent = <<>> THEN 200 ELSE Head(q.sent).status

(* The end of RequestLoggerMiddleware, after c.Next() has returned. *)
Log(r) ==
    /\ In(r, "unwind")
    /\ req' = [req EXCEPT
                 ![r].logged = IF req[r].route \in SkipPaths THEN @
                               ELSE Append(@, [status |-> WriterStatus(req[r]), user |-> req[r].user]),
                 ![r].at = "done"]
    /\ UNCHANGED catalogVars

Serve(r) ==
    \/ Preflight(r) \/ Passes(r) \/ Language(r)
    \/ Limit(r) \/ Health(r) \/ NoRoute(r)
    \/ AuthRejects(r) \/ AuthIdentifies(r) \/ GetMe(r) \/ Panics(r)
    \/ Begin(r) \/ Read(r) \/ End(r) \/ Send(r)
    \/ Log(r)

Next == \E r \in Request : Arrive(r) \/ Redirect(r) \/ Serve(r)

Spec == Init /\ [][Next]_vars

(* The calls a handler makes return: drivers and clients have timeouts. *)
FairSpec == Spec /\ \A r \in Request : WF_vars(Serve(r))

-----------------------------------------------------------------------------
Status == {200, 204, 301, 401, 404, 429, 500, 503}

Message == {"common.unauthorized", "common.service_unavailable", "common.internal_error",
            "common.too_many_requests", "common.route_not_found", "auth.not_found"}

Handler == {"cors", "requestID", "logger", "language", "recovery"} \cup Guarded

Reply == [status : Status, key : Message, next : Handler \cup {"unwind"}]

Answer == [status : Status, key : Message \cup {NoText}, text : Text \cup Message \cup {NoText}]

Line == [status : Status, user : BOOLEAN]

ASSUME NoReplyAssumption == Null \notin Reply

RequestState ==
    [route : Route, wants : Wants, at : Handler \cup {"idle", "unwind", "done"},
     lang : SupportedLangs \cup {""}, user : BOOLEAN, reply : Reply \cup {Null},
     sent : Seq(Answer), logged : Seq(Line)]

TypeOK ==
    /\ req \in [Request -> RequestState]
    /\ CatalogTypeOK

(* A request is answered exactly once, whoever rejects it and wherever a handler
   panics, and the logger writes one line for it with the status the client got
   and a user exactly if it was identified; it has none only if its path is
   /health or it never came as far as the logger (preflights, redirects). *)
AnsweredAndLogged ==
    \A r \in Request : req[r].at = "done" =>
        /\ Len(req[r].sent) = 1
        /\ req[r].logged =
              IF req[r].route \in SkipPaths \cup {"preflight", "slash"} THEN <<>>
              ELSE <<[status |-> req[r].sent[1].status, user |-> req[r].user]>>

(* GetMe runs only for a request that was identified and not yet answered, and
   what the client is told agrees: 200 on /me has a user behind it, and one that
   is refused (401, 503) has none. *)
OnlyIdentified ==
    \A r \in Request :
        /\ req[r].at = "me" => req[r].user /\ req[r].sent = <<>>
        /\ req[r].at = "done" /\ req[r].route = "/me" =>
              /\ req[r].sent[1].status = 200 => req[r].user
              /\ req[r].sent[1].status \in {401, 503} => ~req[r].user

(* Every message is the one the finished catalog has for its key in the language
   the request asked for: nobody reads the catalog while another request is
   still filling it, and it never changes afterwards. *)
MessagesAgree ==
    \A r \in Request : \A i \in 1..Len(req[r].sent) :
        req[r].sent[i].key # NoText =>
            req[r].sent[i].text = TranslateText(Preferred(req[r].wants), req[r].sent[i].key)

(* A file says something, possibly nothing, of a key in a language. *)
Says(file, key, lang) == file.lang = lang /\ key \in DOMAIN file.texts

(* Every message was written for its key, in the language the request asked for
   or in English: the files of different languages, read one over the other, do
   not get mixed up.  What nobody wrote is sent as the key. *)
MessagesFromFiles ==
    \A r \in Request : \A i \in 1..Len(req[r].sent) :
        LET answer == req[r].sent[i]
        IN  \/ answer.key = NoText
            \/ answer.text = answer.key
            \/ \E j \in 1..Len(Files), lang \in {Preferred(req[r].wants), DefaultLang} :
                  Says(Files[j], answer.key, lang) /\ answer.text = Files[j].texts[answer.key]

(* Every request ends, even if the files have to be read first and whichever
   request is reading them. *)
RequestsEnd == \A r \in Request : ~Resting(r) ~> Resting(r)
=============================================================================
