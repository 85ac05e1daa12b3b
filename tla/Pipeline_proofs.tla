-------------------------- MODULE Pipeline_proofs --------------------------
(***************************************************************************)
(* The chain of handlers for any number of requests, preferences and       *)
(* translation files.  The inductive invariant says, stage by stage, what  *)
(* a request may have received: nothing before it unwinds, one answer from *)
(* then on, and no text taken from a catalog that was still being filled.  *)
(***************************************************************************)
EXTENDS Pipeline, Integers, TLAPS

Said(wants, answer) ==
    answer.key # NoText =>
        loaded /\ answer.text = TranslateText(Preferred(wants), answer.key)

Logged(q) ==
    /\ Len(q.sent) = 1
    /\ q.logged = IF q.route \in SkipPaths \cup {"preflight", "slash"} THEN <<>>
                  ELSE <<[status |-> q.sent[1].status, user |-> q.user]>>

(* A handler that refuses is the last of its chain or aborts it. *)
Replying(q) ==
    q.reply # Null =>
        /\ q.at \in Guarded
        /\ q.reply.next = "unwind"
        /\ q.reply.status \notin {200, 204}
        /\ q.reply.status \in {401, 503} => q.at # "me"

Placed(q) ==
    /\ q.at \in {"limit", "health"} => q.route = "/health"
    /\ q.at \in {"auth", "me"} => q.route = "/me"
    /\ q.at \in {"unwind", "noRoute"} \cup Guarded => q.route # "preflight"
    /\ q.at \in {"limit", "health", "auth", "me", "noRoute"} => q.lang = Preferred(q.wants)
    /\ q.at = "recovery" => q.lang = Preferred(q.wants)
    /\ q.route = "preflight" => q.at \in {"cors", "done"}
    /\ q.route = "slash" => q.at = "done"

Identified(q) ==
    /\ q.at = "me" => q.user
    /\ q.at \in Handler \ {"me"} => ~q.user
    /\ q.at \in {"unwind", "done"} /\ q.route = "/me" =>
          /\ q.sent[1].status = 200 => q.user
          /\ q.sent[1].status \in {401, 503} => ~q.user

RequestOK(q) ==
    /\ q.at \in Handler \cup {"idle"} => q.sent = <<>> /\ q.logged = <<>>
    /\ q.at = "unwind" => Len(q.sent) = 1 /\ q.logged = <<>>
    /\ q.at = "done" => Logged(q)
    /\ Replying(q)
    /\ Placed(q)
    /\ Identified(q)
    /\ \A i \in 1..Len(q.sent) : Said(q.wants, q.sent[i])

IInv ==
    /\ TypeOK
    /\ \A r \in Request : RequestOK(req[r])

-----------------------------------------------------------------------------
LEMMA Languages ==
    /\ \A tag : Normalize(tag) \in SupportedLangs
    /\ \A wants : Preferred(wants) \in SupportedLangs
    /\ \A lang \in SupportedLangs : Normalize(lang) = lang
    /\ "" \notin SupportedLangs
<1>1. \A tag : Normalize(tag) \in SupportedLangs
  BY DEF Normalize, SupportedLangs, DefaultLang
<1>2. \A wants : Preferred(wants) \in SupportedLangs
  BY <1>1 DEF Preferred
<1>3. \A lang \in SupportedLangs : Normalize(lang) = lang
  BY TagAssumption DEF Normalize
<1> QED
  BY <1>1, <1>2, <1>3 DEF SupportedLangs

LEMMA Texts ==
    ASSUME catalog \in Catalog, NEW lang \in SupportedLangs, NEW key \in Message
    PROVE  TranslateText(lang, key) \in Text \cup Message \cup {NoText}
<1>1. DefaultLang \in SupportedLangs
  BY DEF DefaultLang, SupportedLangs
<1>2. CASE key \in Key
  <2>1. \A l \in SupportedLangs : catalog[key][l] \in Text \cup {NoText}
    BY <1>2 DEF Catalog
  <2> QED
    BY <1>1, <1>2, <2>1 DEF TranslateText
<1> QED
  BY <1>2 DEF TranslateText

(* Where gin goes after each handler. *)
LEMMA Chain ==
    /\ \A route : Following(route, "cors") = "requestID"
    /\ \A route : Following(route, "requestID") = "logger"
    /\ \A route : Following(route, "logger") = "language"
    /\ \A route : Following(route, "recovery") \in {"limit", "auth", "noRoute"}
    /\ \A route : Following(route, "recovery") = "limit" => route = "/health"
    /\ \A route : Following(route, "recovery") = "auth" => route = "/me"
    /\ \A route : Following(route, "limit") = "health"
    /\ \A route : Following(route, "health") = "unwind"
    /\ \A route : Following(route, "me") = "unwind"
    /\ \A route : Following(route, "noRoute") = "unwind"
    /\ Abort = "unwind"
BY DEF Following, Abort

-----------------------------------------------------------------------------
LEMMA Records ==
    /\ \A S : <<>> \in Seq(S)
    /\ \A S : \A x \in S : <<x>> \in Seq(S) /\ Append(<<>>, x) = <<x>>
    /\ \A x : Len(<<x>>) = 1 /\ <<x>>[1] = x
    /\ Len(<<>>) = 0
    /\ \A S : \A s \in Seq(S) : Len(s) \in Nat
    /\ \A S : \A s \in Seq(S) : \A i \in 1..Len(s) : s[i] \in S
    /\ \A reply \in Reply : reply # Null
<1>1. \A S : <<>> \in Seq(S)
  OBVIOUS
<1>2. \A S : \A x \in S : <<x>> \in Seq(S)
  OBVIOUS
<1>3. \A x : Append(<<>>, x) = <<x>> /\ Len(<<x>>) = 1 /\ <<x>>[1] = x
  OBVIOUS
<1>4. \A S : \A s \in Seq(S) : Len(s) \in Nat
  OBVIOUS
<1>5. \A S : \A s \in Seq(S) : \A i \in 1..Len(s) : s[i] \in S
  OBVIOUS
<1> QED
  BY <1>1, <1>2, <1>3, <1>4, <1>5, NoReplyAssumption

LEMMA InitOK == Init => IInv
<1> SUFFICES ASSUME Init PROVE IInv
  OBVIOUS
<1>1. PICK wants \in Wants :
         req = [r \in Request |-> [Arrived("other", wants) EXCEPT !.at = "idle"]]
  BY DEF Init
<1>2. [Arrived("other", wants) EXCEPT !.at = "idle"] \in RequestState
  BY <1>1, Records DEF Init, Arrived, RequestState, Route
<1>3. CatalogTypeOK
  <2>1. Len(Files) \in Nat
    BY FilesAssumption, Records
  <2>2. catalog \in Catalog
    BY DEF Init, CatalogInit, Catalog
  <2>3. loaded \in BOOLEAN /\ ~loaded
    BY DEF Init, CatalogInit
  <2>4. filesRead \in 0..Len(Files) /\ loader \in Request \cup {Null}
    BY <2>1 DEF Init, CatalogInit
  <2> QED
    BY <2>2, <2>3, <2>4 DEF CatalogTypeOK
<1>4. RequestOK([Arrived("other", wants) EXCEPT !.at = "idle"])
  BY DEF Arrived, RequestOK, Replying, Placed, Identified, Handler, Guarded
<1> QED
  BY <1>1, <1>2, <1>3, <1>4 DEF IInv, TypeOK

(* One request moves on by itself; nobody touches the catalog. *)
LEMMA OneMoves ==
    ASSUME IInv, NEW r \in Request, NEW q \in RequestState, RequestOK(q),
           req' = [req EXCEPT ![r] = q], UNCHANGED catalogVars
    PROVE  IInv'
<1>1. CatalogTypeOK'
  BY DEF IInv, TypeOK, CatalogTypeOK, catalogVars
<1>2. \A p : RequestOK(p) => RequestOK(p)'
  BY DEF RequestOK, Logged, Replying, Placed, Identified, Said, TranslateText, catalogVars
<1> QED
  BY <1>1, <1>2 DEF IInv, TypeOK

(* Request r enters handler h2 with nothing else changed. *)
LEMMA Enters ==
    ASSUME IInv, NEW r \in Request, ~Translating(r), req[r].at \in Handler,
           NEW h \in Handler, req' = [req EXCEPT ![r].at = h], UNCHANGED catalogVars,
           Placed([req[r] EXCEPT !.at = h]), h # "me", req[r].at # "me"
    PROVE  IInv'
<1> DEFINE q == [req[r] EXCEPT !.at = h]
<1>1. req[r] \in RequestState /\ RequestOK(req[r])
  BY DEF IInv, TypeOK
<1>2. q \in RequestState
  BY <1>1 DEF RequestState
<1>3. /\ q.at = h /\ q.reply = Null /\ q.sent = req[r].sent /\ q.logged = req[r].logged
      /\ q.wants = req[r].wants /\ q.user = req[r].user
  BY <1>1 DEF RequestState, Translating
<1>4. h \notin {"idle", "unwind", "done"}
  BY DEF Handler, Guarded
<1>5. RequestOK(q)
  BY <1>1, <1>3, <1>4 DEF RequestOK, Replying, Identified
<1>6. req' = [req EXCEPT ![r] = q]
  BY DEF IInv, TypeOK
<1> QED
  BY <1>2, <1>5, <1>6, OneMoves

(* Request r is left with an error whose message is to be translated. *)
LEMMA Refuses ==
    ASSUME IInv, NEW r \in Request, ~Translating(r), req[r].at \in Guarded,
           NEW reply \in Reply, req' = [req EXCEPT ![r].reply = reply], UNCHANGED catalogVars,
           Replying([req[r] EXCEPT !.reply = reply])
    PROVE  IInv'
<1> DEFINE q == [req[r] EXCEPT !.reply = reply]
<1>1. req[r] \in RequestState /\ RequestOK(req[r])
  BY DEF IInv, TypeOK
<1>2. q \in RequestState
  BY <1>1 DEF RequestState
<1>3. /\ q.at = req[r].at /\ q.reply = reply /\ q.sent = req[r].sent /\ q.lang = req[r].lang
      /\ q.logged = req[r].logged /\ q.wants = req[r].wants /\ q.user = req[r].user
      /\ q.route = req[r].route
  BY <1>1 DEF RequestState
<1>4. req[r].at \in Handler
  BY DEF Handler
<1>5. Placed(q) /\ Identified(q)
  BY <1>1, <1>3 DEF RequestOK, Placed, Identified
<1>6. RequestOK(q)
  BY <1>1, <1>3, <1>4, <1>5 DEF RequestOK, Logged
<1>7. req' = [req EXCEPT ![r] = q]
  BY DEF IInv, TypeOK
<1> QED
  BY <1>2, <1>6, <1>7, OneMoves

(* A refusal after which no handler runs. *)
LEMMA Ends ==
    ASSUME IInv, NEW r \in Request, ~Translating(r), req[r].at \in Guarded,
           NEW status \in Status \ {200, 204}, NEW key \in Message,
           SendError(r, status, key, "unwind"), status \in {401, 503} => req[r].at # "me"
    PROVE  IInv'
<1>1. PICK reply : reply = [status |-> status, key |-> key, next |-> "unwind"]
  OBVIOUS
<1>2. reply \in Reply /\ reply.next = "unwind" /\ reply.status = status
  BY <1>1 DEF Reply
<1>3. req[r] \in RequestState
  BY DEF IInv, TypeOK
<1>4. Replying([req[r] EXCEPT !.reply = reply])
  <2>1. /\ [req[r] EXCEPT !.reply = reply].reply = reply
        /\ [req[r] EXCEPT !.reply = reply].at = req[r].at
    BY <1>3 DEF RequestState
  <2> QED
    BY <1>2, <2>1 DEF Replying
<1>5. req' = [req EXCEPT ![r].reply = reply] /\ UNCHANGED catalogVars
  BY <1>1 DEF SendError
<1> QED
  BY <1>2, <1>4, <1>5, Refuses

(* The answer is in the right language, and tells apart who was identified. *)
Fits(q, answer) ==
    /\ Said(q.wants, answer)
    /\ q.route = "/me" =>
          /\ answer.status = 200 => q.user
          /\ answer.status \in {401, 503} => ~q.user

(* Request r is answered by the last handler that runs for it. *)
LEMMA Answers ==
    ASSUME IInv, NEW r \in Request, req[r].at \in Guarded, NEW answer \in Answer,
           NEW q, q = Answered(req[r], answer, "unwind"),
           req' = [req EXCEPT ![r] = q],
           UNCHANGED catalogVars, Fits(req[r], answer)
    PROVE  IInv'
<1>1. req[r] \in RequestState /\ RequestOK(req[r])
  BY DEF IInv, TypeOK
<1>2. req[r].sent = <<>> /\ req[r].logged = <<>>
  BY <1>1 DEF RequestOK, Handler
<1>3. /\ q.at = "unwind" /\ q.reply = Null /\ q.sent = <<answer>> /\ q.logged = <<>>
      /\ q.wants = req[r].wants /\ q.user = req[r].user /\ q.route = req[r].route
      /\ q.lang = req[r].lang
  BY <1>1, <1>2, Records DEF RequestState, Answered
<1>4. q \in RequestState
  <2>1. <<answer>> \in Seq(Answer) /\ Append(<<>>, answer) = <<answer>>
    BY Records
  <2> QED
    BY <1>1, <1>2, <2>1 DEF RequestState, Answered
<1>5. Replying(q) /\ Placed(q)
  BY <1>1, <1>3 DEF Replying, Placed, RequestOK, Guarded
<1>6. Identified(q)
  BY <1>3, Records DEF Identified, Handler, Guarded, Fits
<1>7. \A i \in 1..Len(q.sent) : Said(q.wants, q.sent[i])
  BY <1>3, Records DEF Fits
<1>8. RequestOK(q)
  BY <1>3, <1>5, <1>6, <1>7, Records DEF RequestOK, Handler, Guarded
<1> QED
  BY <1>4, <1>8, OneMoves

-----------------------------------------------------------------------------
LEMMA ArriveOK == ASSUME IInv, NEW r \in Request, Arrive(r) PROVE IInv'
<1>1. PICK route \in Route \ {"slash"}, wants \in Wants : req' = [req EXCEPT ![r] = Arrived(route, wants)]
  BY DEF Arrive
<1> DEFINE q == Arrived(route, wants)
<1>2. q \in RequestState
  BY Records DEF Arrived, RequestState, Handler
<1>3. RequestOK(q)
  BY Records DEF Arrived, RequestOK, Replying, Placed, Identified, Handler, Guarded
<1> QED
  BY <1>1, <1>2, <1>3, OneMoves DEF Arrive

LEMMA RedirectOK == ASSUME IInv, NEW r \in Request, Redirect(r) PROVE IInv'
<1> DEFINE answer == Plain(301)
<1>1. PICK wants \in Wants :
         req' = [req EXCEPT ![r] = Answered(Arrived("slash", wants), answer, "done")]
  BY DEF Redirect
<1> DEFINE q == Answered(Arrived("slash", wants), answer, "done")
<1>2. answer \in Answer /\ answer.key = NoText
  BY DEF Answer, Status, Plain
<1> HIDE DEF answer
<1>3. <<answer>> \in Seq(Answer) /\ Append(<<>>, answer) = <<answer>>
  BY <1>2, Records
<1>4. /\ q.at = "done" /\ q.reply = Null /\ q.sent = <<answer>> /\ q.logged = <<>>
      /\ q.route = "slash"
  BY <1>3 DEF Arrived, Answered
<1>5. q \in RequestState
  BY <1>3, Records DEF RequestState, Arrived, Answered, Route
<1> HIDE DEF q
<1>6. Replying(q) /\ Placed(q) /\ Identified(q)
  BY <1>4 DEF Replying, Placed, Identified, Handler, Guarded
<1>7. Logged(q) /\ \A i \in 1..Len(q.sent) : Said(q.wants, q.sent[i])
  BY <1>2, <1>4, Records DEF Logged, Said
<1>8. RequestOK(q)
  BY <1>4, <1>6, <1>7 DEF RequestOK, Handler, Guarded
<1>9. req' = [req EXCEPT ![r] = q] /\ UNCHANGED catalogVars
  BY <1>1 DEF Redirect, q
<1> QED
  BY <1>5, <1>8, <1>9, OneMoves

LEMMA PreflightOK == ASSUME IInv, NEW r \in Request, Preflight(r) PROVE IInv'
<1> DEFINE answer == Plain(204)
           q == Answered(req[r], answer, "done")
<1>1. req[r] \in RequestState /\ RequestOK(req[r])
  BY DEF IInv, TypeOK
<1>2. answer \in Answer /\ answer.key = NoText
  BY DEF Answer, Status, Plain
<1>3. req[r].sent = <<>> /\ req[r].logged = <<>> /\ Append(<<>>, answer) = <<answer>>
  BY <1>1, Records DEF Preflight, In, RequestOK, Handler
<1> HIDE DEF answer
<1>4. q \in RequestState
  <2>1. <<answer>> \in Seq(Answer)
    BY <1>2, Records
  <2> QED
    BY <1>1, <1>3, <2>1 DEF RequestState, Answered
<1>5. /\ q.at = "done" /\ q.reply = Null /\ q.sent = <<answer>> /\ q.logged = <<>>
      /\ q.route = "preflight"
  BY <1>1, <1>3 DEF RequestState, Preflight, Answered
<1>6. Replying(q) /\ Placed(q) /\ Identified(q)
  BY <1>5 DEF Replying, Placed, Identified, Handler, Guarded
<1>7. Logged(q) /\ \A i \in 1..Len(q.sent) : Said(q.wants, q.sent[i])
  BY <1>2, <1>5, Records DEF Logged, Said
<1>8. RequestOK(q)
  BY <1>5, <1>6, <1>7 DEF RequestOK, Handler, Guarded
<1>9. req' = [req EXCEPT ![r] = q] /\ UNCHANGED catalogVars
  BY DEF Preflight, answer
<1> QED
  BY <1>4, <1>8, <1>9, OneMoves

LEMMA PassesOK == ASSUME IInv, NEW r \in Request, Passes(r) PROVE IInv'
<1>1. req[r] \in RequestState /\ Placed(req[r])
  BY DEF IInv, TypeOK, RequestOK
<1>2. PICK h : h = Following(req[r].route, req[r].at)
  OBVIOUS
<1>3. req' = [req EXCEPT ![r].at = h]
  BY <1>2 DEF Passes, Continue, Proceed
<1>4. /\ h \in Handler \ {"me"} /\ req[r].at \in Handler \ {"me"}
      /\ ~Translating(r) /\ UNCHANGED catalogVars
  BY <1>2, Chain DEF Passes, In, Handler, Guarded
<1>5. Placed([req[r] EXCEPT !.at = h])
  <2>1. /\ [req[r] EXCEPT !.at = h].at = h
        /\ [req[r] EXCEPT !.at = h].route = req[r].route
        /\ [req[r] EXCEPT !.at = h].lang = req[r].lang
        /\ [req[r] EXCEPT !.at = h].wants = req[r].wants
    BY <1>1 DEF RequestState
  <2>2. CASE req[r].at \in {"cors", "requestID", "logger"}
    <3>1. h \in {"requestID", "logger", "language"}
      BY <1>2, <2>2, Chain
    <3>2. req[r].route \notin {"preflight", "slash"}
      BY <1>1, <2>2 DEF Passes, In, Placed
    <3> QED
      BY <2>1, <3>1, <3>2 DEF Placed, Guarded
  <2>3. CASE req[r].at = "recovery"
    <3>1. /\ h \in {"limit", "auth", "noRoute"}
          /\ h = "limit" => req[r].route = "/health"
          /\ h = "auth" => req[r].route = "/me"
      BY <1>2, <2>3, Chain
    <3> QED
      BY <1>1, <2>1, <2>3, <3>1 DEF Placed, Guarded
  <2> QED
    BY <2>2, <2>3 DEF Passes, In
<1> QED
  BY <1>3, <1>4, <1>5, Enters

LEMMA LanguageOK == ASSUME IInv, NEW r \in Request, Language(r) PROVE IInv'
<1> DEFINE q == [req[r] EXCEPT !.lang = Preferred(req[r].wants), !.at = "recovery"]
<1>1. req[r] \in RequestState /\ RequestOK(req[r])
  BY DEF IInv, TypeOK
<1>2. q \in RequestState
  BY <1>1, Languages DEF RequestState, Handler
<1>3. /\ q.at = "recovery" /\ q.reply = Null /\ q.sent = <<>> /\ q.logged = <<>>
      /\ q.wants = req[r].wants /\ q.user = req[r].user /\ q.route = req[r].route
      /\ q.lang = Preferred(q.wants)
  BY <1>1 DEF RequestState, Language, In, Translating, RequestOK, Handler
<1>4. q.route \notin {"preflight", "slash"} /\ ~q.user
  BY <1>1, <1>3 DEF RequestOK, Placed, Identified, Language, In, Handler
<1>5. RequestOK(q)
  BY <1>3, <1>4, Records DEF RequestOK, Replying, Placed, Identified, Handler, Guarded
<1>6. req' = [req EXCEPT ![r] = q] /\ UNCHANGED catalogVars
  BY DEF IInv, TypeOK, Language
<1> QED
  BY <1>2, <1>5, <1>6, OneMoves

(* What the handlers refuse a request with is an error HandleError knows. *)
LEMMA Errors ==
    ASSUME NEW r, NEW next,
           NEW err \in {Unauthorized, ServiceUnavailable, InternalServerError, UserNotFound,
                        PlainError},
           HandleError(r, err, next)
    PROVE  \E status \in {401, 404, 500, 503}, key \in Message :
               /\ SendError(r, status, key, next)
               /\ err \in {InternalServerError, UserNotFound} => status \notin {401, 503}
<1>1. CASE err = PlainError
  <2>1. SendError(r, 500, "common.internal_error", next)
    BY <1>1 DEF HandleError
  <2> QED
    BY <2>1 DEF Message
<1>2. CASE err # PlainError
  <2>1. SendError(r, CodeToStatus(err.code), err.message, next)
    BY <1>2 DEF HandleError
  <2>2. /\ err.code \in {"UNAUTHORIZED", "SERVICE_UNAVAILABLE", "INTERNAL_SERVER_ERROR",
                         "NOT_FOUND"}
        /\ err.message \in Message
        /\ err \in {InternalServerError, UserNotFound} =>
              err.code \in {"INTERNAL_SERVER_ERROR", "NOT_FOUND"}
    BY <1>2 DEF Unauthorized, ServiceUnavailable, InternalServerError, UserNotFound, AppError,
                Message
  <2>3. /\ CodeToStatus("UNAUTHORIZED") = 401 /\ CodeToStatus("NOT_FOUND") = 404
        /\ CodeToStatus("SERVICE_UNAVAILABLE") = 503
        /\ CodeToStatus("INTERNAL_SERVER_ERROR") = 500
    BY DEF CodeToStatus
  <2>4. CodeToStatus(err.code) \in {401, 404, 500, 503}
    BY <2>2, <2>3
  <2>5. err \in {InternalServerError, UserNotFound} => CodeToStatus(err.code) \notin {401, 503}
    BY <2>2, <2>3
  <2> QED
    BY <2>1, <2>2, <2>4, <2>5
<1> QED
  BY <1>1, <1>2

LEMMA Possible ==
    /\ {200, 204, 401, 404, 429, 500, 503} \subseteq Status
    /\ {"common.unauthorized", "common.service_unavailable", "common.internal_error",
        "common.too_many_requests", "common.route_not_found", "auth.not_found"} \subseteq Message
    /\ {"limit", "health", "auth", "me", "noRoute"} \subseteq Guarded
    /\ Guarded \subseteq Handler
BY DEF Status, Message, Guarded, Handler

(* A handler answers with a body that needs no translation. *)
LEMMA Replies ==
    ASSUME IInv, NEW r \in Request, NEW h \in {"health", "me"}, In(r, h),
           NEW status \in Status, SendJSON(r, status),
           Fits(req[r], Plain(status))
    PROVE  IInv'
<1>0. PICK answer : answer = Plain(status)
  OBVIOUS
<1>1. answer \in Answer
  BY <1>0 DEF Answer, Plain
<1>2. req[r].at \in Guarded /\ Following(req[r].route, req[r].at) = "unwind"
  BY Chain DEF In, Guarded
<1>3. PICK q : q = Answered(req[r], answer, "unwind")
  OBVIOUS
<1>4. req' = [req EXCEPT ![r] = q] /\ UNCHANGED catalogVars
  BY <1>0, <1>2, <1>3 DEF SendJSON, Proceed
<1>5. Fits(req[r], answer)
  BY <1>0
<1> QED
  BY <1>1, <1>2, <1>3, <1>4, <1>5, Answers

(* A body without a translation suits a request unless it is a refused profile. *)
LEMMA PlainFits ==
    ASSUME NEW q, NEW status \in Status, Identified(q),
           q.at \in {"health", "me"}, Placed(q), q.at = "me" => status = 200
    PROVE  Fits(q, Plain(status))
<1>1. Plain(status).status = status /\ Said(q.wants, Plain(status))
  BY DEF Plain, Said
<1>2. q.route = "/me" => status = 200 /\ q.user
  BY DEF Placed, Identified
<1> QED
  BY <1>1, <1>2 DEF Fits

LEMMA LimitOK == ASSUME IInv, NEW r \in Request, Limit(r) PROVE IInv'
<1>1. req[r].at = "limit" /\ ~Translating(r) /\ req[r].at \in Guarded
  BY DEF Limit, In, Guarded
<1>2. CASE Continue(r) /\ UNCHANGED catalogVars
  <2>1. req' = [req EXCEPT ![r].at = "health"]
    BY <1>1, <1>2, Chain DEF Continue, Proceed
  <2>2. req[r] \in RequestState /\ Placed(req[r])
    BY DEF IInv, TypeOK, RequestOK
  <2>3. Placed([req[r] EXCEPT !.at = "health"])
    <3>1. /\ [req[r] EXCEPT !.at = "health"].at = "health"
          /\ [req[r] EXCEPT !.at = "health"].route = req[r].route
          /\ [req[r] EXCEPT !.at = "health"].lang = req[r].lang
          /\ [req[r] EXCEPT !.at = "health"].wants = req[r].wants
      BY <2>2 DEF RequestState
    <3> QED
      BY <1>1, <2>2, <3>1 DEF Placed, Guarded
  <2>4. PICK h \in Handler : h = "health"
    BY Possible
  <2>5. req' = [req EXCEPT ![r].at = h] /\ Placed([req[r] EXCEPT !.at = h])
    BY <2>1, <2>3, <2>4
  <2>6. req[r].at \in Handler /\ h # "me" /\ req[r].at # "me" /\ UNCHANGED catalogVars
    BY <1>1, <1>2, <2>4, Possible
  <2> QED
    BY <1>1, <2>5, <2>6, Enters
<1>3. CASE SendError(r, 429, "common.too_many_requests", Abort)
  BY <1>1, <1>3, Possible, Chain, Ends
<1> QED
  BY <1>2, <1>3 DEF Limit

LEMMA HealthOK == ASSUME IInv, NEW r \in Request, Health(r) PROVE IInv'
<1>1. PICK status \in {200, 503} : SendJSON(r, status)
  BY DEF Health
<1>2. In(r, "health") /\ status \in Status
  BY <1>1, Possible DEF Health
<1>3. Fits(req[r], Plain(status))
  BY <1>2, PlainFits DEF IInv, RequestOK, In
<1> QED
  BY <1>1, <1>2, <1>3, Replies

LEMMA NoRouteOK == ASSUME IInv, NEW r \in Request, NoRoute(r) PROVE IInv'
<1>1. req[r].at = "noRoute" /\ ~Translating(r) /\ req[r].at \in Guarded
  BY DEF NoRoute, In, Guarded
<1>2. SendError(r, 404, "common.route_not_found", "unwind")
  BY <1>1, Chain DEF NoRoute, Proceed
<1> QED
  BY <1>1, <1>2, Possible, Ends

LEMMA AuthRejectsOK == ASSUME IInv, NEW r \in Request, AuthRejects(r) PROVE IInv'
<1>1. req[r].at = "auth" /\ ~Translating(r) /\ req[r].at \in Guarded
  BY DEF AuthRejects, In, Guarded
<1>2. PICK err \in {Unauthorized, ServiceUnavailable, InternalServerError, PlainError} :
         HandleError(r, err, "unwind")
  BY Chain DEF AuthRejects
<1>3. PICK status \in {401, 404, 500, 503}, key \in Message : SendError(r, status, key, "unwind")
  BY <1>2, Errors
<1>4. status \in Status \ {200, 204}
  BY Possible
<1> QED
  BY <1>1, <1>3, <1>4, Ends

LEMMA AuthIdentifiesOK == ASSUME IInv, NEW r \in Request, AuthIdentifies(r) PROVE IInv'
<1> DEFINE q == [req[r] EXCEPT !.user = TRUE, !.at = "me"]
<1>1. req[r] \in RequestState /\ RequestOK(req[r]) /\ req[r].at = "auth"
  BY DEF IInv, TypeOK, AuthIdentifies, In
<1>2. q \in RequestState
  <2>1. "me" \in Handler
    BY DEF Handler, Guarded
  <2> QED
    BY <1>1, <2>1 DEF RequestState
<1>3. /\ q.at = "me" /\ q.user /\ q.reply = Null /\ q.sent = req[r].sent
      /\ q.logged = req[r].logged /\ q.wants = req[r].wants /\ q.route = req[r].route
      /\ q.lang = req[r].lang
  BY <1>1 DEF RequestState, AuthIdentifies, In, Translating
<1>4. Placed(q)
  BY <1>1, <1>3 DEF RequestOK, Placed, Guarded
<1>5. q.sent = <<>> /\ q.logged = <<>>
  BY <1>1, <1>3, Possible DEF RequestOK
<1>6. RequestOK(q)
  BY <1>3, <1>4, <1>5, Records DEF RequestOK, Replying, Identified, Handler, Guarded
<1>7. req' = [req EXCEPT ![r] = q] /\ UNCHANGED catalogVars
  BY DEF IInv, TypeOK, AuthIdentifies
<1> QED
  BY <1>2, <1>6, <1>7, OneMoves

LEMMA GetMeOK == ASSUME IInv, NEW r \in Request, GetMe(r) PROVE IInv'
<1>1. In(r, "me") /\ ~Translating(r) /\ req[r].at \in Guarded
  BY DEF GetMe, In, Guarded
<1>2. req[r].user
  BY <1>1 DEF IInv, RequestOK, Identified, In
<1>3. CASE SendJSON(r, 200)
  <2>1. 200 \in Status
    BY Possible
  <2>2. Fits(req[r], Plain(200))
    BY <1>1, <2>1, PlainFits DEF IInv, RequestOK, In
  <2> QED
    BY <1>1, <1>3, <2>1, <2>2, Replies
<1>4. ASSUME NEW err \in {UserNotFound, InternalServerError}, HandleError(r, err, "unwind")
      PROVE  IInv'
  <2>1. PICK status \in {401, 404, 500, 503}, key \in Message :
           SendError(r, status, key, "unwind") /\ status \notin {401, 503}
    BY <1>4, Errors
  <2>2. status \in Status \ {200, 204}
    BY Possible
  <2> QED
    BY <1>1, <2>1, <2>2, Ends
<1>5. Proceed(r) = "unwind"
  BY <1>1, Chain DEF In, Proceed
<1> QED
  BY <1>2, <1>3, <1>4, <1>5 DEF GetMe

LEMMA PanicsOK == ASSUME IInv, NEW r \in Request, Panics(r) PROVE IInv'
BY Possible, Chain, Ends DEF Panics

-----------------------------------------------------------------------------
(* A file that is read leaves a catalog of the same shape. *)
LEMMA FileTypes ==
    ASSUME catalog \in Catalog, filesRead \in 0..Len(Files), filesRead < Len(Files)
    PROVE  WithFile(Files[filesRead + 1]) \in Catalog
<1> DEFINE File == [lang : SupportedLangs,
                    texts : UNION {[S -> Text \cup {NoText}] : S \in SUBSET Key}]
           file == Files[filesRead + 1]
<1>1. filesRead + 1 \in 1..Len(Files)
  BY FilesAssumption, Records
<1>2. file \in File
  <2>1. Files \in Seq(File)
    BY FilesAssumption
  <2> HIDE DEF File
  <2> QED
    BY <1>1, <2>1, Records
<1>3. file.lang \in SupportedLangs
  BY <1>2
<1>4. PICK S \in SUBSET Key : file.texts \in [S -> Text \cup {NoText}]
  BY <1>2
<1>5. \A k \in Key : k \in DOMAIN file.texts => file.texts[k] \in Text \cup {NoText}
  BY <1>4
<1> HIDE DEF file
<1>6. \A k \in Key : catalog[k] \in [SupportedLangs -> Text \cup {NoText}]
  BY DEF Catalog
<1>7. \A k \in Key : k \in DOMAIN file.texts =>
          [catalog[k] EXCEPT ![file.lang] = file.texts[k]]
             \in [SupportedLangs -> Text \cup {NoText}]
  BY <1>3, <1>5, <1>6
<1>8. WithFile(file) \in Catalog
  BY <1>6, <1>7 DEF WithFile, Catalog
<1> QED
  BY <1>8 DEF file

(* While the catalog is being filled, nobody has been told anything from it. *)
LEMMA CatalogOK ==
    ASSUME IInv, NEW r \in Request, Begin(r) \/ Read(r) \/ End(r)
    PROVE  IInv'
<1>1. ~loaded /\ CatalogTypeOK /\ UNCHANGED req
  BY NobodyAssumption DEF Begin, BeginLoad, Read, LoadFile, End, EndLoad, IInv, TypeOK,
     CatalogTypeOK
<1>2. CatalogTypeOK'
  <2>1. CASE Begin(r)
    BY <1>1, <2>1 DEF Begin, BeginLoad, CatalogTypeOK
  <2>2. CASE Read(r)
    <3>1. catalog' \in Catalog
      BY <1>1, <2>2, FileTypes DEF Read, LoadFile, CatalogTypeOK
    <3>2. filesRead' \in 0..Len(Files)
      BY <1>1, <2>2, FilesAssumption, Records DEF Read, LoadFile, CatalogTypeOK
    <3> QED
      BY <1>1, <2>2, <3>1, <3>2 DEF Read, LoadFile, CatalogTypeOK
  <2>3. CASE End(r)
    <3>1. loaded' \in BOOLEAN /\ loader' = Null /\ filesRead' = Len(Files)
      BY <2>3 DEF End, EndLoad
    <3> QED
      BY <1>1, <2>3, <3>1 DEF End, EndLoad, CatalogTypeOK
  <2> QED
    BY <2>1, <2>2, <2>3
<1>3. ASSUME NEW p \in Request PROVE RequestOK(req[p])'
  <2>1. RequestOK(req[p])
    BY DEF IInv
  <2>2. \A i \in 1..Len(req[p].sent) : Said(req[p].wants, req[p].sent[i])'
    BY <1>1, <2>1 DEF RequestOK, Said
  <2> QED
    BY <1>1, <2>1, <2>2 DEF RequestOK, Logged, Replying, Placed, Identified
<1> QED
  BY <1>1, <1>2, <1>3 DEF IInv, TypeOK

LEMMA SendOK == ASSUME IInv, NEW r \in Request, Send(r) PROVE IInv'
<1>1. /\ req[r] \in RequestState /\ Replying(req[r]) /\ Placed(req[r]) /\ Identified(req[r])
      /\ catalog \in Catalog /\ loaded
  BY DEF IInv, TypeOK, CatalogTypeOK, RequestOK, Send
<1>2. /\ req[r].reply \in Reply /\ req[r].at \in Guarded /\ req[r].reply.next = "unwind"
      /\ req[r].reply.status \notin {200, 204}
      /\ req[r].reply.status \in {401, 503} => req[r].at # "me"
  BY <1>1 DEF Send, Translating, Replying, RequestState
<1>3. PICK answer : answer = Envelope(req[r])
  OBVIOUS
<1>4. req[r].lang = Preferred(req[r].wants) /\ req[r].lang \in SupportedLangs
  BY <1>1, <1>2, Languages DEF Placed, Guarded
<1>5. GetLang(req[r]) = Preferred(req[r].wants)
  BY <1>4, Languages DEF GetLang
<1>6. /\ answer.status = req[r].reply.status /\ answer.key = req[r].reply.key
      /\ answer.text = TranslateText(Preferred(req[r].wants), answer.key)
  BY <1>3, <1>5 DEF Envelope
<1>7. answer \in Answer
  <2>1. req[r].reply.status \in Status /\ req[r].reply.key \in Message
    BY <1>2 DEF Reply
  <2>2. TranslateText(Preferred(req[r].wants), req[r].reply.key)
           \in Text \cup Message \cup {NoText}
    BY <1>1, <2>1, Languages, Texts
  <2> QED
    BY <1>3, <1>5, <2>1, <2>2 DEF Envelope, Answer
<1>8. Fits(req[r], answer)
  <2>1. Said(req[r].wants, answer)
    BY <1>1, <1>6 DEF Said
  <2>2. ASSUME answer.status \in {401, 503} PROVE ~req[r].user
    BY <1>1, <1>2, <1>6, <2>2, Possible DEF Identified
  <2> QED
    BY <1>2, <1>6, <2>1, <2>2 DEF Fits
<1>9. req' = [req EXCEPT ![r] = Answered(req[r], answer, "unwind")] /\ UNCHANGED catalogVars
  BY <1>2, <1>3 DEF Send
<1>10. PICK q : q = Answered(req[r], answer, "unwind")
  OBVIOUS
<1>11. req' = [req EXCEPT ![r] = q]
  BY <1>9, <1>10
<1> QED
  BY <1>2, <1>7, <1>8, <1>9, <1>10, <1>11, Answers

LEMMA LogOK == ASSUME IInv, NEW r \in Request, Log(r) PROVE IInv'
<1>1. req[r] \in RequestState /\ RequestOK(req[r]) /\ req[r].at = "unwind" /\ ~Translating(r)
  BY DEF IInv, TypeOK, Log, In
<1>2. /\ Len(req[r].sent) = 1
      /\ req[r].logged = <<>>
      /\ req[r].route # "preflight"
      /\ req[r].route # "slash"
  BY <1>1 DEF RequestOK, Placed
<1>3. PICK line : line = [status |-> WriterStatus(req[r]), user |-> req[r].user]
  OBVIOUS
<1>4. WriterStatus(req[r]) = req[r].sent[1].status /\ line \in Line
  <2>1. req[r].sent \in Seq(Answer) /\ req[r].user \in BOOLEAN
    BY <1>1 DEF RequestState
  <2>2. req[r].sent # <<>> /\ req[r].sent[1] \in Answer
    <3>1. Len(req[r].sent) = 1
      BY <1>2
    <3> QED
      BY <2>1, <3>1
  <2>3. WriterStatus(req[r]) = req[r].sent[1].status
    BY <2>2 DEF WriterStatus
  <2> QED
    BY <1>3, <2>1, <2>2, <2>3 DEF Answer, Line
<1>5. PICK logged : logged = IF req[r].route \in SkipPaths THEN <<>> ELSE <<line>>
  OBVIOUS
<1>6. logged \in Seq(Line)
  BY <1>4, <1>5, Records
<1> DEFINE q == [req[r] EXCEPT !.logged = logged, !.at = "done"]
<1>7. q \in RequestState
  BY <1>1, <1>6 DEF RequestState
<1>8. /\ q.at = "done" /\ q.reply = Null /\ q.sent = req[r].sent /\ q.logged = logged
      /\ q.wants = req[r].wants /\ q.user = req[r].user /\ q.route = req[r].route
  BY <1>1 DEF RequestState, Translating
<1>9. Logged(q)
  BY <1>2, <1>3, <1>4, <1>5, <1>8 DEF Logged
<1>10. Identified(q)
  BY <1>1, <1>8 DEF RequestOK, Identified, Handler, Guarded
<1>11. Replying(q) /\ Placed(q)
  BY <1>8 DEF Replying, Placed, Guarded
<1>12. RequestOK(q)
  BY <1>1, <1>8, <1>9, <1>10, <1>11 DEF RequestOK, Handler, Guarded
<1>13. req' = [req EXCEPT ![r] = q] /\ UNCHANGED catalogVars
  <2>1. Append(<<>>, line) = <<line>>
    BY Records
  <2>2. req' = [req EXCEPT ![r].logged = logged, ![r].at = "done"]
    BY <1>2, <1>3, <1>5, <2>1 DEF Log
  <2> QED
    BY <2>2 DEF Log, IInv, TypeOK
<1> QED
  BY <1>7, <1>12, <1>13, OneMoves

-----------------------------------------------------------------------------
LEMMA NextOK == IInv /\ [Next]_vars => IInv'
<1> SUFFICES ASSUME IInv, [Next]_vars PROVE IInv'
  OBVIOUS
<1>1. ASSUME NEW r \in Request, Serve(r) PROVE IInv'
  BY <1>1, PreflightOK, PassesOK, LanguageOK, LimitOK, HealthOK, NoRouteOK, AuthRejectsOK,
     AuthIdentifiesOK, GetMeOK, PanicsOK, CatalogOK, SendOK, LogOK DEF Serve
<1>2. CASE UNCHANGED vars
  <2>1. ASSUME NEW p \in Request PROVE RequestOK(req[p])'
    BY <1>2 DEF vars, catalogVars, IInv, RequestOK, Logged, Replying, Placed, Identified, Said,
       TranslateText
  <2> QED
    BY <1>2, <2>1 DEF vars, catalogVars, IInv, TypeOK, CatalogTypeOK
<1> QED
  BY <1>1, <1>2, ArriveOK, RedirectOK DEF Next

THEOREM Invariance == Spec => []IInv
BY InitOK, NextOK, PTL DEF Spec

(* Every variable keeps its type, the catalog among them. *)
THEOREM TypeCorrect == Spec => []TypeOK
BY Invariance, PTL DEF IInv

(* However many requests there are and wherever their handlers panic, each is
   answered exactly once and logged with the status it was answered with. *)
THEOREM OneAnswerOneLine == Spec => []AnsweredAndLogged
<1>1. IInv => AnsweredAndLogged
  BY DEF IInv, RequestOK, Logged, AnsweredAndLogged
<1> QED
  BY <1>1, Invariance, PTL

(* The handler of a protected route runs for identified requests only. *)
THEOREM ProtectedRoute == Spec => []OnlyIdentified
<1>1. ASSUME IInv, NEW r \in Request
      PROVE  /\ req[r].at = "me" => req[r].user /\ req[r].sent = <<>>
             /\ req[r].at = "done" /\ req[r].route = "/me" =>
                   /\ req[r].sent[1].status = 200 => req[r].user
                   /\ req[r].sent[1].status \in {401, 503} => ~req[r].user
  <2>1. RequestOK(req[r])
    BY <1>1 DEF IInv
  <2>2. req[r].at = "me" => req[r].user /\ req[r].sent = <<>>
    BY <2>1 DEF RequestOK, Identified, Handler, Guarded
  <2>3. req[r].at = "done" /\ req[r].route = "/me" =>
           /\ req[r].sent[1].status = 200 => req[r].user
           /\ req[r].sent[1].status \in {401, 503} => ~req[r].user
    BY <2>1 DEF RequestOK, Identified
  <2> QED
    BY <2>2, <2>3
<1>2. IInv => OnlyIdentified
  BY <1>1 DEF OnlyIdentified
<1> QED
  BY <1>2, Invariance, PTL

(* No message comes from a catalog that is not complete, for any files. *)
THEOREM TranslatedFromWholeCatalog == Spec => []MessagesAgree
<1>1. IInv => MessagesAgree
  BY DEF IInv, RequestOK, Said, MessagesAgree
<1> QED
  BY <1>1, Invariance, PTL

-----------------------------------------------------------------------------
(* The goroutine that holds loadOnce is a request that still needs its message,
   so that those who wait for it do not wait for somebody who is gone. *)
ReaderIsThere == loader # Null => loader \in Request /\ Translating(loader)

(* In a state of the invariant, a request that is translating moves only in
   Send, which is for when all has been read. *)
LEMMA ReaderStep == IInv /\ ReaderIsThere /\ [Next]_vars => ReaderIsThere'
<1> SUFFICES ASSUME IInv, ReaderIsThere, [Next]_vars PROVE ReaderIsThere'
  OBVIOUS
<1>1. /\ req \in [Request -> RequestState] /\ (loader # Null => ~loaded)
      /\ \A r \in Request : Translating(r) => ~Resting(r)
  BY DEF IInv, TypeOK, CatalogTypeOK, RequestOK, Replying, Translating, Resting, Guarded
<1>2. ASSUME NEW r \in Request, ~Translating(r) \/ loaded, UNCHANGED catalogVars,
             \A p \in Request \ {r} : req'[p] = req[p]
      PROVE  ReaderIsThere'
  BY <1>1, <1>2 DEF ReaderIsThere, Translating, catalogVars
<1>3. ASSUME NEW r \in Request, Arrive(r) \/ Redirect(r) PROVE ReaderIsThere'
  <2>1. ~Translating(r)
    BY <1>1, <1>3 DEF Arrive, Redirect
  <2> QED
    BY <1>1, <1>2, <1>3, <2>1 DEF Arrive, Redirect
<1>4. ASSUME NEW r \in Request, Serve(r), ~Begin(r), ~Read(r), ~End(r) PROVE ReaderIsThere'
  <2>1. ~Translating(r) \/ loaded
    BY <1>4 DEF Serve, Preflight, Passes, Language, Limit, Health, NoRoute, AuthRejects,
       AuthIdentifies, GetMe, Panics, Send, Log, In
  <2>2. UNCHANGED catalogVars
    BY <1>4 DEF Serve, Preflight, Passes, Language, Limit, Health, NoRoute, AuthRejects,
       AuthIdentifies, GetMe, Panics, Send, Log, SendJSON, SendError, HandleError
  <2>3. \A p \in Request \ {r} : req'[p] = req[p]
    BY <1>1, <1>4 DEF Serve, Preflight, Passes, Language, Limit, Health, NoRoute, AuthRejects,
       AuthIdentifies, GetMe, Panics, Send, Log, SendJSON, SendError, HandleError, Continue
  <2> QED
    BY <1>2, <2>1, <2>2, <2>3
<1>5. ASSUME NEW r \in Request, Begin(r) \/ Read(r) \/ End(r) PROVE ReaderIsThere'
  BY <1>5 DEF Begin, BeginLoad, Read, LoadFile, End, EndLoad, ReaderIsThere, Translating
<1>6. CASE UNCHANGED vars
  BY <1>6 DEF vars, catalogVars, ReaderIsThere, Translating
<1> QED
  BY <1>3, <1>4, <1>5, <1>6 DEF Next

(* Whoever waits for the files waits for a request that is reading them. *)
THEOREM ReaderStays == Spec => []ReaderIsThere
<1>1. Init => ReaderIsThere
  BY DEF Init, CatalogInit, ReaderIsThere
<1> QED
  BY <1>1, ReaderStep, Invariance, PTL DEF Spec

-----------------------------------------------------------------------------
(* The handlers a request has before it at most, from this one on. *)
HandlersLeft(h) ==
    CASE h = "cors"                    -> 9
      [] h = "requestID"               -> 8
      [] h = "logger"                  -> 7
      [] h = "language"                -> 6
      [] h = "recovery"                -> 5
      [] h \in {"limit", "auth"}       -> 4
      [] h \in {"health", "me", "noRoute"} -> 3
      [] h = "unwind"                  -> 1
      [] OTHER                         -> 0

(* Two steps for each of them: to decide, and to send what was decided. *)
OwnSteps(q) == 2 * HandlersLeft(q.at) - (IF q.reply = Null THEN 0 ELSE 1)

(* The steps it takes to read the files, whoever takes them. *)
ToRead ==
    IF loaded THEN 0 ELSE (Len(Files) - filesRead) + (IF loader = Null THEN 2 ELSE 1)

StepsLeft(r) == OwnSteps(req[r]) + ToRead

Reads(r) == Begin(r) \/ Read(r) \/ End(r)

(* A request that has not ended needs a bounded number of steps; each of its own
   and each that anybody takes to read the files brings the end nearer, and no
   step of another request puts it off. *)
Shortens ==
    \A r \in Request : ~Resting(r) =>
        /\ StepsLeft(r) \in 1..(Len(Files) + 20)
        /\ Resting(r)' \/ StepsLeft(r)' <= StepsLeft(r)
        /\ Serve(r) => Resting(r)' \/ StepsLeft(r)' < StepsLeft(r)
        /\ \A p \in Request : Reads(p) => StepsLeft(r)' < StepsLeft(r)

LEMMA Counted ==
    ASSUME IInv
    PROVE  /\ ToRead \in 0..(Len(Files) + 2)
           /\ \A r \in Request : ~Resting(r) => OwnSteps(req[r]) \in 1..18
<1>1. ToRead \in 0..(Len(Files) + 2)
  <2>1. Len(Files) \in Nat /\ filesRead \in 0..Len(Files)
    BY FilesAssumption, Records DEF IInv, TypeOK, CatalogTypeOK
  <2> QED
    BY <2>1 DEF ToRead
<1>2. ASSUME NEW r \in Request, ~Resting(r) PROVE OwnSteps(req[r]) \in 1..18
  <2>1. req[r].at \in Handler \cup {"unwind"}
    BY <1>2 DEF IInv, TypeOK, RequestState, Resting
  <2>2. HandlersLeft(req[r].at) \in 1..9
    BY <2>1 DEF HandlersLeft, Handler, Guarded
  <2> QED
    BY <2>2 DEF OwnSteps
<1> QED
  BY <1>1, <1>2

(* Reading the files goes on for all who wait, whoever does it. *)
LEMMA ReadingShortens ==
    ASSUME IInv, NEW p \in Request, Reads(p), NEW r \in Request, ~Resting(r)
    PROVE  StepsLeft(r)' < StepsLeft(r) /\ StepsLeft(r)' \in Int
<1>1. /\ req' = req /\ Len(Files) \in Nat /\ filesRead \in 0..Len(Files) /\ p # Null
      /\ loaded => loader = Null
  BY FilesAssumption, Records, NobodyAssumption DEF Reads, Begin, Read, End, IInv, TypeOK, CatalogTypeOK
<1>2. ToRead' = ToRead - 1 /\ ToRead \in 0..(Len(Files) + 2)
  BY <1>1, Counted DEF Reads, Begin, BeginLoad, Read, LoadFile, End, EndLoad, ToRead
<1>3. StepsLeft(r) = OwnSteps(req[r]) + ToRead /\ StepsLeft(r)' = OwnSteps(req[r]) + ToRead'
  BY <1>1 DEF StepsLeft, OwnSteps
<1>4. OwnSteps(req[r]) \in 1..18
  BY Counted
<1>5. PICK own \in 1..18 : own = OwnSteps(req[r])
  BY <1>4
<1>6. PICK rest \in 0..(Len(Files) + 2) : rest = ToRead
  BY <1>2
<1>7. StepsLeft(r) = own + rest /\ StepsLeft(r)' = own + (rest - 1)
  BY <1>2, <1>3, <1>5, <1>6
<1> QED
  BY <1>1, <1>7

(* Whatever a handler decides, the request is nearer to its end. *)
LEMMA ServingShortens ==
    ASSUME IInv, NEW r \in Request, Serve(r), ~Reads(r)
    PROVE  Resting(r)' \/ (StepsLeft(r)' < StepsLeft(r) /\ StepsLeft(r)' \in Int)
<1>1. /\ req \in [Request -> RequestState] /\ req[r] \in RequestState /\ RequestOK(req[r])
      /\ Len(Files) \in Nat
  BY FilesAssumption, Records DEF IInv, TypeOK
<1>2. UNCHANGED catalogVars
  BY DEF Serve, Reads, Preflight, Passes, Language, Limit, Health, NoRoute, AuthRejects,
     AuthIdentifies, GetMe, Panics, Send, Log, SendJSON, SendError, HandleError
<1>3. ToRead' = ToRead /\ ToRead \in 0..(Len(Files) + 2)
  BY <1>2, Counted DEF ToRead, catalogVars
<1>4. ASSUME OwnSteps(req'[r]) < OwnSteps(req[r]), OwnSteps(req'[r]) \in Int, OwnSteps(req[r]) \in Int
      PROVE  StepsLeft(r)' < StepsLeft(r) /\ StepsLeft(r)' \in Int
  BY <1>1, <1>3, <1>4 DEF StepsLeft, OwnSteps
<1>5. ASSUME HandlersLeft(req'[r].at) < HandlersLeft(req[r].at),
             HandlersLeft(req'[r].at) \in Nat, HandlersLeft(req[r].at) \in Nat
      PROVE  StepsLeft(r)' < StepsLeft(r) /\ StepsLeft(r)' \in Int
  BY <1>4, <1>5 DEF OwnSteps
<1>a. ASSUME NEW answer, NEW next PROVE Answered(req[r], answer, next).at = next
  <2>1. PICK s : s = Append(req[r].sent, answer)
    OBVIOUS
  <2>2. Answered(req[r], answer, next) = [req[r] EXCEPT !.sent = s, !.reply = Null, !.at = next]
    BY <2>1 DEF Answered
  <2> QED
    BY <1>1, <2>2 DEF RequestState
<1>b. ASSUME NEW h, req' = [req EXCEPT ![r].at = h] PROVE req'[r].at = h
  BY <1>1, <1>b DEF RequestState
<1>6. CASE Preflight(r) \/ Log(r)
  <2>1. CASE Preflight(r)
    BY <1>1, <1>a, <2>1 DEF Preflight, Resting
  <2>2. CASE Log(r)
    <3>1. PICK lines : req' = [req EXCEPT ![r].logged = lines, ![r].at = "done"]
      BY <2>2 DEF Log
    <3> QED
      BY <1>1, <3>1 DEF RequestState, Resting
  <2> QED
    BY <1>6, <2>1, <2>2
<1>7. CASE Passes(r) \/ Language(r) \/ AuthIdentifies(r) \/ (Limit(r) /\ Continue(r))
  <2> DEFINE Moved ==
               \/ In(r, "cors") /\ req'[r].at = "requestID"
               \/ In(r, "requestID") /\ req'[r].at = "logger"
               \/ In(r, "logger") /\ req'[r].at = "language"
               \/ In(r, "language") /\ req'[r].at = "recovery"
               \/ In(r, "recovery") /\ req'[r].at \in {"limit", "auth", "noRoute"}
               \/ In(r, "limit") /\ req'[r].at = "health"
               \/ In(r, "auth") /\ req'[r].at = "me"
  <2>1. ASSUME Passes(r) \/ (Limit(r) /\ Continue(r)) PROVE Moved
    <3>1. req'[r].at = Following(req[r].route, req[r].at)
      BY <1>b, <2>1 DEF Passes, Continue, Proceed
    <3>2. \/ In(r, "cors") \/ In(r, "requestID") \/ In(r, "logger") \/ In(r, "recovery")
          \/ In(r, "limit")
      BY <2>1 DEF Passes, Limit
    <3> QED
      BY <3>1, <3>2, Chain DEF In
  <2>2. ASSUME Language(r) PROVE Moved
    <3>1. PICK lang : req' = [req EXCEPT ![r].lang = lang, ![r].at = "recovery"]
      BY <2>2 DEF Language
    <3>2. req'[r].at = "recovery"
      BY <1>1, <3>1 DEF RequestState
    <3> QED
      BY <2>2, <3>2 DEF Language
  <2>3. ASSUME AuthIdentifies(r) PROVE Moved
    <3>1. req'[r].at = "me"
      BY <1>1, <2>3 DEF AuthIdentifies, RequestState
    <3> QED
      BY <2>3, <3>1 DEF AuthIdentifies
  <2>4. Moved
    BY <1>7, <2>1, <2>2, <2>3
  <2> QED
    BY <1>5, <2>4 DEF In, HandlersLeft
<1>8. ASSUME NEW reply \in Reply, req' = [req EXCEPT ![r].reply = reply], ~Translating(r),
             req[r].at \in Guarded
      PROVE  StepsLeft(r)' < StepsLeft(r) /\ StepsLeft(r)' \in Int
  <2>1. req'[r].at = req[r].at /\ req'[r].reply # Null /\ req[r].reply = Null
    BY <1>1, <1>8, Records DEF RequestState, Translating
  <2>2. HandlersLeft(req[r].at) \in Nat
    BY <1>8 DEF HandlersLeft, Guarded
  <2> QED
    BY <1>4, <2>1, <2>2 DEF OwnSteps
<1>9. CASE \/ Limit(r) /\ ~Continue(r)
           \/ NoRoute(r) \/ AuthRejects(r) \/ Panics(r)
           \/ GetMe(r) /\ ~SendJSON(r, 200)
  <2>1. ~Translating(r) /\ req[r].at \in Guarded
    BY <1>9 DEF Limit, NoRoute, AuthRejects, Panics, GetMe, In, Guarded
  <2>2. Abort = "unwind" /\ (NoRoute(r) \/ GetMe(r) => Proceed(r) = "unwind")
    BY Chain DEF Proceed, NoRoute, GetMe, In
  <2>3. \E status \in Status, key \in Message : SendError(r, status, key, "unwind")
    <3>1. ASSUME NEW err \in {Unauthorized, ServiceUnavailable, InternalServerError,
                              UserNotFound, PlainError},
                 HandleError(r, err, "unwind")
          PROVE  \E status \in Status, key \in Message : SendError(r, status, key, "unwind")
      BY <3>1, Errors, Possible
    <3>2. CASE Limit(r) /\ ~Continue(r)
      BY <2>2, <3>2, Possible DEF Limit
    <3>3. CASE NoRoute(r) \/ Panics(r)
      BY <2>2, <3>3, Possible DEF NoRoute, Panics
    <3>4. CASE AuthRejects(r)
      BY <2>2, <3>1, <3>4 DEF AuthRejects
    <3>5. CASE GetMe(r) /\ ~SendJSON(r, 200)
      BY <2>2, <3>1, <3>5 DEF GetMe
    <3> QED
      BY <1>9, <3>2, <3>3, <3>4, <3>5
  <2>4. \E reply \in Reply : req' = [req EXCEPT ![r].reply = reply]
    BY <2>3 DEF SendError, Reply
  <2> QED
    BY <1>8, <2>1, <2>4
<1>10. CASE Health(r) \/ (GetMe(r) /\ SendJSON(r, 200)) \/ Send(r)
  <2>1. req[r].at \in Guarded /\ HandlersLeft(req[r].at) \in {3, 4}
    BY <1>1, <1>10 DEF Health, GetMe, Send, In, Translating, RequestOK, Replying, Guarded,
       HandlersLeft
  <2>2. req'[r].at = "unwind"
    <3>1. CASE Send(r)
      BY <1>1, <1>a, <3>1 DEF Send, RequestOK, Replying, Translating
    <3>2. CASE Health(r) \/ (GetMe(r) /\ SendJSON(r, 200))
      <4>1. Proceed(r) = "unwind"
        BY <3>2, Chain DEF Health, GetMe, Proceed, In
      <4>2. \E status : req' = [req EXCEPT ![r] = Answered(req[r], Plain(status), "unwind")]
        BY <3>2, <4>1 DEF Health, SendJSON
      <4> QED
        BY <1>1, <1>a, <4>2
    <3> QED
      BY <1>10, <3>1, <3>2
  <2> QED
    BY <1>5, <2>1, <2>2 DEF HandlersLeft
<1> QED
  BY <1>6, <1>7, <1>9, <1>10 DEF Serve, Reads

LEMMA ShortensStep == IInv /\ [Next]_vars => Shortens
<1> SUFFICES ASSUME IInv, [Next]_vars, NEW r \in Request, ~Resting(r)
             PROVE  /\ StepsLeft(r) \in 1..(Len(Files) + 20)
                    /\ Resting(r)' \/ StepsLeft(r)' <= StepsLeft(r)
                    /\ Serve(r) => Resting(r)' \/ StepsLeft(r)' < StepsLeft(r)
                    /\ \A p \in Request : Reads(p) => StepsLeft(r)' < StepsLeft(r)
  BY DEF Shortens
<1>1. Len(Files) \in Nat /\ req \in [Request -> RequestState]
  BY FilesAssumption, Records DEF IInv, TypeOK
<1>2. StepsLeft(r) \in 1..(Len(Files) + 20)
  <2>1. ToRead \in 0..(Len(Files) + 2) /\ OwnSteps(req[r]) \in 1..18
    BY Counted
  <2>2. PICK own \in 1..18 : own = OwnSteps(req[r])
    BY <2>1
  <2>3. StepsLeft(r) = own + ToRead
    BY <2>2 DEF StepsLeft
  <2> QED
    BY <1>1, <2>1, <2>3
<1>3. \A p \in Request : Reads(p) => StepsLeft(r)' < StepsLeft(r) /\ StepsLeft(r)' \in Int
  <2> SUFFICES ASSUME NEW p \in Request, Reads(p)
               PROVE  StepsLeft(r)' < StepsLeft(r) /\ StepsLeft(r)' \in Int
    OBVIOUS
  <2> QED
    BY ReadingShortens
<1>4. Serve(r) => Resting(r)' \/ (StepsLeft(r)' < StepsLeft(r) /\ StepsLeft(r)' \in Int)
  BY <1>3, ServingShortens
<1>5. ASSUME UNCHANGED catalogVars, req'[r] = req[r] PROVE StepsLeft(r)' = StepsLeft(r)
  BY <1>5 DEF StepsLeft, OwnSteps, ToRead, catalogVars
<1>6. ASSUME NEW p \in Request, p # r, Arrive(p) \/ Redirect(p) \/ (Serve(p) /\ ~Reads(p))
      PROVE  StepsLeft(r)' = StepsLeft(r)
  <2>1. UNCHANGED catalogVars
    BY <1>6 DEF Arrive, Redirect, Serve, Reads, Preflight, Passes, Language, Limit, Health, NoRoute,
       AuthRejects, AuthIdentifies, GetMe, Panics, Send, Log, SendJSON, SendError, HandleError
  <2>2. req'[r] = req[r]
    BY <1>1, <1>6 DEF Arrive, Redirect, Serve, Reads, Preflight, Passes, Language, Limit, Health, NoRoute,
       AuthRejects, AuthIdentifies, GetMe, Panics, Send, Log, SendJSON, SendError, HandleError,
       Continue
  <2> QED
    BY <1>5, <2>1, <2>2
<1>7. Resting(r)' \/ StepsLeft(r)' <= StepsLeft(r)
  <2>1. CASE \E p \in Request : Reads(p)
    BY <1>2, <1>3, <2>1
  <2>2. CASE Serve(r)
    BY <1>2, <1>4, <2>2
  <2>3. CASE UNCHANGED vars
    BY <1>2, <1>5, <2>3 DEF vars, catalogVars
  <2>4. ~Arrive(r) /\ ~Redirect(r)
    BY DEF Arrive, Redirect
  <2> QED
    BY <1>2, <1>6, <2>1, <2>2, <2>3, <2>4 DEF Next
<1> QED
  BY <1>2, <1>3, <1>4, <1>7

(* The bound behind RequestsEnd: a request ends after no more than Len(Files) + 20
   steps, its own or those of whoever reads the files, whatever its handlers decide,
   wherever they panic and however many requests come between. *)
THEOREM RequestsAreShort == Spec => [][Shortens]_vars
BY ShortensStep, Invariance, PTL DEF Spec

-----------------------------------------------------------------------------
(* A text of the catalog stands in one of the files read so far, under its key
   and its language. *)
FromFiles ==
    \A key \in Key, lang \in SupportedLangs :
        \/ catalog[key][lang] = NoText
        \/ \E i \in 1..filesRead :
              Says(Files[i], key, lang) /\ catalog[key][lang] = Files[i].texts[key]

(* If every file can be read, the catalog holds what the last of the files that
   speak of a key says, and nothing of keys of which none does. *)
Overlaid ==
    \A key \in Key, lang \in SupportedLangs :
        \/ /\ catalog[key][lang] = NoText
           /\ \A i \in 1..filesRead : ~Says(Files[i], key, lang)
        \/ \E i \in 1..filesRead :
              /\ Says(Files[i], key, lang)
              /\ catalog[key][lang] = Files[i].texts[key]
              /\ \A j \in (i + 1)..filesRead : ~Says(Files[j], key, lang)

(* One file more. *)
LEMMA ReadsOne ==
    ASSUME CatalogTypeOK, NEW r \in Request, LoadFile(r), NEW key \in Key,
           NEW lang \in SupportedLangs
    PROVE  /\ filesRead \in Nat /\ filesRead' = filesRead + 1
           /\ \/ catalog'[key][lang] = catalog[key][lang]
              \/ /\ Says(Files[filesRead + 1], key, lang)
                 /\ catalog'[key][lang] = Files[filesRead + 1].texts[key]
           /\ ~FaultyFiles /\ Says(Files[filesRead + 1], key, lang) =>
                 catalog'[key][lang] = Files[filesRead + 1].texts[key]
<1>1. filesRead \in Nat /\ catalog[key] \in [SupportedLangs -> Text \cup {NoText}]
  BY FilesAssumption DEF CatalogTypeOK, Catalog
<1> DEFINE file == Files[filesRead + 1]
<1>2. catalog' = WithFile(file) \/ (FaultyFiles /\ catalog' = catalog)
  BY DEF LoadFile
<1> HIDE DEF file
<1>3. WithFile(file)[key][lang] =
          IF Says(file, key, lang) THEN file.texts[key] ELSE catalog[key][lang]
  BY <1>1 DEF WithFile, Says
<1> QED
  BY <1>1, <1>2, <1>3 DEF LoadFile, file

LEMMA OnlyLoadFile ==
    [Next]_vars => UNCHANGED <<catalog, filesRead>> \/ \E r \in Request : LoadFile(r)
<1> SUFFICES ASSUME NEW r \in Request, Arrive(r) \/ Redirect(r) \/ Serve(r), ~LoadFile(r)
             PROVE  UNCHANGED <<catalog, filesRead>>
  BY DEF Next, vars, catalogVars
<1>1. CASE Begin(r) \/ End(r)
  BY <1>1 DEF Begin, BeginLoad, End, EndLoad
<1>2. CASE ~Begin(r) /\ ~End(r)
  BY <1>2 DEF Arrive, Redirect, Serve, Preflight, Passes, Language, Limit, Health, NoRoute, AuthRejects,
     AuthIdentifies, GetMe, Panics, Read, Send, Log, SendJSON, SendError, HandleError, catalogVars
<1> QED
  BY <1>1, <1>2

LEMMA FilesStep == IInv /\ FromFiles /\ [Next]_vars => FromFiles'
<1> SUFFICES ASSUME IInv, FromFiles, [Next]_vars, NEW key \in Key, NEW lang \in SupportedLangs
             PROVE  \/ catalog'[key][lang] = NoText
                    \/ \E i \in 1..filesRead' :
                          /\ Says(Files[i], key, lang)
                          /\ catalog'[key][lang] = Files[i].texts[key]
  BY DEF FromFiles, Says
<1>1. CASE UNCHANGED <<catalog, filesRead>>
  BY <1>1 DEF FromFiles
<1>2. ASSUME NEW r \in Request, LoadFile(r)
      PROVE  \/ catalog'[key][lang] = NoText
             \/ \E i \in 1..filesRead' :
                   Says(Files[i], key, lang) /\ catalog'[key][lang] = Files[i].texts[key]
  <2>1. /\ filesRead \in Nat /\ filesRead' = filesRead + 1
        /\ \/ catalog'[key][lang] = catalog[key][lang]
           \/ /\ Says(Files[filesRead + 1], key, lang)
              /\ catalog'[key][lang] = Files[filesRead + 1].texts[key]
    BY <1>2, ReadsOne DEF IInv, TypeOK
  <2>2. /\ filesRead + 1 \in 1..(filesRead + 1)
        /\ \A i \in 1..filesRead : i \in 1..(filesRead + 1)
    BY <2>1
  <2> QED
    BY <2>1, <2>2 DEF FromFiles
<1> QED
  BY <1>1, <1>2, OnlyLoadFile

LEMMA OverlaidStep == ~FaultyFiles /\ IInv /\ Overlaid /\ [Next]_vars => Overlaid'
<1> DEFINE Holds(text, n, key, lang) ==
               \/ text = NoText /\ \A i \in 1..n : ~Says(Files[i], key, lang)
               \/ \E i \in 1..n : /\ Says(Files[i], key, lang)
                                  /\ text = Files[i].texts[key]
                                  /\ \A j \in (i + 1)..n : ~Says(Files[j], key, lang)
<1> SUFFICES ASSUME ~FaultyFiles, IInv, Overlaid, [Next]_vars,
                    NEW key \in Key, NEW lang \in SupportedLangs
             PROVE  Holds(catalog'[key][lang], filesRead', key, lang)
  BY DEF Overlaid, Says
<1>0. Holds(catalog[key][lang], filesRead, key, lang)
  BY DEF Overlaid
<1>1. CASE UNCHANGED <<catalog, filesRead>>
  BY <1>0, <1>1
<1>2. ASSUME NEW r \in Request, LoadFile(r)
      PROVE  Holds(catalog'[key][lang], filesRead', key, lang)
  <2> DEFINE n == filesRead
  <2>1. /\ n \in Nat /\ filesRead' = n + 1
        /\ \/ catalog'[key][lang] = catalog[key][lang]
           \/ Says(Files[n + 1], key, lang)
        /\ Says(Files[n + 1], key, lang) => catalog'[key][lang] = Files[n + 1].texts[key]
    BY <1>2, ReadsOne DEF IInv, TypeOK
  <2>2. CASE Says(Files[n + 1], key, lang)
    <3>1. n + 1 \in 1..(n + 1) /\ (n + 1 + 1)..(n + 1) = {}
      BY <2>1
    <3> QED
      BY <2>1, <2>2, <3>1
  <2>3. CASE ~Says(Files[n + 1], key, lang)
    <3>1. /\ \A i \in 1..(n + 1) : i \in 1..n \/ i = n + 1
          /\ \A i \in 1..n : i \in 1..(n + 1)
          /\ \A i \in 1..n : \A j \in (i + 1)..(n + 1) : j \in (i + 1)..n \/ j = n + 1
      BY <2>1
    <3> QED
      BY <1>0, <2>1, <2>3, <3>1
  <2> QED
    BY <2>2, <2>3
<1> QED
  BY <1>1, <1>2, OnlyLoadFile

(* Later files replace what earlier ones say, text by text, and add to it. *)
THEOREM LastFileCounts ==
    ASSUME ~FaultyFiles
    PROVE  Spec => []Overlaid
<1>1. Init => Overlaid
  BY DEF Init, CatalogInit, Overlaid
<1>2. IInv /\ Overlaid /\ [Next]_vars => Overlaid'
  BY OverlaidStep
<1> QED
  BY <1>1, <1>2, Invariance, PTL DEF Spec

(* Every message sent was written in a file, for that key and for the language
   asked for or for English, whatever the files are and which can be read. *)
THEOREM SaidInAFile == Spec => []MessagesFromFiles
<1>1. Init => FromFiles
  BY DEF Init, CatalogInit, FromFiles
<1>2. IInv /\ FromFiles => MessagesFromFiles
  <2> SUFFICES ASSUME IInv, FromFiles, NEW r \in Request, NEW i \in 1..Len(req[r].sent),
                      req[r].sent[i].key # NoText,
                      req[r].sent[i].text # req[r].sent[i].key
               PROVE  \E j \in 1..Len(Files), lang \in {Preferred(req[r].wants), DefaultLang} :
                          /\ Says(Files[j], req[r].sent[i].key, lang)
                          /\ req[r].sent[i].text = Files[j].texts[req[r].sent[i].key]
    BY DEF MessagesFromFiles
  <2> DEFINE key == req[r].sent[i].key
             text == req[r].sent[i].text
  <2>1. loaded /\ text = TranslateText(Preferred(req[r].wants), key)
    BY DEF IInv, RequestOK, Said
  <2>2. filesRead = Len(Files)
    BY <2>1 DEF IInv, TypeOK, CatalogTypeOK
  <2>3. key \in Key /\ \E lang \in {Preferred(req[r].wants), DefaultLang} :
                          text = catalog[key][lang] /\ catalog[key][lang] # NoText
    BY <2>1 DEF TranslateText
  <2>4. {Preferred(req[r].wants), DefaultLang} \subseteq SupportedLangs
    BY Languages DEF DefaultLang, SupportedLangs
  <2> HIDE DEF key, text
  <2>5. \E j \in 1..Len(Files), lang \in {Preferred(req[r].wants), DefaultLang} :
            Says(Files[j], key, lang) /\ text = Files[j].texts[key]
    BY <2>2, <2>3, <2>4 DEF FromFiles
  <2> QED
    BY <2>5 DEF key, text
<1> QED
  BY <1>1, <1>2, FilesStep, Invariance, PTL DEF Spec
=============================================================================
