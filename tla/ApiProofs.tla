------------------------------ MODULE ApiProofs -----------------------------
(***************************************************************************)
(* Theorems about HttpApi: behind the HTTP layer the router behaves as     *)
(* Router says, no request without the token gets to it, requests are      *)
(* counted as they were answered, and the status views agree with routing. *)
(***************************************************************************)
EXTENDS HttpApi, HandlerProofs

-----------------------------------------------------------------------------
(* Every step of the HTTP layer is a step of the router or none.           *)

LEMMA ArrivalStays ==
  ASSUME NEW r \in Requests, Arrival(r)
  PROVE  UNCHANGED vars
  BY DEF Arrival, Unauthorized, MethodNotAllowed, handleModels, handleHealthz,
         handleReadyz, handleRouterStatus, ChatHeadersRefused, handleChat, Answers

LEMMA ChatServeIsClient ==
  ASSUME NEW r \in Requests, NEW n \in Names, ChatServe(r, n)
  PROVE  ClientStep(r) /\ UNCHANGED loop
  BY DEF ChatServe, ClientStep

LEMMA StepOfRouter == ApiNext => [Next]_vars
  <1> SUFFICES ASSUME ApiNext PROVE [Next]_vars
    OBVIOUS
  <1>1. ASSUME NEW r \in Requests, Arrival(r) PROVE UNCHANGED vars
    BY <1>1, ArrivalStays
  <1>2. ASSUME NEW r \in Requests, ChatBody(r) PROVE [Next]_vars
    BY <1>2, ChatServeIsClient DEF ChatBody, ChatBodyRefused, Answers, Next
  <1>3. ASSUME NEW r \in Requests, ServeWorld(r) PROVE Next
    BY <1>3 DEF ServeWorld, ClientStep, Next
  <1>4. ASSUME NEW r \in Requests, ApiStep(r) PROVE [Next]_vars
    BY <1>4 DEF ApiStep, ChatBodyUnreadable, Answers, ServeStep, ObserveHTTP, Next
  <1>5. ProbeStep => Next
    BY DEF ProbeStep, Next
  <1> QED
    BY <1>1, <1>2, <1>3, <1>4, <1>5 DEF ApiNext

-----------------------------------------------------------------------------
(* What handleChat holds, from where it is and from where Serve is: only   *)
(* an admitted request is read and served; the status written is the one   *)
(* that will be returned, unless the client has gone.                      *)

HttpState == [at : Phases, token : BOOLEAN, sent : Nat, returned : Nat]

Linked(r) ==
  /\ http[r] \in HttpState
  /\ http[r].at = "serve" <=> pc[r] # "idle"
  /\ http[r].at \in {"body", "serve"} => authorized(http[r].token)

Owed(r) ==
  /\ http[r].at # "answered" => http[r].returned = 0
  /\ http[r].at \in {"none", "body"} => http[r].sent = 0
  /\ http[r].at = "serve" =>
       http[r].sent = IF result[r] = "forwarded" THEN status[r] ELSE 0
  /\ http[r].at = "answered" =>
       /\ http[r].returned >= 100
       /\ \/ http[r].sent = http[r].returned
          \/ http[r].sent = 0 /\ http[r].returned = 499 /\ result[r] = "client_closed"

ApiInv ==
  /\ DOMAIN http = Requests
  /\ \A r \in Requests : Linked(r) /\ Owed(r)

-----------------------------------------------------------------------------
(* What one step of Serve can do to the answer.                            *)

ErrorCodes == {"model_not_found", "no_route_available", "upstream_timeout",
               "upstream_unavailable", "streaming_unsupported"}

LEMMA ErrorStatuses ==
  /\ DOMAIN ErrorStatus = ErrorCodes
  /\ \A c \in ErrorCodes : ErrorStatus[c] \in Nat /\ ErrorStatus[c] >= 100
  BY DEF ErrorStatus, ErrorCodes

LEMMA ErrorReturned ==
  ASSUME NEW c \in ErrorCodes, NEW s
  PROVE  Returned(c, s) = ErrorStatus[c]
  <1>1. c \in DOMAIN ErrorStatus /\ c # "client_closed" /\ c # "forwarded"
    BY ErrorStatuses DEF ErrorCodes
  <1> QED
    BY <1>1 DEF Returned

(* Serve goes on and the header that has been written, or not, stays.      *)
GoesOn(r) ==
  /\ pc'[r] # "idle" /\ ~(pc[r] = "responded" /\ pc'[r] = "relay")
  /\ result'[r] = "forwarded" => result[r] = "forwarded" /\ status'[r] = status[r]
  /\ result[r] = "forwarded" => result'[r] = "forwarded"
Commits(r) ==
  /\ pc[r] = "responded" /\ pc'[r] = "relay"
  /\ result'[r] = "forwarded" /\ status'[r] = status[r]
(* Serve ends: with an error of the router, without an answer, or with the *)
(* one that was relayed.                                                   *)
Ends(r) ==
  /\ pc'[r] = "idle"
  /\ \/ result'[r] \in ErrorCodes \cup {"client_closed"} /\ result[r] # "forwarded"
     \/ result'[r] = "forwarded" /\ result[r] = "forwarded" /\ status[r] >= 100
     \/ result'[r] = "panicked"

LEMMA ServeOutcome ==
  ASSUME Typed, NEW r \in Requests, Sound(r), pc[r] # "idle",
         ClientStep(r) \/ HandlerStep(r)
  PROVE  GoesOn(r) \/ Commits(r) \/ Ends(r)
  <1> USE DEF Typed, TypeOK, ProxyTypeOK
  <1>1. CASE ClientStep(r)
    BY <1>1 DEF ClientStep, ServeUnknownAlias, ServeNoRoute, Turned, ServeReserve,
                ClientLeaves, RelayEnds, Goto, GoesOn
  <1>2. CASE HandlerStep(r)
    <2>1. CASE \/ AttemptSend(r) \/ FailQuarantine(r) \/ FailRelease(r) \/ SwapCloseOld(r)
               \/ \E e \in Errors : AttemptFails(r, e)
               \/ \E s \in Statuses : AttemptResponds(r, s)
      BY <2>1 DEF AttemptSend, AttemptFails, AttemptResponds, AttemptUnchanged,
                  FailQuarantine, FailRelease, SwapCloseOld, Goto, Sound, Answering, GoesOn
    <2>2. ASSUME NEW i, FailOver(r, i) \/ Swap(r, i) PROVE GoesOn(r)
      BY <2>2 DEF FailOver, Swap, Goto, Sound, Answering, GoesOn
    <2>3. CASE FailCanceled(r) \/ FailFinally(r)
      BY <2>3 DEF FailCanceled, FailFinally, Return, Goto, Sound, Answering, Ends, ErrorCodes
    <2>4. CASE ForwardPanics(r)
      BY <2>4 DEF ForwardPanics, Return, Goto, Ends
    <2>5. CASE ForwardRelease(r)
      BY <2>5 DEF ForwardRelease, Return, Goto, Sound, Answering, Ends, ErrorCodes
    <2>6. CASE ForwardUnsupported(r)
      BY <2>6 DEF ForwardUnsupported, Final, Goto, Sound, Answering, GoesOn
    <2>7. CASE ForwardCommit(r)
      BY <2>7 DEF ForwardCommit, Final, Goto, Commits
    <2>8. CASE UNCHANGED handlerVars
      BY <2>8 DEF handlerVars, GoesOn
    <2> QED
      BY <1>2, <2>1, <2>2, <2>3, <2>4, <2>5, <2>6, <2>7, <2>8 DEF HandlerStep
  <1> QED
    BY <1>1, <1>2

LEMMA ServeCalled ==
  ASSUME Typed, NEW r \in Requests, NEW n \in Names, ChatServe(r, n)
  PROVE  \/ pc'[r] = "idle" /\ result'[r] \in {"model_not_found", "no_route_available"}
         \/ pc'[r] = "send" /\ result'[r] = "none"
  BY DEF Typed, TypeOK, ProxyTypeOK, ChatServe, ServeUnknownAlias, ServeNoRoute, Turned,
         ServeReserve, Goto

-----------------------------------------------------------------------------
(* The fields of a handler after a step of Serve.                          *)
LEMMA InServeFields ==
  ASSUME ApiInv, NEW r \in Requests, InServe(r)
  PROVE  LET at == AfterServe(r) IN
         /\ DOMAIN http' = Requests
         /\ \A q \in Requests \ {r} : http'[q] = http[q]
         /\ at = "none" => http'[r] = NoRequest
         /\ at # "none" =>
              http'[r] = [at |-> at, token |-> at = "serve" /\ http[r].token,
                          sent |-> IF pc[r] = "responded" /\ pc'[r] = "relay" THEN status[r]
                                   ELSE IF at = "answered" /\ result'[r] \in DOMAIN ErrorStatus
                                   THEN ErrorStatus[result'[r]]
                                   ELSE http[r].sent,
                          returned |-> IF at = "answered"
                                       THEN Returned(result'[r], status[r]) ELSE 0]
  BY DEF InServe, ApiInv

(* The numbers a step of Serve leaves, by how it ended.                    *)
LEMMA ServeOwes ==
  ASSUME Typed, Typed', ApiInv, NEW r \in Requests, InServe(r), http[r].at = "serve",
         GoesOn(r) \/ Commits(r) \/ Ends(r)
  PROVE  http'[r] \in HttpState /\ Owed(r)' /\ http'[r].at = AfterServe(r)
  <1> DEFINE h == http[r]
             k == http'[r]
             at == AfterServe(r)
  <1>1. /\ h \in HttpState
        /\ h.sent = IF result[r] = "forwarded" THEN status[r] ELSE 0
    BY DEF ApiInv, Linked, Owed
  <1>2. h.token \in BOOLEAN /\ h.sent \in Nat /\ status[r] \in Nat
    BY <1>1, HandlerNumbers DEF HttpState
  <1>3. CASE GoesOn(r) \/ Commits(r)
    <2>1. at = "serve"
      BY <1>3 DEF GoesOn, Commits, AfterServe
    <2>2. k = [at |-> "serve", token |-> h.token,
               sent |-> IF pc[r] = "responded" /\ pc'[r] = "relay" THEN status[r] ELSE h.sent,
               returned |-> 0]
      BY <1>2, <2>1, InServeFields
    <2>3. k \in HttpState
      BY <1>2, <2>2 DEF HttpState, Phases
    <2>4. k.sent = IF result'[r] = "forwarded" THEN status'[r] ELSE 0
      BY <1>1, <1>3, <2>2 DEF GoesOn, Commits
    <2>5. k.at = "serve" /\ k.returned = 0
      BY <2>2
    <2> QED
      BY <2>1, <2>3, <2>4, <2>5 DEF Owed
  <1>4. CASE Ends(r) /\ result'[r] = "panicked"
    <2>1. at = "none" /\ k = NoRequest
      BY <1>4, InServeFields DEF Ends, AfterServe
    <2> QED
      BY <2>1 DEF NoRequest, HttpState, Phases, Owed
  <1>5. CASE Ends(r) /\ result'[r] # "panicked"
    <2>1. at = "answered"
      BY <1>5 DEF Ends, AfterServe
    <2>2. k = [at |-> "answered", token |-> FALSE,
               sent |-> IF result'[r] \in ErrorCodes THEN ErrorStatus[result'[r]] ELSE h.sent,
               returned |-> Returned(result'[r], status[r])]
      BY <1>5, <2>1, InServeFields, ErrorStatuses DEF Ends
    <2>3. /\ Returned(result'[r], status[r]) \in Nat
          /\ Returned(result'[r], status[r]) >= 100
          /\ \/ k.sent = Returned(result'[r], status[r])
             \/ /\ k.sent = 0 /\ result'[r] = "client_closed"
                /\ Returned(result'[r], status[r]) = 499
      <3>1. CASE result'[r] \in ErrorCodes
        <4>1. Returned(result'[r], status[r]) = ErrorStatus[result'[r]]
          BY <3>1, ErrorReturned
        <4>2. k.sent = ErrorStatus[result'[r]]
          BY <2>2, <3>1
        <4> QED
          BY <3>1, <4>1, <4>2, ErrorStatuses
      <3>2. CASE result'[r] = "client_closed"
        <4>1. result'[r] \notin ErrorCodes
          BY <3>2 DEF ErrorCodes
        <4>2. Returned(result'[r], status[r]) = 499
          BY <3>2, <4>1, ErrorStatuses DEF Returned, StatusClientClosed
        <4> QED
          BY <1>1, <1>5, <2>2, <3>2, <4>1, <4>2 DEF Ends
      <3>3. CASE result'[r] = "forwarded"
        <4>1. result'[r] \notin ErrorCodes /\ result[r] = "forwarded" /\ status[r] >= 100
          BY <1>5, <3>3 DEF ErrorCodes, Ends
        <4>2. Returned(result'[r], status[r]) = status[r]
          BY <3>3, <4>1, ErrorStatuses DEF Returned
        <4> QED
          BY <1>1, <1>2, <2>2, <4>1, <4>2
      <3> QED
        BY <1>5, <3>1, <3>2, <3>3 DEF Ends
    <2>4. k \in HttpState
      BY <1>2, <2>2, <2>3, ErrorStatuses DEF HttpState, Phases
    <2> QED
      BY <2>1, <2>2, <2>3, <2>4 DEF Owed
  <1> QED
    BY <1>3, <1>4, <1>5

(* The same when Serve has just been called.                               *)
LEMMA CalledOwes ==
  ASSUME Typed, ApiInv, NEW r \in Requests, NEW n \in Names, ChatServe(r, n)
  PROVE  http'[r] \in HttpState /\ Owed(r)' /\ http'[r].at = AfterServe(r)
         /\ http'[r].at # "none"
  <1>1. /\ http[r] \in HttpState /\ http[r].at = "body" /\ http[r].sent = 0
        /\ http[r].token \in BOOLEAN /\ pc[r] = "idle" /\ InServe(r)
    BY DEF ApiInv, Linked, Owed, HttpState, ChatServe
  <1>2. CASE pc'[r] = "send" /\ result'[r] = "none"
    <2>1. AfterServe(r) = "serve"
      BY <1>2 DEF AfterServe
    <2>2. http'[r] = [at |-> "serve", token |-> http[r].token, sent |-> 0, returned |-> 0]
      BY <1>1, <1>2, <2>1, InServeFields
    <2> QED
      BY <1>1, <1>2, <2>1, <2>2 DEF HttpState, Phases, Owed
  <1>3. CASE pc'[r] = "idle" /\ result'[r] \in {"model_not_found", "no_route_available"}
    <2>1. AfterServe(r) = "answered" /\ result'[r] \in ErrorCodes
      BY <1>3 DEF AfterServe, ErrorCodes
    <2>2. http'[r] = [at |-> "answered", token |-> FALSE, sent |-> ErrorStatus[result'[r]],
                      returned |-> ErrorStatus[result'[r]]]
      <3>1. Returned(result'[r], status[r]) = ErrorStatus[result'[r]]
        BY <2>1, ErrorReturned
      <3>2. ~(pc[r] = "responded" /\ pc'[r] = "relay")
        BY <1>1
      <3> QED
        BY <1>1, <2>1, <3>1, <3>2, InServeFields, ErrorStatuses
    <2> QED
      BY <2>1, <2>2, ErrorStatuses DEF HttpState, Phases, Owed
  <1> QED
    BY <1>2, <1>3, ServeCalled

(* handleChat follows Serve.                                               *)
LEMMA InServeLinks ==
  ASSUME Typed, Typed', ServeInv, ApiInv, NEW r \in Requests, InServe(r),
         \/ http[r].at = "serve" /\ (ClientStep(r) \/ HandlerStep(r))
         \/ \E n \in Names : ChatServe(r, n)
  PROVE  ApiInv'
  <1>1. http[r].at \in {"body", "serve"} /\ (ClientStep(r) \/ HandlerStep(r))
    BY ChatServeIsClient DEF ChatServe
  <1>2. DOMAIN http' = Requests /\ \A q \in Requests \ {r} : http'[q] = http[q]
    BY InServeFields
  <1>3. http'[r] \in HttpState /\ Owed(r)' /\ http'[r].at = AfterServe(r)
    <2>1. CASE \E n \in Names : ChatServe(r, n)
      BY <2>1, CalledOwes
    <2>2. CASE http[r].at = "serve"
      <3>1. pc[r] # "idle" /\ Sound(r)
        BY <2>2 DEF ApiInv, Linked, ServeInv
      <3> QED
        BY <1>1, <2>2, <3>1, ServeOutcome, ServeOwes
    <2> QED
      BY <2>1, <2>2
  <1>4. AfterServe(r) = "serve" => http'[r].token = http[r].token
    <2>1. http[r].token \in BOOLEAN
      BY DEF ApiInv, Linked, HttpState
    <2> SUFFICES ASSUME AfterServe(r) = "serve" PROVE http'[r].token = http[r].token
      OBVIOUS
    <2>2. http'[r].token = (AfterServe(r) = "serve" /\ http[r].token)
      <3> DEFINE s == IF pc[r] = "responded" /\ pc'[r] = "relay" THEN status[r]
                      ELSE http[r].sent
      <3>1. http'[r] = [at |-> "serve", token |-> AfterServe(r) = "serve" /\ http[r].token,
                        sent |-> s, returned |-> 0]
        BY InServeFields
      <3> QED
        BY <3>1
    <2> QED
      BY <2>1, <2>2
  <1>5. authorized(http[r].token)
    BY <1>1 DEF ApiInv, Linked
  <1>6. Linked(r)'
    BY <1>3, <1>4, <1>5 DEF Linked, AfterServe, authorized
  <1>7. ASSUME NEW q \in Requests \ {r} PROVE Linked(q)' /\ Owed(q)'
    <2>1. Untouched(q)
      BY <1>1, OthersUntouched
    <2> QED
      BY <1>2, <2>1 DEF ApiInv, Linked, Owed, authorized, Untouched
  <1> QED
    BY <1>2, <1>3, <1>6, <1>7 DEF ApiInv

(* A handler outside Serve changes its own phase.                          *)
LEMMA OutsideLinks ==
  ASSUME ApiInv, UNCHANGED vars, NEW r \in Requests, NEW h \in HttpState,
         http' = [http EXCEPT ![r] = h], http[r].at # "serve",
         \/ h.at = "none" /\ h.sent = 0 /\ h.returned = 0
         \/ h.at = "body" /\ h.sent = 0 /\ h.returned = 0 /\ authorized(h.token)
         \/ h.at = "answered" /\ h.returned >= 100 /\ h.sent = h.returned
  PROVE  ApiInv'
  <1>1. pc' = pc /\ result' = result /\ status' = status
    BY DEF vars, handlerVars
  <1>2. DOMAIN http' = Requests /\ \A q \in Requests \ {r} : http'[q] = http[q]
    BY DEF ApiInv
  <1>3. http'[r] = h
    BY DEF ApiInv
  <1>4. Linked(r)' /\ Owed(r)'
    BY <1>1, <1>3 DEF ApiInv, Linked, Owed, authorized
  <1>5. \A q \in Requests \ {r} : Linked(q)' /\ Owed(q)'
    BY <1>1, <1>2 DEF ApiInv, Linked, Owed, authorized
  <1> QED
    BY <1>2, <1>4, <1>5 DEF ApiInv

LEMMA AnswersLinks ==
  ASSUME ApiInv, NEW r \in Requests, NEW s \in Nat, s >= 100, http[r].at # "serve",
         Answers(r, s)
  PROVE  ApiInv'
  <1> DEFINE h == [at |-> "answered", token |-> FALSE, sent |-> s, returned |-> s]
  <1>1. /\ h \in HttpState /\ h.at = "answered"
        /\ h.sent = s /\ h.returned = s
    BY DEF HttpState, Phases
  <1>2. http' = [http EXCEPT ![r] = h] /\ UNCHANGED vars
    BY DEF Answers
  <1> HIDE DEF h
  <1> QED
    BY <1>1, <1>2, OutsideLinks

(* Before it has a request, or after its answer, a handler is not in Serve *)
(* and can only have a gauge write left to do.                             *)
LEMMA AfterAnswer ==
  ASSUME ApiInv, NEW r \in Requests, ServeStep(r), http[r].at # "serve"
  PROVE  http' = http /\ UNCHANGED handlerVars
  <1>1. HandlerStep(r) /\ http' = http /\ pc[r] = "idle"
    BY DEF ServeStep, ApiInv, Linked
  <1> QED
    BY <1>1 DEF HandlerStep, AttemptSend, AttemptFails, AttemptResponds, FailCanceled,
       FailQuarantine, FailRelease, FailFinally, SwapCloseOld, Final,
       ForwardUnsupported, ForwardPanics, ForwardCommit, ForwardRelease

LEMMA ApiInvNext ==
  Typed /\ Typed' /\ ServeInv /\ ApiInv /\ [ApiNext]_apiVars => ApiInv'
  <1> SUFFICES ASSUME Typed, Typed', ServeInv, ApiInv, [ApiNext]_apiVars PROVE ApiInv'
    OBVIOUS
  <1>1. ASSUME NEW r \in Requests, Arrival(r) PROVE ApiInv'
    <2>1. CASE \E token \in BOOLEAN : handleChat(r, token)
      <3> PICK token \in BOOLEAN : handleChat(r, token)
        BY <2>1
      <3> DEFINE h == [at |-> "body", token |-> token, sent |-> 0, returned |-> 0]
      <3>1. h \in HttpState /\ h.at = "body" /\ h.token = token
            /\ h.sent = 0 /\ h.returned = 0
        BY DEF HttpState, Phases
      <3>2. http[r].at = "none" /\ authorized(token)
        BY DEF handleChat, Admitted, Protected
      <3>3. http' = [http EXCEPT ![r] = h] /\ UNCHANGED vars
        BY DEF handleChat
      <3> HIDE DEF h
      <3> QED
        BY <3>1, <3>2, <3>3, OutsideLinks
    <2>2. CASE \E s \in {200, 401, 405, 415, 503} : http[r].at = "none" /\ Answers(r, s)
      BY <2>2, AnswersLinks
    <2> QED
      BY <1>1, <2>1, <2>2 DEF Arrival, Unauthorized, MethodNotAllowed, handleModels,
         handleHealthz, handleReadyz, handleRouterStatus, ChatHeadersRefused, Admitted
  <1>2. ASSUME NEW r \in Requests, ChatBody(r) PROVE ApiInv'
    <2>1. ASSUME NEW s \in {413, 400}, ChatBodyRefused(r, s) PROVE ApiInv'
      BY <2>1, AnswersLinks DEF ChatBodyRefused
    <2>2. ASSUME NEW n \in Names, ChatServe(r, n) PROVE ApiInv'
      BY <2>2, InServeLinks DEF ChatServe
    <2> QED
      BY <1>2, <2>1, <2>2 DEF ChatBody
  <1>3. ASSUME NEW r \in Requests, ServeWorld(r) PROVE ApiInv'
    <2>1. ClientStep(r)
      BY <1>3 DEF ServeWorld, ClientStep
    <2> QED
      BY <1>3, <2>1, InServeLinks DEF ServeWorld
  <1>4. ASSUME UNCHANGED handlerVars, http' = http PROVE ApiInv'
    BY <1>4 DEF ApiInv, Linked, Owed, authorized, handlerVars
  <1>5. ASSUME NEW r \in Requests, ApiStep(r) PROVE ApiInv'
    <2>1. CASE ChatBodyUnreadable(r)
      BY <2>1, AnswersLinks DEF ChatBodyUnreadable
    <2>2. CASE ServeStep(r) /\ http[r].at = "serve"
      BY <2>2, InServeLinks DEF ServeStep
    <2>3. CASE ServeStep(r) /\ http[r].at # "serve"
      BY <1>4, <2>3, AfterAnswer
    <2>4. CASE ObserveHTTP(r)
      <3>1. NoRequest \in HttpState /\ NoRequest.at = "none"
            /\ NoRequest.sent = 0 /\ NoRequest.returned = 0
        BY DEF NoRequest, HttpState, Phases
      <3> QED
        BY <2>4, <3>1, OutsideLinks DEF ObserveHTTP
    <2> QED
      BY <1>5, <2>1, <2>2, <2>3, <2>4 DEF ApiStep
  <1>6. CASE ProbeStep \/ UNCHANGED apiVars
    BY <1>4, <1>6 DEF ProbeStep, apiVars, vars
  <1> QED
    BY <1>1, <1>2, <1>3, <1>5, <1>6 DEF ApiNext

LEMMA ApiInvInit == ApiInit => ApiInv
  <1>1. NoRequest \in HttpState /\ NoRequest.at = "none"
        /\ NoRequest.sent = 0 /\ NoRequest.returned = 0
    BY DEF NoRequest, HttpState, Phases
  <1>2. ApiInit => http = [r \in Requests |-> NoRequest]
                   /\ pc = [r \in Requests |-> "idle"]
    BY DEF ApiInit, Init, ProxyInit
  <1> QED
    BY <1>1, <1>2 DEF ApiInv, Linked, Owed

-----------------------------------------------------------------------------
(* server.go 50-87, chat.go 59-83: whatever requests arrive and however    *)
(* their bodies end, what reaches the routing state is a behaviour of      *)
(* Router, so its theorems hold of the whole server.                       *)
THEOREM ApiImplementsRouter == ApiSpec => Spec
  <1>1. ApiInit => Init
    BY DEF ApiInit
  <1>2. [ApiNext]_apiVars => [Next]_vars
    BY StepOfRouter DEF apiVars
  <1> QED
    BY <1>1, <1>2, PTL DEF ApiSpec, Spec

LEMMA ApiTyped == ApiSpec => []Typed
  BY ApiImplementsRouter, TypedAlways, PTL

LEMMA ApiServes == ApiSpec => []ServeInv
  BY ApiImplementsRouter, ServeInvAlways, PTL

LEMMA ApiInvAlways == ApiSpec => []ApiInv
  BY ApiTyped, ApiServes, ApiInvInit, ApiInvNext, PTL DEF ApiSpec

(* SECURITY.md 17: with a token configured, no request without it is ever  *)
(* inside Serve, for any number of concurrent requests.                    *)
THEOREM ServedAuthorizedHolds == ApiSpec => []ServedAuthorized
  <1>1. ApiInv => ServedAuthorized
    BY DEF ApiInv, Linked, ServedAuthorized
  <1> QED
    BY <1>1, ApiInvAlways, PTL

(* server.go 69-86: a handler is inside Serve exactly while Serve runs,    *)
(* and has a status to be counted under exactly when it has answered.      *)
THEOREM ApiTypes == ApiSpec => []ApiTypeOK
  <1>1. ASSUME ApiInv, NEW r \in Requests PROVE http[r].returned >= 100 <=> http[r].at = "answered"
    BY <1>1 DEF ApiInv, Owed
  <1>2. ApiInv => ApiTypeOK
    BY <1>1 DEF ApiInv, Linked, HttpState, ApiTypeOK
  <1> QED
    BY <1>2, ApiInvAlways, PTL

-----------------------------------------------------------------------------
(* Every request is counted, under what its client was sent.               *)

LEMMA Labels ==
  /\ statusLabel(499) = 4
  /\ \A s \in 200 .. 599 : statusLabel(s) \in {s, s \div 100}
  BY DEF statusLabel

LEMMA CountsMatch ==
  ASSUME ApiInv, NEW r \in Requests, http[r].at = "answered"
  PROVE  CountMatches(r)
  <1> DEFINE h == http[r]
  <1>1. /\ h.returned >= 100 /\ h.returned \in Nat
        /\ \/ h.sent = h.returned
           \/ h.sent = 0 /\ h.returned = 499 /\ result[r] = "client_closed"
    BY DEF ApiInv, Linked, Owed, HttpState
  <1>2. CASE h.sent = h.returned
    <2>1. h.sent # 0
      BY <1>1, <1>2
    <2>2. h.sent \in 200 .. 599 => statusLabel(h.returned) \in {h.sent, h.sent \div 100}
      BY <1>2, Labels
    <2> QED
      BY <2>1, <2>2 DEF CountMatches
  <1>3. CASE h.sent = 0 /\ h.returned = 499 /\ result[r] = "client_closed"
    BY <1>1, <1>3, Labels DEF CountMatches
  <1> QED
    BY <1>1, <1>2, <1>3

LEMMA OnlyOneMoves ==
  ASSUME ApiInv, [ApiNext]_apiVars, NEW r \in Requests, Leaves(r)
  PROVE  \/ ObserveHTTP(r)
         \/ InServe(r) /\ http[r].at = "serve"
         \/ \E n \in Names : ChatServe(r, n)
  <1>1. ASSUME NEW q \in Requests, NEW s, Answers(q, s) PROVE FALSE
    BY <1>1 DEF Answers, ApiInv, Leaves
  <1>2. ASSUME NEW q \in Requests, Arrival(q) PROVE FALSE
    BY <1>1, <1>2 DEF Arrival, Unauthorized, MethodNotAllowed, handleModels, handleHealthz,
       handleReadyz, handleRouterStatus, ChatHeadersRefused, handleChat, ApiInv, Leaves
  <1>3. ASSUME NEW q \in Requests, InServe(q) PROVE q = r
    BY <1>3, InServeFields DEF Leaves
  <1>4. ASSUME NEW q \in Requests, ObserveHTTP(q) PROVE q = r
    BY <1>4 DEF ObserveHTTP, ApiInv, Leaves
  <1>5. http' # http
    BY DEF Leaves
  <1> QED
    BY <1>1, <1>2, <1>3, <1>4, <1>5
    DEF ApiNext, ChatBody, ChatBodyRefused, ChatServe, ServeWorld, ApiStep,
        ChatBodyUnreadable, ServeStep, ProbeStep, apiVars

(* server.go 45, 69-86: for any number of concurrent requests, each one is *)
(* counted unless its handler panicked, and under the status its client    *)
(* was sent, whichever layer wrote the header.                             *)
THEOREM CountedRight == ApiSpec => CountedAsAnswered
  <1>1. ASSUME Typed, ApiInv, [ApiNext]_apiVars, NEW r \in Requests, Leaves(r)
        PROVE  \/ http[r].at = "serve" /\ result'[r] = "panicked"
               \/ CountMatches(r)
    <2>1. CASE ObserveHTTP(r)
      BY <1>1, <2>1, CountsMatch DEF ObserveHTTP
    <2>2. CASE InServe(r) /\ http[r].at = "serve"
      <3>1. AfterServe(r) # "none" => http'[r].at = AfterServe(r)
        <4> SUFFICES ASSUME AfterServe(r) # "none" PROVE http'[r].at = AfterServe(r)
          OBVIOUS
        <4> DEFINE t == AfterServe(r) = "serve" /\ http[r].token
                   s == IF pc[r] = "responded" /\ pc'[r] = "relay" THEN status[r]
                        ELSE IF AfterServe(r) = "answered" /\ result'[r] \in DOMAIN ErrorStatus
                        THEN ErrorStatus[result'[r]]
                        ELSE http[r].sent
                   u == IF AfterServe(r) = "answered" THEN Returned(result'[r], status[r])
                        ELSE 0
        <4>1. http'[r] = [at |-> AfterServe(r), token |-> t, sent |-> s, returned |-> u]
          BY <1>1, <2>2, InServeFields
        <4> HIDE DEF t, s, u
        <4> QED
          BY <4>1
      <3>2. AfterServe(r) = "none"
        BY <1>1, <3>1 DEF Leaves
      <3> QED
        BY <2>2, <3>2 DEF AfterServe
    <2>3. ASSUME NEW n \in Names, ChatServe(r, n) PROVE FALSE
      BY <1>1, <2>3, CalledOwes DEF Leaves
    <2> QED
      BY <1>1, <2>1, <2>2, <2>3, OnlyOneMoves
  <1>2. Typed /\ ApiInv /\ [ApiNext]_apiVars =>
          [\A r \in Requests : Leaves(r) =>
             \/ http[r].at = "serve" /\ result'[r] = "panicked"
             \/ CountMatches(r)]_apiVars
    BY <1>1
  <1> QED
    BY <1>2, ApiTyped, ApiInvAlways, PTL DEF ApiSpec, CountedAsAnswered

=============================================================================
