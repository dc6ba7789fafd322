------------------------------- MODULE HttpApi ------------------------------
(***************************************************************************)
(* The HTTP layer around the router (internal/httpapi): authentication,    *)
(* the handlers of the endpoints, the chat body, and the one count that    *)
(* instrumented makes of each request.  A goroutine of Requests takes one  *)
(* HTTP request after the other; between two it is at "none".              *)
(* /metrics and unknown paths are not counted and change nothing.          *)
(***************************************************************************)
EXTENDS Router

CONSTANT AuthEnabled    \* an inbound token is configured

ASSUME AuthAssumption == AuthEnabled \in BOOLEAN

VARIABLE http   \* per goroutine: what instrumented and its handler hold

Phases == { "none",       \* no request
            "body",       \* handleChat: io.ReadAll of the request body
            "serve",      \* handleChat: inside Proxy.Serve
            "answered" }  \* the handler has returned, ObserveHTTP is next

apiVars == <<vars, http>>

(* token is kept while a chat request is read and served.                  *)
NoRequest == [at |-> "none", token |-> FALSE, sent |-> 0, returned |-> 0]

-----------------------------------------------------------------------------
(* What a handler writes and what it returns.                              *)

StatusClientClosed == 499

(* The statuses of the router's own errors.                                *)
ErrorStatus == [model_not_found |-> 404, no_route_available |-> 503,
                upstream_timeout |-> 504, upstream_unavailable |-> 502,
                streaming_unsupported |-> 500]

(* Mutant of Returned: a relayed response counts as a success.             *)
ReturnedOK(code, upstream) ==
  CASE code \in DOMAIN ErrorStatus -> ErrorStatus[code]
    [] code = "client_closed" -> StatusClientClosed
    [] code = "forwarded" -> 200
    [] OTHER -> 0

(* handleChat's result, from the outcome of Serve and the upstream status. *)
Returned(code, upstream) ==
  CASE code \in DOMAIN ErrorStatus -> ErrorStatus[code]
    [] code = "client_closed" -> StatusClientClosed
    [] code = "forwarded" -> upstream
    [] OTHER -> 0

(* The label of a count: the status itself, or its class (2 for "2xx").    *)
statusLabel(s) ==
  IF s \in {200, 400, 401, 404, 413, 415, 429, 500, 502, 503, 504} THEN s
  ELSE IF s \in 200 .. 499 THEN s \div 100 ELSE 5

(* The handler of r wrote status s with its own header and returned it.    *)
Answers(r, s) ==
  /\ http' = [http EXCEPT ![r] = [at |-> "answered", token |-> FALSE,
                                  sent |-> s, returned |-> s]]
  /\ UNCHANGED vars

-----------------------------------------------------------------------------
(* A request arrives.                                                      *)

Endpoints == {"chat_completions", "models", "router_status", "healthz", "readyz"}

(* Mutant of Protected: the chat endpoint is registered without protection.*)
ProtectedButChat == {"models", "router_status"}

Protected == {"chat_completions", "models", "router_status"}

(* token: the request carries the configured bearer token.                 *)
authorized(token) == AuthEnabled => token

Admitted(r, endpoint, token) ==
  /\ http[r].at = "none"
  /\ endpoint \in Protected => authorized(token)

Unauthorized(r, endpoint, token) ==
  /\ http[r].at = "none"
  /\ endpoint \in Protected
  /\ ~authorized(token)
  /\ Answers(r, 401)

MethodNotAllowed(r, endpoint, token) ==
  /\ Admitted(r, endpoint, token)
  /\ Answers(r, 405)

handleModels(r, token) == Admitted(r, "models", token) /\ Answers(r, 200)

handleHealthz(r, token) == Admitted(r, "healthz", token) /\ Answers(r, 200)

handleReadyz(r, token) ==
  /\ Admitted(r, "readyz", token)
  /\ Answers(r, IF Ready THEN 200 ELSE 503)

(* The body is a Snapshot of the state, taken after the header is written. *)
handleRouterStatus(r, token) ==
  Admitted(r, "router_status", token) /\ Answers(r, 200)

(* checkChatHeaders: an encoding, or a content type other than JSON.       *)
ChatHeadersRefused(r, token) ==
  Admitted(r, "chat_completions", token) /\ Answers(r, 415)

handleChat(r, token) ==
  /\ Admitted(r, "chat_completions", token)
  /\ http' = [http EXCEPT ![r] = [at |-> "body", token |-> token,
                                  sent |-> 0, returned |-> 0]]
  /\ UNCHANGED vars

-----------------------------------------------------------------------------
(* The chat request.                                                       *)

(* decodeChatBody and the model field refuse the body: more bytes than     *)
(* MaxChatRequestBytes, no JSON object, or no model in it.                 *)
ChatBodyRefused(r, s) ==
  /\ http[r].at = "body"
  /\ s \in {413, 400}
  /\ Answers(r, s)

(* Mutant of ChatBodyUnreadable: a late body is waited for.                *)
ChatBodyAwaited(r) ==
  /\ http[r].at = "body"
  /\ UNCHANGED apiVars

(* The read fails: the connection broke, or ReadTimeout has passed.        *)
ChatBodyUnreadable(r) ==
  /\ http[r].at = "body"
  /\ Answers(r, 400)

(* Mutant of AfterServe: a handler that panicked is counted too.           *)
AfterServePanic(r) == IF pc'[r] # "idle" THEN "serve" ELSE "answered"

(* A panic unwinds through instrumented, and nothing is counted.           *)
AfterServe(r) ==
  IF pc'[r] # "idle" THEN "serve"
  ELSE IF result'[r] = "panicked" THEN "none" ELSE "answered"

(* One step of Serve, and what handleChat does once it has returned.  The  *)
(* header goes out in forward, or in handleChat's writeError.              *)
InServe(r) ==
  LET at == AfterServe(r) IN
  http' = [http EXCEPT ![r] =
            IF at = "none" THEN NoRequest
            ELSE [at |-> at,
                  token |-> at = "serve" /\ @.token,
                  sent |-> IF pc[r] = "responded" /\ pc'[r] = "relay" THEN status[r]
                           ELSE IF at = "answered" /\ result'[r] \in DOMAIN ErrorStatus
                           THEN ErrorStatus[result'[r]]
                           ELSE @.sent,
                  returned |-> IF at = "answered" THEN Returned(result'[r], status[r])
                               ELSE 0]]

(* The body is good: Serve is called with the model n.                     *)
ChatServe(r, n) ==
  /\ http[r].at = "body"
  /\ \/ ServeUnknownAlias(r, n)
     \/ ServeNoRoute(r, n)
     \/ n \in Aliases /\ \E i \in RouteIds(n) : ServeReserve(r, n, i)
  /\ UNCHANGED loop
  /\ InServe(r)

(* Once Serve has returned only its last gauge write can be left to do.    *)
ServeStep(r) ==
  /\ http[r].at \in {"serve", "answered"}
  /\ HandlerStep(r) /\ UNCHANGED loop
  /\ IF http[r].at = "serve" THEN InServe(r) ELSE UNCHANGED http

ServeWorld(r) ==
  /\ http[r].at = "serve"
  /\ ClientLeaves(r) \/ RelayEnds(r)
  /\ UNCHANGED loop
  /\ InServe(r)

(* instrumented counts the request under statusLabel(returned).            *)
ObserveHTTP(r) ==
  /\ http[r].at = "answered"
  /\ Published(r)
  /\ http' = [http EXCEPT ![r] = NoRequest]
  /\ UNCHANGED vars

-----------------------------------------------------------------------------
Arrival(r) ==
  \E token \in BOOLEAN :
    \/ \E e \in Endpoints : Unauthorized(r, e, token) \/ MethodNotAllowed(r, e, token)
    \/ handleModels(r, token)
    \/ handleHealthz(r, token)
    \/ handleReadyz(r, token)
    \/ handleRouterStatus(r, token)
    \/ ChatHeadersRefused(r, token)
    \/ handleChat(r, token)

ChatBody(r) ==
  \/ \E s \in {413, 400} : ChatBodyRefused(r, s)
  \/ \E n \in Names : ChatServe(r, n)

(* The steps of the handler's own goroutine.                               *)
ApiStep(r) == ChatBodyUnreadable(r) \/ ServeStep(r) \/ ObserveHTTP(r)

ProbeStep == \E b \in Backends : CheckerStep(b) /\ UNCHANGED <<handlerVars, http>>

ApiInit == Init /\ http = [r \in Requests |-> NoRequest]

ApiNext ==
  \/ \E r \in Requests : Arrival(r) \/ ChatBody(r) \/ ServeWorld(r) \/ ApiStep(r)
  \/ ProbeStep

ApiSpec == ApiInit /\ [][ApiNext]_apiVars

(* A body is read or given up within ReadTimeout, and handlers go on,      *)
(* except that nothing makes client.Do return inside Serve.                *)
ApiFairSpec ==
  ApiSpec /\ \A r \in Requests : WF_apiVars(~Awaiting(r) /\ ApiStep(r))

-----------------------------------------------------------------------------
(* The type invariant: a handler is inside Serve while Serve is, and only  *)
(* an answered request has a status to be counted under.                   *)
ApiTypeOK ==
  \A r \in Requests :
    /\ http[r] \in [at : Phases, token : BOOLEAN, sent : Nat, returned : Nat]
    /\ http[r].at = "serve" <=> pc[r] # "idle"
    /\ http[r].returned >= 100 <=> http[r].at = "answered"

(* server.go 45, 69-86: a request leaves instrumented by being counted,    *)
(* unless its handler panicked; and it is counted under the status the     *)
(* client was sent, however many layers returned it: the number itself or  *)
(* its class.  Without an answer the client had gone: 499, in "4xx".       *)
Leaves(r) == http[r].at # "none" /\ http'[r].at = "none"
CountMatches(r) ==
  LET sent == http[r].sent
      label == statusLabel(http[r].returned)
  IN  /\ http[r].at = "answered"
      /\ sent = 0 => result[r] = "client_closed" /\ label = 4
      /\ sent \in 200 .. 599 => label \in {sent, sent \div 100}
CountedAsAnswered ==
  [][\A r \in Requests : Leaves(r) =>
       \/ http[r].at = "serve" /\ result'[r] = "panicked"
       \/ CountMatches(r)]_apiVars

(* SECURITY.md 17: with a token configured no request without it takes a   *)
(* reservation or reaches an upstream.                                     *)
ServedAuthorized ==
  \A r \in Requests : pc[r] # "idle" => authorized(http[r].token)

(* server.go 17, README "Bounded Failover": every chat request is counted, *)
(* or its response is committed and streaming, or its handler panicked: a  *)
(* client that never completes its body is given up by ReadTimeout.  Only  *)
(* an upstream that keeps client.Do for ever keeps a request from it.      *)
EventuallyCounted ==
  \A r \in Requests :
    http[r].at = "body" ~>
      (http[r].at = "none" \/ pc[r] = "relay" \/ []Awaiting(r))
=============================================================================
