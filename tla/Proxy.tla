------------------------------- MODULE Proxy --------------------------------
(***************************************************************************)
(* Proxy.Serve of internal/router/proxy.go, run by one handler goroutine   *)
(* per client request, up to and including the error handleChat writes for *)
(* it.  A step is one critical section of the routing state or one event   *)
(* of the outside world (the upstream answers, the client leaves); purely  *)
(* local code is merged into the step it follows.                          *)
(***************************************************************************)
EXTENDS RoutingState

CONSTANT Statuses     \* upstream HTTP statuses that can arrive

ASSUME StatusAssumption == Statuses \subseteq Nat

(* The upstream's statuses are ones that WriteHeader accepts.  The client  *)
(* takes any three digits for a status, WriteHeader panics below 100.      *)
Writable == \A s \in Statuses : s >= 100

VARIABLES
  pc,         \* where Serve is
  alias,      \* the alias argument
  route,      \* the route variable of the loop; 0 while there is none
  old,        \* after a swap, the route whose response is still open; else 0
  attempted,  \* the attempted map
  canceled,   \* r.Context().Err() # nil: the client is gone
  err,        \* attemptErr
  status,     \* resp.StatusCode; 0 without a response
  result,     \* what Serve returned: an APIError code or the upstream reply
  written,    \* response headers written downstream
  observed,   \* ObserveAttempt calls of this request
  failovers   \* Failover calls of this request

handlerVars == <<pc, alias, route, old, attempted, canceled, err, status,
                 result, written, observed, failovers>>

Holding ==      \* the program points at which the handler has a reservation
  { "send",         \* top of the loop, before the upstream request goes out
    "await",        \* client.Do: the upstream has the request
    "failed",       \* attemptErr # nil, not looked at yet
    "quarantined",  \* SetHealth(false) done, reservation not yet released
    "responded",    \* upstream headers are here, nothing written downstream
    "swapped",      \* reservation moved, old response body not closed yet
    "relay",        \* committed: copying the body
    "release" }     \* forward returned, Release is next
Points == Holding \cup {"idle", "failover"}

Errors == {"none", "transport", "timeout", "canceled"}
Results == {"none", "model_not_found", "no_route_available", "upstream_timeout",
            "upstream_unavailable", "streaming_unsupported", "client_closed",
            "forwarded", "panicked"}

ProxyTypeOK ==
  /\ pc \in [Requests -> Points]
  /\ alias \in [Requests -> Names]
  /\ route \in [Requests -> Nat]
  /\ old \in [Requests -> Nat]
  /\ attempted \in [Requests -> SUBSET Nat]
  /\ canceled \in [Requests -> BOOLEAN]
  /\ err \in [Requests -> Errors]
  /\ status \in [Requests -> Statuses \cup {0}]
  /\ result \in [Requests -> Results]
  /\ written \in [Requests -> Nat]
  /\ observed \in [Requests -> Nat]
  /\ failovers \in [Requests -> Nat]

SomeName == CHOOSE n \in Names : TRUE   \* alias while Serve is not running

ProxyInit ==
  /\ pc = [r \in Requests |-> "idle"]
  /\ alias = [r \in Requests |-> SomeName]
  /\ route = [r \in Requests |-> 0]
  /\ old = [r \in Requests |-> 0]
  /\ attempted = [r \in Requests |-> {}]
  /\ canceled = [r \in Requests |-> FALSE]
  /\ err = [r \in Requests |-> "none"]
  /\ status = [r \in Requests |-> 0]
  /\ result = [r \in Requests |-> "none"]
  /\ written = [r \in Requests |-> 0]
  /\ observed = [r \in Requests |-> 0]
  /\ failovers = [r \in Requests |-> 0]

(* The backend of the route the handler is working on.                     *)
Upstream(r) == BackendOf(alias[r], route[r])

retryableStatus == {429, 502, 503, 504}

(* Mutant of isCanceled: the state of the client's context is not looked at.*)
isCanceledError(r) == err[r] = "canceled"

isCanceled(r) == err[r] = "canceled" \/ canceled[r]

(* The handler is in client.Do for a client that is still there.  No       *)
(* deadline covers the writing of the request (see Exchange), so nothing   *)
(* makes Do return; once the client leaves, the context does.              *)
Awaiting(r) == pc[r] = "await" /\ ~canceled[r]

Goto(r, p) == pc' = [pc EXCEPT ![r] = p]
Observe(r) == observed' = [observed EXCEPT ![r] = @ + 1]

(* Serve returns: its locals are gone; attempted and the counters, which   *)
(* the properties of finished requests speak of, are kept until the next   *)
(* request.  code is the APIError that handleChat renders, or the outcome. *)
Return(r, code, headers) ==
  /\ Goto(r, "idle")
  /\ result' = [result EXCEPT ![r] = code]
  /\ written' = [written EXCEPT ![r] = @ + headers]
  /\ alias' = [alias EXCEPT ![r] = SomeName]
  /\ route' = [route EXCEPT ![r] = 0]
  /\ err' = [err EXCEPT ![r] = "none"]
  /\ status' = [status EXCEPT ![r] = 0]
  /\ canceled' = [canceled EXCEPT ![r] = FALSE]
  /\ UNCHANGED old

-----------------------------------------------------------------------------
(* Entry: Serve(alias) up to the first reservation.                        *)

(* Serve is called with alias n and ends before it has a reservation.      *)
Turned(r, code) ==
  /\ pc[r] = "idle"
  /\ Published(r)
  /\ attempted' = [attempted EXCEPT ![r] = {}]
  /\ observed' = [observed EXCEPT ![r] = 0]
  /\ failovers' = [failovers EXCEPT ![r] = 0]
  /\ result' = [result EXCEPT ![r] = code]
  /\ written' = [written EXCEPT ![r] = 1]
  /\ UNCHANGED <<pc, alias, route, old, err, status, canceled>>

ServeUnknownAlias(r, n) ==
  /\ n \notin Aliases
  /\ Turned(r, "model_not_found")
  /\ UNCHANGED stateVars

ServeNoRoute(r, n) ==
  /\ n \in Aliases
  /\ ReserveNoRoute(n, {})
  /\ Turned(r, "no_route_available")

ServeReserve(r, n, i) ==
  /\ pc[r] = "idle"
  /\ Published(r)
  /\ n \in Aliases
  /\ Reserve(n, {}, i)
  /\ alias' = [alias EXCEPT ![r] = n]
  /\ route' = [route EXCEPT ![r] = i]
  /\ attempted' = [attempted EXCEPT ![r] = {i}]
  /\ result' = [result EXCEPT ![r] = "none"]
  /\ written' = [written EXCEPT ![r] = 0]
  /\ observed' = [observed EXCEPT ![r] = 0]
  /\ failovers' = [failovers EXCEPT ![r] = 0]
  /\ Goto(r, "send")
  /\ UNCHANGED <<old, canceled, err, status>>

(* The client disconnects; net/http cancels the request context.           *)
ClientLeaves(r) ==
  /\ pc[r] # "idle"
  /\ ~canceled[r]
  /\ canceled' = [canceled EXCEPT ![r] = TRUE]
  /\ UNCHANGED <<stateVars, pc, alias, route, old, attempted, err, status,
                 result, written, observed, failovers>>

-----------------------------------------------------------------------------
(* One attempt.                                                            *)

AttemptUnchanged == UNCHANGED <<stateVars, alias, route, old, attempted, canceled,
                                result, written, failovers>>

(* client.Do on a live context sends the request; on a dead one it fails.  *)
AttemptSend(r) ==
  /\ pc[r] = "send"
  /\ Published(r)
  /\ IF canceled[r]
     THEN Goto(r, "failed") /\ err' = [err EXCEPT ![r] = "canceled"]
     ELSE Goto(r, "await") /\ UNCHANGED err
  /\ AttemptUnchanged
  /\ UNCHANGED <<status, observed>>

(* Do returns an error: dial, TLS, connection or header-timeout failure,   *)
(* or the cancellation of the context.                                     *)
AttemptFails(r, e) ==
  /\ pc[r] = "await"
  /\ e = "canceled" => canceled[r]
  /\ err' = [err EXCEPT ![r] = e]
  /\ Goto(r, "failed")
  /\ AttemptUnchanged
  /\ UNCHANGED <<status, observed>>

(* Do returns a response: its headers are here, its body is open.          *)
AttemptResponds(r, s) ==
  /\ pc[r] = "await"
  /\ status' = [status EXCEPT ![r] = s]
  /\ Observe(r)
  /\ Goto(r, "responded")
  /\ AttemptUnchanged
  /\ UNCHANGED err

-----------------------------------------------------------------------------
(* attemptErr # nil.                                                       *)

(* Mutant of FailCanceled: the early return forgets the reservation.       *)
FailCanceledKeeping(r) ==
  /\ pc[r] = "failed"
  /\ isCanceled(r)
  /\ Observe(r)
  /\ Return(r, "client_closed", 0)
  /\ UNCHANGED <<stateVars, attempted, failovers>>

(* The client left: release, and return 499 with nothing written.          *)
FailCanceled(r) ==
  /\ pc[r] = "failed"
  /\ isCanceled(r)
  /\ Release(r, Upstream(r))
  /\ Observe(r)
  /\ Return(r, "client_closed", 0)
  /\ UNCHANGED <<attempted, failovers>>

(* A transport failure takes the backend out of selection.                 *)
FailQuarantine(r) ==
  /\ pc[r] = "failed"
  /\ ~isCanceled(r)
  /\ SetHealth(r, Upstream(r), FALSE)
  /\ Goto(r, "quarantined")
  /\ UNCHANGED <<alias, route, old, attempted, canceled, err, status, result,
                 written, observed, failovers>>

FailRelease(r) ==
  /\ pc[r] = "quarantined"
  /\ Published(r)
  /\ Release(r, Upstream(r))
  /\ Observe(r)
  /\ Goto(r, "failover")
  /\ UNCHANGED <<alias, route, old, attempted, canceled, err, status, result,
                 written, failovers>>

(* Reserve again, outside any reservation: other handlers may come first.  *)
FailOver(r, i) ==
  /\ pc[r] = "failover"
  /\ Published(r)
  /\ Reserve(alias[r], attempted[r], i)
  /\ route' = [route EXCEPT ![r] = i]
  /\ attempted' = [attempted EXCEPT ![r] = @ \cup {i}]
  /\ err' = [err EXCEPT ![r] = "none"]
  /\ failovers' = [failovers EXCEPT ![r] = @ + 1]
  /\ Goto(r, "send")
  /\ UNCHANGED <<alias, old, canceled, status, result, written, observed>>

FailFinally(r) ==
  /\ pc[r] = "failover"
  /\ Published(r)
  /\ ReserveNoRoute(alias[r], attempted[r])
  /\ Return(r, IF err[r] = "timeout" THEN "upstream_timeout"
                                     ELSE "upstream_unavailable", 1)
  /\ UNCHANGED <<attempted, observed, failovers>>

-----------------------------------------------------------------------------
(* attemptErr = nil: a response is open.                                   *)

Swap(r, i) ==
  /\ pc[r] = "responded"
  /\ status[r] \in retryableStatus
  /\ SwapReservation(r, alias[r], route[r], attempted[r], i)
  /\ old' = [old EXCEPT ![r] = route[r]]
  /\ route' = [route EXCEPT ![r] = i]
  /\ attempted' = [attempted EXCEPT ![r] = @ \cup {i}]
  /\ Goto(r, "swapped")
  /\ UNCHANGED <<alias, canceled, err, status, result, written, observed,
                 failovers>>

(* Mutants of SwapCloseOld: the old response body is left open; the        *)
(* failover is not counted.                                                *)
SwapLeavesOpen(r) ==
  /\ pc[r] = "swapped"
  /\ Published(r)
  /\ status' = [status EXCEPT ![r] = 0]
  /\ failovers' = [failovers EXCEPT ![r] = @ + 1]
  /\ Goto(r, "send")
  /\ UNCHANGED <<stateVars, alias, route, old, attempted, canceled, err, result,
                 written, observed>>
SwapCloseUncounted(r) ==
  /\ pc[r] = "swapped"
  /\ Published(r)
  /\ old' = [old EXCEPT ![r] = 0]
  /\ status' = [status EXCEPT ![r] = 0]
  /\ Goto(r, "send")
  /\ UNCHANGED <<stateVars, alias, route, attempted, canceled, err, result,
                 written, observed, failovers>>

(* After SwapReservation has returned: resp.Body.Close(), then Failover.   *)
SwapCloseOld(r) ==
  /\ pc[r] = "swapped"
  /\ Published(r)
  /\ old' = [old EXCEPT ![r] = 0]
  /\ status' = [status EXCEPT ![r] = 0]
  /\ failovers' = [failovers EXCEPT ![r] = @ + 1]
  /\ Goto(r, "send")
  /\ UNCHANGED <<stateVars, alias, route, attempted, canceled, err, result,
                 written, observed>>

(* The response is final: not retryable, or nowhere else to go.            *)
Final(r) ==
  /\ pc[r] = "responded"
  /\ IF status[r] \in retryableStatus
     THEN SwapNoRoute(alias[r], route[r], attempted[r])
     ELSE UNCHANGED stateVars

(* forward: an event stream and a writer that cannot flush.                *)
ForwardUnsupported(r) ==
  /\ Final(r)
  /\ result' = [result EXCEPT ![r] = "streaming_unsupported"]
  /\ Goto(r, "release")
  /\ UNCHANGED <<alias, route, old, attempted, canceled, err, status, written,
                 observed, failovers>>

(* forward: WriteHeader panics.  The handler's goroutine unwinds: the body *)
(* is closed by forward's defer, Serve's Release is no defer and not run.  *)
ForwardPanics(r) ==
  /\ Final(r)
  /\ status[r] < 100
  /\ Return(r, "panicked", 0)
  /\ UNCHANGED <<attempted, observed, failovers>>

(* forward: copy the headers and WriteHeader; the response is committed.   *)
ForwardCommit(r) ==
  /\ Final(r)
  /\ status[r] >= 100
  /\ result' = [result EXCEPT ![r] = "forwarded"]
  /\ written' = [written EXCEPT ![r] = @ + 1]
  /\ Goto(r, "relay")
  /\ UNCHANGED <<alias, route, old, attempted, canceled, err, status, observed,
                 failovers>>

(* Mutant of RelayEnds: a broken relay is treated as a failed attempt.     *)
RelayRetries(r) ==
  /\ pc[r] = "relay"
  /\ err' = [err EXCEPT ![r] = "transport"]
  /\ Goto(r, "failed")
  /\ UNCHANGED <<stateVars, alias, route, old, attempted, canceled, status,
                 result, written, observed, failovers>>

(* relay returns, for whatever reason: end of body, read error, idle       *)
(* timeout, or a client that is gone; the body is closed.                  *)
RelayEnds(r) ==
  /\ pc[r] = "relay"
  /\ Goto(r, "release")
  /\ UNCHANGED <<stateVars, alias, route, old, attempted, canceled, err, status,
                 result, written, observed, failovers>>

(* Serve's last Release, and handleChat's writeError when there is one.    *)
ForwardRelease(r) ==
  /\ pc[r] = "release"
  /\ Release(r, Upstream(r))
  /\ Return(r, result[r], IF result[r] = "forwarded" THEN 0 ELSE 1)
  /\ UNCHANGED <<attempted, observed, failovers>>

-----------------------------------------------------------------------------
(* The client's part, and the upstream's choice of when a body ends.       *)
ClientStep(r) ==
  \/ \E n \in Names : \/ ServeUnknownAlias(r, n)
                      \/ ServeNoRoute(r, n)
                      \/ n \in Aliases /\ \E i \in RouteIds(n) : ServeReserve(r, n, i)
  \/ ClientLeaves(r)
  \/ RelayEnds(r)

(* The handler's part, the return of client.Do included.                   *)
HandlerStep(r) ==
  \/ AttemptSend(r)
  \/ \E e \in Errors \ {"none"} : AttemptFails(r, e)
  \/ \E s \in Statuses : AttemptResponds(r, s)
  \/ FailCanceled(r)
  \/ FailQuarantine(r)
  \/ FailRelease(r)
  \/ pc[r] = "failover" /\ \E i \in RouteIds(alias[r]) : FailOver(r, i)
  \/ FailFinally(r)
  \/ pc[r] = "responded" /\ \E i \in RouteIds(alias[r]) : Swap(r, i)
  \/ SwapCloseOld(r)
  \/ ForwardUnsupported(r)
  \/ ForwardPanics(r)
  \/ ForwardCommit(r)
  \/ ForwardRelease(r)
  \/ Publish(r) /\ UNCHANGED handlerVars
=============================================================================
