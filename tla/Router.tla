------------------------------- MODULE Router -------------------------------
(***************************************************************************)
(* The running router: any number of Proxy.Serve handlers and one health   *)
(* loop per backend over the shared routing state.                         *)
(***************************************************************************)
EXTENDS Proxy, HealthChecker

vars == <<stateVars, handlerVars, loop>>

Init ==
  /\ RoutingStateInit
  /\ ProxyInit
  /\ HealthCheckerInit

Next ==
  \/ \E r \in Requests : ClientStep(r) /\ UNCHANGED loop
  \/ \E r \in Requests : HandlerStep(r) /\ UNCHANGED loop
  \/ \E b \in Backends : CheckerStep(b) /\ UNCHANGED handlerVars

Spec == Init /\ [][Next]_vars

(* The Go scheduler runs every goroutine that can run, and every probe     *)
(* ends by its timeout at the latest.  Nothing is assumed of clients, of   *)
(* how long an upstream goes on streaming a body, nor of the return of     *)
(* client.Do unless its context has ended.                                 *)
Fairness ==
  /\ \A r \in Requests : WF_vars(~Awaiting(r) /\ HandlerStep(r) /\ UNCHANGED loop)
  /\ \A b \in Backends : WF_vars(CheckerStep(b) /\ UNCHANGED handlerVars)

FairSpec == Spec /\ Fairness

-----------------------------------------------------------------------------
(* Type correctness of the whole router.                                   *)
TypeOK == RoutingStateTypeOK /\ ProxyTypeOK /\ HealthCheckerTypeOK

(* The handlers that own a reservation on b, by where they are in Serve.   *)
Holders(b) == {r \in Requests : pc[r] \in Holding /\ Upstream(r) = b}

(* state.go 42-44, ARCHITECTURE.md "Capacity Reservation": however Reserve,*)
(* SwapReservation and Release interleave, no in-flight counter passes its *)
(* backend's max_inflight.                                                 *)
CapacityRespected == \A b \in Backends : inflight[b] <= MaxInflight[b]

(* state.go 217-218: every reservation is released or transferred exactly  *)
(* once.  The counter of a backend is the number of handlers that own a    *)
(* reservation on it: none leaks on any path out of Serve, none is given   *)
(* back twice, and Release's test for inflight > 0 never hides an error.   *)
(* It holds when all statuses are Writable, and not otherwise: a panic in  *)
(* WriteHeader skips the Release.                                          *)
ReservationsAccounted ==
  \A b \in Backends : inflight[b] = Cardinality(Holders(b))

(* A panic in WriteHeader leaks a slot, but nothing else goes wrong: each  *)
(* handler that owns a reservation is counted, whatever happened before,   *)
(* so max_inflight always bounds the requests that are really running.     *)
ReservationsCovered ==
  \A b \in Backends : Cardinality(Holders(b)) <= inflight[b]

(* A handler that is serving a request works on a route of its alias, and  *)
(* one that has a response has its status.                                 *)
Routed ==
  \A r \in Requests :
    /\ pc[r] # "idle" => /\ alias[r] \in Aliases
                         /\ route[r] \in RouteIds(alias[r])
    /\ pc[r] = "responded" => status[r] \in Statuses

(* proxy.go 159-161: a swap gives the old slot away before the old response *)
(* is closed.  Even so the requests open at an upstream pass max_inflight   *)
(* by at most one for each handler that is between the two: no response of *)
(* an earlier attempt stays open.                                          *)
OpenAt(b) == {r \in Requests : pc[r] \in {"await", "responded", "relay"}
                               /\ Upstream(r) = b}
LeftOpenAt(b) == {r \in Requests : old[r] # 0 /\ BackendOf(alias[r], old[r]) = b}
ExchangesBounded ==
  \A b \in Backends :
    Cardinality(OpenAt(b)) + Cardinality(LeftOpenAt(b))
      <= MaxInflight[b] + Cardinality({r \in Requests : pc[r] = "swapped"})

(* What an exact count rests on, inductive as long as nothing panics.      *)
IndInv == TypeOK /\ Routed /\ ReservationsAccounted /\ CapacityRespected

(* proxy.go 97-99: an upstream is contacted, or about to be, only while    *)
(* nothing has been written downstream; and no request ever gets a second  *)
(* response header.                                                        *)
NoAttemptAfterCommit ==
  \A r \in Requests :
    /\ pc[r] \notin {"idle", "relay", "release"} => written[r] = 0
    /\ written[r] <= 1

(* A finished request got exactly one response header, or none when the    *)
(* client left (499) or WriteHeader panicked, and its attempts add up in   *)
(* the metrics: one observation per attempted route, one failover for each *)
(* after the first.                                                        *)
FinishedRequestAccounted ==
  \A r \in Requests :
    pc[r] = "idle" /\ result[r] # "none" =>
      LET n == Cardinality(attempted[r]) IN
      /\ written[r] = IF result[r] \in {"client_closed", "panicked"} THEN 0 ELSE 1
      /\ observed[r] = n
      /\ n > 0 => failovers[r] = n - 1

(* README "Bounded Failover": however statuses, transport errors and other *)
(* handlers mix, a request makes no more attempts than its alias has       *)
(* routes, the one that is running and not observed yet included.          *)
Unobserved == {"send", "await", "failed", "quarantined", "swapped"}
Attempts(r) == observed[r] + IF pc[r] \in Unobserved THEN 1 ELSE 0
AttemptsBounded ==
  \A r \in Requests :
    pc[r] # "idle" => Attempts(r) <= Len(AliasRoutes[alias[r]])

(* proxy.go 120-121, ARCHITECTURE.md "Backend Health": a healthy backend   *)
(* becomes unhealthy only by a probe that missed, or by an attempt on it   *)
(* that failed in transport for a client that was still there.  No         *)
(* cancellation and no HTTP status quarantines it.                         *)
ReportsMissed(b) == loop[b] = "missed" /\ loop'[b] = "waiting"
QuarantinesFailed(b) ==
  \E r \in Requests : /\ pc[r] = "failed" /\ pc'[r] = "quarantined"
                      /\ Upstream(r) = b
                      /\ err[r] \in {"transport", "timeout"}
                      /\ ~canceled[r]
QuarantineJustified ==
  [][\A b \in Backends : healthy[b] /\ ~healthy'[b] =>
                          ReportsMissed(b) \/ QuarantinesFailed(b)]_vars

(* metrics.go 79, 120: the in-flight gauge exports the reservation count.  *)
(* Whenever no gauge write is pending it equals the counter.  It does with *)
(* one handler; with two, the writes that Release and SwapReservation make *)
(* after the unlock can land in the wrong order.                           *)
Settled == \A g \in Goroutines : Published(g)
InflightGaugeSettled == Settled => gauge["inflight"] = inflight

(* The counters implement the slots: reserving, swapping and releasing are *)
(* single steps of CapacitySlots, and everything else is invisible to it.  *)
NoSlot == "no slot"   \* not a backend name: names contain no blank
ASSUME NoSlotAssumption == NoSlot \notin Backends

slots == [r \in Requests |-> IF pc[r] \in Holding THEN Upstream(r) ELSE NoSlot]
usables == {b \in Backends : Usable(b)}
Slots == INSTANCE CapacitySlots
           WITH Capacity <- MaxInflight, None <- NoSlot,
                slot <- slots, usable <- usables
ImplementsSlots == Slots!Spec

-----------------------------------------------------------------------------
(* Liveness, under FairSpec.                                               *)

(* README "Bounded Failover": every admitted request is answered - an      *)
(* error is returned or a response committed - after finitely many         *)
(* attempts, whatever the upstreams answer and whatever else is running.   *)
(* The one exception is an upstream that keeps a single client.Do for      *)
(* ever, and only while the client waits for it.                           *)
EventuallyAnswered ==
  \A r \in Requests :
    pc[r] = "send" ~> (pc[r] \in {"idle", "relay"} \/ []Awaiting(r))

(* proxy.go 127-129: a quarantined backend is restored by health probes.   *)
(* If from some point on no probe of b misses and no attempt on b fails in *)
(* transport for a client that is still there, b ends up usable for good.  *)
Trouble(b) ==
  \/ loop[b] = "missed"
  \/ \E r \in Requests : /\ \/ pc[r] = "failed" /\ ~isCanceled(r)
                            \/ pc[r] = "quarantined"
                         /\ Upstream(r) = b
EventuallyRestored ==
  \A b \in Backends : <>[]~Trouble(b) => <>[]Usable(b)

(* state.go 103-105: SetHealth publishes the health gauge after the unlock, *)
(* so a report and a quarantine can publish in the wrong order.  The gauge *)
(* does not stay wrong: once b is in no trouble any more it settles on 1.  *)
HealthGaugeCorrected ==
  \A b \in Backends : <>[]~Trouble(b) => <>[](gauge["healthy"][b] = 1)

(* README "Health & Readiness": once no backend is in trouble any more the *)
(* router becomes ready and stays ready, however saturated it is.          *)
EventuallyReady ==
  (\A b \in Backends : <>[]~Trouble(b)) => <>[]Ready
=============================================================================
