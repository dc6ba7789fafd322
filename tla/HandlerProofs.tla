---------------------------- MODULE HandlerProofs ---------------------------
(***************************************************************************)
(* Theorems about single requests on their way through Serve, for every    *)
(* configuration and whatever the other handlers and the health loops do.  *)
(***************************************************************************)
EXTENDS RouterProofs

(* What is known of a handler from the point it has reached: an attempt    *)
(* that has failed has an error, and only a swap leaves a response open.   *)
AtPoint(r) ==
  /\ pc[r] = "failed" => err[r] # "none"
  /\ old[r] # 0 => pc[r] = "swapped"

(* The routes tried so far are routes of the alias, the current one among  *)
(* them; each but one that is still running has been observed, and each    *)
(* but the first was a failover.                                           *)
Counted(r) ==
  /\ IsFiniteSet(attempted[r])
  /\ pc[r] # "idle" =>
       /\ route[r] \in attempted[r]
       /\ attempted[r] \subseteq RouteIds(alias[r])
       /\ Cardinality(attempted[r]) = Attempts(r)
       /\ Cardinality(attempted[r]) =
            failovers[r] + IF pc[r] = "swapped" THEN 2 ELSE 1

(* What has been written downstream, and what is still to be.              *)
Answering(r) ==
  /\ pc[r] \notin {"idle", "relay", "release"} => written[r] = 0 /\ result[r] = "none"
  /\ pc[r] \in {"relay", "release"} =>
       \/ written[r] = 1 /\ result[r] = "forwarded" /\ status[r] >= 100
       \/ pc[r] = "release" /\ written[r] = 0 /\ result[r] = "streaming_unsupported"

(* What is left of a request that has ended.                               *)
Finished(r) ==
  pc[r] = "idle" =>
    /\ written[r] <= 1
    /\ result[r] # "none" =>
         /\ written[r] = IF result[r] \in {"client_closed", "panicked"} THEN 0 ELSE 1
         /\ observed[r] = Cardinality(attempted[r])
         /\ observed[r] > 0 => failovers[r] = observed[r] - 1

Sound(r) == AtPoint(r) /\ Counted(r) /\ Answering(r) /\ Finished(r)

ServeInv == \A r \in Requests : Sound(r)

-----------------------------------------------------------------------------
(* A handler changes nobody's variables but its own.                       *)
Untouched(q) ==
  /\ pc'[q] = pc[q] /\ alias'[q] = alias[q] /\ route'[q] = route[q]
  /\ old'[q] = old[q] /\ attempted'[q] = attempted[q] /\ canceled'[q] = canceled[q]
  /\ err'[q] = err[q] /\ status'[q] = status[q] /\ result'[q] = result[q]
  /\ written'[q] = written[q] /\ observed'[q] = observed[q]
  /\ failovers'[q] = failovers[q]

LEMMA ReturnOthers ==
  ASSUME Typed, NEW r \in Requests, NEW q \in Requests, q # r,
         NEW code, NEW headers, Return(r, code, headers), UNCHANGED <<attempted, failovers>>,
         UNCHANGED observed \/ Observe(r)
  PROVE  Untouched(q)
  BY DEF Typed, TypeOK, ProxyTypeOK, Return, Goto, Observe, Untouched

LEMMA OthersUntouched ==
  ASSUME Typed, NEW r \in Requests, NEW q \in Requests, q # r,
         ClientStep(r) \/ HandlerStep(r)
  PROVE  Untouched(q)
  <1> USE DEF Typed, TypeOK, ProxyTypeOK
  <1>1. CASE ClientStep(r)
    <2>1. ASSUME NEW n \in Names, ServeUnknownAlias(r, n) \/ ServeNoRoute(r, n)
          PROVE  Untouched(q)
      BY <2>1 DEF ServeUnknownAlias, ServeNoRoute, Turned, Untouched
    <2>2. ASSUME NEW n, NEW i, ServeReserve(r, n, i) PROVE Untouched(q)
      BY <2>2 DEF ServeReserve, Goto, Untouched
    <2>3. CASE ClientLeaves(r) \/ RelayEnds(r)
      BY <2>3 DEF ClientLeaves, RelayEnds, Goto, Untouched
    <2> QED
      BY <1>1, <2>1, <2>2, <2>3 DEF ClientStep
  <1>2. CASE HandlerStep(r)
    <2>1. CASE \/ AttemptSend(r)
               \/ \E e \in Errors : AttemptFails(r, e)
               \/ \E s \in Statuses : AttemptResponds(r, s)
      BY <2>1 DEF AttemptSend, AttemptFails, AttemptResponds, AttemptUnchanged, Observe,
                  Goto, Untouched
    <2>2. CASE FailCanceled(r) \/ FailFinally(r) \/ ForwardPanics(r) \/ ForwardRelease(r)
      BY <2>2, ReturnOthers DEF FailCanceled, FailFinally, ForwardPanics, ForwardRelease
    <2>3. CASE FailQuarantine(r) \/ FailRelease(r)
      BY <2>3 DEF FailQuarantine, FailRelease, Observe, Goto, Untouched
    <2>4. ASSUME NEW i, FailOver(r, i) \/ Swap(r, i) PROVE Untouched(q)
      BY <2>4 DEF FailOver, Swap, Goto, Untouched
    <2>5. CASE SwapCloseOld(r)
      BY <2>5 DEF SwapCloseOld, Goto, Untouched
    <2>6. CASE ForwardUnsupported(r) \/ ForwardCommit(r)
      BY <2>6 DEF ForwardUnsupported, ForwardCommit, Goto, Untouched
    <2>7. CASE Publish(r) /\ UNCHANGED handlerVars
      BY <2>7 DEF handlerVars, Untouched
    <2> QED
      BY <1>2, <2>1, <2>2, <2>3, <2>4, <2>5, <2>6, <2>7 DEF HandlerStep
  <1> QED
    BY <1>1, <1>2

LEMMA UntouchedSound ==
  ASSUME NEW q \in Requests, Sound(q), Untouched(q)
  PROVE  Sound(q)'
  BY DEF Sound, AtPoint, Counted, Attempts, Answering, Finished, Untouched, RouteIds

-----------------------------------------------------------------------------
(* The attempted set grows by routes that were not in it.                  *)
LEMMA OneMoreRoute ==
  ASSUME NEW S, IsFiniteSet(S), NEW x, x \notin S
  PROVE  /\ IsFiniteSet(S \cup {x})
         /\ Cardinality(S \cup {x}) = Cardinality(S) + 1
         /\ Cardinality(S) \in Nat
  BY FS_AddElement, FS_CardinalityType

(* The counters of a request are naturals.                                 *)
LEMMA HandlerNumbers ==
  ASSUME Typed, NEW r \in Requests
  PROVE  /\ observed[r] \in Nat /\ failovers[r] \in Nat /\ written[r] \in Nat
         /\ pc[r] \in Points /\ status[r] \in Nat
  <1>1. status[r] \in Statuses \cup {0}
    BY DEF Typed, TypeOK, ProxyTypeOK
  <1>2. \A s \in Statuses : s \in Nat
    BY StatusAssumption DEF StatusAssumption
  <1>3. status[r] \in Nat
    BY <1>1, <1>2
  <1> QED
    BY <1>3 DEF Typed, TypeOK, ProxyTypeOK

LEMMA ClientSound ==
  ASSUME Typed, NEW r \in Requests, Sound(r), ClientStep(r)
  PROVE  Sound(r)'
  <1> USE DEF Typed, TypeOK, ProxyTypeOK
  <1>1. ASSUME NEW n \in Names, ServeUnknownAlias(r, n) \/ ServeNoRoute(r, n)
        PROVE  Sound(r)'
    <2>1. /\ pc[r] = "idle" /\ pc'[r] = "idle" /\ old'[r] = old[r]
          /\ attempted'[r] = {} /\ observed'[r] = 0 /\ failovers'[r] = 0
          /\ result'[r] \in {"model_not_found", "no_route_available"} /\ written'[r] = 1
      BY <1>1 DEF ServeUnknownAlias, ServeNoRoute, Turned
    <2>2. IsFiniteSet(attempted'[r]) /\ Cardinality(attempted'[r]) = 0
      BY <2>1, FS_EmptySet
    <2> QED
      BY <2>1, <2>2 DEF Sound, AtPoint, Counted, Answering, Finished
  <1>2. ASSUME NEW n \in Aliases, NEW i \in RouteIds(n), ServeReserve(r, n, i)
        PROVE  Sound(r)'
    <2>1. /\ pc[r] = "idle" /\ pc'[r] = "send" /\ old'[r] = old[r]
          /\ attempted'[r] = {i} /\ observed'[r] = 0 /\ failovers'[r] = 0
          /\ route'[r] = i /\ alias'[r] = n
          /\ result'[r] = "none" /\ written'[r] = 0
      BY <1>2 DEF ServeReserve, Goto
    <2>2. IsFiniteSet(attempted'[r]) /\ Cardinality(attempted'[r]) = 1
      <3>1. IsFiniteSet({i}) /\ Cardinality({i}) = 1
        BY FS_Singleton, Zenon
      <3> QED
        BY <2>1, <3>1
    <2>3. Counted(r)'
      BY <2>1, <2>2 DEF Counted, Attempts, Unobserved, RouteIds
    <2> QED
      BY <2>1, <2>3 DEF Sound, AtPoint, Answering, Finished
  <1>3. CASE ClientLeaves(r) \/ RelayEnds(r)
    <2>1. UNCHANGED <<alias, route, old, attempted, err, status, result, written,
                      observed, failovers>>
      BY <1>3 DEF ClientLeaves, RelayEnds
    <2>2. pc'[r] = pc[r] \/ (pc[r] = "relay" /\ pc'[r] = "release")
      BY <1>3 DEF ClientLeaves, RelayEnds, Goto
    <2>3. Counted(r)'
      BY <2>1, <2>2 DEF Sound, Counted, Attempts, Unobserved, RouteIds
    <2> QED
      BY <2>1, <2>2, <2>3 DEF Sound, AtPoint, Answering, Finished
  <1> QED
    BY <1>1, <1>2, <1>3 DEF ClientStep

(* Serve returns with everything it attempted observed.                    *)
LEMMA ReturnSound ==
  ASSUME Typed, NEW r \in Requests, Sound(r), pc[r] # "idle",
         NEW code, NEW headers, Return(r, code, headers), code # "none",
         UNCHANGED <<attempted, failovers>>, pc[r] # "swapped",
         IF pc[r] \in Unobserved THEN Observe(r) ELSE UNCHANGED observed,
         written[r] + headers = IF code \in {"client_closed", "panicked"} THEN 0 ELSE 1
  PROVE  Sound(r)'
  <1> USE DEF Typed, TypeOK, ProxyTypeOK
  <1>1. /\ pc'[r] = "idle" /\ old'[r] = old[r] /\ attempted'[r] = attempted[r]
        /\ failovers'[r] = failovers[r] /\ result'[r] = code
        /\ written'[r] = written[r] + headers
      BY DEF Return, Goto
  <1>2. observed'[r] = Cardinality(attempted[r])
    BY HandlerNumbers DEF Observe, Sound, Counted, Attempts
  <1>3. Cardinality(attempted[r]) = failovers[r] + 1
    BY DEF Sound, Counted
  <1>4. old'[r] = 0
    BY <1>1 DEF Sound, AtPoint
  <1> QED
    BY <1>1, <1>2, <1>3, <1>4, HandlerNumbers DEF Sound, AtPoint, Counted, Answering, Finished

LEMMA HandlerSound ==
  ASSUME Typed, NEW r \in Requests, Sound(r), HandlerStep(r)
  PROVE  Sound(r)'
  <1> USE DEF Typed, TypeOK, ProxyTypeOK
  <1>1. CASE AttemptSend(r) \/ \E e \in Errors \ {"none"} : AttemptFails(r, e)
    <2>1. /\ pc[r] \in {"send", "await"} /\ pc'[r] \in {"await", "failed"}
          /\ pc'[r] = "failed" => err'[r] # "none"
          /\ UNCHANGED <<alias, route, old, attempted, status, result, written,
                         observed, failovers>>
      BY <1>1 DEF AttemptSend, AttemptFails, AttemptUnchanged, Goto
    <2> QED
      BY <2>1 DEF Sound, AtPoint, Counted, Attempts, Unobserved, RouteIds, Answering, Finished
  <1>2. ASSUME NEW s \in Statuses, AttemptResponds(r, s) PROVE Sound(r)'
    <2>1. /\ pc[r] = "await" /\ pc'[r] = "responded" /\ observed'[r] = observed[r] + 1
          /\ UNCHANGED <<alias, route, old, attempted, err, result, written, failovers>>
      BY <1>2 DEF AttemptResponds, AttemptUnchanged, Observe, Goto
    <2> QED
      BY <2>1, HandlerNumbers
         DEF Sound, AtPoint, Counted, Attempts, Unobserved, RouteIds, Answering, Finished
  <1>3. CASE FailCanceled(r)
    BY <1>3, ReturnSound DEF FailCanceled, Unobserved, Sound, Answering
  <1>4. CASE FailQuarantine(r)
    <2>1. /\ pc[r] = "failed" /\ pc'[r] = "quarantined"
          /\ UNCHANGED <<alias, route, old, attempted, err, status, result, written,
                         observed, failovers>>
      BY <1>4 DEF FailQuarantine, Goto
    <2> QED
      BY <2>1 DEF Sound, AtPoint, Counted, Attempts, Unobserved, RouteIds, Answering, Finished
  <1>5. CASE FailRelease(r)
    <2>1. /\ pc[r] = "quarantined" /\ pc'[r] = "failover"
          /\ observed'[r] = observed[r] + 1
          /\ UNCHANGED <<alias, route, old, attempted, err, status, result, written,
                         failovers>>
      BY <1>5 DEF FailRelease, Observe, Goto
    <2> QED
      BY <2>1, HandlerNumbers
         DEF Sound, AtPoint, Counted, Attempts, Unobserved, RouteIds, Answering, Finished
  <1>6. ASSUME pc[r] = "failover", NEW i \in RouteIds(alias[r]), FailOver(r, i)
        PROVE  Sound(r)'
    <2>1. i \notin attempted[r]
      BY <1>6, SelectedHasRoom DEF FailOver, Reserve
    <2>2. /\ pc'[r] = "send" /\ route'[r] = i /\ alias'[r] = alias[r]
          /\ attempted'[r] = attempted[r] \cup {i}
          /\ failovers'[r] = failovers[r] + 1
          /\ UNCHANGED <<old, result, written, observed>>
      BY <1>6 DEF FailOver, Goto
    <2>3. /\ IsFiniteSet(attempted'[r])
          /\ Cardinality(attempted'[r]) = Cardinality(attempted[r]) + 1
      BY <2>1, <2>2, OneMoreRoute DEF Sound, Counted
    <2>4. Counted(r)'
      BY <1>6, <2>2, <2>3, HandlerNumbers DEF Sound, Counted, Attempts, Unobserved, RouteIds
    <2> QED
      BY <1>6, <2>2, <2>4 DEF Sound, AtPoint, Answering, Finished
  <1>7. CASE FailFinally(r)
    BY <1>7, ReturnSound DEF FailFinally, Unobserved, Sound, Answering
  <1>8. ASSUME pc[r] = "responded", NEW i \in RouteIds(alias[r]), Swap(r, i)
        PROVE  Sound(r)'
    <2>1. i \notin attempted[r]
      BY <1>8, SelectedHasRoom DEF Swap, SwapReservation
    <2>2. /\ pc'[r] = "swapped" /\ route'[r] = i /\ alias'[r] = alias[r]
          /\ attempted'[r] = attempted[r] \cup {i}
          /\ UNCHANGED <<err, result, written, observed, failovers>>
      BY <1>8 DEF Swap, Goto
    <2>3. /\ IsFiniteSet(attempted'[r])
          /\ Cardinality(attempted'[r]) = Cardinality(attempted[r]) + 1
      BY <2>1, <2>2, OneMoreRoute DEF Sound, Counted
    <2>4. Counted(r)'
      BY <1>8, <2>2, <2>3, HandlerNumbers DEF Sound, Counted, Attempts, Unobserved, RouteIds
    <2> QED
      BY <1>8, <2>2, <2>4 DEF Sound, AtPoint, Answering, Finished
  <1>9. CASE SwapCloseOld(r)
    <2>1. /\ pc[r] = "swapped" /\ pc'[r] = "send" /\ old'[r] = 0
          /\ failovers'[r] = failovers[r] + 1
          /\ UNCHANGED <<alias, route, attempted, err, result, written, observed>>
      BY <1>9 DEF SwapCloseOld, Goto
    <2> QED
      BY <2>1, HandlerNumbers
         DEF Sound, AtPoint, Counted, Attempts, Unobserved, RouteIds, Answering, Finished
  <1>10. CASE ForwardUnsupported(r)
    <2>1. /\ pc[r] = "responded" /\ pc'[r] = "release"
          /\ result'[r] = "streaming_unsupported"
          /\ UNCHANGED <<alias, route, old, attempted, err, status, written, observed,
                         failovers>>
      BY <1>10 DEF ForwardUnsupported, Final, Goto
    <2> QED
      BY <2>1 DEF Sound, AtPoint, Counted, Attempts, Unobserved, RouteIds, Answering, Finished
  <1>11. CASE ForwardPanics(r)
    BY <1>11, ReturnSound DEF ForwardPanics, Final, Unobserved, Sound, Answering
  <1>12. CASE ForwardCommit(r)
    <2>1. /\ pc[r] = "responded" /\ pc'[r] = "relay" /\ status[r] >= 100
          /\ result'[r] = "forwarded" /\ written'[r] = written[r] + 1
          /\ UNCHANGED <<alias, route, old, attempted, err, status, observed, failovers>>
      BY <1>12 DEF ForwardCommit, Final, Goto
    <2> QED
      BY <2>1 DEF Sound, AtPoint, Counted, Attempts, Unobserved, RouteIds, Answering, Finished
  <1>13. CASE ForwardRelease(r)
    BY <1>13, ReturnSound, HandlerNumbers DEF ForwardRelease, Unobserved, Sound, Answering
  <1>14. CASE Publish(r) /\ UNCHANGED handlerVars
    BY <1>14, UntouchedSound DEF handlerVars, Untouched
  <1> QED
    BY <1>1, <1>2, <1>3, <1>4, <1>5, <1>6, <1>7, <1>8, <1>9, <1>10, <1>11, <1>12,
       <1>13, <1>14 DEF HandlerStep

-----------------------------------------------------------------------------
LEMMA ServeInvInit == Init => ServeInv
  <1> SUFFICES ASSUME Init, NEW r \in Requests PROVE Sound(r)
    BY DEF ServeInv
  <1>1. /\ pc[r] = "idle" /\ old[r] = 0 /\ attempted[r] = {} /\ result[r] = "none"
        /\ written[r] = 0
    BY DEF Init, ProxyInit
  <1> QED
    BY <1>1, FS_EmptySet DEF Sound, AtPoint, Counted, Answering, Finished

LEMMA ServeInvNext == Typed /\ ServeInv /\ [Next]_vars => ServeInv'
  <1> SUFFICES ASSUME Typed, ServeInv, [Next]_vars, NEW q \in Requests PROVE Sound(q)'
    BY DEF ServeInv
  <1>0. Sound(q)
    BY DEF ServeInv
  <1>1. ASSUME NEW r \in Requests, ClientStep(r) \/ HandlerStep(r) PROVE Sound(q)'
    <2>1. CASE q = r
      BY <1>0, <1>1, <2>1, ClientSound, HandlerSound
    <2>2. CASE q # r
      BY <1>0, <1>1, <2>2, OthersUntouched, UntouchedSound
    <2> QED
      BY <2>1, <2>2
  <1>2. CASE UNCHANGED handlerVars
    <2>1. Untouched(q)
      BY <1>2 DEF handlerVars, Untouched
    <2> QED
      BY <1>0, <2>1, UntouchedSound
  <1>3. UNCHANGED vars => UNCHANGED handlerVars
    BY DEF vars
  <1> QED
    BY <1>1, <1>2, <1>3 DEF Next

LEMMA ServeInvAlways == Spec => []ServeInv
  BY ServeInvInit, ServeInvNext, TypedAlways, PTL DEF Spec

-----------------------------------------------------------------------------
(* proxy.go 97-99: for any number of concurrent requests, no upstream is   *)
(* contacted after a response header went out, and none goes out twice.    *)
THEOREM CommitIsFinal == Spec => []NoAttemptAfterCommit
  <1>1. Typed /\ ServeInv => NoAttemptAfterCommit
    BY HandlerNumbers DEF ServeInv, Sound, Answering, Finished, NoAttemptAfterCommit
  <1> QED
    BY <1>1, ServeInvAlways, TypedAlways, PTL

(* proxy.go 112-176: a finished request got one answer, or none for a      *)
(* reason, and the metrics count each of its attempts and failovers once.  *)
THEOREM FinishedAccounted == Spec => []FinishedRequestAccounted
  <1>1. Typed /\ ServeInv => FinishedRequestAccounted
    BY DEF ServeInv, Sound, Finished, FinishedRequestAccounted
  <1> QED
    BY <1>1, ServeInvAlways, TypedAlways, PTL

(* README "Bounded Failover": no request makes more attempts than its      *)
(* alias has routes, the running one included.                             *)
THEOREM AttemptsAreBounded == Spec => []AttemptsBounded
  <1>1. Typed /\ ServeInv => AttemptsBounded
    <2> SUFFICES ASSUME Typed, ServeInv, NEW r \in Requests, pc[r] # "idle"
                 PROVE  Attempts(r) <= Len(AliasRoutes[alias[r]])
      BY DEF AttemptsBounded
    <2> DEFINE n == Len(AliasRoutes[alias[r]])
    <2>1. Counted(r) /\ alias[r] \in Aliases
      BY DEF ServeInv, Sound, Typed, Routed
    <2>2. n \in Nat /\ RouteIds(alias[r]) = 1 .. n
      BY <2>1, ConfigAssumption DEF ConfigAssumption, RouteIds
    <2>3. attempted[r] \subseteq 1 .. n
      BY <2>1, <2>2 DEF Counted
    <2> HIDE DEF n
    <2>4. IsFiniteSet(1 .. n) /\ Cardinality(1 .. n) = n
      BY <2>2, FS_Interval
    <2>5. Cardinality(attempted[r]) <= n
      BY <2>3, <2>4, FS_Subset
    <2> QED
      BY <2>1, <2>5 DEF Counted, n
  <1> QED
    BY <1>1, ServeInvAlways, TypedAlways, PTL

(* proxy.go 159-161: whatever the upstreams answer, panics included, the   *)
(* exchanges open at a backend pass its max_inflight by at most one for    *)
(* each handler between its swap and the Close of the old response.        *)
THEOREM ExchangesAreBounded == Spec => []ExchangesBounded
  <1>1. Typed /\ ServeInv /\ ReservationsCovered /\ CapacityRespected => ExchangesBounded
    <2> SUFFICES ASSUME Typed, ServeInv, ReservationsCovered, CapacityRespected,
                        NEW b \in Backends
                 PROVE  Cardinality(OpenAt(b)) + Cardinality(LeftOpenAt(b))
                          <= MaxInflight[b] + Cardinality({r \in Requests : pc[r] = "swapped"})
      BY DEF ExchangesBounded
    <2> DEFINE S == {r \in Requests : pc[r] = "swapped"}
    <2>1. OpenAt(b) \subseteq Holders(b)
      BY DEF OpenAt, Holders, Holding
    <2>2. LeftOpenAt(b) \subseteq S
      BY DEF LeftOpenAt, ServeInv, Sound, AtPoint
    <2>3. IsFiniteSet(Holders(b)) /\ IsFiniteSet(S)
      BY FS_Subset, GoroutineAssumption DEF GoroutineAssumption, Holders
    <2> HIDE DEF S
    <2>4. /\ IsFiniteSet(OpenAt(b)) /\ Cardinality(OpenAt(b)) <= Cardinality(Holders(b))
          /\ IsFiniteSet(LeftOpenAt(b)) /\ Cardinality(LeftOpenAt(b)) <= Cardinality(S)
      BY <2>1, <2>2, <2>3, FS_Subset
    <2>5. Cardinality(Holders(b)) <= inflight[b] /\ inflight[b] <= MaxInflight[b]
      BY DEF ReservationsCovered, CapacityRespected
    <2>6. inflight[b] \in Nat /\ MaxInflight[b] \in Nat
      BY CapacityType DEF Typed, TypeOK, RoutingStateTypeOK
    <2>7. /\ Cardinality(OpenAt(b)) \in Nat /\ Cardinality(LeftOpenAt(b)) \in Nat
          /\ Cardinality(Holders(b)) \in Nat /\ Cardinality(S) \in Nat
      BY <2>3, <2>4, FS_CardinalityType
    <2>8. Cardinality(OpenAt(b)) + Cardinality(LeftOpenAt(b))
            <= MaxInflight[b] + Cardinality(S)
      BY <2>4, <2>5, <2>6, <2>7
    <2> QED
      BY <2>8 DEF S
  <1> QED
    BY <1>1, ServeInvAlways, CoveredHolds, CapacityHolds, TypedAlways, PTL

-----------------------------------------------------------------------------
(* Only a quarantine makes a handler's step change a health flag.          *)
LEMMA HandlerHealth ==
  ASSUME NEW r \in Requests, ClientStep(r) \/ HandlerStep(r)
  PROVE  FailQuarantine(r) \/ healthy' = healthy
  <1>1. ClientStep(r) => healthy' = healthy
    BY DEF ClientStep, ServeUnknownAlias, ServeNoRoute, ReserveNoRoute, ServeReserve,
           Reserve, ClientLeaves, RelayEnds, stateVars, flags
  <1>2. AttemptSend(r) \/ (\E e \in Errors : AttemptFails(r, e))
          \/ (\E s \in Statuses : AttemptResponds(r, s)) \/ SwapCloseOld(r)
        => healthy' = healthy
    BY DEF AttemptSend, AttemptFails, AttemptResponds, AttemptUnchanged, SwapCloseOld,
           stateVars
  <1>3. FailCanceled(r) \/ FailRelease(r) \/ FailFinally(r) \/ ForwardRelease(r)
        => healthy' = healthy
    BY DEF FailCanceled, FailRelease, FailFinally, ForwardRelease, Release,
           ReserveNoRoute, stateVars, flags
  <1>4. ASSUME NEW i, FailOver(r, i) \/ Swap(r, i) PROVE healthy' = healthy
    BY <1>4 DEF FailOver, Reserve, Swap, SwapReservation, flags
  <1>5. ForwardUnsupported(r) \/ ForwardPanics(r) \/ ForwardCommit(r)
        => healthy' = healthy
    BY DEF ForwardUnsupported, ForwardPanics, ForwardCommit, Final, SwapNoRoute, stateVars
  <1>6. Publish(r) => healthy' = healthy
    BY DEF Publish, flags
  <1> QED
    BY <1>1, <1>2, <1>3, <1>4, <1>5, <1>6 DEF HandlerStep

LEMMA QuarantineStep ==
  ASSUME Typed, ServeInv, Next, NEW b \in Backends, healthy[b], ~healthy'[b]
  PROVE  ReportsMissed(b) \/ QuarantinesFailed(b)
  <1>1. ASSUME NEW r \in Requests, ClientStep(r) \/ HandlerStep(r)
        PROVE  QuarantinesFailed(b)
    <2>1. FailQuarantine(r)
      BY <1>1, HandlerHealth
    <2>2. Upstream(r) = b
      BY <2>1 DEF FailQuarantine, SetHealth, Typed, TypeOK, RoutingStateTypeOK
    <2>3. pc[r] = "failed" /\ pc'[r] = "quarantined"
      BY <2>1 DEF FailQuarantine, Goto, Typed, TypeOK, ProxyTypeOK
    <2>4. err[r] \in Errors \ {"none", "canceled"} /\ ~canceled[r]
      BY <2>1, <2>3 DEF FailQuarantine, isCanceled, ServeInv, Sound, AtPoint, Typed,
                        TypeOK, ProxyTypeOK
    <2> QED
      BY <2>2, <2>3, <2>4 DEF QuarantinesFailed, Errors
  <1>2. ASSUME NEW c \in Backends, CheckerStep(c) PROVE ReportsMissed(b)
    <2>1. StartProbe(c) \/ (\E ok \in BOOLEAN : ProbeReturns(c, ok)) \/ Publish(c)
          => healthy' = healthy
      BY DEF StartProbe, ProbeReturns, Publish, stateVars, flags
    <2>2. ReportHealth(c)
      BY <1>2, <2>1 DEF CheckerStep
    <2>3. c = b /\ loop[b] # "passed"
      BY <2>2 DEF ReportHealth, SetHealth, Typed, TypeOK, RoutingStateTypeOK
    <2> QED
      BY <2>2, <2>3 DEF ReportHealth, ReportsMissed, Typed, TypeOK, HealthCheckerTypeOK
  <1> QED
    BY <1>1, <1>2 DEF Next

(* proxy.go 120-121: a healthy backend is quarantined only on evidence: a  *)
(* missed probe, or a transport failure that was no cancellation.          *)
THEOREM QuarantineIsJustified == Spec => QuarantineJustified
  <1>1. Typed /\ ServeInv /\ [Next]_vars =>
          [\A b \in Backends : healthy[b] /\ ~healthy'[b] =>
                               ReportsMissed(b) \/ QuarantinesFailed(b)]_vars
    BY QuarantineStep
  <1> QED
    BY <1>1, ServeInvAlways, TypedAlways, PTL DEF Spec, QuarantineJustified
=============================================================================
