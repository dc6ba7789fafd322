---------------------------- MODULE RouterProofs ----------------------------
(***************************************************************************)
(* Theorems about Router, for every configuration, every capacity and any  *)
(* number of concurrent requests.                                          *)
(***************************************************************************)
EXTENDS Router, TLAPS, FiniteSetTheorems, WellFoundedInduction

-----------------------------------------------------------------------------
(* The operations of RoutingState keep its type.                           *)

(* Leaving a critical section with a sequence of gauge writes keeps pub    *)
(* well typed.                                                             *)
LEMMA PublishLaterType ==
  ASSUME RoutingStateTypeOK,
         NEW g \in Goroutines, NEW ps \in Seq(Publication), PublishLater(g, ps)
  PROVE  pub' \in [Goroutines -> Seq(Publication)]
  BY DEF RoutingStateTypeOK, PublishLater

(* The values that the operations publish are publications.                *)
LEMMA PublicationTypes ==
  ASSUME NEW b \in Backends
  PROVE  /\ \A n \in Nat : <<InflightPub(b, n)>> \in Seq(Publication)
         /\ \A h \in BOOLEAN : <<HealthyPub(b, h)>> \in Seq(Publication)
  BY DEF InflightPub, HealthyPub, Publication, Gauges

(* A route of a configured alias names a configured backend.               *)
LEMMA RouteBackend ==
  ASSUME NEW a \in Aliases, NEW i \in RouteIds(a)
  PROVE  /\ i \in Nat \ {0}
         /\ BackendOf(a, i) \in Backends
         /\ PriorityOf(a, i) \in Nat
  <1>1. AliasRoutes[a] \in Seq(RouteConfig)
    BY ConfigAssumption DEF ConfigAssumption
  <1>2. i \in 1 .. Len(AliasRoutes[a]) /\ AliasRoutes[a][i] \in RouteConfig
    BY <1>1 DEF RouteIds
  <1> QED
    BY <1>2 DEF BackendOf, PriorityOf, RouteConfig

LEMMA SetHealthType ==
  ASSUME RoutingStateTypeOK, NEW g \in Goroutines, NEW b \in Backends,
         NEW h \in BOOLEAN, SetHealth(g, b, h)
  PROVE  RoutingStateTypeOK'
  <1>1. pub' \in [Goroutines -> Seq(Publication)]
    BY PublishLaterType, PublicationTypes DEF SetHealth
  <1> QED
    BY <1>1 DEF RoutingStateTypeOK, SetHealth

LEMMA ReserveType ==
  ASSUME RoutingStateTypeOK, NEW a \in Aliases, NEW i \in RouteIds(a),
         NEW tried, Reserve(a, tried, i)
  PROVE  RoutingStateTypeOK'
  <1>1. BackendOf(a, i) \in Backends
    BY RouteBackend
  <1>2. gauge' \in [Gauges -> [Backends -> Nat]]
    BY <1>1 DEF RoutingStateTypeOK, Reserve, Gauges
  <1> QED
    BY <1>1, <1>2 DEF RoutingStateTypeOK, Reserve, flags

LEMMA SwapReservationType ==
  ASSUME RoutingStateTypeOK, NEW g \in Goroutines, NEW a \in Aliases,
         NEW current \in RouteIds(a), NEW i \in RouteIds(a), NEW tried,
         SwapReservation(g, a, current, tried, i)
  PROVE  RoutingStateTypeOK'
  <1> DEFINE cb == BackendOf(a, current)
             sb == BackendOf(a, i)
  <1>1. cb \in Backends /\ sb \in Backends
    BY RouteBackend
  <1>2. inflight' \in [Backends -> Nat]
    <2>1. inflight \in [Backends -> Nat] /\ inflight[cb] > 0
      BY DEF RoutingStateTypeOK, SwapReservation
    <2>2. Freed(cb) \in [Backends -> Nat]
      BY <1>1, <2>1 DEF Freed
    <2>3. inflight' = [Freed(cb) EXCEPT ![sb] = Freed(cb)[sb] + 1]
      BY DEF SwapReservation
    <2> HIDE DEF cb, sb
    <2> QED
      BY <1>1, <2>2, <2>3
  <1>3. (IF cb # sb THEN <<InflightPub(cb, inflight'[cb])>> ELSE <<>>)
          \o <<InflightPub(sb, inflight'[sb])>> \in Seq(Publication)
    <2>1. /\ <<InflightPub(cb, inflight'[cb])>> \in Seq(Publication)
          /\ <<InflightPub(sb, inflight'[sb])>> \in Seq(Publication)
      BY <1>1, <1>2, PublicationTypes
    <2>2. <<>> \in Seq(Publication)
      OBVIOUS
    <2> HIDE DEF cb, sb
    <2> QED
      BY <2>1, <2>2
  <1>4. pub' \in [Goroutines -> Seq(Publication)]
    BY <1>3, PublishLaterType DEF SwapReservation
  <1> QED
    BY <1>2, <1>4 DEF RoutingStateTypeOK, SwapReservation, flags

LEMMA ReleaseType ==
  ASSUME RoutingStateTypeOK, NEW g \in Goroutines, NEW b \in Backends,
         Release(g, b)
  PROVE  RoutingStateTypeOK'
  <1>1. inflight' \in [Backends -> Nat]
    BY DEF RoutingStateTypeOK, Release
  <1>2. pub' \in [Goroutines -> Seq(Publication)]
    BY <1>1, PublishLaterType, PublicationTypes DEF Release
  <1> QED
    BY <1>1, <1>2 DEF RoutingStateTypeOK, Release, flags

LEMMA PublishType ==
  ASSUME RoutingStateTypeOK, NEW g \in Goroutines, Publish(g)
  PROVE  RoutingStateTypeOK'
  <1> DEFINE p == Head(pub[g])
  <1>1. pub[g] \in Seq(Publication) /\ pub[g] # <<>>
    BY DEF RoutingStateTypeOK, Publish, Published
  <1>2. p \in Publication /\ Tail(pub[g]) \in Seq(Publication)
    BY <1>1
  <1>3. p.gauge \in Gauges /\ p.backend \in Backends /\ p.value \in Nat
    BY <1>2 DEF Publication
  <1>4. gauge' \in [Gauges -> [Backends -> Nat]]
    BY <1>3 DEF RoutingStateTypeOK, Publish
  <1>5. pub' \in [Goroutines -> Seq(Publication)]
    BY <1>2 DEF RoutingStateTypeOK, Publish
  <1> QED
    BY <1>4, <1>5 DEF RoutingStateTypeOK, Publish, flags

-----------------------------------------------------------------------------
(* The steps of a handler keep its variables well typed and its route a    *)
(* route of its alias.                                                     *)

LEMMA ReturnType ==
  ASSUME ProxyTypeOK, Routed, NEW r \in Requests, NEW code \in Results,
         NEW headers \in Nat, Return(r, code, headers),
         attempted' \in [Requests -> SUBSET Nat],
         observed' \in [Requests -> Nat], failovers' \in [Requests -> Nat]
  PROVE  ProxyTypeOK' /\ Routed'
  <1>1. SomeName \in Names
    BY ConfigAssumption DEF ConfigAssumption, SomeName
  <1>2. ProxyTypeOK'
    <2>1. pc' \in [Requests -> Points]
      BY DEF ProxyTypeOK, Return, Goto, Points
    <2>2. alias' \in [Requests -> Names]
      BY <1>1 DEF ProxyTypeOK, Return
    <2>3. /\ route' \in [Requests -> Nat]
          /\ old' \in [Requests -> Nat]
          /\ canceled' \in [Requests -> BOOLEAN]
          /\ err' \in [Requests -> Errors]
          /\ status' \in [Requests -> Statuses \cup {0}]
          /\ result' \in [Requests -> Results]
          /\ written' \in [Requests -> Nat]
      BY DEF ProxyTypeOK, Return, Errors
    <2> QED
      BY <2>1, <2>2, <2>3 DEF ProxyTypeOK
  <1>3. Routed'
    BY DEF ProxyTypeOK, Routed, Return, Goto
  <1> QED
    BY <1>2, <1>3

LEMMA ClientTypes ==
  ASSUME ProxyTypeOK, Routed, RoutingStateTypeOK,
         NEW r \in Requests, ClientStep(r)
  PROVE  ProxyTypeOK' /\ Routed' /\ RoutingStateTypeOK'
  <1>1. ASSUME NEW m \in Names, ServeUnknownAlias(r, m)
        PROVE  ProxyTypeOK' /\ Routed' /\ RoutingStateTypeOK'
    BY <1>1 DEF ServeUnknownAlias, Turned, ProxyTypeOK, Routed,
                RoutingStateTypeOK, stateVars, Results
  <1>2. ASSUME NEW m \in Names, ServeNoRoute(r, m)
        PROVE  ProxyTypeOK' /\ Routed' /\ RoutingStateTypeOK'
    BY <1>2 DEF ServeNoRoute, ReserveNoRoute, Turned, ProxyTypeOK, Routed,
                RoutingStateTypeOK, stateVars, Results
  <1>3. ASSUME NEW m \in Aliases, NEW i \in RouteIds(m), ServeReserve(r, m, i)
        PROVE  ProxyTypeOK' /\ Routed' /\ RoutingStateTypeOK'
    <2>1. RoutingStateTypeOK'
      BY <1>3, ReserveType DEF ServeReserve
    <2>2. i \in Nat /\ m \in Names
      BY RouteBackend, ConfigAssumption DEF ConfigAssumption
    <2>3. ProxyTypeOK'
      BY <1>3, <2>2 DEF ServeReserve, Goto, ProxyTypeOK, Points, Holding, Results
    <2>4. Routed'
      BY <1>3 DEF ServeReserve, Goto, ProxyTypeOK, Routed
    <2> QED
      BY <2>1, <2>3, <2>4
  <1>4. CASE ClientLeaves(r)
    BY <1>4 DEF ClientLeaves, ProxyTypeOK, Routed, RoutingStateTypeOK, stateVars
  <1>5. CASE RelayEnds(r)
    BY <1>5 DEF RelayEnds, Goto, ProxyTypeOK, Routed, RoutingStateTypeOK,
                stateVars, Points, Holding
  <1> QED
    BY <1>1, <1>2, <1>3, <1>4, <1>5 DEF ClientStep

LEMMA HandlerTypes ==
  ASSUME ProxyTypeOK, Routed, RoutingStateTypeOK,
         NEW r \in Requests, HandlerStep(r)
  PROVE  ProxyTypeOK' /\ Routed' /\ RoutingStateTypeOK'
  <1> DEFINE Goal == ProxyTypeOK' /\ Routed' /\ RoutingStateTypeOK'
  <1>0. r \in Goroutines
    BY DEF Goroutines
  <1>a. pc[r] # "idle" => /\ alias[r] \in Aliases
                          /\ route[r] \in RouteIds(alias[r])
                          /\ Upstream(r) \in Backends
    BY RouteBackend DEF Routed, Upstream
  <1>1. CASE AttemptSend(r)
    BY <1>1 DEF AttemptSend, AttemptUnchanged, Goto, ProxyTypeOK, Routed,
                RoutingStateTypeOK, stateVars, Points, Holding, Errors
  <1>2. ASSUME NEW x \in Errors, AttemptFails(r, x) PROVE Goal
    BY <1>2 DEF AttemptFails, AttemptUnchanged, Goto, ProxyTypeOK, Routed,
                RoutingStateTypeOK, stateVars, Points, Holding
  <1>3. ASSUME NEW s \in Statuses, AttemptResponds(r, s) PROVE Goal
    BY <1>3 DEF AttemptResponds, AttemptUnchanged, Observe, Goto, ProxyTypeOK,
                Routed, RoutingStateTypeOK, stateVars, Points, Holding
  <1>4. CASE FailCanceled(r)
    <2>1. RoutingStateTypeOK'
      BY <1>0, <1>a, <1>4, ReleaseType DEF FailCanceled
    <2>2. ProxyTypeOK' /\ Routed'
      <3>1. observed' \in [Requests -> Nat]
        BY <1>4 DEF FailCanceled, Observe, ProxyTypeOK
      <3> QED
        BY <1>4, <3>1, ReturnType DEF FailCanceled, ProxyTypeOK, Results
    <2> QED
      BY <2>1, <2>2
  <1>5. CASE FailQuarantine(r)
    <2>1. RoutingStateTypeOK'
      BY <1>0, <1>a, <1>5, SetHealthType DEF FailQuarantine
    <2>2. ProxyTypeOK' /\ Routed'
      BY <1>5 DEF FailQuarantine, Goto, ProxyTypeOK, Routed, Points, Holding
    <2> QED
      BY <2>1, <2>2
  <1>6. CASE FailRelease(r)
    <2>1. RoutingStateTypeOK'
      BY <1>0, <1>a, <1>6, ReleaseType DEF FailRelease
    <2>2. ProxyTypeOK' /\ Routed'
      BY <1>6 DEF FailRelease, Observe, Goto, ProxyTypeOK, Routed, Points, Holding
    <2> QED
      BY <2>1, <2>2
  <1>7. ASSUME pc[r] = "failover", NEW i \in RouteIds(alias[r]), FailOver(r, i)
        PROVE  Goal
    <2>1. RoutingStateTypeOK'
      BY <1>a, <1>7, ReserveType DEF FailOver
    <2>2. i \in Nat
      BY <1>a, <1>7, RouteBackend
    <2>3. ProxyTypeOK' /\ Routed'
      BY <1>7, <2>2 DEF FailOver, Goto, ProxyTypeOK, Routed, Points, Holding, Errors
    <2> QED
      BY <2>1, <2>3
  <1>8. CASE FailFinally(r)
    <2>1. RoutingStateTypeOK'
      BY <1>8 DEF FailFinally, ReserveNoRoute, RoutingStateTypeOK, stateVars
    <2>2. ProxyTypeOK' /\ Routed'
      BY <1>8, ReturnType DEF FailFinally, ProxyTypeOK, Results
    <2> QED
      BY <2>1, <2>2
  <1>9. ASSUME pc[r] = "responded", NEW i \in RouteIds(alias[r]), Swap(r, i)
        PROVE  Goal
    <2>1. RoutingStateTypeOK'
      BY <1>0, <1>a, <1>9, SwapReservationType DEF Swap
    <2>2. i \in Nat
      BY <1>a, <1>9, RouteBackend
    <2>3. ProxyTypeOK' /\ Routed'
      BY <1>9, <2>2 DEF Swap, Goto, ProxyTypeOK, Routed, Points, Holding
    <2> QED
      BY <2>1, <2>3
  <1>10. CASE SwapCloseOld(r)
    BY <1>10 DEF SwapCloseOld, Goto, ProxyTypeOK, Routed, RoutingStateTypeOK,
                 stateVars, Points, Holding
  <1>11. CASE ForwardUnsupported(r)
    <2>1. UNCHANGED stateVars
      BY <1>11 DEF ForwardUnsupported, Final, SwapNoRoute
    <2> QED
      BY <1>11, <2>1 DEF ForwardUnsupported, Final, Goto, ProxyTypeOK, Routed,
           RoutingStateTypeOK, stateVars, Points, Holding, Results
  <1>12. CASE ForwardCommit(r)
    <2>1. UNCHANGED stateVars
      BY <1>12 DEF ForwardCommit, Final, SwapNoRoute
    <2> QED
      BY <1>12, <2>1 DEF ForwardCommit, Final, Goto, ProxyTypeOK, Routed,
           RoutingStateTypeOK, stateVars, Points, Holding, Results
  <1>15. CASE ForwardPanics(r)
    <2>1. UNCHANGED stateVars
      BY <1>15 DEF ForwardPanics, Final, SwapNoRoute
    <2>2. ProxyTypeOK' /\ Routed'
      BY <1>15, ReturnType DEF ForwardPanics, ProxyTypeOK, Results
    <2> QED
      BY <2>1, <2>2 DEF RoutingStateTypeOK, stateVars
  <1>13. CASE ForwardRelease(r)
    <2>1. RoutingStateTypeOK'
      BY <1>0, <1>a, <1>13, ReleaseType DEF ForwardRelease
    <2>2. ProxyTypeOK' /\ Routed'
      BY <1>13, ReturnType DEF ForwardRelease, ProxyTypeOK
    <2> QED
      BY <2>1, <2>2
  <1>14. CASE Publish(r) /\ UNCHANGED handlerVars
    <2>1. RoutingStateTypeOK'
      BY <1>0, <1>14, PublishType
    <2>2. ProxyTypeOK' /\ Routed'
      BY <1>14 DEF handlerVars, ProxyTypeOK, Routed
    <2> QED
      BY <2>1, <2>2
  <1> QED
    BY <1>1, <1>2, <1>3, <1>4, <1>5, <1>6, <1>7, <1>8, <1>9, <1>10, <1>11,
       <1>12, <1>13, <1>14, <1>15 DEF HandlerStep

-----------------------------------------------------------------------------
(* Reservations.  A step of handler r can only move r itself between the   *)
(* sets Holders(b); the counters follow.                                   *)

(* No handler other than r changes its place, alias or route.              *)
OnlyMoves(r) ==
  \A q \in Requests \ {r} :
    pc'[q] = pc[q] /\ alias'[q] = alias[q] /\ route'[q] = route[q]

(* How the number of holders of b changes when only r moves.               *)
LEMMA HoldersChange ==
  ASSUME NEW r \in Requests, OnlyMoves(r), NEW b \in Backends
  PROVE  /\ Cardinality(Holders(b)) \in Nat
         /\ (r \in Holders(b) <=> r \in Holders(b)') =>
              Cardinality(Holders(b)') = Cardinality(Holders(b))
         /\ r \notin Holders(b) /\ r \in Holders(b)' =>
              Cardinality(Holders(b)') = Cardinality(Holders(b)) + 1
         /\ r \in Holders(b) /\ r \notin Holders(b)' =>
              /\ Cardinality(Holders(b)') = Cardinality(Holders(b)) - 1
              /\ Cardinality(Holders(b)) > 0
  <1> DEFINE H == Holders(b)
             K == Holders(b)'
  <1>1. H \subseteq Requests /\ K \subseteq Requests
    BY DEF Holders
  <1>2. IsFiniteSet(H) /\ IsFiniteSet(K)
    BY <1>1, FS_Subset, GoroutineAssumption DEF GoroutineAssumption
  <1>3. \A q \in Requests \ {r} : q \in H <=> q \in K
    BY DEF OnlyMoves, Holders, Upstream, BackendOf
  <1> HIDE DEF H, K
  <1>4. Cardinality(H) \in Nat /\ Cardinality(K) \in Nat
    BY <1>2, FS_CardinalityType
  <1>5. (r \in H <=> r \in K) => K = H
    BY <1>1, <1>3
  <1>6. r \notin H /\ r \in K => Cardinality(K) = Cardinality(H) + 1
    <2> SUFFICES ASSUME r \notin H, r \in K
                 PROVE  Cardinality(K) = Cardinality(H) + 1
      OBVIOUS
    <2>1. K = H \cup {r}
      BY <1>1, <1>3
    <2> QED
      BY <1>2, <2>1, FS_AddElement
  <1>7. r \in H /\ r \notin K => Cardinality(H) = Cardinality(K) + 1
    <2> SUFFICES ASSUME r \in H, r \notin K
                 PROVE  Cardinality(H) = Cardinality(K) + 1
      OBVIOUS
    <2>1. H = K \cup {r}
      BY <1>1, <1>3
    <2> QED
      BY <1>2, <2>1, FS_AddElement
  <1> QED
    BY <1>4, <1>5, <1>6, <1>7 DEF H, K

LEMMA CapacityType == \A b \in Backends : MaxInflight[b] \in Nat \ {0}
  BY ConfigAssumption DEF ConfigAssumption

(* The counter of each backend changes as the number of its holders does.  *)
Balanced ==
  \A b \in Backends : inflight'[b] - Cardinality(Holders(b)') =
                        inflight[b] - Cardinality(Holders(b))

(* The handler keeps what it holds and the counters stay.                  *)
LEMMA KeepsBalance ==
  ASSUME NEW r \in Requests, OnlyMoves(r), inflight' = inflight,
         \A b \in Backends : r \in Holders(b) <=> r \in Holders(b)'
  PROVE  Balanced
  BY HoldersChange DEF Balanced

(* The handler gets a reservation on B.                                    *)
LEMMA TakesSlot ==
  ASSUME inflight \in [Backends -> Nat],
         NEW r \in Requests, OnlyMoves(r), NEW B \in Backends,
         inflight' = [inflight EXCEPT ![B] = @ + 1],
         \A b \in Backends : r \notin Holders(b) /\ (r \in Holders(b)' <=> b = B)
  PROVE  Balanced
  <1> SUFFICES ASSUME NEW b \in Backends
               PROVE  inflight'[b] - Cardinality(Holders(b)') =
                      inflight[b] - Cardinality(Holders(b))
    BY DEF Balanced
  <1>1. inflight'[b] = IF b = B THEN inflight[b] + 1 ELSE inflight[b]
    OBVIOUS
  <1>2. Cardinality(Holders(b)') = IF b = B THEN Cardinality(Holders(b)) + 1
                                            ELSE Cardinality(Holders(b))
    BY HoldersChange
  <1>3. inflight[b] \in Nat /\ Cardinality(Holders(b)) \in Nat
    BY HoldersChange
  <1> QED
    BY <1>1, <1>2, <1>3

(* The handler gives its reservation on B up: Release's floor at 0 is not  *)
(* reached, because r itself is counted.                                   *)
LEMMA GivesSlot ==
  ASSUME ReservationsCovered, inflight \in [Backends -> Nat],
         NEW r \in Requests, OnlyMoves(r), NEW B \in Backends, NEW g, Release(g, B),
         \A b \in Backends : (r \in Holders(b) <=> b = B) /\ r \notin Holders(b)'
  PROVE  Balanced
  <1> SUFFICES ASSUME NEW b \in Backends
               PROVE  inflight'[b] - Cardinality(Holders(b)') =
                      inflight[b] - Cardinality(Holders(b))
    BY DEF Balanced
  <1>1. inflight[B] > 0
    BY HoldersChange DEF ReservationsCovered
  <1>2. inflight'[b] = IF b = B THEN inflight[b] - 1 ELSE inflight[b]
    BY <1>1 DEF Release
  <1>3. Cardinality(Holders(b)') = IF b = B THEN Cardinality(Holders(b)) - 1
                                            ELSE Cardinality(Holders(b))
    BY HoldersChange
  <1>4. inflight[b] \in Nat /\ Cardinality(Holders(b)) \in Nat
    BY HoldersChange
  <1> QED
    BY <1>2, <1>3, <1>4

(* The handler's reservation moves from B to C, perhaps the same backend.  *)
LEMMA MovesSlot ==
  ASSUME inflight \in [Backends -> Nat],
         NEW r \in Requests, OnlyMoves(r), NEW B \in Backends, NEW C \in Backends,
         inflight' = [Freed(B) EXCEPT ![C] = @ + 1],
         \A b \in Backends : (r \in Holders(b) <=> b = B) /\ (r \in Holders(b)' <=> b = C)
  PROVE  Balanced
  <1> SUFFICES ASSUME NEW b \in Backends
               PROVE  inflight'[b] - Cardinality(Holders(b)') =
                      inflight[b] - Cardinality(Holders(b))
    BY DEF Balanced
  <1>1. inflight[b] \in Nat /\ Cardinality(Holders(b)) \in Nat
    BY HoldersChange
  <1>2. Freed(B)[b] = IF b = B THEN inflight[b] - 1 ELSE inflight[b]
    BY DEF Freed
  <1>3. inflight'[b] = IF b = C THEN Freed(B)[b] + 1 ELSE Freed(B)[b]
    BY DEF Freed
  <1>4. Cardinality(Holders(b)') =
          IF b = B /\ b # C THEN Cardinality(Holders(b)) - 1
          ELSE IF b # B /\ b = C THEN Cardinality(Holders(b)) + 1
          ELSE Cardinality(Holders(b))
    BY HoldersChange
  <1> QED
    BY <1>1, <1>2, <1>3, <1>4

(* What Eligible guarantees of a selected route.                           *)
LEMMA SelectedHasRoom ==
  ASSUME NEW a, NEW tried, NEW load, NEW i \in selectLocked(a, tried, load)
  PROVE  /\ load[BackendOf(a, i)] < MaxInflight[BackendOf(a, i)]
         /\ Usable(BackendOf(a, i))
         /\ i \in RouteIds(a) \ tried
  BY DEF selectLocked, Eligible

(* Every nonempty set of naturals has a least element.                     *)
LEMMA LeastNatural ==
  ASSUME NEW S \in SUBSET Nat, S # {}
  PROVE  \E x \in S : \A y \in S : x <= y
  <1>1. PICK x \in S : \A y \in S : ~(<<y, x>> \in OpToRel(<, Nat))
    BY WFMin, NatLessThanWellFounded, Zenon
  <1>2. \A y \in S : ~(y < x)
    BY <1>1 DEF OpToRel
  <1> QED
    BY <1>2

(* select.go 12-44: for every alias, load and set of tried routes the      *)
(* selection returns nil, and the request is refused or its last failure   *)
(* forwarded, only when no untried route is usable and has room.  Among    *)
(* the eligible routes take the lowest priority value, then the least      *)
(* load, then the first.                                                   *)
THEOREM SelectionFinds ==
  ASSUME NEW a \in Aliases, NEW tried, NEW load \in [Backends -> Nat]
  PROVE  selectLocked(a, tried, load) # {} <=> Eligible(a, tried, load) # {}
  <1> DEFINE E == Eligible(a, tried, load)
             L(k) == load[BackendOf(a, k)]
             P(k) == PriorityOf(a, k)
  <1>1. selectLocked(a, tried, load) \subseteq E
    BY DEF selectLocked
  <1>2. \A k \in E : k \in Nat /\ P(k) \in Nat /\ L(k) \in Nat
    BY RouteBackend DEF Eligible
  <1>3. ASSUME E # {} PROVE selectLocked(a, tried, load) # {}
    <2>1. PICK p \in {P(k) : k \in E} : \A y \in {P(k) : k \in E} : p <= y
      <3>1. {P(k) : k \in E} \in SUBSET Nat /\ {P(k) : k \in E} # {}
        BY <1>2, <1>3
      <3> QED
        BY <3>1, LeastNatural
    <2> DEFINE F == {k \in E : P(k) = p}
    <2>2. PICK l \in {L(k) : k \in F} : \A y \in {L(k) : k \in F} : l <= y
      <3>1. {L(k) : k \in F} \in SUBSET Nat /\ {L(k) : k \in F} # {}
        BY <1>2, <2>1
      <3> QED
        BY <3>1, LeastNatural
    <2> DEFINE G == {k \in F : L(k) = l}
    <2>3. PICK m \in G : \A y \in G : m <= y
      <3>1. G \in SUBSET Nat /\ G # {}
        BY <1>2, <2>2
      <3> QED
        BY <3>1, LeastNatural
    <2>4. m \in E /\ P(m) = p /\ L(m) = l
      BY <2>3
    <2>5. ASSUME NEW k \in E \ {m} PROVE Preferred(a, load, m, k)
      <3>1. p <= P(k) /\ P(k) \in Nat /\ p \in Nat
        BY <1>2, <2>1, <2>4
      <3>2. P(k) = p => l <= L(k) /\ L(k) \in Nat /\ l \in Nat
        BY <1>2, <2>2, <2>4
      <3>3. P(k) = p /\ L(k) = l => m < k
        BY <1>2, <2>3, <2>4
      <3> QED
        BY <2>4, <3>1, <3>2, <3>3 DEF Preferred
    <2> QED
      BY <2>4, <2>5 DEF selectLocked
  <1> QED
    BY <1>1, <1>3

(* Where r holds a reservation is a matter of its own pc, alias and route. *)
LEMMA HolderOf ==
  ASSUME NEW r \in Requests, NEW b \in Backends
  PROVE  /\ r \in Holders(b) <=> pc[r] \in Holding /\ Upstream(r) = b
         /\ r \in Holders(b)' <=> pc'[r] \in Holding /\ Upstream(r)' = b
  BY DEF Holders

LEMMA ClientBalance ==
  ASSUME TypeOK, Routed, NEW r \in Requests, ClientStep(r)
  PROVE  Balanced
  <1> USE DEF TypeOK
  <1>1. ASSUME NEW m \in Names, ServeUnknownAlias(r, m) \/ ServeNoRoute(r, m)
        PROVE  Balanced
    <2>1. OnlyMoves(r) /\ inflight' = inflight
      BY <1>1 DEF ServeUnknownAlias, ServeNoRoute, ReserveNoRoute, Turned,
                  OnlyMoves, stateVars
    <2>2. \A b \in Backends : r \in Holders(b) <=> r \in Holders(b)'
      BY <1>1, HolderOf DEF ServeUnknownAlias, ServeNoRoute, Turned, Upstream
    <2> QED
      BY <2>1, <2>2, KeepsBalance
  <1>2. ASSUME NEW m \in Aliases, NEW i \in RouteIds(m), ServeReserve(r, m, i)
        PROVE  Balanced
    <2> DEFINE B == BackendOf(m, i)
    <2>1. OnlyMoves(r)
      BY <1>2 DEF ServeReserve, Goto, ProxyTypeOK, OnlyMoves
    <2>2. B \in Backends
      BY RouteBackend
    <2>3. inflight' = [inflight EXCEPT ![B] = @ + 1]
      BY <1>2 DEF ServeReserve, Reserve
    <2>4. pc[r] = "idle" /\ pc'[r] = "send" /\ Upstream(r)' = B
      BY <1>2 DEF ServeReserve, Goto, ProxyTypeOK, Upstream, BackendOf
    <2>5. \A b \in Backends : r \notin Holders(b) /\ (r \in Holders(b)' <=> b = B)
      BY <2>4, HolderOf DEF Holding
    <2> HIDE DEF B
    <2> QED
      BY <2>1, <2>2, <2>3, <2>5, TakesSlot DEF RoutingStateTypeOK
  <1>3. CASE ClientLeaves(r) \/ RelayEnds(r)
    <2>1. OnlyMoves(r) /\ inflight' = inflight
      BY <1>3 DEF ClientLeaves, RelayEnds, Goto, ProxyTypeOK, OnlyMoves, stateVars
    <2>2. /\ pc[r] \in Holding <=> pc'[r] \in Holding
          /\ Upstream(r)' = Upstream(r)
      BY <1>3 DEF ClientLeaves, RelayEnds, Goto, ProxyTypeOK, Holding, Upstream,
                  BackendOf
    <2> QED
      BY <2>1, <2>2, HolderOf, KeepsBalance
  <1> QED
    BY <1>1, <1>2, <1>3 DEF ClientStep

LEMMA HandlerBalance ==
  ASSUME TypeOK, Routed, ReservationsCovered, NEW r \in Requests, HandlerStep(r),
         ~ForwardPanics(r)
  PROVE  Balanced
  <1> USE DEF TypeOK
  <1>a. pc[r] # "idle" => /\ alias[r] \in Aliases
                          /\ route[r] \in RouteIds(alias[r])
                          /\ Upstream(r) \in Backends
    BY RouteBackend DEF Routed, Upstream
  <1>1. CASE \/ AttemptSend(r)
             \/ \E x \in Errors : AttemptFails(r, x)
             \/ \E s \in Statuses : AttemptResponds(r, s)
    <2>1. OnlyMoves(r) /\ inflight' = inflight
      BY <1>1 DEF AttemptSend, AttemptFails, AttemptResponds, AttemptUnchanged,
                  Goto, ProxyTypeOK, OnlyMoves, stateVars
    <2>2. pc[r] \in Holding /\ pc'[r] \in Holding /\ Upstream(r)' = Upstream(r)
      BY <1>1 DEF AttemptSend, AttemptFails, AttemptResponds, AttemptUnchanged,
                  Goto, ProxyTypeOK, Holding, Upstream, BackendOf
    <2> QED
      BY <2>1, <2>2, HolderOf, KeepsBalance
  <1>2. CASE FailQuarantine(r) \/ SwapCloseOld(r)
    <2>1. OnlyMoves(r) /\ inflight' = inflight
      BY <1>2 DEF FailQuarantine, SetHealth, SwapCloseOld, Goto, ProxyTypeOK,
                  OnlyMoves, stateVars
    <2>2. pc[r] \in Holding /\ pc'[r] \in Holding /\ Upstream(r)' = Upstream(r)
      BY <1>2 DEF FailQuarantine, SwapCloseOld, Goto, ProxyTypeOK, Holding,
                  Upstream, BackendOf
    <2> QED
      BY <2>1, <2>2, HolderOf, KeepsBalance
  <1>3. CASE ForwardUnsupported(r) \/ ForwardCommit(r)
    <2>1. OnlyMoves(r) /\ inflight' = inflight
      BY <1>3 DEF ForwardUnsupported, ForwardCommit, Final, SwapNoRoute, Goto,
                  ProxyTypeOK, OnlyMoves, stateVars
    <2>2. pc[r] \in Holding /\ pc'[r] \in Holding /\ Upstream(r)' = Upstream(r)
      BY <1>3 DEF ForwardUnsupported, ForwardCommit, Final, Goto, ProxyTypeOK,
                  Holding, Upstream, BackendOf
    <2> QED
      BY <2>1, <2>2, HolderOf, KeepsBalance
  <1>4. CASE FailFinally(r)
    <2>1. OnlyMoves(r) /\ inflight' = inflight
      BY <1>4 DEF FailFinally, ReserveNoRoute, Return, Goto, ProxyTypeOK,
                  OnlyMoves, stateVars
    <2>2. pc[r] \notin Holding /\ pc'[r] \notin Holding
      BY <1>4 DEF FailFinally, Return, Goto, ProxyTypeOK, Holding
    <2> QED
      BY <2>1, <2>2, HolderOf, KeepsBalance
  <1>5. CASE Publish(r) /\ UNCHANGED handlerVars
    <2>1. OnlyMoves(r) /\ inflight' = inflight
      BY <1>5 DEF Publish, handlerVars, OnlyMoves
    <2>2. pc' = pc /\ Upstream(r)' = Upstream(r)
      BY <1>5 DEF handlerVars, Upstream, BackendOf
    <2> QED
      BY <2>1, <2>2, HolderOf, KeepsBalance
  <1>6. CASE FailCanceled(r) \/ FailRelease(r) \/ ForwardRelease(r)
    <2>1. OnlyMoves(r) /\ Release(r, Upstream(r))
      BY <1>6 DEF FailCanceled, FailRelease, ForwardRelease, Return, Goto,
                  ProxyTypeOK, OnlyMoves
    <2>2. pc[r] \in Holding /\ pc[r] # "idle" /\ pc'[r] \notin Holding
      BY <1>6 DEF FailCanceled, FailRelease, ForwardRelease, Return, Goto,
                  ProxyTypeOK, Holding
    <2>3. Upstream(r) \in Backends
      BY <1>a, <2>2
    <2>4. \A b \in Backends : /\ r \in Holders(b) <=> b = Upstream(r)
                              /\ r \notin Holders(b)'
      BY <2>2, HolderOf
    <2> QED
      BY <2>1, <2>3, <2>4, GivesSlot DEF RoutingStateTypeOK
  <1>7. ASSUME pc[r] = "failover", NEW i \in RouteIds(alias[r]), FailOver(r, i)
        PROVE  Balanced
    <2> DEFINE B == BackendOf(alias[r], i)
    <2>1. OnlyMoves(r)
      BY <1>7 DEF FailOver, Goto, ProxyTypeOK, OnlyMoves
    <2>2. B \in Backends
      BY <1>7, <1>a, RouteBackend
    <2>3. inflight' = [inflight EXCEPT ![B] = @ + 1]
      BY <1>7 DEF FailOver, Reserve
    <2>4. pc'[r] = "send" /\ Upstream(r)' = B
      BY <1>7 DEF FailOver, Goto, ProxyTypeOK, Upstream, BackendOf
    <2>5. \A b \in Backends : r \notin Holders(b) /\ (r \in Holders(b)' <=> b = B)
      BY <1>7, <2>4, HolderOf DEF Holding
    <2> HIDE DEF B
    <2> QED
      BY <2>1, <2>2, <2>3, <2>5, TakesSlot DEF RoutingStateTypeOK
  <1>8. ASSUME pc[r] = "responded", NEW i \in RouteIds(alias[r]), Swap(r, i)
        PROVE  Balanced
    <2> DEFINE B == Upstream(r)
               C == BackendOf(alias[r], i)
    <2>1. OnlyMoves(r)
      BY <1>8 DEF Swap, Goto, ProxyTypeOK, OnlyMoves
    <2>2. B \in Backends /\ C \in Backends
      BY <1>8, <1>a, RouteBackend
    <2>3. SwapReservation(r, alias[r], route[r], attempted[r], i)
      BY <1>8 DEF Swap
    <2>6. inflight' = [Freed(B) EXCEPT ![C] = @ + 1]
      BY <2>3 DEF SwapReservation, Upstream
    <2>7. pc'[r] = "swapped" /\ Upstream(r)' = C
      BY <1>8 DEF Swap, Goto, ProxyTypeOK, Upstream, BackendOf
    <2>8. \A b \in Backends : /\ r \in Holders(b) <=> b = B
                              /\ r \in Holders(b)' <=> b = C
      BY <1>8, <2>7, HolderOf DEF Holding
    <2> HIDE DEF B, C
    <2> QED
      BY <2>1, <2>2, <2>6, <2>8, MovesSlot DEF RoutingStateTypeOK
  <1> QED
    BY <1>1, <1>2, <1>3, <1>4, <1>5, <1>6, <1>7, <1>8 DEF HandlerStep

-----------------------------------------------------------------------------
(* The health loops keep the types, and hold no reservations.              *)
LEMMA CheckerTypes ==
  ASSUME TypeOK, Routed, NEW b \in Backends, CheckerStep(b), UNCHANGED handlerVars
  PROVE  TypeOK' /\ Routed' /\ inflight' = inflight
  <1>0. b \in Goroutines
    BY DEF Goroutines
  <1>1. RoutingStateTypeOK' /\ HealthCheckerTypeOK' /\ inflight' = inflight
    <2>1. CASE StartProbe(b) \/ \E ok \in BOOLEAN : ProbeReturns(b, ok)
      BY <2>1 DEF TypeOK, StartProbe, ProbeReturns, HealthCheckerTypeOK,
                  LoopStates, RoutingStateTypeOK, stateVars
    <2>2. CASE ReportHealth(b)
      <3>1. RoutingStateTypeOK'
        BY <1>0, <2>2, SetHealthType DEF TypeOK, ReportHealth
      <3> QED
        BY <2>2, <3>1 DEF TypeOK, ReportHealth, SetHealth, HealthCheckerTypeOK,
                          LoopStates
    <2>3. CASE Publish(b) /\ UNCHANGED loop
      <3>1. RoutingStateTypeOK'
        BY <1>0, <2>3, PublishType DEF TypeOK
      <3> QED
        BY <2>3, <3>1 DEF TypeOK, Publish, HealthCheckerTypeOK
    <2> QED
      BY <2>1, <2>2, <2>3 DEF CheckerStep
  <1>2. ProxyTypeOK' /\ Routed'
    BY DEF TypeOK, ProxyTypeOK, Routed, handlerVars
  <1> QED
    BY <1>1, <1>2 DEF TypeOK

LEMMA CheckerBalance ==
  ASSUME inflight' = inflight, UNCHANGED handlerVars
  PROVE  Balanced
  <1>1. \A c \in Backends : Holders(c)' = Holders(c)
    BY DEF Holders, Upstream, BackendOf, handlerVars
  <1> QED
    BY <1>1 DEF Balanced

-----------------------------------------------------------------------------
(* Types and routes are invariant, whatever the upstreams answer.          *)
Typed == TypeOK /\ Routed

LEMMA TypedInit == Init => Typed
  <1> SUFFICES ASSUME Init PROVE Typed
    OBVIOUS
  <1>1. SomeName \in Names
    BY ConfigAssumption DEF ConfigAssumption, SomeName
  <1>2. TypeOK
    BY <1>1 DEF Init, RoutingStateInit, ProxyInit, HealthCheckerInit, TypeOK,
         RoutingStateTypeOK, ProxyTypeOK, HealthCheckerTypeOK, LoopStates, Points,
         Errors, Results
  <1>3. Routed
    BY DEF Init, ProxyInit, Routed
  <1> QED
    BY <1>2, <1>3 DEF Typed

LEMMA TypedNext == Typed /\ [Next]_vars => Typed'
  <1> SUFFICES ASSUME Typed, [Next]_vars PROVE Typed'
    OBVIOUS
  <1>1. ASSUME NEW r \in Requests, ClientStep(r) \/ HandlerStep(r), UNCHANGED loop
        PROVE  Typed'
    BY <1>1, ClientTypes, HandlerTypes DEF Typed, TypeOK, HealthCheckerTypeOK
  <1>2. ASSUME NEW b \in Backends, CheckerStep(b), UNCHANGED handlerVars
        PROVE  Typed'
    BY <1>2, CheckerTypes DEF Typed
  <1>3. CASE UNCHANGED vars
    BY <1>3 DEF Typed, TypeOK, RoutingStateTypeOK, ProxyTypeOK, HealthCheckerTypeOK,
                Routed, vars, stateVars, handlerVars
  <1> QED
    BY <1>1, <1>2, <1>3 DEF Next

LEMMA TypedAlways == Spec => []Typed
  BY TypedInit, TypedNext, PTL DEF Spec

(* Nothing is reserved and nobody holds anything in the initial state.     *)
LEMMA AccountsInit == Init => ReservationsAccounted
  <1> SUFFICES ASSUME Init PROVE ReservationsAccounted
    OBVIOUS
  <1>1. \A b \in Backends : Holders(b) = {}
    BY DEF Init, ProxyInit, Holders, Holding
  <1>2. \A b \in Backends : Cardinality(Holders(b)) = 0
    BY <1>1, FS_EmptySet
  <1>3. \A b \in Backends : inflight[b] = 0
    BY DEF Init, RoutingStateInit
  <1> QED
    BY <1>2, <1>3 DEF ReservationsAccounted

(* Counters that equal the holders cover them.                             *)
LEMMA AccountedCovered ==
  ASSUME Typed, ReservationsAccounted
  PROVE  ReservationsCovered
  BY DEF Typed, TypeOK, RoutingStateTypeOK, ReservationsAccounted, ReservationsCovered

(* Every step but a panic keeps the difference of counters and holders.    *)
LEMMA StepBalance ==
  ASSUME Typed, ReservationsCovered, [Next]_vars,
         \A r \in Requests : ~ForwardPanics(r)
  PROVE  Balanced
  <1>1. ASSUME NEW r \in Requests, ClientStep(r) \/ HandlerStep(r) PROVE Balanced
    BY <1>1, ClientBalance, HandlerBalance DEF Typed
  <1>2. ASSUME NEW b \in Backends, CheckerStep(b), UNCHANGED handlerVars
        PROVE  Balanced
    BY <1>2, CheckerTypes, CheckerBalance DEF Typed
  <1>3. CASE UNCHANGED vars
    BY <1>3, CheckerBalance DEF vars, stateVars
  <1> QED
    BY <1>1, <1>2, <1>3 DEF Next

(* What a difference that stays says of the two invariants.                *)
LEMMA BalanceKeeps ==
  ASSUME Typed, Typed', Balanced
  PROVE  /\ ReservationsAccounted => ReservationsAccounted'
         /\ ReservationsCovered => ReservationsCovered'
  <1>1. \A b \in Backends : /\ inflight[b] \in Nat
                            /\ inflight'[b] \in Nat
    BY DEF Typed, TypeOK, RoutingStateTypeOK
  <1>2. \A b \in Backends : /\ Cardinality(Holders(b)) \in Nat
                            /\ Cardinality(Holders(b)') \in Nat
    BY FS_Subset, FS_CardinalityType, GoroutineAssumption DEF GoroutineAssumption, Holders
  <1> QED
    BY <1>1, <1>2 DEF Balanced, ReservationsAccounted, ReservationsCovered

(* A panic loses a holder and leaves the counters.                         *)
LEMMA PanicCovers ==
  ASSUME Typed, ReservationsCovered, NEW r \in Requests, ForwardPanics(r)
  PROVE  ReservationsCovered'
  <1>1. OnlyMoves(r) /\ inflight' = inflight
    BY DEF ForwardPanics, Final, SwapNoRoute, Return, Goto, Typed, TypeOK, ProxyTypeOK,
           OnlyMoves, stateVars
  <1>2. \A b \in Backends : r \notin Holders(b)'
    BY DEF ForwardPanics, Return, Goto, Typed, TypeOK, ProxyTypeOK, Holders, Holding
  <1>3. \A b \in Backends : /\ Cardinality(Holders(b)) \in Nat
                            /\ Cardinality(Holders(b)') \in Nat
    BY FS_Subset, FS_CardinalityType, GoroutineAssumption DEF GoroutineAssumption, Holders
  <1>4. ASSUME NEW b \in Backends
        PROVE  Cardinality(Holders(b)') <= Cardinality(Holders(b))
    <2>1. CASE r \in Holders(b)
      BY <1>1, <1>2, <1>3, <2>1, HoldersChange
    <2>2. CASE r \notin Holders(b)
      BY <1>1, <1>2, <1>3, <2>2, HoldersChange
    <2> QED
      BY <2>1, <2>2
  <1>5. inflight \in [Backends -> Nat]
    BY DEF Typed, TypeOK, RoutingStateTypeOK
  <1> QED
    BY <1>1, <1>3, <1>4, <1>5 DEF ReservationsCovered

(* With statuses that WriteHeader accepts there is no panic.               *)
LEMMA NoPanic ==
  ASSUME Writable, Typed, NEW r \in Requests
  PROVE  ~ForwardPanics(r)
  <1> SUFFICES ASSUME ForwardPanics(r) PROVE FALSE
    OBVIOUS
  <1>1. pc[r] = "responded" /\ status[r] < 100
    BY DEF ForwardPanics, Final
  <1>2. status[r] \in Statuses
    BY <1>1 DEF Typed, Routed
  <1>3. status[r] \in Nat /\ status[r] >= 100
    BY <1>2, StatusAssumption DEF StatusAssumption, Writable
  <1> QED
    BY <1>1, <1>3

-----------------------------------------------------------------------------
(* Capacity needs no accounting: each operation on the counters respects   *)
(* it on its own, so it survives even a leak.                              *)
LEMMA ReserveKeepsCapacity ==
  ASSUME RoutingStateTypeOK, CapacityRespected, NEW a \in Aliases,
         NEW i \in RouteIds(a), NEW tried, Reserve(a, tried, i)
  PROVE  CapacityRespected'
  <1>1. BackendOf(a, i) \in Backends
    BY RouteBackend
  <1>2. inflight[BackendOf(a, i)] < MaxInflight[BackendOf(a, i)]
    BY SelectedHasRoom DEF Reserve
  <1> QED
    BY <1>1, <1>2, CapacityType DEF Reserve, CapacityRespected, RoutingStateTypeOK

LEMMA SwapKeepsCapacity ==
  ASSUME RoutingStateTypeOK, CapacityRespected, NEW g, NEW a \in Aliases,
         NEW current \in RouteIds(a), NEW i \in RouteIds(a), NEW tried,
         SwapReservation(g, a, current, tried, i)
  PROVE  CapacityRespected'
  <1> DEFINE B == BackendOf(a, current)
             C == BackendOf(a, i)
  <1>1. B \in Backends /\ C \in Backends
    BY RouteBackend
  <1>2. Freed(B)[C] < MaxInflight[C] /\ inflight' = [Freed(B) EXCEPT ![C] = @ + 1]
    BY SelectedHasRoom DEF SwapReservation
  <1>3. \A b \in Backends : inflight[b] \in Nat /\ inflight[b] <= MaxInflight[b]
    BY DEF CapacityRespected, RoutingStateTypeOK
  <1>4. /\ DOMAIN Freed(B) = Backends
        /\ \A b \in Backends : Freed(B)[b] = IF b = B THEN inflight[b] - 1 ELSE inflight[b]
    BY DEF Freed, RoutingStateTypeOK
  <1> HIDE DEF B, C
  <1>5. \A b \in Backends : inflight'[b] = IF b = C THEN Freed(B)[b] + 1 ELSE Freed(B)[b]
    BY <1>2, <1>4
  <1> QED
    BY <1>1, <1>2, <1>3, <1>4, <1>5, CapacityType DEF CapacityRespected

LEMMA ReleaseKeepsCapacity ==
  ASSUME RoutingStateTypeOK, CapacityRespected, NEW g, NEW b, Release(g, b)
  PROVE  CapacityRespected'
  BY CapacityType DEF Release, CapacityRespected, RoutingStateTypeOK

LEMMA HandlerCapacity ==
  ASSUME Typed, CapacityRespected, NEW r \in Requests, ClientStep(r) \/ HandlerStep(r)
  PROVE  CapacityRespected'
  <1>0. RoutingStateTypeOK
    BY DEF Typed, TypeOK
  <1>a. pc[r] # "idle" => alias[r] \in Aliases /\ route[r] \in RouteIds(alias[r])
    BY DEF Typed, Routed
  <1>1. ASSUME inflight' = inflight PROVE CapacityRespected'
    BY <1>1 DEF CapacityRespected
  <1>2. CASE ClientStep(r)
    <2>1. ASSUME NEW m \in Aliases, NEW i \in RouteIds(m), ServeReserve(r, m, i)
          PROVE  CapacityRespected'
      BY <1>0, <2>1, ReserveKeepsCapacity DEF ServeReserve
    <2>2. ASSUME NEW m \in Names, ServeUnknownAlias(r, m) \/ ServeNoRoute(r, m)
          PROVE  inflight' = inflight
      BY <2>2 DEF ServeUnknownAlias, ServeNoRoute, ReserveNoRoute, stateVars
    <2>3. ClientLeaves(r) \/ RelayEnds(r) => inflight' = inflight
      BY DEF ClientLeaves, RelayEnds, stateVars
    <2> QED
      BY <1>1, <1>2, <2>1, <2>2, <2>3 DEF ClientStep
  <1>3. CASE HandlerStep(r)
    <2>1. ASSUME pc[r] = "failover", NEW i \in RouteIds(alias[r]), FailOver(r, i)
          PROVE  CapacityRespected'
      BY <1>0, <1>a, <2>1, ReserveKeepsCapacity DEF FailOver
    <2>2. ASSUME pc[r] = "responded", NEW i \in RouteIds(alias[r]), Swap(r, i)
          PROVE  CapacityRespected'
      BY <1>0, <1>a, <2>2, SwapKeepsCapacity DEF Swap
    <2>3. CASE FailCanceled(r) \/ FailRelease(r) \/ ForwardRelease(r)
      BY <1>0, <2>3, ReleaseKeepsCapacity DEF FailCanceled, FailRelease, ForwardRelease
    <2>4. AttemptSend(r) \/ (\E x \in Errors : AttemptFails(r, x))
            \/ (\E s \in Statuses : AttemptResponds(r, s)) => inflight' = inflight
      BY DEF AttemptSend, AttemptFails, AttemptResponds, AttemptUnchanged, stateVars
    <2>5. FailQuarantine(r) \/ FailFinally(r) \/ SwapCloseOld(r) => inflight' = inflight
      BY DEF FailQuarantine, SetHealth, FailFinally, ReserveNoRoute, SwapCloseOld,
             stateVars
    <2>6. ForwardUnsupported(r) \/ ForwardPanics(r) \/ ForwardCommit(r)
            => inflight' = inflight
      BY DEF ForwardUnsupported, ForwardPanics, ForwardCommit, Final, SwapNoRoute,
             stateVars
    <2>7. Publish(r) => inflight' = inflight
      BY DEF Publish
    <2> QED
      BY <1>1, <1>3, <2>1, <2>2, <2>3, <2>4, <2>5, <2>6, <2>7 DEF HandlerStep
  <1> QED
    BY <1>2, <1>3

-----------------------------------------------------------------------------
(* Every variable of the router keeps its type.                            *)
THEOREM TypesHold == Spec => []TypeOK
  <1>1. Typed => TypeOK
    BY DEF Typed
  <1> QED
    BY <1>1, TypedAlways, PTL

(* state.go 42-44: concurrent requests never overshoot a capacity.         *)
THEOREM CapacityHolds == Spec => []CapacityRespected
  <1>1. Init => CapacityRespected
    BY CapacityType DEF Init, RoutingStateInit, CapacityRespected
  <1>2. Typed /\ CapacityRespected /\ [Next]_vars => CapacityRespected'
    <2> SUFFICES ASSUME Typed, CapacityRespected, [Next]_vars
                 PROVE  CapacityRespected'
      OBVIOUS
    <2>1. ASSUME NEW b \in Backends, CheckerStep(b), UNCHANGED handlerVars
          PROVE  CapacityRespected'
      BY <2>1, CheckerTypes DEF Typed, CapacityRespected
    <2>2. CASE UNCHANGED vars
      BY <2>2 DEF vars, stateVars, CapacityRespected
    <2> QED
      BY <2>1, <2>2, HandlerCapacity DEF Next
  <1> QED
    BY <1>1, <1>2, TypedAlways, PTL DEF Spec

(* proxy.go 173, state.go 229: whatever the upstreams answer, a handler    *)
(* that owns a reservation is counted.  A panic only ever makes a counter  *)
(* too high, so the capacity also bounds the requests that are really      *)
(* running, and no Release can take another handler's slot.                *)
THEOREM CoveredHolds == Spec => []ReservationsCovered
  <1>1. Init => ReservationsCovered
    BY TypedInit, AccountsInit, AccountedCovered
  <1>2. Typed /\ ReservationsCovered /\ [Next]_vars => ReservationsCovered'
    <2> SUFFICES ASSUME Typed, ReservationsCovered, [Next]_vars
                 PROVE  ReservationsCovered'
      OBVIOUS
    <2>1. CASE \E r \in Requests : ForwardPanics(r)
      BY <2>1, PanicCovers
    <2>2. CASE \A r \in Requests : ~ForwardPanics(r)
      BY <2>2, StepBalance, BalanceKeeps, TypedNext
    <2> QED
      BY <2>1, <2>2
  <1> QED
    BY <1>1, <1>2, TypedAlways, PTL DEF Spec

(* proxy.go, state.go 217-218: whatever the interleaving of any number of  *)
(* handlers, each counter is exactly the number of handlers that own a     *)
(* reservation there, so none is leaked or returned twice - as long as the *)
(* upstreams send no status on which WriteHeader panics.                   *)
THEOREM ReservationsHold ==
  ASSUME Writable
  PROVE  Spec => []ReservationsAccounted
  <1>1. Typed /\ ReservationsAccounted /\ [Next]_vars => ReservationsAccounted'
    BY NoPanic, AccountedCovered, StepBalance, BalanceKeeps, TypedNext
  <1> QED
    BY <1>1, AccountsInit, TypedAlways, PTL DEF Spec

(* The invariant that the refinement of CapacitySlots rests on.            *)
LEMMA Invariance ==
  ASSUME Writable
  PROVE  Spec => []IndInv
  <1>1. Typed /\ ReservationsAccounted /\ CapacityRespected => IndInv
    BY DEF Typed, IndInv
  <1> QED
    BY <1>1, ReservationsHold, CapacityHolds, TypedAlways, PTL
=============================================================================
