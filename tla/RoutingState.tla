---------------------------- MODULE RoutingState ----------------------------
(***************************************************************************)
(* The shared routing state of internal/router/state.go: per backend the   *)
(* health flags and the in-flight counter, all behind one mutex, together  *)
(* with route selection (select.go) and the two per-backend gauges that    *)
(* the state's operations publish (metrics.go).                            *)
(*                                                                         *)
(* A critical section of s.mu is one atomic step.  What an operation does  *)
(* after it unlocks is not: SetHealth, SwapReservation and Release publish *)
(* their gauges after s.mu.Unlock(), so the values they computed are kept  *)
(* in pub, per goroutine, until that goroutine publishes them.  A          *)
(* goroutine is a request handler or the health loop of one backend.       *)
(***************************************************************************)
EXTENDS Integers, Sequences, FiniteSets

CONSTANTS
  Backends,      \* configured backends; each also names its health loop
  Requests,      \* handler goroutines: client requests in flight at once
  Names,         \* the model names clients send
  AliasRoutes,   \* alias |-> its routes in configuration order
  MaxInflight,   \* backend |-> max_inflight
  HasMetrics     \* s.metrics # nil

(* The names of Names that are configured; the others are unknown aliases. *)
Aliases == DOMAIN AliasRoutes

RouteConfig == [backend : Backends, priority : Nat]

(* config.Validate guarantees these of every configuration NewState gets:  *)
(* routes name known backends, priorities and capacities are in range.     *)
ASSUME ConfigAssumption ==
  /\ AliasRoutes \in [Aliases -> Seq(RouteConfig)]
  /\ Aliases \subseteq Names
  /\ Names # {}
  /\ MaxInflight \in [Backends -> Nat \ {0}]
  /\ HasMetrics \in BOOLEAN

(* Any number of handlers may run at once, but always finitely many.       *)
ASSUME GoroutineAssumption ==
  /\ IsFiniteSet(Requests)
  /\ Requests \cap Backends = {}

Goroutines == Requests \cup Backends

VARIABLES
  checked,    \* backendState.checked
  healthy,    \* backendState.healthy
  inflight,   \* backendState.inflight
  gauge,      \* the exported gauges: "inflight" and "healthy" per backend
  pub         \* gauge writes a goroutine still has to make

flags == <<checked, healthy>>
stateVars == <<checked, healthy, inflight, gauge, pub>>

Gauges == {"inflight", "healthy"}
Publication == [gauge : Gauges, backend : Backends, value : Nat]

RoutingStateTypeOK ==
  /\ checked \in [Backends -> BOOLEAN]
  /\ healthy \in [Backends -> BOOLEAN]
  /\ inflight \in [Backends -> Nat]
  /\ gauge \in [Gauges -> [Backends -> Nat]]
  /\ pub \in [Goroutines -> Seq(Publication)]

(* NewState: nothing checked, nothing reserved, both gauges at 0.          *)
RoutingStateInit ==
  /\ checked = [b \in Backends |-> FALSE]
  /\ healthy = [b \in Backends |-> FALSE]
  /\ inflight = [b \in Backends |-> 0]
  /\ gauge = [g \in Gauges |-> [b \in Backends |-> 0]]
  /\ pub = [g \in Goroutines |-> <<>>]

-----------------------------------------------------------------------------
(* Route selection.                                                        *)

(* A route is identified within its alias by its position, which is also   *)
(* Route.Order.                                                            *)
RouteIds(a) == DOMAIN AliasRoutes[a]
BackendOf(a, i) == AliasRoutes[a][i].backend
PriorityOf(a, i) == AliasRoutes[a][i].priority

Usable(b) == checked[b] /\ healthy[b]

(* Mutants of Eligible.                                                    *)
EligibleAgain(a, attempted, load) ==
  {i \in RouteIds(a) : /\ Usable(BackendOf(a, i))
                       /\ load[BackendOf(a, i)] < MaxInflight[BackendOf(a, i)]}
EligibleOneOver(a, attempted, load) ==
  {i \in RouteIds(a) \ attempted :
     /\ Usable(BackendOf(a, i))
     /\ load[BackendOf(a, i)] <= MaxInflight[BackendOf(a, i)]}
EligibleUnhealthy(a, attempted, load) ==
  {i \in RouteIds(a) \ attempted :
     /\ checked[BackendOf(a, i)]
     /\ load[BackendOf(a, i)] < MaxInflight[BackendOf(a, i)]}

(* The routes the loop of selectLocked does not skip.  load stands for the *)
(* in-flight counters as the caller left them when it asked.               *)
Eligible(a, attempted, load) ==
  {i \in RouteIds(a) \ attempted :
     /\ Usable(BackendOf(a, i))
     /\ load[BackendOf(a, i)] < MaxInflight[BackendOf(a, i)]}

(* Route i is taken in preference to route j: lower priority value, then   *)
(* fewer requests in flight on its backend, then configuration order.      *)
Preferred(a, load, i, j) ==
  LET pi == PriorityOf(a, i)
      pj == PriorityOf(a, j)
      li == load[BackendOf(a, i)]
      lj == load[BackendOf(a, j)]
  IN  \/ pi < pj
      \/ pi = pj /\ li < lj
      \/ pi = pj /\ li = lj /\ i < j

(* What selectLocked returns, as a set: empty for nil, else one route.     *)
(* SelectLoop states the loop itself and compares it with this definition. *)
selectLocked(a, attempted, load) ==
  {i \in Eligible(a, attempted, load) :
     \A j \in Eligible(a, attempted, load) \ {i} : Preferred(a, load, i, j)}

-----------------------------------------------------------------------------
(* The operations of State, one critical section each.                     *)

InflightPub(b, n) == [gauge |-> "inflight", backend |-> b, value |-> n]
HealthyPub(b, h) == [gauge |-> "healthy", backend |-> b,
                     value |-> IF h THEN 1 ELSE 0]

(* Goroutine g leaves the critical section with gauge writes still to do.  *)
PublishLater(g, ps) == pub' = IF HasMetrics THEN [pub EXCEPT ![g] = ps] ELSE pub

(* A goroutine does its pending gauge writes before anything else.         *)
Published(g) == pub[g] = <<>>

SetHealth(g, b, h) ==
  /\ checked' = [checked EXCEPT ![b] = TRUE]
  /\ healthy' = [healthy EXCEPT ![b] = h]
  /\ PublishLater(g, <<HealthyPub(b, h)>>)
  /\ UNCHANGED <<inflight, gauge>>

(* Reserve succeeds with route i.  This one publishes inside the lock.     *)
Reserve(a, attempted, i) ==
  LET b == BackendOf(a, i) IN
  /\ i \in selectLocked(a, attempted, inflight)
  /\ inflight' = [inflight EXCEPT ![b] = @ + 1]
  /\ gauge' = IF HasMetrics
              THEN [gauge EXCEPT !["inflight"][b] = inflight[b] + 1]
              ELSE gauge
  /\ UNCHANGED <<flags, pub>>

(* Mutant of ReserveNoRoute: while a healthy route is only saturated the   *)
(* caller waits for it instead of failing at once.                         *)
ReserveQueues(a, attempted) ==
  /\ \A i \in RouteIds(a) \ attempted : ~Usable(BackendOf(a, i))
  /\ UNCHANGED stateVars

(* Reserve returns ErrNoRoute and leaves the state alone.                  *)
ReserveNoRoute(a, attempted) ==
  /\ Eligible(a, attempted, inflight) = {}
  /\ UNCHANGED stateVars

(* The counters with one slot of b lent to the selection.                  *)
Freed(b) == [inflight EXCEPT ![b] = @ - 1]

(* Mutant of SwapReservation: the old slot is freed for the selection and  *)
(* once more after it.                                                     *)
SwapFreeingTwice(g, a, current, attempted, i) ==
  LET cb == BackendOf(a, current)
      sb == BackendOf(a, i)
  IN  /\ inflight[cb] > 0
      /\ i \in selectLocked(a, attempted, Freed(cb))
      /\ inflight' = [[Freed(cb) EXCEPT ![cb] = @ - 1] EXCEPT ![sb] = @ + 1]
      /\ PublishLater(g, <<InflightPub(sb, inflight'[sb])>>)
      /\ UNCHANGED <<flags, gauge>>

(* SwapReservation moves the reservation of route current to route i.      *)
SwapReservation(g, a, current, attempted, i) ==
  LET cb == BackendOf(a, current)
      sb == BackendOf(a, i)
  IN  /\ inflight[cb] > 0
      /\ i \in selectLocked(a, attempted, Freed(cb))
      /\ inflight' = [Freed(cb) EXCEPT ![sb] = @ + 1]
      /\ PublishLater(g, (IF cb # sb THEN <<InflightPub(cb, inflight'[cb])>>
                                     ELSE <<>>)
                         \o <<InflightPub(sb, inflight'[sb])>>)
      /\ UNCHANGED <<flags, gauge>>

(* SwapReservation returns ErrNoRoute: nothing was held, or there is no    *)
(* alternative and the lent slot is taken back.                            *)
SwapNoRoute(a, current, attempted) ==
  LET cb == BackendOf(a, current) IN
  /\ inflight[cb] > 0 => Eligible(a, attempted, Freed(cb)) = {}
  /\ UNCHANGED stateVars

Release(g, b) ==
  /\ inflight' = [inflight EXCEPT ![b] = IF @ > 0 THEN @ - 1 ELSE @]
  /\ PublishLater(g, <<InflightPub(b, inflight'[b])>>)
  /\ UNCHANGED <<flags, gauge>>

(* metrics.SetInflight or metrics.SetHealthy after the lock is gone.       *)
Publish(g) ==
  LET p == Head(pub[g]) IN
  /\ ~Published(g)
  /\ gauge' = [gauge EXCEPT ![p.gauge][p.backend] = p.value]
  /\ pub' = [pub EXCEPT ![g] = Tail(@)]
  /\ UNCHANGED <<flags, inflight>>

-----------------------------------------------------------------------------
(* Mutant of AliasReady: a saturated backend does not count.               *)
AliasReadyWithRoom(a) ==
  \E i \in RouteIds(a) : /\ Usable(BackendOf(a, i))
                         /\ inflight[BackendOf(a, i)] < MaxInflight[BackendOf(a, i)]

(* Ready, which /readyz reports: every alias has a route whose backend is  *)
(* checked and healthy, saturated or not.                                  *)
AliasReady(a) == \E i \in RouteIds(a) : Usable(BackendOf(a, i))
Ready == \A a \in Aliases : AliasReady(a)
=============================================================================
