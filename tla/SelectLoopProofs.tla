-------------------------- MODULE SelectLoopProofs --------------------------
(***************************************************************************)
(* The selection loop computes the documented choice, for every list of    *)
(* routes and every routing state.                                         *)
(***************************************************************************)
EXTENDS SelectLoop, TLAPS

(* A route of a configured alias names a configured backend.               *)
LEMMA RouteOfAlias ==
  ASSUME NEW a \in Aliases, NEW i \in RouteIds(a)
  PROVE  /\ i \in 1 .. Len(AliasRoutes[a])
         /\ Len(AliasRoutes[a]) \in Nat
         /\ BackendOf(a, i) \in Backends
         /\ PriorityOf(a, i) \in Nat
  <1>1. AliasRoutes[a] \in Seq(RouteConfig)
    BY ConfigAssumption DEF ConfigAssumption
  <1>2. i \in 1 .. Len(AliasRoutes[a]) /\ AliasRoutes[a][i] \in RouteConfig
    BY <1>1 DEF RouteIds
  <1> QED
    BY <1>1, <1>2 DEF BackendOf, PriorityOf, RouteConfig

LEMMA CapacityIsNat == \A b \in Backends : MaxInflight[b] \in Nat
  BY ConfigAssumption DEF ConfigAssumption

(* An eligible route is exactly one the loop does not skip.                *)
LEMMA EligibleNotSkipped ==
  ASSUME LoopTypeOK, NEW i \in RouteIds(name)
  PROVE  i \in Eligible(name, attempted, inflight) <=> ~Skipped(i)
  <1>1. BackendOf(name, i) \in Backends
    BY RouteOfAlias DEF LoopTypeOK
  <1>2. /\ inflight[BackendOf(name, i)] \in Nat
        /\ MaxInflight[BackendOf(name, i)] \in Nat
    BY <1>1, CapacityIsNat DEF LoopTypeOK, RoutingStateTypeOK
  <1> QED
    BY <1>2 DEF Eligible, Skipped, Usable

(* Preferred is transitive and asymmetric on the routes of an alias, and   *)
(* an earlier route that is not worse is preferred.                        *)
LEMMA PreferredOrder ==
  ASSUME LoopTypeOK, NEW i \in RouteIds(name), NEW j \in RouteIds(name),
         NEW k \in RouteIds(name)
  PROVE  /\ Preferred(name, inflight, i, j) /\ Preferred(name, inflight, j, k)
              => Preferred(name, inflight, i, k)
         /\ ~(Preferred(name, inflight, i, j) /\ Preferred(name, inflight, j, i))
  <1>1. /\ PriorityOf(name, i) \in Nat /\ inflight[BackendOf(name, i)] \in Nat
        /\ PriorityOf(name, j) \in Nat /\ inflight[BackendOf(name, j)] \in Nat
        /\ PriorityOf(name, k) \in Nat /\ inflight[BackendOf(name, k)] \in Nat
        /\ i \in Nat /\ j \in Nat /\ k \in Nat
    BY RouteOfAlias DEF LoopTypeOK, RoutingStateTypeOK
  <1> QED
    BY <1>1 DEF Preferred

LEMMA LoopInit == SelectInit => LoopInv
  <1> SUFFICES ASSUME SelectInit PROVE LoopInv
    OBVIOUS
  <1>1. LoopTypeOK
    <2>1. inflight \in [Backends -> Nat]
      BY LoadsAssumption DEF SelectInit, LoadsAssumption
    <2>2. gauge \in [Gauges -> [Backends -> Nat]]
      BY DEF SelectInit
    <2>3. pub \in [Goroutines -> Seq(Publication)]
      BY DEF SelectInit
    <2> QED
      BY <2>1, <2>2, <2>3 DEF SelectInit, LoopTypeOK, RoutingStateTypeOK
  <1>2. \A j \in Eligible(name, attempted, inflight) : j >= 1
    BY <1>1, RouteOfAlias DEF Eligible, LoopTypeOK
  <1> QED
    BY <1>1, <1>2 DEF SelectInit, LoopInv

LEMMA LoopStep == LoopInv /\ [Consider]_selectVars => LoopInv'
  <1> SUFFICES ASSUME LoopInv, [Consider]_selectVars PROVE LoopInv'
    OBVIOUS
  <1> DEFINE E == Eligible(name, attempted, inflight)
  <1>1. CASE UNCHANGED selectVars
    BY <1>1 DEF selectVars, loopVars, stateVars, LoopInv, LoopTypeOK,
         RoutingStateTypeOK, Eligible, Usable, Preferred
  <1>2. CASE Consider
    <2>1. LoopTypeOK /\ next \in RouteIds(name)
      BY <1>2 DEF LoopInv, Consider
    <2>2. LoopTypeOK'
      BY <1>2, <2>1 DEF Consider, LoopTypeOK, RoutingStateTypeOK, stateVars
    <2>3. Eligible(name, attempted, inflight)' = E
      BY <1>2 DEF Consider, stateVars, Eligible, Usable
    <2>4. \A i, j : Preferred(name, inflight, i, j)' <=> Preferred(name, inflight, i, j)
      BY <1>2 DEF Consider, stateVars, Preferred
    <2>5. \A j \in E : /\ j \in RouteIds(name) /\ j \in Nat /\ j > 0
                       /\ PriorityOf(name, j) \in Nat
                       /\ inflight[BackendOf(name, j)] \in Nat
      BY <2>1, RouteOfAlias DEF Eligible, LoopTypeOK, RoutingStateTypeOK
    <2>6. next \in E <=> ~Skipped(next)
      BY <2>1, EligibleNotSkipped
    <2>7. next \in Nat /\ next' = next + 1 /\ next > 0
      BY <1>2, <2>1 DEF Consider, LoopTypeOK
    <2>8. inflight' = inflight /\ name' = name
      BY <1>2 DEF Consider, stateVars
    <2>9. CASE ~(next \in E /\ Better(next))
      <3>1. best' = best /\ bestInflight' = bestInflight
        BY <1>2, <2>6, <2>9 DEF Consider
      <3>2. CASE best = 0
        <4>1. next \notin E
          BY <2>9, <3>2 DEF Better
        <4>2. \A j \in E : j >= next + 1
          BY <2>5, <2>7, <3>2, <4>1 DEF LoopInv
        <4> QED
          BY <2>2, <2>3, <2>7, <3>1, <3>2, <4>2 DEF LoopInv
      <3>3. CASE best # 0
        <4>1. /\ best \in E /\ best < next
              /\ bestInflight = inflight[BackendOf(name, best)]
              /\ \A j \in E \ {best} : j < next => Preferred(name, inflight, best, j)
          BY <3>3 DEF LoopInv
        <4>2. next \in E => Preferred(name, inflight, best, next)
          BY <2>5, <2>7, <2>9, <3>3, <4>1 DEF Better, Preferred
        <4>3. \A j \in E \ {best} : j < next + 1 => Preferred(name, inflight, best, j)
          BY <2>5, <2>7, <4>1, <4>2
        <4>4. bestInflight' = inflight'[BackendOf(name', best')]
          BY <2>8, <3>1, <4>1
        <4>5. best' < next'
          BY <2>5, <2>7, <3>1, <4>1
        <4> HIDE DEF E
        <4> QED
          BY <2>2, <2>3, <2>4, <2>7, <3>1, <3>3, <4>1, <4>3, <4>4, <4>5 DEF LoopInv
      <3> QED
        BY <3>2, <3>3
    <2>10. CASE next \in E /\ Better(next)
      <3>1. best' = next /\ bestInflight' = inflight[BackendOf(name, next)]
        BY <1>2, <2>6, <2>10 DEF Consider
      <3>2. \A j \in E \ {next} : j < next + 1 => Preferred(name, inflight, next, j)
        <4> SUFFICES ASSUME NEW j \in E, j < next
                     PROVE  Preferred(name, inflight, next, j)
          BY <2>5, <2>7
        <4>1. best # 0
          BY <2>5, <2>7 DEF LoopInv
        <4>2. best \in E /\ bestInflight = inflight[BackendOf(name, best)]
          BY <4>1 DEF LoopInv
        <4>3. Preferred(name, inflight, next, best)
          BY <2>5, <2>10, <4>1, <4>2 DEF Better, Preferred
        <4>4. j = best \/ Preferred(name, inflight, best, j)
          BY <4>1 DEF LoopInv
        <4> QED
          BY <2>1, <2>5, <4>2, <4>3, <4>4, PreferredOrder
      <3>3. bestInflight' = inflight'[BackendOf(name', best')]
        BY <2>8, <3>1
      <3>4. best' # 0 /\ best' < next'
        BY <2>7, <3>1
      <3> HIDE DEF E
      <3> QED
        BY <2>2, <2>3, <2>4, <2>7, <2>10, <3>1, <3>2, <3>3, <3>4 DEF LoopInv
    <2> QED
      BY <2>9, <2>10
  <1> QED
    BY <1>1, <1>2

(* select.go: for every alias, every set of attempted routes and every     *)
(* health and load of the backends, the loop ends with the one route that  *)
(* the documented order prescribes, or with nil when none is eligible.     *)
THEOREM LoopIsSelection == SelectSpec => []LoopSelects
  <1>1. LoopInv => LoopSelects
    <2> SUFFICES ASSUME LoopInv, Done PROVE LoopSelects
      BY DEF LoopSelects
    <2> DEFINE E == Eligible(name, attempted, inflight)
    <2>1. \A j \in E : j \in RouteIds(name) /\ j < next
      <3>1. AliasRoutes[name] \in Seq(RouteConfig) /\ next \in Nat \ {0}
        BY ConfigAssumption DEF ConfigAssumption, LoopInv, LoopTypeOK
      <3>2. next > Len(AliasRoutes[name])
        BY <3>1 DEF Done, RouteIds
      <3> QED
        BY <3>1, <3>2, RouteOfAlias DEF Eligible, LoopInv, LoopTypeOK
    <2>2. CASE best = 0
      <3>1. E = {}
        BY <2>1, <2>2, RouteOfAlias DEF LoopInv, LoopTypeOK
      <3> QED
        BY <2>2, <3>1 DEF LoopSelects
    <2>3. CASE best # 0
      <3>1. best \in E /\ \A j \in E \ {best} : Preferred(name, inflight, best, j)
        BY <2>1, <2>3 DEF LoopInv
      <3>2. \A j \in E \ {best} : ~Preferred(name, inflight, j, best)
        BY <2>1, <3>1, PreferredOrder DEF LoopInv
      <3>3. selectLocked(name, attempted, inflight) = {best}
        BY <3>1, <3>2 DEF selectLocked
      <3> QED
        BY <2>3, <3>3 DEF LoopSelects
    <2> QED
      BY <2>2, <2>3
  <1> QED
    BY <1>1, LoopInit, LoopStep, PTL DEF SelectSpec
=============================================================================
