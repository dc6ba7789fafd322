----------------------------- MODULE SlotsProofs ----------------------------
(***************************************************************************)
(* Router implements CapacitySlots under the mapping of Router!Slots.      *)
(***************************************************************************)
EXTENDS RouterProofs

(* CapacitySlots brings its own copy of FiniteSets.                        *)
LEMMA SameCardinality == \A S : Slots!Cardinality(S) = Cardinality(S)
  BY Zenon DEF Slots!Cardinality, Cardinality, Slots!IsFiniteSet, IsFiniteSet

(* The others on b, in slots and in handlers.                              *)
LEMMA OthersAreHolders ==
  ASSUME NEW r \in Requests, NEW b \in Backends
  PROVE  Slots!OthersOn(r, b) = Holders(b) \ {r}
  BY NoSlotAssumption DEF NoSlotAssumption, Slots!OthersOn, slots, Holders

(* A handler that keeps its slot changes none, and usable backends stay    *)
(* usable when the flags do.                                               *)
LEMMA SlotsStay ==
  ASSUME NEW r \in Requests, OnlyMoves(r),
         \/ pc[r] \notin Holding /\ pc'[r] \notin Holding
         \/ pc[r] \in Holding /\ pc'[r] \in Holding /\ Upstream(r)' = Upstream(r)
  PROVE  slots' = slots
  <1> SUFFICES ASSUME NEW q \in Requests
               PROVE  (IF pc'[q] \in Holding THEN Upstream(q)' ELSE NoSlot) =
                      (IF pc[q] \in Holding THEN Upstream(q) ELSE NoSlot)
    BY DEF slots
  <1>1. CASE q = r
    BY <1>1
  <1>2. CASE q # r
    BY <1>2 DEF OnlyMoves, Upstream, BackendOf
  <1> QED
    BY <1>1, <1>2

LEMMA UsablesStay ==
  ASSUME UNCHANGED flags
  PROVE  usables' = usables
  BY DEF flags, usables, Usable

(* The slots after a step of r that leaves it on B, or on none.            *)
LEMMA SlotsMove ==
  ASSUME NEW r \in Requests, OnlyMoves(r), NEW x,
         x = IF pc'[r] \in Holding THEN Upstream(r)' ELSE NoSlot
  PROVE  slots' = [slots EXCEPT ![r] = x]
  <1>1. \A q \in Requests \ {r} :
          (IF pc'[q] \in Holding THEN Upstream(q)' ELSE NoSlot) = slots[q]
    BY DEF OnlyMoves, slots, Upstream, BackendOf
  <1> QED
    BY <1>1 DEF slots

(* Taking a slot: r ends up on a usable B that the others do not fill.     *)
LEMMA MapsToTake ==
  ASSUME NEW r \in Requests, OnlyMoves(r), NEW B \in Backends, UNCHANGED flags,
         Usable(B), Cardinality(Holders(B) \ {r}) < MaxInflight[B],
         pc'[r] \in Holding, Upstream(r)' = B
  PROVE  Slots!Next
  <1>1. slots' = [slots EXCEPT ![r] = B]
    BY SlotsMove
  <1>2. B \in usables /\ usables' = usables
    BY UsablesStay DEF usables
  <1>3. Cardinality(Slots!OthersOn(r, B)) < MaxInflight[B]
    BY OthersAreHolders
  <1>4. Slots!Take(r, B)
    BY <1>1, <1>2, <1>3, SameCardinality DEF Slots!Take
  <1> QED
    BY <1>4 DEF Slots!Next

LEMMA MapsToGive ==
  ASSUME NEW r \in Requests, OnlyMoves(r), UNCHANGED flags, pc'[r] \notin Holding
  PROVE  Slots!Next
  <1>1. slots' = [slots EXCEPT ![r] = NoSlot]
    BY SlotsMove
  <1>2. usables' = usables
    BY UsablesStay
  <1>3. Slots!Give(r)
    BY <1>1, <1>2 DEF Slots!Give
  <1> QED
    BY <1>3 DEF Slots!Next

LEMMA MapsToChange ==
  ASSUME slots' = slots
  PROVE  Slots!Next
  <1>1. usables' \in SUBSET Backends
    BY DEF usables
  <1>2. Slots!ChangeUsable
    BY <1>1 DEF Slots!ChangeUsable
  <1> QED
    BY <1>2 DEF Slots!Next

-----------------------------------------------------------------------------
(* Every step of a handler is a step on the slots.                         *)

(* Holders other than r are one fewer than the counter when r is one.      *)
LEMMA OthersCount ==
  ASSUME IndInv, NEW r \in Requests, NEW b \in Backends
  PROVE  Cardinality(Holders(b) \ {r}) =
           IF r \in Holders(b) THEN inflight[b] - 1 ELSE inflight[b]
  <1>1. inflight[b] = Cardinality(Holders(b))
    BY DEF IndInv, ReservationsAccounted
  <1>2. IsFiniteSet(Holders(b))
    BY FS_Subset, GoroutineAssumption DEF GoroutineAssumption, Holders
  <1>3. CASE r \in Holders(b)
    BY <1>1, <1>2, <1>3, FS_RemoveElement
  <1>4. CASE r \notin Holders(b)
    <2>1. Holders(b) \ {r} = Holders(b)
      BY <1>4
    <2> QED
      BY <1>1, <1>4, <2>1
  <1> QED
    BY <1>3, <1>4

LEMMA ClientRefines ==
  ASSUME IndInv, NEW r \in Requests, ClientStep(r)
  PROVE  Slots!Next
  <1>0. ProxyTypeOK
    BY DEF IndInv, TypeOK
  <1>1. ASSUME NEW m \in Names, ServeUnknownAlias(r, m) \/ ServeNoRoute(r, m)
        PROVE  Slots!Next
    <2>1. OnlyMoves(r) /\ pc[r] \notin Holding /\ pc'[r] \notin Holding
      BY <1>1 DEF ServeUnknownAlias, ServeNoRoute, Turned, OnlyMoves, Holding
    <2> QED
      BY <2>1, SlotsStay, MapsToChange
  <1>2. ASSUME NEW m \in Aliases, NEW i \in RouteIds(m), ServeReserve(r, m, i)
        PROVE  Slots!Next
    <2> DEFINE B == BackendOf(m, i)
    <2>1. /\ OnlyMoves(r) /\ pc[r] \notin Holding /\ pc'[r] \in Holding
          /\ Upstream(r)' = B
      BY <1>0, <1>2 DEF ServeReserve, Goto, ProxyTypeOK, OnlyMoves, Holding, Upstream,
                        BackendOf
    <2>2. B \in Backends
      BY RouteBackend
    <2>3. inflight[B] < MaxInflight[B] /\ Usable(B) /\ UNCHANGED flags
      BY <1>2, SelectedHasRoom DEF ServeReserve, Reserve
    <2>4. Cardinality(Holders(B) \ {r}) = inflight[B]
      BY <2>1, <2>2, OthersCount, HolderOf
    <2> HIDE DEF B
    <2> QED
      BY <2>1, <2>2, <2>3, <2>4, MapsToTake
  <1>3. CASE ClientLeaves(r)
    <2>1. slots' = slots
      BY <1>3 DEF ClientLeaves, slots, Upstream, BackendOf
    <2> QED
      BY <2>1, MapsToChange
  <1>4. CASE RelayEnds(r)
    <2>1. /\ OnlyMoves(r) /\ pc[r] \in Holding /\ pc'[r] \in Holding
          /\ Upstream(r)' = Upstream(r)
      BY <1>0, <1>4 DEF RelayEnds, Goto, ProxyTypeOK, OnlyMoves, Holding, Upstream,
                        BackendOf
    <2> QED
      BY <2>1, SlotsStay, MapsToChange
  <1> QED
    BY <1>1, <1>2, <1>3, <1>4 DEF ClientStep

LEMMA HandlerRefines ==
  ASSUME Writable, IndInv, NEW r \in Requests, HandlerStep(r)
  PROVE  Slots!Next
  <1>0. ProxyTypeOK
    BY DEF IndInv, TypeOK
  <1>a. pc[r] # "idle" => /\ alias[r] \in Aliases
                          /\ route[r] \in RouteIds(alias[r])
                          /\ Upstream(r) \in Backends
    BY RouteBackend DEF IndInv, Routed, Upstream
  <1>1. CASE \/ AttemptSend(r)
             \/ \E x \in Errors : AttemptFails(r, x)
             \/ \E s \in Statuses : AttemptResponds(r, s)
    <2>1. /\ OnlyMoves(r) /\ pc[r] \in Holding /\ pc'[r] \in Holding
          /\ Upstream(r)' = Upstream(r)
      BY <1>0, <1>1 DEF AttemptSend, AttemptFails, AttemptResponds, AttemptUnchanged,
           Goto, ProxyTypeOK, OnlyMoves, Holding, Upstream, BackendOf
    <2> QED
      BY <2>1, SlotsStay, MapsToChange
  <1>2. CASE \/ FailQuarantine(r) \/ SwapCloseOld(r)
             \/ ForwardUnsupported(r) \/ ForwardCommit(r)
    <2>1. /\ OnlyMoves(r) /\ pc[r] \in Holding /\ pc'[r] \in Holding
          /\ Upstream(r)' = Upstream(r)
      BY <1>0, <1>2 DEF FailQuarantine, SwapCloseOld, ForwardUnsupported,
           ForwardCommit, Final, Goto, ProxyTypeOK, OnlyMoves, Holding, Upstream,
           BackendOf
    <2> QED
      BY <2>1, SlotsStay, MapsToChange
  <1>3. CASE FailFinally(r)
    <2>1. OnlyMoves(r) /\ pc[r] \notin Holding /\ pc'[r] \notin Holding
      BY <1>0, <1>3 DEF FailFinally, Return, Goto, ProxyTypeOK, OnlyMoves, Holding
    <2> QED
      BY <2>1, SlotsStay, MapsToChange
  <1>4. CASE Publish(r) /\ UNCHANGED handlerVars
    <2>1. slots' = slots
      BY <1>4 DEF handlerVars, slots, Upstream, BackendOf
    <2> QED
      BY <2>1, MapsToChange
  <1>5. CASE FailCanceled(r) \/ FailRelease(r) \/ ForwardRelease(r)
    <2>1. OnlyMoves(r) /\ pc'[r] \notin Holding /\ UNCHANGED flags
      BY <1>0, <1>5 DEF FailCanceled, FailRelease, ForwardRelease, Return, Release,
           Goto, ProxyTypeOK, OnlyMoves, Holding
    <2> QED
      BY <2>1, MapsToGive
  <1>6. ASSUME pc[r] = "failover", NEW i \in RouteIds(alias[r]), FailOver(r, i)
        PROVE  Slots!Next
    <2> DEFINE B == BackendOf(alias[r], i)
    <2>1. /\ OnlyMoves(r) /\ pc[r] \notin Holding /\ pc'[r] \in Holding
          /\ Upstream(r)' = B
      BY <1>0, <1>6 DEF FailOver, Goto, ProxyTypeOK, OnlyMoves, Holding, Upstream,
                        BackendOf
    <2>2. B \in Backends
      BY <1>6, <1>a, RouteBackend
    <2>3. inflight[B] < MaxInflight[B] /\ Usable(B) /\ UNCHANGED flags
      BY <1>6, SelectedHasRoom DEF FailOver, Reserve
    <2>4. Cardinality(Holders(B) \ {r}) = inflight[B]
      BY <2>1, <2>2, OthersCount, HolderOf
    <2> HIDE DEF B
    <2> QED
      BY <2>1, <2>2, <2>3, <2>4, MapsToTake
  <1>7. ASSUME pc[r] = "responded", NEW i \in RouteIds(alias[r]), Swap(r, i)
        PROVE  Slots!Next
    <2> DEFINE B == Upstream(r)
               C == BackendOf(alias[r], i)
    <2>1. /\ OnlyMoves(r) /\ pc[r] \in Holding /\ pc'[r] \in Holding
          /\ Upstream(r)' = C
      BY <1>0, <1>7 DEF Swap, Goto, ProxyTypeOK, OnlyMoves, Holding, Upstream,
                        BackendOf
    <2>2. B \in Backends /\ C \in Backends
      BY <1>7, <1>a, RouteBackend
    <2>3. SwapReservation(r, alias[r], route[r], attempted[r], i)
      BY <1>7 DEF Swap
    <2>4. i \in selectLocked(alias[r], attempted[r], Freed(B)) /\ UNCHANGED flags
      BY <2>3 DEF SwapReservation, Upstream
    <2>5. Freed(B)[C] < MaxInflight[C] /\ Usable(C)
      BY <2>4, SelectedHasRoom
    <2>6. Freed(B)[C] = IF C = B THEN inflight[C] - 1 ELSE inflight[C]
      BY <2>2 DEF Freed, IndInv, TypeOK, RoutingStateTypeOK
    <2>7. r \in Holders(C) <=> C = B
      BY <2>1, <2>2, HolderOf
    <2>8. Cardinality(Holders(C) \ {r}) = Freed(B)[C]
      BY <2>2, <2>6, <2>7, OthersCount
    <2> HIDE DEF B, C
    <2> QED
      BY <2>1, <2>2, <2>4, <2>5, <2>8, MapsToTake
  <1>8. ~ForwardPanics(r)
    BY NoPanic DEF IndInv, Typed
  <1> QED
    BY <1>1, <1>2, <1>3, <1>4, <1>5, <1>6, <1>7, <1>8 DEF HandlerStep

LEMMA StepRefines ==
  ASSUME Writable
  PROVE  IndInv /\ [Next]_vars => [Slots!Next]_(Slots!slotVars)
  <1> SUFFICES ASSUME IndInv, [Next]_vars
               PROVE  Slots!Next \/ UNCHANGED Slots!slotVars
    OBVIOUS
  <1>1. ASSUME NEW r \in Requests, ClientStep(r) \/ HandlerStep(r) PROVE Slots!Next
    BY <1>1, ClientRefines, HandlerRefines
  <1>2. ASSUME UNCHANGED handlerVars PROVE Slots!Next
    <2>1. slots' = slots
      BY <1>2 DEF handlerVars, slots, Upstream, BackendOf
    <2> QED
      BY <2>1, MapsToChange
  <1>3. UNCHANGED vars => UNCHANGED handlerVars
    BY DEF vars
  <1> QED
    BY <1>1, <1>2, <1>3 DEF Next

LEMMA InitRefines == Init => Slots!Init
  BY DEF Init, RoutingStateInit, ProxyInit, Slots!Init, slots, usables, Usable, Holding

(* ARCHITECTURE.md "Capacity Reservation": for every configuration and any *)
(* number of requests the counters and the mutex implement a set of slots, *)
(* each held by one request and moved or given back in one step.           *)
THEOREM SlotsImplemented ==
  ASSUME Writable
  PROVE  Spec => ImplementsSlots
  BY InitRefines, StepRefines, Invariance, PTL DEF Spec, ImplementsSlots, Slots!Spec
=============================================================================
