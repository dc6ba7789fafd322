---------------------------- MODULE CapacitySlots ---------------------------
(***************************************************************************)
(* What the routing state promises, without counters: a set of backends    *)
(* with Capacity[b] slots each.  A request holds at most one slot at a     *)
(* time; it takes one on a usable backend with a free slot, moves it in    *)
(* one step to a usable backend that has a free slot once its own is put   *)
(* back, or gives it up.  Which backends are usable changes on its own.    *)
(***************************************************************************)
EXTENDS Integers, FiniteSets

CONSTANTS Backends, Requests, Capacity, None

VARIABLES
  slot,      \* request |-> the backend it holds a slot of, or None
  usable     \* the backends that may be selected

slotVars == <<slot, usable>>

(* The requests other than r that hold a slot of b.                        *)
OthersOn(r, b) == {q \in Requests \ {r} : slot[q] = b}

Init ==
  /\ slot = [r \in Requests |-> None]
  /\ usable = {}

(* r ends up on b, from no slot or from a slot elsewhere (or on b itself). *)
Take(r, b) ==
  /\ b \in usable
  /\ Cardinality(OthersOn(r, b)) < Capacity[b]
  /\ slot' = [slot EXCEPT ![r] = b]
  /\ UNCHANGED usable

Give(r) ==
  /\ slot' = [slot EXCEPT ![r] = None]
  /\ UNCHANGED usable

ChangeUsable ==
  /\ usable' \in SUBSET Backends
  /\ UNCHANGED slot

Next ==
  \/ \E r \in Requests : Give(r) \/ \E b \in Backends : Take(r, b)
  \/ ChangeUsable

Spec == Init /\ [][Next]_slotVars
=============================================================================
