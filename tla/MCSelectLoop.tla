---------------------------- MODULE MCSelectLoop ----------------------------
(***************************************************************************)
(* SelectLoop on every list of up to MaxRoutes routes over two backends    *)
(* and two priorities.  Each list is the name of the alias it belongs to.  *)
(***************************************************************************)
EXTENDS SelectLoop

CONSTANTS MaxRoutes, Priorities

Lists == UNION {[1 .. n -> [backend : Backends, priority : Priorities]] :
                  n \in 1 .. MaxRoutes}
ListAliases == [l \in Lists |-> l]
TwoSlots == [b \in Backends |-> 2]
=============================================================================
