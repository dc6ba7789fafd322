--------------------------- MODULE MCProbeHistory ---------------------------
(***************************************************************************)
(* ProbeHistory on the configurations of MCRouter.                         *)
(***************************************************************************)
EXTENDS MCRouter, ProbeHistory
=============================================================================
