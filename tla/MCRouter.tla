------------------------------ MODULE MCRouter ------------------------------
(***************************************************************************)
(* Router on small configurations.                                         *)
(***************************************************************************)
EXTENDS Router, TLC

CONSTANTS b1, b2

Route(b, p) == [backend |-> b, priority |-> p]

(* One alias on two backends of equal priority: the least loaded is taken, *)
(* and each is where the other's requests fail over to.                    *)
TwoBackends == "chat" :> << Route(b1, 0), Route(b2, 0) >>

(* One alias, one backend, two models: failover without any slack.         *)
OneBackend == "chat" :> << Route(b1, 0), Route(b1, 0) >>

OneEach == b1 :> 1 @@ b2 :> 1
Single == b1 :> 1
Double == b1 :> 2

Symmetry == Permutations(Requests)
=============================================================================
