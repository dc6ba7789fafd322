---------------------------- MODULE ProbeHistory ----------------------------
(***************************************************************************)
(* Router with one history variable: whether the outcome that the health   *)
(* loop of a backend is about to report is older than the latest transport *)
(* failure seen on that backend.                                           *)
(***************************************************************************)
EXTENDS Router

VARIABLE outdated   \* backend |-> its unreported probe result predates a quarantine

Quarantines(r, b) ==
  /\ pc[r] = "failed"
  /\ Upstream(r) = b
  /\ FailQuarantine(r)

HistoryInit == Init /\ outdated = [b \in Backends |-> FALSE]

HistoryNext ==
  /\ Next
  /\ outdated' =
       [b \in Backends |->
          \/ loop[b] \in {"passed", "missed"} /\ \E r \in Requests : Quarantines(r, b)
          \/ outdated[b] /\ loop'[b] # "waiting"]

HistorySpec == HistoryInit /\ [][HistoryNext]_<<vars, outdated>>

(* README.md 246, proxy.go 127-129: a backend that failed in transport is  *)
(* skipped until a LATER successful probe restores it: it does not become  *)
(* healthy by a probe whose answer had come in before the failure.         *)
RestoredByLaterProbe ==
  [][\A b \in Backends : ~healthy[b] /\ healthy'[b] => ~outdated[b]]_<<vars, outdated>>
=============================================================================
