---------------------------- MODULE HealthChecker ---------------------------
(***************************************************************************)
(* The health loops of internal/backend/health.go: one goroutine per       *)
(* backend that probes it at once and then on every tick, and reports each *)
(* result to State.SetHealth.  A probe is split at the network: it is sent,*)
(* the backend's answer (or the 2 s timeout) fixes the result, and only    *)
(* later does the loop report that result, so reports may be stale.        *)
(***************************************************************************)
EXTENDS RoutingState

VARIABLE loop   \* where the health loop of each backend is

LoopStates ==
  { "waiting",   \* before the first check, or in the select on ticker.C
    "probing",   \* client.Do on the health endpoint
    "passed",    \* the probe returned 200, SetHealth not called yet
    "missed" }   \* any other status, transport error or timeout

HealthCheckerTypeOK == loop \in [Backends -> LoopStates]

HealthCheckerInit == loop = [b \in Backends |-> "waiting"]

(* check() begins: immediately at startup, later whenever the ticker fires.*)
StartProbe(b) ==
  /\ loop[b] = "waiting"
  /\ Published(b)
  /\ loop' = [loop EXCEPT ![b] = "probing"]
  /\ UNCHANGED stateVars

(* probe returns; only a 200 counts, whatever the body says.               *)
ProbeReturns(b, ok) ==
  /\ loop[b] = "probing"
  /\ loop' = [loop EXCEPT ![b] = IF ok THEN "passed" ELSE "missed"]
  /\ UNCHANGED stateVars

(* Mutants of ReportHealth: a result that agrees with the current flag is  *)
(* not passed on; nor is a success once the backend has been checked.      *)
ReportChangesOnly(b) ==
  /\ loop[b] \in {"passed", "missed"}
  /\ loop' = [loop EXCEPT ![b] = "waiting"]
  /\ IF checked[b] /\ healthy[b] = (loop[b] = "passed")
     THEN UNCHANGED stateVars
     ELSE SetHealth(b, b, loop[b] = "passed")
ReportMissedOnly(b) ==
  /\ loop[b] \in {"passed", "missed"}
  /\ loop' = [loop EXCEPT ![b] = "waiting"]
  /\ IF checked[b] /\ loop[b] = "passed" THEN UNCHANGED stateVars
                                         ELSE SetHealth(b, b, loop[b] = "passed")

(* c.sink.SetHealth(b.Name, healthy), on every check, changed or not.      *)
ReportHealth(b) ==
  /\ loop[b] \in {"passed", "missed"}
  /\ SetHealth(b, b, loop[b] = "passed")
  /\ loop' = [loop EXCEPT ![b] = "waiting"]

CheckerStep(b) ==
  \/ StartProbe(b)
  \/ \E ok \in BOOLEAN : ProbeReturns(b, ok)
  \/ ReportHealth(b)
  \/ Publish(b) /\ UNCHANGED loop
=============================================================================
