-------------------------- MODULE LifecycleProofs ---------------------------
(***************************************************************************)
(* Proofs about the process lifecycle, for any backends and connections.   *)
(***************************************************************************)
EXTENDS Lifecycle, TLAPS

(* The invariant holds before the command line is read.                    *)
LEMMA LifecycleInvInit == LifecycleInit => LifecycleInv
BY DEF LifecycleInit, LifecycleInv, LifecycleTypeOK, StopIsOrderly, NotStarted,
       ServeStopsEverything, DrainComplete, ExitCodeTruthful, MainStates, Codes

(* Every step of Run and runServe keeps the invariant.                     *)
LEMMA MainKeepsInv == LifecycleInv /\ MainStep => LifecycleInv'
<1> SUFFICES ASSUME LifecycleInv, MainStep PROVE LifecycleInv'
  OBVIOUS
<1> USE DEF LifecycleInv, LifecycleTypeOK, StopIsOrderly, ServeStopsEverything,
            DrainComplete, ExitCodeTruthful, MainStates, Codes, serverVars
<1>1. CASE RunCommand
  BY <1>1 DEF RunCommand, Exit, NotStarted
<1>2. CASE LoadFails
  BY <1>2 DEF LoadFails, Exit, NotStarted
<1>3. CASE StartServing
  BY <1>3 DEF StartServing, NotStarted
<1>4. CASE ReceiveServeErr
  BY <1>4 DEF ReceiveServeErr
<1>5. CASE ReceiveSignal
  BY <1>5 DEF ReceiveSignal
<1>6. CASE ShutdownReturns
  BY <1>6 DEF ShutdownReturns
<1>7. CASE ShutdownTimesOut
  BY <1>7 DEF ShutdownTimesOut
<1>8. CASE ReturnFromServe
  BY <1>8 DEF ReturnFromServe
<1> QED
  BY <1>1, <1>2, <1>3, <1>4, <1>5, <1>6, <1>7, <1>8 DEF MainStep

(* So do signals and the listener's goroutine.                             *)
LEMMA ListenerKeepsInv == LifecycleInv /\ (Signal \/ Listen \/ ServeEnds) => LifecycleInv'
<1> SUFFICES ASSUME LifecycleInv, Signal \/ Listen \/ ServeEnds PROVE LifecycleInv'
  OBVIOUS
<1> USE DEF LifecycleInv, LifecycleTypeOK, StopIsOrderly, ServeStopsEverything,
            DrainComplete, ExitCodeTruthful, MainStates, Codes, Alive
<1>1. CASE Signal
  BY <1>1 DEF Signal, Handled, serverVars, NotStarted
<1>2. CASE Listen
  BY <1>2 DEF Listen, InShutdown, NotStarted
<1>3. CASE ServeEnds
  BY <1>3 DEF ServeEnds, InShutdown, NotStarted
<1> QED
  BY <1>1, <1>2, <1>3

(* And connections: after a complete drain there is none, and none is      *)
(* accepted.                                                               *)
LEMMA ConnKeepsInv ==
  ASSUME NEW c \in Conns, LifecycleInv,
         Accept(c) \/ BeginRequest(c) \/ EndRequest(c) \/ EndConn(c)
  PROVE  LifecycleInv'
<1> USE DEF LifecycleInv, LifecycleTypeOK, StopIsOrderly, ServeStopsEverything,
            DrainComplete, ExitCodeTruthful, MainStates, Codes, Alive, connUnchanged, NotStarted
<1>1. CASE Accept(c)
  BY <1>1 DEF Accept, InShutdown
<1>2. CASE BeginRequest(c)
  BY <1>2 DEF BeginRequest
<1>3. CASE EndConn(c)
  BY <1>3 DEF EndConn
<1>4. CASE EndRequest(c)
  BY <1>4 DEF EndRequest
<1> QED
  BY <1>1, <1>2, <1>3, <1>4

(* And the health loops, which nothing but runServe's return depends on.   *)
LEMMA LoopKeepsInv ==
  ASSUME NEW b \in Backends, LifecycleInv, CheckEnds(b) \/ Tick(b) \/ LoopReturns(b)
  PROVE  LifecycleInv'
<1> USE DEF LifecycleInv, LifecycleTypeOK, StopIsOrderly, ServeStopsEverything,
            DrainComplete, ExitCodeTruthful, MainStates, Codes, Alive, loopUnchanged, NotStarted
<1>1. CASE CheckEnds(b)
  BY <1>1 DEF CheckEnds
<1>2. CASE Tick(b)
  BY <1>2 DEF Tick
<1>3. CASE LoopReturns(b)
  BY <1>3 DEF LoopReturns
<1> QED
  BY <1>1, <1>2, <1>3

(* The inductive invariant holds in every state of the process.            *)
THEOREM LifecycleInvHolds == LifecycleSpec => []LifecycleInv
<1>1. LifecycleInv /\ [LifecycleNext]_lifeVars => LifecycleInv'
  <2> SUFFICES ASSUME LifecycleInv, [LifecycleNext]_lifeVars PROVE LifecycleInv'
    OBVIOUS
  <2>1. CASE LifecycleNext
    BY <2>1, MainKeepsInv, ListenerKeepsInv, ConnKeepsInv, LoopKeepsInv DEF LifecycleNext
  <2>2. CASE UNCHANGED lifeVars
    BY <2>2 DEF lifeVars, LifecycleInv, LifecycleTypeOK, StopIsOrderly, NotStarted,
                ServeStopsEverything, DrainComplete, ExitCodeTruthful
  <2> QED
    BY <2>1, <2>2
<1> QED
  BY <1>1, LifecycleInvInit, PTL DEF LifecycleSpec

(* Every variable of the process keeps its type.                           *)
THEOREM LifecycleTypes == LifecycleSpec => []LifecycleTypeOK
BY LifecycleInvHolds, PTL DEF LifecycleInv

(* For any number of backends and connections, runServe returns only after *)
(* its health loops have stopped and its listener no longer accepts.       *)
THEOREM StopsEverything == LifecycleSpec => []ServeStopsEverything
BY LifecycleInvHolds, PTL DEF LifecycleInv

(* For any number of connections, a drain that does not time out ends with *)
(* no request in progress, and none begins before the exit.                *)
THEOREM Drains == LifecycleSpec => []DrainComplete
BY LifecycleInvHolds, PTL DEF LifecycleInv

(* The exit code of serve tells a requested stop from a failed listener.   *)
THEOREM ExitCodeHolds == LifecycleSpec => []ExitCodeTruthful
BY LifecycleInvHolds, PTL DEF LifecycleInv
=============================================================================
