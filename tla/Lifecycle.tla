----------------------------- MODULE Lifecycle ------------------------------
(***************************************************************************)
(* The process from its command line to its exit code                      *)
(* (internal/cli/app.go): the goroutine of Run, the goroutine of           *)
(* ListenAndServe, the health loops, the connections of the HTTP server    *)
(* and signals.  net/http's Shutdown and Accept are external; they are     *)
(* modelled by what runServe relies on.  What handlers and probes do to    *)
(* the routing state is in Proxy and HealthChecker; here a request is only *)
(* in progress or not, and a health loop is only running or not.           *)
(***************************************************************************)
CONSTANTS Backends, Conns

VARIABLES
  main,      \* where the goroutine of Run is
  code,      \* exit code chosen so far
  signaled,  \* SIGINT or SIGTERM reached signal.NotifyContext
  listener,  \* the goroutine of ListenAndServe; serveErr is sent as it ends
  loop,      \* the health loop of each backend
  conn,      \* connections of the server, as http.ConnState has them
  timedOut   \* Shutdown returned the error of its context

lifeVars == <<main, code, signaled, listener, loop, conn, timedOut>>

MainStates ==
  { "command",   \* Run parses the command line
    "loading",   \* runServe up to signal.NotifyContext
    "serving",   \* the select on serveErr and ctx.Done
    "draining",  \* server.Shutdown
    "waiting",   \* after stop(), in checks.Wait
    "exited",    \* os.Exit with code
    "killed" }   \* ended by a signal nobody handles

Codes == {"none", "ExitSuccess", "ExitError", "ExitUsage"}

(* Types of the lifecycle's state; only a process that is stopping has     *)
(* chosen an exit code.                                                    *)
LifecycleTypeOK ==
  /\ main \in MainStates
  /\ code \in Codes
  /\ code # "none" => main \in {"waiting", "exited", "killed"}
  /\ main = "exited" => code # "none"
  /\ signaled \in BOOLEAN
  /\ listener \in {"unstarted", "starting", "accepting", "closed", "failed"}
  /\ loop \in [Backends -> {"unstarted", "probing", "select", "done"}]
  /\ conn \in [Conns -> {"none", "new", "active", "idle"}]
  /\ timedOut \in BOOLEAN

LifecycleInit ==
  /\ main = "command"
  /\ code = "none"
  /\ signaled = FALSE
  /\ listener = "unstarted"
  /\ loop = [b \in Backends |-> "unstarted"]
  /\ conn = [c \in Conns |-> "none"]
  /\ timedOut = FALSE

Alive == main \notin {"exited", "killed"}

(* NotifyContext handles signals until stop(): not before, and a second    *)
(* one during the drain is swallowed.                                      *)
Handled == main \in {"serving", "draining"}

(* The context of the health loops: ended by a signal or by stop().        *)
Canceled == signaled \/ main \in {"waiting", "exited"}

(* server.inShutdown, set by Shutdown and never reset.                     *)
InShutdown == main = "draining" \/ (main = "waiting" /\ code = "ExitSuccess")

-----------------------------------------------------------------------------
(* The goroutine of Run.                                                   *)

Exit(c) == main' = "exited" /\ code' = c

serverVars == <<listener, loop, conn, timedOut>>

(* Run: a usage error, validate with either verdict, or on to runServe.    *)
RunCommand ==
  /\ main = "command"
  /\ \/ Exit("ExitUsage")
     \/ \E c \in {"ExitSuccess", "ExitError"} : Exit(c)
     \/ main' = "loading" /\ UNCHANGED code
  /\ UNCHANGED <<signaled, serverVars>>

(* No configuration, inbound token, backends or state: runServe gives up   *)
(* before it starts anything.                                              *)
LoadFails ==
  /\ main = "loading"
  /\ Exit("ExitError")
  /\ UNCHANGED <<signaled, serverVars>>

(* Signals are handled first, then the health loops start with their       *)
(* immediate check, then the listener's goroutine.                         *)
StartServing ==
  /\ main = "loading"
  /\ main' = "serving"
  /\ loop' = [b \in Backends |-> "probing"]
  /\ listener' = "starting"
  /\ UNCHANGED <<code, signaled, conn, timedOut>>

(* Mutant of ReceiveServeErr: every result of ListenAndServe is treated as *)
(* http.ErrServerClosed and falls through to the shutdown.                 *)
IgnoreServeErr ==
  /\ main = "serving"
  /\ listener = "failed"
  /\ main' = "draining"
  /\ UNCHANGED <<code, signaled, serverVars>>

(* Mutant of ReceiveServeErr: the code is chosen but the case does not     *)
(* return, and control falls out of the select into the shutdown.          *)
ServeErrFallsThrough ==
  /\ main = "serving"
  /\ listener = "failed"
  /\ main' = "draining"
  /\ code' = "ExitError"
  /\ UNCHANGED <<signaled, serverVars>>

(* case err := <-serveErr: no drain, stop() and checks.Wait, ExitError.    *)
(* ErrServerClosed cannot arrive here: only runServe calls Shutdown.       *)
ReceiveServeErr ==
  /\ main = "serving"
  /\ listener = "failed"
  /\ main' = "waiting"
  /\ code' = "ExitError"
  /\ UNCHANGED <<signaled, serverVars>>

(* case <-ctx.Done(): Shutdown begins.  When the listener failed as well,  *)
(* select takes either case.                                               *)
ReceiveSignal ==
  /\ main = "serving"
  /\ signaled
  /\ main' = "draining"
  /\ UNCHANGED <<code, signaled, serverVars>>

(* Mutant of ShutdownReturns: requests in progress are not waited for.     *)
ShutdownCloses ==
  /\ main = "draining"
  /\ listener # "accepting"
  /\ main' = "waiting"
  /\ code' = "ExitSuccess"
  /\ UNCHANGED <<signaled, serverVars>>

(* Shutdown returned nil: Serve has returned and closeIdleConns found no   *)
(* connection that is not idle.  Then stop() and on to checks.Wait; the    *)
(* code will be ExitSuccess.                                               *)
ShutdownReturns ==
  /\ main = "draining"
  /\ listener # "accepting"
  /\ \A c \in Conns : conn[c] \in {"none", "idle"}
  /\ main' = "waiting"
  /\ code' = "ExitSuccess"
  /\ conn' = [c \in Conns |-> "none"]
  /\ UNCHANGED <<signaled, listener, loop, timedOut>>

(* Mutant of ShutdownTimesOut: Shutdown waits on a context without a       *)
(* deadline and ends only when everything is idle.                         *)
ShutdownWithoutDeadline == ShutdownReturns

(* ShutdownTimeout passed: the error is logged and the code is the same.   *)
(* Connections stay as they are.                                           *)
ShutdownTimesOut ==
  /\ main = "draining"
  /\ listener # "accepting"
  /\ main' = "waiting"
  /\ code' = "ExitSuccess"
  /\ timedOut' = TRUE
  /\ UNCHANGED <<signaled, listener, loop, conn>>

(* Mutant of ReturnFromServe: checks.Wait is left out.                     *)
ReturnAtOnce ==
  /\ main = "waiting"
  /\ main' = "exited"
  /\ UNCHANGED <<code, signaled, serverVars>>

(* checks.Wait returned: every loop is done.  main calls os.Exit.          *)
ReturnFromServe ==
  /\ main = "waiting"
  /\ \A b \in Backends : loop[b] = "done"
  /\ main' = "exited"
  /\ UNCHANGED <<code, signaled, serverVars>>

-----------------------------------------------------------------------------
(* Signals.                                                                *)

Signal ==
  /\ Alive
  /\ IF Handled THEN signaled' = TRUE /\ UNCHANGED main
                ELSE main' = "killed" /\ UNCHANGED signaled
  /\ UNCHANGED <<code, serverVars>>

-----------------------------------------------------------------------------
(* The goroutine of ListenAndServe and the connections (net/http).         *)

(* The port may be taken.  After Shutdown began nothing is opened.         *)
Listen ==
  /\ Alive
  /\ listener = "starting"
  /\ listener' \in IF InShutdown THEN {"closed", "failed"} ELSE {"accepting", "failed"}
  /\ UNCHANGED <<main, code, signaled, loop, conn, timedOut>>

(* Serve returns: ErrServerClosed once Shutdown closed the listener,       *)
(* before that on an Accept error that is not temporary.                   *)
ServeEnds ==
  /\ Alive
  /\ listener = "accepting"
  /\ listener' = IF InShutdown THEN "closed" ELSE "failed"
  /\ UNCHANGED <<main, code, signaled, loop, conn, timedOut>>

connUnchanged == UNCHANGED <<main, code, signaled, listener, loop, timedOut>>

(* A client connects; a last one may get in just after Shutdown began.     *)
Accept(c) ==
  /\ Alive
  /\ listener = "accepting"
  /\ conn[c] = "none"
  /\ conn' = [conn EXCEPT ![c] = "new"]
  /\ connUnchanged

(* A request is read and its handler starts, also during a drain and after *)
(* the listener has failed: the first of a connection, or the next one.    *)
BeginRequest(c) ==
  /\ Alive
  /\ conn[c] \in {"new", "idle"}
  /\ conn' = [conn EXCEPT ![c] = "active"]
  /\ connUnchanged

(* The handler returns and the connection is kept alive; Shutdown turns    *)
(* that off.                                                               *)
EndRequest(c) ==
  /\ Alive
  /\ conn[c] = "active" /\ ~InShutdown
  /\ conn' = [conn EXCEPT ![c] = "idle"]
  /\ connUnchanged

(* The connection ends: its handler returned and it is not kept alive, or  *)
(* no request came and the client, a timeout or Shutdown closed it.        *)
EndConn(c) ==
  /\ Alive
  /\ conn[c] # "none"
  /\ conn' = [conn EXCEPT ![c] = "none"]
  /\ connUnchanged

-----------------------------------------------------------------------------
(* The health loops under the context of runServe.                         *)

loopUnchanged == UNCHANGED <<main, code, signaled, listener, conn, timedOut>>

(* check() ends: answer, timeout, or at once because of the context.  The  *)
(* first check comes before the first look at the context.                 *)
CheckEnds(b) ==
  /\ Alive
  /\ loop[b] = "probing"
  /\ loop' = [loop EXCEPT ![b] = "select"]
  /\ loopUnchanged

(* case <-ticker.C, which select may prefer to a context that has ended.   *)
Tick(b) ==
  /\ Alive
  /\ loop[b] = "select"
  /\ loop' = [loop EXCEPT ![b] = "probing"]
  /\ loopUnchanged

(* case <-ctx.Done(): the loop returns.                                    *)
LoopReturns(b) ==
  /\ Alive
  /\ loop[b] = "select"
  /\ Canceled
  /\ loop' = [loop EXCEPT ![b] = "done"]
  /\ loopUnchanged

-----------------------------------------------------------------------------
MainStep ==
  \/ RunCommand \/ LoadFails \/ StartServing
  \/ ReceiveServeErr \/ ReceiveSignal
  \/ ShutdownReturns \/ ShutdownTimesOut
  \/ ReturnFromServe

LifecycleNext ==
  \/ MainStep
  \/ Signal
  \/ Listen \/ ServeEnds
  \/ \E c \in Conns : Accept(c) \/ BeginRequest(c) \/ EndRequest(c) \/ EndConn(c)
  \/ \E b \in Backends : CheckEnds(b) \/ Tick(b) \/ LoopReturns(b)

LifecycleSpec == LifecycleInit /\ [][LifecycleNext]_lifeVars

(* Goroutines that can run do run; probes end after HealthTimeout and      *)
(* Shutdown after ShutdownTimeout; a closed listener makes Serve return.   *)
(* select chooses at random, so a loop does not pick the ticker for ever.  *)
(* Nothing is assumed of clients, handlers and the end of requests.        *)
LifecycleFairSpec ==
  /\ LifecycleSpec
  /\ WF_lifeVars(ReceiveServeErr \/ ReceiveSignal)
  /\ WF_lifeVars(ShutdownReturns \/ ShutdownTimesOut)
  /\ WF_lifeVars(ReturnFromServe)
  /\ WF_lifeVars(InShutdown /\ ServeEnds)
  /\ \A b \in Backends :
       /\ WF_lifeVars(CheckEnds(b))
       /\ SF_lifeVars(LoopReturns(b))

-----------------------------------------------------------------------------
(* When runServe has returned, by whichever path, no health loop is still  *)
(* running and no connection is accepted any more (app.go:150, "so no      *)
(* goroutine outlives serve", as far as the code waits).                   *)
ServeStopsEverything ==
  main = "exited" =>
    /\ \A b \in Backends : loop[b] \in {"unstarted", "done"}
    /\ listener # "accepting"

(* Once a drain has ended without the timeout, no request is in progress,  *)
(* and none begins while the health loops are waited for: a signal that    *)
(* arrives while the listener is still starting, or while a connection has *)
(* no request yet or waits idle for its next one, cuts nobody off.         *)
DrainComplete ==
  main \in {"waiting", "exited"} /\ code = "ExitSuccess" /\ ~timedOut =>
    \A c \in Conns : conn[c] = "none"

(* serve reports success only if it was asked to stop, and failure only if *)
(* it could not start or its listener failed on its own.                   *)
ExitCodeTruthful ==
  main = "exited" /\ listener # "unstarted" =>
    IF signaled THEN code = "ExitSuccess" \/ listener = "failed"
                ELSE code = "ExitError" /\ listener = "failed"

(* A signal, or a listener that fails, ends the process, however long      *)
(* clients and handlers take and whatever the health loops are doing.      *)
ServeTerminates == (signaled \/ (main = "serving" /\ listener = "failed")) ~> ~Alive

(* What makes the three invariants inductive: nothing runs before serving  *)
(* starts, only a signal starts a drain, and the two ways into checks.Wait *)
(* each leave a listener that cannot accept again.                         *)
NotStarted ==
  /\ listener = "unstarted" /\ ~signaled /\ ~timedOut
  /\ loop = [b \in Backends |-> "unstarted"]
  /\ conn = [c \in Conns |-> "none"]

StopIsOrderly ==
  /\ main \in {"command", "loading"} => NotStarted
  /\ main \in {"serving", "draining"} => listener # "unstarted"
  /\ main = "draining" => signaled
  /\ main = "waiting" =>
       \/ code = "ExitSuccess" /\ signaled /\ listener \notin {"unstarted", "accepting"}
       \/ code = "ExitError" /\ listener = "failed"

LifecycleInv ==
  LifecycleTypeOK /\ StopIsOrderly /\ ServeStopsEverything /\ DrainComplete /\ ExitCodeTruthful
=============================================================================
