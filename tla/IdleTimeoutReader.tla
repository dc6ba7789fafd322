------------------------- MODULE IdleTimeoutReader --------------------------
(***************************************************************************)
(* forward and relay of one committed response, over the reader of         *)
(* internal/router/stream.go that cuts a silent upstream off: the handler  *)
(* copies chunks from the upstream body to the client while a timer, reset *)
(* by every Read that returned bytes, may start an expire goroutine.       *)
(*                                                                         *)
(* r.mu protects timedOut and closed only: body.Read, body.Close and the   *)
(* write to the client happen outside it and are steps of their own.  Time *)
(* is counted in ticks.                                                    *)
(***************************************************************************)
EXTENDS Integers

CONSTANTS
  Timeout,        \* response_idle_timeout_ms, in ticks
  Chunks,         \* bound: pieces of body the upstream may send
  ClientStalls,   \* the client may stop reading, for a while or for ever
  Prompt          \* goroutines that can run do so before the next tick

ASSUME ReaderAssumption ==
  /\ Timeout \in Nat \ {0}
  /\ Chunks \in Nat
  /\ ClientStalls \in BOOLEAN
  /\ Prompt \in BOOLEAN

VARIABLES
  sent,      \* chunks that have arrived from the upstream
  ended,     \* how the upstream body ended: "none" yet, "eof" or "error"
  silence,   \* ticks since the last arrival, counted up to Timeout
  left,      \* ticks until the timer fires; 0 when it is not running
  expiring,  \* expire goroutines that have not entered the critical section
  closing,   \* an expire goroutine has yet to call body.Close
  timedOut, closed,   \* the fields of idleTimeoutReadCloser
  bodyOpen,  \* the upstream body has not been closed
  closes,    \* calls of body.Close
  hpc,       \* where the handler is
  n, e,      \* what the Read in progress returns
  read,      \* chunks read from the body
  wrote      \* chunks written to the client

upstreamVars == <<sent, ended, silence>>
timerVars == <<left, expiring, closing, timedOut, closed>>
bodyVars == <<bodyOpen, closes>>
relayVars == <<hpc, n, e, read, wrote>>
readerVars == <<upstreamVars, timerVars, bodyVars, relayVars>>

HandlerPoints == {"new", "read", "got", "write", "done", "close", "returned"}

FlagsOK ==
  /\ closing \in BOOLEAN
  /\ timedOut \in BOOLEAN
  /\ closed \in BOOLEAN
  /\ bodyOpen \in BOOLEAN

ReaderTypeOK ==
  /\ FlagsOK
  /\ sent \in 0 .. Chunks
  /\ ended \in {"none", "eof", "error"}
  /\ silence \in 0 .. Timeout
  /\ left \in 0 .. Timeout
  /\ expiring \in Nat
  /\ closes \in Nat
  /\ hpc \in HandlerPoints
  /\ n \in {0, 1}
  /\ e \in {"none", "eof", "error", "idle", "write"}
  /\ read \in Nat
  /\ wrote \in Nat

(* newIdleTimeoutReadCloser: the headers are here, the timer is running.   *)
ReaderInit ==
  /\ sent = 0 /\ ended = "none" /\ silence = 0
  /\ left = Timeout /\ expiring = 0 /\ closing = FALSE
  /\ timedOut = FALSE /\ closed = FALSE
  /\ bodyOpen = TRUE /\ closes = 0
  /\ hpc = "new" /\ n = 0 /\ e = "none" /\ read = 0 /\ wrote = 0

-----------------------------------------------------------------------------
(* The upstream.                                                           *)

Arrive ==
  /\ ended = "none"
  /\ sent < Chunks
  /\ sent' = sent + 1
  /\ silence' = 0
  /\ UNCHANGED <<ended, timerVars, bodyVars, relayVars>>

(* End of body, or a broken connection or a canceled request context.      *)
UpstreamEnds(how) ==
  /\ ended = "none"
  /\ ended' = how
  /\ UNCHANGED <<sent, silence, timerVars, bodyVars, relayVars>>

-----------------------------------------------------------------------------
(* The handler: forward, relay (io.CopyBuffer), Read and the deferred Close.*)

(* forward commits and enters relay, or cannot stream and returns at once. *)
StartRelay(unsupported) ==
  /\ hpc = "new"
  /\ hpc' = IF unsupported THEN "done" ELSE "read"
  /\ UNCHANGED <<upstreamVars, timerVars, bodyVars, n, e, read, wrote>>

(* r.body.Read returns: bytes, perhaps already with EOF; the end; or an    *)
(* error because the body was closed under it.                             *)
BodyRead ==
  /\ hpc = "read"
  /\ \/ /\ bodyOpen /\ sent > read
        /\ n' = 1 /\ read' = read + 1
        /\ e' \in {"none"} \cup (IF ended = "eof" /\ sent = read + 1
                                 THEN {"eof"} ELSE {})
     \/ /\ bodyOpen /\ sent = read /\ ended # "none"
        /\ n' = 0 /\ e' = ended /\ UNCHANGED read
     \/ /\ ~bodyOpen
        /\ n' = 0 /\ e' = "error" /\ UNCHANGED read
  /\ hpc' = "got"
  /\ UNCHANGED <<upstreamVars, timerVars, bodyVars, wrote>>

(* Mutants of ReadReturns: the bytes that come with a timeout are dropped; *)
(* the timer is reset to one tick too many.                                *)
ReadDropsBytes ==
  /\ hpc = "got"
  /\ left' = IF n > 0 /\ ~closed THEN Timeout ELSE left
  /\ e' = IF timedOut THEN "idle" ELSE e
  /\ hpc' = IF n > 0 /\ ~timedOut THEN "write" ELSE "done"
  /\ UNCHANGED <<upstreamVars, expiring, closing, timedOut, closed, bodyVars,
                 n, read, wrote>>
ReadResetsLate ==
  /\ hpc = "got"
  /\ left' = IF n > 0 /\ ~closed THEN Timeout + 1 ELSE left
  /\ e' = IF timedOut THEN "idle" ELSE e
  /\ hpc' = IF n > 0 THEN "write" ELSE "done"
  /\ UNCHANGED <<upstreamVars, expiring, closing, timedOut, closed, bodyVars,
                 n, read, wrote>>

(* The critical section of Read: reset the timer, look at timedOut.        *)
ReadReturns ==
  /\ hpc = "got"
  /\ left' = IF n > 0 /\ ~closed THEN Timeout ELSE left
  /\ e' = IF timedOut THEN "idle" ELSE e
  /\ hpc' = IF n > 0 THEN "write" ELSE "done"
  /\ UNCHANGED <<upstreamVars, expiring, closing, timedOut, closed, bodyVars,
                 n, read, wrote>>

(* The write to the client returns, before the error of Read is looked at. *)
WriteReturns(ok) ==
  /\ hpc = "write"
  /\ wrote' = IF ok THEN wrote + 1 ELSE wrote
  /\ e' = IF ok THEN e ELSE "write"
  /\ hpc' = IF ok /\ e = "none" THEN "read" ELSE "done"
  /\ UNCHANGED <<upstreamVars, timerVars, bodyVars, n, read>>

(* The critical section of Close.                                          *)
Close ==
  /\ hpc = "done"
  /\ IF closed
     THEN hpc' = "returned" /\ UNCHANGED <<closed, left>>
     ELSE hpc' = "close" /\ closed' = TRUE /\ left' = 0
  /\ UNCHANGED <<upstreamVars, expiring, closing, timedOut, bodyVars, n, e, read,
                 wrote>>

(* Mutant of CloseBody: Close returns without closing the body.            *)
CloseNothing ==
  /\ hpc = "close"
  /\ hpc' = "returned"
  /\ UNCHANGED <<upstreamVars, timerVars, bodyVars, n, e, read, wrote>>

CloseBody ==
  /\ hpc = "close"
  /\ bodyOpen' = FALSE
  /\ closes' = closes + 1
  /\ hpc' = "returned"
  /\ UNCHANGED <<upstreamVars, timerVars, n, e, read, wrote>>

-----------------------------------------------------------------------------
(* The timer and the expire goroutines it starts.                          *)

(* Mutants of Expire: closed is not looked at; the body is not closed.     *)
ExpireUnchecked ==
  /\ expiring > 0
  /\ expiring' = expiring - 1
  /\ timedOut' = TRUE /\ closed' = TRUE /\ closing' = TRUE
  /\ UNCHANGED <<upstreamVars, left, bodyVars, relayVars>>
ExpireFlagsOnly ==
  /\ expiring > 0
  /\ expiring' = expiring - 1
  /\ timedOut' = TRUE /\ closed' = TRUE
  /\ UNCHANGED <<upstreamVars, left, closing, bodyVars, relayVars>>

(* The critical section of expire.                                         *)
Expire ==
  /\ expiring > 0
  /\ expiring' = expiring - 1
  /\ IF closed THEN UNCHANGED <<timedOut, closed, closing>>
               ELSE timedOut' = TRUE /\ closed' = TRUE /\ closing' = TRUE
  /\ UNCHANGED <<upstreamVars, left, bodyVars, relayVars>>

ExpireClose ==
  /\ closing
  /\ closing' = FALSE
  /\ bodyOpen' = FALSE
  /\ closes' = closes + 1
  /\ UNCHANGED <<upstreamVars, left, expiring, timedOut, closed, relayVars>>

(* Something other than the passage of time can happen in the router.      *)
Runnable ==
  \/ hpc \in {"new", "got", "done", "close"}
  \/ hpc = "read" /\ (~bodyOpen \/ sent > read \/ ended # "none")
  \/ hpc = "write" /\ ~ClientStalls
  \/ expiring > 0 \/ closing

Tick ==
  /\ Prompt => ~Runnable
  /\ silence' = IF silence < Timeout THEN silence + 1 ELSE silence
  /\ left' = IF left > 0 THEN left - 1 ELSE 0
  /\ expiring' = IF left = 1 THEN expiring + 1 ELSE expiring
  /\ UNCHANGED <<sent, ended, closing, timedOut, closed, bodyVars, relayVars>>

-----------------------------------------------------------------------------
HandlerRuns ==
  \/ \E unsupported \in BOOLEAN : StartRelay(unsupported)
  \/ BodyRead
  \/ ReadReturns
  \/ Close
  \/ CloseBody
ClientReads == \E ok \in BOOLEAN : WriteReturns(ok)
ExpireRuns == Expire \/ ExpireClose
UpstreamSends == Arrive \/ \E how \in {"eof", "error"} : UpstreamEnds(how)

ReaderNext == HandlerRuns \/ ClientReads \/ ExpireRuns \/ UpstreamSends \/ Tick

ReaderSpec == ReaderInit /\ [][ReaderNext]_readerVars

-----------------------------------------------------------------------------
(* stream.go 72-84, 105-118: the handler's Close and any number of expire  *)
(* goroutines, in any order, close the upstream body at most once between  *)
(* them, and never leave it to each other: once closed is set and nobody   *)
(* is on the way to body.Close, it has happened.                           *)
BodyClosedOnce ==
  /\ closes <= 1
  /\ closed /\ ~closing /\ hpc # "close" => ~bodyOpen

(* stream.go 86-103: no byte taken from the upstream is lost, a timeout in *)
(* the same Read included, unless the client's connection failed; and a    *)
(* relay that ends without an error has delivered the whole body.          *)
NothingLost ==
  hpc \in {"done", "close", "returned"} =>
    /\ e # "write" => wrote = read
    /\ e = "eof" => ended = "eof" /\ wrote = sent

(* The inductive invariants behind these two.  Whoever sets closed, and    *)
(* nobody else, owes the one body.Close.                                   *)
CloseOwed ==
  /\ ~closed => ~closing /\ hpc \notin {"close", "returned"} /\ bodyOpen /\ closes = 0
  /\ ~(closing /\ hpc = "close")
  /\ closing \/ hpc = "close" => bodyOpen /\ closes = 0
  /\ closed /\ ~closing /\ hpc # "close" => ~bodyOpen /\ closes = 1

(* The chunks read are those written and the one in the copy buffer.       *)
Buffered ==
  /\ read <= sent
  /\ hpc \in {"new", "read"} => wrote = read /\ e = "none"
  /\ hpc \in {"got", "write"} => wrote + n = read
  /\ hpc = "write" => n = 1
  /\ hpc \in {"got", "write"} /\ e = "eof" => ended = "eof" /\ read = sent
  /\ NothingLost
ReaderInv == ReaderTypeOK /\ CloseOwed /\ Buffered

(* ARCHITECTURE.md 89: only silence is bounded.  The timer never fires on  *)
(* an open reader before Timeout ticks have passed without new bytes.      *)
OnlySilenceExpires ==
  [][expiring' > expiring /\ ~closed => silence' >= Timeout]_readerVars

(* After forward nothing stays behind for good: the body gets closed, the  *)
(* timer and every expire goroutine come to rest.                          *)
CleanedUp == hpc = "returned" ~> [](~bodyOpen /\ expiring = 0 /\ left = 0)
=============================================================================
