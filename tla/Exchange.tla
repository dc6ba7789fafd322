------------------------------ MODULE Exchange ------------------------------
(***************************************************************************)
(* One whole attempt on an upstream: attempt of internal/router/proxy.go   *)
(* up to the response headers, over a client with the timeouts of          *)
(* internal/backend/client.go, and then forward, which is the reader.  The *)
(* phases are those of net/http's transport, which is external; the code   *)
(* decides which of them has a deadline.  Time is counted in the reader's  *)
(* ticks.                                                                  *)
(***************************************************************************)
EXTENDS IdleTimeoutReader

CONSTANTS
  ConnectTimeout,   \* DialTimeout and TLSHandshakeTimeout
  HeaderTimeout,    \* response_header_timeout_ms
  UpstreamReads     \* an upstream that accepted the connection reads the request

ASSUME ExchangeAssumption ==
  /\ ConnectTimeout \in Nat \ {0}
  /\ HeaderTimeout \in Nat \ {0}
  /\ UpstreamReads \in BOOLEAN

VARIABLES
  phase,   \* how far the exchange is
  wait     \* ticks until the deadline of the phase; 0 when past or without one

exchangeVars == <<phase, wait, readerVars>>

Before ==        \* client.Do has not returned
  { "connect",   \* dialing, or in the TLS handshake
    "send",      \* writing the request
    "headers" }  \* the request is written, no response yet
Phases == Before \cup {"failed", "body"}

ExchangeInit ==
  /\ phase = "connect"
  /\ wait = ConnectTimeout
  /\ ReaderInit

Enter(p, deadline) ==
  /\ phase' = p
  /\ wait' = deadline
  /\ UNCHANGED readerVars

(* There is a connection, new or from the pool.                            *)
Connected == phase = "connect" /\ Enter("send", 0)

(* The last byte of the request is written: only now does the transport    *)
(* start ResponseHeaderTimeout.                                            *)
RequestWritten == phase = "send" /\ Enter("headers", HeaderTimeout)

(* The response may begin before the request has been read.                *)
HeadersArrive == phase \in {"send", "headers"} /\ Enter("body", 0)

(* Mutant of PhaseTimesOut: the transport has no ResponseHeaderTimeout.    *)
ConnectTimesOut == phase = "connect" /\ wait = 0 /\ Enter("failed", 0)

(* The deadline of the phase has passed.  Writing the request has none.    *)
PhaseTimesOut == phase \in {"connect", "headers"} /\ wait = 0 /\ Enter("failed", 0)

(* Connection refused or broken, or the client gone.                       *)
AttemptBreaks == phase \in Before /\ Enter("failed", 0)

TickBefore == phase \in Before /\ wait > 0 /\ Enter(phase, wait - 1)

InBody(A) == phase = "body" /\ A /\ UNCHANGED <<phase, wait>>

ExchangeNext ==
  \/ Connected
  \/ RequestWritten
  \/ HeadersArrive
  \/ PhaseTimesOut
  \/ AttemptBreaks
  \/ TickBefore
  \/ InBody(ReaderNext)

ExchangeSpec == ExchangeInit /\ [][ExchangeNext]_exchangeVars

(* As for the reader: goroutines run and time passes.  Nothing makes the   *)
(* upstream answer; whether it takes the request is a parameter.           *)
ExchangeFairness ==
  /\ WF_exchangeVars(PhaseTimesOut)
  /\ WF_exchangeVars(TickBefore)
  /\ UpstreamReads => WF_exchangeVars(RequestWritten)
  /\ WF_exchangeVars(InBody(HandlerRuns))
  /\ WF_exchangeVars(InBody(ExpireRuns))
  /\ WF_exchangeVars(InBody(Tick))
  /\ ~ClientStalls => WF_exchangeVars(InBody(ClientReads))

ExchangeFairSpec == ExchangeSpec /\ ExchangeFairness

-----------------------------------------------------------------------------
(* The type invariant of the exchange, the reader's included.              *)
ExchangeTypeOK ==
  /\ ReaderTypeOK
  /\ phase \in Phases
  /\ wait \in 0 .. (ConnectTimeout + HeaderTimeout)

(* README.md 147, proxy.go 195: response_header_timeout_ms "Applies until  *)
(* upstream headers arrive".  Every attempt gets headers or fails.         *)
(* It does when the upstream reads the request; no deadline covers the     *)
(* writing of it.                                                          *)
HeadersOrFailure == <>(phase \in {"failed", "body"})

(* Every attempt ends, be the upstream silent for ever at any point.       *)
AttemptEnds == <>(phase = "failed" \/ hpc = "returned")
=============================================================================
