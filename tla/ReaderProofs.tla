---------------------------- MODULE ReaderProofs ----------------------------
(***************************************************************************)
(* Theorems about IdleTimeoutReader and Exchange: for every timeout, every *)
(* length of body and every schedule of handler, timer and goroutines.     *)
(***************************************************************************)
EXTENDS Exchange, TLAPS

LEMMA ReaderStarts == ReaderInit => ReaderInv
  <1> SUFFICES ASSUME ReaderInit PROVE ReaderInv
    OBVIOUS
  <1>1. FlagsOK
    BY Zenon DEF ReaderInit, FlagsOK
  <1>2. ReaderTypeOK
    BY <1>1, ReaderAssumption DEF ReaderAssumption, ReaderInit, ReaderTypeOK,
       HandlerPoints
  <1>3. CloseOwed
    BY DEF ReaderInit, CloseOwed
  <1>4. Buffered
    BY DEF ReaderInit, Buffered, NothingLost
  <1> QED
    BY <1>2, <1>3, <1>4 DEF ReaderInv

LEMMA ReaderSteps == ReaderInv /\ [ReaderNext]_readerVars => ReaderInv'
  <1> SUFFICES ASSUME ReaderInv, [ReaderNext]_readerVars PROVE ReaderInv'
    OBVIOUS
  <1> USE ReaderAssumption DEF ReaderAssumption
  <1>1. ASSUME NEW u \in BOOLEAN, StartRelay(u) PROVE ReaderInv'
    <2>1. ReaderTypeOK'
      BY <1>1 DEF ReaderInv, ReaderTypeOK, FlagsOK, HandlerPoints, StartRelay, upstreamVars, timerVars, bodyVars
    <2>2. CloseOwed'
      BY <1>1 DEF ReaderInv, ReaderTypeOK, FlagsOK, CloseOwed, StartRelay, upstreamVars, timerVars, bodyVars
    <2>3. Buffered'
      BY <1>1 DEF ReaderInv, ReaderTypeOK, Buffered, NothingLost, StartRelay, upstreamVars, timerVars, bodyVars
    <2> QED
      BY <2>1, <2>2, <2>3 DEF ReaderInv
  <1>2. CASE BodyRead
    <2>1. ReaderTypeOK'
      BY <1>2 DEF ReaderInv, ReaderTypeOK, FlagsOK, HandlerPoints, BodyRead, upstreamVars, timerVars, bodyVars
    <2>2. CloseOwed'
      BY <1>2 DEF ReaderInv, ReaderTypeOK, FlagsOK, CloseOwed, BodyRead, upstreamVars, timerVars, bodyVars
    <2>3. Buffered'
      BY <1>2 DEF ReaderInv, ReaderTypeOK, Buffered, NothingLost, BodyRead, upstreamVars, timerVars, bodyVars
    <2> QED
      BY <2>1, <2>2, <2>3 DEF ReaderInv
  <1>3. CASE ReadReturns
    <2>1. ReaderTypeOK'
      BY <1>3 DEF ReaderInv, ReaderTypeOK, FlagsOK, HandlerPoints, ReadReturns, upstreamVars, bodyVars
    <2>2. CloseOwed'
      BY <1>3 DEF ReaderInv, ReaderTypeOK, FlagsOK, CloseOwed, ReadReturns, upstreamVars, bodyVars
    <2>3. Buffered'
      BY <1>3 DEF ReaderInv, ReaderTypeOK, Buffered, NothingLost, ReadReturns, upstreamVars, bodyVars
    <2> QED
      BY <2>1, <2>2, <2>3 DEF ReaderInv
  <1>4. ASSUME NEW ok \in BOOLEAN, WriteReturns(ok) PROVE ReaderInv'
    <2>1. ReaderTypeOK'
      BY <1>4 DEF ReaderInv, ReaderTypeOK, FlagsOK, HandlerPoints, WriteReturns, upstreamVars, timerVars, bodyVars
    <2>2. CloseOwed'
      BY <1>4 DEF ReaderInv, ReaderTypeOK, FlagsOK, CloseOwed, WriteReturns, upstreamVars, timerVars, bodyVars
    <2>3. Buffered'
      BY <1>4 DEF ReaderInv, ReaderTypeOK, Buffered, NothingLost, WriteReturns, upstreamVars, timerVars, bodyVars
    <2> QED
      BY <2>1, <2>2, <2>3 DEF ReaderInv
  <1>5. CASE Close
    <2>1. ReaderTypeOK'
      <3>1. FlagsOK'
        BY <1>5, Zenon DEF ReaderInv, ReaderTypeOK, FlagsOK, Close, upstreamVars, bodyVars
      <3> QED
        BY <1>5, <3>1 DEF ReaderInv, ReaderTypeOK, HandlerPoints, Close, upstreamVars, bodyVars
    <2>2. CloseOwed'
      BY <1>5 DEF ReaderInv, ReaderTypeOK, FlagsOK, CloseOwed, Close, upstreamVars, bodyVars
    <2>3. Buffered'
      BY <1>5 DEF ReaderInv, ReaderTypeOK, Buffered, NothingLost, Close, upstreamVars, bodyVars
    <2> QED
      BY <2>1, <2>2, <2>3 DEF ReaderInv
  <1>6. CASE CloseBody
    <2>1. ReaderTypeOK'
      <3>1. FlagsOK'
        BY <1>6, Zenon DEF ReaderInv, ReaderTypeOK, FlagsOK, CloseBody, upstreamVars, timerVars
      <3> QED
        BY <1>6, <3>1 DEF ReaderInv, ReaderTypeOK, HandlerPoints, CloseBody, upstreamVars, timerVars
    <2>2. CloseOwed'
      BY <1>6 DEF ReaderInv, ReaderTypeOK, FlagsOK, CloseOwed, CloseBody, upstreamVars, timerVars
    <2>3. Buffered'
      BY <1>6 DEF ReaderInv, ReaderTypeOK, Buffered, NothingLost, CloseBody, upstreamVars, timerVars
    <2> QED
      BY <2>1, <2>2, <2>3 DEF ReaderInv
  <1>7. CASE Expire
    <2>1. ReaderTypeOK'
      <3>1. FlagsOK'
        BY <1>7, Zenon DEF ReaderInv, ReaderTypeOK, FlagsOK, Expire, upstreamVars, bodyVars, relayVars
      <3> QED
        BY <1>7, <3>1 DEF ReaderInv, ReaderTypeOK, HandlerPoints, Expire, upstreamVars, bodyVars, relayVars
    <2>2. CloseOwed'
      BY <1>7 DEF ReaderInv, ReaderTypeOK, FlagsOK, CloseOwed, Expire, upstreamVars, bodyVars, relayVars
    <2>3. Buffered'
      BY <1>7 DEF ReaderInv, ReaderTypeOK, Buffered, NothingLost, Expire, upstreamVars, bodyVars, relayVars
    <2> QED
      BY <2>1, <2>2, <2>3 DEF ReaderInv
  <1>8. CASE ExpireClose
    <2>1. ReaderTypeOK'
      <3>1. FlagsOK'
        BY <1>8, Zenon DEF ReaderInv, ReaderTypeOK, FlagsOK, ExpireClose, upstreamVars, relayVars
      <3> QED
        BY <1>8, <3>1 DEF ReaderInv, ReaderTypeOK, HandlerPoints, ExpireClose, upstreamVars, relayVars
    <2>2. CloseOwed'
      BY <1>8 DEF ReaderInv, ReaderTypeOK, FlagsOK, CloseOwed, ExpireClose, upstreamVars, relayVars
    <2>3. Buffered'
      BY <1>8 DEF ReaderInv, ReaderTypeOK, Buffered, NothingLost, ExpireClose, upstreamVars, relayVars
    <2> QED
      BY <2>1, <2>2, <2>3 DEF ReaderInv
  <1>9. CASE Arrive
    <2>1. ReaderTypeOK'
      BY <1>9 DEF ReaderInv, ReaderTypeOK, FlagsOK, HandlerPoints, Arrive, timerVars, bodyVars, relayVars
    <2>2. CloseOwed'
      BY <1>9 DEF ReaderInv, ReaderTypeOK, FlagsOK, CloseOwed, Arrive, timerVars, bodyVars, relayVars
    <2>3. Buffered'
      BY <1>9 DEF ReaderInv, ReaderTypeOK, Buffered, NothingLost, Arrive, timerVars, bodyVars, relayVars
    <2> QED
      BY <2>1, <2>2, <2>3 DEF ReaderInv
  <1>10. ASSUME NEW how \in {"eof", "error"}, UpstreamEnds(how) PROVE ReaderInv'
    <2>1. ReaderTypeOK'
      BY <1>10 DEF ReaderInv, ReaderTypeOK, FlagsOK, HandlerPoints, UpstreamEnds, timerVars, bodyVars, relayVars
    <2>2. CloseOwed'
      BY <1>10 DEF ReaderInv, ReaderTypeOK, FlagsOK, CloseOwed, UpstreamEnds, timerVars, bodyVars, relayVars
    <2>3. Buffered'
      BY <1>10 DEF ReaderInv, ReaderTypeOK, Buffered, NothingLost, UpstreamEnds, timerVars, bodyVars, relayVars
    <2> QED
      BY <2>1, <2>2, <2>3 DEF ReaderInv
  <1>11. CASE Tick
    <2>1. ReaderTypeOK'
      BY <1>11 DEF ReaderInv, ReaderTypeOK, FlagsOK, HandlerPoints, Tick, bodyVars, relayVars
    <2>2. CloseOwed'
      BY <1>11 DEF ReaderInv, ReaderTypeOK, FlagsOK, CloseOwed, Tick, bodyVars, relayVars
    <2>3. Buffered'
      BY <1>11 DEF ReaderInv, ReaderTypeOK, Buffered, NothingLost, Tick, bodyVars, relayVars
    <2> QED
      BY <2>1, <2>2, <2>3 DEF ReaderInv
  <1>12. CASE UNCHANGED readerVars
    BY <1>12 DEF ReaderInv, ReaderTypeOK, FlagsOK, CloseOwed, Buffered, NothingLost,
       readerVars, upstreamVars, timerVars, bodyVars, relayVars
  <1> QED
    BY <1>1, <1>2, <1>3, <1>4, <1>5, <1>6, <1>7, <1>8, <1>9, <1>10, <1>11, <1>12
       DEF ReaderNext, HandlerRuns, ClientReads, ExpireRuns, UpstreamSends

LEMMA ReaderInvariance == ReaderSpec => []ReaderInv
  BY ReaderStarts, ReaderSteps, PTL DEF ReaderSpec

-----------------------------------------------------------------------------
(* The exchange does to the reader what the reader's specification allows. *)
LEMMA ExchangeReads == ExchangeSpec => ReaderSpec
  <1>1. ExchangeInit => ReaderInit
    BY DEF ExchangeInit
  <1>2. [ExchangeNext]_exchangeVars => [ReaderNext]_readerVars
    BY DEF ExchangeNext, exchangeVars, Connected, RequestWritten, HeadersArrive,
           PhaseTimesOut, AttemptBreaks, TickBefore, Enter, InBody
  <1> QED
    BY <1>1, <1>2, PTL DEF ExchangeSpec, ReaderSpec

LEMMA ExchangeReaderInv == ExchangeSpec => []ReaderInv
  BY ExchangeReads, ReaderInvariance, PTL

(* The exchange keeps its types: no timer counts below zero or beyond its  *)
(* timeout.                                                                *)
THEOREM ExchangeTypes == ExchangeSpec => []ExchangeTypeOK
  <1> DEFINE Own == phase \in Phases /\ wait \in 0 .. (ConnectTimeout + HeaderTimeout)
  <1> USE ExchangeAssumption DEF ExchangeAssumption, Phases, Before
  <1>1. ExchangeInit => Own
    BY DEF ExchangeInit
  <1>2. Own /\ [ExchangeNext]_exchangeVars => Own'
    BY DEF ExchangeNext, exchangeVars, Connected, RequestWritten, HeadersArrive,
           PhaseTimesOut, AttemptBreaks, TickBefore, Enter, InBody
  <1>3. Own /\ ReaderInv => ExchangeTypeOK
    BY DEF ReaderInv, ExchangeTypeOK
  <1> QED
    BY <1>1, <1>2, <1>3, ExchangeReaderInv, PTL DEF ExchangeSpec

(* stream.go 72-84, 105-118: Close and the expire goroutines close the     *)
(* upstream body exactly once between them, in every interleaving.         *)
THEOREM ClosedOnce == ExchangeSpec => []BodyClosedOnce
  <1>1. ReaderInv => BodyClosedOnce
    BY DEF ReaderInv, ReaderTypeOK, FlagsOK, CloseOwed, BodyClosedOnce
  <1> QED
    BY <1>1, ExchangeReaderInv, PTL

(* stream.go 86-103: what was read is delivered, timeout or not, and only  *)
(* a complete body ends a relay without an error.                          *)
THEOREM Delivered == ExchangeSpec => []NothingLost
  <1>1. ReaderInv => NothingLost
    BY DEF ReaderInv, Buffered
  <1> QED
    BY <1>1, ExchangeReaderInv, PTL
=============================================================================
