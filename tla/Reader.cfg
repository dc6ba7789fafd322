\* A whole attempt: every interleaving of handler, timer, expire goroutines and
\* client.  The upstream reads the request, the client reads on in the end.
SPECIFICATION ExchangeFairSpec
CONSTANTS
  Timeout = 2
  Chunks = 3
  ClientStalls = FALSE
  Prompt = FALSE
  ConnectTimeout = 2
  HeaderTimeout = 2
  UpstreamReads = TRUE
INVARIANTS
  ExchangeTypeOK
  BodyClosedOnce
  NothingLost
PROPERTIES
  HeadersOrFailure
  AttemptEnds
  CleanedUp
CHECK_DEADLOCK FALSE
