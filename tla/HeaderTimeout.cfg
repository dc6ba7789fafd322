\* An upstream that accepts the connection and does not read the request.
SPECIFICATION ExchangeFairSpec
CONSTANTS
  Timeout = 1
  Chunks = 1
  ClientStalls = FALSE
  Prompt = FALSE
  ConnectTimeout = 1
  HeaderTimeout = 1
  UpstreamReads = FALSE
PROPERTY HeadersOrFailure
CHECK_DEADLOCK FALSE
