\* A slow client makes the timer fire although bytes arrive.
SPECIFICATION ReaderSpec
CONSTANTS
  Timeout = 3
  Chunks = 3
  ClientStalls = TRUE
  Prompt = TRUE
PROPERTY OnlySilenceExpires
