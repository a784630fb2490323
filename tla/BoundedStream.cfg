\* Two streams or embeddings for one slot, two chunks: the first-token
\* window, the forwarder, every exit of ChatStream, the mapping to the
\* abstract limit, and, with an upstream that may hang for ever, what must
\* come to an end.
SPECIFICATION FairSpec
CONSTANTS
  Reqs = {r1, r2}
  Kinds = {"stream", "embeddings"}
  MaxConcurrent = 1
  MaxWaiting = 1
  RequestTimeout = TRUE
  SupportsEmbeddings = TRUE
  Backoffs = {1}
  MaxTime = 2
  MaxChunks = 2
INVARIANTS SlotInv NoChunkLost
PROPERTIES ImplementsLimit SlotReturned CallsEnd
