\* No semaphore (request_timeout alone), an inner provider without
\* embeddings: the counters balance without the semaphore too.
SPECIFICATION Spec
CONSTANTS
  Reqs = {r1, r2, r3}
  Kinds = {"stream", "embeddings"}
  MaxConcurrent = 0
  MaxWaiting = 0
  RequestTimeout = TRUE
  SupportsEmbeddings = FALSE
  Backoffs = {1, 2}
  MaxTime = 1
  MaxChunks = 1
SYMMETRY CallSymmetry
INVARIANT SlotAccounting
