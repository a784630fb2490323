\* Three calls for two slots and a queue of one: every path of acquire,
\* refusal and cancellation, the cooldown loop raced by several calls.
\* No timeout: nothing but the upstream or the caller ends a call.
SPECIFICATION Spec
CONSTANTS
  Reqs = {r1, r2, r3}
  Kinds = {"chat", "stream"}
  MaxConcurrent = 2
  MaxWaiting = 1
  RequestTimeout = FALSE
  SupportsEmbeddings = TRUE
  Backoffs = {1, 2}
  MaxTime = 2
  MaxChunks = 1
SYMMETRY CallSymmetry
INVARIANTS UpstreamBound LoadInRange CooldownInv
PROPERTIES CooldownMonotone
