--------------------------- MODULE BoundedProvider ---------------------------
(***************************************************************************)
(* internal/provider/bounded.go: the wrapper that gives one upstream a     *)
(* concurrency limit, a bounded waiting queue, a request timeout and a     *)
(* rate-limit cooldown.                                                    *)
(*                                                                         *)
(* Every call of Chat, ChatStream or Embeddings is a process r \in Reqs.   *)
(* For a stream the same process stands for the calling goroutine up to    *)
(* the point where the channel is returned and for the forwarder goroutine *)
(* from there on; the caller's side of the channel is the separate action  *)
(* Receive.  One step is one access to shared state (an atomic, the        *)
(* semaphore channel, the clock, the chunk channels).                      *)
(*                                                                         *)
(* The wrapped provider is external: it may answer, fail, rate-limit, hang *)
(* or stream chunks as it likes, and it honours the context it is given.   *)
(***************************************************************************)
EXTENDS Integers, Sequences, FiniteSets

CONSTANTS
  Reqs,               \* the calls
  Kinds,              \* the methods they may be: "chat", "stream", "embeddings"
  MaxConcurrent,      \* capacity of sem; 0 = no semaphore
  MaxWaiting,         \* maxWaiting; 0 = unlimited queue
  RequestTimeout,     \* is requestTimeout > 0
  SupportsEmbeddings, \* does inner implement domain.EmbeddingsProvider
  Backoffs,           \* the Retry-After durations the upstream may answer
  MaxTime,            \* bound on the clock
  MaxChunks           \* bound on the chunks of one stream

ASSUME BoundedAssumption ==
  /\ IsFiniteSet(Reqs)
  /\ Kinds \subseteq {"chat", "stream", "embeddings"}
  /\ MaxConcurrent \in Nat /\ MaxWaiting \in Nat
  /\ RequestTimeout \in BOOLEAN /\ SupportsEmbeddings \in BOOLEAN
  /\ Backoffs \subseteq Nat \ {0}
  /\ MaxTime \in Nat /\ MaxChunks \in Nat

VARIABLES
  now,          \* the wall clock
  sem,          \* len(p.sem)
  waitingCount, \* p.waitingCount
  activeCount,  \* p.activeCount
  coolUntil,    \* p.coolUntil; 0 = not cooling
  pc,           \* where each call stands
  kind,         \* the method each call runs
  result,       \* what each call returned
  ctxDone,      \* is the caller's context cancelled
  upstream,     \* the inner call: none, live, cancelled or ended
  deadline,     \* setCooldown's deadline; 0 = setCooldown not entered
  seen,         \* setCooldown's current
  produced,     \* chunks the upstream has handed over
  hand,         \* the chunk the forwarder is holding; 0 = none
  out,          \* the channel returned by ChatStream
  got           \* the chunks its reader has received

counters  == <<sem, waitingCount, activeCount>>
cooldown  == <<coolUntil, deadline, seen>>
stream    == <<produced, hand, out, got>>
vars == <<now, counters, cooldown, pc, kind, result, ctxDone, upstream, stream>>

Locations == {"idle", "acquire", "reject", "select", "activate", "unwait",
              "abort", "call", "load", "cas", "first", "forward", "send",
              "cancel", "release", "free", "close", "done"}

Results == {"none", "ok", "error", "rateLimited", "queueFull", "ctxErr",
            "unsupported", "stream"}

Limited == MaxConcurrent > 0
Queued  == Limited /\ MaxWaiting > 0

Goto(r, l) == pc' = [pc EXCEPT ![r] = l]
Finish(r, l, res) == Goto(r, l) /\ result' = [result EXCEPT ![r] = res]

(* NewBounded, before any call. *)
Init ==
  /\ now = 1
  /\ sem = 0 /\ waitingCount = 0 /\ activeCount = 0
  /\ coolUntil = 0
  /\ pc = [r \in Reqs |-> "idle"]
  /\ kind \in [Reqs -> Kinds]
  /\ result = [r \in Reqs |-> "none"]
  /\ ctxDone = [r \in Reqs |-> FALSE]
  /\ upstream = [r \in Reqs |-> "none"]
  /\ deadline = [r \in Reqs |-> 0]
  /\ seen = [r \in Reqs |-> 0]
  /\ produced = [r \in Reqs |-> 0]
  /\ hand = [r \in Reqs |-> 0]
  /\ out = [r \in Reqs |-> <<>>]
  /\ got = [r \in Reqs |-> <<>>]

-----------------------------------------------------------------------------
(* Entry: Embeddings' type assertion, then the cooldown check.             *)

cooling == coolUntil > now

Unsupported(r) ==
  /\ pc[r] = "idle"
  /\ kind[r] = "embeddings" /\ ~SupportsEmbeddings
  /\ Finish(r, "done", "unsupported")
  /\ UNCHANGED <<now, counters, cooldown, kind, ctxDone, upstream, stream>>

Callable(r) ==
  /\ pc[r] = "idle"
  /\ kind[r] = "embeddings" => SupportsEmbeddings

ShortCircuit(r) ==
  /\ Callable(r)
  /\ cooling
  /\ Finish(r, "done", "rateLimited")
  /\ UNCHANGED <<now, counters, cooldown, kind, ctxDone, upstream, stream>>

Enter(r) ==
  /\ Callable(r)
  /\ ~cooling
  /\ Goto(r, "acquire")
  /\ UNCHANGED <<now, counters, cooldown, kind, result, ctxDone, upstream,
                 stream>>

-----------------------------------------------------------------------------
(* acquire: a nil semaphore admits at once; otherwise the call counts      *)
(* itself as waiting, gives up if the queue is over its limit, and blocks  *)
(* in a select on the semaphore and its context.  The deferred             *)
(* waitingCount.Add(-1) runs after activeCount.Add(1).                     *)

AcquireUnlimited(r) ==
  /\ pc[r] = "acquire" /\ ~Limited
  /\ activeCount' = activeCount + 1
  /\ Goto(r, "call")
  /\ upstream' = [upstream EXCEPT ![r] = "live"]
  /\ UNCHANGED <<now, sem, waitingCount, cooldown, kind, result, ctxDone,
                 stream>>

(* Slip: the queue is measured before the call has counted itself. *)
JoinQueueLate(r) ==
  /\ pc[r] = "acquire" /\ Limited
  /\ waitingCount' = IF Queued THEN waitingCount + 1 ELSE waitingCount
  /\ Goto(r, IF Queued /\ waitingCount > MaxWaiting THEN "reject" ELSE "select")
  /\ UNCHANGED <<now, sem, activeCount, cooldown, kind, result, ctxDone,
                 upstream, stream>>

JoinQueue(r) ==
  /\ pc[r] = "acquire" /\ Limited
  /\ waitingCount' = IF Queued THEN waitingCount + 1 ELSE waitingCount
  /\ Goto(r, IF Queued /\ waitingCount' > MaxWaiting THEN "reject" ELSE "select")
  /\ UNCHANGED <<now, sem, activeCount, cooldown, kind, result, ctxDone,
                 upstream, stream>>

QueueFull(r) ==
  /\ pc[r] = "reject"
  /\ waitingCount' = waitingCount - 1
  /\ Finish(r, "done", "queueFull")
  /\ UNCHANGED <<now, sem, activeCount, cooldown, kind, ctxDone, upstream,
                 stream>>

TakeSlot(r) ==
  /\ pc[r] = "select"
  /\ sem < MaxConcurrent
  /\ sem' = sem + 1
  /\ Goto(r, "activate")
  /\ UNCHANGED <<now, waitingCount, activeCount, cooldown, kind, result,
                 ctxDone, upstream, stream>>

(* inner is called as soon as acquire returns. *)
CallInner(r) ==
  /\ Goto(r, "call")
  /\ upstream' = [upstream EXCEPT ![r] = "live"]

Activate(r) ==
  /\ pc[r] = "activate"
  /\ activeCount' = activeCount + 1
  /\ \/ Queued /\ Goto(r, "unwait") /\ UNCHANGED upstream
     \/ ~Queued /\ CallInner(r)
  /\ UNCHANGED <<now, sem, waitingCount, cooldown, kind, result, ctxDone,
                 stream>>

LeaveQueue(r) ==
  /\ pc[r] = "unwait"
  /\ waitingCount' = waitingCount - 1
  /\ CallInner(r)
  /\ UNCHANGED <<now, sem, activeCount, cooldown, kind, result, ctxDone,
                 stream>>

(* <-ctx.Done() in acquire's select. *)
GiveUp(r) ==
  /\ pc[r] = "select" /\ ctxDone[r]
  /\ Finish(r, IF Queued THEN "abort" ELSE "done", "ctxErr")
  /\ UNCHANGED <<now, counters, cooldown, kind, ctxDone, upstream, stream>>

(* Slip: acquire's error is dropped, so a call without a slot goes on. *)
AbortQueueIgnored(r) ==
  /\ pc[r] = "abort"
  /\ waitingCount' = waitingCount - 1
  /\ CallInner(r)
  /\ UNCHANGED <<now, sem, activeCount, cooldown, kind, result, ctxDone,
                 stream>>

AbortQueue(r) ==
  /\ pc[r] = "abort"
  /\ waitingCount' = waitingCount - 1
  /\ Goto(r, "done")
  /\ UNCHANGED <<now, sem, activeCount, cooldown, kind, result, ctxDone,
                 upstream, stream>>

-----------------------------------------------------------------------------
(* The inner call.  Chat and Embeddings end with it; ChatStream ends with  *)
(* it only on an error, and otherwise waits for the first token (when a    *)
(* timeout is set) before it starts the forwarder.  A stream cancels       *)
(* innerCtx before release; the contexts of the other methods belong to a  *)
(* call that is already over.                                              *)

Streaming(r) == kind[r] = "stream"
Unwind(r) == IF Streaming(r) THEN "cancel" ELSE "release"

InnerOk(r) ==
  /\ pc[r] = "call" /\ ~Streaming(r)
  /\ Finish(r, "release", "ok")
  /\ upstream' = [upstream EXCEPT ![r] = "ended"]
  /\ UNCHANGED <<now, counters, cooldown, kind, ctxDone, stream>>

(* setCooldown returns at once: the error is not a RateLimitError. *)
InnerError(r) ==
  /\ pc[r] = "call"
  /\ Finish(r, Unwind(r), "error")
  /\ upstream' = [upstream EXCEPT ![r] = "ended"]
  /\ UNCHANGED <<now, counters, cooldown, kind, ctxDone, stream>>

(* Slip: the inner call is given ctx, not callCtx. *)
InnerAbortsLate(r) == ctxDone[r] /\ InnerError(r)

(* The inner call returns because the context it was given is done: the    *)
(* caller went away, or callCtx of Chat and Embeddings timed out.          *)
InnerAborts(r) ==
  /\ ctxDone[r] \/ (RequestTimeout /\ ~Streaming(r))
  /\ InnerError(r)

(* The upstream answered 429: setCooldown computes its deadline. *)
InnerRateLimited(r) ==
  /\ pc[r] = "call"
  /\ \E d \in Backoffs : deadline' = [deadline EXCEPT ![r] = now + d]
  /\ Finish(r, "load", "rateLimited")
  /\ upstream' = [upstream EXCEPT ![r] = "ended"]
  /\ UNCHANGED <<now, counters, coolUntil, seen, kind, ctxDone, stream>>

LoadCooldown(r) ==
  /\ pc[r] = "load"
  /\ seen' = [seen EXCEPT ![r] = coolUntil]
  /\ Goto(r, IF deadline[r] <= coolUntil THEN Unwind(r) ELSE "cas")
  /\ UNCHANGED <<now, counters, coolUntil, deadline, kind, result, ctxDone,
                 upstream, stream>>

(* Slips: a plain Store; a single attempt. *)
CompareAndSwapStore(r) ==
  /\ pc[r] = "cas"
  /\ coolUntil' = deadline[r]
  /\ Goto(r, Unwind(r))
  /\ UNCHANGED <<now, counters, deadline, seen, kind, result, ctxDone,
                 upstream, stream>>

CompareAndSwapOnce(r) ==
  /\ pc[r] = "cas"
  /\ coolUntil' = IF coolUntil = seen[r] THEN deadline[r] ELSE coolUntil
  /\ Goto(r, Unwind(r))
  /\ UNCHANGED <<now, counters, deadline, seen, kind, result, ctxDone,
                 upstream, stream>>

CompareAndSwap(r) ==
  /\ pc[r] = "cas"
  /\ \/ /\ coolUntil = seen[r]
        /\ coolUntil' = deadline[r]
        /\ Goto(r, Unwind(r))
     \/ /\ coolUntil # seen[r]
        /\ Goto(r, "load")
        /\ UNCHANGED coolUntil
  /\ UNCHANGED <<now, counters, deadline, seen, kind, result, ctxDone,
                 upstream, stream>>

-----------------------------------------------------------------------------
(* ChatStream after inner.ChatStream has returned a channel.               *)

StreamOpened(r) ==
  /\ pc[r] = "call" /\ Streaming(r)
  /\ \/ RequestTimeout /\ Goto(r, "first") /\ UNCHANGED result
     \/ ~RequestTimeout /\ Finish(r, "forward", "stream")
  /\ UNCHANGED <<now, counters, cooldown, kind, ctxDone, upstream, stream>>

NextChunk(r) ==
  /\ upstream[r] = "live" /\ produced[r] < MaxChunks
  /\ produced' = [produced EXCEPT ![r] = @ + 1]

(* Slip: the prefetched chunk is not put into out. *)
FirstTokenDropped(r) ==
  /\ pc[r] = "first"
  /\ NextChunk(r)
  /\ Finish(r, "forward", "stream")
  /\ UNCHANGED <<now, counters, cooldown, kind, ctxDone, upstream, hand, out, got>>

FirstToken(r) ==
  /\ pc[r] = "first"
  /\ NextChunk(r)
  /\ out' = [out EXCEPT ![r] = <<produced'[r]>>]
  /\ Finish(r, "forward", "stream")
  /\ UNCHANGED <<now, counters, cooldown, kind, ctxDone, upstream, hand, got>>

(* inner was closed: upstream end, or the inner goroutine saw innerCtx. *)
ClosedBeforeFirstToken(r) ==
  /\ pc[r] = "first"
  /\ upstream' = [upstream EXCEPT ![r] = "ended"]
  /\ Finish(r, "cancel", "error")
  /\ UNCHANGED <<now, counters, cooldown, kind, ctxDone, stream>>

FirstTokenTimeout(r) ==
  /\ pc[r] = "first"
  /\ Finish(r, "cancel", "error")
  /\ UNCHANGED <<now, counters, cooldown, kind, ctxDone, upstream, stream>>

(* Slip: this error path forgets cancelInner and release. *)
GoneWithSlot(r) ==
  /\ pc[r] = "first" /\ ctxDone[r]
  /\ Finish(r, "done", "ctxErr")
  /\ UNCHANGED <<now, counters, cooldown, kind, ctxDone, upstream, stream>>

GoneBeforeFirstToken(r) ==
  /\ pc[r] = "first" /\ ctxDone[r]
  /\ Finish(r, "cancel", "ctxErr")
  /\ UNCHANGED <<now, counters, cooldown, kind, ctxDone, upstream, stream>>

(* The forwarder goroutine's outer and inner select. *)
ReceiveChunk(r) ==
  /\ pc[r] = "forward"
  /\ NextChunk(r)
  /\ hand' = [hand EXCEPT ![r] = produced'[r]]
  /\ Goto(r, "send")
  /\ UNCHANGED <<now, counters, cooldown, kind, result, ctxDone, upstream,
                 out, got>>

InnerClosed(r) ==
  /\ pc[r] = "forward"
  /\ upstream' = [upstream EXCEPT ![r] = "ended"]
  /\ Goto(r, "cancel")
  /\ UNCHANGED <<now, counters, cooldown, kind, result, ctxDone, stream>>

SendChunk(r) ==
  /\ pc[r] = "send"
  /\ Len(out[r]) < 1
  /\ out' = [out EXCEPT ![r] = Append(@, hand[r])]
  /\ hand' = [hand EXCEPT ![r] = 0]
  /\ Goto(r, "forward")
  /\ UNCHANGED <<now, counters, cooldown, kind, result, ctxDone, upstream,
                 produced, got>>

(* Slips: the send on out does not watch ctx; no deferred cancelInner. *)
ForwarderBlocks(r) ==
  /\ pc[r] = "forward" /\ ctxDone[r]
  /\ Goto(r, "cancel")
  /\ UNCHANGED <<now, counters, cooldown, kind, result, ctxDone, upstream,
                 stream>>

ForwarderKeepsInner(r) ==
  /\ pc[r] \in {"forward", "send"} /\ ctxDone[r]
  /\ Goto(r, "release")
  /\ UNCHANGED <<now, counters, cooldown, kind, result, ctxDone, upstream,
                 stream>>

ForwarderCancelled(r) ==
  /\ pc[r] \in {"forward", "send"} /\ ctxDone[r]
  /\ Goto(r, "cancel")
  /\ UNCHANGED <<now, counters, cooldown, kind, result, ctxDone, upstream,
                 stream>>

-----------------------------------------------------------------------------
(* cancelInner, release (activeCount first, then the semaphore) and, for   *)
(* the forwarder, close(out): its defers in their order of execution.      *)

CancelInner(r) ==
  /\ pc[r] = "cancel"
  /\ upstream' = [upstream EXCEPT ![r] = IF @ = "live" THEN "cancelled" ELSE @]
  /\ Goto(r, "release")
  /\ UNCHANGED <<now, counters, cooldown, kind, result, ctxDone, stream>>

AfterRelease(r) == IF result[r] = "stream" THEN "close" ELSE "done"

(* Slip: the load is only given back together with a slot. *)
DeactivateLimited(r) ==
  /\ pc[r] = "release"
  /\ activeCount' = IF Limited THEN activeCount - 1 ELSE activeCount
  /\ Goto(r, IF Limited THEN "free" ELSE AfterRelease(r))
  /\ UNCHANGED <<now, sem, waitingCount, cooldown, kind, result, ctxDone,
                 upstream, stream>>

Deactivate(r) ==
  /\ pc[r] = "release"
  /\ activeCount' = activeCount - 1
  /\ Goto(r, IF Limited THEN "free" ELSE AfterRelease(r))
  /\ UNCHANGED <<now, sem, waitingCount, cooldown, kind, result, ctxDone,
                 upstream, stream>>

FreeSlot(r) ==
  /\ pc[r] = "free"
  /\ sem' = sem - 1
  /\ Goto(r, AfterRelease(r))
  /\ UNCHANGED <<now, waitingCount, activeCount, cooldown, kind, result,
                 ctxDone, upstream, stream>>

CloseOut(r) ==
  /\ pc[r] = "close"
  /\ Goto(r, "done")
  /\ UNCHANGED <<now, counters, cooldown, kind, result, ctxDone, upstream,
                 stream>>

-----------------------------------------------------------------------------
(* The environment: the reader of the returned channel, the caller's       *)
(* context and the clock.                                                  *)

Receive(r) ==
  /\ result[r] = "stream" /\ out[r] # <<>>
  /\ got' = [got EXCEPT ![r] = Append(@, Head(out[r]))]
  /\ out' = [out EXCEPT ![r] = Tail(@)]
  /\ UNCHANGED <<now, counters, cooldown, pc, kind, result, ctxDone, upstream,
                 produced, hand>>

CancelCtx(r) ==
  /\ ~ctxDone[r] /\ pc[r] # "done"
  /\ ctxDone' = [ctxDone EXCEPT ![r] = TRUE]
  /\ UNCHANGED <<now, counters, cooldown, pc, kind, result, upstream, stream>>

Tick ==
  /\ now < MaxTime
  /\ now' = now + 1
  /\ UNCHANGED <<counters, cooldown, pc, kind, result, ctxDone, upstream,
                 stream>>

(* Everything has returned; nothing is left to do. *)
Terminated ==
  /\ \A r \in Reqs : pc[r] = "done"
  /\ UNCHANGED vars

-----------------------------------------------------------------------------
Acquire(r) ==
  \/ AcquireUnlimited(r) \/ JoinQueue(r) \/ QueueFull(r) \/ TakeSlot(r)
  \/ Activate(r) \/ LeaveQueue(r) \/ GiveUp(r) \/ AbortQueue(r)

SetCooldown(r) == LoadCooldown(r) \/ CompareAndSwap(r)

Inner(r) == InnerOk(r) \/ InnerError(r) \/ InnerRateLimited(r) \/ StreamOpened(r)

Stream(r) ==
  \/ FirstToken(r) \/ ClosedBeforeFirstToken(r) \/ FirstTokenTimeout(r)
  \/ GoneBeforeFirstToken(r) \/ ReceiveChunk(r) \/ InnerClosed(r)
  \/ SendChunk(r) \/ ForwarderCancelled(r)

Release(r) ==
  CancelInner(r) \/ Deactivate(r) \/ FreeSlot(r) \/ CloseOut(r)

Next ==
  \/ \E r \in Reqs :
       \/ Unsupported(r) \/ ShortCircuit(r) \/ Enter(r)
       \/ Acquire(r) \/ Inner(r) \/ SetCooldown(r) \/ Stream(r) \/ Release(r)
       \/ Receive(r) \/ CancelCtx(r)
  \/ Tick
  \/ Terminated

Spec == Init /\ [][Next]_vars

-----------------------------------------------------------------------------
(* Fairness.  The scheduler runs every goroutine that can run, a select    *)
(* with a ready case is taken, timers fire, and the inner provider returns *)
(* once its context is done.  Nothing obliges the upstream to answer, the  *)
(* caller to go away, or the reader to read.                               *)
Fairness ==
  \A r \in Reqs :
    /\ WF_vars(Acquire(r))
    /\ WF_vars(InnerAborts(r))
    /\ WF_vars(SetCooldown(r))
    /\ WF_vars(FirstTokenTimeout(r))
    /\ WF_vars(GoneBeforeFirstToken(r))
    /\ WF_vars(SendChunk(r))
    /\ WF_vars(ForwarderCancelled(r))
    /\ WF_vars(Release(r))

FairSpec == Spec /\ Fairness

-----------------------------------------------------------------------------
(* Properties.                                                             *)

(* Where a call owns an element of sem, is counted in activeCount, and is  *)
(* counted in waitingCount.                                                *)
SlotLocations == {"activate", "unwait", "call", "load", "cas", "first",
                  "forward", "send", "cancel", "release", "free"}
ActiveLocations == SlotLocations \ {"activate", "free"}
WaitLocations == {"reject", "select", "activate", "unwait", "abort"}

At(L) == {r \in Reqs : pc[r] \in L}
Holders == At(SlotLocations)
Executing == At(ActiveLocations)
Waiting == At(WaitLocations)
Selecting == At({"select"})
Live == {r \in Reqs : upstream[r] = "live"}

TypeOK ==
  /\ now \in Nat /\ sem \in Int /\ coolUntil \in Nat
  /\ waitingCount \in Int /\ activeCount \in Int
  /\ pc \in [Reqs -> Locations]
  /\ kind \in [Reqs -> Kinds]
  /\ result \in [Reqs -> Results]
  /\ ctxDone \in [Reqs -> BOOLEAN]
  /\ upstream \in [Reqs -> {"none", "live", "cancelled", "ended"}]
  /\ deadline \in [Reqs -> Nat] /\ seen \in [Reqs -> Nat]
  /\ produced \in [Reqs -> Nat] /\ hand \in [Reqs -> Nat]
  /\ out \in [Reqs -> Seq(Nat)] /\ got \in [Reqs -> Seq(Nat)]

(* The counters tell the truth at every step, on every error path of Chat, *)
(* ChatStream and Embeddings: a slot of sem per holder, one unit of        *)
(* activeCount per call between activeCount.Add(1) and Add(-1), one unit   *)
(* of waitingCount per call inside the queue.  A slot released twice, or   *)
(* not at all, breaks it.                                                  *)
SlotAccounting ==
  /\ Limited => sem = Cardinality(Holders)
  /\ activeCount = Cardinality(Executing)
  /\ Queued => waitingCount = Cardinality(Waiting)

(* "At most maxConcurrent requests run simultaneously": of the calls made  *)
(* to the upstream and neither answered nor cancelled, so of a stream      *)
(* until innerCtx is cancelled, not just until ChatStream returns.         *)
UpstreamBound == Limited => Cardinality(Live) <= MaxConcurrent

(* What the registry sorts by never exceeds the limit and never goes below *)
(* zero, and no more calls block in the queue than the queue may hold.     *)
LoadInRange ==
  /\ activeCount >= 0
  /\ Limited => activeCount <= MaxConcurrent
  /\ Queued => Cardinality(Selecting) <= MaxWaiting

(* The compare-and-swap loop loses no rate limit: once a call is past      *)
(* setCooldown the cooldown reaches at least to its own deadline, whatever *)
(* other calls stored meanwhile.                                           *)
CooldownRecorded ==
  \A r \in Reqs :
    deadline[r] > 0 /\ pc[r] \notin {"load", "cas"} => coolUntil >= deadline[r]

(* What makes the accounting inductive: a location inside acquire or        *)
(* release exists only with the semaphore or the queue that it belongs to, *)
(* and the location determines whether the upstream call runs.             *)
LocationOK(r) ==
  /\ pc[r] \in {"reject", "select", "activate", "unwait", "abort", "free"} => Limited
  /\ pc[r] \in {"reject", "unwait", "abort"} => Queued
  /\ pc[r] \in {"idle", "acquire", "reject", "select", "activate", "unwait",
                "abort"} => upstream[r] = "none"
  /\ pc[r] \in {"call", "first", "forward", "send"} => upstream[r] = "live"
  /\ pc[r] \in {"load", "cas"} => upstream[r] = "ended"
  /\ pc[r] = "cancel" => upstream[r] \in {"live", "ended"}
  /\ pc[r] \in {"release", "free", "close"} => upstream[r] \in {"ended", "cancelled"}
  /\ pc[r] = "done" => upstream[r] # "live"

SlotInv ==
  /\ TypeOK
  /\ SlotAccounting
  /\ Limited => sem <= MaxConcurrent
  /\ Queued => Cardinality(Selecting) <= MaxWaiting
  /\ \A r \in Reqs : LocationOK(r)

(* What makes CooldownRecorded inductive: a call about to store its         *)
(* deadline has seen an earlier one.                                       *)
CooldownInv ==
  /\ CooldownRecorded
  /\ \A r \in Reqs :
       /\ pc[r] \in {"load", "cas"} => deadline[r] > 0
       /\ pc[r] = "cas" => seen[r] < deadline[r]

(* A cooldown is only ever extended. *)
CooldownMonotone == [][coolUntil' >= coolUntil]_coolUntil

(* The forwarder keeps the upstream's order and drops or repeats nothing:  *)
(* what was read, what is buffered and what is in hand is exactly what the *)
(* upstream handed over, until the caller's context is done; so a channel  *)
(* closed on a caller that is still there has delivered the whole stream.  *)
Chunks(n) == [i \in 1..n |-> i]
NoChunkLost ==
  \A r \in Reqs :
    /\ got[r] \o out[r] \o (IF hand[r] = 0 THEN <<>> ELSE <<hand[r]>>)
         = Chunks(produced[r])
    /\ pc[r] = "done" /\ result[r] = "stream" /\ ~ctxDone[r]
         => got[r] \o out[r] = Chunks(produced[r])

(* A caller that goes away gives its slot back: no matter where the call   *)
(* stands, and even if neither the upstream nor the reader ever moves.     *)
SlotReturned ==
  \A r \in Reqs : (ctxDone[r] /\ r \in Holders) ~> r \notin Holders

(* With a request timeout, and as long as no call is a stream, every Chat  *)
(* and Embeddings call that gets past the cooldown check ends, through     *)
(* queue, upstream and release, even if the upstream hangs for ever and no *)
(* caller goes away: the queue waits for nobody without a deadline.        *)
CallsEnd ==
  (\A r \in Reqs : kind[r] # "stream")
    => \A r \in Reqs : (pc[r] = "acquire") ~> (pc[r] = "done")

-----------------------------------------------------------------------------
(* The abstract specification and the mapping to it.                       *)
PhaseOf(u, l) ==
  IF u = "live" THEN "running"
  ELSE IF u \in {"cancelled", "ended"} THEN "ended"
  ELSE IF l \in {"reject", "abort", "done"} THEN "refused"
  ELSE IF l = "idle" THEN "new" ELSE "waiting"

phase == [r \in Reqs |-> PhaseOf(upstream[r], pc[r])]

(* The wrapper implements the limit it documents. *)
Limit == INSTANCE ConcurrencyLimit WITH Calls <- Reqs, Capacity <- MaxConcurrent
ImplementsLimit == Limit!Spec
=============================================================================
