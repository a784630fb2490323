----------------------------- MODULE ChatHandler -----------------------------
(***************************************************************************)
(* internal/server/server.go: one request of handleChatCompletions (with   *)
(* or without streaming) or handleEmbeddings, from its body to its final   *)
(* status: candidates, the refresh after a miss, the token budget, the     *)
(* fallback loop and the mapping of failures to statuses.                  *)
(*                                                                         *)
(* The registry and the providers are the modules Registry, RoutingTable   *)
(* and BoundedProvider; here the registry may answer with any candidates   *)
(* and a provider in any way its callers can see.  The chunks of an opened *)
(* stream are not looked at.  Durations are counted in ticks, several of   *)
(* which make a second.                                                    *)
(***************************************************************************)
EXTENDS Integers, SequencesExt

CONSTANTS
  Models, ProviderNames,
  MaxCandidates,    \* bound on the registry's answer
  Backoffs,         \* RetryAfter durations of rate-limited answers, in ticks
  TicksPerSecond,
  MaxTokens,        \* bound on max_tokens; 0 = the request sets none
  Budget            \* TokenBudgetConfig.Models: a function on some models

ASSUME HandlerAssumption ==
  /\ MaxCandidates \in Nat
  /\ Backoffs \subseteq Nat \ {0} /\ TicksPerSecond \in Nat \ {0}
  /\ DOMAIN Budget \subseteq Models

VARIABLES
  pc,
  method,       \* "chat", "stream" or "embeddings"
  maxTokens,    \* the request's max_tokens
  refreshed,    \* did the handler call Registry.Refresh
  candidates,   \* what CandidatesFor answered
  tried,        \* history: the outcomes of the candidates tried, in order
  lastErr, allRateLimited, maxRetryAfter,
  gone,         \* r.Context().Err() # nil
  status,       \* the status written; 0 = none yet
  retryAfter,   \* the Retry-After header, in seconds
  recorded      \* the calls of RecordRequest

request == <<method, maxTokens>>
routing == <<refreshed, candidates>>
loop    == <<tried, lastErr, allRateLimited, maxRetryAfter>>
answer  == <<status, retryAfter>>
vars == <<pc, request, routing, loop, gone, answer, recorded>>

(* How a candidate answers: success, or an error as the handler sees it.   *)
(* "failed" is every untyped error, a 5xx, a timeout, a cancelled context  *)
(* and a provider without embeddings included.                             *)
Ok        == [kind |-> "ok", after |-> 0]
QueueFull == [kind |-> "queueFull", after |-> 0]
Rejected  == [kind |-> "rejected", after |-> 0]    \* UpstreamError with a 4xx
Broken    == [kind |-> "failed", after |-> 0]
RateLimited(d) == [kind |-> "rateLimited", after |-> d]
Failures == {QueueFull, Rejected, Broken} \cup {RateLimited(d) : d \in Backoffs}
NoError == Ok

Candidate == [model : Models, provider : ProviderNames]
CandidateLists == UNION {[1 .. n -> Candidate] : n \in 0 .. MaxCandidates}

Init ==
  /\ pc = "body"
  /\ method \in {"chat", "stream", "embeddings"}
  /\ maxTokens \in 0 .. MaxTokens
  /\ refreshed = FALSE /\ candidates = <<>>
  /\ tried = <<>> /\ lastErr = NoError
  /\ allRateLimited = FALSE /\ maxRetryAfter = 0
  /\ gone = FALSE
  /\ status = 0 /\ retryAfter = 0
  /\ recorded = <<>>

Respond(code) == status' = code /\ pc' = "done"

-----------------------------------------------------------------------------
(* Before the candidates are tried                                         *)

(* Wrong method, unreadable, oversized or invalid body. *)
RejectBody ==
  /\ pc = "body"
  /\ \E code \in {400, 405, 413} : Respond(code)
  /\ UNCHANGED <<request, routing, loop, gone, retryAfter, recorded>>

FindCandidates ==
  /\ pc = "body"
  /\ candidates' \in CandidateLists
  /\ pc' = IF candidates' = <<>> THEN "refresh" ELSE "budget"
  /\ UNCHANGED <<request, refreshed, loop, gone, answer, recorded>>

(* Registry.Refresh and CandidatesFor once more. *)
RefreshAndRetry ==
  /\ pc = "refresh"
  /\ refreshed' = TRUE
  /\ candidates' \in CandidateLists
  /\ pc' = IF candidates' = <<>> THEN "unknown" ELSE "budget"
  /\ UNCHANGED <<request, loop, gone, answer, recorded>>

ModelNotFound ==
  /\ pc = "unknown"
  /\ Respond(400)
  /\ UNCHANGED <<request, routing, loop, gone, retryAfter, recorded>>

(* 0 = no limit; main.go configures no Default. *)
limitFor(model) == IF model \in DOMAIN Budget THEN Budget[model] ELSE 0

Exceeds(model) ==
  /\ method # "embeddings" /\ maxTokens > 0
  /\ limitFor(model) > 0 /\ maxTokens > limitFor(model)

OverBudget ==
  /\ pc = "budget"
  /\ Exceeds(candidates[1].model)
  /\ Respond(400)
  /\ UNCHANGED <<request, routing, loop, gone, retryAfter, recorded>>

StartLoop ==
  /\ pc = "budget"
  /\ ~Exceeds(candidates[1].model)
  /\ pc' = "try"
  /\ allRateLimited' = (candidates # <<>>)
  /\ UNCHANGED <<request, routing, tried, lastErr, maxRetryAfter, gone, answer, recorded>>

-----------------------------------------------------------------------------
(* The fallback loop                                                       *)

Current == candidates[Len(tried) + 1]
Record(c, s) == recorded' = Append(recorded, [cand |-> c, status |-> s])

(* A stream is recorded when it ends, everything else at once: before the  *)
(* answer is encoded, which may fail.                                      *)
Succeed ==
  /\ pc = "try" /\ Len(tried) < Len(candidates)
  /\ tried' = Append(tried, Ok)
  /\ lastErr' = NoError
  /\ allRateLimited' = FALSE
  /\ \/ /\ method = "stream"
        /\ status' = 200 /\ pc' = "streaming"
        /\ UNCHANGED recorded
     \/ /\ method # "stream"
        /\ \E code \in {200, 500} : Respond(code)
        /\ Record(Current, "success")
  /\ UNCHANGED <<request, routing, maxRetryAfter, gone, retryAfter>>

(* Slip: allRateLimited is not cleared by other errors. *)
FailSticky ==
  /\ pc = "try" /\ Len(tried) < Len(candidates)
  /\ \E e \in Failures :
       /\ tried' = Append(tried, e)
       /\ lastErr' = e
       /\ maxRetryAfter' = IF e.after > maxRetryAfter THEN e.after ELSE maxRetryAfter
  /\ Record(Current, "error")
  /\ UNCHANGED <<pc, request, routing, allRateLimited, gone, answer>>

(* Slip: only the errors of the candidates before the last are recorded. *)
FailUnrecorded ==
  /\ pc = "try" /\ Len(tried) < Len(candidates)
  /\ \E e \in Failures :
       /\ tried' = Append(tried, e)
       /\ lastErr' = e
       /\ maxRetryAfter' = IF e.after > maxRetryAfter THEN e.after ELSE maxRetryAfter
       /\ allRateLimited' = (allRateLimited /\ e.kind = "rateLimited")
  /\ IF Len(tried') < Len(candidates) THEN Record(Current, "error") ELSE UNCHANGED recorded
  /\ UNCHANGED <<pc, request, routing, gone, answer>>

Fail ==
  /\ pc = "try" /\ Len(tried) < Len(candidates)
  /\ \E e \in Failures :
       /\ tried' = Append(tried, e)
       /\ lastErr' = e
       /\ maxRetryAfter' = IF e.after > maxRetryAfter THEN e.after ELSE maxRetryAfter
       /\ allRateLimited' = (allRateLimited /\ e.kind = "rateLimited")
  /\ Record(Current, "error")
  /\ UNCHANGED <<pc, request, routing, gone, answer>>

(* recordStreamEnd, however the stream ended. *)
EndStream ==
  /\ pc = "streaming"
  /\ pc' = "done"
  /\ Record(candidates[Len(tried)], "success")
  /\ UNCHANGED <<request, routing, loop, gone, answer>>

-----------------------------------------------------------------------------
(* All candidates failed                                                   *)

Exhausted == pc = "try" /\ Len(tried) = Len(candidates)

ClientGone ==
  /\ Exhausted /\ gone
  /\ Respond(499)
  /\ UNCHANGED <<request, routing, loop, gone, retryAfter, recorded>>

AllRateLimited ==
  /\ Exhausted /\ ~gone
  /\ allRateLimited
  /\ retryAfter' = maxRetryAfter \div TicksPerSecond
  /\ Respond(429)
  /\ UNCHANGED <<request, routing, loop, gone, recorded>>

Busy ==
  /\ Exhausted /\ ~gone /\ ~allRateLimited
  /\ lastErr = QueueFull
  /\ Respond(503)
  /\ UNCHANGED <<request, routing, loop, gone, retryAfter, recorded>>

(* 422 stands for the 4xx the last upstream answered. *)
writeProviderFailure ==
  /\ Exhausted /\ ~gone /\ ~allRateLimited
  /\ lastErr # QueueFull
  /\ Respond(IF lastErr = Rejected THEN 422 ELSE 502)
  /\ UNCHANGED <<request, routing, loop, gone, retryAfter, recorded>>

(* The client disconnects. *)
Leave ==
  /\ pc # "done" /\ ~gone
  /\ gone' = TRUE
  /\ UNCHANGED <<pc, request, routing, loop, answer, recorded>>

Prepare == \/ RejectBody \/ FindCandidates \/ RefreshAndRetry \/ ModelNotFound
           \/ OverBudget \/ StartLoop
TryCandidates == \/ Succeed \/ Fail
                 \/ ClientGone \/ AllRateLimited \/ Busy \/ writeProviderFailure

handleChatCompletions ==
  \/ method # "embeddings" /\ Prepare
  \/ method = "chat" /\ TryCandidates

handleStream == method = "stream" /\ (TryCandidates \/ EndStream)

handleEmbeddings == method = "embeddings" /\ (Prepare \/ TryCandidates)

Next == \/ handleChatCompletions \/ handleStream \/ handleEmbeddings \/ Leave
        \/ pc = "done" /\ UNCHANGED vars

Spec == Init /\ [][Next]_vars

-----------------------------------------------------------------------------
(* Properties                                                              *)

TypeOK ==
  /\ candidates \in CandidateLists
  /\ ToSet(tried) \subseteq Failures \cup {Ok}
  /\ lastErr \in Failures \cup {NoError}
  /\ maxRetryAfter \in Backoffs \cup {0}
  /\ status \in {0, 200, 400, 405, 413, 422, 429, 499, 500, 502, 503}

Kinds == {e.kind : e \in ToSet(tried)}
LastKind == tried[Len(tried)].kind

(* What the client is told agrees with what the candidates answered        *)
(* (config.md:315-333).  After a success it is 200, or 500 when an answer  *)
(* that is not a stream cannot be encoded (server.go:218-222, 458-463),    *)
(* and never after failures alone; 429 means that all were rate-limited    *)
(* and names the longest wait (in whole seconds, rounded down); full       *)
(* queues are 503 and 503 needs one; a 4xx is the last candidate's own;    *)
(* and no status but 400, 405 and 413 gives up before every candidate has  *)
(* been tried.                                                             *)
StatusTellsOutcome ==
  pc = "done" =>
    /\ "ok" \in Kinds => status = 200 \/ (method # "stream" /\ status = 500)
    /\ "ok" \notin Kinds => status \notin {200, 500}
    /\ status \notin {200, 500, 400, 405, 413} => Len(tried) = Len(candidates)
    /\ status = 429 => /\ Kinds = {"rateLimited"}
                       /\ \A i \in DOMAIN tried :
                            tried[i].after \div TicksPerSecond <= retryAfter
                       /\ \E i \in DOMAIN tried :
                            tried[i].after \div TicksPerSecond = retryAfter
    /\ Kinds = {"rateLimited"} /\ ~gone => status = 429
    /\ Kinds = {"queueFull"} /\ ~gone => status = 503
    /\ status = 503 => "queueFull" \in Kinds
    /\ status = 422 => LastKind = "rejected"
    /\ tried # <<>> /\ LastKind = "rejected" /\ ~gone => status = 422

(* One record per attempt, in order, under the name of the provider and    *)
(* the model that were tried, a success exactly for the one that answered: *)
(* what /metrics counts is what happened upstream.                         *)
MetricsMatchAttempts ==
  pc = "done" =>
    /\ Len(recorded) = Len(tried)
    /\ \A i \in DOMAIN recorded :
         /\ recorded[i].cand = candidates[i]
         /\ recorded[i].status = IF tried[i] = Ok THEN "success" ELSE "error"
=============================================================================
