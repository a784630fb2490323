---------------------------- MODULE StreamPipeline ----------------------------
(***************************************************************************)
(* One streamed answer on its way from the upstream's body to the client:  *)
(* the producer goroutine of openai/provider.go or anthropic/provider.go,  *)
(* the forwarder goroutine of bounded.go when the provider has limits, and *)
(* the loop of handleStream in server.go.                                  *)
(*                                                                         *)
(* The producer's channel is unbuffered: handing over a chunk is one step  *)
(* of both sides.  The forwarder's holds one chunk.  Slots and counters    *)
(* are in BoundedProvider; here it matters who waits for whom.  What       *)
(* thinkParser does to a text, and frames that do not parse, are left out. *)
(***************************************************************************)
EXTENDS Integers, SequencesExt

CONSTANTS
  Dialects,   \* subset of {"openai", "anthropic"}
  Wrappings,  \* subset of {"bare", "bounded", "timed"}; timed = request_timeout
  MaxTexts    \* bound on the text chunks of an answer

ASSUME PipelineAssumption ==
  /\ Dialects \subseteq {"openai", "anthropic"}
  /\ Wrappings \subseteq {"bare", "bounded", "timed"}
  /\ MaxTexts \in Nat

VARIABLES
  dialect, wrapping,
  script,    \* the frames of the upstream's complete answer
  cut,       \* how many of them come before the body ends
  pos,       \* how many the producer has read
  producer,  \* "scan", "send" (or ctx.Done), "last" (send only), "exited"
  forwarder, \* "none", "first" (ChatStream waits), "recv", "send", ..., "exited"
  out,       \* the forwarder's channel
  hand,      \* the chunk it holds
  cancelled, \* cancelInner was called
  handler,   \* "open", "loop", "returned" or "failed" (next candidate)
  written,   \* the chunks written to the client, [DONE] included
  gone,      \* the client has left
  ctxDone    \* r.Context() is done

answerVars == <<dialect, wrapping, script, cut>>
reading    == <<pos, producer>>
forwarding == <<forwarder, out, hand, cancelled>>
serving    == <<handler, written>>
vars == <<answerVars, reading, forwarding, serving, gone, ctxDone>>

Chunk(text, finish, usage, done) ==
  [text |-> text, finish |-> finish, usage |-> usage, done |-> done]
Text(i)   == Chunk(i, "", FALSE, FALSE)
DoneChunk == Chunk(0, "", FALSE, TRUE)    \* also the [DONE] line
UsageOnly == Chunk(0, "", TRUE, FALSE)

(* ChunkFromOpenAI: Done is finish_reason = "stop". *)
Finish(reason) == Chunk(0, reason, FALSE, reason = "stop")

Texts(n) == [i \in 1 .. n |-> Text(i)]

(* Texts, a finish reason, usage if asked for, [DONE]; the events that     *)
(* anthropic's processEvent turns into chunks are the texts and the stop.  *)
Script(d, n, reason, usage) ==
  IF d = "anthropic" THEN Texts(n) \o <<DoneChunk>>
  ELSE Texts(n) \o <<Finish(reason)>> \o usage \o <<DoneChunk>>

Scripts(d) == {Script(d, n, reason, usage) : n \in 0 .. MaxTexts,
                 reason \in {"stop", "length"}, usage \in {<<>>, <<UsageOnly>>}}

(* ChatStream has an open body; without request_timeout it has returned.   *)
Init ==
  /\ dialect \in Dialects /\ wrapping \in Wrappings
  /\ script \in Scripts(dialect)
  /\ cut \in 0 .. Len(script)
  /\ pos = 0 /\ producer = "scan"
  /\ forwarder = CASE wrapping = "bare" -> "none"
                   [] wrapping = "bounded" -> "recv"
                   [] wrapping = "timed" -> "first"
  /\ out = <<>> /\ hand = DoneChunk /\ cancelled = FALSE
  /\ handler = IF wrapping = "timed" THEN "open" ELSE "loop"
  /\ written = <<>>
  /\ gone = FALSE /\ ctxDone = FALSE

innerDone == ctxDone \/ cancelled

-----------------------------------------------------------------------------
(* The producer                                                            *)

(* Slip: anthropic sends its last chunk without looking at the context. *)
SendingBlind(c) == IF c = DoneChunk THEN "last" ELSE "send"

(* The openai producer sends the chunk of [DONE] outside of any select. *)
Sending(c) == IF c = DoneChunk /\ dialect = "openai" THEN "last" ELSE "send"

ReadFrame ==
  /\ producer = "scan" /\ pos < cut
  /\ pos' = pos + 1
  /\ producer' = Sending(script[pos + 1])
  /\ UNCHANGED <<answerVars, forwarding, serving, gone, ctxDone>>

(* Slip: only the end of the body ends the producer. *)
EndBodyOnEof ==
  /\ producer = "scan"
  /\ pos = cut
  /\ producer' = "exited"
  /\ UNCHANGED <<answerVars, pos, forwarding, serving, gone, ctxDone>>

(* The body ends, or fails because its context is done: Next or Scan       *)
(* answers FALSE and the deferred calls close body and channel.            *)
EndBody ==
  /\ producer = "scan"
  /\ pos = cut \/ innerDone
  /\ producer' = "exited"
  /\ UNCHANGED <<answerVars, pos, forwarding, serving, gone, ctxDone>>

ProducerCancelled ==
  /\ producer = "send" /\ innerDone
  /\ producer' = "exited"
  /\ UNCHANGED <<answerVars, pos, forwarding, serving, gone, ctxDone>>

(* The producer's half of a hand-over: [DONE] was its last chunk. *)
Offered == producer \in {"send", "last"}
HandOver ==
  /\ Offered
  /\ producer' = IF script[pos] = DoneChunk THEN "exited" ELSE "scan"
  /\ UNCHANGED pos

-----------------------------------------------------------------------------
(* The forwarder                                                           *)

(* Slip: the prefetched chunk is not put into the channel. *)
FirstTokenDropped ==
  /\ forwarder = "first"
  /\ HandOver
  /\ forwarder' = "recv" /\ handler' = "loop"
  /\ UNCHANGED <<answerVars, out, hand, cancelled, written, gone, ctxDone>>

FirstToken ==
  /\ forwarder = "first"
  /\ HandOver
  /\ out' = <<script[pos]>>
  /\ forwarder' = "recv" /\ handler' = "loop"
  /\ UNCHANGED <<answerVars, hand, cancelled, written, gone, ctxDone>>

(* The timer fires, the inner channel is closed, or the client has left. *)
NoFirstToken ==
  /\ forwarder = "first"
  /\ forwarder' = "exited" /\ cancelled' = TRUE /\ handler' = "failed"
  /\ UNCHANGED <<answerVars, reading, out, hand, written, gone, ctxDone>>

ForwarderReceives ==
  /\ forwarder = "recv"
  /\ HandOver
  /\ hand' = script[pos]
  /\ forwarder' = "send"
  /\ UNCHANGED <<answerVars, out, cancelled, serving, gone, ctxDone>>

ForwarderSends ==
  /\ forwarder = "send" /\ out = <<>>
  /\ out' = <<hand>>
  /\ forwarder' = "recv"
  /\ UNCHANGED <<answerVars, reading, hand, cancelled, serving, gone, ctxDone>>

(* Either select may see ctx.Done, the first also the closed channel. *)
ForwarderStops ==
  /\ \/ forwarder = "recv" /\ (producer = "exited" \/ ctxDone)
     \/ forwarder = "send" /\ ctxDone
  /\ forwarder' = "cancel"
  /\ UNCHANGED <<answerVars, reading, out, hand, cancelled, serving, gone, ctxDone>>

(* The deferred cancelInner, then close(out). *)
CancelInner ==
  /\ forwarder = "cancel"
  /\ forwarder' = "close" /\ cancelled' = TRUE
  /\ UNCHANGED <<answerVars, reading, out, hand, serving, gone, ctxDone>>

CloseOut ==
  /\ forwarder = "close"
  /\ forwarder' = "exited"
  /\ UNCHANGED <<answerVars, reading, out, hand, cancelled, serving, gone, ctxDone>>

-----------------------------------------------------------------------------
(* The handler                                                             *)

(* A Done chunk becomes [DONE], whatever else it carries, and is the last. *)
Write(c) ==
  /\ written' = Append(written, IF c.done THEN DoneChunk ELSE c)
  /\ handler' = IF c.done THEN "returned" ELSE handler

ReadFromProducer ==
  /\ handler = "loop" /\ wrapping = "bare"
  /\ HandOver
  /\ Write(script[pos])
  /\ UNCHANGED <<answerVars, forwarding, gone, ctxDone>>

ReadFromForwarder ==
  /\ handler = "loop" /\ out # <<>>
  /\ out' = <<>>
  /\ Write(Head(out))
  /\ UNCHANGED <<answerVars, reading, forwarder, hand, cancelled, gone, ctxDone>>

(* Slip: the producer's end is taken for the end of the stream. *)
ClosedUpstream == producer = "exited"

(* The channel the handler ranges over is closed and empty. *)
Closed ==
  IF wrapping = "bare" THEN producer = "exited"
  ELSE forwarder = "exited" /\ out = <<>>

ChannelClosed ==
  /\ handler = "loop" /\ Closed
  /\ Write(DoneChunk)
  /\ UNCHANGED <<answerVars, reading, forwarding, gone, ctxDone>>

(* net/http: the context is done when the client leaves, and after the     *)
(* handler has returned.                                                   *)
ClientLeaves ==
  /\ handler \in {"open", "loop"} /\ ~gone
  /\ gone' = TRUE /\ ctxDone' = TRUE
  /\ UNCHANGED <<answerVars, reading, forwarding, serving>>

EndRequest ==
  /\ handler \in {"returned", "failed"} /\ ~ctxDone
  /\ ctxDone' = TRUE
  /\ UNCHANGED <<answerVars, reading, forwarding, serving, gone>>

Producing == EndBody \/ ProducerCancelled
Passing   == \/ FirstToken \/ NoFirstToken \/ ForwarderReceives
             \/ ForwarderSends \/ ForwarderStops \/ CancelInner \/ CloseOut
Serving   == ReadFromProducer \/ ReadFromForwarder \/ ChannelClosed \/ EndRequest

Next == ReadFrame \/ Producing \/ Passing \/ Serving \/ ClientLeaves
Spec == Init /\ [][Next]_vars

(* Goroutines run; an upstream may be silent forever, but a read of its    *)
(* body fails once the context is done.                                    *)
FairSpec == Spec /\ WF_vars(innerDone /\ Producing)
                 /\ WF_vars(Passing) /\ WF_vars(Serving)

-----------------------------------------------------------------------------
(* Properties                                                              *)

TypeOK ==
  /\ pos \in 0 .. cut
  /\ producer \in {"scan", "send", "last", "exited"}
  /\ forwarder \in {"none", "first", "recv", "send", "cancel", "close", "exited"}
  /\ Len(out) <= 1
  /\ handler \in {"open", "loop", "returned", "failed"}
  /\ gone => ctxDone

(* The chunks that come before the upstream's first Done. *)
BeforeDone ==
  LET stops == {i \in 1 .. cut : script[i].done}
  IN  SubSeq(script, 1, IF stops = {} THEN cut ELSE Min(stops) - 1)

(* Through three goroutines and whatever is cancelled when, what a client  *)
(* has been sent is an unbroken beginning of the upstream's answer, and    *)
(* [DONE] comes once, at the end.                                          *)
InOrder ==
  IF handler = "returned"
  THEN Last(written) = DoneChunk /\ IsPrefix(Front(written), BeforeDone)
  ELSE IsPrefix(written, BeforeDone)

(* A client that stayed has been sent every chunk up to the upstream's     *)
(* Done or to the end of its body, also when the producer and the          *)
(* forwarder are long gone.                                                *)
WholeStream == handler = "returned" /\ ~gone => Front(written) = BeforeDone

(* roadmap.md:57-61 and gap-developer-guide.md:250: after the client has   *)
(* left, the handler and the forwarder come to an end, even when the       *)
(* upstream says nothing more.                                             *)
DisconnectEndsServing ==
  gone ~> handler \in {"returned", "failed"} /\ forwarder \in {"none", "exited"}

(* With the anthropic producer, whose every send also waits for the        *)
(* context, no goroutine of a stream survives its request.                 *)
AnthropicLeavesNothing ==
  dialect = "anthropic" /\ ctxDone
    ~> producer = "exited" /\ forwarder \in {"none", "exited"}
=============================================================================
