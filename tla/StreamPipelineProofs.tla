------------------------- MODULE StreamPipelineProofs -------------------------
(***************************************************************************)
(* What TLAPS proves of StreamPipeline for answers of every length, with   *)
(* and without limits and timeouts, and for clients that leave at any      *)
(* moment.                                                                 *)
(***************************************************************************)
EXTENDS StreamPipeline, WellFoundedInduction, TLAPS

ChunkSet == {DoneChunk, UsageOnly} \cup {Finish(reason) : reason \in {"stop", "length"}}
              \cup {Text(i) : i \in Nat}

Reading == {"none", "first", "recv", "send"}
Closing == {"cancel", "close", "exited"}

StateOK ==
  /\ wrapping \in {"bare", "bounded", "timed"}
  /\ script \in Seq(ChunkSet)
  /\ cut \in 0 .. Len(script) /\ pos \in 0 .. cut
  /\ producer \in {"scan", "send", "last", "exited"}
  /\ producer \in {"send", "last"} => pos >= 1
  /\ forwarder \in Reading \cup Closing
  /\ out \in Seq(ChunkSet) /\ Len(out) <= 1
  /\ hand \in ChunkSet
  /\ handler \in {"open", "loop", "returned", "failed"}
  /\ written \in Seq(ChunkSet)
  /\ gone \in BOOLEAN /\ ctxDone \in BOOLEAN /\ cancelled \in BOOLEAN
  /\ gone => ctxDone
  /\ wrapping = "bare" <=> forwarder = "none"
  /\ wrapping = "bare" => out = <<>>
  /\ cancelled => forwarder \in {"close", "exited"}
  /\ handler = "failed" => forwarder = "exited" /\ written = <<>>
  /\ forwarder = "first" => written = <<>> /\ out = <<>> /\ handler = "open"
  /\ handler = "open" => forwarder = "first"
  /\ handler \in {"open", "loop"} /\ ctxDone => gone

(* The first k chunks written are the first k of the answer, none is Done. *)
Begins(k) ==
  /\ k <= cut
  /\ \A i \in 1 .. k : written[i] = script[i] /\ ~script[i].done

(* After k chunks nothing is left to send: the body ends, or Done follows. *)
Ends(k) == k = cut \/ (k < cut /\ script[k + 1].done)

WrittenOK ==
  /\ handler # "returned" => Begins(Len(written))
  /\ handler = "returned" =>
       /\ Len(written) >= 1 /\ written[Len(written)] = DoneChunk
       /\ Begins(Len(written) - 1)
       /\ ~gone => Ends(Len(written) - 1)

(* Where the chunks are that have left the producer: written, in the       *)
(* forwarder's channel or in its hand.                                     *)
Passed == Len(written) + Len(out) + (IF forwarder = "send" THEN 1 ELSE 0)

(* The producer ends early only when the context is done.                  *)
Complete == Passed = pos /\ (pos = cut \/ (pos >= 1 /\ script[pos] = DoneChunk))

HandedOver ==
  /\ producer = "scan" => Passed = pos
  /\ producer \in {"send", "last"} => Passed = pos - 1
  /\ producer = "exited" => Passed <= pos /\ (~ctxDone => Complete)

PassingOK ==
  handler \in {"open", "loop"} =>
    /\ out # <<>> => Len(written) < cut /\ out[1] = script[Len(written) + 1]
    /\ forwarder = "send" => /\ Passed <= cut
                             /\ hand = script[Len(written) + Len(out) + 1]
    /\ forwarder \in Reading => HandedOver
    /\ forwarder \in Closing =>
         /\ Passed <= pos
         /\ ~ctxDone => producer = "exited" /\ Complete

PipelineInv == StateOK /\ WrittenOK /\ PassingOK

-----------------------------------------------------------------------------
(* The end of the answer                                                   *)

(* The chunk of [DONE] says that it is the last one. *)
LEMMA DoneIsDone == DoneChunk \in ChunkSet /\ DoneChunk.done = TRUE
BY DEF ChunkSet, DoneChunk, Chunk

(* A set of natural numbers has a least element. *)
LEMMA LeastExists ==
  ASSUME NEW S, S \subseteq Nat, S # {}
  PROVE  \E m \in S : \A y \in S : m <= y
<1>1. PICK m \in S : \A y \in S : ~ (<<y, m>> \in OpToRel(<, Nat))
  BY WFMin, NatLessThanWellFounded, Zenon
<1>2. \A y \in S : ~ (y < m)
  BY <1>1, Zenon DEF OpToRel
<1>3. \A y \in S : m <= y
  BY <1>2
<1> QED
  BY <1>3

(* Min is the least element when there is one. *)
LEMMA MinIsLeast ==
  ASSUME NEW S, NEW m \in S, \A y \in S : m <= y, S \subseteq Nat
  PROVE  Min(S) = m
<1>1. Min(S) \in S /\ \A y \in S : Min(S) <= y
  BY DEF Min
<1>2. Min(S) \in Nat /\ m \in Nat /\ Min(S) <= m /\ m <= Min(S)
  BY <1>1
<1> QED
  BY <1>2

(* A beginning of the answer with no Done in it begins what comes before   *)
(* the first Done, and is all of that when the answer ends there.          *)
LEMMA BeginsBeforeDone ==
  ASSUME StateOK, NEW k \in Nat, k <= Len(written), Begins(k)
  PROVE  /\ BeforeDone \in Seq(ChunkSet) /\ k <= Len(BeforeDone)
         /\ \A i \in 1 .. k : BeforeDone[i] = script[i]
         /\ Ends(k) => Len(BeforeDone) = k
<1> DEFINE stops == {i \in 1 .. cut : script[i].done}
           last == IF stops = {} THEN cut ELSE Min(stops) - 1
<1>1. cut \in Nat /\ cut <= Len(script) /\ script \in Seq(ChunkSet) /\ k <= cut
  BY DEF StateOK, Begins
<1>2. \A i \in stops : i > k
  BY <1>1 DEF Begins
<1>3. /\ last \in Nat /\ k <= last /\ last <= cut
      /\ Ends(k) => last = k
  <2>1. CASE stops = {}
    <3>1. Ends(k) => k = cut
      BY <1>1, <2>1 DEF Ends
    <3> QED
      BY <1>1, <2>1, <3>1
  <2>2. CASE stops # {}
    <3>1. PICK m \in stops : \A y \in stops : m <= y
      <4>1. stops \subseteq Nat
        OBVIOUS
      <4>2. \E m \in stops : \A y \in stops : m <= y
        BY <2>2, <4>1, LeastExists
      <4> QED
        BY <4>2
    <3>2. Min(stops) = m
      BY <3>1, MinIsLeast
    <3>3. m \in 1 .. cut /\ m > k
      BY <1>2, <3>1
    <3>4. ASSUME Ends(k) PROVE m = k + 1
      <4>1. k < cut /\ script[k + 1].done
        BY <1>1, <1>2, <2>2, <3>3, <3>4 DEF Ends
      <4>2. k + 1 \in stops
        BY <1>1, <4>1
      <4> QED
        BY <1>1, <3>1, <3>3, <4>2
    <3> QED
      BY <1>1, <2>2, <3>2, <3>3, <3>4
  <2> QED
    BY <2>1, <2>2
<1>4. BeforeDone = SubSeq(script, 1, last)
  BY DEF BeforeDone
<1> HIDE DEF last
<1>5. /\ SubSeq(script, 1, last) \in Seq(ChunkSet) /\ Len(SubSeq(script, 1, last)) = last
      /\ \A i \in 1 .. last : SubSeq(script, 1, last)[i] = script[i]
  BY <1>1, <1>3
<1> QED
  BY <1>1, <1>3, <1>4, <1>5

-----------------------------------------------------------------------------
(* The producer reads on, ends or is cancelled.                            *)
LEMMA ProducerStep ==
  ASSUME PipelineInv, ReadFrame \/ Producing
  PROVE  PipelineInv'
<1> USE DEF answerVars, reading, forwarding, serving
<1>1. /\ UNCHANGED <<wrapping, script, cut, forwarder, out, hand, cancelled, handler, written,
                     gone, ctxDone>>
      /\ pos' \in {pos, pos + 1} /\ pos' <= cut /\ pos \in Nat /\ cut \in Nat
      /\ producer' \in {"send", "last"} => pos' = pos + 1
      /\ producer' \in {"send", "last", "exited"}
  BY DEF PipelineInv, StateOK, ReadFrame, Sending, Producing, EndBody, ProducerCancelled
<1>2. StateOK'
  BY <1>1 DEF PipelineInv, StateOK
<1>3. WrittenOK'
  BY <1>1 DEF PipelineInv, WrittenOK, Begins, Ends
<1>4. PassingOK'
  <2> SUFFICES ASSUME handler \in {"open", "loop"} PROVE PassingOK'
    BY <1>1 DEF PassingOK
  <2>1. PassingOK /\ Passed' = Passed /\ Passed \in Nat
    BY <1>1 DEF PipelineInv, StateOK, Passed
  <2>2. CASE ReadFrame
    <3>1. producer = "scan" /\ pos' = pos + 1 /\ producer' \in {"send", "last"}
      BY <2>2 DEF ReadFrame, Sending
    <3>2. forwarder \in Reading => HandedOver'
      BY <1>1, <2>1, <3>1 DEF PassingOK, HandedOver
    <3>3. forwarder \in Closing => Passed <= pos' /\ ctxDone
      BY <1>1, <2>1, <3>1 DEF PassingOK
    <3> QED
      BY <1>1, <2>1, <3>2, <3>3 DEF PassingOK
  <2>3. CASE Producing
    <3>1. /\ pos' = pos /\ producer' = "exited" /\ producer # "exited"
          /\ (producer = "scan" /\ pos = cut) \/ innerDone
      BY <2>3 DEF Producing, EndBody, ProducerCancelled
    <3>2. forwarder \in Closing => ctxDone
      BY <2>1, <3>1 DEF PassingOK
    <3>3. forwarder \in Reading => ~cancelled
      BY DEF PipelineInv, StateOK, Reading
    <3>4. forwarder \in Reading => HandedOver'
      <4> SUFFICES ASSUME forwarder \in Reading PROVE HandedOver'
        OBVIOUS
      <4>1. HandedOver /\ producer \in {"scan", "send", "last"}
        BY <2>1, <3>1 DEF PassingOK, PipelineInv, StateOK
      <4>2. Passed <= pos
        BY <1>1, <2>1, <4>1 DEF HandedOver
      <4>3. ~ctxDone => Passed = pos /\ pos = cut
        BY <3>1, <3>3, <4>1 DEF HandedOver, innerDone
      <4> QED
        BY <1>1, <2>1, <3>1, <4>2, <4>3 DEF HandedOver, Complete
    <3> QED
      BY <1>1, <2>1, <3>1, <3>2, <3>4 DEF PassingOK
  <2> QED
    BY <2>2, <2>3
<1> QED
  BY <1>2, <1>3, <1>4 DEF PipelineInv

-----------------------------------------------------------------------------
(* A hand-over is of the chunk that comes next.                            *)
LEMMA HandOverStep ==
  ASSUME PipelineInv, HandOver, HandedOver, UNCHANGED <<script, cut, ctxDone>>
  PROVE  /\ pos \in Nat \ {0} /\ pos <= cut /\ Passed + 1 = pos /\ script[pos] \in ChunkSet
         /\ producer' \in {"scan", "exited"} /\ pos' = pos
         /\ Passed' = pos => HandedOver'
<1>1. /\ pos \in Nat \ {0} /\ pos <= cut /\ cut <= Len(script) /\ cut \in Nat
      /\ script \in Seq(ChunkSet)
      /\ producer \in {"send", "last"}
  BY DEF PipelineInv, StateOK, HandOver, Offered
<1>2. Passed + 1 = pos
  BY <1>1 DEF HandedOver
<1>3. script[pos] \in ChunkSet
  BY <1>1
<1>4. /\ producer' = IF script[pos] = DoneChunk THEN "exited" ELSE "scan"
      /\ pos' = pos
  BY DEF HandOver
<1>5. Passed' = pos => HandedOver'
  BY <1>1, <1>4 DEF HandedOver, Complete
<1> QED
  BY <1>1, <1>2, <1>3, <1>4, <1>5

(* The forwarder takes what the producer offers, and passes it on.         *)
LEMMA ForwarderStep ==
  ASSUME PipelineInv, FirstToken \/ ForwarderReceives \/ ForwarderSends
  PROVE  PipelineInv'
<1> USE DEF answerVars, reading, forwarding, serving
<1>0. /\ StateOK /\ WrittenOK /\ PassingOK
      /\ UNCHANGED <<wrapping, script, cut, cancelled, written, gone, ctxDone>>
      /\ Len(written) \in Nat /\ Len(out) \in Nat
  BY DEF PipelineInv, StateOK, FirstToken, ForwarderReceives, ForwarderSends
<1>1. CASE FirstToken
  <2>1. /\ forwarder = "first" /\ forwarder' = "recv" /\ out' = <<script[pos]>>
        /\ handler' = "loop" /\ HandOver /\ hand' = hand
    BY <1>1 DEF FirstToken
  <2>2. handler = "open" /\ HandedOver /\ written = <<>> /\ out = <<>>
    BY <1>0, <2>1 DEF StateOK, PassingOK, Reading
  <2>3. /\ pos \in Nat \ {0} /\ pos <= cut /\ Passed + 1 = pos /\ script[pos] \in ChunkSet
        /\ producer' \in {"scan", "exited"} /\ pos' = pos
        /\ Passed' = pos => HandedOver'
    BY <1>0, <2>1, <2>2, HandOverStep
  <2>4. pos = 1 /\ Passed' = 1 /\ out' \in Seq(ChunkSet) /\ Len(out') = 1
        /\ out'[1] = script[1] /\ Len(written) = 0
    BY <1>0, <2>1, <2>2, <2>3 DEF Passed
  <2>5. StateOK'
    <3>1. wrapping # "bare"
      BY <1>0, <2>1 DEF StateOK
    <3> QED
      BY <1>0, <2>1, <2>2, <2>3, <2>4, <3>1 DEF StateOK, Reading, Closing
  <2>6. WrittenOK'
    BY <1>0, <2>1, <2>2 DEF WrittenOK, Begins
  <2>7. PassingOK'
    BY <1>0, <2>1, <2>3, <2>4 DEF PassingOK, Reading, Closing, StateOK
  <2> QED
    BY <2>5, <2>6, <2>7 DEF PipelineInv
<1>2. CASE ForwarderReceives
  <2>1. /\ forwarder = "recv" /\ forwarder' = "send" /\ hand' = script[pos] /\ HandOver
        /\ UNCHANGED <<out, handler>>
    BY <1>2 DEF ForwarderReceives
  <2>2. StateOK' /\ WrittenOK'
    <3>1. /\ pos \in Nat \ {0} /\ script[pos] \in ChunkSet
          /\ producer' \in {"scan", "exited"} /\ pos' = pos
      BY <1>0, <2>1 DEF StateOK, HandOver, Offered
    <3> QED
      BY <1>0, <2>1, <3>1 DEF StateOK, WrittenOK, Begins, Ends, Reading, Closing
  <2>3. PassingOK'
    <3> SUFFICES ASSUME handler \in {"open", "loop"} PROVE PassingOK'
      BY <2>1 DEF PassingOK
    <3>1. HandedOver /\ Passed = Len(written) + Len(out)
      BY <1>0, <2>1 DEF PassingOK, Reading, Passed
    <3>2. /\ pos \in Nat \ {0} /\ pos <= cut /\ Passed + 1 = pos /\ pos' = pos
          /\ Passed' = pos => HandedOver'
      BY <1>0, <2>1, <3>1, HandOverStep
    <3>3. Passed' = pos
      BY <1>0, <2>1, <3>1, <3>2 DEF Passed
    <3>4. hand' = script'[Len(written') + Len(out') + 1]
      BY <1>0, <2>1, <3>1, <3>2
    <3> QED
      BY <1>0, <2>1, <3>2, <3>3, <3>4 DEF PassingOK, Reading, Closing
  <2> QED
    BY <2>2, <2>3 DEF PipelineInv
<1>3. CASE ForwarderSends
  <2>1. /\ forwarder = "send" /\ forwarder' = "recv" /\ out = <<>> /\ out' = <<hand>>
        /\ UNCHANGED <<pos, producer, hand, handler>>
    BY <1>3 DEF ForwarderSends
  <2>2. hand \in ChunkSet /\ out' \in Seq(ChunkSet) /\ Len(out') = 1 /\ out'[1] = hand
    BY <1>0, <2>1 DEF StateOK
  <2>3. StateOK' /\ WrittenOK'
    BY <1>0, <2>1, <2>2 DEF StateOK, WrittenOK, Begins, Ends, Reading, Closing
  <2>4. PassingOK'
    <3>1. Passed' = Passed /\ Passed = Len(written) + 1
      BY <1>0, <2>1, <2>2 DEF Passed
    <3>2. HandedOver => HandedOver'
      BY <1>0, <2>1, <3>1 DEF HandedOver, Complete
    <3>3. cut \in Nat
      BY <1>0 DEF StateOK
    <3> QED
      BY <1>0, <2>1, <2>2, <3>1, <3>2, <3>3 DEF PassingOK, Reading, Closing
  <2> QED
    BY <2>3, <2>4 DEF PipelineInv
<1> QED
  BY <1>1, <1>2, <1>3

(* It gives up, and unwinds.                                               *)
LEMMA ClosingStep ==
  ASSUME PipelineInv, NoFirstToken \/ ForwarderStops \/ CancelInner \/ CloseOut
  PROVE  PipelineInv'
<1> USE DEF answerVars, reading, forwarding, serving
<1>0. /\ StateOK /\ WrittenOK /\ PassingOK
      /\ UNCHANGED <<wrapping, script, cut, pos, producer, out, hand, written, gone, ctxDone>>
      /\ Len(written) \in Nat /\ Len(out) \in Nat /\ pos \in Nat
  BY DEF PipelineInv, StateOK, NoFirstToken, ForwarderStops, CancelInner, CloseOut
<1>1. CASE NoFirstToken
  <2>1. forwarder = "first" /\ forwarder' = "exited" /\ cancelled' = TRUE /\ handler' = "failed"
    BY <1>1 DEF NoFirstToken
  <2>2. StateOK'
    BY <1>0, <2>1 DEF StateOK, Reading, Closing
  <2>3. WrittenOK'
    BY <1>0, <2>1 DEF StateOK, WrittenOK, Begins
  <2> QED
    BY <1>0, <2>1, <2>2, <2>3 DEF PipelineInv, PassingOK
<1>2. CASE ForwarderStops \/ CancelInner \/ CloseOut
  <2>1. /\ forwarder \in {"recv", "send", "cancel", "close"} /\ forwarder' \in Closing
        /\ UNCHANGED handler /\ cancelled' \in BOOLEAN
        /\ cancelled' => forwarder' \in {"close", "exited"}
        /\ forwarder \in {"recv", "send"} => ctxDone \/ (forwarder = "recv" /\ producer = "exited")
    <3>1. CASE ForwarderStops
      <4>1. ~cancelled
        BY <1>0, <3>1 DEF ForwarderStops, StateOK
      <4> QED
        BY <1>0, <3>1, <4>1 DEF ForwarderStops, Closing, StateOK
    <3>2. CASE CancelInner
      BY <3>2 DEF CancelInner, Closing
    <3>3. CASE CloseOut
      BY <1>0, <3>3 DEF CloseOut, Closing, StateOK
    <3> QED
      BY <1>2, <3>1, <3>2, <3>3
  <2>2. StateOK' /\ WrittenOK'
    BY <1>0, <2>1 DEF StateOK, WrittenOK, Begins, Ends, Reading, Closing
  <2>3. PassingOK'
    <3> SUFFICES ASSUME handler \in {"open", "loop"} PROVE PassingOK'
      BY <2>1 DEF PassingOK
    <3>1. /\ forwarder' \notin Reading /\ forwarder' # "send"
          /\ Passed' <= Passed /\ (forwarder # "send" => Passed' = Passed)
          /\ Passed' \in Nat /\ Passed \in Nat
      BY <1>0, <2>1 DEF Passed, Reading, Closing
    <3>2. Passed <= pos
      <4>1. producer \in {"scan", "send", "last", "exited"}
        BY <1>0 DEF StateOK
      <4>2. CASE forwarder \in Closing
        BY <1>0, <4>2 DEF PassingOK
      <4>3. CASE forwarder \in {"recv", "send"}
        BY <1>0, <3>1, <4>1, <4>3 DEF PassingOK, HandedOver, Reading
      <4> QED
        BY <2>1, <4>2, <4>3 DEF Closing
    <3>3. ~ctxDone => forwarder # "send" /\ producer = "exited" /\ Complete
      <4>1. CASE forwarder \in Closing
        BY <1>0, <4>1 DEF PassingOK, Closing
      <4>2. CASE forwarder \in {"recv", "send"}
        BY <1>0, <2>1, <4>2 DEF PassingOK, HandedOver, Reading
      <4> QED
        BY <2>1, <4>1, <4>2 DEF Closing
    <3>4. ~ctxDone => Complete'
      BY <1>0, <3>1, <3>3 DEF Complete
    <3> QED
      BY <1>0, <2>1, <3>1, <3>2, <3>3, <3>4 DEF PassingOK
  <2> QED
    BY <2>2, <2>3 DEF PipelineInv
<1> QED
  BY <1>1, <1>2

-----------------------------------------------------------------------------
(* The handler writes the next chunk.                                      *)
LEMMA WriteNext ==
  ASSUME PipelineInv, NEW c \in ChunkSet, Write(c), handler = "loop",
         UNCHANGED <<script, cut, gone>>,
         Len(written) < cut, c = script[Len(written) + 1]
  PROVE  /\ written' \in Seq(ChunkSet) /\ Len(written') = Len(written) + 1
         /\ handler' \in {"loop", "returned"}
         /\ WrittenOK'
<1> DEFINE w == Len(written)
           d == IF c.done THEN DoneChunk ELSE c
<1>1. /\ written \in Seq(ChunkSet) /\ w \in Nat /\ cut \in Nat 
      /\ w < cut /\ Begins(w)
  BY DEF PipelineInv, StateOK, WrittenOK
<1>2. d \in ChunkSet
  BY DoneIsDone
<1>3. written' = Append(written, d)
  BY DEF Write
<1> HIDE DEF d
<1>4. /\ written' \in Seq(ChunkSet) /\ Len(written') = w + 1 /\ written'[w + 1] = d
      /\ \A i \in 1 .. w : written'[i] = written[i]
  BY <1>1, <1>2, <1>3
<1>5. handler' = IF c.done THEN "returned" ELSE "loop"
  BY DEF Write
<1>6. \A i \in 1 .. w : written'[i] = script'[i] /\ ~script'[i].done
  BY <1>1, <1>4 DEF Begins
<1>7. WrittenOK'
  <2>1. CASE c.done
    <3>1. d = DoneChunk /\ script[w + 1].done /\ handler' = "returned"
      BY <1>5, <2>1 DEF d
    <3>2. Len(written') - 1 = w /\ Len(written') >= 1
      BY <1>1, <1>4
    <3>3. Begins(Len(written) - 1)'
      BY <1>1, <1>6, <3>2 DEF Begins
    <3>4. Ends(Len(written) - 1)'
      BY <1>1, <3>1, <3>2 DEF Ends
    <3> QED
      BY <1>4, <3>1, <3>2, <3>3, <3>4 DEF WrittenOK
  <2>2. CASE ~c.done
    <3>1. d = c /\ handler' = "loop"
      BY <1>5, <2>2 DEF d
    <3>2. \A i \in 1 .. w + 1 : written'[i] = script'[i] /\ ~script'[i].done
      <4>1. written'[w + 1] = script'[w + 1] /\ ~script'[w + 1].done
        BY <1>4, <2>2, <3>1
      <4>2. \A i \in 1 .. w + 1 : i = w + 1 \/ i \in 1 .. w
        BY <1>1
      <4> QED
        BY <1>6, <4>1, <4>2
    <3>3. Begins(Len(written))'
      BY <1>1, <1>4, <3>2 DEF Begins
    <3> QED
      BY <3>1, <3>3 DEF WrittenOK
  <2> QED
    BY <1>1, <2>1, <2>2
<1> QED
  BY <1>4, <1>5, <1>7

(* The handler takes a chunk from either channel and writes it. *)
LEMMA ReadStep ==
  ASSUME PipelineInv, ReadFromProducer \/ ReadFromForwarder
  PROVE  PipelineInv'
<1> USE DEF answerVars, reading, forwarding, serving
<1>0. /\ StateOK /\ WrittenOK /\ PassingOK /\ handler = "loop"
      /\ UNCHANGED <<wrapping, script, cut, forwarder, hand, cancelled, gone, ctxDone>>
      /\ Len(written) \in Nat /\ Len(out) \in Nat /\ cut \in Nat
      /\ script \in Seq(ChunkSet) /\ cut <= Len(script)
  BY DEF PipelineInv, StateOK, ReadFromProducer, ReadFromForwarder
<1>1. CASE ReadFromProducer
  <2>1. forwarder = "none" /\ out = <<>> /\ out' = out /\ HandOver /\ Write(script[pos])
    BY <1>0, <1>1 DEF ReadFromProducer, StateOK
  <2>2. HandedOver /\ Passed = Len(written)
    BY <1>0, <2>1 DEF PassingOK, Reading, Passed
  <2>3. /\ pos \in Nat \ {0} /\ pos <= cut /\ Passed + 1 = pos /\ script[pos] \in ChunkSet
        /\ producer' \in {"scan", "exited"} /\ pos' = pos
        /\ Passed' = pos => HandedOver'
    BY <1>0, <2>1, <2>2, HandOverStep
  <2>4. Len(written) < cut /\ pos = Len(written) + 1
    BY <1>0, <2>2, <2>3
  <2>5. /\ written' \in Seq(ChunkSet) /\ Len(written') = Len(written) + 1
        /\ handler' \in {"loop", "returned"} /\ WrittenOK'
    BY <1>0, <2>1, <2>3, <2>4, WriteNext
  <2>6. StateOK'
    BY <1>0, <2>1, <2>3, <2>5 DEF StateOK, Reading, Closing
  <2>7. PassingOK'
    <3>1. Passed' = pos
      BY <1>0, <2>1, <2>4, <2>5 DEF Passed
    <3> QED
      BY <1>0, <2>1, <2>3, <3>1 DEF PassingOK, Reading, Closing
  <2> QED
    BY <2>5, <2>6, <2>7 DEF PipelineInv
<1>2. CASE ReadFromForwarder
  <2>1. out # <<>> /\ out' = <<>> /\ Write(Head(out)) /\ UNCHANGED <<pos, producer>>
    BY <1>2 DEF ReadFromForwarder
  <2>2. Len(out) = 1 /\ Len(out') = 0
    <3>1. out \in Seq(ChunkSet) /\ Len(out) <= 1
      BY <1>0 DEF StateOK
    <3>2. Len(out) # 0 /\ Len(out) \in Nat
      BY <2>1, <3>1
    <3>3. Len(<<>>) = 0
      OBVIOUS
    <3>4. Len(out') = 0
      BY <2>1, <3>3
    <3> QED
      BY <3>1, <3>2, <3>4
  <2>3. /\ Len(written) < cut /\ Head(out) = script[Len(written) + 1] /\ Head(out) \in ChunkSet
    BY <1>0, <2>1 DEF PassingOK, StateOK
  <2>4. /\ written' \in Seq(ChunkSet) /\ Len(written') = Len(written) + 1
        /\ handler' \in {"loop", "returned"} /\ WrittenOK'
    BY <1>0, <2>1, <2>3, WriteNext
  <2>5. StateOK'
    BY <1>0, <2>1, <2>2, <2>4 DEF StateOK, Reading, Closing
  <2>6. PassingOK'
    <3>1. Passed' = Passed
      BY <1>0, <2>2, <2>4 DEF Passed
    <3>2. Len(written') + Len(out') = Len(written) + Len(out)
      BY <1>0, <2>2, <2>4
    <3>3. (HandedOver => HandedOver') /\ (Complete => Complete')
      BY <1>0, <2>1, <3>1 DEF HandedOver, Complete
    <3> QED
      BY <1>0, <2>1, <3>1, <3>2, <3>3 DEF PassingOK
  <2> QED
    BY <2>4, <2>5, <2>6 DEF PipelineInv
<1> QED
  BY <1>1, <1>2

(* A closed channel means that all there was has been written, unless the  *)
(* client has left.                                                        *)
LEMMA ClosedStep ==
  ASSUME PipelineInv, ChannelClosed
  PROVE  PipelineInv'
<1> USE DEF answerVars, reading, forwarding, serving
<1> DEFINE w == Len(written)
<1>0. /\ StateOK /\ WrittenOK /\ PassingOK /\ handler = "loop" /\ Closed
      /\ handler' = "returned" /\ written' = Append(written, DoneChunk)
      /\ UNCHANGED <<wrapping, script, cut, pos, producer, forwarder, out, hand, cancelled, gone,
                     ctxDone>>
      /\ w \in Nat /\ cut \in Nat /\ pos \in Nat /\ pos <= cut
  BY DoneIsDone DEF PipelineInv, StateOK, ChannelClosed, Write
<1>1. /\ written' \in Seq(ChunkSet) /\ Len(written') = w + 1 /\ written'[w + 1] = DoneChunk
      /\ \A i \in 1 .. w : written'[i] = written[i]
  <2>1. written \in Seq(ChunkSet)
    BY <1>0 DEF StateOK
  <2>2. DoneChunk \in ChunkSet
    BY DoneIsDone
  <2> QED
    BY <1>0, <2>1, <2>2
<1>2. Begins(w)
  BY <1>0 DEF WrittenOK
<1>3. ~gone => w = cut
  <2> SUFFICES ASSUME ~gone PROVE w = cut
    OBVIOUS
  <2>1. ~ctxDone
    BY <1>0 DEF StateOK
  <2>2. /\ out = <<>> /\ forwarder # "send" /\ producer = "exited"
        /\ Complete
    <3>1. CASE wrapping = "bare"
      BY <1>0, <2>1, <3>1 DEF Closed, StateOK, PassingOK, HandedOver, Reading
    <3>2. CASE wrapping # "bare"
      BY <1>0, <2>1, <3>2 DEF Closed, PassingOK, Closing
    <3> QED
      BY <3>1, <3>2
  <2>3. Passed = w
    BY <1>0, <2>2 DEF Passed
  <2>4. ~(pos >= 1 /\ script[pos] = DoneChunk)
    BY <1>0, <1>2, <2>2, <2>3, DoneIsDone DEF Begins, Complete
  <2> QED
    BY <2>2, <2>3, <2>4 DEF Complete
<1>4. WrittenOK'
  <2>1. Len(written') - 1 = w /\ Len(written') >= 1
    BY <1>0, <1>1
  <2>2. Begins(Len(written) - 1)'
    BY <1>0, <1>1, <1>2, <2>1 DEF Begins
  <2>3. ~gone => Ends(Len(written) - 1)'
    BY <1>0, <1>3, <2>1 DEF Ends
  <2> QED
    BY <1>0, <1>1, <2>1, <2>2, <2>3 DEF WrittenOK
<1>5. StateOK'
  BY <1>0, <1>1 DEF StateOK, Reading, Closing
<1> QED
  BY <1>0, <1>4, <1>5 DEF PipelineInv, PassingOK

(* A client that leaves, and the end of its request, change only contexts. *)
LEMMA LeaveStep ==
  ASSUME PipelineInv, ClientLeaves \/ EndRequest \/ UNCHANGED vars
  PROVE  PipelineInv'
<1> USE DEF answerVars, reading, forwarding, serving
<1>0. /\ StateOK /\ WrittenOK /\ PassingOK
      /\ UNCHANGED <<wrapping, script, cut, pos, producer, forwarder, out, hand, cancelled,
                     handler, written>>
      /\ Passed' = Passed /\ pos \in Nat
  BY DEF PipelineInv, StateOK, ClientLeaves, EndRequest, vars, Passed
<1>1. CASE ClientLeaves
  <2>1. handler \in {"open", "loop"} /\ gone' = TRUE /\ ctxDone' = TRUE
    BY <1>1 DEF ClientLeaves
  <2>2. StateOK' /\ WrittenOK'
    BY <1>0, <2>1 DEF StateOK, WrittenOK, Begins
  <2>3. PassingOK'
    BY <1>0, <2>1 DEF PassingOK, HandedOver
  <2> QED
    BY <2>2, <2>3 DEF PipelineInv
<1>2. CASE EndRequest
  <2>1. handler \in {"returned", "failed"} /\ ctxDone' = TRUE /\ gone' = gone
    BY <1>2 DEF EndRequest
  <2>2. StateOK' /\ WrittenOK'
    BY <1>0, <2>1 DEF StateOK, WrittenOK, Begins, Ends
  <2> QED
    BY <1>0, <2>1, <2>2 DEF PipelineInv, PassingOK
<1>3. CASE UNCHANGED vars
  BY <1>0, <1>3 DEF vars, PipelineInv, StateOK, WrittenOK, Begins, Ends, PassingOK, HandedOver,
                    Complete
<1> QED
  BY <1>1, <1>2, <1>3

-----------------------------------------------------------------------------

(* The answers of either dialect are made of chunks. *)
LEMMA ScriptsAreChunks == \A d \in {"openai", "anthropic"} : \A s \in Scripts(d) : s \in Seq(ChunkSet)
<1> SUFFICES ASSUME NEW d \in {"openai", "anthropic"}, NEW n \in 0 .. MaxTexts,
                    NEW reason \in {"stop", "length"}, NEW usage \in {<<>>, <<UsageOnly>>}
             PROVE  Script(d, n, reason, usage) \in Seq(ChunkSet)
  BY DEF Scripts
<1>1. /\ DoneChunk \in ChunkSet /\ UsageOnly \in ChunkSet /\ Finish(reason) \in ChunkSet
      /\ \A i \in 1 .. n : Text(i) \in ChunkSet
  BY DEF ChunkSet
<1>2. Texts(n) \in Seq(ChunkSet)
  BY <1>1, PipelineAssumption DEF Texts
<1>3. \A c \in ChunkSet : <<c>> \in Seq(ChunkSet)
  OBVIOUS
<1>4. usage \in Seq(ChunkSet)
  <2>1. <<>> \in Seq(ChunkSet) /\ <<UsageOnly>> \in Seq(ChunkSet)
    BY <1>1, <1>3
  <2>2. usage = <<>> \/ usage = <<UsageOnly>>
    OBVIOUS
  <2> QED
    BY <2>1, <2>2, Zenon
<1>5. <<DoneChunk>> \in Seq(ChunkSet) /\ <<Finish(reason)>> \in Seq(ChunkSet)
  BY <1>1, <1>3
<1> QED
  BY <1>2, <1>4, <1>5 DEF Script

(* At the start nothing has been passed on. *)
LEMMA PipelineInit == Init => PipelineInv
<1> SUFFICES ASSUME Init PROVE PipelineInv
  OBVIOUS
<1>1. script \in Seq(ChunkSet) /\ wrapping \in {"bare", "bounded", "timed"}
  BY ScriptsAreChunks, PipelineAssumption DEF Init
<1>2. DoneChunk \in ChunkSet
  BY DoneIsDone
<1>3. cut \in Nat /\ cut <= Len(script) /\ cut \in 0 .. Len(script)
  BY <1>1 DEF Init
<1>4. StateOK
  <2>1. /\ wrapping = "bare" <=> forwarder = "none"
        /\ forwarder \in Reading
        /\ forwarder = "first" <=> handler = "open"
        /\ handler \in {"open", "loop"}
    BY <1>1 DEF Init, Reading
  <2>2. /\ out = <<>> /\ written = <<>> /\ hand = DoneChunk /\ pos = 0 /\ producer = "scan"
        /\ cancelled = FALSE /\ gone = FALSE /\ ctxDone = FALSE
    BY DEF Init
  <2>3. out \in Seq(ChunkSet) /\ Len(out) <= 1 /\ written \in Seq(ChunkSet) /\ pos \in 0 .. cut
    BY <1>3, <2>2
  <2> QED
    BY <1>1, <1>2, <1>3, <2>1, <2>2, <2>3 DEF StateOK
<1>5. WrittenOK
  BY <1>3 DEF Init, WrittenOK, Begins
<1>6. PassingOK
  BY <1>1 DEF Init, PassingOK, HandedOver, Passed, Reading, Closing
<1> QED
  BY <1>4, <1>5, <1>6 DEF PipelineInv

(* Where each chunk is, at every step of the three goroutines.             *)
THEOREM PipelineCorrect == Spec => []PipelineInv
<1>1. PipelineInv /\ [Next]_vars => PipelineInv'
  BY ProducerStep, ForwarderStep, ClosingStep, ReadStep, ClosedStep, LeaveStep
     DEF Next, Passing, Serving
<1> QED
  BY <1>1, PipelineInit, PTL DEF Spec

(* What Front takes away. *)
LEMMA FrontOf ==
  ASSUME NEW s \in Seq(ChunkSet), Len(s) >= 1
  PROVE  /\ Front(s) \in Seq(ChunkSet) /\ Len(Front(s)) = Len(s) - 1
         /\ \A i \in 1 .. Len(s) - 1 : Front(s)[i] = s[i]
<1> DEFINE n == Len(s) - 1
<1>1. n \in Nat /\ n <= Len(s) /\ Front(s) = SubSeq(s, 1, n)
  BY DEF Front
<1> HIDE DEF n
<1>2. /\ SubSeq(s, 1, n) \in Seq(ChunkSet) /\ Len(SubSeq(s, 1, n)) = n
      /\ \A i \in 1 .. n : SubSeq(s, 1, n)[i] = s[i]
  BY <1>1
<1> QED
  BY <1>1, <1>2 DEF n

(* What the client has been sent is an unbroken beginning of the           *)
(* upstream's answer, however long, through producer, forwarder and        *)
(* handler, and [DONE] comes once and last.                                *)
THEOREM StreamInOrder == Spec => []InOrder
<1>1. PipelineInv => InOrder
  <2> SUFFICES ASSUME PipelineInv PROVE InOrder
    OBVIOUS
  <2>0. StateOK /\ WrittenOK /\ written \in Seq(ChunkSet)
    BY DEF PipelineInv, StateOK
  <2>1. ASSUME NEW k \in Nat, k <= Len(written), Begins(k), NEW s \in Seq(ChunkSet), Len(s) = k,
               \A i \in 1 .. k : s[i] = written[i]
        PROVE  IsPrefix(s, BeforeDone)
    <3>1. /\ BeforeDone \in Seq(ChunkSet) /\ k <= Len(BeforeDone)
          /\ \A i \in 1 .. k : BeforeDone[i] = script[i]
      BY <2>0, <2>1, BeginsBeforeDone
    <3>2. \A i \in 1 .. k : s[i] = BeforeDone[i]
      BY <2>1, <3>1 DEF Begins
    <3>3. SubSeq(s, 1, k) = SubSeq(BeforeDone, 1, k)
      BY <2>1, <3>1, <3>2
    <3> QED
      BY <2>1, <3>1, <3>3 DEF IsPrefix
  <2>2. CASE handler = "returned"
    <3>1. /\ Len(written) \in Nat /\ Len(written) >= 1 /\ Last(written) = DoneChunk
          /\ Begins(Len(written) - 1)
      BY <2>0, <2>2 DEF WrittenOK, Last
    <3>2. /\ Front(written) \in Seq(ChunkSet) /\ Len(Front(written)) = Len(written) - 1
          /\ \A i \in 1 .. Len(written) - 1 : Front(written)[i] = written[i]
      BY <2>0, <3>1, FrontOf
    <3> QED
      BY <2>1, <2>2, <3>1, <3>2 DEF InOrder
  <2>3. CASE handler # "returned"
    <3>1. Begins(Len(written)) /\ Len(written) \in Nat
      BY <2>0, <2>3 DEF WrittenOK
    <3> QED
      BY <2>0, <2>1, <2>3, <3>1 DEF InOrder
  <2> QED
    BY <2>2, <2>3
<1> QED
  BY <1>1, PipelineCorrect, PTL

(* A client that stayed has been sent the whole answer, whichever of the   *)
(* goroutines ended first.                                                 *)
THEOREM StreamIsWhole == Spec => []WholeStream
<1>1. PipelineInv => WholeStream
  <2> SUFFICES ASSUME PipelineInv, handler = "returned", ~gone PROVE Front(written) = BeforeDone
    BY DEF WholeStream
  <2> DEFINE k == Len(written) - 1
  <2>1. /\ StateOK /\ written \in Seq(ChunkSet) /\ k \in Nat /\ k <= Len(written)
        /\ Begins(k) /\ Ends(k)
    BY DEF PipelineInv, StateOK, WrittenOK
  <2>2. /\ BeforeDone \in Seq(ChunkSet) /\ Len(BeforeDone) = k
        /\ \A i \in 1 .. k : BeforeDone[i] = script[i]
    BY <2>1, BeginsBeforeDone
  <2>3. /\ Front(written) \in Seq(ChunkSet) /\ Len(Front(written)) = k
        /\ \A i \in 1 .. k : Front(written)[i] = script[i]
    BY <2>1, FrontOf DEF Begins
  <2> QED
    BY <2>2, <2>3
<1> QED
  BY <1>1, PipelineCorrect, PTL

(* The goroutines and their channels stay in the states the code gives     *)
(* them, and the request's context is done once the client has left.       *)
THEOREM PipelineTypes == Spec => []TypeOK
<1>1. PipelineInv => TypeOK
  BY DEF PipelineInv, StateOK, TypeOK, Reading, Closing
<1> QED
  BY <1>1, PipelineCorrect, PTL
=============================================================================
