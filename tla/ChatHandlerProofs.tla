-------------------------- MODULE ChatHandlerProofs --------------------------
(***************************************************************************)
(* What TLAPS proves of ChatHandler for every number of candidates, all    *)
(* durations and all budgets.                                              *)
(***************************************************************************)
EXTENDS ChatHandler, TLAPS

Outcomes == Failures \cup {Ok}
Entries == [cand : Candidate, status : {"success", "error"}]
Asking == {"body", "refresh", "unknown", "budget"}

StateOK ==
  /\ pc \in Asking \cup {"try", "streaming", "done"}
  /\ candidates \in Seq(Candidate)
  /\ tried \in Seq(Outcomes)
  /\ Len(tried) <= Len(candidates)
  /\ recorded \in Seq(Entries)
  /\ allRateLimited \in BOOLEAN
  /\ maxRetryAfter \in Nat
  /\ method \in {"chat", "stream", "embeddings"}

AllFailed == \A i \in DOMAIN tried : tried[i] \in Failures
AllLimited == \A i \in DOMAIN tried : tried[i].kind = "rateLimited"

(* The last candidate tried has answered, all before it have failed.       *)
Answered ==
  /\ tried # <<>> /\ tried[Len(tried)] = Ok
  /\ \A i \in DOMAIN tried : i # Len(tried) => tried[i] \in Failures

(* maxRetryAfter is the longest of the waits.                              *)
Longest ==
  /\ \A i \in DOMAIN tried : tried[i].after <= maxRetryAfter
  /\ maxRetryAfter = 0 \/ \E i \in DOMAIN tried : tried[i].after = maxRetryAfter

(* The loop's variables say of the candidates tried what is asked of them  *)
(* after it.                                                               *)
LoopOK ==
  /\ pc \in Asking => /\ tried = <<>> /\ recorded = <<>> /\ status = 0 /\ maxRetryAfter = 0
  /\ pc \in {"budget", "try"} => candidates # <<>>
  /\ pc = "try" =>
       /\ AllFailed
       /\ allRateLimited <=> AllLimited
       /\ tried # <<>> => lastErr = tried[Len(tried)]
       /\ Longest
  /\ pc = "streaming" => Answered /\ status = 200

StatusOf(i) == IF tried[i] = Ok THEN "success" ELSE "error"

RecordsOK ==
  /\ Len(recorded) = IF pc = "streaming" THEN Len(tried) - 1 ELSE Len(tried)
  /\ \A i \in DOMAIN recorded :
       recorded[i].cand = candidates[i] /\ recorded[i].status = StatusOf(i)

HandlerInv == StateOK /\ LoopOK /\ RecordsOK /\ StatusTellsOutcome

-----------------------------------------------------------------------------

(* What the registry answers is a sequence of candidates. *)
LEMMA CandidateSeq == \A c \in CandidateLists : c \in Seq(Candidate)
BY DEF CandidateLists

(* A failure is known by its kind. *)
LEMMA FailureKinds ==
  \A e \in Failures :
    /\ e # Ok /\ e.kind # "ok" /\ e.after \in Nat
    /\ e.kind = "queueFull" <=> e = QueueFull
    /\ e.kind = "rejected" <=> e = Rejected
    /\ e.kind # "rateLimited" => e.after = 0
BY HandlerAssumption DEF Failures, Ok, QueueFull, Rejected, Broken, RateLimited

(* What Append leaves alone and what it adds. *)
LEMMA Appended ==
  ASSUME NEW S, NEW s \in Seq(S), NEW e \in S
  PROVE  /\ Append(s, e) \in Seq(S)
         /\ Len(Append(s, e)) = Len(s) + 1
         /\ DOMAIN Append(s, e) = 1 .. Len(s) + 1
         /\ Append(s, e)[Len(s) + 1] = e
         /\ \A i \in 1 .. Len(s) : Append(s, e)[i] = s[i]
OBVIOUS

(* Rounding down to seconds keeps the order of two waits. *)
LEMMA DivMonotone ==
  ASSUME NEW a \in Nat, NEW b \in Nat, NEW n \in Nat \ {0}, a <= b
  PROVE  a \div n <= b \div n
OBVIOUS

-----------------------------------------------------------------------------
(* Before the loop nothing has been tried, so nothing is claimed of it.    *)
LEMMA AskingStep ==
  ASSUME HandlerInv, [Next]_vars,
         RejectBody \/ FindCandidates \/ RefreshAndRetry \/ ModelNotFound
           \/ OverBudget \/ StartLoop
  PROVE  HandlerInv'
<1> USE DEF request, routing, loop, answer
<1>1. /\ pc \in Asking /\ tried' = <<>> /\ recorded' = <<>> /\ maxRetryAfter' = 0
      /\ method' = method /\ method \in {"chat", "stream", "embeddings"}
  BY DEF HandlerInv, StateOK, LoopOK, Asking, RejectBody, FindCandidates, RefreshAndRetry,
         ModelNotFound, OverBudget, StartLoop
<1>2. candidates' \in Seq(Candidate) /\ (pc' \in {"budget", "try"} => candidates' # <<>>)
  BY CandidateSeq DEF HandlerInv, StateOK, LoopOK, RejectBody, FindCandidates,
       RefreshAndRetry, ModelNotFound, OverBudget, StartLoop, Respond
<1>3. /\ pc' \in Asking \cup {"try", "done"}
      /\ pc' \in Asking => status' = 0
      /\ pc' = "try" => allRateLimited' = TRUE
      /\ pc' = "done" => status' \in {400, 405, 413}
      /\ allRateLimited' \in BOOLEAN
  <2>1. pc \in {"body", "refresh", "unknown", "budget"} /\ status = 0 /\ allRateLimited \in BOOLEAN
    BY <1>1 DEF HandlerInv, StateOK, LoopOK, Asking
  <2>2. CASE RejectBody \/ ModelNotFound \/ OverBudget
    BY <2>1, <2>2 DEF RejectBody, ModelNotFound, OverBudget, Respond, Asking
  <2>3. CASE FindCandidates \/ RefreshAndRetry
    BY <2>1, <2>3 DEF FindCandidates, RefreshAndRetry, Asking
  <2>4. CASE StartLoop
    <3>1. candidates # <<>>
      BY <2>4 DEF StartLoop, HandlerInv, LoopOK
    <3> QED
      BY <2>1, <2>4, <3>1 DEF StartLoop, Asking
  <2> QED
    BY <2>2, <2>3, <2>4
<1>4. StateOK'
  BY <1>1, <1>2, <1>3 DEF StateOK
<1>5. LoopOK'
  BY <1>1, <1>2, <1>3 DEF LoopOK, AllFailed, AllLimited, Longest, Asking
<1>6. RecordsOK'
  BY <1>1, <1>3 DEF RecordsOK, Asking
<1>7. StatusTellsOutcome'
  <2>1. Kinds' = {}
    BY <1>1 DEF Kinds, ToSet
  <2> QED
    BY <1>1, <1>3, <2>1 DEF StatusTellsOutcome
<1> QED
  BY <1>4, <1>5, <1>6, <1>7 DEF HandlerInv

(* A failure extends what was tried and what was recorded by one entry, and the
   loop variables by what it says (server.go:181-198). *)
LEMMA FailStep ==
  ASSUME HandlerInv, Fail
  PROVE  HandlerInv'
<1> USE DEF request, routing, loop, answer
<1> DEFINE n == Len(tried)
<1>1. PICK e \in Failures :
        /\ tried' = Append(tried, e)
        /\ lastErr' = e
        /\ maxRetryAfter' = IF e.after > maxRetryAfter THEN e.after ELSE maxRetryAfter
        /\ allRateLimited' = (allRateLimited /\ e.kind = "rateLimited")
  BY DEF Fail
<1>2. /\ pc = "try" /\ pc' = "try" /\ n < Len(candidates)
      /\ recorded' = Append(recorded, [cand |-> candidates[n + 1], status |-> "error"])
      /\ UNCHANGED <<method, candidates, status, gone, retryAfter>>
  BY DEF Fail, Record, Current
<1>3. /\ tried \in Seq(Outcomes) /\ n \in Nat /\ candidates \in Seq(Candidate)
      /\ candidates[n + 1] \in Candidate /\ maxRetryAfter \in Nat
      /\ recorded \in Seq(Entries)
      /\ Len(recorded) = n
  BY <1>2 DEF HandlerInv, StateOK, RecordsOK
<1>4. /\ tried' \in Seq(Outcomes) /\ Len(tried') = n + 1 /\ tried'[n + 1] = e
      /\ \A i \in 1 .. n : tried'[i] = tried[i]
  BY <1>1, <1>3 DEF Outcomes
<1>5. e # Ok /\ e.after \in Nat
  BY FailureKinds
<1>6. StateOK'
  <2>1. [cand |-> candidates[n + 1], status |-> "error"] \in Entries
    BY <1>3 DEF Entries
  <2>2. recorded' \in Seq(Entries)
    BY <1>2, <1>3, <2>1
  <2> QED
    BY <1>1, <1>2, <1>3, <1>4, <1>5, <2>2 DEF StateOK, HandlerInv
<1>7. LoopOK'
  <2>1. AllFailed'
    BY <1>2, <1>3, <1>4 DEF HandlerInv, LoopOK, AllFailed
  <2>2. (allRateLimited <=> AllLimited)'
    <3>1. AllLimited' <=> AllLimited /\ e.kind = "rateLimited"
      BY SMTT(30), <1>3, <1>4 DEF AllLimited
    <3> QED
      BY <1>1, <1>2, <3>1 DEF HandlerInv, LoopOK
  <2>3. Longest'
    <3>1. Longest
      BY <1>2 DEF HandlerInv, LoopOK
    <3>2. maxRetryAfter' \in Nat /\ e.after <= maxRetryAfter' /\ maxRetryAfter <= maxRetryAfter'
      BY <1>1, <1>3, <1>5
    <3>3. DOMAIN tried = 1 .. n /\ DOMAIN tried' = 1 .. n + 1
      BY <1>3, <1>4
    <3>4. \A i \in 1 .. n : tried[i].after \in Nat
      BY <1>3, FailureKinds DEF Outcomes, Ok
    <3>5. \A i \in 1 .. n + 1 : tried'[i].after <= maxRetryAfter'
      BY <1>3, <1>4, <3>1, <3>2, <3>3, <3>4 DEF Longest
    <3>6. CASE maxRetryAfter' = e.after
      BY <1>4, <3>3, <3>5, <3>6 DEF Longest
    <3>7. CASE maxRetryAfter' = maxRetryAfter
      BY <1>4, <3>1, <3>3, <3>5, <3>7 DEF Longest
    <3> QED
      BY <1>1, <3>6, <3>7
  <2>4. lastErr' = tried'[Len(tried')]
    BY <1>1, <1>4
  <2> QED
    BY <1>2, <2>1, <2>2, <2>3, <2>4 DEF HandlerInv, LoopOK, Asking
<1>8. RecordsOK'
  <2>1. /\ Len(recorded') = n + 1
        /\ recorded'[n + 1] = [cand |-> candidates[n + 1], status |-> "error"]
        /\ \A i \in 1 .. n : recorded'[i] = recorded[i]
    BY <1>2, <1>3
  <2>2. \A i \in 1 .. n : recorded[i].cand = candidates[i] /\ recorded[i].status = StatusOf(i)
    BY <1>3 DEF HandlerInv, RecordsOK
  <2>3. DOMAIN recorded' = 1 .. n + 1
    BY <1>2, <1>3
  <2>4. ASSUME NEW i \in 1 .. n + 1
        PROVE  recorded'[i].cand = candidates'[i] /\ recorded'[i].status = StatusOf(i)'
    BY <1>2, <1>3, <1>4, <1>5, <2>1, <2>2 DEF StatusOf
  <2> QED
    BY <1>2, <1>4, <2>1, <2>3, <2>4 DEF RecordsOK
<1>9. StatusTellsOutcome'
  BY <1>2 DEF StatusTellsOutcome
<1> QED
  BY <1>6, <1>7, <1>8, <1>9 DEF HandlerInv

(* The recorded attempts and the outcomes grow together.                   *)
LEMMA SucceedStep ==
  ASSUME HandlerInv, Succeed
  PROVE  HandlerInv'
<1> USE DEF request, routing, loop, answer
<1> DEFINE n == Len(tried)
<1>1. /\ pc = "try" /\ n < Len(candidates)
      /\ tried' = Append(tried, Ok)
      /\ allRateLimited' = FALSE
      /\ UNCHANGED <<method, candidates, maxRetryAfter, gone, retryAfter>>
      /\ status' = 200 \/ (method # "stream" /\ status' = 500)
  BY DEF Succeed, Respond
<1>2. \/ pc' = "streaming" /\ recorded' = recorded /\ status' = 200
      \/ /\ pc' = "done"
         /\ recorded' = Append(recorded, [cand |-> candidates[n + 1], status |-> "success"])
  BY DEF Succeed, Respond, Record, Current
<1>3. /\ tried \in Seq(Outcomes) /\ n \in Nat /\ candidates \in Seq(Candidate)
      /\ candidates[n + 1] \in Candidate /\ maxRetryAfter \in Nat
      /\ recorded \in Seq(Entries)
      /\ Len(recorded) = n
  BY <1>1 DEF HandlerInv, StateOK, RecordsOK
<1>4. /\ tried' \in Seq(Outcomes) /\ Len(tried') = n + 1 /\ tried'[n + 1] = Ok
      /\ DOMAIN tried' = 1 .. n + 1
      /\ \A i \in 1 .. n : tried'[i] = tried[i]
  BY <1>1, <1>3 DEF Outcomes
<1>5. \A i \in 1 .. n : tried[i] \in Failures
  BY SMTT(30), <1>1, <1>3 DEF HandlerInv, LoopOK, AllFailed
<1>6. StateOK'
  <2>1. [cand |-> candidates[n + 1], status |-> "success"] \in Entries
    BY <1>3 DEF Entries
  <2>2. recorded' \in Seq(Entries)
    <3>1. CASE recorded' = recorded
      BY <1>3, <3>1
    <3>2. CASE recorded' = Append(recorded, [cand |-> candidates[n + 1], status |-> "success"])
      BY <1>3, <2>1, <3>2
    <3> QED
      BY <1>2, <3>1, <3>2
  <2>3. pc' \in {"streaming", "done"}
    BY <1>2
  <2>4. Len(tried') <= Len(candidates')
    BY <1>1, <1>3, <1>4
  <2> QED
    BY <1>1, <1>3, <1>4, <2>2, <2>3, <2>4 DEF HandlerInv, StateOK
<1>7. LoopOK'
  <2>1. Answered'
    BY <1>3, <1>4, <1>5 DEF Answered
  <2> QED
    BY <1>1, <1>2, <2>1 DEF LoopOK, Asking
<1>8. RecordsOK'
  <2>1. \A i \in 1 .. n : recorded[i].cand = candidates[i] /\ recorded[i].status = StatusOf(i)
    BY <1>3 DEF HandlerInv, RecordsOK
  <2>2. \A i \in 1 .. n : StatusOf(i)' = StatusOf(i)
    BY <1>4 DEF StatusOf
  <2>3. CASE pc' = "streaming" /\ recorded' = recorded
    <3>1. Len(recorded') = Len(tried') - 1 /\ DOMAIN recorded' = 1 .. n
      BY <1>3, <1>4, <2>3
    <3>2. \A i \in 1 .. n :
            recorded'[i].cand = candidates'[i] /\ recorded'[i].status = StatusOf(i)'
      BY <1>1, <2>1, <2>2, <2>3
    <3> QED
      BY <2>3, <3>1, <3>2 DEF RecordsOK
  <2>4. CASE /\ pc' = "done"
             /\ recorded' = Append(recorded, [cand |-> candidates[n + 1], status |-> "success"])
    <3>1. /\ Len(recorded') = n + 1 /\ DOMAIN recorded' = 1 .. n + 1
          /\ recorded'[n + 1] = [cand |-> candidates[n + 1], status |-> "success"]
          /\ \A i \in 1 .. n : recorded'[i] = recorded[i]
      BY <1>3, <2>4
    <3>3. ASSUME NEW i \in 1 .. n + 1
          PROVE  recorded'[i].cand = candidates'[i] /\ recorded'[i].status = StatusOf(i)'
      <4>1. CASE i = n + 1
        <5>1. StatusOf(i)' = "success"
          BY <1>4, <4>1 DEF StatusOf
        <5> QED
          BY <1>1, <3>1, <4>1, <5>1
      <4>2. CASE i \in 1 .. n
        BY <1>1, <2>1, <2>2, <3>1, <4>2
      <4> QED
        BY <1>3, <4>1, <4>2
    <3> QED
      BY <1>4, <2>4, <3>1, <3>3 DEF RecordsOK
  <2> QED
    BY <1>2, <2>3, <2>4
<1>9. StatusTellsOutcome'
  <2>1. Ok \in ToSet(tried)'
    BY <1>3, <1>4 DEF ToSet
  <2>2. "ok" \in Kinds' /\ Kinds' # {"rateLimited"} /\ Kinds' # {"queueFull"}
    BY <2>1 DEF Kinds, Ok
  <2>3. LastKind' = "ok"
    BY <1>4 DEF LastKind, Ok
  <2> QED
    BY <1>1, <2>2, <2>3 DEF StatusTellsOutcome
<1> QED
  BY <1>6, <1>7, <1>8, <1>9 DEF HandlerInv

(* The end of a stream adds the record that Succeed left open. *)
LEMMA EndStreamStep ==
  ASSUME HandlerInv, EndStream
  PROVE  HandlerInv'
<1> USE DEF request, routing, loop, answer
<1> DEFINE n == Len(tried)
<1>1. /\ pc = "streaming" /\ pc' = "done"
      /\ recorded' = Append(recorded, [cand |-> candidates[n], status |-> "success"])
      /\ UNCHANGED <<method, candidates, tried, allRateLimited, maxRetryAfter, status, gone,
                     retryAfter>>
  BY DEF EndStream, Record
<1>2. Answered /\ status = 200
  BY <1>1 DEF HandlerInv, LoopOK
<1>3. /\ tried \in Seq(Outcomes) /\ n \in Nat \ {0} /\ n <= Len(candidates)
      /\ DOMAIN tried = 1 .. n
      /\ candidates \in Seq(Candidate) /\ candidates[n] \in Candidate
      /\ recorded \in Seq(Entries)
      /\ Len(recorded) = n - 1
  BY <1>1, <1>2 DEF HandlerInv, StateOK, RecordsOK, Answered
<1>4. recorded' \in Seq(Entries)
  <2>1. [cand |-> candidates[n], status |-> "success"] \in Entries
    BY <1>3 DEF Entries
  <2> QED
    BY <1>1, <1>3, <2>1
<1>5. StateOK'
  BY <1>1, <1>4 DEF HandlerInv, StateOK
<1>6. LoopOK'
  BY <1>1 DEF LoopOK, Asking
<1>7. RecordsOK'
  <2>0. DOMAIN recorded = 1 .. n - 1
    BY <1>3
  <2>1. \A i \in 1 .. n - 1 : recorded[i].cand = candidates[i] /\ recorded[i].status = StatusOf(i)
    BY <2>0 DEF HandlerInv, RecordsOK
  <2>2. /\ Len(recorded') = n /\ DOMAIN recorded' = 1 .. n
        /\ recorded'[n] = [cand |-> candidates[n], status |-> "success"]
        /\ \A i \in 1 .. n - 1 : recorded'[i] = recorded[i]
    <3> DEFINE entry == [cand |-> candidates[n], status |-> "success"]
    <3>1. entry \in Entries
      BY <1>3 DEF Entries
    <3>2. recorded' = Append(recorded, entry)
      BY <1>1
    <3> HIDE DEF entry
    <3>3. /\ Len(recorded') = Len(recorded) + 1
          /\ recorded'[Len(recorded) + 1] = entry
          /\ \A i \in 1 .. Len(recorded) : recorded'[i] = recorded[i]
          /\ DOMAIN recorded' = 1 .. Len(recorded) + 1
      <4>1. recorded \in Seq(Entries)
        BY <1>3
      <4>2. /\ Len(Append(recorded, entry)) = Len(recorded) + 1
            /\ Append(recorded, entry)[Len(recorded) + 1] = entry
            /\ \A i \in 1 .. Len(recorded) : Append(recorded, entry)[i] = recorded[i]
            /\ DOMAIN Append(recorded, entry) = 1 .. Len(recorded) + 1
        BY <3>1, <4>1, Appended
      <4> QED
        BY <3>2, <4>2, Zenon
    <3>4. Len(recorded) + 1 = n
      BY <1>3
    <3> QED
      BY <1>3, <3>3, <3>4 DEF entry
  <2>3. StatusOf(n) = "success"
    BY <1>2 DEF StatusOf, Answered
  <2>4. \A i \in 1 .. n : StatusOf(i)' = StatusOf(i)
    BY <1>1 DEF StatusOf
  <2>5. ASSUME NEW i \in 1 .. n
        PROVE  recorded'[i].cand = candidates[i] /\ recorded'[i].status = StatusOf(i)
    <3>1. CASE i = n
      BY <2>2, <2>3, <3>1
    <3>2. CASE i \in 1 .. n - 1
      BY <2>1, <2>2, <3>2
    <3>3. i = n \/ i \in 1 .. n - 1
      <4>1. n \in Nat \ {0}
        BY <1>3
      <4> HIDE DEF n
      <4> QED
        BY <4>1
    <3> QED
      BY <3>1, <3>2, <3>3
  <2> QED
    BY <1>1, <2>2, <2>4, <2>5 DEF RecordsOK
<1>8. StatusTellsOutcome'
  <2>1. Ok \in ToSet(tried)'
    BY SMTT(30), <1>1, <1>2, <1>3 DEF ToSet, Answered
  <2>2. "ok" \in Kinds' /\ Kinds' # {"rateLimited"} /\ Kinds' # {"queueFull"}
    BY <2>1 DEF Kinds, Ok
  <2>3. LastKind' = "ok"
    BY <1>1, <1>2 DEF LastKind, Answered, Ok
  <2> QED
    BY <1>1, <1>2, <2>2, <2>3 DEF StatusTellsOutcome
<1> QED
  BY <1>5, <1>6, <1>7, <1>8 DEF HandlerInv

-----------------------------------------------------------------------------
(* After the loop every candidate has failed; allRateLimited, maxRetryAfter *)
(* and lastErr say how.                                                    *)
LEMMA ExhaustedFacts ==
  ASSUME HandlerInv, Exhausted
  PROVE  LET n == Len(tried) IN
         /\ n \in Nat \ {0} /\ n = Len(candidates) /\ DOMAIN tried = 1 .. n
         /\ \A i \in 1 .. n : tried[i] \in Failures
         /\ lastErr = tried[n] /\ lastErr \in Failures
         /\ Kinds = {tried[i].kind : i \in 1 .. n}
         /\ "ok" \notin Kinds
         /\ allRateLimited <=> Kinds = {"rateLimited"}
<1> DEFINE n == Len(tried)
<1>1. /\ n \in Nat \ {0} /\ n = Len(candidates) /\ DOMAIN tried = 1 .. n
      /\ tried # <<>>
  BY DEF Exhausted, HandlerInv, StateOK, LoopOK
<1>2. /\ \A i \in 1 .. n : tried[i] \in Failures
      /\ lastErr = tried[n] /\ lastErr \in Failures
      /\ allRateLimited <=> AllLimited
  BY <1>1 DEF Exhausted, HandlerInv, LoopOK, AllFailed
<1>3. Kinds = {tried[i].kind : i \in 1 .. n}
  BY <1>1 DEF Kinds, ToSet
<1>4. "ok" \notin Kinds
  BY <1>2, <1>3, FailureKinds
<1>5. AllLimited <=> Kinds = {"rateLimited"}
  <2>1. ASSUME AllLimited PROVE Kinds = {"rateLimited"}
    <3>1. tried[1].kind \in Kinds
      BY <1>1, <1>3
    <3>2. \A k \in Kinds : k = "rateLimited"
      BY <1>1, <1>3, <2>1 DEF AllLimited
    <3>3. tried[1].kind = "rateLimited"
      BY <3>1, <3>2
    <3> QED
      BY <3>1, <3>2, <3>3
  <2>2. ASSUME Kinds = {"rateLimited"} PROVE AllLimited
    <3>1. \A i \in 1 .. n : tried[i].kind \in {"rateLimited"}
      BY <1>3, <2>2
    <3> QED
      BY <1>1, <3>1 DEF AllLimited
  <2> QED
    BY <2>1, <2>2
<1> QED
  BY <1>1, <1>2, <1>3, <1>4, <1>5

(* The wait told to the client is the longest one, in whole seconds.       *)
LEMMA WaitTold ==
  ASSUME HandlerInv, Exhausted, AllRateLimited
  PROVE  /\ \A i \in DOMAIN tried : tried[i].after \div TicksPerSecond <= retryAfter'
         /\ \E i \in DOMAIN tried : tried[i].after \div TicksPerSecond = retryAfter'
<1> DEFINE n == Len(tried)
<1>1. /\ n \in Nat \ {0} /\ DOMAIN tried = 1 .. n
      /\ \A i \in 1 .. n : tried[i] \in Failures
  BY ExhaustedFacts
<1>2. Longest /\ maxRetryAfter \in Nat /\ TicksPerSecond \in Nat \ {0}
  BY HandlerAssumption DEF Exhausted, HandlerInv, StateOK, LoopOK
<1>3. \A i \in 1 .. n : tried[i].after \in Nat
  BY <1>1, FailureKinds
<1>4. retryAfter' = maxRetryAfter \div TicksPerSecond
  BY DEF AllRateLimited
<1>5. ASSUME NEW i \in 1 .. n
      PROVE  tried[i].after \div TicksPerSecond <= retryAfter'
  <2>1. tried[i].after \in Nat /\ tried[i].after <= maxRetryAfter
    BY <1>1, <1>2, <1>3 DEF Longest
  <2> QED
    BY <1>2, <1>4, <2>1, DivMonotone
<1>6. \E i \in 1 .. n : tried[i].after = maxRetryAfter
  <2>1. CASE maxRetryAfter = 0
    <3>1. tried[1].after \in Nat /\ tried[1].after <= 0
      BY <1>1, <1>2, <1>3, <2>1 DEF Longest
    <3>2. tried[1].after = maxRetryAfter
      BY <2>1, <3>1
    <3> QED
      BY <1>1, <3>2
  <2>2. CASE maxRetryAfter # 0
    BY <1>1, <1>2, <2>2 DEF Longest
  <2> QED
    BY <2>1, <2>2
<1> QED
  BY <1>1, <1>4, <1>5, <1>6

(* After the loop each of the four answers follows from what the loop kept. *)
LEMMA FinalStep ==
  ASSUME HandlerInv, ClientGone \/ AllRateLimited \/ Busy \/ writeProviderFailure
  PROVE  HandlerInv'
<1> USE DEF request, routing, loop, answer
<1> DEFINE n == Len(tried)
<1>1. /\ Exhausted /\ pc = "try" /\ pc' = "done"
      /\ UNCHANGED <<method, candidates, tried, recorded, lastErr, allRateLimited, maxRetryAfter,
                     gone>>
  BY DEF ClientGone, AllRateLimited, Busy, writeProviderFailure, Exhausted, Respond
<1>2. /\ n \in Nat \ {0} /\ n = Len(candidates) /\ lastErr = tried[n] /\ lastErr \in Failures
      /\ "ok" \notin Kinds
      /\ allRateLimited <=> Kinds = {"rateLimited"}
      /\ lastErr.kind \in Kinds
  BY <1>1, ExhaustedFacts
<1>3. Kinds' = Kinds /\ LastKind' = lastErr.kind
  BY <1>1, <1>2 DEF Kinds, LastKind
<1>4. StateOK'
  BY <1>1 DEF HandlerInv, StateOK
<1>5. LoopOK'
  BY <1>1 DEF LoopOK, Asking
<1>6. RecordsOK'
  BY <1>1 DEF HandlerInv, RecordsOK, StatusOf
<1>7. StatusTellsOutcome'
  <2>1. CASE ClientGone
    <3>1. status' = 499 /\ gone'
      BY <1>1, <2>1 DEF ClientGone, Respond
    <3> QED
      BY <1>1, <1>2, <1>3, <3>1 DEF StatusTellsOutcome
  <2>2. CASE AllRateLimited
    <3>1. status' = 429 /\ allRateLimited
      BY <2>2 DEF AllRateLimited, Respond
    <3>2. /\ \A i \in DOMAIN tried : tried[i].after \div TicksPerSecond <= retryAfter'
          /\ \E i \in DOMAIN tried : tried[i].after \div TicksPerSecond = retryAfter'
      BY <1>1, <2>2, WaitTold
    <3> QED
      BY <1>1, <1>2, <1>3, <3>1, <3>2 DEF StatusTellsOutcome
  <2>3. CASE Busy
    <3>1. status' = 503 /\ ~allRateLimited /\ lastErr.kind = "queueFull"
      BY <2>3 DEF Busy, Respond, QueueFull
    <3> QED
      BY <1>1, <1>2, <1>3, <3>1 DEF StatusTellsOutcome
  <2>4. CASE writeProviderFailure
    <3>1. /\ ~allRateLimited /\ lastErr # QueueFull
          /\ status' = IF lastErr = Rejected THEN 422 ELSE 502
      BY <2>4 DEF writeProviderFailure, Respond
    <3>2. /\ lastErr.kind = "rejected" <=> lastErr = Rejected
          /\ lastErr.kind # "queueFull"
      BY <1>2, <3>1, FailureKinds
    <3> QED
      BY <1>1, <1>2, <1>3, <3>1, <3>2 DEF StatusTellsOutcome
  <2> QED
    BY <2>1, <2>2, <2>3, <2>4
<1> QED
  BY <1>4, <1>5, <1>6, <1>7 DEF HandlerInv

(* A client that leaves changes no more than that. *)
LEMMA IdleStep ==
  ASSUME HandlerInv, Leave \/ UNCHANGED vars
  PROVE  HandlerInv'
<1> USE DEF request, routing, loop, answer
<1>1. CASE Leave
  <2>1. /\ pc # "done"
        /\ UNCHANGED <<pc, method, candidates, tried, lastErr, allRateLimited, maxRetryAfter, status,
                       retryAfter, recorded>>
    BY <1>1 DEF Leave
  <2>2. StateOK' /\ RecordsOK'
    BY <2>1 DEF HandlerInv, StateOK, RecordsOK, StatusOf
  <2>3. LoopOK'
    BY <2>1 DEF HandlerInv, LoopOK, AllFailed, AllLimited, Longest, Answered
  <2>4. StatusTellsOutcome'
    BY <2>1 DEF StatusTellsOutcome
  <2> QED
    BY <2>2, <2>3, <2>4 DEF HandlerInv
<1>2. CASE UNCHANGED vars
  <2>1. StateOK' /\ RecordsOK'
    BY <1>2 DEF vars, HandlerInv, StateOK, RecordsOK, StatusOf
  <2>2. LoopOK'
    BY <1>2 DEF vars, HandlerInv, LoopOK, AllFailed, AllLimited, Longest, Answered
  <2>3. StatusTellsOutcome'
    <3>1. Kinds' = Kinds /\ LastKind' = LastKind
      BY <1>2 DEF vars, Kinds, LastKind
    <3> QED
      BY <1>2, <3>1 DEF vars, HandlerInv, StatusTellsOutcome
  <2> QED
    BY <2>1, <2>2, <2>3 DEF HandlerInv
<1> QED
  BY <1>1, <1>2

-----------------------------------------------------------------------------

(* The fallback loop keeps its variables true to what was tried, from the  *)
(* body of the request to its status.                                      *)
THEOREM HandlerCorrect == Spec => []HandlerInv
<1>1. Init => HandlerInv
  <2> SUFFICES ASSUME Init PROVE HandlerInv
    OBVIOUS
  <2>1. StateOK
    <3>1. /\ candidates \in Seq(Candidate) /\ tried \in Seq(Outcomes)
          /\ recorded \in Seq(Entries)
      BY DEF Init
    <3>2. Len(tried) = 0 /\ Len(candidates) = 0
      BY DEF Init
    <3>3. pc = "body" /\ Len(tried) <= Len(candidates) /\ maxRetryAfter \in Nat
      BY <3>2 DEF Init
    <3>4. allRateLimited \in BOOLEAN /\ method \in {"chat", "stream", "embeddings"}
      BY DEF Init
    <3> QED
      BY <3>1, <3>3, <3>4 DEF StateOK, Asking
  <2>2. LoopOK
    BY DEF Init, LoopOK, Asking
  <2>3. RecordsOK
    BY DEF Init, RecordsOK
  <2>4. StatusTellsOutcome
    BY DEF Init, StatusTellsOutcome
  <2> QED
    BY <2>1, <2>2, <2>3, <2>4 DEF HandlerInv
<1>2. HandlerInv /\ [Next]_vars => HandlerInv'
  <2> SUFFICES ASSUME HandlerInv, [Next]_vars PROVE HandlerInv'
    OBVIOUS
  <2>1. \/ Prepare \/ TryCandidates \/ EndStream \/ Leave \/ UNCHANGED vars
    BY DEF Next, handleChatCompletions, handleStream, handleEmbeddings
  <2>2. CASE Prepare
    BY <2>2, AskingStep DEF Prepare
  <2>3. CASE TryCandidates
    BY <2>3, SucceedStep, FailStep, FinalStep DEF TryCandidates
  <2>4. CASE EndStream
    BY <2>4, EndStreamStep
  <2>5. CASE Leave \/ UNCHANGED vars
    BY <2>5, IdleStep
  <2> QED
    BY <2>1, <2>2, <2>3, <2>4, <2>5
<1> QED
  BY <1>1, <1>2, PTL DEF Spec

(* Whatever the candidates answer, in any order and number, the status the *)
(* client is sent tells what happened to all of them                       *)
(* (server.go: the loop and its writers).                                  *)
THEOREM StatusCorrect == Spec => []StatusTellsOutcome
BY HandlerCorrect, PTL DEF HandlerInv

(* Every attempt is recorded once, as what it was, however the request     *)
(* ends: through the loop, or with a stream the client leaves.             *)
THEOREM MetricsCorrect == Spec => []MetricsMatchAttempts
<1>1. HandlerInv => MetricsMatchAttempts
  BY DEF HandlerInv, RecordsOK, MetricsMatchAttempts, StatusOf
<1> QED
  BY <1>1, HandlerCorrect, PTL

(* The variables keep the types the code declares, and the status is one   *)
(* of those the handlers write.                                            *)
THEOREM HandlerTypes == Spec => []TypeOK
<1>1. Init => TypeOK
  <2>1. <<>> \in CandidateLists
    BY HandlerAssumption DEF CandidateLists
  <2>2. ToSet(<<>>) = {}
    BY DEF ToSet
  <2> QED
    BY <2>1, <2>2 DEF Init, TypeOK
<1>2. TypeOK /\ HandlerInv /\ [Next]_vars => TypeOK'
  <2> SUFFICES ASSUME TypeOK, HandlerInv, [Next]_vars PROVE TypeOK'
    OBVIOUS
  <2> USE DEF request, routing, loop, answer, TypeOK
  <2>1. \/ Prepare \/ TryCandidates \/ EndStream \/ Leave \/ UNCHANGED vars
    BY DEF Next, handleChatCompletions, handleStream, handleEmbeddings
  <2>2. CASE Prepare
    BY <2>2 DEF Prepare, RejectBody, FindCandidates, RefreshAndRetry, ModelNotFound,
                OverBudget, StartLoop, Respond
  <2>3. CASE Succeed \/ Fail
    <3>1. PICK e \in Failures \cup {Ok} : tried' = Append(tried, e) /\ lastErr' = e
      BY <2>3 DEF Succeed, Fail, NoError
    <3>2. ToSet(tried') \subseteq Failures \cup {Ok}
      <4>1. tried \in Seq(Outcomes) /\ e \in Outcomes
        BY DEF HandlerInv, StateOK, Outcomes
      <4>2. tried' \in Seq(Outcomes)
        BY <3>1, <4>1
      <4> QED
        BY <4>2 DEF ToSet, Outcomes
    <3>3. maxRetryAfter' \in Backoffs \cup {0}
      BY <2>3 DEF Succeed, Fail, Failures, QueueFull, Rejected, Broken, RateLimited
    <3>4. status' \in {status, 200, 500} /\ candidates' = candidates
      BY <2>3 DEF Succeed, Fail, Respond
    <3> QED
      BY <3>1, <3>2, <3>3, <3>4 DEF NoError
  <2>4. CASE ClientGone \/ AllRateLimited \/ Busy \/ writeProviderFailure
    BY <2>4 DEF ClientGone, AllRateLimited, Busy, writeProviderFailure, Respond
  <2>5. CASE EndStream \/ Leave \/ UNCHANGED vars
    BY <2>5 DEF EndStream, Leave, vars
  <2> QED
    BY <2>1, <2>2, <2>3, <2>4, <2>5 DEF TryCandidates
<1> QED
  BY <1>1, <1>2, HandlerCorrect, PTL DEF Spec
=============================================================================
