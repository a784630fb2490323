--------------------------- MODULE RateLimitProofs ---------------------------
(***************************************************************************)
(* What TLAPS proves of RateLimit for every number of callers, every cap   *)
(* and every rate.                                                         *)
(***************************************************************************)
EXTENDS RateLimit, FiniteSetTheorems, TLAPS

(* The map of limiters is finite and within its bound. *)
MapInv ==
  /\ IsFiniteSet(DOMAIN limiters)
  /\ Cardinality(DOMAIN limiters) <= MaxEntries

(* An eviction keeps entries of the map, and leaves it as it is below cap. *)
LEMMA KeptSmaller ==
  ASSUME MapInv
  PROVE  /\ Kept \subseteq DOMAIN limiters
         /\ IsFiniteSet(Kept)
         /\ Cardinality(Kept) \in Nat
         /\ Cardinality(Kept) <= MaxEntries
<1>1. Kept \subseteq DOMAIN limiters
  BY DEF Kept
<1>2. /\ IsFiniteSet(Kept)
      /\ Cardinality(Kept) <= Cardinality(DOMAIN limiters)
  BY <1>1, FS_Subset DEF MapInv
<1>3. Cardinality(Kept) \in Nat /\ Cardinality(DOMAIN limiters) \in Nat
  BY <1>2, FS_CardinalityType DEF MapInv
<1> QED
  BY <1>1, <1>2, <1>3, RateLimitAssumption DEF MapInv

(* The map never holds more than maxCallerEntries callers, however many    *)
(* there are and however few of their entries are idle.                    *)
THEOREM MapStaysBounded == Spec => []MapBounded
<1>1. Init => MapInv
  BY FS_EmptySet, RateLimitAssumption DEF Init, MapInv
<1>2. MapInv /\ [Next]_vars => MapInv'
  <2> SUFFICES ASSUME MapInv, [Next]_vars PROVE MapInv'
    OBVIOUS
  <2>1. ASSUME DOMAIN limiters' = DOMAIN limiters PROVE MapInv'
    BY <2>1 DEF MapInv
  <2>2. ASSUME NEW r \in Requests, NEW h \in Headers, Known(r, h) PROVE MapInv'
    BY <2>1, <2>2 DEF Known
  <2>3. ASSUME NEW r \in Requests, NEW h \in Headers, NewCaller(r, h) PROVE MapInv'
    <3>1. CASE AtCap(Kept)
      <4>1. DOMAIN limiters' = Kept
        BY <2>3, <3>1 DEF NewCaller, Restrict
      <4> QED
        BY <4>1, KeptSmaller DEF MapInv
    <3>2. CASE ~AtCap(Kept)
      <4> DEFINE k == callerKey(h)
      <4>1. DOMAIN limiters' = Kept \cup {k}
        BY <2>3, <3>2 DEF NewCaller
      <4> HIDE DEF k
      <4>2. Cardinality(Kept) \in Nat /\ Cardinality(Kept) < MaxEntries
        BY <3>2, KeptSmaller, RateLimitAssumption DEF AtCap
      <4>3. /\ IsFiniteSet(Kept \cup {k})
            /\ \/ Cardinality(Kept \cup {k}) = Cardinality(Kept)
               \/ Cardinality(Kept \cup {k}) = Cardinality(Kept) + 1
        BY KeptSmaller, FS_AddElement
      <4>4. Cardinality(Kept \cup {k}) <= MaxEntries
        BY <4>2, <4>3, RateLimitAssumption
      <4> QED
        BY <4>1, <4>3, <4>4 DEF MapInv
    <3> QED
      BY <3>1, <3>2
  <2>4. ASSUME NEW r \in Requests, globalLimiter(r) \/ Allow(r) \/ Refuse(r) PROVE MapInv'
    BY <2>1, <2>4 DEF globalLimiter, Allow, Refuse
  <2>5. CASE Tick \/ UNCHANGED vars
    BY <2>1, <2>5 DEF Tick, vars
  <2> QED
    BY <2>2, <2>3, <2>4, <2>5 DEF Next, perCallerLimiter
<1>3. MapInv => MapBounded
  BY DEF MapInv, MapBounded
<1> QED
  BY <1>1, <1>2, <1>3, PTL DEF Spec

-----------------------------------------------------------------------------
(* No caller above its rate, and none refused below it.                    *)

(* Requests are counted by bucket or by caller: what they share, how much  *)
(* of that there is, and which bucket it is just now.                      *)
Ways == {"bucket", "caller"}
Share(by, r) == IF by = "bucket" THEN lim[r] ELSE Caller(r)
Shares(by) ==
  IF by = "bucket" THEN Buckets \ untracked
  ELSE IF cfg.perCaller THEN DOMAIN limiters ELSE {Shared}
BucketOf(by, k) ==
  IF by = "bucket" THEN k
  ELSE IF cfg.perCaller THEN limiters[k].bucket ELSE Shared

(* What may be had of it at once: a caller without a bucket gets a full one. *)
Level(by, k) == IF k \in Shares(by) THEN Credit(BucketOf(by, k)) ELSE Cap

(* Typing; what a request holds is defined once it has arrived. *)
TypeInv ==
  /\ now \in Nat
  /\ cfg \in [perCaller : BOOLEAN, trustProxy : BOOLEAN]
  /\ \A k \in DOMAIN limiters :
       limiters[k].bucket \in Requests /\ limiters[k].lastUse \in 0..now
  /\ credit \in [Buckets -> [left : 0..Cap, last : 0..now]]
  /\ pc \in [Requests -> {"idle", "admission", "served", "refused"}]
  /\ DOMAIN header = Requests
  /\ lim \in [Requests -> Buckets]
  /\ at \in [Requests -> 0..now]
  /\ untracked \subseteq Requests
  /\ prompt \in BOOLEAN

(* A bucket belongs to the caller whose request made it. *)
OwnersInv ==
  /\ \A r \in Requests : pc[r] # "idle" =>
       IF cfg.perCaller
       THEN /\ header[r] \in Headers
            /\ lim[r] \in Requests /\ pc[lim[r]] # "idle"
            /\ Caller(lim[r]) = Caller(r)
            /\ lim[r] \in untracked => lim[r] = r
       ELSE lim[r] = Shared
  /\ \A r \in untracked : pc[r] # "idle"
  /\ cfg.perCaller => \A k \in DOMAIN limiters :
       LET b == limiters[k].bucket
       IN  pc[b] # "idle" /\ Caller(b) = k /\ b \notin untracked

(* Nobody has taken from a bucket that is still to be made, or that was    *)
(* made for one request which has yet to take from it.                     *)
FreshInv ==
  \A r \in Requests :
    pc[r] = "idle" \/ (pc[r] = "admission" /\ r \in untracked) => credit[r].left = Cap

(* Where buckets refill in time, a request on its way holds its caller's,  *)
(* which is not stale, or one of its own,                                  *)
HoldersInv ==
  Refills => \A r \in Requests : pc[r] = "admission" =>
    /\ now <= at[r] + Delay
    /\ cfg.perCaller /\ lim[r] \notin untracked =>
         /\ Caller(r) \in DOMAIN limiters
         /\ limiters[Caller(r)].bucket = lim[r]
         /\ at[r] <= limiters[Caller(r)].lastUse

(* and a stale bucket has not been taken from since it was used last.      *)
StaleInv ==
  Refills => \A k \in DOMAIN limiters :
    credit[limiters[k].bucket].last <= limiters[k].lastUse + Delay

(* Who holds which limiter, and how old it may be. *)
ShapeInv ==
  TypeInv /\ OwnersInv /\ FreshInv /\ HoldersInv /\ StaleInv

(* The requests that share k and were served from time t to time u, and    *)
(* their price.                                                            *)
Had(by, k, t, u) == {q \in Served : Share(by, q) = k /\ at[q] \in t..u}
Cost(by, k, t, u) == Cardinality(Had(by, k, t, u)) * Interval

(* What those who share a bucket have had since one of their requests,     *)
(* with what there is at once, is what the rate allows at most: and        *)
(* exactly that, since some request, where there is less than Burst.  The  *)
(* rate was kept up to each of their requests before, too.                 *)
NoneAbove(by) ==
  \A first \in Served :
    LET k == Share(by, first)
    IN  Cost(by, k, at[first], now) + Level(by, k) <= Cap + (now - at[first])

NoneBelow(by) ==
  \A k \in Shares(by) :
    \/ Level(by, k) = Cap
    \/ \E first \in Served :
         /\ Share(by, first) = k
         /\ Cost(by, k, at[first], now) + Level(by, k) >= Cap + (now - at[first])

NoneEver(by) ==
  \A first, last \in Served :
    Share(by, first) = Share(by, last) /\ at[first] <= at[last] =>
      Cost(by, Share(by, first), at[first], at[last]) <= Cap + (at[last] - at[first])

(* The rate, said of all that is shared and of all intervals. *)
RateInv(by) ==
  IsFiniteSet(Served) /\ NoneEver(by) /\ NoneAbove(by) /\ NoneBelow(by)

(* Who a request's caller is: its callerKey, with a bucket for each. *)
LEMMA CallerOf ==
  ASSUME NEW r, NEW h \in Headers, header' = [header EXCEPT ![r] = h], r \in DOMAIN header,
         cfg.perCaller, cfg.trustProxy \in BOOLEAN, cfg' = cfg
  PROVE  Caller(r)' = callerKey(h)
<1> DEFINE claimed(name) == IF cfg.trustProxy THEN name ELSE None
           names == <<h.auth, claimed(h.forwarded), claimed(h.real), h.host>>
           IsFirst(i) == i \in 1..4 /\ names[i] # None /\ \A j \in 1..(i - 1) : names[j] = None
<1>1. names[4] # None
  BY RateLimitAssumption
<1>2. \E i : IsFirst(i)
  <2>1. IsFirst(1) \/ IsFirst(2) \/ IsFirst(3) \/ IsFirst(4)
    BY <1>1
  <2> QED
    BY <2>1
<1>3. ASSUME NEW i, IsFirst(i) PROVE names[i] = callerKey(h)
  BY <1>3 DEF callerKey
<1>4. Caller(r)' = names[CHOOSE i \in 1..4 : names[i] # None /\ \A j \in 1..(i - 1) : names[j] = None]
  BY DEF Caller
<1> QED
  BY <1>2, <1>3, <1>4

(* A request's caller stays who it was. *)
LEMMA CallerKept ==
  ASSUME NEW r, header'[r] = header[r], cfg' = cfg
  PROVE  Caller(r)' = Caller(r)
BY DEF Caller

(* The constants are numbers. *)
LEMMA Amounts ==
  /\ Cap \in Nat /\ Interval \in Nat /\ Delay \in Nat /\ IdleTicks \in Nat
  /\ 0 < Interval /\ Interval <= Cap
<1>1. ASSUME NEW m \in Nat, NEW n \in Nat \ {0} PROVE n * m \in Nat /\ m <= n * m
  BY <1>1
<1> QED
  BY <1>1, RateLimitAssumption DEF Cap

(* What is in a bucket. *)
LEMMA CreditIs ==
  ASSUME TypeInv, NEW b \in Buckets
  PROVE  /\ Credit(b) \in 0..Cap
         /\ credit[b].left \in 0..Cap /\ credit[b].last \in 0..now
         /\ now - credit[b].last >= Cap => Credit(b) = Cap
BY Amounts DEF TypeInv, Credit

(* With time a bucket fills, and that is all. *)
LEMMA CreditGrows ==
  ASSUME TypeInv, NEW b \in Buckets, now' = now + 1, credit' = credit
  PROVE  Credit(b)' = IF Credit(b) < Cap THEN Credit(b) + 1 ELSE Cap
<1>1. credit[b].left \in Nat /\ credit[b].last \in Nat /\ now \in Nat
  BY CreditIs, Amounts DEF TypeInv
<1> QED
  BY <1>1, Amounts DEF Credit

(* Every step keeps the types. *)
LEMMA TypesKept ==
  ASSUME TypeInv, [Next]_vars PROVE TypeInv'
<1>1. ASSUME NEW r \in Requests, globalLimiter(r) PROVE TypeInv'
  BY <1>1 DEF TypeInv, globalLimiter, Arrives, Buckets
<1>2. ASSUME NEW r \in Requests, NEW h \in Headers, Known(r, h) PROVE TypeInv'
  <2>1. limiters[callerKey(h)].bucket \in Requests
    BY <1>2 DEF TypeInv, Known, Tracked
  <2>2. \A k \in DOMAIN limiters' :
          limiters'[k].bucket \in Requests /\ limiters'[k].lastUse \in 0..now
    BY <1>2 DEF TypeInv, Known, Tracked
  <2> QED
    BY <1>2, <2>1, <2>2 DEF TypeInv, Known, Arrives, Buckets
<1>3. ASSUME NEW r \in Requests, NEW h \in Headers, NewCaller(r, h) PROVE TypeInv'
  <2>1. \A k \in DOMAIN limiters' :
          limiters'[k].bucket \in Requests /\ limiters'[k].lastUse \in 0..now
    BY <1>3 DEF TypeInv, NewCaller, Restrict, Kept
  <2>2. credit' \in [Buckets -> [left : 0..Cap, last : 0..now]]
    BY <1>3, Amounts DEF TypeInv, NewCaller, Full, Buckets
  <2>3. untracked' \subseteq Requests
    BY <1>3 DEF TypeInv, NewCaller
  <2> QED
    BY <1>3, <2>1, <2>2, <2>3 DEF TypeInv, NewCaller, Arrives, Buckets
<1>4. ASSUME NEW r \in Requests, Allow(r) PROVE TypeInv'
  <2>1. lim[r] \in Buckets
    BY DEF TypeInv
  <2>2. Credit(lim[r]) - Interval \in 0..Cap
    BY <1>4, <2>1, CreditIs, Amounts DEF Allow
  <2> QED
    BY <1>4, <2>1, <2>2 DEF TypeInv, Allow
<1>5. ASSUME NEW r \in Requests, Refuse(r) PROVE TypeInv'
  BY <1>5 DEF TypeInv, Refuse, request
<1>6. CASE Tick
  <2>1. now' \in Nat /\ 0..now \subseteq 0..now'
    BY <1>6 DEF TypeInv, Tick
  <2>2. credit' \in [Buckets -> [left : 0..Cap, last : 0..now']]
    BY <1>6, <2>1 DEF TypeInv, Tick
  <2>3. at' \in [Requests -> 0..now']
    BY <1>6, <2>1 DEF TypeInv, Tick, request
  <2> QED
    BY <1>6, <2>1, <2>2, <2>3 DEF TypeInv, Tick, request
<1>7. CASE UNCHANGED vars
  BY <1>7 DEF TypeInv, vars, request
<1> QED
  BY <1>1, <1>2, <1>3, <1>4, <1>5, <1>6, <1>7 DEF Next, perCallerLimiter

(* A request that arrives disturbs no other. *)
LEMMA OthersKept ==
  ASSUME TypeInv, NEW r \in Requests, NEW h, NEW b, Arrives(r, h, b), cfg' = cfg
  PROVE  /\ \A q \in Requests \ {r} :
              /\ pc'[q] = pc[q] /\ lim'[q] = lim[q] /\ at'[q] = at[q]
              /\ header'[q] = header[q] /\ Caller(q)' = Caller(q)
         /\ pc[r] = "idle" /\ pc'[r] = "admission" /\ lim'[r] = b /\ at'[r] = now
         /\ header'[r] = h
         /\ cfg.perCaller /\ h \in Headers => Caller(r)' = callerKey(h)
<1>1. \A q \in Requests \ {r} :
        /\ pc'[q] = pc[q] /\ lim'[q] = lim[q] /\ at'[q] = at[q] /\ header'[q] = header[q]
  BY DEF TypeInv, Arrives
<1>2. cfg.perCaller /\ h \in Headers => Caller(r)' = callerKey(h)
  BY CallerOf DEF TypeInv, Arrives
<1> QED
  BY <1>1, <1>2, CallerKept DEF TypeInv, Arrives

(* With nothing that names a request changed, every caller is who it was. *)
LEMMA CallersKept ==
  ASSUME header' = header, cfg' = cfg
  PROVE  \A q \in Requests : Caller(q)' = Caller(q)
BY CallerKept

(* Every step keeps a limiter its owner's. *)
LEMMA OwnersKept ==
  ASSUME TypeInv, OwnersInv, [Next]_vars PROVE OwnersInv'
<1>1. ASSUME NEW r \in Requests, globalLimiter(r) PROVE OwnersInv'
  <2>1. \A q \in Requests \ {r} : pc'[q] = pc[q] /\ lim'[q] = lim[q]
    BY <1>1, OthersKept DEF globalLimiter
  <2>2. lim'[r] = Shared /\ ~cfg'.perCaller /\ pc'[r] = "admission"
    BY <1>1, OthersKept DEF globalLimiter
  <2> QED
    BY <1>1, <2>1, <2>2 DEF OwnersInv, TypeInv, globalLimiter
<1>2. ASSUME NEW r \in Requests, NEW h \in Headers, Known(r, h) PROVE OwnersInv'
  <2> DEFINE k == callerKey(h)
             b == limiters[k].bucket
  <2>1. k \in DOMAIN limiters /\ b \in Requests /\ cfg' = cfg /\ cfg.perCaller /\ Arrives(r, h, b)
    BY <1>2 DEF Known, Tracked, TypeInv
  <2>2. pc[b] # "idle" /\ Caller(b) = k /\ b \notin untracked
    BY <2>1 DEF OwnersInv
  <2>3. DOMAIN limiters' = DOMAIN limiters
        /\ \A j \in DOMAIN limiters : limiters'[j].bucket = limiters[j].bucket
    BY <1>2 DEF Known
  <2> HIDE DEF k, b
  <2>4. Caller(r)' = k /\ lim'[r] = b /\ header'[r] = h /\ pc[r] = "idle" /\ pc'[r] # "idle"
    BY <2>1, OthersKept DEF k
  <2>5. \A q \in Requests \ {r} : /\ pc'[q] = pc[q] /\ lim'[q] = lim[q]
                                  /\ header'[q] = header[q] /\ Caller(q)' = Caller(q)
    BY <2>1, OthersKept
  <2>6. untracked' = untracked /\ b # r
    BY <1>2, <2>2, <2>4 DEF Known
  <2> QED
    BY <2>1, <2>2, <2>3, <2>4, <2>5, <2>6 DEF OwnersInv, TypeInv
<1>3. ASSUME NEW r \in Requests, NEW h \in Headers, NewCaller(r, h) PROVE OwnersInv'
  <2> DEFINE k == callerKey(h)
  <2>1. cfg' = cfg /\ cfg.perCaller /\ Arrives(r, h, r)
    BY <1>3 DEF NewCaller
  <2>2. \/ untracked' = untracked \cup {r} /\ DOMAIN limiters' \subseteq DOMAIN limiters
        \/ untracked' = untracked /\ limiters'[k].bucket = r
           /\ DOMAIN limiters' \subseteq DOMAIN limiters \cup {k}
    BY <1>3 DEF NewCaller, Tracked, Kept, Restrict
  <2>3. \A j \in DOMAIN limiters' : j # k => limiters'[j].bucket = limiters[j].bucket
    BY <1>3 DEF NewCaller, Kept, Restrict
  <2>4. k \notin DOMAIN limiters
    BY <1>3 DEF NewCaller, Tracked
  <2> HIDE DEF k
  <2>5. Caller(r)' = k /\ lim'[r] = r /\ pc[r] = "idle" /\ pc'[r] # "idle" /\ header'[r] = h
    BY <2>1, OthersKept DEF k
  <2>6. \A q \in Requests \ {r} : /\ pc'[q] = pc[q] /\ lim'[q] = lim[q]
                                  /\ header'[q] = header[q] /\ Caller(q)' = Caller(q)
    BY <2>1, OthersKept
  <2> QED
    BY <2>1, <2>2, <2>3, <2>4, <2>5, <2>6 DEF OwnersInv, TypeInv
<1>4. ASSUME NEW r \in Requests, Allow(r) \/ Refuse(r) PROVE OwnersInv'
  <2>1. /\ header' = header /\ cfg' = cfg /\ lim' = lim /\ limiters' = limiters
        /\ untracked' = untracked
        /\ \A q \in Requests : pc'[q] = "idle" <=> pc[q] = "idle"
    BY <1>4 DEF Allow, Refuse, request, TypeInv
  <2> QED
    BY <2>1, CallersKept DEF OwnersInv, TypeInv
<1>5. CASE Tick \/ UNCHANGED vars
  <2>1. /\ header' = header /\ cfg' = cfg /\ lim' = lim /\ limiters' = limiters
        /\ untracked' = untracked /\ pc' = pc
    BY <1>5 DEF Tick, vars, request
  <2> QED
    BY <2>1, CallersKept DEF OwnersInv, TypeInv
<1> QED
  BY <1>1, <1>2, <1>3, <1>4, <1>5 DEF Next, perCallerLimiter

(* What is evicted is a full bucket that no request is about to take from. *)
LEMMA EvictedFull ==
  ASSUME ShapeInv, Refills, cfg.perCaller, NEW k \in DOMAIN limiters \ Kept
  PROVE  /\ Credit(limiters[k].bucket) = Cap
         /\ \A q \in Requests : pc[q] = "admission" /\ lim[q] \notin untracked => Caller(q) # k
<1> DEFINE b == limiters[k].bucket
<1>1. limiters[k].lastUse < now - IdleTicks
  BY DEF Kept, Stale
<1>2. b \in Buckets /\ limiters[k].lastUse \in 0..now /\ now \in Nat
  BY DEF ShapeInv, TypeInv, Buckets
<1>3. credit[b].last \in 0..now /\ credit[b].last <= limiters[k].lastUse + Delay
  BY <1>2, CreditIs DEF ShapeInv, StaleInv
<1>4. now - credit[b].last >= Cap
  BY <1>1, <1>2, <1>3, Amounts DEF Refills
<1>5. Credit(b) = Cap
  BY <1>2, <1>4, CreditIs DEF ShapeInv
<1>6. ASSUME NEW q \in Requests, pc[q] = "admission", lim[q] \notin untracked, Caller(q) = k
      PROVE  FALSE
  <2>1. now <= at[q] + Delay /\ at[q] <= limiters[k].lastUse
    BY <1>6 DEF ShapeInv, HoldersInv
  <2>2. at[q] \in 0..now
    BY DEF ShapeInv, TypeInv
  <2> QED
    BY <1>1, <1>2, <2>1, <2>2, Amounts DEF Refills
<1> QED
  BY <1>5, <1>6

(* A bucket that is neither made nor taken from holds what it held. *)
LEMMA CreditKept ==
  ASSUME NEW b, credit'[b] = credit[b], now' = now PROVE Credit(b)' = Credit(b)
BY DEF Credit

(* If buckets refill in time after a step, they did before it. *)
LEMMA RefillsBefore ==
  ASSUME [Next]_vars, Refills' PROVE Refills
<1>1. prompt' => prompt
  BY DEF Next, perCallerLimiter, globalLimiter, Known, NewCaller, Allow, Refuse, Tick, vars
<1> QED
  BY <1>1 DEF Refills

(* Every step keeps unused buckets full. *)
LEMMA FreshKept ==
  ASSUME ShapeInv, [Next]_vars PROVE FreshInv'
<1> USE DEF ShapeInv
<1>1. ASSUME credit' = credit, untracked' = untracked,
             \A q \in Requests : pc'[q] = "idle" => pc[q] = "idle",
             \A q \in untracked : pc'[q] = "admission" => pc[q] = "admission"
      PROVE  FreshInv'
  BY <1>1 DEF FreshInv
<1>2. ASSUME NEW r \in Requests, globalLimiter(r) \/ \E h \in Headers : Known(r, h)
      PROVE  FreshInv'
  <2>1. pc[r] = "idle" /\ pc' = [pc EXCEPT ![r] = "admission"]
        /\ credit' = credit /\ untracked' = untracked
    BY <1>2 DEF globalLimiter, Known, Arrives
  <2>2. r \notin untracked
    BY <2>1 DEF OwnersInv
  <2> QED
    BY <1>1, <2>1, <2>2 DEF TypeInv
<1>3. ASSUME NEW r \in Requests, NEW h \in Headers, NewCaller(r, h) PROVE FreshInv'
  <2>1. /\ pc' = [pc EXCEPT ![r] = "admission"] /\ credit' = [credit EXCEPT ![r] = Full(now)]
        /\ untracked' \in {untracked, untracked \cup {r}}
    BY <1>3 DEF NewCaller, Arrives
  <2>2. credit'[r].left = Cap /\ \A q \in Requests \ {r} : credit'[q] = credit[q] /\ pc'[q] = pc[q]
    BY <2>1 DEF Full, TypeInv, Buckets
  <2> QED
    BY <2>1, <2>2 DEF FreshInv
<1>4. ASSUME NEW r \in Requests, Allow(r) PROVE FreshInv'
  <2>1. /\ pc[r] = "admission" /\ pc' = [pc EXCEPT ![r] = "served"] /\ untracked' = untracked
        /\ \A b \in Buckets \ {lim[r]} : credit'[b] = credit[b]
    BY <1>4 DEF Allow, TypeInv
  <2>2. ASSUME NEW q \in Requests, q = lim[r], pc'[q] = "idle" \/ (pc'[q] = "admission" /\ q \in untracked)
        PROVE  FALSE
    <3>1. cfg.perCaller
      BY <2>1, <2>2, RateLimitAssumption DEF OwnersInv
    <3>2. pc[q] # "idle" /\ (q \in untracked => q = r)
      BY <2>1, <2>2, <3>1 DEF OwnersInv
    <3> QED
      BY <2>1, <2>2, <3>2 DEF TypeInv
  <2> QED
    BY <2>1, <2>2 DEF FreshInv, TypeInv, Buckets
<1>5. ASSUME (\E r \in Requests : Refuse(r)) \/ Tick \/ UNCHANGED vars PROVE FreshInv'
  <2>1. /\ credit' = credit /\ untracked' = untracked
        /\ \A q \in Requests : pc'[q] # "refused" => pc'[q] = pc[q]
    BY <1>5 DEF Refuse, Tick, vars, TypeInv
  <2> QED
    BY <1>1, <2>1 DEF TypeInv
<1> QED
  BY <1>2, <1>3, <1>4, <1>5 DEF Next, perCallerLimiter

(* The bucket of a request that it shares with nobody is full. *)
LEMMA UntrackedFull ==
  ASSUME ShapeInv, NEW r \in Requests, pc[r] = "admission", lim[r] \in untracked
  PROVE  lim[r] = r /\ Credit(lim[r]) = Cap
<1>1. lim[r] = r
  BY RateLimitAssumption DEF ShapeInv, OwnersInv, TypeInv
<1>2. credit[r].left = Cap /\ r \in Buckets
  BY <1>1 DEF ShapeInv, FreshInv, Buckets
<1> QED
  BY <1>1, <1>2, CreditIs, Amounts DEF ShapeInv, TypeInv, Credit

(* Every step keeps the limiter of a request in the map. *)
LEMMA HoldersKept ==
  ASSUME ShapeInv, [Next]_vars PROVE HoldersInv'
<1> SUFFICES ASSUME Refills' PROVE HoldersInv'
  BY DEF HoldersInv
<1>0. Refills
  BY RefillsBefore
<1> USE DEF ShapeInv
<1> USE Amounts
<1> DEFINE Held(q) ==
             /\ now <= at[q] + Delay
             /\ cfg.perCaller /\ lim[q] \notin untracked =>
                  /\ Caller(q) \in DOMAIN limiters
                  /\ limiters[Caller(q)].bucket = lim[q]
                  /\ at[q] <= limiters[Caller(q)].lastUse
<1> SUFFICES ASSUME NEW q \in Requests, pc'[q] = "admission" PROVE Held(q)'
  BY DEF HoldersInv
<1>a. pc[q] = "admission" => Held(q)
  BY <1>0 DEF HoldersInv
<1>1. ASSUME NEW r \in Requests, globalLimiter(r) PROVE Held(q)'
  <2>1. q # r => pc'[q] = pc[q] /\ at'[q] = at[q]
    BY <1>1, OthersKept DEF globalLimiter
  <2>2. ~cfg'.perCaller /\ at'[r] = now /\ now' = now /\ now \in Nat
    BY <1>1, OthersKept DEF globalLimiter, TypeInv
  <2> QED
    BY <1>a, <2>1, <2>2
<1>2. ASSUME NEW r \in Requests, NEW h \in Headers, Known(r, h) PROVE Held(q)'
  <2> DEFINE k == callerKey(h)
             b == limiters[k].bucket
  <2>1. k \in DOMAIN limiters /\ cfg' = cfg /\ cfg.perCaller /\ Arrives(r, h, b)
        /\ now' = now /\ untracked' = untracked /\ now \in Nat
    BY <1>2 DEF Known, Tracked, TypeInv
  <2>2. /\ DOMAIN limiters' = DOMAIN limiters
        /\ \A j \in DOMAIN limiters :
             /\ limiters'[j].bucket = limiters[j].bucket
             /\ limiters'[j].lastUse = IF j = k THEN now ELSE limiters[j].lastUse
    BY <1>2 DEF Known, Tracked
  <2> HIDE DEF k
  <2>3. q # r => /\ pc'[q] = pc[q] /\ lim'[q] = lim[q] /\ at'[q] = at[q]
                 /\ Caller(q)' = Caller(q)
    BY <2>1, OthersKept
  <2>4. Caller(r)' = k /\ lim'[r] = b /\ at'[r] = now
    BY <2>1, OthersKept DEF k
  <2>5. at[q] <= now
    BY DEF TypeInv
  <2>6. CASE q = r
    BY <2>1, <2>2, <2>4, <2>6
  <2>7. CASE q # r
    BY <1>a, <2>1, <2>2, <2>3, <2>5, <2>7
  <2> QED
    BY <2>6, <2>7
<1>3. ASSUME NEW r \in Requests, NEW h \in Headers, NewCaller(r, h) PROVE Held(q)'
  <2> DEFINE k == callerKey(h)
  <2>1. /\ k \notin DOMAIN limiters /\ cfg' = cfg /\ cfg.perCaller /\ Arrives(r, h, r)
        /\ now' = now /\ now \in Nat
    BY <1>3 DEF NewCaller, Tracked, TypeInv
  <2>2. \A j \in Kept : j \in DOMAIN limiters' /\ limiters'[j] = limiters[j]
    BY <1>3 DEF NewCaller, Kept, Restrict
  <2>3. \/ untracked' = untracked \cup {r}
        \/ /\ untracked' = untracked /\ k \in DOMAIN limiters'
           /\ limiters'[k] = [bucket |-> r, lastUse |-> now]
    <3>1. k \notin Kept
      BY <2>1 DEF Kept
    <3> QED
      BY <1>3, <3>1 DEF NewCaller
  <2> HIDE DEF k
  <2>4. q # r => /\ pc'[q] = pc[q] /\ lim'[q] = lim[q] /\ at'[q] = at[q]
                 /\ Caller(q)' = Caller(q)
    BY <2>1, OthersKept
  <2>5. Caller(r)' = k /\ lim'[r] = r /\ at'[r] = now /\ pc[r] = "idle"
    BY <2>1, OthersKept DEF k
  <2>6. CASE q = r
    BY <2>1, <2>3, <2>5, <2>6
  <2>7. CASE q # r
    <3>1. ASSUME lim[q] \notin untracked PROVE Caller(q) \in Kept
      BY <1>0, <1>a, <2>1, <2>4, <2>7, <3>1, EvictedFull
    <3> QED
      BY <1>a, <2>1, <2>2, <2>3, <2>4, <2>7, <3>1
  <2> QED
    BY <2>6, <2>7
<1>4. ASSUME NEW r \in Requests, Allow(r) \/ Refuse(r) PROVE Held(q)'
  <2>1. /\ header' = header /\ cfg' = cfg /\ lim' = lim /\ limiters' = limiters
        /\ untracked' = untracked /\ now' = now
        /\ pc'[r] # "admission" /\ (q # r => pc'[q] = pc[q] /\ at'[q] = at[q])
    BY <1>4 DEF Allow, Refuse, request, TypeInv
  <2> QED
    BY <1>a, <2>1, CallersKept
<1>5. CASE Tick
  <2>1. /\ header' = header /\ cfg' = cfg /\ lim' = lim /\ limiters' = limiters /\ at' = at
        /\ untracked' = untracked /\ pc' = pc /\ now' = now + 1 /\ now \in Nat
        /\ at[q] \in 0..now
    BY <1>5 DEF Tick, request, TypeInv
  <2>2. now < at[q] + Delay
    BY <1>5, <2>1 DEF Refills, Tick
  <2> QED
    BY <1>a, <2>1, <2>2, CallersKept
<1>6. CASE UNCHANGED vars
  <2>1. /\ header' = header /\ cfg' = cfg /\ lim' = lim /\ limiters' = limiters /\ at' = at
        /\ untracked' = untracked /\ pc' = pc /\ now' = now
    BY <1>6 DEF vars, request
  <2> QED
    BY <1>a, <2>1, CallersKept
<1> QED
  BY <1>1, <1>2, <1>3, <1>4, <1>5, <1>6 DEF Next, perCallerLimiter

(* Every step keeps what is known of the limiters that were evicted. *)
LEMMA StaleKept ==
  ASSUME ShapeInv, [Next]_vars PROVE StaleInv'
<1> SUFFICES ASSUME Refills' PROVE StaleInv'
  BY DEF StaleInv
<1>0. Refills
  BY RefillsBefore
<1> USE DEF ShapeInv
<1> USE Amounts
<1>1. ASSUME NEW r \in Requests, NEW h \in Headers, Known(r, h) PROVE StaleInv'
  <2> DEFINE k == callerKey(h)
  <2>1. k \in DOMAIN limiters /\ credit' = credit
    BY <1>1 DEF Known, Tracked
  <2>2. /\ DOMAIN limiters' = DOMAIN limiters
        /\ \A j \in DOMAIN limiters :
             /\ limiters'[j].bucket = limiters[j].bucket
             /\ limiters'[j].lastUse = IF j = k THEN now ELSE limiters[j].lastUse
    BY <1>1 DEF Known, Tracked
  <2> HIDE DEF k
  <2>3. \A j \in DOMAIN limiters : limiters[j].lastUse \in 0..now
                                 /\ credit[limiters[j].bucket].last \in 0..now
    BY CreditIs DEF TypeInv, Buckets
  <2> QED
    BY <1>0, <2>1, <2>2, <2>3 DEF StaleInv, TypeInv
<1>2. ASSUME NEW r \in Requests, NEW h \in Headers, NewCaller(r, h) PROVE StaleInv'
  <2> DEFINE k == callerKey(h)
  <2>1. /\ cfg.perCaller /\ pc[r] = "idle" /\ now \in Nat
        /\ credit' = [credit EXCEPT ![r] = Full(now)]
    BY <1>2 DEF NewCaller, Arrives, TypeInv
  <2>2. ASSUME NEW j \in DOMAIN limiters', j \in DOMAIN limiters, limiters'[j] = limiters[j]
        PROVE  credit'[limiters'[j].bucket].last <= limiters'[j].lastUse + Delay
    BY <1>0, <2>1, <2>2 DEF StaleInv, OwnersInv, TypeInv
  <2>3. ASSUME NEW j \in DOMAIN limiters', limiters'[j] = [bucket |-> r, lastUse |-> now]
        PROVE  credit'[limiters'[j].bucket].last <= limiters'[j].lastUse + Delay
    BY <2>1, <2>3 DEF TypeInv, Buckets, Full
  <2>4. \A j \in DOMAIN limiters' : \/ j \in DOMAIN limiters /\ limiters'[j] = limiters[j]
                                    \/ limiters'[j] = [bucket |-> r, lastUse |-> now]
    BY <1>2 DEF NewCaller, Restrict, Kept
  <2> QED
    BY <2>2, <2>3, <2>4 DEF StaleInv
<1>3. ASSUME NEW r \in Requests, Allow(r) PROVE StaleInv'
  <2>1. /\ limiters' = limiters /\ pc[r] = "admission" /\ lim[r] \in Buckets
        /\ \A b \in Buckets \ {lim[r]} : credit'[b] = credit[b]
        /\ credit'[lim[r]].last = now
    BY <1>3 DEF Allow, TypeInv
  <2>2. ASSUME NEW j \in DOMAIN limiters, limiters[j].bucket = lim[r]
        PROVE  now <= limiters[j].lastUse + Delay
    <3>1. cfg.perCaller
      BY <2>1, <2>2, RateLimitAssumption DEF OwnersInv, TypeInv
    <3>2. Caller(r) = j /\ lim[r] \notin untracked
      BY <2>1, <2>2, <3>1 DEF OwnersInv
    <3>3. now <= at[r] + Delay /\ at[r] <= limiters[j].lastUse
      BY <1>0, <2>1, <3>1, <3>2 DEF HoldersInv
    <3> QED
      BY <3>3 DEF TypeInv
  <2> QED
    BY <1>0, <2>1, <2>2 DEF StaleInv, TypeInv, Buckets
<1>4. ASSUME limiters' = limiters, credit' = credit PROVE StaleInv'
  BY <1>0, <1>4 DEF StaleInv
<1> QED
  BY <1>1, <1>2, <1>3, <1>4
     DEF Next, perCallerLimiter, globalLimiter, Refuse, Tick, vars

(* Before the first request there is nothing to know. *)
LEMMA ShapeAtFirst == Init => ShapeInv
BY Amounts, RateLimitAssumption
   DEF Init, ShapeInv, TypeInv, OwnersInv, FreshInv, HoldersInv, StaleInv, Buckets, Full

(* Together they are inductive. *)
LEMMA ShapeKept ==
  ASSUME ShapeInv, [Next]_vars PROVE ShapeInv'
BY TypesKept, OwnersKept, FreshKept, HoldersKept, StaleKept DEF ShapeInv

(* What is served costs a token, and nothing else does. *)
LEMMA SpentIs ==
  ASSUME NEW k, NEW t, NEW u
  PROVE  /\ Spent(lim, k, t, u) = Cost("bucket", k, t, u)
         /\ Spent(callers, k, t, u) = Cost("caller", k, t, u)
<1>1. {q \in Served : lim[q] = k /\ at[q] \in t..u} = Had("bucket", k, t, u)
  BY DEF Had, Share
<1>2. {q \in Served : callers[q] = k /\ at[q] \in t..u} = Had("caller", k, t, u)
  BY DEF Had, Share, callers
<1> QED
  BY <1>1, <1>2 DEF Spent, Cost

(* A cost is a number. *)
LEMMA CostIsNat ==
  IsFiniteSet(Served) =>
    \A w, k, t, u : IsFiniteSet(Had(w, k, t, u)) /\ Cost(w, k, t, u) \in Nat
<1> SUFFICES ASSUME IsFiniteSet(Served), NEW w, NEW k, NEW t, NEW u
             PROVE  IsFiniteSet(Had(w, k, t, u)) /\ Cost(w, k, t, u) \in Nat
  OBVIOUS
<1>1. IsFiniteSet(Had(w, k, t, u))
  BY FS_Subset DEF Had
<1>2. Cardinality(Had(w, k, t, u)) \in Nat
  BY <1>1, FS_CardinalityType
<1>3. \A m, n \in Nat : m * n \in Nat
  OBVIOUS
<1> QED
  BY <1>1, <1>2, <1>3, Amounts DEF Cost

(* One request more costs one interval more. *)
LEMMA OneMore ==
  ASSUME NEW S, IsFiniteSet(S), NEW x, x \notin S
  PROVE  Cardinality(S \cup {x}) * Interval = Cardinality(S) * Interval + Interval
<1>1. Cardinality(S \cup {x}) = Cardinality(S) + 1 /\ Cardinality(S) \in Nat
  BY FS_AddElement, FS_CardinalityType
<1>2. \A m, n \in Nat : (m + 1) * n = m * n + n
  OBVIOUS
<1> QED
  BY <1>1, <1>2, Amounts

(* What may be had at once is between nothing and a burst. *)
LEMMA LevelIs ==
  ShapeInv => now \in Nat /\ \A w \in Ways : \A k : Level(w, k) \in 0..Cap
<1> SUFFICES ASSUME ShapeInv, NEW w \in Ways, NEW k PROVE Level(w, k) \in 0..Cap /\ now \in Nat
  BY DEF ShapeInv, TypeInv
<1>1. k \in Shares(w) => BucketOf(w, k) \in Buckets
  BY DEF ShapeInv, TypeInv, Shares, BucketOf, Buckets
<1> QED
  BY <1>1, CreditIs, Amounts DEF ShapeInv, TypeInv, Level

(* Nobody is served and no bucket loses anything. *)
LEMMA RateKeptAtRest ==
  ASSUME NEW by \in Ways, ShapeInv, RateInv(by), Served' = Served,
         \A q \in Served : at'[q] = at[q] /\ Share(by, q)' = Share(by, q),
         \/ now' = now /\ \A k : Level(by, k)' = Level(by, k)
         \/ /\ now' = now + 1
            /\ \A k : Level(by, k)' = IF Level(by, k) < Cap THEN Level(by, k) + 1 ELSE Cap
  PROVE  RateInv(by)'
<1>1. \A q \in Served : at[q] \in 0..now
  BY DEF Served, ShapeInv, TypeInv
<1>2. now \in Nat /\ \A k : Level(by, k) \in 0..Cap
  BY LevelIs
<1>3. ASSUME NEW k, NEW t, NEW u
      PROVE  Had(by, k, t, u)' = Had(by, k, t, u) /\ Cost(by, k, t, u)' = Cost(by, k, t, u)
  <2>1. Had(by, k, t, u)' = Had(by, k, t, u)
    BY DEF Had
  <2> QED
    BY <2>1 DEF Cost
<1>4. ASSUME NEW k, NEW t \in Nat PROVE Cost(by, k, t, now') = Cost(by, k, t, now)
  <2>1. Had(by, k, t, now') = Had(by, k, t, now)
    BY <1>1, <1>2 DEF Had
  <2> QED
    BY <2>1 DEF Cost
<1>5. \A k, t, u : Cost(by, k, t, u) \in Nat
  BY CostIsNat DEF RateInv
<1>6. NoneAbove(by)'
  BY <1>1, <1>2, <1>3, <1>4, <1>5, Amounts DEF RateInv, NoneAbove
<1>7. NoneBelow(by)'
  <2> SUFFICES ASSUME NEW k \in Shares(by)', Level(by, k)' # Cap
               PROVE \E first \in Served :
                       /\ Share(by, first) = k
                       /\ Cost(by, k, at[first], now') + Level(by, k)' >= Cap + (now' - at[first])
    BY <1>3 DEF NoneBelow
  <2>1. Level(by, k) # Cap
    BY Amounts
  <2>2. k \in Shares(by)
    BY <2>1 DEF Level
  <2>3. PICK first \in Served :
          Share(by, first) = k /\ Cost(by, k, at[first], now) + Level(by, k) >= Cap + (now - at[first])
    BY <2>1, <2>2 DEF RateInv, NoneBelow
  <2> QED
    BY <1>1, <1>2, <1>4, <1>5, <2>1, <2>3, Amounts
<1>8. NoneEver(by)'
  BY <1>3 DEF RateInv, NoneEver
<1> QED
  BY <1>6, <1>7, <1>8 DEF RateInv

(* A request whose bucket is kept is served. *)
LEMMA RateKeptWhenServed ==
  ASSUME NEW by \in Ways, ShapeInv, ShapeInv', RateInv(by),
         NEW r \in Requests, r \notin Served, Served' = Served \cup {r},
         now' = now, at'[r] = now,
         \A q \in Served : at'[q] = at[q],
         \A q \in Requests : Share(by, q)' = Share(by, q),
         Shares(by)' = Shares(by), Share(by, r) \in Shares(by),
         Level(by, Share(by, r))' = Level(by, Share(by, r)) - Interval,
         \A k : k # Share(by, r) => Level(by, k)' = Level(by, k)
  PROVE  RateInv(by)'
<1>1. \A q \in Served : q \in Requests /\ q # r /\ at[q] \in 0..now
  BY DEF Served, ShapeInv, TypeInv
<1>2. now \in Nat /\ (\A k : Level(by, k) \in 0..Cap) /\ (\A k : Level(by, k)' \in 0..Cap)
  <2>1. (ShapeInv => now \in Nat /\ \A w \in Ways : \A k : Level(w, k) \in 0..Cap)'
    BY LevelIs, PTL
  <2> QED
    BY <2>1, LevelIs
<1>3. IsFiniteSet(Served')
  BY FS_AddElement DEF RateInv
<1>4. (\A k, t, u : Cost(by, k, t, u) \in Nat) /\ (\A k, t, u : Cost(by, k, t, u)' \in Nat)
  <2>1. (IsFiniteSet(Served) =>
           \A w, k, t, u : IsFiniteSet(Had(w, k, t, u)) /\ Cost(w, k, t, u) \in Nat)'
    BY CostIsNat, PTL
  <2> QED
    BY <1>3, <2>1, CostIsNat DEF RateInv
<1>5. ASSUME NEW k, NEW t \in Int, NEW u \in Int, ~ (k = Share(by, r) /\ now \in t..u)
      PROVE  Cost(by, k, t, u)' = Cost(by, k, t, u)
  <2>1. Had(by, k, t, u)' = Had(by, k, t, u)
    BY <1>1, <1>5 DEF Had
  <2> QED
    BY <2>1 DEF Cost
<1>6. ASSUME NEW t \in Int, t <= now
      PROVE  Cost(by, Share(by, r), t, now)' = Cost(by, Share(by, r), t, now) + Interval
  <2> DEFINE S == Had(by, Share(by, r), t, now)
  <2>1. Had(by, Share(by, r), t, now)' = S \cup {r}
    BY <1>1, <1>2, <1>6 DEF Had
  <2>2. r \notin S
    BY <1>1 DEF Had
  <2>3. IsFiniteSet(S)
    BY CostIsNat DEF RateInv
  <2> HIDE DEF S
  <2> QED
    BY <2>1, <2>2, <2>3, OneMore DEF Cost, S
<1>7. NoneAbove(by)'
  <2>1. ASSUME NEW first \in Served, Share(by, first) # Share(by, r)
        PROVE  Cost(by, Share(by, first), at[first], now)' + Level(by, Share(by, first))'
                 <= Cap + (now - at[first])
    BY <1>1, <1>2, <1>5, <2>1 DEF RateInv, NoneAbove
  <2>2. ASSUME NEW first \in Served, Share(by, first) = Share(by, r)
        PROVE  Cost(by, Share(by, first), at[first], now)' + Level(by, Share(by, first))'
                 <= Cap + (now - at[first])
    BY <1>1, <1>2, <1>4, <1>6, <2>2, Amounts DEF RateInv, NoneAbove
  <2>3. Cost(by, Share(by, r), now, now)' + Level(by, Share(by, r))' <= Cap
    <3>1. CASE \E q \in Served : Share(by, q) = Share(by, r) /\ at[q] = now
      BY <1>1, <1>2, <2>2, <3>1, Amounts
    <3>2. CASE ~ \E q \in Served : Share(by, q) = Share(by, r) /\ at[q] = now
      <4>1. Had(by, Share(by, r), now, now) = {}
        BY <1>1, <1>2, <3>2 DEF Had
      <4>2. Cost(by, Share(by, r), now, now) = 0
        BY <4>1, FS_EmptySet, Amounts DEF Cost
      <4> QED
        BY <1>2, <1>6, <4>2, Amounts
    <3> QED
      BY <3>1, <3>2
  <2> QED
    BY <1>1, <1>2, <2>1, <2>2, <2>3, Amounts DEF NoneAbove
<1>8. NoneBelow(by)'
  <2> SUFFICES ASSUME NEW k \in Shares(by), Level(by, k)' # Cap
               PROVE (\E first \in Served :
                       /\ Share(by, first) = k
                       /\ Cost(by, k, at[first], now) + Level(by, k) >= Cap + (now - at[first]))'
    BY DEF NoneBelow
  <2>1. CASE Level(by, k) = Cap
    <3>1. k = Share(by, r)
      BY <2>1
    <3> QED
      BY <1>2, <1>4, <1>6, <2>1, <3>1, Amounts
  <2>2. CASE Level(by, k) # Cap
    <3>1. PICK first \in Served :
            Share(by, first) = k /\ Cost(by, k, at[first], now) + Level(by, k) >= Cap + (now - at[first])
      BY <2>2 DEF RateInv, NoneBelow
    <3>2. CASE k = Share(by, r)
      BY <1>1, <1>2, <1>4, <1>6, <3>1, <3>2, Amounts
    <3>3. CASE k # Share(by, r)
      BY <1>1, <1>2, <1>5, <3>1, <3>3
    <3> QED
      BY <3>2, <3>3
  <2> QED
    BY <2>1, <2>2
<1>9. NoneEver(by)'
  <2> SUFFICES ASSUME NEW first \in Served', NEW last \in Served',
                      (Share(by, first) = Share(by, last))', (at[first] <= at[last])'
               PROVE  (Cost(by, Share(by, first), at[first], at[last]) <= Cap + (at[last] - at[first]))'
    BY DEF NoneEver
  <2>1. CASE at'[last] = now
    BY <1>1, <1>2, <1>4, <1>7, <2>1, Amounts DEF NoneAbove
  <2>2. CASE at'[last] # now
    <3>1. first \in Served /\ last \in Served
      BY <1>1, <2>2, <1>2
    <3> QED
      BY <1>1, <1>2, <1>5, <2>2, <3>1 DEF RateInv, NoneEver
  <2> QED
    BY <2>1, <2>2
<1> QED
  BY <1>3, <1>7, <1>8, <1>9 DEF RateInv

(* A request that arrives is not served yet: it changes no cost. *)
LEMMA RateKeptByArrival ==
  ASSUME NEW by \in Ways, ShapeInv, RateInv(by),
         NEW r \in Requests, NEW h, NEW b, Arrives(r, h, b),
         cfg' = cfg, now' = now, untracked' \in {untracked, untracked \cup {r}},
         \A k : Level(by, k)' = Level(by, k)
  PROVE  RateInv(by)'
<1>1. /\ \A q \in Requests \ {r} : /\ pc'[q] = pc[q] /\ lim'[q] = lim[q] /\ at'[q] = at[q]
                                   /\ Share(by, q)' = Share(by, q)
      /\ pc[r] = "idle" /\ pc'[r] = "admission"
  BY OthersKept DEF ShapeInv, Share
<1>2. \A q \in Served : q \in Requests \ {r} /\ lim[q] # r
  <2>1. \A q \in Served : lim[q] # r
    BY <1>1, RateLimitAssumption DEF Served, ShapeInv, OwnersInv
  <2> QED
    BY <1>1, <2>1 DEF Served
<1>3. Served' = Served
  BY <1>1, <1>2 DEF Served
<1> QED
  BY <1>1, <1>2, <1>3, RateKeptAtRest

(* A new caller has a full bucket, as it would have had before; and a      *)
(* caller that loses its bucket loses a full one.                          *)
LEMMA LevelsKeptByNewCaller ==
  ASSUME ShapeInv, Refills, NEW r \in Requests, NEW h \in Headers, NewCaller(r, h), NEW k
  PROVE  Level("caller", k)' = Level("caller", k)
<1> DEFINE new == callerKey(h)
<1>1. /\ cfg.perCaller /\ cfg' = cfg /\ now' = now /\ now \in Nat /\ pc[r] = "idle"
      /\ credit' = [credit EXCEPT ![r] = Full(now)] /\ new \notin DOMAIN limiters
  BY DEF NewCaller, Arrives, Tracked, ShapeInv, TypeInv
<1>2. Kept \subseteq DOMAIN limiters
  BY DEF Kept
<1>3. \/ DOMAIN limiters' = Kept
      \/ DOMAIN limiters' = Kept \cup {new} /\ limiters'[new].bucket = r
  BY <1>1, <1>2 DEF NewCaller, Restrict
<1>4. \A j \in Kept : limiters'[j] = limiters[j]
  BY <1>2 DEF NewCaller, Restrict
<1> HIDE DEF new
<1>5. CASE k \in Kept
  <2>1. limiters[k].bucket # r
    BY <1>1, <1>2, <1>5 DEF ShapeInv, OwnersInv
  <2>2. credit'[limiters[k].bucket] = credit[limiters[k].bucket]
    BY <1>1, <2>1 DEF ShapeInv, TypeInv
  <2>3. k \in DOMAIN limiters /\ k \in DOMAIN limiters' /\ limiters'[k] = limiters[k]
    BY <1>2, <1>3, <1>4, <1>5
  <2> QED
    BY <1>1, <2>2, <2>3 DEF Level, Shares, BucketOf, Credit
<1>6. CASE k \notin Kept
  <2>1. Level("caller", k) = Cap
    BY <1>1, <1>6, EvictedFull DEF Level, Shares, BucketOf
  <2>2. CASE k \in DOMAIN limiters'
    <3>1. limiters'[k].bucket = r
      BY <1>3, <1>6, <2>2
    <3>2. credit'[r] = [left |-> Cap, last |-> now]
      BY <1>1 DEF Full, ShapeInv, TypeInv, Buckets
    <3> QED
      BY <1>1, <2>1, <2>2, <3>1, <3>2, Amounts DEF Level, Shares, BucketOf, Credit
  <2>3. CASE k \notin DOMAIN limiters'
    BY <1>1, <2>1, <2>3 DEF Level, Shares
  <2> QED
    BY <2>2, <2>3
<1> QED
  BY <1>5, <1>6

(* Nor is there more or less in any bucket. *)
LEMMA BucketsKeptByNewCaller ==
  ASSUME ShapeInv, NEW r \in Requests, NEW h \in Headers, NewCaller(r, h), NEW k
  PROVE  Level("bucket", k)' = Level("bucket", k)
<1>1. /\ now' = now /\ now \in Nat /\ pc[r] = "idle"
      /\ credit' = [credit EXCEPT ![r] = Full(now)]
      /\ untracked' \in {untracked, untracked \cup {r}}
  BY DEF NewCaller, Arrives, ShapeInv, TypeInv
<1>2. CASE k = r
  <2>1. credit[r].left = Cap /\ credit'[r] = [left |-> Cap, last |-> now] /\ r \in Buckets
    BY <1>1 DEF Full, ShapeInv, TypeInv, FreshInv, Buckets
  <2>2. Credit(r) = Cap /\ Credit(r)' = Cap
    BY <1>1, <2>1, CreditIs, Amounts DEF Credit, ShapeInv
  <2> QED
    BY <1>2, <2>2 DEF Level, BucketOf
<1>3. CASE k # r
  <2>1. k \in Buckets => credit'[k] = credit[k]
    BY <1>1, <1>3 DEF ShapeInv, TypeInv
  <2>2. k \in Shares("bucket")' <=> k \in Shares("bucket")
    BY <1>1, <1>3 DEF Shares, Buckets
  <2> QED
    BY <1>1, <2>1, <2>2 DEF Level, Shares, BucketOf, Credit
<1> QED
  BY <1>2, <1>3

(* A request that is admitted keeps the rate: of its bucket always, and of *)
(* its caller where buckets refill in time.                                *)
LEMMA RateKeptByAllow ==
  ASSUME NEW by \in Ways, by = "caller" => Refills,
         ShapeInv, ShapeInv', RateInv(by), NEW r \in Requests, Allow(r)
  PROVE  RateInv(by)'
<1> USE DEF ShapeInv
<1>1. /\ cfg' = cfg /\ now' = now /\ lim' = lim /\ limiters' = limiters /\ header' = header
      /\ untracked' = untracked /\ now \in Nat /\ lim[r] \in Buckets
      /\ pc[r] = "admission" /\ pc'[r] = "served" /\ at'[r] = now
      /\ \A q \in Requests \ {r} : pc'[q] = pc[q] /\ at'[q] = at[q]
      /\ \A b \in Buckets \ {lim[r]} : credit'[b] = credit[b]
      /\ credit'[lim[r]] = [left |-> Credit(lim[r]) - Interval, last |-> now]
  BY DEF Allow, TypeInv
<1>2. r \notin Served /\ Shares(by)' = Shares(by)
      /\ \A k : BucketOf(by, k)' = BucketOf(by, k)
  BY <1>1 DEF Served, Shares, BucketOf
<1>3. \A q \in Requests : Share(by, q)' = Share(by, q)
  BY <1>1, CallersKept DEF Share
<1>4. \A k \in Shares(by) : BucketOf(by, k) \in Buckets
  BY DEF TypeInv, Shares, BucketOf, Buckets
<1>5. ASSUME NEW k, k \in Shares(by) => BucketOf(by, k) # lim[r]
      PROVE  Level(by, k)' = Level(by, k)
  BY <1>1, <1>2, <1>4, <1>5 DEF Level, Credit
<1>6. CASE lim[r] \in untracked
  <2>1. Served' = Served
    BY <1>1, <1>6 DEF Served
  <2>2. \A k \in Shares(by) : BucketOf(by, k) # lim[r]
    BY <1>1, <1>6, RateLimitAssumption DEF Shares, BucketOf, OwnersInv, TypeInv
  <2>3. \A k : Level(by, k)' = Level(by, k)
    BY <1>5, <2>2
  <2>4. \A q \in Served : at'[q] = at[q] /\ Share(by, q)' = Share(by, q)
    BY <1>1, <1>2, <1>3 DEF Served
  <2> QED
    BY <1>1, <2>1, <2>3, <2>4, RateKeptAtRest
<1>7. CASE lim[r] \notin untracked
  <2> DEFINE s == Share(by, r)
  <2>1. Served' = Served \cup {r}
    BY <1>1, <1>7 DEF Served
  <2>2. s \in Shares(by) /\ BucketOf(by, s) = lim[r]
    <3>1. CASE by = "bucket"
      BY <1>1, <1>7, <3>1 DEF Share, Shares, BucketOf
    <3>2. CASE by # "bucket" /\ cfg.perCaller
      BY <1>1, <1>7, <3>2 DEF HoldersInv, Share, Shares, BucketOf, Ways
    <3>3. CASE by # "bucket" /\ ~cfg.perCaller
      BY <1>1, <3>3 DEF OwnersInv, Share, Shares, BucketOf, Caller
    <3> QED
      BY <3>1, <3>2, <3>3
  <2>3. \A k \in Shares(by) : k # s => BucketOf(by, k) # lim[r]
    BY <1>1, <2>2 DEF Shares, BucketOf, OwnersInv
  <2>4. \A k : k # s => Level(by, k)' = Level(by, k)
    BY <1>5, <2>3
  <2>5. Credit(lim[r])' = Credit(lim[r]) - Interval
    <3>1. Credit(lim[r]) \in 0..Cap
      BY <1>1, CreditIs
    <3> QED
      BY <1>1, <3>1, Amounts DEF Credit
  <2>6. Level(by, s)' = Level(by, s) - Interval
    BY <1>1, <1>2, <1>3, <2>2, <2>5 DEF Level
  <2>7. \A q \in Served : at'[q] = at[q]
    BY <1>1, <1>2 DEF Served
  <2> QED
    BY <1>1, <1>2, <1>3, <2>1, <2>2, <2>4, <2>6, <2>7, RateKeptWhenServed
<1> QED
  BY <1>6, <1>7

(* The inductive invariant: of every bucket, and of every caller where     *)
(* buckets refill in time.                                                 *)
RateLimitInv ==
  ShapeInv /\ RateInv("bucket") /\ (Refills => RateInv("caller"))

(* It holds when nobody has called. *)
LEMMA RateLimitInvAtFirst == Init => RateLimitInv
<1> SUFFICES ASSUME Init, NEW by \in Ways PROVE RateInv(by)
  BY ShapeAtFirst DEF RateLimitInv, Ways
<1>1. Served = {}
  BY DEF Init, Served
<1>2. \A k \in Shares(by) : Level(by, k) = Cap
  BY Amounts DEF Init, Shares, Level, BucketOf, Credit, Buckets, Full
<1> QED
  BY <1>1, <1>2, FS_EmptySet DEF RateInv, NoneEver, NoneAbove, NoneBelow

(* Every step keeps the rate. *)
LEMMA RateStep ==
  ASSUME NEW by \in Ways, by = "caller" => Refills,
         ShapeInv, ShapeInv', RateInv(by), [Next]_vars
  PROVE  RateInv(by)'
<1>2. ASSUME NEW r \in Requests, globalLimiter(r) PROVE RateInv(by)'
  <2>1. \A k : Level(by, k)' = Level(by, k)
    BY <1>2 DEF globalLimiter, Level, Shares, BucketOf, Credit
  <2> QED
    BY <1>2, <2>1, RateKeptByArrival DEF globalLimiter
<1>3. ASSUME NEW r \in Requests, NEW h \in Headers, Known(r, h) PROVE RateInv(by)'
  <2>1. /\ cfg' = cfg /\ now' = now /\ credit' = credit /\ DOMAIN limiters' = DOMAIN limiters
        /\ \A k \in DOMAIN limiters : limiters'[k].bucket = limiters[k].bucket
        /\ untracked' = untracked
    BY <1>3 DEF Known
  <2>2. \A k : Level(by, k)' = Level(by, k)
    BY <2>1 DEF Level, Shares, BucketOf, Credit
  <2> QED
    BY <1>3, <2>1, <2>2, RateKeptByArrival DEF Known
<1>4. ASSUME NEW r \in Requests, NEW h \in Headers, NewCaller(r, h) PROVE RateInv(by)'
  <2>1. \A k : Level(by, k)' = Level(by, k)
    BY <1>4, LevelsKeptByNewCaller, BucketsKeptByNewCaller DEF Ways
  <2>2. untracked' \in {untracked, untracked \cup {r}} /\ Arrives(r, h, r) /\ cfg' = cfg /\ now' = now
    BY <1>4 DEF NewCaller
  <2> QED
    BY <2>1, <2>2, RateKeptByArrival
<1>5. ASSUME NEW r \in Requests, Allow(r) PROVE RateInv(by)'
  BY <1>5, RateKeptByAllow
<1>6. ASSUME /\ cfg' = cfg /\ limiters' = limiters /\ credit' = credit /\ header' = header
             /\ lim' = lim /\ at' = at /\ untracked' = untracked
             /\ \A q \in Requests : pc'[q] = "served" <=> pc[q] = "served"
             /\ now' = now \/ now' = now + 1
      PROVE  RateInv(by)'
  <2>1. Served' = Served /\ \A q \in Served : at'[q] = at[q] /\ Share(by, q)' = Share(by, q)
    BY <1>6, CallersKept DEF Served, Share
  <2>2. CASE now' = now
    <3>1. \A k : Level(by, k)' = Level(by, k)
      BY <1>6, <2>2 DEF Level, Shares, BucketOf, Credit
    <3> QED
      BY <2>1, <2>2, <3>1, RateKeptAtRest
  <2>3. CASE now' = now + 1
    <3>1. \A k \in Shares(by) : BucketOf(by, k) \in Buckets
      BY DEF ShapeInv, TypeInv, Shares, BucketOf, Buckets
    <3>2. Shares(by)' = Shares(by) /\ \A k : BucketOf(by, k)' = BucketOf(by, k)
      BY <1>6 DEF Shares, BucketOf
    <3>3. \A k : Level(by, k)' = IF Level(by, k) < Cap THEN Level(by, k) + 1 ELSE Cap
      BY <1>6, <2>3, <3>1, <3>2, CreditGrows, Amounts DEF ShapeInv, Level
    <3> QED
      BY <2>1, <2>3, <3>3, RateKeptAtRest
  <2> QED
    BY <1>6, <2>2, <2>3
<1>7. ASSUME (\E r \in Requests : Refuse(r)) \/ Tick \/ UNCHANGED vars PROVE RateInv(by)'
  <2>1. \A q \in Requests : pc'[q] = "served" <=> pc[q] = "served"
    BY <1>7 DEF Refuse, Tick, vars, ShapeInv, TypeInv
  <2> QED
    BY <1>6, <1>7, <2>1 DEF Refuse, Tick, vars, request
<1> QED
  BY <1>2, <1>3, <1>4, <1>5, <1>7 DEF Next, perCallerLimiter

(* Every step keeps the invariant. *)
LEMMA RateLimitInvKept ==
  ASSUME RateLimitInv, [Next]_vars PROVE RateLimitInv'
<1>1. ShapeInv /\ ShapeInv'
  BY ShapeKept DEF RateLimitInv
<1>2. RateInv("bucket")'
  BY <1>1, RateStep DEF RateLimitInv, Ways
<1>3. Refills' => RateInv("caller")'
  BY <1>1, RateStep, RefillsBefore DEF RateLimitInv, Ways
<1> QED
  BY <1>1, <1>2, <1>3 DEF RateLimitInv

(* So it holds always. *)
LEMMA RateLimitInvHolds == Spec => []RateLimitInv
<1>1. RateLimitInv /\ [Next]_vars => RateLimitInv'
  BY RateLimitInvKept
<1> QED
  BY <1>1, RateLimitInvAtFirst, PTL DEF Spec

(* Nobody is ever served more through one bucket than rps and burst allow, *)
(* whatever the rate, the cap and the time between lookup and take; and no *)
(* caller is over all its buckets if they refill before they are evicted.  *)
THEOREM RateIsKept == Spec => []RateKept
<1>1. ASSUME RateInv("bucket") PROVE WithinRate(lim)
  BY <1>1, SpentIs DEF RateInv, NoneEver, WithinRate, Share
<1>2. ASSUME RateInv("caller") PROVE WithinRate(callers)
  <2>1. \A q \in Served : callers[q] = Share("caller", q)
    BY DEF callers, Share
  <2> SUFFICES ASSUME NEW first \in Served, NEW last \in Served,
                      callers[first] = callers[last], at[first] <= at[last]
               PROVE  Spent(callers, callers[first], at[first], at[last]) <= Cap + (at[last] - at[first])
    BY DEF WithinRate
  <2>2. Cost("caller", Share("caller", first), at[first], at[last]) <= Cap + (at[last] - at[first])
    BY <1>2, <2>1 DEF RateInv, NoneEver
  <2>3. callers[first] = Share("caller", first)
    BY <2>1
  <2> QED
    BY <2>2, <2>3, SpentIs
<1>3. RateLimitInv => RateKept
  BY <1>1, <1>2 DEF RateLimitInv, RateKept
<1> QED
  BY <1>3, RateLimitInvHolds, PTL

(* A request is refused only when serving it would have gone beyond the    *)
(* rate of its caller: other callers, evictions and refusals cost nothing. *)
THEOREM RefusalsAreDue == Spec => RefusedOnlyOverRate
<1> DEFINE Due(r) == \E first \in Admitted(r) :
                       Spent(callers, Caller(r), at[first], now) + Interval > Cap + (now - at[first])
           A == \A r \in Requests : pc[r] = "admission" /\ pc'[r] = "refused" => Due(r)
<1>1. ASSUME RateLimitInv, [Next]_vars, NEW r \in Requests,
             pc[r] = "admission", pc'[r] = "refused"
      PROVE  Due(r)
  <2>1. Credit(lim[r]) < Interval
    <3>1. ~ \E q \in Requests, h \in Headers : Known(q, h) \/ NewCaller(q, h)
      BY <1>1 DEF Known, NewCaller, Arrives, RateLimitInv, ShapeInv, TypeInv
    <3>2. ~ \E q \in Requests : globalLimiter(q) \/ Allow(q)
      BY <1>1 DEF globalLimiter, Arrives, Allow, RateLimitInv, ShapeInv, TypeInv
    <3>3. ~ (Tick \/ UNCHANGED vars)
      BY <1>1 DEF Tick, vars
    <3>4. PICK q \in Requests : Refuse(q)
      BY <1>1, <3>1, <3>2, <3>3 DEF Next, perCallerLimiter
    <3>5. q = r
      BY <1>1, <3>4 DEF Refuse, RateLimitInv, ShapeInv, TypeInv
    <3> QED
      BY <3>4, <3>5 DEF Refuse
  <2>2. lim[r] \notin untracked
    BY <1>1, <2>1, UntrackedFull, Amounts DEF RateLimitInv
  <2>3. lim[r] \in Shares("bucket") /\ Level("bucket", lim[r]) = Credit(lim[r])
    BY <1>1, <2>2 DEF RateLimitInv, ShapeInv, TypeInv, Shares, Level, BucketOf
  <2>4. Level("bucket", lim[r]) < Interval /\ Level("bucket", lim[r]) \in 0..Cap /\ now \in Nat
    BY <1>1, <2>1, <2>3, LevelIs DEF RateLimitInv, Ways
  <2>5. PICK first \in Served :
          /\ lim[first] = lim[r]
          /\ Cost("bucket", lim[r], at[first], now) + Level("bucket", lim[r]) >= Cap + (now - at[first])
    <3>1. NoneBelow("bucket") /\ Level("bucket", lim[r]) # Cap
      BY <1>1, <2>4, Amounts DEF RateLimitInv, RateInv
    <3>2. \A q : Share("bucket", q) = lim[q]
      BY DEF Share
    <3> QED
      BY <2>3, <3>1, <3>2 DEF NoneBelow
  <2>6. \A q \in Served : lim[q] = lim[r] => Caller(q) = Caller(r)
    <3>1. \A q \in Requests : pc[q] # "idle" /\ lim[q] = lim[r] => Caller(q) = Caller(r)
      <4>1. CASE cfg.perCaller
        BY <1>1, <4>1 DEF RateLimitInv, ShapeInv, OwnersInv
      <4>2. CASE ~cfg.perCaller
        BY <4>2 DEF Caller
      <4> QED
        BY <4>1, <4>2
    <3> QED
      BY <3>1 DEF Served
  <2>7. first \in Admitted(r) /\ at[first] \in 0..now
    BY <1>1, <2>5, <2>6 DEF Admitted, Served, RateLimitInv, ShapeInv, TypeInv
  <2>8. /\ Cost("bucket", lim[r], at[first], now) <= Cost("caller", Caller(r), at[first], now)
        /\ Cost("bucket", lim[r], at[first], now) \in Nat /\ Cost("caller", Caller(r), at[first], now) \in Nat
    <3> DEFINE S == Had("bucket", lim[r], at[first], now)
               T == Had("caller", Caller(r), at[first], now)
    <3>1. S \subseteq T /\ IsFiniteSet(T) /\ IsFiniteSet(S)
      <4>1. IsFiniteSet(T) /\ IsFiniteSet(S)
        BY <1>1, CostIsNat DEF RateLimitInv, RateInv
      <4>2. S \subseteq T
        BY <2>6 DEF Had, Share
      <4> QED
        BY <4>1, <4>2
    <3>2. Cardinality(S) \in Nat /\ Cardinality(T) \in Nat /\ Cardinality(S) <= Cardinality(T)
      BY <3>1, FS_Subset, FS_CardinalityType
    <3>3. \A i, j, n \in Nat : i <= j => i * n <= j * n
      OBVIOUS
    <3> HIDE DEF S, T
    <3>4. Cardinality(S) * Interval <= Cardinality(T) * Interval
      BY <3>2, <3>3, Amounts
    <3> QED
      BY <1>1, <3>4, CostIsNat DEF S, T, Cost, RateLimitInv, RateInv
  <2>9. Spent(callers, Caller(r), at[first], now) = Cost("caller", Caller(r), at[first], now)
    BY SpentIs
  <2> QED
    BY <2>4, <2>5, <2>7, <2>8, <2>9, Amounts
<1>2. RateLimitInv /\ [Next]_vars => [A]_vars
  BY <1>1
<1> QED
  BY <1>2, RateLimitInvHolds, PTL DEF Spec, RefusedOnlyOverRate
=============================================================================
