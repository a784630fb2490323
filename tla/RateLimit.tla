------------------------------ MODULE RateLimit ------------------------------
(***************************************************************************)
(* internal/server/ratelimit.go: the rate limiter in front of all          *)
(* handlers, one bucket for everybody or one for every caller.             *)
(*                                                                         *)
(* A request takes two steps: it finds or makes its caller's bucket under  *)
(* the map's mutex, evicting idle entries when the map is full, and then   *)
(* takes from the bucket, which other requests may hold too and which the  *)
(* map may have dropped by then.                                           *)
(*                                                                         *)
(* A bucket (golang.org/x/time/rate, external) holds Burst tokens at most  *)
(* and gains one in Interval ticks; credit is counted in ticks.  A bucket  *)
(* is known by the request that made it.                                   *)
(***************************************************************************)
EXTENDS Integers, Sequences, FiniteSets, Functions

CONSTANTS
  Requests,       \* each is made once
  Headers,        \* the headers a request may carry
  None,           \* a header that is missing or blank
  Shared,         \* the bucket of the global limiter
  Burst,          \* capacity of a bucket, in tokens
  Interval,       \* 1/rps, in ticks
  IdleTicks,      \* the ten minutes after which an entry is stale
  Delay,          \* how far apart a prompt request's two steps may be, in ticks
  MaxEntries,     \* maxCallerEntries
  MaxTime         \* bound on the clock

ASSUME RateLimitAssumption ==
  /\ Shared \notin Requests
  /\ Burst \in Nat \ {0} /\ Interval \in Nat \ {0}
  /\ IdleTicks \in Nat /\ Delay \in Nat
  /\ MaxEntries \in Nat \ {0} /\ MaxTime \in Nat
  /\ \A h \in Headers : h.host # None  \* RemoteAddr names somebody

VARIABLES
  now,
  cfg,       \* per_caller and trust_proxy
  limiters,  \* caller key -> bucket and time of last use
  credit,    \* bucket -> what was left in it, and when
  pc,
  header, lim, at,  \* of each request: its headers, its bucket, when it came or was served
  untracked, \* the buckets that were not kept
  prompt     \* (history) no request has spent more than Delay between its steps

request == <<header, lim, at>>
vars == <<now, cfg, limiters, credit, pc, request, untracked, prompt>>

(* Burst tokens, in ticks *)
Cap == Burst * Interval

Full(t) == [left |-> Cap, last |-> t]
Buckets == Requests \cup {Shared}

Init ==
  /\ now = 0
  /\ cfg \in [perCaller : BOOLEAN, trustProxy : BOOLEAN]
  /\ limiters = [k \in {} |-> k]
  /\ credit = [b \in Buckets |-> Full(0)]
  /\ pc = [r \in Requests |-> "idle"]
  /\ header = [r \in Requests |-> None]
  /\ lim = [r \in Requests |-> Shared]
  /\ at = [r \in Requests |-> 0]
  /\ untracked = {}
  /\ prompt = TRUE

-----------------------------------------------------------------------------

(* Slip: one bucket for an address, whoever is behind it. *)
callerKeyByAddress(h) == h.host

callerKey(h) ==
  IF h.auth # None THEN h.auth
  ELSE IF cfg.trustProxy /\ h.forwarded # None THEN h.forwarded
  ELSE IF cfg.trustProxy /\ h.real # None THEN h.real
  ELSE h.host

Arrives(r, h, b) ==
  /\ pc[r] = "idle"
  /\ pc' = [pc EXCEPT ![r] = "admission"]
  /\ header' = [header EXCEPT ![r] = h]
  /\ lim' = [lim EXCEPT ![r] = b]
  /\ at' = [at EXCEPT ![r] = now]

globalLimiter(r) ==
  /\ ~cfg.perCaller
  /\ Arrives(r, None, Shared)
  /\ UNCHANGED <<now, cfg, limiters, credit, untracked, prompt>>

Tracked(h) == callerKey(h) \in DOMAIN limiters

(* Slip: the entry's time of last use stays as it is. *)
KnownNotTouched(r, h) ==
  /\ cfg.perCaller /\ Tracked(h)
  /\ Arrives(r, h, limiters[callerKey(h)].bucket)
  /\ UNCHANGED <<now, cfg, limiters, credit, untracked, prompt>>

Known(r, h) ==
  /\ cfg.perCaller /\ Tracked(h)
  /\ Arrives(r, h, limiters[callerKey(h)].bucket)
  /\ limiters' = [limiters EXCEPT ![callerKey(h)].lastUse = now]
  /\ UNCHANGED <<now, cfg, credit, untracked, prompt>>

Stale(k) == limiters[k].lastUse < now - IdleTicks

(* Slip: off by one. *)
OverCap(keys) == Cardinality(keys) > MaxEntries

AtCap(keys) == Cardinality(keys) >= MaxEntries

Kept == IF AtCap(DOMAIN limiters) THEN {k \in DOMAIN limiters : ~Stale(k)}
        ELSE DOMAIN limiters

(* A new caller: idle entries go if the map is full, and if it still is    *)
(* the bucket is made but not kept.                                        *)
NewCaller(r, h) ==
  /\ cfg.perCaller /\ ~Tracked(h)
  /\ Arrives(r, h, r)
  /\ credit' = [credit EXCEPT ![r] = Full(now)]
  /\ IF AtCap(Kept)
     THEN /\ limiters' = Restrict(limiters, Kept)
          /\ untracked' = untracked \cup {r}
     ELSE /\ limiters' = [k \in Kept \cup {callerKey(h)} |->
                            IF k \in Kept THEN limiters[k]
                            ELSE [bucket |-> r, lastUse |-> now]]
          /\ UNCHANGED untracked
  /\ UNCHANGED <<now, cfg, prompt>>

Credit(b) ==
  LET c == credit[b].left + (now - credit[b].last)
  IN  IF c < Cap THEN c ELSE Cap

(* next.ServeHTTP *)
Allow(r) ==
  /\ pc[r] = "admission" /\ Credit(lim[r]) >= Interval
  /\ credit' = [credit EXCEPT ![lim[r]] =
                  [left |-> Credit(lim[r]) - Interval, last |-> now]]
  /\ pc' = [pc EXCEPT ![r] = "served"]
  /\ at' = [at EXCEPT ![r] = now]
  /\ UNCHANGED <<now, cfg, limiters, header, lim, untracked, prompt>>

(* 429 *)
Refuse(r) ==
  /\ pc[r] = "admission" /\ Credit(lim[r]) < Interval
  /\ pc' = [pc EXCEPT ![r] = "refused"]
  /\ UNCHANGED <<now, cfg, limiters, credit, request, untracked, prompt>>

Tick ==
  /\ now < MaxTime
  /\ now' = now + 1
  /\ prompt' = (prompt /\ \A r \in Requests : pc[r] = "admission" => now < at[r] + Delay)
  /\ UNCHANGED <<cfg, limiters, credit, pc, request, untracked>>

perCallerLimiter(r) ==
  \E h \in Headers : Known(r, h) \/ NewCaller(r, h)

Next ==
  \/ \E r \in Requests :
       \/ globalLimiter(r) \/ perCallerLimiter(r) \/ Allow(r) \/ Refuse(r)
  \/ Tick

Spec == Init /\ [][Next]_vars

-----------------------------------------------------------------------------
(* Properties                                                              *)

(* Whom config.md:48 limits together: everybody, or those with the same    *)
(* Authorization value and, without one, the same address, about which     *)
(* only a trusted proxy is believed.                                       *)
Caller(r) ==
  LET h == header[r]
      claimed(name) == IF cfg.trustProxy THEN name ELSE None
      names == <<h.auth, claimed(h.forwarded), claimed(h.real), h.host>>
      first == CHOOSE i \in 1..4 : names[i] # None /\ \A j \in 1..(i - 1) : names[j] = None
  IN  IF cfg.perCaller THEN names[first] ELSE Shared

Served == {r \in Requests : pc[r] = "served" /\ lim[r] \notin untracked}
Admitted(r) == {q \in Served : Caller(q) = Caller(r)}

(* The price of what was served from time t to time u of those who share   *)
(* k: a bucket, or a caller.                                               *)
Spent(share, k, t, u) ==
  Cardinality({q \in Served : share[q] = k /\ at[q] \in t..u}) * Interval

callers == [q \in Served |-> Caller(q)]

WithinRate(share) ==
  \A first, last \in Served :
    share[first] = share[last] /\ at[first] <= at[last] =>
      Spent(share, share[first], at[first], at[last]) <= Cap + (at[last] - at[first])

(* No bucket is idle for ten minutes before it is full again, and no       *)
(* request was slower between its steps than Delay.  The code sees to      *)
(* neither: the configuration may ask for a slower refill.                 *)
Refills == IdleTicks >= Cap + Delay /\ prompt

(* Nobody is ever served more through one bucket than rps and burst allow, *)
(* over any stretch of time: not by requests that arrive at once, and not  *)
(* when the map has dropped the bucket while a request held it.  And where *)
(* buckets refill in time, no caller is over all of its buckets: an        *)
(* eviction does not give it a second burst.                               *)
RateKept ==
  /\ WithinRate(lim)
  /\ Refills => WithinRate(callers)

(* It is refused only when serving it would have gone beyond that: other   *)
(* callers cost it nothing, nor do evictions, early ones included, and     *)
(* requests that were refused before.                                      *)
RefusedOnlyOverRate ==
  [][\A r \in Requests : pc[r] = "admission" /\ pc'[r] = "refused" =>
       \E first \in Admitted(r) :
         Spent(callers, Caller(r), at[first], now) + Interval > Cap + (now - at[first])]_vars

(* However many callers there are, the map does not grow beyond its cap. *)
MapBounded == Cardinality(DOMAIN limiters) <= MaxEntries
=============================================================================
