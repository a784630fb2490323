------------------------------ MODULE Registry ------------------------------
(***************************************************************************)
(* internal/provider/registry.go as a concurrent program: requests that    *)
(* look models up, miss, and refresh through a singleflight group, and the *)
(* background ticker, which refreshes without it.                          *)
(*                                                                         *)
(* A refresh asks the providers one after the other and then replaces the  *)
(* table under the lock.  The table is kept as what each provider          *)
(* contributed to it: by RoutedToItsServers of the module RoutingTable,    *)
(* that is all a lookup of a name depends on.  A provider whose Models     *)
(* call fails and one that lists nothing contribute the same, nothing.     *)
(***************************************************************************)
EXTENDS Integers, FiniteSets

CONSTANTS
  Reqs,       \* the requests, one goroutine each
  Models,     \* the model names
  N,          \* the number of registered providers
  Ticker,     \* the background goroutine of Start
  HasTicker,  \* does the ticker fire
  MayCancel   \* may clients go away

ASSUME RegistryAssumption ==
  /\ N \in Nat
  /\ Ticker \notin Reqs
  /\ HasTicker \in BOOLEAN /\ MayCancel \in BOOLEAN

Providers == 1 .. N            \* in the order of Register
Tasks == Reqs \cup {Ticker}    \* what may run refresh

VARIABLES
  serves,   \* the models each upstream would list now
  table,    \* the models of each provider in the registry's fields
  pc,       \* where each request and the ticker stand
  wanted,   \* the model each request asks for
  ctxDone,  \* is the request's context cancelled
  flight,   \* the request leading the singleflight call, or NoFlight
  follows,  \* the call each waiting request joined
  ended,    \* the leaders whose call is over
  built,    \* refresh's new table
  next,     \* the provider refresh asks next
  steady,   \* history: who has served wanted[r] ever since r missed
  always,   \* history: what was listed at the start and served ever since
  crossed   \* history: the requests that a refresh of the ticker overlaps

upstreams == <<serves, steady, always>>
group == <<flight, follows, ended>>
locals == <<built, next>>
vars == <<upstreams, table, pc, wanted, ctxDone, group, locals, crossed>>

NoFlight == Ticker   \* the ticker never leads a call
Nothing == [p \in Providers |-> {}]

Locations == {"idle", "missed", "waiting", "fetching", "leaving", "again", "found",
              "notFound"}

Goto(t, l) == pc' = [pc EXCEPT ![t] = l]

(* After the refresh of Start, which has asked every provider once. *)
Init ==
  /\ serves \in [Providers -> SUBSET Models]
  /\ table \in [Providers -> SUBSET Models]
  /\ pc = [t \in Tasks |-> "idle"]
  /\ wanted \in [Reqs -> Models]
  /\ ctxDone = [r \in Reqs |-> FALSE]
  /\ flight = NoFlight
  /\ follows = [r \in Reqs |-> NoFlight]
  /\ ended = {}
  /\ built = [t \in Tasks |-> Nothing]
  /\ next = [t \in Tasks |-> 1]
  /\ steady = [r \in Reqs |-> {}]
  /\ always = [p \in Providers |-> serves[p] \cap table[p]]
  /\ crossed = {}

-----------------------------------------------------------------------------
(* CandidatesFor under the read lock.                                      *)

Routable(m) == \E p \in Providers : m \in table[p]

Lookup(r) ==
  /\ pc[r] = "idle"
  /\ \/ Routable(wanted[r]) /\ Goto(r, "found") /\ UNCHANGED steady
     \/ /\ ~Routable(wanted[r])
        /\ Goto(r, "missed")
        /\ steady' = [steady EXCEPT ![r] = {p \in Providers : wanted[r] \in serves[p]}]
  /\ crossed' = IF pc[Ticker] = "fetching" THEN crossed \cup {r} ELSE crossed \ {r}
  /\ UNCHANGED <<serves, always, table, wanted, ctxDone, group, locals>>

LookupAgain(r) ==
  /\ pc[r] = "again"
  /\ Goto(r, IF Routable(wanted[r]) THEN "found" ELSE "notFound")
  /\ UNCHANGED <<upstreams, table, wanted, ctxDone, group, locals, crossed>>

-----------------------------------------------------------------------------
(* Refresh: singleflight.Group.Do around refresh, with the context of the  *)
(* request that leads the call.                                            *)

StartFetch(t) == Goto(t, "fetching") /\ UNCHANGED locals

(* Slip: every miss starts a refresh of its own. *)
LeadAlways(r) ==
  /\ pc[r] = "missed"
  /\ flight' = r
  /\ StartFetch(r)
  /\ UNCHANGED <<upstreams, table, wanted, ctxDone, follows, ended, crossed>>

Lead(r) ==
  /\ pc[r] = "missed"
  /\ flight = NoFlight
  /\ flight' = r
  /\ StartFetch(r)
  /\ UNCHANGED <<upstreams, table, wanted, ctxDone, follows, ended, crossed>>

Join(r) ==
  /\ pc[r] = "missed"
  /\ flight # NoFlight
  /\ follows' = [follows EXCEPT ![r] = flight]
  /\ Goto(r, "waiting")
  /\ UNCHANGED <<upstreams, table, wanted, ctxDone, flight, ended, locals, crossed>>

(* doCall's deferred part: wake the waiters and forget the call. *)
EndCall(r) ==
  /\ pc[r] = "leaving"
  /\ flight' = NoFlight
  /\ ended' = ended \cup {r}
  /\ Goto(r, "again")
  /\ UNCHANGED <<upstreams, table, wanted, ctxDone, follows, locals, crossed>>

Wake(r) ==
  /\ pc[r] = "waiting"
  /\ follows[r] \in ended
  /\ Goto(r, "again")
  /\ UNCHANGED <<upstreams, table, wanted, ctxDone, group, locals, crossed>>

-----------------------------------------------------------------------------
(* refresh: one Models call per provider, skipped when it fails, and then  *)
(* the swap.  A call made with a cancelled context fails.                  *)

(* Slip: refresh detaches itself from the request's context. *)
LiveDetached(t) == TRUE

Live(t) == t = Ticker \/ ~ctxDone[t]

(* Slip: a provider's list is merged into the next provider's place. *)
FetchShifted(t) ==
  /\ pc[t] = "fetching" /\ next[t] <= N
  /\ built' = [built EXCEPT ![t][next[t]] =
                 IF Live(t) /\ next[t] > 1 THEN serves[next[t] - 1] ELSE {}]
  /\ next' = [next EXCEPT ![t] = @ + 1]
  /\ UNCHANGED <<upstreams, table, pc, wanted, ctxDone, group, crossed>>

Fetch(t) ==
  /\ pc[t] = "fetching" /\ next[t] <= N
  /\ built' = [built EXCEPT ![t][next[t]] = IF Live(t) THEN serves[next[t]] ELSE {}]
  /\ next' = [next EXCEPT ![t] = @ + 1]
  /\ UNCHANGED <<upstreams, table, pc, wanted, ctxDone, group, crossed>>

(* refresh's local variables end with the call. *)
Reset(t) ==
  /\ built' = [built EXCEPT ![t] = Nothing]
  /\ next' = [next EXCEPT ![t] = 1]

(* Slip: the swap may come before the last provider has answered. *)
InstallEarly(t) ==
  /\ pc[t] = "fetching" /\ next[t] >= N
  /\ table' = built[t]
  /\ Goto(t, IF t = Ticker THEN "idle" ELSE "leaving")
  /\ Reset(t)
  /\ UNCHANGED <<upstreams, wanted, ctxDone, group, crossed>>

Install(t) ==
  /\ pc[t] = "fetching" /\ next[t] > N
  /\ table' = built[t]
  /\ Goto(t, IF t = Ticker THEN "idle" ELSE "leaving")
  /\ Reset(t)
  /\ UNCHANGED <<upstreams, wanted, ctxDone, group, crossed>>

(* <-ticker.C *)
Tick ==
  /\ HasTicker
  /\ pc[Ticker] = "idle"
  /\ StartFetch(Ticker)
  /\ crossed' = Reqs
  /\ UNCHANGED <<upstreams, table, wanted, ctxDone, group>>

-----------------------------------------------------------------------------
(* Environment: upstreams load and drop models or fail, clients leave.     *)

Relist(p) ==
  /\ \E ms \in SUBSET Models : serves' = [serves EXCEPT ![p] = ms]
  /\ steady' = [r \in Reqs |-> {q \in steady[r] : wanted[r] \in serves'[q]}]
  /\ always' = [q \in Providers |-> always[q] \cap serves'[q]]
  /\ UNCHANGED <<table, pc, wanted, ctxDone, group, locals, crossed>>

Cancel(r) ==
  /\ MayCancel
  /\ ~ctxDone[r]
  /\ ctxDone' = [ctxDone EXCEPT ![r] = TRUE]
  /\ UNCHANGED <<upstreams, table, pc, wanted, group, locals, crossed>>

Handler(r) == Lookup(r) \/ Lead(r) \/ Join(r) \/ EndCall(r) \/ Wake(r) \/ LookupAgain(r)
refresh(t) == Fetch(t) \/ Install(t)

Next ==
  \/ \E r \in Reqs : Handler(r) \/ Cancel(r)
  \/ \E t \in Tasks : refresh(t)
  \/ Tick
  \/ \E p \in Providers : Relist(p)

(* Goroutines are scheduled, and a Models call whose context is cancelled  *)
(* returns.  Nothing obliges an upstream to answer, since refresh sets no  *)
(* deadline, the ticker to fire or a client to leave.                      *)
Fairness ==
  /\ \A r \in Reqs : WF_vars(Handler(r))
  /\ \A t \in Tasks : WF_vars(Install(t)) /\ WF_vars(~Live(t) /\ Fetch(t))

Spec == Init /\ [][Next]_vars
FairSpec == Spec /\ Fairness

-----------------------------------------------------------------------------
(* Properties                                                              *)

TypeOK ==
  /\ serves \in [Providers -> SUBSET Models]
  /\ table \in [Providers -> SUBSET Models]
  /\ pc \in [Tasks -> Locations]
  /\ wanted \in [Reqs -> Models]
  /\ ctxDone \in [Reqs -> BOOLEAN]
  /\ flight \in Tasks
  /\ follows \in [Reqs -> Tasks]
  /\ ended \in SUBSET Reqs
  /\ built \in [Tasks -> [Providers -> SUBSET Models]]
  /\ next \in [Tasks -> 1 .. N + 1]
  /\ steady \in [Reqs -> SUBSET Providers]
  /\ always \in [Providers -> SUBSET Models]
  /\ crossed \in SUBSET Reqs

(* A request is asking the upstreams, or has just replaced the table. *)
Leading(r) == pc[r] \in {"fetching", "leaving"}

(* registry.go:100-101: concurrent misses coalesce.  Exactly the leader of *)
(* the current call is refreshing, and every waiter waits for that call or *)
(* for one that is over: it can always be woken.                           *)
OneFlight ==
  /\ TypeOK
  /\ \A r \in Reqs : Leading(r) <=> flight = r
  /\ \A r \in Reqs : pc[r] = "waiting" => follows[r] \in ended \cup ({flight} \ {NoFlight})

NoneLeft == \A r \in Reqs : ~ctxDone[r]

(* As long as no client leaves, no refresh takes a model away that its     *)
(* provider has been serving all along, whichever refreshes overlap        *)
(* (registry.go:109-110).                                                  *)
HealthyKept == NoneLeft => \A p \in Providers : always[p] \subseteq table[p]

(* A request that led its refresh itself, with no refresh of the ticker    *)
(* in between, answers "model not found" only if no provider has served    *)
(* the model ever since the request missed it (config.md:116-118).         *)
LeaderMissHonest ==
  NoneLeft => \A r \in Reqs \ crossed :
                pc[r] = "notFound" /\ r \in ended => steady[r] = {}

(* r leads a refresh that waits for an upstream, and its client waits.     *)
Asking(r) == pc[r] = "fetching" /\ next[r] <= N /\ ~ctxDone[r]

(* A miss is answered, the leader's and everybody else's, unless an        *)
(* upstream keeps a leader waiting for ever whose client does not leave    *)
(* either (registry.go:102-107 and 119): a client that leaves frees those  *)
(* that joined its call, and a refresh of the ticker that hangs holds      *)
(* nobody up.                                                              *)
LookupAnswered ==
  (\A r \in Reqs : []<>~Asking(r))
    => \A r \in Reqs : pc[r] = "missed" ~> pc[r] \in {"found", "notFound"}

-----------------------------------------------------------------------------
(* What the documentation says and the code does not do.                   *)

(* registry.go:109-110: "Providers that fail are logged and skipped; the   *)
(* rest remain available".                                                 *)
HealthyStaysListed == \A p \in Providers : always[p] \subseteq table[p]
=============================================================================
