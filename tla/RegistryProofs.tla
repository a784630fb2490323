--------------------------- MODULE RegistryProofs ---------------------------
(***************************************************************************)
(* Theorems about the module Registry, for any number of requests,         *)
(* providers and models.                                                   *)
(***************************************************************************)
EXTENDS Registry, TLAPS

-----------------------------------------------------------------------------
(* Singleflight: OneFlight is inductive as it stands.                      *)

(* Nobody refreshes at first. *)
LEMMA FlightInit == Init => OneFlight
BY RegistryAssumption DEF Init, OneFlight, TypeOK, Leading, Locations, Tasks,
   NoFlight, Nothing, Providers

(* Every step keeps one flight at most. *)
LEMMA FlightStep == OneFlight /\ [Next]_vars => OneFlight'
<1> SUFFICES ASSUME OneFlight, [Next]_vars PROVE OneFlight'
  OBVIOUS
<1> USE RegistryAssumption DEF OneFlight, TypeOK, Leading, Locations, Tasks,
        NoFlight, Nothing, Providers, Goto, upstreams, group, locals
<1>1. ASSUME NEW r \in Reqs, Lookup(r) PROVE OneFlight'
  <2>1. steady' \in [Reqs -> SUBSET Providers]
    <3>1. CASE UNCHANGED steady
      BY <3>1
    <3>2. CASE steady' = [steady EXCEPT ![r] = {p \in Providers : wanted[r] \in serves[p]}]
      BY <3>2
    <3> QED
      BY <1>1, <3>1, <3>2 DEF Lookup
  <2>2. pc' \in {[pc EXCEPT ![r] = "found"], [pc EXCEPT ![r] = "missed"]} /\ pc[r] = "idle"
    BY <1>1 DEF Lookup
  <2>3. UNCHANGED <<serves, always, table, wanted, ctxDone, group, locals>>
        /\ crossed' \in SUBSET Reqs
    BY <1>1 DEF Lookup
  <2>4. pc' \in [Tasks -> Locations]
    <3>1. CASE pc' = [pc EXCEPT ![r] = "found"]
      BY <3>1
    <3>2. CASE pc' = [pc EXCEPT ![r] = "missed"]
      BY <3>2
    <3> QED
      BY <2>2, <3>1, <3>2
  <2>5. TypeOK'
    BY <2>1, <2>3, <2>4
  <2>6. \A q \in Reqs : q # r => pc'[q] = pc[q]
    BY <2>2
  <2>7. pc'[r] \in {"found", "missed"}
    BY <2>2
  <2> QED
    BY <2>2, <2>3, <2>5, <2>6, <2>7
<1>2. ASSUME NEW r \in Reqs, Lead(r) PROVE OneFlight'
  <2>1. TypeOK'
    BY <1>2 DEF Lead, StartFetch
  <2>2. \A q \in Reqs : pc'[q] = IF q = r THEN "fetching" ELSE pc[q]
    BY <1>2 DEF Lead, StartFetch
  <2>3. flight' = r /\ flight = NoFlight /\ UNCHANGED <<follows, ended>>
    BY <1>2 DEF Lead
  <2>4. \A q \in Reqs : Leading(q)' <=> flight' = q
    BY <2>2, <2>3
  <2>5. \A q \in Reqs : pc'[q] = "waiting" => follows'[q] \in ended'
    BY <2>2, <2>3
  <2> QED
    BY <2>1, <2>4, <2>5
<1>3. ASSUME NEW r \in Reqs, Join(r) PROVE OneFlight'
  BY <1>3 DEF Join
<1>4. ASSUME NEW r \in Reqs, EndCall(r) PROVE OneFlight'
  BY <1>4 DEF EndCall
<1>5. ASSUME NEW r \in Reqs, Wake(r) PROVE OneFlight'
  BY <1>5 DEF Wake
<1>6. ASSUME NEW r \in Reqs, LookupAgain(r) PROVE OneFlight'
  BY <1>6 DEF LookupAgain
<1>7. ASSUME NEW r \in Reqs, Cancel(r) PROVE OneFlight'
  BY <1>7 DEF Cancel
<1>8. ASSUME NEW t \in Tasks, Fetch(t) PROVE OneFlight'
  BY <1>8 DEF Fetch
<1>9. ASSUME NEW t \in Tasks, Install(t) PROVE OneFlight'
  BY <1>9 DEF Install, Reset
<1>10. CASE Tick
  BY <1>10 DEF Tick, StartFetch
<1>11. ASSUME NEW p \in Providers, Relist(p) PROVE OneFlight'
  BY <1>11 DEF Relist
<1>12. CASE UNCHANGED vars
  BY <1>12 DEF vars
<1> QED
  BY <1>1, <1>2, <1>3, <1>4, <1>5, <1>6, <1>7, <1>8, <1>9, <1>10, <1>11, <1>12
     DEF Next, Handler, refresh

(* At most one request refreshes at a time and no waiter is orphaned.      *)
THEOREM FlightCorrect == Spec => []OneFlight
BY FlightInit, FlightStep, PTL DEF Spec

-----------------------------------------------------------------------------
(* Cancel alone touches the contexts, and it takes NoneLeft away.           *)

(* Who has not left has not been cancelled. *)
LEMMA Staying == TypeOK /\ [Next]_vars /\ NoneLeft' => NoneLeft /\ UNCHANGED ctxDone
<1> SUFFICES ASSUME TypeOK, [Next]_vars, NoneLeft' PROVE NoneLeft /\ UNCHANGED ctxDone
  OBVIOUS
<1>1. ASSUME NEW r \in Reqs, Cancel(r) PROVE FALSE
  <2>1. ctxDone'[r]
    BY <1>1 DEF Cancel, TypeOK
  <2> QED
    BY <2>1 DEF NoneLeft
<1>2. ASSUME NEW r \in Reqs, Handler(r) PROVE UNCHANGED ctxDone
  BY <1>2 DEF Handler, Lookup, Lead, Join, EndCall, Wake, LookupAgain
<1>3. ASSUME NEW t \in Tasks, refresh(t) PROVE UNCHANGED ctxDone
  BY <1>3 DEF refresh, Fetch, Install
<1>4. ASSUME NEW p \in Providers, Relist(p) PROVE UNCHANGED ctxDone
  BY <1>4 DEF Relist
<1>5. Tick \/ UNCHANGED vars => UNCHANGED ctxDone
  BY DEF Tick, vars
<1>6. UNCHANGED ctxDone
  BY <1>1, <1>2, <1>3, <1>4, <1>5 DEF Next
<1> QED
  BY <1>6 DEF NoneLeft

-----------------------------------------------------------------------------
(* What every provider has served all along goes into every new table: it  *)
(* is in what a refresh has collected so far.                              *)

Healthy ==
  /\ \A p \in Providers : always[p] \subseteq serves[p] /\ always[p] \subseteq table[p]
  /\ \A t \in Tasks, p \in Providers : p < next[t] => always[p] \subseteq built[t][p]

HealthyInv == NoneLeft => Healthy

(* It holds at first. *)
LEMMA HealthyInit == Init => HealthyInv
BY RegistryAssumption DEF Init, HealthyInv, Healthy, Nothing, Providers, Tasks

(* Every step keeps it. *)
LEMMA HealthyStep == OneFlight /\ HealthyInv /\ [Next]_vars => HealthyInv'
<1> SUFFICES ASSUME OneFlight, HealthyInv, [Next]_vars, NoneLeft' PROVE Healthy'
  BY DEF HealthyInv
<1>0. TypeOK
  BY DEF OneFlight
<1>a. NoneLeft /\ UNCHANGED ctxDone
  BY <1>0, Staying
<1>b. Healthy
  BY <1>a DEF HealthyInv
<1> USE RegistryAssumption, <1>a, <1>b DEF Healthy
<1> DEFINE Quiet == UNCHANGED <<serves, always, table, ctxDone, locals>>
<1>1. CASE Quiet
  BY <1>1 DEF locals
<1>2. ASSUME NEW r \in Reqs, Handler(r) PROVE Quiet
  BY <1>2 DEF Handler, Lookup, Lead, Join, EndCall, Wake, LookupAgain, StartFetch,
     upstreams, group, locals
<1>3. ASSUME NEW t \in Tasks, Fetch(t) PROVE Healthy'
  <2>1. UNCHANGED <<serves, always, table, ctxDone>> /\ next[t] \in Providers
    BY <1>3, <1>0 DEF Fetch, upstreams, TypeOK, Providers
  <2>2. built' = [built EXCEPT ![t][next[t]] = serves[next[t]]]
    BY <1>3 DEF Fetch, Live, Tasks, NoneLeft
  <2>3. next' = [next EXCEPT ![t] = next[t] + 1]
    BY <1>3 DEF Fetch
  <2>4. ASSUME NEW u \in Tasks, NEW p \in Providers, p < next'[u]
        PROVE  always[p] \subseteq built'[u][p]
    <3>1. CASE u = t /\ p = next[t]
      BY <3>1, <2>1, <2>2, <1>0 DEF TypeOK
    <3>2. CASE ~(u = t /\ p = next[t])
      <4>1. built'[u][p] = built[u][p]
        BY <3>2, <2>1, <2>2, <1>0 DEF TypeOK
      <4>2. p < next[u]
        BY <3>2, <2>1, <2>3, <2>4, <1>0 DEF TypeOK, Providers
      <4> QED
        BY <4>1, <4>2
    <3> QED
      BY <3>1, <3>2
  <2> QED
    BY <2>1, <2>4
<1>4. ASSUME NEW t \in Tasks, Install(t) PROVE Healthy'
  <2>1. UNCHANGED <<serves, always, ctxDone>> /\ table' = built[t]
    BY <1>4 DEF Install, upstreams
  <2>2. \A p \in Providers : p < next[t]
    BY <1>4, <1>0 DEF Install, TypeOK, Providers
  <2>3. \A u \in Tasks, p \in Providers :
          p < next'[u] => p < next[u] /\ built'[u][p] = built[u][p]
    BY <1>4, <1>0 DEF Install, Reset, TypeOK, Providers
  <2> QED
    BY <2>1, <2>2, <2>3
<1>5. CASE Tick
  BY <1>5, <1>1 DEF Tick, StartFetch, upstreams, locals
<1>6. ASSUME NEW p \in Providers, Relist(p) PROVE Healthy'
  <2>1. UNCHANGED <<table, ctxDone, locals>>
    BY <1>6 DEF Relist
  <2>2. \A q \in Providers : always'[q] = always[q] \cap serves'[q]
    BY <1>6 DEF Relist
  <2> QED
    BY <2>1, <2>2 DEF locals
<1>7. ASSUME NEW r \in Reqs, Cancel(r) PROVE FALSE
  <2>1. ctxDone'[r]
    BY <1>7, <1>0 DEF Cancel, TypeOK
  <2> QED
    BY <2>1 DEF NoneLeft
<1>8. UNCHANGED vars => Quiet
  BY DEF vars, upstreams
<1> HIDE DEF Quiet
<1> QED
  BY <1>1, <1>2, <1>3, <1>4, <1>5, <1>6, <1>7, <1>8 DEF Next, refresh

(* As long as clients do not leave, no refresh loses a model of a provider *)
(* that has been serving it, whichever refreshes overlap.                  *)
THEOREM HealthyCorrect == Spec => []HealthyKept
<1>1. HealthyInv => HealthyKept
  BY DEF HealthyInv, Healthy, HealthyKept
<1> QED
  BY <1>1, FlightInit, FlightStep, HealthyInit, HealthyStep, PTL DEF Spec

-----------------------------------------------------------------------------
(* On-demand refreshes do not overlap each other, so that one that began   *)
(* after a request missed asks every provider after the miss; and a        *)
(* request that the ticker has not crossed finds the ticker idle.          *)
(* Owed(l, r): the answer of r depends on what the refresh of l collects.  *)

Owed(l, r) == r = l \/ (r \in ended /\ pc[r] = "again")

Calm ==
  /\ \A r \in Reqs \ crossed : pc[r] # "idle" => pc[Ticker] = "idle"
  /\ pc[Ticker] \in {"idle", "fetching"}
  /\ \A t \in Tasks : pc[t] # "fetching" => next[t] = 1
  /\ \A r \in ended : pc[r] \in {"again", "found", "notFound"}
SteadyServes ==
  \A r \in Reqs, p \in Providers : p \in steady[r] => wanted[r] \in serves[p]
BuiltOwed ==
  \A l, r \in Reqs, p \in Providers :
    pc[l] = "fetching" /\ Owed(l, r) /\ p \in steady[r] /\ p < next[l]
      => wanted[r] \in built[l][p]
TableOwed ==
  \A r \in Reqs \ crossed, p \in Providers :
    pc[r] = "leaving" \/ (r \in ended /\ pc[r] = "again")
      => (p \in steady[r] => wanted[r] \in table[p])
Denied ==
  \A r \in Reqs \ crossed : pc[r] = "notFound" /\ r \in ended => steady[r] = {}

Leader == Calm /\ SteadyServes /\ BuiltOwed /\ TableOwed /\ Denied
LeaderInv == NoneLeft => Leader

(* It holds at first. *)
LEMMA LeaderInit == Init => LeaderInv
BY RegistryAssumption DEF Init, LeaderInv, Leader, Calm, SteadyServes, BuiltOwed, TableOwed,
   Denied, Owed, Nothing, Providers, Tasks

(* Every step keeps it. *)
LEMMA LeaderStep == OneFlight /\ LeaderInv /\ [Next]_vars => LeaderInv'
<1> SUFFICES ASSUME OneFlight, LeaderInv, [Next]_vars, NoneLeft' PROVE Leader'
  BY DEF LeaderInv
<1>0. TypeOK
  BY DEF OneFlight
<1>a. NoneLeft /\ UNCHANGED ctxDone
  BY <1>0, Staying
<1>b. Leader
  BY <1>a DEF LeaderInv
<1> USE RegistryAssumption, <1>a, <1>b DEF Leader, Tasks
<1>1. ASSUME NEW r \in Reqs, Lookup(r) PROVE Leader'
  <2>1. UNCHANGED <<serves, table, wanted, ended, built, next>> /\ r \notin ended
    BY <1>1 DEF Lookup, group, locals, Calm
  <2>2. \A t \in Tasks : t # r => pc'[t] = pc[t]
    BY <1>1, <1>0 DEF Lookup, Goto, TypeOK
  <2>3. pc'[r] \in {"found", "missed"}
    BY <1>1, <1>0 DEF Lookup, Goto, TypeOK
  <2>4. \A q \in Reqs, p \in Providers :
          p \in steady'[q] => p \in steady[q] \/ (q = r /\ wanted[r] \in serves[p])
    <3>1. CASE UNCHANGED steady
      BY <3>1
    <3>2. CASE steady' = [steady EXCEPT ![r] = {p \in Providers : wanted[r] \in serves[p]}]
      BY <3>2, <1>0 DEF TypeOK
    <3> QED
      BY <1>1, <3>1, <3>2 DEF Lookup
  <2>5. \A q \in Reqs : q # r => steady'[q] = steady[q]
    <3>1. CASE UNCHANGED steady
      BY <3>1
    <3>2. CASE steady' = [steady EXCEPT ![r] = {p \in Providers : wanted[r] \in serves[p]}]
      BY <3>2, <1>0 DEF TypeOK
    <3> QED
      BY <1>1, <3>1, <3>2 DEF Lookup
  <2>6. pc[r] = "idle" /\ Ticker # r
        /\ (r \in Reqs \ crossed' => pc[Ticker] = "idle")
        /\ \A q \in Reqs : q # r => (q \in crossed' <=> q \in crossed)
    BY <1>1 DEF Lookup, Calm
  <2>7. Calm'
    BY <2>1, <2>2, <2>3, <2>4, <2>5, <2>6, <1>0 DEF Calm, TypeOK
  <2>8. SteadyServes'
    BY <2>1, <2>2, <2>3, <2>4, <2>5, <2>6 DEF SteadyServes
  <2>9. BuiltOwed'
    BY <2>1, <2>2, <2>3, <2>4, <2>5, <2>6 DEF BuiltOwed, Owed, Calm
  <2>10. TableOwed'
    BY <2>1, <2>2, <2>3, <2>4, <2>5, <2>6 DEF TableOwed, Calm
  <2>11. Denied'
    BY <2>1, <2>2, <2>3, <2>4, <2>5, <2>6 DEF Denied, Calm
  <2> QED
    BY <2>7, <2>8, <2>9, <2>10, <2>11
<1>2. ASSUME NEW r \in Reqs, Lead(r) PROVE Leader'
  <2>1. UNCHANGED <<serves, steady, table, wanted, ended, built, next, crossed>> /\ pc[r] = "missed"
    BY <1>2 DEF Lead, StartFetch, upstreams, locals
  <2>2. \A t \in Tasks : pc'[t] = IF t = r THEN "fetching" ELSE pc[t]
    BY <1>2, <1>0 DEF Lead, StartFetch, Goto, TypeOK
  <2>3. next[r] = 1
    BY <2>1 DEF Calm
  <2>4. Calm'
    BY <2>1, <2>2, <2>3, <1>0 DEF Calm, TypeOK, Providers
  <2>5. SteadyServes'
    BY <2>1, <2>2, <2>3 DEF SteadyServes, Providers
  <2>6. BuiltOwed'
    BY <2>1, <2>2, <2>3 DEF BuiltOwed, Owed, Calm, Providers
  <2>7. TableOwed'
    BY <2>1, <2>2, <2>3 DEF TableOwed, Calm, Providers
  <2>8. Denied'
    BY <2>1, <2>2, <2>3 DEF Denied, Calm, Providers
  <2> QED
    BY <2>4, <2>5, <2>6, <2>7, <2>8
<1>3. ASSUME NEW r \in Reqs, Join(r) \/ Wake(r) PROVE Leader'
  <2>1. UNCHANGED <<serves, steady, table, wanted, ended, built, next, crossed>>
    BY <1>3 DEF Join, Wake, upstreams, locals, group
  <2>2. pc[r] \in {"missed", "waiting"} /\ r \notin ended
    BY <1>3 DEF Join, Wake, Calm
  <2>3. \A t \in Tasks : t # r => pc'[t] = pc[t]
    BY <1>3, <1>0 DEF Join, Wake, Goto, TypeOK
  <2>4. pc'[r] \in {"waiting", "again"}
    BY <1>3, <1>0 DEF Join, Wake, Goto, TypeOK
  <2>5. Calm'
    BY <2>1, <2>2, <2>3, <2>4, <1>0 DEF Calm, TypeOK
  <2>6. SteadyServes'
    BY <2>1, <2>2, <2>3, <2>4 DEF SteadyServes
  <2>7. BuiltOwed'
    BY <2>1, <2>2, <2>3, <2>4 DEF BuiltOwed, Owed, Calm
  <2>8. TableOwed'
    BY <2>1, <2>2, <2>3, <2>4 DEF TableOwed, Calm
  <2>9. Denied'
    BY <2>1, <2>2, <2>3, <2>4 DEF Denied, Calm
  <2> QED
    BY <2>5, <2>6, <2>7, <2>8, <2>9
<1>4. ASSUME NEW r \in Reqs, EndCall(r) PROVE Leader'
  <2>1. UNCHANGED <<serves, steady, table, wanted, built, next, crossed>>
    BY <1>4 DEF EndCall, upstreams, locals
  <2>2. pc[r] = "leaving" /\ ended' = ended \cup {r}
    BY <1>4 DEF EndCall
  <2>3. \A t \in Tasks : pc'[t] = IF t = r THEN "again" ELSE pc[t]
    BY <1>4, <1>0 DEF EndCall, Goto, TypeOK
  <2>4. \A l \in Reqs : pc'[l] # "fetching"
    BY <2>2, <2>3 DEF OneFlight, Leading
  <2>5. Calm'
    BY <2>1, <2>2, <2>3, <2>4, <1>0 DEF Calm, TypeOK
  <2>6. SteadyServes'
    BY <2>1, <2>2, <2>3, <2>4 DEF SteadyServes
  <2>7. BuiltOwed'
    BY <2>1, <2>2, <2>3, <2>4 DEF BuiltOwed, Owed, Calm
  <2>8. TableOwed'
    BY <2>1, <2>2, <2>3, <2>4 DEF TableOwed, Calm
  <2>9. Denied'
    BY <2>1, <2>2, <2>3, <2>4 DEF Denied, Calm
  <2> QED
    BY <2>5, <2>6, <2>7, <2>8, <2>9
<1>5. ASSUME NEW r \in Reqs, LookupAgain(r) PROVE Leader'
  <2>1. UNCHANGED <<serves, steady, table, wanted, ended, built, next, crossed>>
    BY <1>5 DEF LookupAgain, upstreams, locals, group
  <2>2. \A t \in Tasks : t # r => pc'[t] = pc[t]
    BY <1>5, <1>0 DEF LookupAgain, Goto, TypeOK
  <2>3. pc[r] = "again" /\ pc'[r] \in {"found", "notFound"}
    BY <1>5, <1>0 DEF LookupAgain, Goto, TypeOK
  <2>4. pc'[r] = "notFound" /\ r \in ended \ crossed => steady[r] = {}
    <3>1. SUFFICES ASSUME pc'[r] = "notFound", r \in ended \ crossed PROVE steady[r] = {}
      OBVIOUS
    <3>2. ~Routable(wanted[r])
      BY <1>5, <1>0, <3>1 DEF LookupAgain, Goto, TypeOK
    <3>3. \A p \in Providers : p \notin steady[r]
      BY <2>3, <3>1, <3>2 DEF Routable, TableOwed
    <3> QED
      BY <3>3, <1>0 DEF TypeOK
  <2>5. Calm'
    BY <2>1, <2>2, <2>3, <2>4, <1>0 DEF Calm, TypeOK
  <2>6. SteadyServes'
    BY <2>1, <2>2, <2>3, <2>4 DEF SteadyServes
  <2>7. BuiltOwed'
    BY <2>1, <2>2, <2>3, <2>4 DEF BuiltOwed, Owed, Calm
  <2>8. TableOwed'
    BY <2>1, <2>2, <2>3, <2>4 DEF TableOwed, Calm
  <2>9. Denied'
    BY <2>1, <2>2, <2>3, <2>4 DEF Denied, Calm
  <2> QED
    BY <2>5, <2>6, <2>7, <2>8, <2>9
<1>6. ASSUME NEW t \in Tasks, Fetch(t) PROVE Leader'
  <2>1. UNCHANGED <<serves, steady, table, pc, wanted, ended, crossed>>
    BY <1>6 DEF Fetch, upstreams, group
  <2>2. pc[t] = "fetching" /\ next[t] \in Providers
    BY <1>6, <1>0 DEF Fetch, TypeOK, Providers
  <2>3. built' = [built EXCEPT ![t][next[t]] = serves[next[t]]]
    BY <1>6 DEF Fetch, Live, NoneLeft
  <2>4. next' = [next EXCEPT ![t] = next[t] + 1]
    BY <1>6 DEF Fetch
  <2>5. ASSUME NEW l \in Reqs, NEW r \in Reqs, NEW p \in Providers,
               pc[l] = "fetching", Owed(l, r), p \in steady[r], p < next'[l]
        PROVE  wanted[r] \in built'[l][p]
    <3>1. CASE l = t /\ p = next[t]
      BY <3>1, <2>2, <2>3, <2>5, <1>0 DEF TypeOK, SteadyServes
    <3>2. CASE ~(l = t /\ p = next[t])
      <4>1. built'[l][p] = built[l][p]
        BY <3>2, <2>2, <2>3, <1>0 DEF TypeOK
      <4>2. p < next[l]
        BY <3>2, <2>2, <2>4, <2>5, <1>0 DEF TypeOK, Providers
      <4> QED
        BY <4>1, <4>2, <2>5 DEF BuiltOwed
    <3> QED
      BY <3>1, <3>2
  <2>6. \A u \in Tasks : u # t => next'[u] = next[u]
    BY <2>4, <1>0 DEF TypeOK
  <2>7. Calm'
    BY <2>1, <2>2, <2>5, <2>6, <1>0 DEF Calm, TypeOK
  <2>8. SteadyServes'
    BY <2>1, <2>2, <2>5, <2>6 DEF SteadyServes
  <2>9. BuiltOwed'
    BY <2>1, <2>2, <2>5, <2>6 DEF BuiltOwed, Owed, Calm
  <2>10. TableOwed'
    BY <2>1, <2>2, <2>5, <2>6 DEF TableOwed, Calm
  <2>11. Denied'
    BY <2>1, <2>2, <2>5, <2>6 DEF Denied, Calm
  <2> QED
    BY <2>7, <2>8, <2>9, <2>10, <2>11
<1>7. ASSUME NEW t \in Reqs, Install(t) PROVE Leader'
  <2>1. UNCHANGED <<serves, steady, wanted, ended, crossed>> /\ table' = built[t]
    BY <1>7 DEF Install, upstreams, group
  <2>2. pc[t] = "fetching" /\ \A p \in Providers : p < next[t]
    BY <1>7, <1>0 DEF Install, TypeOK, Providers, Calm
  <2>3. \A u \in Tasks : pc'[u] = IF u = t THEN "leaving" ELSE pc[u]
    BY <1>7, <1>0, <2>2 DEF Install, Goto, TypeOK
  <2>4. \A l \in Reqs : l # t => ~Leading(l)
    BY <2>2 DEF OneFlight, Leading
  <2>5. \A u \in Tasks : next'[u] = IF u = t THEN 1 ELSE next[u]
    BY <1>7, <1>0 DEF Install, Reset, TypeOK
  <2>6. \A r \in Reqs, p \in Providers :
          pc'[r] = "leaving" \/ (r \in ended /\ pc'[r] = "again")
            => (p \in steady[r] => wanted[r] \in built[t][p])
    BY <2>2, <2>3, <2>4 DEF Leading, BuiltOwed, Owed
  <2>7. \A l \in Reqs : pc'[l] # "fetching"
    BY <2>3, <2>4 DEF Leading
  <2>8. \A r \in ended : pc'[r] = pc[r]
    BY <2>2, <2>3, <1>0 DEF TypeOK, Calm
  <2>9. Calm'
    BY <2>1, <2>2, <2>3, <2>5, <2>6, <2>7, <2>8, <1>0 DEF Calm, TypeOK
  <2>10. SteadyServes'
    BY <2>1, <2>2, <2>3, <2>5, <2>6, <2>7, <2>8 DEF SteadyServes
  <2>11. BuiltOwed'
    BY <2>1, <2>2, <2>3, <2>5, <2>6, <2>7, <2>8 DEF BuiltOwed, Owed, Calm
  <2>12. TableOwed'
    BY <2>1, <2>2, <2>3, <2>5, <2>6, <2>7, <2>8 DEF TableOwed, Calm
  <2>13. Denied'
    BY <2>1, <2>2, <2>3, <2>5, <2>6, <2>7, <2>8 DEF Denied, Calm
  <2> QED
    BY <2>9, <2>10, <2>11, <2>12, <2>13
<1>12. CASE Install(Ticker)
  <2>1. UNCHANGED <<serves, steady, wanted, ended, crossed>>
    BY <1>12 DEF Install, upstreams, group
  <2>2. \A r \in Reqs \ crossed : pc[r] = "idle"
    BY <1>12 DEF Install, Calm
  <2>3. \A u \in Tasks : pc'[u] = IF u = Ticker THEN "idle" ELSE pc[u]
    BY <1>12, <1>0 DEF Install, Goto, TypeOK
  <2>4. \A r \in Reqs : next'[r] = next[r] /\ built'[r] = built[r]
    BY <1>12, <1>0 DEF Install, Reset, TypeOK
  <2>5. next'[Ticker] = 1
    BY <1>12, <1>0 DEF Install, Reset, TypeOK
  <2>6. \A r \in Reqs : pc'[r] = pc[r]
    BY <2>3
  <2>7. Calm'
    BY <2>1, <2>2, <2>3, <2>4, <2>5, <1>0 DEF Calm, TypeOK
  <2>8. SteadyServes'
    BY <2>1 DEF SteadyServes
  <2>9. BuiltOwed'
    BY <2>1, <2>4, <2>6 DEF BuiltOwed, Owed
  <2>10. TableOwed'
    BY <2>1, <2>2, <2>6, <1>0 DEF TableOwed, TypeOK
  <2>11. Denied'
    BY <2>1, <2>2, <2>6 DEF Denied
  <2> QED
    BY <2>7, <2>8, <2>9, <2>10, <2>11
<1>8. CASE Tick
  <2>1. UNCHANGED <<serves, steady, table, wanted, ended, built, next>> /\ crossed' = Reqs
    BY <1>8 DEF Tick, StartFetch, upstreams, locals, group
  <2>2. \A u \in Tasks : pc'[u] = IF u = Ticker THEN "fetching" ELSE pc[u]
    BY <1>8, <1>0 DEF Tick, StartFetch, Goto, TypeOK
  <2>3. \A r \in Reqs : pc'[r] = pc[r]
    BY <2>2
  <2>4. Calm'
    BY <2>1, <2>2, <1>0 DEF Calm, TypeOK
  <2>5. SteadyServes'
    BY <2>1 DEF SteadyServes
  <2>6. BuiltOwed'
    BY <2>1, <2>3 DEF BuiltOwed, Owed
  <2>7. TableOwed' /\ Denied'
    BY <2>1 DEF TableOwed, Denied
  <2> QED
    BY <2>4, <2>5, <2>6, <2>7
<1>9. ASSUME NEW p \in Providers, Relist(p) PROVE Leader'
  <2>1. UNCHANGED <<table, pc, wanted, ended, built, next, crossed>>
    BY <1>9 DEF Relist, group, locals
  <2>2. \A r \in Reqs : steady'[r] = {q \in steady[r] : wanted[r] \in serves'[q]}
    BY <1>9 DEF Relist
  <2>3. \A r \in Reqs, q \in Providers :
          q \in steady'[r] => q \in steady[r] /\ wanted[r] \in serves'[q]
    BY <2>2
  <2>4. \A r \in Reqs : steady[r] = {} => steady'[r] = {}
    BY <2>2
  <2>5. Calm'
    BY <2>1, <2>3, <2>4, <1>0 DEF Calm, TypeOK
  <2>6. SteadyServes'
    BY <2>1, <2>3, <2>4 DEF SteadyServes
  <2>7. BuiltOwed'
    BY <2>1, <2>3, <2>4 DEF BuiltOwed, Owed, Calm
  <2>8. TableOwed'
    BY <2>1, <2>3, <2>4 DEF TableOwed, Calm
  <2>9. Denied'
    BY <2>1, <2>3, <2>4 DEF Denied, Calm
  <2> QED
    BY <2>5, <2>6, <2>7, <2>8, <2>9
<1>10. ASSUME NEW r \in Reqs, Cancel(r) PROVE FALSE
  <2>1. ctxDone'[r]
    BY <1>10, <1>0 DEF Cancel, TypeOK
  <2> QED
    BY <2>1 DEF NoneLeft
<1>11. CASE UNCHANGED vars
  BY <1>11 DEF vars, upstreams, group, locals, Calm, SteadyServes, BuiltOwed, TableOwed,
     Denied, Owed
<1> QED
  BY <1>1, <1>2, <1>3, <1>4, <1>5, <1>6, <1>7, <1>8, <1>9, <1>10, <1>11, <1>12
     DEF Next, Handler, refresh

(* A request that led its own refresh, uncrossed by the ticker, is         *)
(* answered "model not found" only about a model that every provider       *)
(* failed to serve at some time since the miss, as long as clients stay.   *)
THEOREM LeaderCorrect == Spec => []LeaderMissHonest
<1>1. LeaderInv => LeaderMissHonest
  BY DEF LeaderInv, Leader, Denied, LeaderMissHonest
<1> QED
  BY <1>1, FlightInit, FlightStep, LeaderInit, LeaderStep, PTL DEF Spec
=============================================================================
