------------------------------ MODULE Startup ------------------------------
(***************************************************************************)
(* cmd/gap/main.go: run, from the configuration to the end of the process. *)
(* It builds and registers the providers, lets the registry ask them for   *)
(* their models, derives the token budgets, listens, serves, and on a      *)
(* signal shuts down; the registry's refreshes, the upstreams, the clients *)
(* and the signals go on beside it.                                        *)
(*                                                                         *)
(* Each line of run that others may get in between of is a step of its     *)
(* own.  A refresh is one step (module Registry has its interleavings), a  *)
(* request begins and ends (ChatHandler has its course).  Wording, flags   *)
(* and the options of the server that are only passed on are left out.     *)
(***************************************************************************)
EXTENDS Discovery

CONSTANTS
  Deployments,  \* a function: a configuration and the upstreams it meets
  Budget,       \* Budget[p]: [set, default, models], the section token_budget
  Reqs,         \* the requests
  MaxSignals    \* bound on the signals sent

Kinds == {"openai", "anthropic", "litellm", "lmstudio", "llama-cpp", "vllm"}

(* conf[p] is the entry of p in the configuration, upstreams[p] the set of *)
(* answers its upstream may give, changes bounds how often they change.    *)
ASSUME StartupAssumption ==
  /\ \A d \in DOMAIN Deployments :
       /\ DOMAIN Deployments[d].conf = Providers
       /\ DOMAIN Deployments[d].upstreams = Providers
       /\ \A p \in Providers :
            /\ Deployments[d].conf[p].static \in Seq(Ids)
            /\ \A u \in Deployments[d].upstreams[p] :
                 Answered(u.plain, PlainEntry) /\ Answered(u.detail, DetailEntry)
       /\ Deployments[d].changes \in Nat
  /\ \A p \in Providers : DOMAIN Budget[p].models \subseteq Ids /\ Budget[p].default \in Nat
  /\ MaxSignals \in Nat

VARIABLES
  deployment,  \* which of Deployments this is
  upstream,    \* what each upstream answers now
  changes,     \* how often that changed
  phase,       \* where run stands
  outcome,     \* how the process ended
  built,       \* how many providers are registered
  primed,      \* the vLLM providers with primed set
  todo,        \* the models the budget loop still has to look up
  budget,      \* budgetModels
  stop,        \* the signals in the channel stop
  sent,        \* the signals sent so far
  drainer,     \* the goroutine that shuts the server down
  requests,    \* each request: none, active, done or cut
  asked,       \* history: the upstreams at the last refresh
  steady       \* history: the models whose first provider is the one the
               \* budget loop saw

registryVars == <<table, listed, asked>>
serverVars == <<stop, sent, drainer, requests>>
vars == <<deployment, upstream, changes, phase, outcome, built, primed, todo, budget,
          steady, registryVars, serverVars>>

conf == Deployments[deployment].conf

-----------------------------------------------------------------------------
Init ==
  /\ deployment \in DOMAIN Deployments
  /\ upstream \in {u \in [Providers -> UNION {Deployments[deployment].upstreams[p] : p \in Providers}] :
                     \A p \in Providers : u[p] \in Deployments[deployment].upstreams[p]}
  /\ changes = 0
  /\ phase = "load" /\ outcome = "none"
  /\ built = 0 /\ primed = {}
  /\ NewRegistry
  /\ asked = upstream
  /\ todo = <<>> /\ budget = <<>> /\ steady = {}
  /\ stop = 0 /\ sent = 0 /\ drainer = "none"
  /\ requests = [r \in Reqs |-> "none"]

(* run returns or the process is killed: whatever is in flight is cut.     *)
Exit(how) ==
  /\ phase' = "exited"
  /\ outcome' = how
  /\ requests' = [r \in Reqs |-> IF requests[r] = "active" THEN "cut" ELSE requests[r]]

loadConfig ==
  /\ phase = "load"
  /\ \/ phase' = "build" /\ UNCHANGED <<outcome, requests>>
     \/ Exit("error")
  /\ UNCHANGED <<deployment, upstream, changes, built, primed, todo, budget, steady,
                 registryVars, stop, sent, drainer>>

-----------------------------------------------------------------------------
(* Building the providers                                                  *)

buildAuthenticatorFails(c) ==
  \/ c.auth = "none"
  \/ c.auth = "api_key" /\ c.keys = 0
  \/ c.auth \notin {"api_key", "oauth"}

(* What is wrong with the entry of p, whatever the upstream says.          *)
entryRejected(p) ==
  LET c == conf[p]
  IN \/ c.kind \notin Kinds
     \/ c.insecure /\ c.kind = "anthropic"
     \/ c.kind = "anthropic" /\ buildAuthenticatorFails(c)
     \/ c.kind # "anthropic" /\ ~c.url
     \/ c.kind \in {"vllm", "llama-cpp"} /\ DOMAIN Overrides[p] = {}
     \/ c.kind = "vllm" /\ ~c.discover /\ c.static = <<>>

buildProviderFails(p) ==
  \/ entryRejected(p)
  \/ conf[p].kind = "vllm" /\ ~Models(p, conf[p], upstream[p], FALSE).ok

(* Slip: New leaves primed unset. *)
BuildUnprimed ==
  /\ phase = "build"
  /\ built < Len(Registered)
  /\ LET p == Registered[built + 1]
     IN IF buildProviderFails(p) THEN Exit("error") /\ UNCHANGED <<built, primed>>
        ELSE /\ built' = built + 1
             /\ primed' = primed
             /\ UNCHANGED <<phase, outcome, requests>>
  /\ UNCHANGED <<deployment, upstream, changes, todo, budget, steady, registryVars,
                 stop, sent, drainer>>

Build ==
  /\ phase = "build"
  /\ built < Len(Registered)
  /\ LET p == Registered[built + 1]
     IN IF buildProviderFails(p) THEN Exit("error") /\ UNCHANGED <<built, primed>>
        ELSE /\ built' = built + 1
             /\ primed' = IF conf[p].kind = "vllm" THEN primed \cup {p} ELSE primed
             /\ UNCHANGED <<phase, outcome, requests>>
  /\ UNCHANGED <<deployment, upstream, changes, todo, budget, steady, registryVars,
                 stop, sent, drainer>>

-----------------------------------------------------------------------------
(* The registry                                                            *)

AskAll ==
  /\ refresh([p \in Providers |-> Models(p, conf[p], upstream[p], p \in primed)])
  /\ asked' = upstream
  /\ steady' = {id \in steady : /\ id \in DOMAIN table'.index
                                /\ table'.index[id] = table.index[id]}

(* Registry.Start: the first refresh, then the ticker's goroutine. *)
Start ==
  /\ phase = "build"
  /\ built = Len(Registered)
  /\ phase' = "started"
  /\ AskAll
  /\ UNCHANGED <<deployment, upstream, changes, outcome, built, primed, todo, budget, serverVars>>

(* The ticker, or a request that missed. *)
Refresh ==
  /\ phase \notin {"load", "build", "exited"}
  /\ AskAll
  /\ UNCHANGED <<deployment, upstream, changes, phase, outcome, built, primed, todo, budget,
                 serverVars>>

-----------------------------------------------------------------------------
(* The token budgets                                                       *)

ReadModels ==
  /\ phase = "started"
  /\ phase' = "budget"
  /\ todo' = [i \in DOMAIN table.models |-> table.models[i].id]
  /\ steady' = DOMAIN table.index
  /\ UNCHANGED <<deployment, upstream, changes, outcome, built, primed, budget, registryVars,
                 serverVars>>

(* The limit p's section sets for a model, if it sets one. *)
Limits(p, id) ==
  IF ~Budget[p].set THEN {}
  ELSE IF id \in DOMAIN Budget[p].models THEN {Budget[p].models[id]}
  ELSE IF Budget[p].default > 0 THEN {Budget[p].default} ELSE {}

(* Slip: the limit is taken from the model's last provider. *)
LookUpLast ==
  /\ phase = "budget"
  /\ todo # <<>>
  /\ todo' = Tail(todo)
  /\ LET id == Head(todo)
         limits == IF ProviderFor(table, id) = NoProvider THEN {}
                   ELSE Limits(Last(ProvidersFor(table, [p \in Providers |-> 0], id)), id)
     IN budget' = IF limits = {} THEN budget ELSE With(budget, id, CHOOSE n \in limits : TRUE)
  /\ UNCHANGED <<deployment, upstream, changes, phase, outcome, built, primed, steady,
                 registryVars, serverVars>>

LookUp ==
  /\ phase = "budget"
  /\ todo # <<>>
  /\ todo' = Tail(todo)
  /\ LET id == Head(todo)
         p  == ProviderFor(table, id)
         limits == IF p = NoProvider THEN {} ELSE Limits(p, id)
     IN budget' = IF limits = {} THEN budget ELSE With(budget, id, CHOOSE n \in limits : TRUE)
  /\ UNCHANGED <<deployment, upstream, changes, phase, outcome, built, primed, steady,
                 registryVars, serverVars>>

(* server.New with the budgets; 0 is no limit. *)
NewServer ==
  /\ phase = "budget"
  /\ todo = <<>>
  /\ phase' = "notify"
  /\ UNCHANGED <<deployment, upstream, changes, outcome, built, primed, todo, budget, steady,
                 registryVars, serverVars>>

limitFor(id) == IF id \in DOMAIN budget THEN budget[id] ELSE 0

-----------------------------------------------------------------------------
(* Signals, the shutdown and the requests                                  *)

(* signal.Notify: from here on a signal goes into the channel. *)
Notify ==
  /\ phase = "notify"
  /\ phase' = "spawn"
  /\ UNCHANGED <<deployment, upstream, changes, outcome, built, primed, todo, budget, steady,
                 registryVars, serverVars>>

(* The go statement. *)
Spawn ==
  /\ phase = "spawn"
  /\ phase' = "listen"
  /\ drainer' = "waiting"
  /\ UNCHANGED <<deployment, upstream, changes, outcome, built, primed, todo, budget, steady,
                 registryVars, stop, sent, requests>>

Notified == phase \in {"spawn", "listen", "serve"}

(* Slip: the channel has no buffer, a signal nobody waits for is dropped. *)
SignalUnbuffered ==
  /\ phase # "exited" /\ sent < MaxSignals
  /\ sent' = sent + 1
  /\ IF Notified
     THEN /\ stop' = IF drainer = "waiting" THEN 1 ELSE stop
          /\ UNCHANGED <<phase, outcome, requests>>
     ELSE Exit("killed") /\ UNCHANGED stop
  /\ UNCHANGED <<deployment, upstream, changes, built, primed, todo, budget, steady,
                 registryVars, drainer>>

(* SIGINT or SIGTERM: it kills the process before Notify, and goes into    *)
(* the channel, if that has room, afterwards.                              *)
Signal ==
  /\ phase # "exited" /\ sent < MaxSignals
  /\ sent' = sent + 1
  /\ IF Notified THEN stop' = 1 /\ UNCHANGED <<phase, outcome, requests>>
     ELSE Exit("killed") /\ UNCHANGED stop
  /\ UNCHANGED <<deployment, upstream, changes, built, primed, todo, budget, steady,
                 registryVars, drainer>>

(* Slip: the goroutine does not wait for the signal. *)
ShutdownAtOnce ==
  /\ phase # "exited" /\ drainer = "waiting"
  /\ drainer' = "shutting"
  /\ UNCHANGED <<deployment, upstream, changes, phase, outcome, built, primed, todo, budget,
                 steady, registryVars, stop, sent, requests>>

(* The goroutine takes the signal; Shutdown closes the listener. *)
Shutdown ==
  /\ phase # "exited" /\ drainer = "waiting" /\ stop > 0
  /\ stop' = stop - 1
  /\ drainer' = "shutting"
  /\ UNCHANGED <<deployment, upstream, changes, phase, outcome, built, primed, todo, budget,
                 steady, registryVars, sent, requests>>

(* Shutdown returns: no request is left, or the drain timeout has passed.  *)
(* Nobody waits for it.                                                    *)
Drained ==
  /\ phase # "exited" /\ drainer = "shutting"
  /\ drainer' = "done"
  /\ UNCHANGED <<deployment, upstream, changes, phase, outcome, built, primed, todo, budget,
                 steady, registryVars, stop, sent, requests>>

ServerClosed == drainer \in {"shutting", "done"}

(* ListenAndServe: a server that is shut down already returns at once, an  *)
(* address in use is an error.                                             *)
Listen ==
  /\ phase = "listen"
  /\ \/ ServerClosed /\ Exit("ok")
     \/ ~ServerClosed /\ phase' = "serve" /\ UNCHANGED <<outcome, requests>>
     \/ ~ServerClosed /\ Exit("error")
  /\ UNCHANGED <<deployment, upstream, changes, built, primed, todo, budget, steady,
                 registryVars, stop, sent, drainer>>

(* Serve returns ErrServerClosed as soon as Shutdown has begun, and run    *)
(* returns nil.                                                            *)
ServeReturns ==
  /\ phase = "serve" /\ ServerClosed
  /\ Exit("ok")
  /\ UNCHANGED <<deployment, upstream, changes, built, primed, todo, budget, steady,
                 registryVars, stop, sent, drainer>>

(* Serve returns another error, a failed Accept, and run returns it.       *)
AcceptFails ==
  /\ phase = "serve" /\ ~ServerClosed
  /\ Exit("error")
  /\ UNCHANGED <<deployment, upstream, changes, built, primed, todo, budget, steady,
                 registryVars, stop, sent, drainer>>

Arrive(r) ==
  /\ phase = "serve" /\ ~ServerClosed /\ requests[r] = "none"
  /\ requests' = [requests EXCEPT ![r] = "active"]
  /\ UNCHANGED <<deployment, upstream, changes, phase, outcome, built, primed, todo, budget,
                 steady, registryVars, stop, sent, drainer>>

Answer(r) ==
  /\ phase # "exited" /\ requests[r] = "active"
  /\ requests' = [requests EXCEPT ![r] = "done"]
  /\ UNCHANGED <<deployment, upstream, changes, phase, outcome, built, primed, todo, budget,
                 steady, registryVars, stop, sent, drainer>>

-----------------------------------------------------------------------------
(* The upstream of p starts to answer something else. *)
Change(p) ==
  /\ phase # "exited" /\ changes < Deployments[deployment].changes
  /\ changes' = changes + 1
  /\ \E u \in Deployments[deployment].upstreams[p] :
       u # upstream[p] /\ upstream' = [upstream EXCEPT ![p] = u]
  /\ UNCHANGED <<deployment, phase, outcome, built, primed, todo, budget, steady,
                 registryVars, serverVars>>

Next ==
  \/ loadConfig \/ Build \/ Start \/ Refresh \/ ReadModels \/ LookUp \/ NewServer
  \/ Notify \/ Spawn \/ Listen \/ ServeReturns \/ AcceptFails
  \/ Shutdown \/ Drained \/ Signal
  \/ \E p \in Providers : Change(p)
  \/ \E r \in Reqs : Arrive(r) \/ Answer(r)

(* The scheduler runs main and the goroutine.  Nothing is assumed of the   *)
(* steps that wait for an upstream, of the ticker, of the clients, of the  *)
(* listener or of the signals.                                             *)
Fairness == WF_vars(Spawn \/ Listen \/ ServeReturns) /\ WF_vars(Shutdown)

Spec == Init /\ [][Next]_vars /\ Fairness

-----------------------------------------------------------------------------
(* Properties                                                              *)

Asked == phase \notin {"load", "build", "exited"}

(* The budgets are computed once, model by model, while the ticker may     *)
(* already refresh the table (main.go:208-224).  For a model whose first   *)
(* provider has stayed the same since, the limit requests are checked      *)
(* against is the one that provider's section sets for it.                 *)
BudgetOfPrimary ==
  phase \in {"notify", "spawn", "listen", "serve"} =>
    \A id \in steady :
      LET b == Budget[table.index[id]]
      IN limitFor(id) = IF ~b.set THEN 0
                        ELSE IF id \in DOMAIN b.models THEN b.models[id] ELSE b.default

(* The second endpoint of LiteLLM and LM Studio is a bonus                 *)
(* (litellm/provider.go:104-105, lmstudio/provider.go:96-98): when it      *)
(* fails, and for LiteLLM whatever it says, every model of /v1/models is   *)
(* routed to the provider.                                                 *)
DetailsOptional ==
  Asked => \A p \in Providers :
    (\/ conf[p].kind = "litellm"
     \/ conf[p].kind = "lmstudio" /\ ~asked[p].detail.ok)
    => \A id \in IdsOf(asked[p].plain) :
         p \in ToSet(ProvidersFor(table, [q \in Providers |-> 0], id))

(* Once the process runs, a vLLM upstream can neither add a model nobody   *)
(* configured capabilities for nor take away one that it, or the list      *)
(* models it falls back to, has: what surprises costs only itself          *)
(* (vllm/provider.go:99-104).                                              *)
SurpriseCostsItself ==
  Asked => \A p \in Providers :
    conf[p].kind = "vllm" =>
      LET c == conf[p]
          seen == IF c.discover /\ asked[p].plain.ok /\ asked[p].plain.models # <<>>
                  THEN IdsOf(asked[p].plain) ELSE ToSet(c.static)
      IN {id \in DOMAIN table.fallbacks : Contains(table.fallbacks[id], p)}
           = {id \in seen : Configured(p, id) # {}}

(* How the service may end (main.go:251-270).  Without a signal only an    *)
(* error ends it; a request is cut only by a listener that fails or by a   *)
(* return that a signal's Shutdown brought about; and a signal that kills  *)
(* the process, because Notify is still to come, finds no request.  That   *)
(* the requests in flight are drained first is not so.                     *)
ServesUntilStopped ==
  /\ outcome = "ok" => sent > 0
  /\ \A r \in Reqs : requests[r] = "cut" =>
       outcome = "error" \/ (outcome = "ok" /\ ServerClosed)
  /\ outcome = "killed" => \A r \in Reqs : requests[r] = "none"

(* A signal that arrives once Notify is done ends the process, also when   *)
(* the goroutine that waits for it has not started and when the server     *)
(* does not listen yet (main.go:252-267).                                  *)
StopEnds == (Notified /\ sent > 0) ~> phase = "exited"
=============================================================================
