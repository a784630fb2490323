# Specifications of go-ai-proxy (gap)

TLA+ models of the concurrent core of the proxy, the TLC configurations that
check them on small instances, and theorems about them checked by TLAPS.
Paths below are relative to the repository; line numbers are those of `src/`.

## Inventory

The proxy is one Go process (`cmd/gap/main.go`) that accepts OpenAI-compatible
requests, routes each to an upstream provider by model name and falls back to
other providers when one fails.

| Part | Code | State | Operations | What makes it correct |
|---|---|---|---|---|
| Bounded provider | `internal/provider/bounded.go` | `sem`, `waitingCount`, `activeCount`, `coolUntil` | `Chat`, `ChatStream` and its forwarder goroutine, `Embeddings`, `acquire`, `release`, `setCooldown` | counters exact on every exit, at most `max_concurrent` live upstream calls, no lost cooldown, slots given back, stream order |
| Registry | `internal/provider/registry.go` | `index`, `fallbacks`, `globs`, `allModels` under a lock; a singleflight group | `refresh` (startup, ticker), `Refresh` (on demand), `ProviderFor`, `ProvidersFor`, `CandidatesFor`, `ResolveModel`, `Models` | the four fields belong together, first provider wins, the least loaded is first, a miss refreshes once, healthy models stay listed |
| Request handlers | `internal/server/server.go` | none of their own; the response | `handleChatCompletions`, `handleStream`, `handleEmbeddings`, `handleModels` | one response per request, the right status for the outcomes of the candidates, no candidate after a success |
| Stream pipeline | `openai/provider.go`, `anthropic/provider.go`, `bounded.go`, `server.go` | three goroutines and two channels per stream | producer, forwarder, handler loop | order, completeness, no goroutine left behind |
| Limiters | `internal/server/ratelimit.go` | token buckets, per-caller map | `globalLimiter`, `perCallerLimiter` | a caller never exceeds its rate; the map stays bounded |
| Token budget | `internal/server/tokenbudget.go`, `main.go` | a map built at startup | `limitFor` | no candidate gets a request over its budget |
| OAuth and keys | `internal/auth` | token and file, mutex; a counter | `GetToken`, `refresh`, `authorize`, `RoundRobin.Apply` | one refresh at a time, tokens survive, keys used evenly |
| Metrics, audit | `internal/metrics`, `internal/server/audit.go` | counters | `RecordRequest`, `RecordTokens` | one record per attempt |
| Translation | `internal/translator`, `openai/think.go` | parser state of one stream | `ChunkFromOpenAI`, `thinkParser.process`, `RequestFromOpenAI`, `RequestToOpenAI`, the embeddings' pairs | streaming and non-streaming agree, what a request asks for arrives, a vector stays with its text |
| vLLM and thin providers | `vllm`, `litellm`, `lmstudio`, `llamacpp` | vLLM: capabilities, primed flag | `Models`, the mutators | a broken or surprising listing costs only itself |
| Grammar | `llamacpp/gbnf.go` | counters and rules of one conversion | `schemaToGBNF` | the grammar derives the schema's values and nothing else |
| Process | `cmd/gap/main.go` | server, listener, signals, token budgets | `loadConfig`, `buildProvider`, `run`, the shutdown goroutine | budgets are the primary provider's, the service ends well only after a signal and every signal ends it |

Interaction: a handler asks the registry for candidates (read lock), calls the
candidates one after another, each through its bounded provider, and the
registry reads each provider's `Active()` to sort them. A stream crosses three
goroutines joined by channels and by the request's context. The registry is
refreshed by a ticker goroutine and by requests that miss.

The hard behaviours: calls racing for slots, queue places and the cooldown;
five exits of `ChatStream` that release the slot by hand; refreshes that
overlap and replace the table wholesale; a refresh that runs on the context of
one of the requests waiting for it; a fallback loop whose final status has to
summarise different failures, in three copies; goroutines that hand chunks to
each other while the client may vanish.

## Modules

| Module | Models | Uses |
|---|---|---|
| `BoundedProvider` | `bounded.go`, one action per access to shared state | `ConcurrencyLimit` (instance) |
| `ConcurrencyLimit` | the abstract promise of a bounded provider | |
| `BoundedProviderProofs` | theorems about `BoundedProvider` and its forwarder | |
| `RoutingTable` | `registry.go` as an algorithm: `refresh`, the lookups | |
| `Discovery` | `Models` of all six provider types | `RoutingTable` |
| `Startup` | `main.go`: from the configuration to the end of the process | `Discovery` |
| `StartupProofs` | theorems about `Startup`: routing, budgets, the process | |
| `Registry` | `registry.go` as a concurrent program: misses, singleflight, ticker | |
| `RegistryProofs` | theorems about `Registry` | |
| `ChatHandler` | `server.go`: candidates, budget, fallback loop, statuses, records | |
| `ChatHandlerProofs` | theorems about `ChatHandler` | |
| `StreamPipeline` | producer, forwarder and handler loop of one stream | |
| `StreamPipelineProofs` | theorems about `StreamPipeline` | |
| `OAuth` | `oauth.go`: `GetToken` of several callers, file, browser, restarts | |
| `OAuthProofs` | theorems about `OAuth` | |
| `RateLimit` | `server/ratelimit.go`: both limiters and the map of callers | |
| `RateLimitProofs` | theorems about `RateLimit` | |
| `Grammar` | `llamacpp/gbnf.go`, and what a grammar derives | |
| `Wire` | a chat request and an embeddings call on their way to the upstream and back | |
| `Translation` | think tags, chunks, tool calls and Anthropic's turns as algorithms | `Wire` |
| `SchemaTranslation` | `Translation` with the grammars of schemas | `Translation`, `Grammar` |
| `TranslationProofs` | theorems about `Translation` | |
| `MC*` | model values, small reports, symmetry | the module each is named after |

### BoundedProvider

A call of `Chat`, `ChatStream` or `Embeddings` is a process; for a stream the
same process is the calling goroutine until the channel is returned and the
forwarder afterwards, since never both run. `pc` says where it stands, one
action is one atomic, one channel operation or one read of the clock, so
`waitingCount`, `activeCount` and `sem` can be seen in between by others:
`JoinQueue` is `waitingCount.Add(1)`, `QueueFull` the undo, `TakeSlot`,
`Activate`, `LeaveQueue` the three steps of a successful `acquire`,
`LoadCooldown` and `CompareAndSwap` the loop of `setCooldown`, `CancelInner`,
`Deactivate`, `FreeSlot`, `CloseOut` the deferred calls in their order. The
wrapped provider is external: it may answer, fail, rate-limit, hang or stream,
and it stops when its context is done. A timer may fire at any time: what a
duration means in seconds is left out, only the cooldown is compared with the
clock.

`ConcurrencyLimit` is what callers may rely on: calls wait, are refused, run
(at most `Capacity` at once, each at most once) and end, and the cooldown is
only extended, only by a call that reached the upstream. The mapping is
`phase`, computed from `upstream` and `pc`: everything the wrapper counts and
queues is a stutter.

### RoutingTable and Registry

The registry is modelled twice, because its two halves are hard for different
reasons. `RoutingTable` builds the four fields from model lists with patterns,
duplicates, capabilities and overrides, in the code's order, and defines the
lookups over them; a refresh is one step, taken by `Startup`. `Registry` splits the refresh into
one step per provider and the swap, adds the requests that miss and race for
the singleflight call, the waiters, the ticker that refreshes outside of the
group, and cancellation: the group runs on the context of the request that
leads. There the table is only what each provider contributed to it, which by
`RoutedToItsServers` is all that a lookup of a name depends on.

History variables: `steady` and `always` (who has been serving what without
interruption), `crossed` (requests during whose life the ticker refreshed).

### Discovery and Startup

`Discovery` is what `Models(ctx)` of each provider type makes of the answers of
its upstream: the list of `/v1/models`, the second endpoint of LiteLLM and LM
Studio, and the configuration's capabilities and static list. Its results are
what `RoutingTable` takes in.

`Startup` is `run`: one step per line that others may get in between of.
`loadConfig`, `Build` (one provider each; vLLM's `New` asks its upstream),
`Start` (the first refresh), `ReadModels` and `LookUp` (the budget loop, one
model at a time, while the ticker may already replace the table), `NewServer`,
`Notify`, `Spawn`, `Listen`, `ServeReturns` after a `Shutdown` or `AcceptFails`
without one. Beside it go the refreshes, the
signals, the goroutine that shuts down (`Shutdown`, `Drained`), requests that
arrive and are answered, and upstreams that change their answers. `Exit` cuts
what is in flight: `run` waits neither for `Shutdown` to return nor for the
goroutine. Its properties are those of the routing table over every listing
that the provider types can produce, and those of the process.

History variables: `asked` (the upstreams' answers at the last refresh) and
`steady` (models whose first provider has not changed since the budget loop
read the list).

### ChatHandler

`handleChatCompletions` (with and without streaming) and `handleEmbeddings` are
three copies of one loop and one parameterised model: `FindCandidates`,
`RefreshAndRetry`, `ModelNotFound`, `OverBudget`, one `Succeed` or `Fail` per
candidate, `EndStream`, and after the loop `ClientGone`, `AllRateLimited`,
`Busy` or `writeProviderFailure`. Candidates and outcomes are arbitrary. The
differences between the copies (no budget for embeddings, the record of a
stream at its end) are guards on `method`; `handleChatCompletions`,
`handleStream` and `handleEmbeddings` say which steps belong to which function. A finished answer is
recorded before it is encoded, and encoding may fail: `Succeed` answers 200 or,
unless it begins a stream, 500.
A provider's 4xx is `Rejected` only when it comes as an `UpstreamError`, which
the OpenAI dialect makes; a 4xx of Anthropic is an untyped error, `Broken`.

### StreamPipeline

Three goroutines of one stream. An unbuffered send is one joint step of both
sides (`HandOver`), the forwarder's channel holds one chunk. `Script` is the
upstream's complete answer, `cut` where its body ends. The two dialects differ
in what their frames become and in whether the send of the last chunk waits for
the context (`Sending`): in `openai/provider.go` the chunk of `[DONE]` is sent
outside of any select. `wrapping` is a provider without limits, with limits,
or with `request_timeout` and therefore the first-token window.

### OAuth

One process per call of `GetToken`; `mu` is held through everything the call
waits for. `pc` separates the look at the token (`ReturnCached`, `refresh`,
`NeedsBrowser`), the browser (`OpenBrowser`, the three cases of the select),
the token request in its two halves, the server's part (`ServerIssues`) and the
caller's (`Accept`), and the two halves of `os.WriteFile` (`Truncate`,
`Write`), since a request may fail and the process may die between any two.
The server may rotate the refresh token, repeat it or leave it out. `lost`
records that the refresh token the server accepts has been lost in one of the
ways that no client can help or that the code concedes: `RefreshKept` says that
there is no other.

### RateLimit

A request makes two steps: it gets a bucket under the map's mutex (`Known`,
`NewCaller`, or `globalLimiter`), and it takes a token (`Allow`, `Refuse`). In
between others may evict the entry and make a second bucket. A bucket is named
after the request that made it, its content is `Credit`. `Caller` in the
properties is written from `docs/config.md`, `callerKey` from the code.

Nothing in the code makes the ten minutes of an idle entry longer than a bucket
takes to refill, nor a request quick between its two steps, and nothing is
assumed of either: a bucket may be dropped before it is full and while a request
holds it. `RateKept` therefore has two halves. Through one bucket nobody is ever
served more than rps and burst allow. A caller, over all the buckets it had, is
not either where buckets refill first: `Refills`, the premise of that half,
says that the burst comes back within the idle time less `Delay`, and
(`prompt`, a history variable) that no request spent more than `Delay` between
its steps so far. Without it an eviction gives the burst back early.
`RefusedOnlyOverRate` needs no premise: who loses a bucket gets a full one.

### Translation

Four translations side by side, one per initial value of `side`: an
OpenAI-compatible upstream that puts its thoughts in tags, one that uses a
field (and makes tool calls), Anthropic's events, and a conversation on its way
to Anthropic. The upstream composes `answer` as it means it; streamed, each
frame goes through `ChunkFromOpenAI` and `process` or through the event
handlers, and `Send`, which writes `[DONE]` instead of a chunk that carries the
reason "stop": what text came with it is `answer.last`, and
`StreamAsUnary` says that nothing else is lacking; `Received` is what a client puts together from the
payloads. At every point of the stream it is compared with what the
non-streaming code makes of the same answer (`ResponseFromOpenAI`,
`fromMessage`). Texts are sequences of letters, line breaks and tags, with one
tag per frame at most, as `think.go` assumes; line breaks are not compared,
since one side trims them more than the other. An upstream uses tags or the
field, not both.

The other three values of `side` are inputs without steps. A schema goes
through `Grammar`: `value` and its cases thread the builder (names counted,
rules in the order they are finished, building blocks marked) as the code's
methods do; `Derives` says what the resulting grammar derives and `Valid` which
JSON values the schema means, with every declared property taken as required
and in the order of the keys, as `gbnf.go` documents. Which grammar a schema
becomes is a parameter of `Wire` and `Translation`, `ToGrammar`, so that what
is said of them holds whatever the generator does; the runs of
`SchemaTranslation` give it `schemaToGBNF`. A chat request goes through
`Wire`'s `RequestFromOpenAI`, `RequestToOpenAI` and the mutator of openai, vLLM
or llama.cpp. An embeddings call goes there and back: a number is a pair of
what a `float32` holds and the rest, so that the loss by base64 shows.

## Runs

| Run | Expected | Properties | What it shows |
|---|---|---|---|
| `bounded_chat` | pass | `UpstreamBound` `LoadInRange` `CooldownInv` `CooldownMonotone` | three calls, two slots, a queue of one, no timeout, cooldowns of different length: at most two live upstream calls, `Active()` within 0..`max_concurrent`, no deadline lost |
| `bounded_stream` | pass | `SlotInv` `NoChunkLost` `ImplementsLimit` `SlotReturned` `CallsEnd` | two calls, one slot, timeouts and hanging upstreams: every exit of `ChatStream`, chunk order, refinement, and what must end |
| `bounded_unlimited` | pass | `SlotAccounting` | a provider with a timeout and no semaphore, without embeddings |
| `routing` | pass | `RoutedToItsServers` `LeastLoadedFirst` `AutoRouted` `LookupsAgree` `BudgetOfPrimary` `DetailsOptional` `SurpriseCostsItself` `ServesUntilStopped` `StopEnds` | the process with three providers of every type: routing, listings, budgets, signals, a listener that fails |
| `registry_refresh` | pass | `OneFlight` `HealthyKept` `LeaderMissHonest` `LookupAnswered` | two misses, the ticker, two providers, clients that leave |
| `registry_cancelled` | violation | `HealthyStaysListed` | the leader's client leaves and healthy providers are skipped |
| `handler_chat` | pass | `StatusTellsOutcome` `MetricsMatchAttempts` | all outcomes of up to three candidates, three methods, answers that cannot be encoded |
| `stream_pipeline` | pass | `InOrder` `WholeStream` `DisconnectEndsServing` `AnthropicLeavesNothing` | both dialects, three wrappings, cut and cancelled anywhere |
| `oauth` | pass | `RefreshKept` `NeverOlder` `CallsReturn` | two calls, three tokens, a restart, everything may fail |
| `rate_limit` | pass | `RateKept` `MapBounded` `RefusedOnlyOverRate` | five requests of three callers, room for two, evictions early and late |
| `translation` | pass | `StreamAsUnary` `ResultsFollowCalls` `GrammarExact` `RequestKept` `EmbeddingsKept` | every answer of five frames, every conversation of six messages, schemas of three levels, chat requests, embeddings |
| `streamed_calls` | violation | `CallsStreamed` | tool calls of an OpenAI-compatible stream are not read |

### Bounds, and why they are enough

- `Reqs`: three calls where three are needed to interfere (two hold slots while
  one queues; a compare-and-swap fails, and fails again), two where one slot
  makes every interference pairwise. The proofs are for any number.
- `MaxTime` 1 or 2 bounds the clock, which only the cooldown reads: before, in
  and after a cooldown are reached; `Backoffs` {1, 2} gives deadlines in both
  orders.
- `MaxChunks` 2 and `MaxTexts` 3: the prefetched chunk, one in the buffer, one
  in the forwarder's hand, one with the producer.
- Routing, deployment `Wide`: names m and x, patterns g and h that overlap on x, lists of up to
  two entries per provider (doubles and empty lists included), capabilities
  that differ between providers, one override; `MaxLoad` 1 orders loads in
  every way three providers can be less, equally or more busy in pairs.
- The other deployments are for what varies there least. `Mixed` (LiteLLM,
  vLLM, LM Studio) and two `Fallback` (Anthropic, vLLM with a static list, with
  and without discovery, llama.cpp) have upstreams that fail, list nothing, list
  a model nobody configured, and change once: before, between and after the
  first listing, the first refresh and the budget loop. Seven configurations
  are refused, one for each check of `buildProvider`. `MaxSignals` 2 is a
  signal and its repetition; one request is in flight, or is not, when `run`
  returns.
- Registry: one model, two providers and two requests: a refresh has a state
  between two upstream answers, and there is a leader and a waiter or two
  leaders in turn. The ticker fires as often as it likes.
- `MaxCandidates` 3 gives every order of first, middle and last outcome;
  `Backoffs` {1, 4} with two ticks per second include a wait below a second.
- OAuth: two calls race for one expired token; three tokens are a first one, a
  rotation and a second rotation with a token that must not come back; lives of
  0 and 1 ticks are a token that has expired at once and one that expires
  later; one restart, after which everything comes from the file.
- RateLimit: three callers and a map for two is full, evicts and overflows; a
  bucket of one token that takes two ticks to come back can be exceeded by two
  requests. An entry goes stale when it was last looked up more than two ticks
  ago, that is at the clock's last tick, 3: full if its last request took its
  token at once, not yet full if that one was slow, so that `Refills` (with
  `Delay` 0) holds in some behaviours and fails in others. Behind an untrusted
  proxy there are two callers only, who cannot fill the map: four requests are
  enough there (`FourWithoutProxy`).
- Translation: five frames hold two thoughts, or a text, two calls and their
  fragments; a conversation of six messages two rounds of parallel calls.
- Schemas of three levels with one or two children per node: an array or object
  inside another one, beside another one, and inside an alternative, which is
  where names and building blocks could be mixed up. The values are those of
  the same shapes, right and wrong by a key, an order, a type or an item.
- Chat requests: every combination of content, reasoning effort in its two
  places, response format and grammar. Embeddings: three texts, two of them
  equal, in three orders and every pair of encodings.

Deadlock is checked in the bounded and handler runs, where only the state in
which everything has returned stutters. The other runs switch it off, because
there the system does stop: when the process has ended, when every request has
its answer and every stream its end, or at the bound of the clock or of the
frames.

### Fairness

- `BoundedProvider`: weak fairness for `acquire`, the cooldown loop, the
  forwarder's sends and stops, the deferred calls, the first-token timer, and
  an inner call whose context is done. None for the upstream's answers, the
  caller's cancellation or the reader. Calls are finitely many and each is made
  once, so a free slot stays free until somebody takes it, and weak fairness is
  all the model asks of Go's channels.
- `Registry`: handlers run, a finished refresh is installed, and a `Models` call
  whose context is done fails. No upstream has to answer, since `refresh` sets no
  deadline of its own: `LookupAnswered` has as its antecedent that no leader
  whose client stays is kept waiting for ever (`Asking`). Nothing makes the
  ticker fire, and a ticker's refresh may hang.
- `Startup`: the scheduler runs `main` from the `go` statement to the return
  of `run`, and the goroutine that waits for the signal (`Spawn`, `Listen`,
  `ServeReturns`, `Shutdown`). Nothing else has to happen: no upstream answers,
  no refresh comes, no request ends, the listener does not fail and `Shutdown`
  need not return.
- `StreamPipeline`: goroutines run; a read of the body returns once its context
  is done; the upstream's frames get no fairness.
- `OAuth`: goroutines run, the mutex is handed on (Go's mutexes do not starve a
  waiter), and a token request whose context is done fails. Nobody has to
  answer in the browser or at the server, so that `CallsReturn` depends on the
  callers' leaving, which is its antecedent.

## What is proved

TLAPS checks the following for every value of the constants that satisfies the
assumption of the module (`BoundedAssumption`, `RegistryAssumption`,
`HandlerAssumption`, `PipelineAssumption`, `OAuthAssumption`,
`RateLimitAssumption`, `StartupAssumption`, `RoutingAssumption` and
`TranslationAssumption`: natural bounds, finitely many calls of a bounded
provider; any number of requests, candidates, models, providers, chunks, tokens
and callers, frames and messages).

`BoundedProviderProofs`
- `TypeCorrect`: the type invariant.
- `SlotsCorrect`: `SlotInv`. `UpstreamBound` alone is not inductive: that a
  live upstream call has a slot follows from where its process stands
  (`LocationOK`), and that slots are not more than `MaxConcurrent` from the
  equality of `sem`, `activeCount` and `waitingCount` with the cardinalities of
  the sets of processes between the two halves of each operation
  (`SlotAccounting`). `CountMove` is the lemma about a process that moves from
  one location to another; the step lemmas use it once per counter.
- `UpstreamBounded` and `LoadBounded` follow from it.
- `CooldownKept`: a process about to swap has seen an earlier deadline than its
  own (`CooldownInv`), so whatever interleaving of the loop leaves `coolUntil`
  at least at the deadline of every call that has left it.
- `CooldownOnlyExtended`: no step shortens a cooldown.
- `LimitRefined`: `Spec => ImplementsLimit`. Each step changes the phase of at
  most one call (`PhaseMove`); the only step that needs the invariant is the
  one in which a call begins to run, where `RoomToRun` counts the slots.
- `ChunksKept`, from which `NoChunkLostEver` (`NoChunkLost`): the reader's
  chunks, the buffer and the forwarder's hand, concatenated, are what the
  upstream handed over (`ChunkOK`). `NoChunkLost` compares only what the reader
  has, so the invariant adds where the others are, that a hand is full exactly
  at the send, and that only a cancelled forwarder leaves with a full one.
- `SlotsAccounted` and `CooldownsRecorded`: parts of `SlotInv` and
  `CooldownInv`.

`RegistryProofs`
- `FlightCorrect`: `OneFlight` is inductive as it stands.
- `HealthyCorrect`: `HealthyKept`. Whatever a provider has always served is in
  its part of every half-built table behind `next` (`Healthy`), so no swap can
  lose it, however refreshes overlap. `Staying` shows that while nobody has
  left, nobody had left.
- `LeaderCorrect`: `LeaderMissHonest`. The invariant follows the promise from
  the upstream (`SteadyServes`) into the table a refresh is building
  (`BuiltOwed`), into the installed table (`TableOwed`) and to the answer
  (`Denied`); `Owed` names the requests the refresh in progress still matters
  to, which is where `OneFlight` is needed: a second leader's table would also
  be theirs.

`ChatHandlerProofs`
- `HandlerCorrect`: in the loop `allRateLimited` holds exactly if every outcome
  so far was a rate limit, `maxRetryAfter` is the longest of their waits,
  `lastErr` is the last outcome (`LoopOK`), and there is one record for each
  (`RecordsOK`), one less while a stream runs. The five answers after the loop
  follow from that: `StatusCorrect` (`StatusTellsOutcome`) and `MetricsCorrect`
  (`MetricsMatchAttempts`); that of a success is the one place where the status
  does not follow from the outcomes, since encoding may fail. `WaitTold` is the arithmetic: the maximum rounded
  down is the maximum of the waits rounded down.
- `HandlerTypes`: the type invariant.

`StreamPipelineProofs`
- `PipelineCorrect`: what is written, in the channel and in the hand is, in this
  order, the beginning of the script (`Passed`, `PassingOK`), no chunk written
  before the last is a `Done` (`WrittenOK`), and a stage ends before its source
  only when the context is done (`Complete`), which is what the last conjunct of
  `WholeStream` needs. `StreamInOrder` and `StreamIsWhole` follow;
  `BeginsBeforeDone` finds the first `Done`, by the well-foundedness of the
  natural numbers.
- `PipelineTypes`: the type invariant.

`OAuthProofs`
- `OAuthCorrect`: a call stands inside of `GetToken` exactly while it holds the
  mutex (`MutexInv`); given that, the token in memory is never older than one
  that was returned (`AgeInv`), and memory, file and server agree on the
  refresh token, except while the one call inside renews it, when the new one is
  known to work (`AgreeInv`). `RefreshAlwaysKept` and `TokensNeverOlder` follow.

`RateLimitProofs`
- `MapStaysBounded`: an eviction only shrinks the map, and an entry is added
  only below the cap.
- `RateIsKept` (`RateKept`): between any two requests through one bucket its
  caller was served at most the burst and what was refilled in between, whatever
  the constants; between any two of a caller if `Refills`. Of the served requests
  alone that is not inductive. `RateInv` says it once for both ways of sharing
  (`Ways`: by the bucket, by the caller), of what those who share have now
  (`Level`): what they have had since any of their requests, with `Level`, is at
  most what the rate allows since then (`NoneAbove`), and it is not less since
  some request of their own unless they may have the whole burst (`NoneBelow`).
  For a bucket that is a property of its credit. For a caller it must survive
  evictions: `EvictedFull` shows that while `Refills` holds only a full bucket
  is thrown away, which is what the invariant on who holds which bucket
  (`OwnersInv`, `HoldersInv`) and on stale entries (`StaleInv`) is for;
  `RefillsBefore` carries the premise back to the state before.
- `RefusalsAreDue` (`RefusedOnlyOverRate`): a caller is refused only when one
  more request would have exceeded its rate since some earlier one. It is what
  `NoneBelow` is for, for the bucket that refuses: what its caller was served
  through other buckets only adds to the sum, so early evictions do no harm.

`StartupProofs`, for every number of providers and models, every pattern,
override and load, and every answer of an upstream:
- `RoutedExactly` (`RoutedToItsServers`), `OrderedByLoad`
  (`LeastLoadedFirst`), `SelectorsExact` (`AutoRouted`) and
  `LookupsAgreeAlways` (`LookupsAgree`): the lookups on any table that a
  refresh can install. `AutoRouted` is exact for the models that their providers
  do not disagree about (`Undisputed`): of the others, and of patterns, the code
  follows the first entry, against its comments (see the differences below).
- `LimitsOfPrimary` (`BudgetOfPrimary`): the budget loop reads the table once
  per model while refreshes replace it.
- `DetailsAreABonus` (`DetailsOptional`) and `SurprisesCostThemselves`
  (`SurpriseCostsItself`): from the answer of an upstream through the provider's
  `Models` and the table to the lookup.
- `ServiceKept` (`ServesUntilStopped`): a request is in flight only while the
  server serves, and the server is closed, a signal is in the channel or the
  process has ended well only after a signal (`ServiceInv`). A listener that
  fails ends it with an error, which is the other way to cut a request.

The argument for the first seven. `refresh`, the lookups and the sort are folds
over sequences, which the community modules define by recursion. `Step` names
the operators the model folds with, since a lemma cannot have an operator as
its parameter; `FoldExists` shows that the recursive function of the fold
exists, by the least-counterexample form of induction (`Induction`, from the
well-foundedness of the numbers), and `FoldSteps` gives a fold its intermediate
results, over which `UpTo` argues element by element. In this way follow that
`AppendNew` adds what is missing once and in order (`AppendNewIs`), that the
sort is a stable permutation (`PlaceSorts`, `StableSortIs`), what several
`AppendNew` gather (`Gathered`), and that the table after the first entries of
a refresh is the table of those entries (`Good`, `AddModelGood`,
`BuildTableGood`): its names, for each of them its providers in the order of
registration, its patterns, and for each name the entry of its first provider.
The inductive invariant is `StartupInv`: the table is good for the reports of
the last refresh (`RoutingInv`), those are what the provider types make of the
answers they got (`AskedInv`, `BuiltInv`, `UpstreamInv`), and a name that the
budget loop has passed has the limit of its first provider if that has not
changed (`LimitsInv`). `AskedInv` is why `DetailsAreABonus` and
`SurprisesCostThemselves` need an invariant at all, `LimitsInv` is why
`LimitsOfPrimary` does. TLC has checked `StartupInv` over all states of
`routing`.

`RoutingAssumption` and `StartupAssumption` say no more than what the constants
are: a provider is registered once (`run` makes one object per entry of the
configuration), a pattern is a model ID, every deployment configures every
provider, and an answer of an upstream is a failure or a list of entries. That
a provider has one of the six types is not assumed: it follows from `Build`.

`TranslationProofs`, for answers, conversations and embeddings calls of any
length and any `ToGrammar`:
- `StreamsAsUnary` (`StreamAsUnary`): for streams with tags the invariant says
  that the parser of the frames and the parser of the whole answer are at the
  same place: both inside of a thought or both outside, with the same text on
  either side (`TagsInv`). One frame then does to both the same: `ExtractPlain`
  and `ExtractTag` are the two cases for the whole answer, `ProcessIs` the same
  for the frame, and `TagsText` puts them together, up to the line breaks that
  one side trims (`VisibleTrim`). For Anthropic's events the invariant is that
  the producer's counter is the number of calls the whole answer has so far
  (`AnthropicInv`): then the fragments of a call go where `fromMessage` puts
  its input, whatever blocks come between them (`CallTaken`).
- `ResultsAlwaysFollow` (`ResultsFollowCalls`): the property speaks of moments
  when nothing is pending, which is not inductive. The invariant says what holds
  in between (`CallsKept`): every turn but the last is answered by the one after
  it; the last one either holds results, of calls of the turn before it, and
  what is missing is what is pending, or it is itself what is waited for. The
  lemmas `TextsOfTurn`, `TextsOfResult`, `CallsOfTurn` and `CallsOfResult` are
  the two things a message can do, open a turn or join the last one, to each
  half of the invariant. That IDs are fresh (`Made`, bounded by the messages so
  far) is what keeps an old result from answering a new call.
- `RequestsKept` (`RequestKept`) and `EmbeddingsAlwaysKept` (`EmbeddingsKept`):
  the two inputs do not change, so these are theorems about the composition of
  the translators, and about what those keep (messages, schema, vLLM's thinking
  switch, llama.cpp's constraint; not what they drop, see below): `RequestIs` for the way there and `AnswerIs` for the way of a
  vector through up to two encodings, of which the second loses nothing
  (`Float32Is`).
- `TranslationInvariant`: the invariant, `TranslationInv`. TLC has checked it
  on answers of four frames and conversations of five messages.

These folds too are taken apart through `Step` and `FoldSteps`; `FoldConcat`
says that a fold over a concatenation goes on where the first part ended, by
induction over the length of the second. `TranslationAssumption` says that
letters are neither tags nor breaks, that a frame holds one tag at most, as
`think.go` assumes, and that the inputs are well formed (every text has one
vector, listed once).

Only model-checked: liveness (`SlotReturned`, `CallsEnd`, `LookupAnswered`,
`DisconnectEndsServing`, `AnthropicLeavesNothing`, `CallsReturn`, `StopEnds`),
since the prover has no rules for fairness and `ENABLED` here; and the grammar
(`GrammarExact`). A schema and its values are trees of arbitrary depth, so it
would need an induction over them, and `Grammar` follows them with recursive
operators, which the prover cannot take in.

## Where the code and its documents differ

Runs that show a violation:

- `registry_cancelled`: a request that leads a refresh lends it its context
  (`registry.go:119`): its client leaves, the rest of the providers "fail", and
  everybody's table lacks them until the next refresh.
- `streamed_calls`: `ChunkFromOpenAI` does not read `delta.tool_calls`
  (`translator/openai.go:528`): a streamed tool call of an OpenAI-compatible
  upstream arrives as empty chunks (`docs/gap-developer-guide.md:242` and 277,
  `docs/roadmap.md:71`).

Seen while modelling; the models contain the behaviour and the properties are
stated so that they do not deny it:

- The first-token timer starts when `inner.ChatStream` has returned, so the time
  to the response headers has no deadline (`bounded.go:186`; the comment at
  155-157 promises one). `CallsEnd` therefore excludes streams.
- The ticker's refresh is not in the singleflight group (`registry.go:91`): the
  last to finish wins, not the last to start, and a model that an on-demand
  refresh just found may be gone again (`docs/config.md:116-118`).
  `LeaderMissHonest` therefore speaks of requests no ticker refresh crossed.
- The token budget is checked for the first candidate alone; a selector's later
  candidates are other models (`server.go:146`; `tokenbudget.go:4-5`).
- The openai producer sends the chunk of `[DONE]` outside of any select
  (`openai/provider.go:237`). When a chunk with `finish_reason: "stop"` has
  ended the handler nobody reads it, and the goroutine and the upstream body
  stay (`docs/roadmap.md:60-61` speaks of no leak). `AnthropicLeavesNothing`
  therefore speaks of the other dialect.
- A call may be refused with `ErrQueueFull` while a slot is free, because calls
  on their way to a free slot count as waiting (`bounded.go:106`;
  `docs/config.md:143`, `bounded.go:19-20` speak of a full provider).
- A call that queued when a cooldown began still reaches the upstream
  (`bounded.go:134`; `docs/config.md:136-137`).
- Equally loaded providers that serve a name through patterns come in the order
  of the patterns, not of registration (`registry.go:334`;
  `docs/config.md:125-126`, `registry.go:322`).
- Selectors see the capabilities of a model's first provider only
  (`registry.go:281` with 156-158; 252-253 says "across all providers").
- A pattern that carries capabilities becomes a candidate whose model ID is the
  pattern's text (`registry.go:281`; the comment at 141 says that patterns are
  "not real models").
- A request that joins a refresh already under way may answer 400 for a model
  that was loaded after that refresh had asked (`registry.go:103`;
  `server.go:126-128`, `README.md:29`).
- 503 is answered when the last candidate's queue was full, whatever the others
  said (`server.go:209`; `docs/config.md:143` says all queues). When both
  providers fail otherwise the status is 502 (`server.go:541`), or the last
  one's 4xx, where the example of `docs/config.md:187` says 503 and 144 says 502.
  `StatusTellsOutcome` asks only for what 139-144 and the code have in common:
  503 when all queues were full, and not without a full queue.
- A success whose answer cannot be encoded, such as an embedding with a NaN from
  an upstream's base64, is answered with 500 and counted as a success
  (`server.go:218-222` and 458-463; guide 407 speaks of an internal error).
- `ListenAndServe` may fail while it serves, and `run` then cuts the requests in
  flight without a `Shutdown` (`main.go:267-269`).
- An entry of the rate limiter may be evicted before its bucket is full, at an
  rps below burst / 10 min, and its caller gets the whole burst again
  (`server/ratelimit.go:76`; `docs/config.md:45-48`).
- `Retry-After` is rounded down, to 0 below a second (`server.go:205`;
  `docs/config.md:141-142`).
- A chunk with `finish_reason: "stop"` is replaced by `[DONE]`, and a usage
  chunk after it is not read (`server.go:333`; `docs/gap-developer-guide.md`
  239-248).
- A stream that breaks off ends with a regular `[DONE]` and counts as a success
  (`server.go:348`; guide 436-437).
- Text, tool calls or usage in the frame that carries `finish_reason: "stop"`
  are not delivered (`server.go:333`).
- A frame with two tags is split at the first one only: the second stays in the
  text (`think.go:33-54`; the comment at 12-14 says that tags are tokens).
- A 4xx of Anthropic comes as an untyped error and is answered with 502
  (`anthropic/provider.go:95`; `docs/config.md:325` says that a 4xx is proxied).
- Messages to Anthropic whose role is none of the four are dropped, and those
  with multimodal content lose it (`anthropic/provider.go:295` and 323).
- A token answer without `refresh_token` empties the stored one, though servers
  may leave it out when it stays the same (`oauth.go:215`), and an answer of any
  status that is JSON without `error` is taken for a token (`oauth.go:208`).
- A refresh that fails for want of a connection, or whose token cannot be
  saved, opens the browser (`oauth.go:66-72`; the comment at 40 says
  "refreshing it transparently").
- A stray request to the callback port ends the authorization
  (`oauth.go:148`).
- With 10,000 callers active every further one gets a fresh bucket for every
  request, that is, no limit (`server/ratelimit.go:80`; `docs/config.md:48`).
- The limiters' 429 has no `Retry-After` (`server/ratelimit.go:41`; guide
  422-423).
- `run` returns as soon as `Shutdown` begins, and the process with it: requests
  in flight are cut, not drained, and the drain timeout has no effect
  (`main.go:267`; `README.md:33`, `docs/roadmap.md:98-99`, `docs/config.md:36`).
- The token budgets are those of the models in the first table: a model that
  appears later, is served through a pattern, or has its limit in the section of
  a provider that is not its first one, has none (`main.go:208-224`;
  `docs/config.md:104`).
- An enumeration or a key with a quote, a backslash or a control character
  becomes a literal that is not JSON (`gbnf.go:231-234`: the escapes are those
  of the grammar alone).
- `oneOf` is treated as `anyOf`, and `const`, `required`,
  `additionalProperties`, `uniqueItems`, `not` and whatever stands beside `anyOf`
  or `enum` are ignored in silence (`gbnf.go:87-123`; the comment at 52-53 says
  that unsupported constructs return an error).
- Fields of a chat request that `Request` does not have, `tool_choice` among
  them, are dropped, and `reasoning_effort` does not reach an upstream of type
  `openai`; a client's `grammar` reaches llama.cpp only, and `json_object`
  nobody, as guide 304 says (`translator/openai.go`, `llamacpp/provider.go:98`).
  `RequestKept` names what does arrive.

## Not modelled, and why

- Text: JSON conversion, tool schemas, the wording of grammar rules, log and
  metrics formatting. Their properties are about strings.
- Scalar fields, tools, prices and context lengths, which are copied one by one
  and which nothing in the proxy decides on.
- An Anthropic stream that is empty from the start, frames that do not parse:
  they add exits without state.
- `handleModels`, health and metrics endpoints, request IDs and the audit log:
  no shared state beyond a read of the registry, and nothing reads what they
  write.
- `RoundRobin`: one atomic increment, of which a model would be a copy. The
  counters of the metrics are maps under one mutex.
- The fake provider is a test double.
- The clock beyond order: `request_timeout` and the drain timeout may fire at
  any time.
- A sort whose comparisons see loads that change while it runs
  (`registry.go:350`): what Go's sort makes of an inconsistent order is not
  specified.

## Plan

Done, in this order: `BoundedProvider` with `ConcurrencyLimit` and its proofs,
`RoutingTable`, `Registry` with its proofs, `ChatHandler`, `StreamPipeline`,
`OAuth`, `RateLimit`, `Translation`; then `Discovery`, `Startup`, `Grammar` and
`Wire`, and the proofs of the handler, the forwarder, the pipeline, the tokens,
the process, the rate of a caller, the routing table and its lookups, and the
translations.

What is left, in order of weight:

1. A composition of `ChatHandler` with two bounded providers: cooldowns and
   queues as they look from the fallback loop.
2. A refinement from `Startup` to `Registry`, so that the single step `Refresh`
   rests on more than the shared definitions.
3. Streams whose frames carry several tags or do not parse.

A new module asks its questions in a present run where they are close: a dozen
runs is what a reader can keep in mind.
