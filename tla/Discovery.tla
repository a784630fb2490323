----------------------------- MODULE Discovery -----------------------------
(***************************************************************************)
(* What Models(ctx) of each type of provider makes of the answers of its   *)
(* upstream: which model IDs it reports and with which capabilities, and   *)
(* when it reports a failure.                                              *)
(*                                                                         *)
(* An upstream u gives two answers, each Failed or a Listing: u.plain to   *)
(* GET /v1/models, with entries [id, caps, image] (image: the architecture *)
(* fields name images), and u.detail to the endpoint LiteLLM (/model/info) *)
(* and LM Studio (/api/v1/models) have besides, with entries               *)
(* [id, type, flags].  An entry c of the configuration has a kind, a list  *)
(* static of model IDs and the switch discover (both vLLM's).              *)
(***************************************************************************)
EXTENDS RoutingTable

PlainEntry == [id : Ids, caps : SUBSET STRING, image : BOOLEAN]
DetailEntry == [id : Ids, type : STRING, flags : SUBSET STRING]

Answered(a, Entries) ==
  a = Failed \/ (a = Listing(a.models) /\ a.models \in Seq(Entries))

(* modelCapabilities: the proxy's own field, or else OpenRouter's.         *)
modelCapabilities(m) ==
  IF m.caps # {} THEN m.caps ELSE IF m.image THEN {"vision"} ELSE {}

ModelsFromOpenAI(ms) == [i \in DOMAIN ms |-> [id |-> ms[i].id, caps |-> modelCapabilities(ms[i])]]

OpenAIModels(u) == IF u.plain.ok THEN Listing(ModelsFromOpenAI(u.plain.models)) ELSE Failed

AnthropicModels(u) ==
  LET ms == u.plain.models
  IN IF u.plain.ok THEN Listing([i \in DOMAIN ms |-> [id |-> ms[i].id, caps |-> {}]]) ELSE Failed

-----------------------------------------------------------------------------
(* LiteLLM: the list of /v1/models, enriched when /model/info answers.     *)

flagCapability(f) ==
  CASE f \in {"function_calling", "tool_choice"} -> "tools"
    [] f = "pdf_input"       -> "pdf"
    [] f = "response_schema" -> "structured_output"
    [] OTHER                 -> f

(* The entries of /model/info by name: the last one of a name counts.      *)
fetchModelInfo(detail) ==
  FoldLeft(LAMBDA meta, e : With(meta, e.id, {flagCapability(f) : f \in e.flags}),
           <<>>, detail.models)

Enriched(m, meta) ==
  IF m.id \in DOMAIN meta /\ meta[m.id] # {} THEN [m EXCEPT !.caps = meta[m.id]] ELSE m

(* Slip: a server without /model/info is taken for a broken one. *)
LiteLLMModelsStrict(u) ==
  LET inner == OpenAIModels(u)
      meta  == fetchModelInfo(u.detail)
  IN IF ~inner.ok \/ ~u.detail.ok THEN Failed
     ELSE Listing([i \in DOMAIN inner.models |-> Enriched(inner.models[i], meta)])

LiteLLMModels(u) ==
  LET inner == OpenAIModels(u)
      meta  == fetchModelInfo(u.detail)
  IN IF ~inner.ok \/ ~u.detail.ok THEN inner
     ELSE Listing([i \in DOMAIN inner.models |-> Enriched(inner.models[i], meta)])

-----------------------------------------------------------------------------
(* LM Studio: its own list, or /v1/models when there is none.              *)

mapCapabilities(flags) ==
  {IF f = "trained_for_tool_use" THEN "tools" ELSE f : f \in flags}

fetchNativeModels(detail) ==
  LET known == Among(detail.models, {e \in ToSet(detail.models) : e.type \in {"llm", "embedding"}})
  IN [i \in DOMAIN known |->
        [id   |-> known[i].id,
         caps |-> IF known[i].type = "llm" THEN mapCapabilities(known[i].flags)
                  ELSE {"embeddings"}]]

LMStudioModels(u) ==
  IF u.detail.ok THEN Listing(fetchNativeModels(u.detail)) ELSE OpenAIModels(u)

-----------------------------------------------------------------------------
(* llama.cpp and vLLM: the capabilities are those of the configuration.    *)

Configured(p, id) == IF id \in DOMAIN Overrides[p] THEN Overrides[p][id] ELSE {}

LlamaCppModels(p, u) ==
  LET inner == OpenAIModels(u)
  IN IF ~inner.ok THEN Failed
     ELSE Listing([i \in DOMAIN inner.models |->
                     [inner.models[i] EXCEPT !.caps = Configured(p, inner.models[i].id)]])

Static(c) == Listing([i \in DOMAIN c.static |-> [id |-> c.static[i], caps |-> {}]])

discoverModels(c, u) == IF c.discover THEN OpenAIModels(u) ELSE Static(c)

(* Before New has primed the provider a model without configured           *)
(* capabilities is an error, afterwards it is left out.                    *)
VLLMModels(p, c, u, primed) ==
  LET asked      == discoverModels(c, u)
      unusable   == ~asked.ok \/ asked.models = <<>>
      discovered == IF unusable /\ c.static # <<>> THEN Static(c) ELSE asked
      bare(m)    == Configured(p, m.id) = {}
      kept       == Among(discovered.models, {m \in ToSet(discovered.models) : ~bare(m)})
  IN IF \/ unusable /\ c.static = <<>>
        \/ ~primed /\ \E i \in DOMAIN discovered.models : bare(discovered.models[i])
     THEN Failed
     ELSE Listing([i \in DOMAIN kept |-> [kept[i] EXCEPT !.caps = Configured(p, kept[i].id)]])

-----------------------------------------------------------------------------
Models(p, c, u, primed) ==
  CASE c.kind = "openai"    -> OpenAIModels(u)
    [] c.kind = "anthropic" -> AnthropicModels(u)
    [] c.kind = "litellm"   -> LiteLLMModels(u)
    [] c.kind = "lmstudio"  -> LMStudioModels(u)
    [] c.kind = "llama-cpp" -> LlamaCppModels(p, u)
    [] c.kind = "vllm"      -> VLLMModels(p, c, u, primed)

IdsOf(answer) == {m.id : m \in ToSet(answer.models)}
=============================================================================
