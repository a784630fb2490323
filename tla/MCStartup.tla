----------------------------- MODULE MCStartup -----------------------------
(* Three providers.  One deployment lets plain lists vary widely: two       *)
(* overlapping patterns, capabilities on models and patterns, a configured  *)
(* override.  The others mix the provider types, whose upstreams change     *)
(* once; the last ones have a configuration that is refused.                *)
EXTENDS Startup, TLC

CONSTANTS p1, p2, p3, m, g, h, x, r1

Order == <<p1, p2, p3>>

Three(c1, c2, c3) == p1 :> c1 @@ p2 :> c2 @@ p3 :> c3

(* Both patterns match the name x, and h also matches m. *)
Pairs == {<<g, x>>, <<h, x>>, <<h, m>>}

(* What p2 reports for m, and p3 for x, is overridden. *)
Overriding == Three(<<>>, m :> {"vision", "tools"}, x :> {"tools"})

Limited ==
  Three([set |-> TRUE, default |-> 0, models |-> x :> 1],
        [set |-> TRUE, default |-> 2, models |-> m :> 0],
        [set |-> FALSE, default |-> 0, models |-> <<>>])

Entry(id, caps) == [id |-> id, caps |-> caps, image |-> FALSE]
Picture(id) == [id |-> id, caps |-> {}, image |-> TRUE]
Detail(id, type, flags) == [id |-> id, type |-> type, flags |-> flags]

ListsOf(S, n) == UNION {[1 .. k -> S] : k \in 0 .. n}
Upstreams(plains, details) == [plain : plains, detail : details]
Only(plains) == Upstreams(plains, {Failed})
Answers(lists) == {Listing(ms) : ms \in lists} \cup {Failed}

Of(kind) == [kind |-> kind, url |-> kind # "anthropic", insecure |-> FALSE,
             auth |-> "api_key", keys |-> 1, static |-> <<>>, discover |-> TRUE]
Deploy(cs, us, n) == [conf |-> cs, upstreams |-> us, changes |-> n]

Wide == Deploy(
  Three(Of("openai"), Of("openai"), Of("openai")),
  Three(Only(Answers(ListsOf({Entry(m, {}), Picture(m), Entry(g, {})}, 2))),
        Only(Answers(ListsOf({Entry(m, {}), Entry(h, {"vision"}), Entry(x, {"vision"})}, 2))),
        Only(Answers({<<>>, <<Picture(m), Entry(g, {"vision"})>>, <<Entry(h, {}), Entry(m, {})>>}))),
  0)

Servers2 == {Failed, Listing(<<Entry(m, {"tools"}), Entry(x, {})>>)}

Mixed == Deploy(
  Three(Of("litellm"), Of("vllm"), Of("lmstudio")),
  Three(Upstreams(Servers2, {Failed, Listing(<<Detail(m, "", {"vision", "tool_choice"}),
                                               Detail(x, "", {"tool_choice"}),
                                               Detail(m, "", {})>>)}),
        Only({Failed, Listing(<<>>), Listing(<<Entry(m, {})>>),
              Listing(<<Entry(x, {"vision"}), Entry(m, {})>>)}),
        Upstreams(Servers2, {Failed, Listing(<<Detail(m, "llm", {"trained_for_tool_use"}),
                                               Detail(x, "embedding", {}),
                                               Detail(h, "reranker", {})>>)})),
  1)

Fallback(discover) == Deploy(
  Three(Of("anthropic"), [Of("vllm") EXCEPT !.static = <<m>>, !.discover = discover],
        Of("llama-cpp")),
  Three(Only(Servers2),
        Only({Failed, Listing(<<>>), Listing(<<Entry(m, {}), Entry(x, {})>>)}),
        Only(Servers2)),
  1)

Refused(c) == Deploy(Three(c, Of("openai"), Of("openai")),
                     Three(Only({Failed}), Only({Failed}), Only({Failed})), 0)

Cases == <<
  Wide, Mixed, Fallback(TRUE), Fallback(FALSE),
  Refused([Of("openai") EXCEPT !.url = FALSE]),
  Refused(Of("llama-cpp")), Refused(Of("vllm")), Refused(Of("gemini")),
  Refused([Of("anthropic") EXCEPT !.keys = 0]),
  Refused([Of("anthropic") EXCEPT !.insecure = TRUE]),
  Refused([Of("anthropic") EXCEPT !.auth = "none"])>>
=============================================================================
