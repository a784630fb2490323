-------------------------------- MODULE Wire --------------------------------
(***************************************************************************)
(* The way of a request from the client's JSON to the upstream's: the      *)
(* functions of translator/openai.go and embeddings.go, and the mutators   *)
(* of the vLLM and llama.cpp providers.                                    *)
(*                                                                         *)
(* The body of a chat request is a record [messages, effort, nested,       *)
(* format, grammar]; the scalar fields and the tools, which are copied one *)
(* by one, are left out.  The content of a message is "absent", "null",    *)
(* "empty", "text" or "parts" (an array), format has a type and a sequence *)
(* of at most one schema.  Which grammar a schema becomes is a parameter:  *)
(* schemaToGBNF of module Grammar.                                         *)
(***************************************************************************)
EXTENDS Integers, SequencesExt

CONSTANT ToGrammar(_)

Absent == "absent"

IsChatRequest(body) ==
  /\ body.messages \in Seq([role : STRING, content : STRING, calls : Nat])
  /\ \A list \in {body.format.schema, body.grammar} : list = <<>> \/ list = <<list[1]>>

(* Content that is no string, or an empty one, is kept raw. *)
RequestFromOpenAI(body) ==
  [messages |-> [i \in DOMAIN body.messages |->
     LET m == body.messages[i]
     IN [role |-> m.role, calls |-> m.calls,
         text |-> IF m.content = "text" THEN "text" ELSE "",
         raw  |-> IF m.content \in {"text", Absent} THEN Absent ELSE m.content]],
   effort  |-> IF body.effort # Absent THEN body.effort ELSE body.nested,
   schema  |-> IF body.format.type = "json_schema" THEN body.format.schema ELSE <<>>,
   grammar |-> body.grammar]

(* What is not in the record is not in the JSON. *)
RequestToOpenAI(req) ==
  [messages |-> [i \in DOMAIN req.messages |->
     LET m == req.messages[i]
     IN [role |-> m.role, calls |-> m.calls,
         content |-> IF m.raw # Absent THEN m.raw
                     ELSE IF m.text = "" THEN "empty" ELSE m.text]],
   schema   |-> req.schema,
   thinking |-> Absent,
   grammar  |-> <<>>]

Sent(body) == [ok |-> TRUE, body |-> body]
NotSent    == [ok |-> FALSE]

injectGrammar(body, grammar) == [body EXCEPT !.grammar = <<grammar>>, !.schema = <<>>]

(* Slip: response_format comes before the client's own grammar. *)
llamacppMutatorFormatFirst(body, req) ==
  IF req.schema # <<>>
  THEN LET g == ToGrammar(req.schema[1])
       IN IF g.ok THEN Sent(injectGrammar(body, g)) ELSE NotSent
  ELSE IF req.grammar # <<>> THEN Sent(injectGrammar(body, req.grammar[1])) ELSE Sent(body)

llamacppMutator(body, req) ==
  IF req.grammar # <<>> THEN Sent(injectGrammar(body, req.grammar[1]))
  ELSE IF req.schema = <<>> THEN Sent(body)
  ELSE LET g == ToGrammar(req.schema[1])
       IN IF g.ok THEN Sent(injectGrammar(body, g)) ELSE NotSent

(* injectChatTemplateKwargs with the thinking key. *)
vllmMutator(body, req) ==
  IF req.effort = Absent THEN Sent(body)
  ELSE Sent([body EXCEPT !.thinking = IF req.effort \in {"", "none", "minimal"} THEN "off" ELSE "on"])

(* Provider.Chat and ChatStream of the three, up to the upstream call. *)
Upstream(kind, body) ==
  LET req == RequestFromOpenAI(body)
      out == RequestToOpenAI(req)
  IN CASE kind = "openai"    -> Sent(out)
       [] kind = "vllm"      -> vllmMutator(out, req)
       [] kind = "llama-cpp" -> llamacppMutator(out, req)

-----------------------------------------------------------------------------
(* Embeddings.  A number is a pair [high, low]: the part that a float32    *)
(* holds and the rest.  A call is [kind, texts, wants, vectors, gives,     *)
(* order]: the input, a string or an array, and the encoding the client    *)
(* wants; and of the upstream the vectors of the texts, the encoding it    *)
(* gives and the order it lists them in.                                   *)

Numbers == [high : Int, low : Int]

(* Every text has a vector, and the upstream lists each of them once. *)
IsEmbedCall(call) ==
  /\ call.texts \in Seq(STRING) /\ call.texts # <<>>
  /\ call.kind = "string" => Len(call.texts) = 1
  /\ call.vectors \in Seq(Seq(Numbers)) /\ Len(call.vectors) = Len(call.texts)
  /\ call.order \in Bijection(DOMAIN call.texts, DOMAIN call.texts)

decodeEmbedInput(call) == IF call.kind = "string" THEN <<call.texts[1]>> ELSE call.texts

float32(xs) == [i \in DOMAIN xs |-> [xs[i] EXCEPT !.low = 0]]

(* A base64 string holds float32 values. *)
Encoded(xs, format) ==
  IF format = "base64" THEN [base64 |-> TRUE, values |-> float32(xs)]
  ELSE [base64 |-> FALSE, values |-> xs]

EmbedRequestFromOpenAI(call) ==
  [input |-> decodeEmbedInput(call), format |-> IF call.wants = "" THEN "float" ELSE call.wants]

(* Floats are asked for whatever the client wants. *)
EmbedRequestToOpenAI(req) == [input |-> req.input, format |-> "float"]

(* An upstream may ignore the format. *)
EmbedUpstream(call, request) ==
  [i \in DOMAIN request.input |->
     [index     |-> call.order[i] - 1,
      embedding |-> Encoded(call.vectors[call.order[i]],
                            IF call.gives = "" THEN request.format ELSE call.gives)]]

EmbedResponseFromOpenAI(data) ==
  [i \in DOMAIN data |-> [index |-> data[i].index, values |-> data[i].embedding.values]]

(* Slip: vectors are numbered by their place in the answer. *)
EmbedResponseToOpenAIByPlace(embeddings, format) ==
  [i \in DOMAIN embeddings |->
     [index |-> i - 1, embedding |-> Encoded(embeddings[i].values, format)]]

EmbedResponseToOpenAI(embeddings, format) ==
  [i \in DOMAIN embeddings |->
     [index |-> embeddings[i].index, embedding |-> Encoded(embeddings[i].values, format)]]

(* handleEmbeddings with an openai provider. *)
EmbedAnswer(call) ==
  LET req  == EmbedRequestFromOpenAI(call)
      data == EmbedUpstream(call, EmbedRequestToOpenAI(req))
  IN EmbedResponseToOpenAI(EmbedResponseFromOpenAI(data), req.format)
=============================================================================
