----------------------------- MODULE Translation -----------------------------
(***************************************************************************)
(* What the translators make of the content of an answer and of the        *)
(* messages of a request: translator/openai.go, openai/think.go and        *)
(* anthropic/provider.go.                                                  *)
(*                                                                         *)
(* An upstream composes its answer frame by frame.  Streamed, every frame  *)
(* is turned into a chunk and the chunk into what the client is sent;      *)
(* without streaming the whole answer is translated at once.  A client     *)
(* composes a conversation message by message, and toMessageParams turns   *)
(* it into Anthropic's turns.  What is translated at one go is an input:   *)
(* chat requests and calls of the embeddings of module Wire, and schemas   *)
(* of module Grammar.                                                      *)
(*                                                                         *)
(* A text is a sequence of letters, line breaks and tags, of which a frame *)
(* holds one at most: think.go's "tags arrive as complete tokens".  Names, *)
(* models, usage and the JSON itself are left out.                         *)
(***************************************************************************)
EXTENDS Wire

CONSTANTS
  Letters,
  Deltas,      \* the texts of a frame
  MaxFrames,   \* bound on the frames of an answer
  MaxMessages, \* bound on the messages of a conversation
  MaxCalls,    \* bound on the tool calls of an assistant's message
  Schemas, ChatRequests, EmbedCalls   \* inputs of Grammar and Wire

Break == "\n"
Open  == "<think>"
Close == "</think>"
Tags  == {Open, Close}

ASSUME TranslationAssumption ==
  /\ MaxFrames \in Nat /\ MaxMessages \in Nat /\ MaxCalls \in Nat
  /\ Letters \cap ({Break} \cup Tags) = {}
  /\ \A text \in Deltas :
       /\ text \in Seq(Letters \cup {Break} \cup Tags)
       /\ \A i, k \in DOMAIN text : {text[i], text[k]} \subseteq Tags => i = k
  /\ \A body \in ChatRequests : IsChatRequest(body)
  /\ \A call \in EmbedCalls : IsEmbedCall(call)

VARIABLES
  side,        \* what is translated: "tags", "field", "anthropic" or "request",
               \* or an input: "schema", "chat" or "embed"
  input,       \* the input
  frames,      \* number of frames so far
  answer,      \* the whole answer so far, as the upstream means it
  inThink,     \* thinkParser
  toolCallIdx, nextToolCall,  \* the anthropic producer
  sent,        \* the payloads sent to the client
  ended,       \* [DONE] was sent
  messages     \* the conversation

producer == <<inThink, toolCallIdx, nextToolCall>>
stream == <<frames, answer, producer, sent, ended>>
vars == <<side, input, stream, messages>>

NoCall == 0

(* The answers of the openai dialect have a content, a reasoning field and *)
(* tool calls, those of anthropic are a sequence of blocks.  The content   *)
(* that comes with finish_reason "stop" is kept apart, as last.            *)
Init ==
  /\ \/ side \in {"tags", "field", "anthropic", "request"} /\ input = <<>>
     \/ side = "schema" /\ input \in Schemas
     \/ side = "chat" /\ input \in ChatRequests
     \/ side = "embed" /\ input \in EmbedCalls
  /\ frames = 0
  /\ answer = [content |-> <<>>, reasoning |-> <<>>, calls |-> <<>>, blocks |-> <<>>,
               last |-> <<>>]
  /\ inThink = FALSE
  /\ toolCallIdx = <<>> /\ nextToolCall = 0
  /\ sent = <<>> /\ ended = FALSE
  /\ messages = <<>>

-----------------------------------------------------------------------------
(* Chunks                                                                  *)

Chunk == [delta |-> <<>>, thinking |-> <<>>, index |-> NoCall, id |-> NoCall,
          args |-> <<>>, done |-> FALSE]

(* A payload carries a fragment of a tool call or else text. *)
ChunkToOpenAI(c) ==
  IF c.index # NoCall THEN [c EXCEPT !.delta = <<>>, !.thinking = <<>>]
  ELSE [c EXCEPT !.id = NoCall, !.args = <<>>]

(* The handler: [DONE] takes the place of a Done chunk. *)
Send(c) ==
  /\ ended' = c.done
  /\ sent' = IF c.done THEN sent ELSE Append(sent, ChunkToOpenAI(c))

(* The fields that ChunkFromOpenAI reads; delta.tool_calls is not one. *)
ChunkFromOpenAI(frame) ==
  [Chunk EXCEPT !.delta = frame.content, !.thinking = frame.reasoning,
                !.done = (frame.finish = "stop")]

Position(text, tag) == SelectInSeq(text, LAMBDA x : x = tag)
TrimPrefix(text) == IF text # <<>> /\ Head(text) = Break THEN Tail(text) ELSE text

Passed(c) == c.done \/ c.index # NoCall \/ c.thinking # <<>>

(* thinkParser.process: the chunk, and whether it is inside of <think>     *)
(* afterwards.                                                             *)
process(c) ==
  LET at     == Position(c.delta, IF inThink THEN Close ELSE Open)
      before == SubSeq(c.delta, 1, at - 1)
      after  == TrimPrefix(SubSeq(c.delta, at + 1, Len(c.delta)))
  IN  IF Passed(c) \/ (at = 0 /\ ~inThink) THEN [chunk |-> c, inThink |-> inThink]
      ELSE IF at = 0
      THEN [chunk |-> [c EXCEPT !.delta = <<>>, !.thinking = c.delta], inThink |-> TRUE]
      ELSE IF inThink
      THEN [chunk |-> [c EXCEPT !.delta = after, !.thinking = before], inThink |-> FALSE]
      ELSE [chunk |-> [c EXCEPT !.delta = before, !.thinking = after], inThink |-> TRUE]

Frame == [content |-> <<>>, reasoning |-> <<>>, finish |-> ""]

(* One "data:" line of the openai producer. *)
Receive(frame) ==
  LET result == process(ChunkFromOpenAI(frame))
  IN  /\ ~ended /\ frames < MaxFrames
      /\ frames' = frames + 1
      /\ Send(result.chunk)
      /\ inThink' = result.inThink
      /\ UNCHANGED <<side, input, toolCallIdx, nextToolCall, messages>>

Content(text) ==
  /\ side \in {"tags", "field"}
  /\ side = "field" => ToSet(text) \cap Tags = {}
  /\ Receive([Frame EXCEPT !.content = text])
  /\ answer' = [answer EXCEPT !.content = @ \o text]

(* reasoning_content, or vLLM's reasoning. *)
Reasoning(text) ==
  /\ side = "field"
  /\ ToSet(text) \cap Tags = {}
  /\ Receive([Frame EXCEPT !.reasoning = text])
  /\ answer' = [answer EXCEPT !.reasoning = @ \o text]

(* A fragment of a new tool call or of the last one. *)
Grown(calls, text) ==
  IF text = <<>> THEN Append(calls, [id |-> Len(calls) + 1, args |-> <<>>])
  ELSE [calls EXCEPT ![Len(calls)].args = @ \o text]

ToolCall(text) ==
  /\ side = "field"
  /\ text = <<>> \/ answer.calls # <<>>
  /\ Receive(Frame)
  /\ answer' = [answer EXCEPT !.calls = Grown(@, text)]

(* A finish_reason may come with the last text, which [DONE] takes the     *)
(* place of if the reason is "stop".                                       *)
Finish(text) ==
  /\ side \in {"tags", "field"}
  /\ \E reason \in {"stop", "length", "tool_calls"} :
       /\ Receive([Frame EXCEPT !.content = text, !.finish = reason])
       /\ answer' = IF reason = "stop" THEN [answer EXCEPT !.last = text]
                    ELSE [answer EXCEPT !.content = @ \o text]

-----------------------------------------------------------------------------
(* The events of an Anthropic stream: processEvent                         *)

Event ==
  /\ side = "anthropic" /\ ~ended /\ frames < MaxFrames
  /\ frames' = frames + 1
  /\ UNCHANGED <<side, input, inThink, messages>>

Blocks == answer.blocks

(* Slip: a call keeps the number of its content block. *)
ContentBlockStartByBlock(type) ==
  /\ Event
  /\ answer' = [answer EXCEPT !.blocks =
       Append(@, [type |-> type, id |-> Len(@) + 1, body |-> <<>>])]
  /\ IF type = "tool_use"
     THEN /\ toolCallIdx' = Append(toolCallIdx, Len(Blocks) + 1)
          /\ nextToolCall' = nextToolCall + 1
          /\ Send([Chunk EXCEPT !.index = Len(Blocks) + 1, !.id = Len(Blocks) + 1])
     ELSE /\ toolCallIdx' = Append(toolCallIdx, NoCall)
          /\ UNCHANGED <<nextToolCall, sent, ended>>

(* Calls are numbered among the tool_use blocks (from 1 here); an entry    *)
(* NoCall is a block that toolCallIdx does not hold.                       *)
ContentBlockStart(type) ==
  /\ Event
  /\ answer' = [answer EXCEPT !.blocks =
       Append(@, [type |-> type, id |-> Len(@) + 1, body |-> <<>>])]
  /\ IF type = "tool_use"
     THEN /\ toolCallIdx' = Append(toolCallIdx, nextToolCall + 1)
          /\ nextToolCall' = nextToolCall + 1
          /\ Send([Chunk EXCEPT !.index = nextToolCall + 1, !.id = Len(Blocks) + 1])
     ELSE /\ toolCallIdx' = Append(toolCallIdx, NoCall)
          /\ UNCHANGED <<nextToolCall, sent, ended>>

(* text_delta, thinking_delta or input_json_delta, as its block asks for;  *)
(* a block ends before the next one starts.                                *)
ContentBlockDelta(text) ==
  LET b == Len(Blocks)
  IN  /\ Event /\ b > 0
      /\ answer' = [answer EXCEPT !.blocks[b].body = @ \o text]
      /\ Send(CASE Blocks[b].type = "text" -> [Chunk EXCEPT !.delta = text]
                [] Blocks[b].type = "thinking" -> [Chunk EXCEPT !.thinking = text]
                [] Blocks[b].type = "tool_use" ->
                     [Chunk EXCEPT !.index = toolCallIdx[b], !.args = text])
      /\ UNCHANGED <<toolCallIdx, nextToolCall>>

MessageStop ==
  /\ Event
  /\ Send([Chunk EXCEPT !.done = TRUE])
  /\ UNCHANGED <<answer, toolCallIdx, nextToolCall>>

-----------------------------------------------------------------------------
(* The whole answer                                                        *)

(* One more symbol of the content; in is TRUE behind an open tag. *)
Extract(acc, x) ==
  IF acc.in THEN IF x = Close THEN [acc EXCEPT !.in = FALSE]
                 ELSE [acc EXCEPT !.thinking = Append(@, x)]
  ELSE IF x = Open THEN [acc EXCEPT !.in = TRUE]
       ELSE [acc EXCEPT !.remaining = Append(@, x)]

(* TrimSpace is left to Visible below. *)
extractThinkTags(content) ==
  FoldLeft(Extract, [in |-> FALSE, thinking |-> <<>>, remaining |-> <<>>], content)

ResponseFromOpenAI ==
  LET content == answer.content \o answer.last
      split == extractThinkTags(content)
      tagged == answer.reasoning = <<>> /\ Contains(content, Open)
  IN  [thinking |-> IF tagged THEN split.thinking ELSE answer.reasoning,
       content  |-> IF tagged THEN split.remaining ELSE content,
       calls    |-> answer.calls]

NoAnswer == [thinking |-> <<>>, content |-> <<>>, calls |-> <<>>]

(* One more block of the message. *)
Add(acc, block) ==
  CASE block.type = "text"     -> [acc EXCEPT !.content = @ \o block.body]
    [] block.type = "thinking" -> [acc EXCEPT !.thinking = @ \o block.body]
    [] block.type = "tool_use" ->
         [acc EXCEPT !.calls = Append(@, [id |-> block.id, args |-> block.body])]

fromMessage == FoldLeft(Add, NoAnswer, Blocks)

-----------------------------------------------------------------------------
(* The request                                                             *)

Message(role, text, calls, result) ==
  [role |-> role, text |-> text, calls |-> calls, result |-> result]

(* The tool calls whose results are missing; ids are unique. *)
Made == UNION {ToSet(messages[i].calls) : i \in DOMAIN messages}
Answered == {messages[i].result : i \in DOMAIN messages}
Pending == Made \ Answered

Says(m) ==
  /\ side = "request" /\ Len(messages) < MaxMessages
  /\ messages' = Append(messages, m)
  /\ UNCHANGED <<side, input, stream>>

UserSays == Pending = {} /\ Says(Message("user", TRUE, <<>>, NoCall))
SystemSays == Says(Message("system", TRUE, <<>>, NoCall))
AssistantSays ==
  /\ Pending = {}
  /\ \E n \in 0 .. MaxCalls, text \in BOOLEAN :
       /\ text \/ n > 0
       /\ Says(Message("assistant", text,
                      [i \in 1 .. n |-> Len(messages) * MaxCalls + i], NoCall))
ToolAnswers == \E call \in Pending : Says(Message("tool", FALSE, <<>>, call))

(* An Anthropic turn: the role, and the content blocks.  A block is a text *)
(* of the n-th message, the use of a tool or its result.                   *)
Turn(role, blocks) == [role |-> role, blocks |-> blocks]
Block(kind, of) == [kind |-> kind, of |-> of]

assistantContentBlocks(m, n) ==
  (IF m.text THEN <<Block("text", n)>> ELSE <<>>)
    \o [i \in DOMAIN m.calls |-> Block("use", m.calls[i])]

(* Slip: every result becomes a turn of its own. *)
GroupsNothing(joins) == FALSE

(* Does a tool's message join the turn of the tool's message before it? *)
Groups(joins) == joins

(* One more message, the n-th. *)
Translate(acc, m) ==
  LET n == acc.n + 1
      result == Block("result", m.result)
      turn(role, blocks, joins) ==
        [n |-> n, turns |-> Append(acc.turns, Turn(role, blocks)), joins |-> joins]
  IN CASE m.role = "user"      -> turn("user", <<Block("text", n)>>, FALSE)
       [] m.role = "assistant" -> turn("assistant", assistantContentBlocks(m, n), FALSE)
       [] m.role = "tool" /\ ~Groups(acc.joins) -> turn("user", <<result>>, TRUE)
       [] m.role = "tool" /\ Groups(acc.joins) ->
            [acc EXCEPT !.n = n, !.turns[Len(acc.turns)].blocks = Append(@, result)]

NoTurns == [n |-> 0, turns |-> <<>>, joins |-> FALSE]
toAnthropicMessages(rawMsgs) == FoldLeft(Translate, NoTurns, rawMsgs).turns

(* The system messages are taken out first and become a field. *)
Separate(acc, m) ==
  IF m.role = "system" THEN [acc EXCEPT !.system = Append(@, m)]
  ELSE [acc EXCEPT !.rawMsgs = Append(@, m)]
Separated == FoldLeft(Separate, [system |-> <<>>, rawMsgs |-> <<>>], messages)

toMessageParams == [system |-> Separated.system, turns |-> toAnthropicMessages(Separated.rawMsgs)]

-----------------------------------------------------------------------------

Next ==
  \/ \E text \in Deltas : Content(text) \/ Reasoning(text)
  \/ \E text \in {<<>>} \cup {<<x>> : x \in Letters} : ToolCall(text)
  \/ \E text \in {<<>>} \cup {<<x>> : x \in Letters} : Finish(text)
  \/ \E type \in {"text", "thinking", "tool_use"} : ContentBlockStart(type)
  \/ \E x \in Letters : ContentBlockDelta(<<x>>)
  \/ MessageStop
  \/ UserSays \/ SystemSays \/ AssistantSays \/ ToolAnswers

Spec == Init /\ [][Next]_vars

-----------------------------------------------------------------------------
(* Properties                                                              *)

(* What a client puts together from the payloads it is sent: texts, and    *)
(* calls by their index.                                                   *)
Take(acc, c) ==
  [thinking |-> acc.thinking \o c.thinking,
   content  |-> acc.content \o c.delta,
   calls    |-> IF c.index = NoCall THEN acc.calls
                ELSE [k \in DOMAIN acc.calls \cup {c.index} |->
                        IF k # c.index THEN acc.calls[k]
                        ELSE IF k \in DOMAIN acc.calls
                        THEN [acc.calls[k] EXCEPT !.args = @ \o c.args]
                        ELSE [id |-> c.id, args |-> c.args]]]
Received == FoldLeft(Take, NoAnswer, sent)

Unary == IF side = "anthropic" THEN fromMessage ELSE ResponseFromOpenAI

See(acc, x) == IF x = Break THEN acc ELSE Append(acc, x)
Visible(text) == FoldLeft(See, <<>>, text)

(* Streamed or not, a client reads the same thoughts and the same text, up *)
(* to line breaks, at every point of the stream: also when a tag is never  *)
(* closed, is nested, or comes without its partner (openai.go:159-161,     *)
(* think.go:9-14).  All that a stream lacks is the text that comes with    *)
(* finish_reason "stop", at the end of the thoughts or of the text.        *)
(* Parallel tool calls of an anthropic stream come together as they are in *)
(* the whole answer (roadmap.md:80-81), whatever blocks come between them. *)
StreamAsUnary ==
  LET lacks(open) == IF inThink = open THEN answer.last ELSE <<>>
  IN  /\ Visible(Received.thinking \o lacks(TRUE)) = Visible(Unary.thinking)
      /\ Visible(Received.content \o lacks(FALSE)) = Visible(Unary.content)
      /\ side = "anthropic" => Received.calls = Unary.calls

(* An agentic loop with parallel calls is translated so that Anthropic     *)
(* accepts it (roadmap.md:74-75): when all calls are answered, the turn    *)
(* after a turn with tool calls carries all of their results, and nothing  *)
(* else does.  At any point the texts of the turns are those of the        *)
(* messages, each in a turn of its role, and in their order.               *)
Of(turn, kind) == {b.of : b \in {c \in ToSet(turn.blocks) : c.kind = kind}}

ResultsFollowCalls ==
  LET turns == toMessageParams.turns
      raw   == Separated.rawMsgs
      At(i) == IF i \in DOMAIN turns THEN turns[i] ELSE Turn("", <<>>)
  IN  /\ Pending = {} =>
           \A i \in 0 .. Len(turns) : Of(At(i), "use") = Of(At(i + 1), "result")
      /\ \A n \in DOMAIN raw :
           raw[n].text <=> \E i \in DOMAIN turns : n \in Of(turns[i], "text")
      /\ \A i \in DOMAIN turns : \A n \in Of(turns[i], "text") :
           n \in DOMAIN raw /\ raw[n].role = turns[i].role
      /\ \A i, j \in DOMAIN turns :
           \A k \in DOMAIN turns[i].blocks, l \in DOMAIN turns[j].blocks :
             LET b == turns[i].blocks[k]
                 c == turns[j].blocks[l]
             IN b.kind = "text" /\ c.kind = "text" /\ (i < j \/ (i = j /\ k < l)) => b.of < c.of

(* Some of what a client asks for arrives or the request is refused: the   *)
(* messages as they were (an absent content is an empty one), a schema     *)
(* where the upstream has one, the thinking switch of vLLM; and llama.cpp, *)
(* which must not see a response_format, is never left without the         *)
(* constraint the client gave (gap-developer-guide.md:321-341).  Only a    *)
(* schema that has no grammar is refused.  An effort towards openai, a     *)
(* json_object and a grammar that is not for llama.cpp are another matter. *)
RequestKept ==
  side = "chat" => \A kind \in {"openai", "vllm", "llama-cpp"} :
    LET out    == Upstream(kind, input)
        schema == IF input.format.type = "json_schema" THEN input.format.schema ELSE <<>>
        asked  == IF input.effort = Absent THEN input.nested ELSE input.effort
    IN IF ~out.ok THEN /\ kind = "llama-cpp" /\ input.grammar = <<>>
                       /\ schema # <<>> /\ ~ToGrammar(schema[1]).ok
       ELSE /\ Len(out.body.messages) = Len(input.messages)
            /\ \A i \in DOMAIN input.messages :
                 LET was == input.messages[i]
                     is  == out.body.messages[i]
                 IN /\ is.role = was.role /\ is.calls = was.calls
                    /\ is.content = IF was.content = Absent THEN "empty" ELSE was.content
            /\ kind = "vllm" => (out.body.thinking = "on") <=>
                                   (asked \notin {Absent, "", "none", "minimal"})
            /\ IF kind # "llama-cpp" THEN out.body.schema = schema
               ELSE /\ out.body.schema = <<>>
                    /\ out.body.grammar = IF input.grammar # <<>> THEN input.grammar
                                          ELSE [i \in DOMAIN schema |-> ToGrammar(schema[i])]

(* Every text of a call of the embeddings gets its own vector, whatever    *)
(* order and encoding the upstream chooses; numbers lose what a float32    *)
(* does not hold only when base64 is on the way (embeddings.go:77-80 and   *)
(* 188-190).                                                               *)
EmbeddingsKept ==
  side = "embed" =>
    LET data == EmbedAnswer(input)
    IN /\ Len(data) = Len(input.texts)
       /\ \A k \in DOMAIN input.texts : \E i \in DOMAIN data :
            /\ \A j \in DOMAIN data : data[j].index = k - 1 <=> j = i
            /\ data[i].embedding.base64 = (input.wants = "base64")
            /\ data[i].embedding.values =
                 IF "base64" \in {input.wants, input.gives} THEN float32(input.vectors[k])
                 ELSE input.vectors[k]

-----------------------------------------------------------------------------
(* What the documentation says and the code does not do.                   *)

(* gap-developer-guide.md:242 and 277: tool calls are streamed, whatever   *)
(* the upstream is.                                                        *)
CallsStreamed == Received.calls = Unary.calls
=============================================================================
