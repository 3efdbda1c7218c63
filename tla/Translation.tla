----------------------------- MODULE Translation -----------------------------
(***************************************************************************)
(* How the adapters (src/src/providers) turn a chat completion request     *)
(* into the provider's own: translateRequest of Anthropic, Gemini and      *)
(* Cohere, buildChatBody of OpenAI and Mistral.                            *)
(*                                                                         *)
(* A message has a role, a content (a sequence of parts), the tool calls   *)
(* of an assistant and the id a tool message answers.  A string content is *)
(* one text part, and no part when it is empty.  A text is a sequence of   *)
(* the pieces it was joined from.                                          *)
(***************************************************************************)
EXTENDS Integers, Sequences, SequencesExt

CONSTANTS
    ModelMax,          \* maxOutputTokens of each model, Unset if unknown
    DefaultMaxTokens   \* DEFAULT_MAX_TOKENS

Unset == 0            \* an optional field that is not there
NotJson == <<"not JSON">>   \* arguments of a tool call that do not parse

Part(kind, id, name, text) == [kind |-> kind, id |-> id, name |-> name, text |-> text]
TextPart(text) == Part("text", "none", "none", text)
DataImage(x) == Part("data", "none", "none", <<x>>)   \* a data: URL
UrlImage(x) == Part("url", "none", "none", <<x>>)
Call(id, name, args) == Part("call", id, name, args)

IsText(part) == part.kind = "text"

flattenText(content) ==
    LET texts == SelectSeq(content, IsText)
    IN  FlattenSeq([i \in DOMAIN texts |-> texts[i].text])

Turn(role, parts) == [role |-> role, parts |-> parts]

(* Mutant of push: a turn of the same role replaces the last one. *)
pushOver(turns, turn) ==
    IF turn.parts = <<>> THEN turns
    ELSE IF turns # <<>> /\ Last(turns).role = turn.role
    THEN Append(Front(turns), turn)
    ELSE Append(turns, turn)

(* The providers want turns that alternate: a turn of the same role joins   *)
(* the last one, and a turn without parts is none.                          *)
push(turns, turn) ==
    IF turn.parts = <<>> THEN turns
    ELSE IF turns # <<>> /\ Last(turns).role = turn.role
    THEN Append(Front(turns), Turn(turn.role, Last(turns).parts \o turn.parts))
    ELSE Append(turns, turn)

(* The system messages, taken out of the conversation. *)
SystemParts(messages) ==
    LET system == SelectSeq(messages, LAMBDA m : m.role = "system")
    IN  [i \in DOMAIN system |-> flattenText(system[i].content)]

-----------------------------------------------------------------------------
(* JSON.parse of a tool call's arguments, for the providers that want an    *)
(* object; what is not JSON becomes {}.                                     *)
safeJsonParse(call) == [call EXCEPT !.text = IF @ = NotJson THEN <<"{}">> ELSE @]

Each(parts, f(_)) == [i \in DOMAIN parts |-> f(parts[i])]

(* partToBlock: an image block has a source, by its data or by its URL. *)
partToBlock(part) ==
    IF IsText(part) THEN part
    ELSE Part("image", "none", IF part.kind = "data" THEN "base64" ELSE "url", part.text)

(* textOnlyBlocks: an assistant has no images. *)
textOnlyBlocks(content) == SelectSeq(content, IsText)

(* A system message is taken out of the conversation: it pushes nothing. *)
NoTurn == Turn("system", <<>>)

(* The turn a message becomes, by provider.  Anthropic: a tool's result is  *)
(* the user's.                                                              *)
AnthropicTurn(m) ==
    CASE m.role = "system" -> NoTurn
      [] m.role = "user" -> Turn("user", Each(m.content, partToBlock))
      [] m.role = "assistant" ->
            Turn("assistant", textOnlyBlocks(m.content) \o Each(m.calls, safeJsonParse))
      [] m.role = "tool" ->
            Turn("user", <<Part("result", m.id, "none", flattenText(m.content))>>)

(* toolNameById: Gemini knows results by the name of the function, the last *)
(* one called under that id; the id itself if there is none.                *)
ToolName(messages, id) ==
    LET calls == SelectSeq(FlattenSeq([i \in DOMAIN messages |-> messages[i].calls]),
                           LAMBDA c : c.id = id)
    IN  IF calls = <<>> THEN id ELSE Last(calls).name

(* partToGeminiPart: an image that is not inline is mentioned in a text. *)
partToGeminiPart(part) == IF part.kind = "url" THEN TextPart(part.text) ELSE part

(* functionCall has no id. *)
functionCall(call) == [safeJsonParse(call) EXCEPT !.id = "none"]

GeminiTurn(messages, m) ==
    CASE m.role = "system" -> NoTurn
      [] m.role = "user" -> Turn("user", Each(m.content, partToGeminiPart))
      [] m.role = "assistant" ->
            Turn("model", textOnlyBlocks(m.content) \o Each(m.calls, functionCall))
      [] m.role = "tool" ->
            Turn("user", <<Part("result", "none", ToolName(messages, m.id),
                                flattenText(m.content))>>)

(* translateMessage of the Cohere adapter: message by message. *)
translateMessage(m) ==
    CASE m.role \in {"system", "user"} -> Turn(m.role, m.content)
      [] m.role = "assistant" ->
            LET text == flattenText(m.content)
            IN  Turn("assistant", (IF text = <<>> THEN <<>> ELSE <<TextPart(text)>>) \o m.calls)
      [] m.role = "tool" ->
            Turn("tool", <<Part("result", m.id, "none", flattenText(m.content))>>)

(* OpenAI and Mistral get the messages as they are. *)
OpenAITurn(m) ==
    Turn(m.role, IF m.role = "tool"
                 THEN <<Part("result", m.id, "none", flattenText(m.content))>>
                 ELSE m.content \o m.calls)

Merged(turns) == FoldLeft(push, <<>>, turns)

-----------------------------------------------------------------------------
(* a ?? b *)
Or(a, b) == IF a = Unset THEN b ELSE a

(* max_completion_tokens ?? max_tokens, for the providers that have one     *)
(* limit; and what OpenAI and Mistral, which get both, go by.               *)
Limit(request) == Or(request.max_completion_tokens, request.max_tokens)

(* Anthropic and Gemini want a limit: the model's if the client has none. *)
ModelLimit(request) == Or(Limit(request), Or(ModelMax[request.model], DefaultMaxTokens))

(* translateToolChoice and translateToolConfig: "none", "auto", "any", or   *)
(* the name of a tool that must be called.                                  *)
ToolChoice(request) ==
    CASE request.tools = {} \/ request.tool_choice = "unset" -> "auto"
      [] request.tools # {} /\ request.tool_choice = "required" -> "any"
      [] OTHER -> request.tool_choice

(* What every provider has.  `tuning' stands for top_p and stop; `format'   *)
(* for response_format, `penalties' for n, logit_bias, presence_penalty and *)
(* frequency_penalty, and `vendor' for fields the schema does not know but  *)
(* lets through, which only some providers get.                             *)
Body(request, turns) ==
    [model |-> request.model, system |-> <<>>, turns |-> turns,
     max_tokens |-> Limit(request), max_completion_tokens |-> Unset,
     temperature |-> request.temperature,
     tools |-> request.tools, tool_choice |-> ToolChoice(request),
     tuning |-> request.tuning, seed |-> Unset, format |-> Unset,
     penalties |-> Unset, vendor |-> Unset]

(* Anthropic rejects temperatures above 1 and has no tool choice "none":    *)
(* the tools are withheld instead.                                          *)
AnthropicRequest(request) ==
    LET withheld == request.tool_choice = "none" IN
    [Body(request, Merged(Each(request.messages, AnthropicTurn))) EXCEPT
        !.system = SystemParts(request.messages),
        !.max_tokens = ModelLimit(request),
        !.temperature = IF @ > 1 THEN 1 ELSE @,
        !.tools = IF withheld THEN {} ELSE @,
        !.tool_choice = IF withheld THEN "auto" ELSE @]

GeminiRequest(request) ==
    LET turn(m) == GeminiTurn(request.messages, m) IN
    [Body(request, Merged(Each(request.messages, turn))) EXCEPT
        !.system = SystemParts(request.messages),
        !.max_tokens = ModelLimit(request)]

(* Cohere cannot be told which tool to call. *)
CohereRequest(request) ==
    [Body(request, Each(request.messages, translateMessage)) EXCEPT
        !.tool_choice = IF @ \in {"auto", "none"} THEN @ ELSE "any"]

(* buildChatBody: the request as it is. *)
OpenAIRequest(request) ==
    [Body(request, Each(request.messages, OpenAITurn)) EXCEPT
        !.max_tokens = request.max_tokens,
        !.max_completion_tokens = request.max_completion_tokens,
        !.tool_choice = request.tool_choice,
        !.seed = request.seed, !.format = request.format,
        !.penalties = request.penalties, !.vendor = request.vendor]

(* Mistral's buildChatBody strips what Mistral rejects. *)
MistralRequest(request) == [OpenAIRequest(request) EXCEPT !.penalties = Unset]

(* The body a provider's adapter sends upstream. *)
TranslateRequest(adapter, request) ==
    CASE adapter = "anthropic" -> AnthropicRequest(request)
      [] adapter = "gemini" -> GeminiRequest(request)
      [] adapter = "cohere" -> CohereRequest(request)
      [] adapter = "mistral" -> MistralRequest(request)
      [] OTHER -> OpenAIRequest(request)
=============================================================================
