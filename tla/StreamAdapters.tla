--------------------------- MODULE StreamAdapters ---------------------------
(***************************************************************************)
(* What the provider adapters (src/src/providers) make of an answer: of a  *)
(* whole one (translateResponse) and of the same answer streamed as native *)
(* events (normaliseStream), which become OpenAI chunks.                   *)
(*                                                                         *)
(* An answer is a sequence of parts (text, or a tool call), the reason it  *)
(* stopped and the tokens it cost, NoUsage if the provider does not say.   *)
(* A text is a natural number, its length; a tool call's arguments are a   *)
(* sequence of fragments of JSON.                                          *)
(***************************************************************************)
EXTENDS Integers, Sequences, SequencesExt

NoReason == "none"
NoTool == [index |-> -1, name |-> "none", args |-> <<>>]
Zero == [in |-> 0, out |-> 0]
NoUsage == [in |-> -1, out |-> -1]

Text(n) == [tool |-> FALSE, text |-> n, name |-> "none", args |-> <<>>]
ToolCall(name, args) == [tool |-> TRUE, text |-> 0, name |-> name, args |-> args]

HasTool(answer) == \E i \in DOMAIN answer.parts : answer.parts[i].tool

-----------------------------------------------------------------------------
(* The chunks of utils/stream.ts.  A chunk with choices may carry usage too *)
(* (Mistral's last one does); one of kind "error" is the frame an OpenAI-   *)
(* compatible provider reports a failure with, without choices.             *)
Chunk(kind) == [kind |-> kind, text |-> 0, tool |-> NoTool,
                finish |-> NoReason, usage |-> NoUsage]

makeRoleChunk == Chunk("role")
makeContentChunk(text) == [Chunk("text") EXCEPT !.text = text]
makeToolCallChunk(index, name, args) ==
    [Chunk("tool") EXCEPT !.tool = [index |-> index, name |-> name, args |-> args]]
makeFinishChunk(reason) == [Chunk("finish") EXCEPT !.finish = reason]
makeUsageChunk(usage) == [Chunk("usage") EXCEPT !.usage = usage]

-----------------------------------------------------------------------------
(* What the provider calls the reason an answer stopped for. *)
NativeReason(adapter, reason) ==
    CASE adapter \in {"openai", "mistral"} -> reason
      [] adapter = "anthropic" ->
            CASE reason = "length" -> "max_tokens"
              [] reason = "content_filter" -> "refusal"
              [] reason = "tool_calls" -> "tool_use"
              [] OTHER -> "end_turn"
      [] adapter = "gemini" ->
            CASE reason = "length" -> "MAX_TOKENS"
              [] reason = "content_filter" -> "SAFETY"
              [] OTHER -> "STOP"
      [] adapter = "cohere" ->
            CASE reason = "length" -> "MAX_TOKENS"
              [] reason = "content_filter" -> "ERROR_TOXIC"
              [] reason = "tool_calls" -> "TOOL_CALL"
              [] OTHER -> "COMPLETE"

(* mapStopReason of the Anthropic adapter: the tool call comes last. *)
mapStopReason(reason, sawTool) ==
    CASE reason = "max_tokens" -> "length"
      [] reason = "refusal" -> "content_filter"
      [] reason = "tool_use" \/ (sawTool /\ reason \notin {"max_tokens", "refusal"}) ->
            "tool_calls"
      [] OTHER -> "stop"

(* mapFinishReason of the Gemini adapter: a tool call decides. *)
GeminiFinish(reason, sawTool) ==
    IF sawTool THEN "tool_calls"
    ELSE CASE reason = "MAX_TOKENS" -> "length"
           [] reason = "SAFETY" -> "content_filter"
           [] OTHER -> "stop"

(* mapFinishReason of the Cohere adapter. *)
CohereFinish(reason, sawTool) ==
    IF sawTool \/ reason = "TOOL_CALL" THEN "tool_calls"
    ELSE CASE reason = "MAX_TOKENS" -> "length"
           [] reason = "ERROR_TOXIC" -> "content_filter"
           [] OTHER -> "stop"

(* JSON.stringify(input ?? {}): Anthropic and Gemini give the arguments of  *)
(* a tool call as an object, the others as a string.                        *)
Stringified(args) == IF args = <<>> THEN <<"{}">> ELSE args

(* readUsage of the Gemini and Cohere adapters: what is missing is zero. *)
readUsage(usage) == IF usage = NoUsage THEN Zero ELSE usage

(* The OpenAI message of a whole answer. *)
Message(answer, tools, finish, usage) ==
    LET texts == SelectSeq(answer.parts, LAMBDA part : ~part.tool)
    IN  [content |-> [i \in DOMAIN texts |-> texts[i].text],
         tools |-> tools, finish |-> finish, usage |-> usage]

ToolCalls(answer) ==
    LET calls == SelectSeq(answer.parts, LAMBDA part : part.tool)
    IN  [i \in DOMAIN calls |-> [name |-> calls[i].name, args |-> calls[i].args]]

ObjectCalls(answer) ==
    LET calls == ToolCalls(answer)
    IN  [i \in DOMAIN calls |-> [calls[i] EXCEPT !.args = Stringified(@)]]

(* translateResponse of each adapter.  Anthropic's schema has the usage in  *)
(* every answer.                                                            *)
AnthropicResponse(answer) ==
    Message(answer, ObjectCalls(answer),
            mapStopReason(NativeReason("anthropic", answer.reason), HasTool(answer)),
            answer.usage)

GeminiResponse(answer) ==
    Message(answer, ObjectCalls(answer),
            GeminiFinish(NativeReason("gemini", answer.reason), HasTool(answer)),
            readUsage(answer.usage))

CohereResponse(answer) ==
    Message(answer, ToolCalls(answer),
            CohereFinish(NativeReason("cohere", answer.reason), HasTool(answer)),
            readUsage(answer.usage))

(* normaliseChatResponse: finish_reason ?? 'stop'; without a usage, the     *)
(* prompt as counted here and no completion tokens.                         *)
OpenAIResponse(answer, counted) ==
    Message(answer, ToolCalls(answer),
            IF answer.reason = NoReason THEN "stop" ELSE answer.reason,
            IF answer.usage = NoUsage THEN [in |-> counted, out |-> 0] ELSE answer.usage)

(* counted: countTokens of the prompt. *)
translateResponse(adapter, answer, counted) ==
    CASE adapter = "anthropic" -> AnthropicResponse(answer)
      [] adapter = "gemini" -> GeminiResponse(answer)
      [] adapter = "cohere" -> CohereResponse(answer)
      [] OTHER -> OpenAIResponse(answer, counted)

-----------------------------------------------------------------------------
(* A native event.  The fields an event of its type does not have, or has   *)
(* lost because its data was not JSON, are blank.                           *)
Ev(type) == [type |-> type, index |-> 0, parts |-> <<>>, reason |-> NoReason,
             usage |-> NoUsage, chunk |-> Chunk("none")]

(* The number of tool calls before part i. *)
ToolsBefore(parts, i) == Len(SelectSeq(SubSeq(parts, 1, i - 1), LAMBDA part : part.tool))

(* The Messages API: one block per part, tool arguments in fragments. *)
AnthropicScript(answer) ==
    LET block(i) ==
            LET part == answer.parts[i]
                start == [Ev("content_block_start") EXCEPT !.index = i - 1, !.parts = <<part>>]
                delta(piece) == [Ev("content_block_delta") EXCEPT !.index = i - 1,
                                                                  !.parts = <<piece>>]
            IN  <<start>> \o IF part.tool
                             THEN [k \in DOMAIN part.args |->
                                    delta(ToolCall("none", <<part.args[k]>>))]
                             ELSE <<delta(part)>>
        prompt == IF answer.usage = NoUsage THEN NoUsage
                  ELSE [in |-> answer.usage.in, out |-> 0]
    IN  <<[Ev("message_start") EXCEPT !.usage = prompt],
          Ev("ping")>>
        \o FlattenSeq([i \in DOMAIN answer.parts |-> block(i)])
        \o <<[Ev("message_delta") EXCEPT !.usage = answer.usage,
                        !.reason = NativeReason("anthropic", answer.reason)],
             Ev("message_stop")>>

(* streamGenerateContent: one frame per part and a last one. *)
GeminiScript(answer) ==
    [i \in DOMAIN answer.parts |-> [Ev("frame") EXCEPT !.parts = <<answer.parts[i]>>]]
    \o <<[Ev("frame") EXCEPT !.usage = answer.usage,
                             !.reason = NativeReason("gemini", answer.reason)]>>

(* The v2 chat API: typed events, numbered like Anthropic's by the content  *)
(* block they belong to.                                                    *)
CohereScript(answer) ==
    LET events(i) ==
            LET part == answer.parts[i]
                typed(type, piece) == [Ev(type) EXCEPT !.parts = <<piece>>, !.index = i - 1]
            IN  IF part.tool
                THEN <<typed("tool-call-start", ToolCall(part.name, <<>>))>>
                     \o [k \in DOMAIN part.args |->
                            typed("tool-call-delta", ToolCall("none", <<part.args[k]>>))]
                ELSE <<typed("content-delta", part)>>
    IN  <<Ev("message-start")>>
        \o FlattenSeq([i \in DOMAIN answer.parts |-> events(i)])
        \o <<[Ev("message-end") EXCEPT !.usage = answer.usage,
                        !.reason = NativeReason("cohere", answer.reason)]>>

(* OpenAI chunks; the usage, if any, in a chunk of its own (OpenAI, asked   *)
(* for it) or in the last one (Mistral).                                    *)
OpenAIScript(adapter, answer) ==
    LET chunks(i) ==
            LET part == answer.parts[i]
                index == ToolsBefore(answer.parts, i)
            IN  IF part.tool
                THEN <<makeToolCallChunk(index, part.name, part.args)>>
                ELSE <<makeContentChunk(part.text)>>
        all == <<makeRoleChunk>>
               \o FlattenSeq([i \in DOMAIN answer.parts |-> chunks(i)])
               \o IF adapter = "mistral"
                  THEN <<[makeFinishChunk(answer.reason) EXCEPT !.usage = answer.usage]>>
                  ELSE <<makeFinishChunk(answer.reason)>>
                       \o IF answer.usage = NoUsage THEN <<>>
                          ELSE <<makeUsageChunk(answer.usage)>>
    IN  [i \in DOMAIN all |-> [Ev("chunk") EXCEPT !.chunk = all[i]]] \o <<Ev("DONE")>>

(* The event a provider reports a failure with in the middle of a stream:   *)
(* Anthropic's of type "error", the others' data with an `error' in it.     *)
ErrorEvent == [Ev("error") EXCEPT !.chunk = Chunk("error")]

(* The events the provider streams an answer as. *)
Script(adapter, answer) ==
    CASE adapter = "anthropic" -> AnthropicScript(answer)
      [] adapter = "gemini" -> GeminiScript(answer)
      [] adapter = "cohere" -> CohereScript(answer)
      [] OTHER -> OpenAIScript(adapter, answer)

-----------------------------------------------------------------------------
(* The locals of normaliseStream. *)
NewAdapter == [role |-> FALSE, tools |-> 0, byBlock |-> <<>>,
               reason |-> NoReason, usage |-> Zero]

(* An event's effect: the locals, the chunks to yield, and whether the      *)
(* generator goes on, returns or throws.                                    *)
Yield(st, chunks) == [state |-> st, chunks |-> chunks, end |-> "more"]

(* The role chunk, unless it has been yielded. *)
EmitRole(st) == IF st.role THEN <<>> ELSE <<makeRoleChunk>>

(* Mutant of ToolIndex: the block's own index. *)
BlockIndex(st, block) == block

(* toolIndexByBlock.get(index) ?? 0: blocks are counted over texts and tool *)
(* calls, the tool calls of OpenAI chunks alone.                            *)
ToolIndex(st, block) == IF block \in DOMAIN st.byBlock THEN st.byBlock[block] ELSE 0

AnthropicEvent(st, ev) ==
    CASE ev.type = "message_start" ->
            Yield([st EXCEPT !.role = TRUE,
                             !.usage.in = IF ev.usage = NoUsage THEN @ ELSE ev.usage.in],
                  EmitRole(st))
      [] ev.type = "content_block_start" /\ ev.parts # <<>> /\ ev.parts[1].tool ->
            LET next == [st EXCEPT !.tools = @ + 1,
                            !.byBlock = [b \in DOMAIN @ \cup {ev.index} |->
                                            IF b = ev.index THEN st.tools ELSE @[b]]]
            IN  Yield(next, <<makeToolCallChunk(ToolIndex(next, ev.index),
                                                ev.parts[1].name, <<>>)>>)
      [] ev.type = "content_block_delta" /\ ev.parts # <<>> ->
            Yield(st, IF ev.parts[1].tool
                      THEN <<makeToolCallChunk(ToolIndex(st, ev.index), "none",
                                               ev.parts[1].args)>>
                      ELSE <<makeContentChunk(ev.parts[1].text)>>)
      [] ev.type = "message_delta" ->
            Yield([st EXCEPT !.reason = IF ev.reason = NoReason THEN @ ELSE ev.reason,
                             !.usage.out = IF ev.usage = NoUsage THEN @ ELSE ev.usage.out],
                  <<>>)
      [] ev.type = "error" -> [Yield(st, <<>>) EXCEPT !.end = "throw"]
      [] ev.type = "message_stop" ->
            [Yield(st, <<makeFinishChunk(mapStopReason(st.reason, st.tools > 0)),
                         makeUsageChunk(st.usage)>>) EXCEPT !.end = "return"]
      [] OTHER -> Yield(st, <<>>)

GeminiEvent(st, ev) ==
    LET tools == Len(SelectSeq(ev.parts, LAMBDA part : part.tool))
        chunk(i) == LET part == ev.parts[i] IN
            IF part.tool
            THEN makeToolCallChunk(st.tools + ToolsBefore(ev.parts, i), part.name,
                                   Stringified(part.args))
            ELSE makeContentChunk(part.text)
    IN  Yield([st EXCEPT !.usage = IF ev.usage.in + ev.usage.out > 0 THEN ev.usage ELSE @,
                         !.reason = IF ev.reason = NoReason THEN @ ELSE ev.reason,
                         !.role = @ \/ ev.parts # <<>>,
                         !.tools = @ + tools],
              IF ev.parts = <<>> THEN <<>>
              ELSE EmitRole(st) \o [i \in DOMAIN ev.parts |-> chunk(i)])

CohereEvent(st, ev) ==
    LET open == [st EXCEPT !.role = TRUE] IN
    CASE ev.type = "message-start" -> Yield(open, EmitRole(st))
      [] ev.type = "content-delta" /\ ev.parts # <<>> ->
            Yield(open, EmitRole(st) \o <<makeContentChunk(ev.parts[1].text)>>)
      [] ev.type = "tool-call-start" /\ ev.parts # <<>> ->
            Yield([open EXCEPT !.tools = @ + 1],
                  EmitRole(st) \o <<makeToolCallChunk(ev.index, ev.parts[1].name,
                                                      ev.parts[1].args)>>)
      [] ev.type = "tool-call-delta" /\ ev.parts # <<>> ->
            Yield(st, <<makeToolCallChunk(ev.index, "none", ev.parts[1].args)>>)
      [] ev.type = "message-end" ->
            Yield([st EXCEPT !.reason = IF ev.reason = NoReason THEN @ ELSE ev.reason,
                             !.usage = IF ev.usage.in + ev.usage.out > 0 THEN ev.usage ELSE @],
                  <<>>)
      [] OTHER -> Yield(st, <<>>)

(* The loop of the OpenAI adapter's chatStream: all JSON passes as it is,    *)
(* an error too.                                                            *)
OpenAIEvent(st, ev) ==
    CASE ev.type \in {"chunk", "error"} -> Yield(st, <<ev.chunk>>)
      [] ev.type = "DONE" -> [Yield(st, <<>>) EXCEPT !.end = "return"]
      [] OTHER -> Yield(st, <<>>)

(* One turn of the adapter's loop over the parsed events. *)
Normalise(adapter, st, ev) ==
    CASE adapter = "anthropic" -> AnthropicEvent(st, ev)
      [] adapter = "gemini" -> GeminiEvent(st, ev)
      [] adapter = "cohere" -> CohereEvent(st, ev)
      [] OTHER -> OpenAIEvent(st, ev)

(* After the loop: Gemini and Cohere end every stream with a finish chunk   *)
(* and the usage, whether the provider sent them or not.                    *)
GeminiEnd(st) ==
    EmitRole(st) \o <<makeFinishChunk(GeminiFinish(st.reason, st.tools > 0)),
                      makeUsageChunk(st.usage)>>

CohereEnd(st) ==
    EmitRole(st) \o <<makeFinishChunk(CohereFinish(st.reason, st.tools > 0)),
                      makeUsageChunk(st.usage)>>

NormaliseEnd(adapter, st) ==
    CASE adapter = "gemini" -> GeminiEnd(st)
      [] adapter = "cohere" -> CohereEnd(st)
      [] OTHER -> <<>>

-----------------------------------------------------------------------------
(* What a client makes of the chunks it got: the fragments of a tool call   *)
(* are those with the index of the chunk that names it.                     *)
Assemble(chunks) ==
    LET texts == SelectSeq(chunks, LAMBDA c : c.kind = "text")
        tools == SelectSeq(chunks, LAMBDA c : c.kind = "tool")
        heads == SelectSeq(tools, LAMBDA c : c.tool.name # "none")
        args(k) == SelectSeq(tools, LAMBDA c : c.tool.index = k)
        ends  == SelectSeq(chunks, LAMBDA c : c.finish # NoReason)
    IN  [content |-> [i \in DOMAIN texts |-> texts[i].text],
         tools   |-> [i \in DOMAIN heads |->
                        LET own == args(heads[i].tool.index) IN
                        [name |-> heads[i].tool.name, index |-> heads[i].tool.index,
                         args |-> FlattenSeq([j \in DOMAIN own |-> own[j].tool.args])]],
         finish  |-> IF ends = <<>> THEN NoReason ELSE ends[1].finish]
=============================================================================
