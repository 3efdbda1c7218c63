---------------------------- MODULE ProviderCall ----------------------------
(***************************************************************************)
(* One upstream call of one request, from the adapter's fetch to the       *)
(* client: BaseProvider.upstreamFetch with its timer and the client's      *)
(* abort signal, the classification of what went wrong, the response body  *)
(* read whole or as a stream (SseParser, StreamAdapters), the router's     *)
(* generator that counts tokens and books the stream, and the route that   *)
(* writes its chunks.                                                      *)
(*                                                                         *)
(* The upstream may stall, fail, cut the connection anywhere or answer     *)
(* garbage; the client may leave at any moment; reads end anywhere.        *)
(***************************************************************************)
EXTENDS SseParser, StreamAdapters

CONSTANTS
    Adapters,
    Answers,      \* answers the provider may give
    Framings,     \* how it frames events: subset of {"lf", "crlf", "named"}
    PromptGuess,  \* countTokens of the prompt, before the usage is known
    ReadSizes     \* how many bytes one read may return

ASSUME ProviderCallAssumption ==
    /\ Adapters \subseteq {"openai", "mistral", "anthropic", "gemini", "cohere"}
    /\ Answers \subseteq
         [parts  : Seq([tool : BOOLEAN, text : Nat, name : STRING, args : Seq(STRING)]),
          reason : STRING,
          usage  : [in : Nat, out : Nat] \cup {NoUsage}]
    /\ Framings \subseteq {"lf", "crlf", "named"}
    /\ PromptGuess \in Nat
    /\ ReadSizes \subseteq Nat \ {0}

VARIABLES
    req,      \* adapter, kind ("chat", "stream", "embed"), answer, client options
    pc,
    timer,    \* the upstream timer is armed
    gone,     \* the client has disconnected
    net,      \* bytes of the response body still to come
    fate,     \* what comes after them: "eof" or "reset"
    sse, ad,  \* the parser's and the adapter's locals
    queue,    \* chunks the adapter has ready
    over,     \* the adapter's generator: "more", "return" or "throw"
    verdict,  \* what runFailover makes of the call
    tally,    \* the router's prompt and completion tokens
    sent,     \* chunks the client got
    log,      \* request-log rows
    cause     \* history: who disturbed the call first, and where

vars == <<req, pc, timer, gone, net, fate, sse, ad, queue, over, verdict,
          tally, sent, log, cause>>
stream == <<net, fate, sse, ad, queue, over>>
ledger == <<tally, sent, log>>

Streaming == req.kind = "stream"
Committed == verdict = "success"
NoVerdict == "none"

Init ==
    /\ req \in [adapter : Adapters, kind : {"chat", "stream", "embed"},
                answer : Answers, wantsUsage : BOOLEAN, framing : Framings]
    /\ req.kind # "stream" => ~req.wantsUsage /\ req.framing = "lf"
    /\ pc = "start"
    /\ timer = FALSE
    /\ gone = FALSE
    /\ net = <<>>
    /\ fate = "eof"
    /\ sse = NewParser
    /\ ad = NewAdapter
    /\ queue = <<>>
    /\ over = "more"
    /\ verdict = NoVerdict
    /\ tally = [in |-> PromptGuess, out |-> 0, final |-> FALSE]
    /\ sent = <<>>
    /\ log = <<>>
    /\ cause = "none"

Blame(who) == cause' = IF cause = "none" THEN who ELSE cause

-----------------------------------------------------------------------------
(* The bytes of the events of an answer. *)
Frame(x) ==
    LET eol == IF req.framing = "crlf" THEN <<CR, LF>> ELSE <<LF>>
        head == IF req.framing = "named"
                THEN <<<<"note", 0>>, LF, <<"event", x>>, LF>> ELSE <<>>
    IN  head \o <<<<"data", 0>>, <<"lead", x>>, <<"cont", x>>>> \o eol \o eol

NativeEvents == Script(req.adapter, req.answer)
Wire == FlattenSeq([x \in DOMAIN NativeEvents |-> Frame(x)])

(* Mutant of Retryable: an aborted fetch counts as a network error. *)
RetryableAborts(error) == error \in {"timeout", "network", "provider", "aborted"}

(* `retryable' of the errors a call can end with: UpstreamTimeoutError,     *)
(* ProviderError by its status, and GatewayError.from of anything else.     *)
Retryable(error) == error \in {"timeout", "network", "provider"}

(* The call rejects inside runFailover, which releases or penalises the     *)
(* provider, or, with the first chunk out, inside the stream's generator,   *)
(* whose finally block books what was delivered as interrupted.             *)
Throw(error) ==
    /\ pc' = "ended"
    /\ timer' = FALSE
    /\ IF Committed
       THEN /\ log' = Append(log, [usage |-> [in |-> tally.in, out |-> tally.out],
                                   status |-> 502])
            /\ UNCHANGED verdict
       ELSE /\ verdict' = IF Retryable(error) THEN "failure" ELSE "release"
            /\ UNCHANGED log
    /\ UNCHANGED <<tally, sent>>

(* mapHttpError: 408, 429, 5xx and the statuses that mean the gateway is    *)
(* misconfigured are retryable; the others are the request's.               *)
RefusalError == IF pc = "refusal" THEN "provider" ELSE "client"

(* upstreamFetch.  Anthropic has no embeddings: a client error at once. *)
Begin ==
    /\ pc = "start"
    /\ IF req.kind = "embed" /\ req.adapter = "anthropic"
       THEN Throw("client") /\ Blame("request")
       ELSE IF gone
       THEN Throw("aborted") /\ UNCHANGED cause
       ELSE /\ pc' = "fetching"
            /\ timer' = TRUE
            /\ UNCHANGED <<verdict, ledger, cause>>
    /\ UNCHANGED <<req, gone, stream>>

(* fetch rejects: a network fault. *)
NetworkFault ==
    /\ pc = "fetching"
    /\ Throw("network")
    /\ Blame("upstream")
    /\ UNCHANGED <<req, gone, stream>>

(* The timer: fetch rejects with a timeout, which upstreamFetch makes an    *)
(* UpstreamTimeoutError; a body being read rejects with a bare AbortError,  *)
(* which nobody does; the body of an error response is given up.            *)
TimerFires ==
    /\ timer
    /\ \/ pc = "fetching" /\ Throw("timeout") /\ Blame("upstream")
       \/ pc = "reading" /\ Throw("aborted") /\ Blame("timeout")
       \/ pc \in {"refusal", "rejection"} /\ Throw(RefusalError) /\ UNCHANGED cause
    /\ UNCHANGED <<req, gone, stream>>

(* The client disconnects: its signal aborts whatever is awaited upstream. *)
Disconnect ==
    /\ ~gone
    /\ pc # "ended"
    /\ gone' = TRUE
    /\ Blame("client")
    /\ IF pc \in {"fetching", "reading"} THEN Throw("aborted")
       ELSE IF pc \in {"refusal", "rejection"} THEN Throw(RefusalError)
       ELSE UNCHANGED <<pc, timer, verdict, ledger>>
    /\ UNCHANGED <<req, stream>>

(* Mutant of Disarmed: the timer bounds the headers of every call. *)
DisarmedAlways == TRUE

(* The timer is disarmed at the headers of a streaming call only. *)
Disarmed == Streaming

(* The headers of a good response: its body follows. *)
HeadersOk ==
    /\ pc = "fetching"
    /\ timer' = ~Disarmed
    /\ pc' = IF Streaming THEN "pulling" ELSE "reading"
    /\ net' = IF Streaming THEN Wire ELSE <<>>
    /\ UNCHANGED <<req, gone, fate, sse, ad, queue, over, verdict, ledger, cause>>

(* A streaming response without a body. *)
EmptyBody ==
    /\ pc = "fetching" /\ Streaming
    /\ Throw("provider")
    /\ Blame("upstream")
    /\ UNCHANGED <<req, gone, stream>>

(* ensureOk with an error status, and mapHttpError once the error body is   *)
(* read or has failed.                                                      *)
HeadersRefused(who) ==
    /\ pc = "fetching"
    /\ timer' = ~Disarmed
    /\ pc' = IF who = "upstream" THEN "refusal" ELSE "rejection"
    /\ Blame(who)
    /\ UNCHANGED <<req, gone, stream, verdict, ledger>>

RefusalRead ==
    /\ pc \in {"refusal", "rejection"}
    /\ Throw(RefusalError)
    /\ UNCHANGED <<req, gone, stream, cause>>

-----------------------------------------------------------------------------
(* The request is answered whole: addSpend and enqueueRequest. *)
Answered(usage) ==
    /\ pc' = "ended"
    /\ timer' = FALSE
    /\ verdict' = "success"
    /\ log' = Append(log, [usage |-> usage, status |-> 200])
    /\ UNCHANGED <<tally, sent>>

(* Gemini does not report the tokens of an embedding: they are counted. *)
translateEmbedding == PromptGuess

(* Neither does Cohere; OpenAI and Mistral may: usage?.prompt_tokens ?? 0. *)
embed ==
    CASE req.adapter = "gemini" -> translateEmbedding
      [] req.adapter = "cohere" -> PromptGuess
      [] OTHER -> IF req.answer.usage = NoUsage THEN 0 ELSE req.answer.usage.in

(* What the schema of the adapter's response demands. *)
Shaped == req.kind = "chat" /\ req.adapter = "anthropic" => req.answer.usage # NoUsage

(* readJson of a good body, and its translation. *)
BodyArrives ==
    /\ pc = "reading" /\ Shaped
    /\ Answered(IF req.kind = "chat"
                THEN translateResponse(req.adapter, req.answer, PromptGuess).usage
                ELSE [in |-> embed, out |-> 0])
    /\ UNCHANGED <<req, gone, stream, cause>>

(* A body that is not JSON or not of the expected shape. *)
BodyGarbled ==
    /\ pc = "reading"
    /\ Throw("provider")
    /\ Blame("upstream")
    /\ UNCHANGED <<req, gone, stream>>

(* The connection breaks while a body is read: no GatewayError. *)
BodyBroken ==
    /\ pc = "reading"
    /\ Throw("reset")
    /\ Blame("body")
    /\ UNCHANGED <<req, gone, stream>>

(* The adapter waits for the parser, which has an event or reads on. *)
Pulling == pc = "pulling" /\ over = "more" /\ queue = <<>>

(* The upstream stops sending: the stream ends or breaks here. *)
Cut(end) ==
    /\ pc = "pulling" /\ ~gone
    /\ net # <<>>
    /\ net' = <<>>
    /\ fate' = end
    /\ Blame("body")
    /\ UNCHANGED <<req, pc, timer, gone, sse, ad, queue, over, verdict, ledger>>

(* An error event between two others in a stream, the last thing the        *)
(* provider sends.  The Anthropic adapter throws, OpenAI's and Mistral's    *)
(* yield it; to Gemini's and Cohere's it is an unknown event, and the       *)
(* stream one that is cut.                                                  *)
Overloaded ==
    LET step == Normalise(req.adapter, ad, ErrorEvent) IN
    /\ Pulling /\ sse = NewParser
    /\ net # <<>> /\ ~gone
    /\ req.adapter \in {"anthropic", "openai", "mistral"}
    /\ queue' = step.chunks
    /\ over' = step.end
    /\ net' = <<>>
    /\ fate' \in {"eof", "reset"}
    /\ Blame("upstream")
    /\ UNCHANGED <<req, pc, timer, gone, sse, ad, verdict, ledger>>

-----------------------------------------------------------------------------
(* JSON.parse of an event's data.  What is not JSON is skipped by the       *)
(* OpenAI adapter and an empty object to the others, of which Anthropic and *)
(* Cohere then go by the name of the event.                                 *)
Parsed(event) ==
    LET whole == Len(event.data) = 1 /\ event.data[1][1] = "char" IN
    IF whole THEN NativeEvents[event.data[1][2]]
    ELSE IF event.data # <<>> /\ event.name # 0 /\ req.adapter \in {"anthropic", "cohere"}
    THEN Ev(NativeEvents[event.name].type)
    ELSE Ev("unknown")

(* The adapter's loop gets an event, or none. *)
Consume(found) ==
    LET step == IF found.found THEN Normalise(req.adapter, ad, Parsed(found.event))
                ELSE Yield(ad, <<>>)
    IN  /\ sse' = found.parser
        /\ ad' = step.state
        /\ queue' = step.chunks
        /\ over' = step.end

ParseLine ==
    /\ Pulling
    /\ HasLine(sse)
    /\ Consume(NextLine(sse))
    /\ UNCHANGED <<req, pc, timer, gone, net, fate, verdict, ledger, cause>>

(* reader.read() returns some bytes. *)
Read(n) ==
    /\ Pulling /\ ~HasLine(sse)
    /\ ~gone
    /\ n <= Len(net)
    /\ sse' = Decoded(sse, SubSeq(net, 1, n))
    /\ net' = SubSeq(net, n + 1, Len(net))
    /\ UNCHANGED <<req, pc, timer, gone, fate, ad, queue, over, verdict, ledger, cause>>

(* reader.read() says done: the last event, then the end of the adapter's   *)
(* loop.                                                                    *)
ReadEnd ==
    /\ Pulling /\ ~HasLine(sse)
    /\ ~gone
    /\ net = <<>> /\ fate = "eof"
    /\ LET found == LastEvent(sse)
           step == IF found.found THEN Normalise(req.adapter, ad, Parsed(found.event))
                   ELSE Yield(ad, <<>>)
       IN /\ sse' = found.parser
          /\ ad' = step.state
          /\ over' = IF step.end = "more" THEN "return" ELSE step.end
          /\ queue' = step.chunks \o IF step.end = "more"
                                     THEN NormaliseEnd(req.adapter, step.state) ELSE <<>>
    /\ UNCHANGED <<req, pc, timer, gone, net, fate, verdict, ledger, cause>>

(* reader.read() rejects: the client is gone, or the connection is reset. *)
ReadRejects ==
    /\ Pulling /\ ~HasLine(sse)
    /\ gone \/ (net = <<>> /\ fate = "reset")
    /\ Throw(IF gone THEN "aborted" ELSE "reset")
    /\ UNCHANGED <<req, gone, stream, cause>>

-----------------------------------------------------------------------------
(* countDeltaTokens: a quarter of the length, rounded, at least one. *)
countDeltaTokens(chunk) ==
    IF chunk.text = 0 THEN 0
    ELSE LET quarter == (chunk.text + 2) \div 4 IN IF quarter = 0 THEN 1 ELSE quarter

(* Mutant of applyUsage: the usage is added to the estimate. *)
addUsage(chunk, t) ==
    IF chunk.usage = NoUsage THEN t
    ELSE [in |-> chunk.usage.in, out |-> t.out + chunk.usage.out, final |-> TRUE]

(* applyUsage: a chunk's usage replaces the estimate. *)
applyUsage(chunk, t) ==
    IF chunk.usage = NoUsage THEN t
    ELSE [in |-> chunk.usage.in, out |-> chunk.usage.out, final |-> TRUE]

isUsageOnlyChunk(chunk) == chunk.kind = "usage"

(* What the router yields: not the usage chunk it asked for on its own. *)
Forwarded(chunk) ==
    IF req.wantsUsage \/ ~isUsageOnlyChunk(chunk) THEN <<chunk>> ELSE <<>>

(* iterator.next() returns a chunk: the first one commits the call to its   *)
(* provider, the router counts it, and the route writes it.                 *)
Pull ==
    /\ pc = "pulling"
    /\ queue # <<>>
    /\ verdict' = "success"
    /\ tally' = LET chunk == Head(queue) IN
                applyUsage(chunk, IF tally.final THEN tally
                                  ELSE [tally EXCEPT !.out = @ + countDeltaTokens(chunk)])
    /\ pc' = "writing"
    /\ UNCHANGED <<req, timer, gone, stream, sent, log, cause>>

(* reply.raw.write, if the client is still there.  When it returns false    *)
(* the route awaits `drain'.                                                *)
Write ==
    LET out == Forwarded(Head(queue)) IN
    /\ pc = "writing"
    /\ sent' = IF gone THEN sent ELSE sent \o out
    /\ queue' = Tail(queue)
    /\ pc' \in IF gone \/ out = <<>> THEN {"pulling"} ELSE {"pulling", "draining"}
    /\ UNCHANGED <<req, timer, gone, net, fate, sse, ad, over, verdict, tally, log, cause>>

(* The client has read enough.  A response that closes never drains.        *)
Drained ==
    /\ pc = "draining" /\ ~gone
    /\ pc' = "pulling"
    /\ UNCHANGED <<req, timer, gone, stream, verdict, ledger, cause>>

(* iterator.next() says done: the finally block, then [DONE]. *)
StreamEnds ==
    /\ pc = "pulling"
    /\ queue = <<>> /\ over = "return"
    /\ pc' = "ended"
    /\ verdict' = "success"
    /\ log' = Append(log, [usage |-> [in |-> tally.in, out |-> tally.out],
                           status |-> 200])
    /\ UNCHANGED <<req, timer, gone, stream, tally, sent, cause>>

(* The adapter threw a ProviderError of status 502. *)
StreamThrows ==
    /\ pc = "pulling"
    /\ queue = <<>> /\ over = "throw"
    /\ Throw("provider")
    /\ UNCHANGED <<req, gone, stream, cause>>

(* Nothing more happens to the call: it has ended, or it awaits a `drain'   *)
(* of a client that has gone.                                               *)
Rest ==
    /\ pc = "ended" \/ (pc = "draining" /\ gone)
    /\ UNCHANGED vars

Upstream ==
    \/ NetworkFault \/ HeadersOk \/ EmptyBody
    \/ \E who \in {"upstream", "request"} : HeadersRefused(who)
    \/ RefusalRead \/ BodyArrives \/ BodyGarbled \/ BodyBroken
    \/ \E end \in {"eof", "reset"} : Cut(end)
    \/ Overloaded
    \/ \E n \in ReadSizes : Read(n)

Gateway ==
    \/ Begin \/ TimerFires \/ ParseLine \/ ReadEnd \/ ReadRejects
    \/ Pull \/ Write \/ StreamEnds \/ StreamThrows

Client == Disconnect \/ Drained

Next == Upstream \/ Gateway \/ Client \/ Rest

(* The request is handled and the timer fires; nobody else owes anything. *)
Spec == Init /\ [][Next]_vars /\ WF_vars(Begin \/ TimerFires)

-----------------------------------------------------------------------------
(* A stream tells the client what the whole answer would have: with the     *)
(* reads ending anywhere, inside a character, a line or an event, its       *)
(* chunks assemble to the content, the tool calls and the finish reason     *)
(* translateResponse gives, and to a prefix of them while it lasts or when  *)
(* it is cut; and the tool calls are numbered from zero.  Two exceptions:   *)
(* Anthropic's tool call without arguments has "" in a stream, "{}" in a    *)
(* whole answer; and the Cohere adapter leaves a tool call the number of    *)
(* its content block, so that a client that takes the index for a place in  *)
(* message.tool_calls finds a gap after a text.                             *)
StreamMatchesWhole ==
    LET got == Assemble(sent)
        whole == translateResponse(req.adapter, req.answer, PromptGuess)
        done == pc = "ended" /\ cause = "none"
        noArgs(i) == req.adapter = "anthropic" /\ whole.tools[i].args = <<"{}">>
    IN  Streaming =>
        /\ IsPrefix(got.content, whole.content)
        /\ Len(got.tools) <= Len(whole.tools)
        /\ \A i \in DOMAIN got.tools :
              /\ got.tools[i].name = whole.tools[i].name
              /\ got.tools[i].index = i - 1 \/ req.adapter = "cohere"
              /\ IsPrefix(got.tools[i].args, whole.tools[i].args)
              /\ done => got.tools[i].args = whole.tools[i].args \/ noArgs(i)
        /\ done => /\ got.content = whole.content
                   /\ Len(got.tools) = Len(whole.tools)
                   /\ got.finish = whole.finish

(* Estimated tokens of the chunks that reached the client. *)
Estimate == FoldLeft(LAMBDA n, chunk : n + countDeltaTokens(chunk), 0, sent)

(* The provider says what the answer cost. *)
Reported == req.answer.usage # NoUsage

(* A call is booked once if it was answered, even in part, and not at all   *)
(* if it was refused; for what the provider says it cost if it says so, and *)
(* a stream otherwise for no less than what the client was shown.  Without  *)
(* a usage the rest is booked low, by what the adapters fill in: OpenAI's   *)
(* and Mistral's whole answers for the prompt alone, and whole answers and  *)
(* streams of Gemini and Cohere, and streams of Anthropic, for nothing.     *)
(* So are Gemini's and Cohere's cut streams: the usage chunk their adapters *)
(* end every stream with says zero.                                         *)
BookedExactly ==
    /\ Len(log) = IF pc = "ended" /\ Committed THEN 1 ELSE 0
    /\ \A i \in DOMAIN log :
        LET usage == log[i].usage
            asReported == Reported /\ usage = req.answer.usage
            asShown == usage.in = PromptGuess /\ usage.out >= Estimate
        IN
        /\ cause = "none" /\ req.kind # "embed" =>
              IF Reported THEN asReported
              ELSE IF req.adapter \in {"openai", "mistral"}
              THEN IF Streaming THEN asShown ELSE usage = [in |-> PromptGuess, out |-> 0]
              ELSE usage = Zero
        /\ Streaming /\ cause # "none" =>
              \/ asReported \/ asShown
              \/ usage = Zero /\ req.adapter \in {"gemini", "cohere"} /\ fate = "eof"
              \/ usage = Zero /\ ~Reported /\ req.adapter \notin {"openai", "mistral"}

(* The provider is never penalised for a client that left or a request it   *)
(* refused, and never let off for a failure it shows before the answer: a   *)
(* network fault, a timeout of the headers, an error status, a malformed    *)
(* body, Anthropic's error event.  (An error frame that OpenAI's adapter    *)
(* yields first is taken for an answer.)  Whether a body that breaks or     *)
(* times out after good headers counts is left open: reliability.md says    *)
(* that a timeout does, the code counts neither.                            *)
BlameIsRight ==
    /\ verdict = "failure" => cause \in {"upstream", "timeout", "body"}
    /\ verdict = "release" => cause \in {"client", "request", "timeout", "body"}

(* ChunkProtocol, seen from the client's end of the connection and from the *)
(* request log.                                                             *)
Protocol == INSTANCE ChunkProtocol WITH
    shown  <- [i \in DOMAIN sent |-> sent[i].kind],
    status <- IF pc # "ended" THEN "open"
              ELSE IF ~Committed THEN "refused"
              ELSE IF log[1].status = 200 THEN "closed" ELSE "broken",
    rows   <- Len(log)

(* With any adapter, any framing, and every fault of Upstream, error frames *)
(* included, the call is one of ChunkProtocol's behaviours.                 *)
ImplementsProtocol == Protocol!Spec

(* A call that does not stream ends, however long the upstream stalls: the  *)
(* timer of upstreamFetch covers the headers and the body.                  *)
TimeoutBounds == ~Streaming ~> pc = "ended"
=============================================================================
