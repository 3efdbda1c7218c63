------------------------- MODULE ChatPipelineProofs -------------------------
(***************************************************************************)
(* Proofs about ChatPipeline, for every set of handlers, requests and      *)
(* models.                                                                 *)
(***************************************************************************)
EXTENDS ChatPipeline, WellFoundedInduction, TLAPS

-----------------------------------------------------------------------------
(* What the cache key leaves of a request: two requests with one key are    *)
(* the same to every provider but for the vendor fields, the field the      *)
(* limit is in and how to choose among no tools, and, when one of them has  *)
(* two limits, the limit.                                                   *)
Sent(adapter, r, m) == TranslateRequest(adapter, [r EXCEPT !.model = m])
SameBody(b, c, r, q) ==
    /\ Plain(b) = Plain(c)
    /\ Limit(b) = Limit(c) \/ TwoLimits(r) \/ TwoLimits(q)
    /\ b.tool_choice = c.tool_choice \/ c.tools = {}

(* The fields a body is made of. *)
BodyOf(m, system, turns, limit, most, temperature, tools, choice, tuning, seed, format,
       penalties, vendor) ==
    [model |-> m, system |-> system, turns |-> turns, max_tokens |-> limit,
     max_completion_tokens |-> most,
     temperature |-> temperature, tools |-> tools, tool_choice |-> choice,
     tuning |-> tuning, seed |-> seed, format |-> format, penalties |-> penalties,
     vendor |-> vendor]

LEMMA BodyFields ==
    ASSUME NEW r \in Requests, NEW m, isEligible(r), NEW turns
    PROVE  LET u == [r EXCEPT !.model = m] IN
           Body(u, turns) = BodyOf(m, <<>>, turns, Limit(r), Unset, 0, {}, "auto", r.tuning,
                                   Unset, Unset, Unset, Unset)
<1> DEFINE u == [r EXCEPT !.model = m]
<1>1. /\ u.model = m /\ u.temperature = 0 /\ u.tools = {} /\ u.tuning = r.tuning
      /\ u.max_tokens = r.max_tokens
      /\ u.max_completion_tokens = r.max_completion_tokens
  BY ChatPipelineAssumption DEF RequestFields, isEligible
<1> HIDE DEF u
<1>2. Limit(u) = Limit(r)
  BY <1>1 DEF Limit
<1>3. ToolChoice(u) = "auto"
  BY <1>1 DEF ToolChoice
<1>4. Body(u, turns) = BodyOf(m, <<>>, turns, Limit(r), Unset, 0, {}, "auto", r.tuning,
                              Unset, Unset, Unset, Unset)
  BY <1>1, <1>2, <1>3 DEF Body, BodyOf
<1> QED BY <1>4 DEF u

(* The body each adapter sends for a request that may be cached. *)
OwnLimit(r, m) == Or(Limit(r), Or(ModelMax[m], DefaultMaxTokens))

AnthropicTurns(messages) == Merged(Each(messages, AnthropicTurn))
GeminiTurns(messages) ==
    LET turn(t) == GeminiTurn(messages, t) IN Merged(Each(messages, turn))
CohereTurns(messages) == Each(messages, translateMessage)
OpenAITurns(messages) == Each(messages, OpenAITurn)

LEMMA SentBodies ==
    ASSUME NEW r \in Requests, NEW m, isEligible(r)
    PROVE  LET u == [r EXCEPT !.model = m] IN
           /\ AnthropicRequest(u) =
                  BodyOf(m, SystemParts(r.messages), AnthropicTurns(r.messages),
                         OwnLimit(r, m), Unset, 0, {}, "auto", r.tuning,
                         Unset, Unset, Unset, Unset)
           /\ GeminiRequest(u) =
                  BodyOf(m, SystemParts(r.messages), GeminiTurns(r.messages),
                         OwnLimit(r, m), Unset, 0, {}, "auto", r.tuning,
                         Unset, Unset, Unset, Unset)
           /\ CohereRequest(u) =
                  BodyOf(m, <<>>, CohereTurns(r.messages), Limit(r), Unset, 0, {}, "auto",
                         r.tuning, Unset, Unset, Unset, Unset)
           /\ OpenAIRequest(u) =
                  BodyOf(m, <<>>, OpenAITurns(r.messages), r.max_tokens,
                         r.max_completion_tokens, 0, {}, r.tool_choice,
                         r.tuning, r.seed, r.format, r.penalties, r.vendor)
           /\ MistralRequest(u) =
                  BodyOf(m, <<>>, OpenAITurns(r.messages), r.max_tokens,
                         r.max_completion_tokens, 0, {}, r.tool_choice,
                         r.tuning, r.seed, r.format, Unset, r.vendor)
<1> DEFINE u == [r EXCEPT !.model = m]
           B(turns) == BodyOf(m, <<>>, turns, Limit(r), Unset, 0, {}, "auto", r.tuning,
                              Unset, Unset, Unset, Unset)
<1>1. /\ u.model = m /\ u.messages = r.messages /\ u.tool_choice = r.tool_choice
      /\ u.max_tokens = r.max_tokens
      /\ u.max_completion_tokens = r.max_completion_tokens
      /\ u.seed = r.seed /\ u.format = r.format /\ u.penalties = r.penalties
      /\ u.vendor = r.vendor
  BY ChatPipelineAssumption DEF RequestFields
<1>2. \A turns : Body(u, turns) = B(turns)
  BY BodyFields
<1> HIDE DEF u
<1>3. ModelLimit(u) = OwnLimit(r, m)
  BY <1>1 DEF ModelLimit, OwnLimit, Limit
<1>4. AnthropicRequest(u) =
          BodyOf(m, SystemParts(r.messages), AnthropicTurns(r.messages),
                 OwnLimit(r, m), Unset, 0, {}, "auto", r.tuning, Unset, Unset, Unset, Unset)
  <2>1. AnthropicRequest(u) =
            [B(AnthropicTurns(r.messages)) EXCEPT
                !.system = SystemParts(r.messages),
                !.max_tokens = OwnLimit(r, m),
                !.temperature = IF @ > 1 THEN 1 ELSE @,
                !.tools = IF u.tool_choice = "none" THEN {} ELSE @,
                !.tool_choice = IF u.tool_choice = "none" THEN "auto" ELSE @]
    BY <1>1, <1>2, <1>3, Zenon DEF AnthropicRequest, AnthropicTurns
  <2> DEFINE b == B(AnthropicTurns(r.messages))
  <2>2. b.temperature = 0 /\ b.tools = {} /\ b.tool_choice = "auto"
    BY DEF BodyOf
  <2> HIDE DEF b
  <2>3. (IF 0 > 1 THEN 1 ELSE 0) = 0
    OBVIOUS
  <2>4. AnthropicRequest(u) =
            [b EXCEPT !.system = SystemParts(r.messages),
                      !.max_tokens = OwnLimit(r, m),
                      !.temperature = IF b.temperature > 1 THEN 1 ELSE b.temperature,
                      !.tools = IF u.tool_choice = "none" THEN {} ELSE b.tools,
                      !.tool_choice = IF u.tool_choice = "none" THEN "auto"
                                      ELSE b.tool_choice]
    BY <2>1, Zenon DEF b
  <2>5. AnthropicRequest(u) =
            [b EXCEPT !.system = SystemParts(r.messages), !.max_tokens = OwnLimit(r, m),
                      !.temperature = 0, !.tools = {}, !.tool_choice = "auto"]
    BY <2>2, <2>3, <2>4
  <2> QED BY <2>5 DEF BodyOf, b
<1>5. GeminiRequest(u) =
          BodyOf(m, SystemParts(r.messages), GeminiTurns(r.messages),
                 OwnLimit(r, m), Unset, 0, {}, "auto", r.tuning, Unset, Unset, Unset, Unset)
  <2>1. GeminiRequest(u) =
            [B(GeminiTurns(r.messages)) EXCEPT
                !.system = SystemParts(r.messages), !.max_tokens = OwnLimit(r, m)]
    BY <1>1, <1>2, <1>3 DEF GeminiRequest, GeminiTurns, Each
  <2> QED BY <2>1 DEF BodyOf
<1>6. CohereRequest(u) =
          BodyOf(m, <<>>, CohereTurns(r.messages), Limit(r), Unset, 0, {}, "auto",
                 r.tuning, Unset, Unset, Unset, Unset)
  <2>1. CohereRequest(u) =
            [B(CohereTurns(r.messages)) EXCEPT
                !.tool_choice = IF @ \in {"auto", "none"} THEN @ ELSE "any"]
    BY <1>1, <1>2, Zenon DEF CohereRequest, CohereTurns
  <2> QED BY <2>1 DEF BodyOf
<1>7. OpenAIRequest(u) =
          BodyOf(m, <<>>, OpenAITurns(r.messages), r.max_tokens,
                         r.max_completion_tokens, 0, {}, r.tool_choice,
                 r.tuning, r.seed, r.format, r.penalties, r.vendor)
  <2>1. OpenAIRequest(u) =
            [B(OpenAITurns(r.messages)) EXCEPT
                !.max_tokens = r.max_tokens,
                !.max_completion_tokens = r.max_completion_tokens,
                !.tool_choice = r.tool_choice,
                !.seed = r.seed, !.format = r.format,
                !.penalties = r.penalties, !.vendor = r.vendor]
    BY <1>1, <1>2, Zenon DEF OpenAIRequest, OpenAITurns
  <2> QED BY <2>1 DEF BodyOf
<1>8. MistralRequest(u) =
          BodyOf(m, <<>>, OpenAITurns(r.messages), r.max_tokens,
                         r.max_completion_tokens, 0, {}, r.tool_choice,
                 r.tuning, r.seed, r.format, Unset, r.vendor)
  <2>1. MistralRequest(u) =
            [BodyOf(m, <<>>, OpenAITurns(r.messages), r.max_tokens,
                         r.max_completion_tokens, 0, {}, r.tool_choice,
                    r.tuning, r.seed, r.format, r.penalties, r.vendor)
             EXCEPT !.penalties = Unset]
    BY <1>7, Zenon DEF MistralRequest
  <2> QED BY <2>1 DEF BodyOf
<1> QED BY <1>4, <1>5, <1>6, <1>7, <1>8 DEF u

LEMMA OneLimit ==
    ASSUME NEW r, NEW q, computeKey(r) = computeKey(q), ~TwoLimits(r), ~TwoLimits(q)
    PROVE  Limit(r) = Limit(q)
<1>1. Or(r.max_tokens, r.max_completion_tokens) = Or(q.max_tokens, q.max_completion_tokens)
  BY DEF computeKey
<1> QED BY <1>1 DEF Limit, Or, TwoLimits

LEMMA PlainBody ==
    ASSUME NEW m, NEW sys, NEW turns, NEW k, NEW l, NEW temp, NEW tools, NEW choice,
           NEW t, NEW s, NEW f, NEW p, NEW x
    PROVE  LET b == BodyOf(m, sys, turns, k, l, temp, tools, choice, t, s, f, p, x) IN
           /\ Plain(b) = BodyOf(m, sys, turns, Unset, Unset, temp, tools, "unset", t, s, f, p, Unset)
           /\ Limit(b) = Or(l, k) /\ b.tools = tools /\ b.tool_choice = choice
<1> DEFINE b == BodyOf(m, sys, turns, k, l, temp, tools, choice, t, s, f, p, x)
           c == BodyOf(m, sys, turns, k, l, temp, tools, choice, t, s, f, p, Unset)
           d == BodyOf(m, sys, turns, Unset, l, temp, tools, choice, t, s, f, p, Unset)
           e == BodyOf(m, sys, turns, Unset, Unset, temp, tools, choice, t, s, f, p, Unset)
           g == BodyOf(m, sys, turns, Unset, Unset, temp, tools, "unset", t, s, f, p, Unset)
<1>1. [b EXCEPT !.vendor = Unset] = c
  BY DEF BodyOf
<1>2. [c EXCEPT !.max_tokens = Unset] = d
  BY DEF BodyOf
<1>3. [d EXCEPT !.max_completion_tokens = Unset] = e
  BY DEF BodyOf
<1>4. [e EXCEPT !.tool_choice = "unset"] = g
  BY DEF BodyOf
<1>5. b.max_tokens = k /\ b.max_completion_tokens = l /\ b.tools = tools /\ b.tool_choice = choice
  BY DEF BodyOf
<1> HIDE DEF b, c, d, e, g
<1>6. Plain(b) = g
  BY <1>1, <1>2, <1>3, <1>4 DEF Plain
<1>7. Limit(b) = Or(l, k)
  BY <1>5 DEF Limit
<1> QED BY <1>5, <1>6, <1>7 DEF b, g

LEMMA SameKeySameBody ==
    ASSUME NEW r \in Requests, NEW q \in Requests, isEligible(r), isEligible(q),
           computeKey(r) = computeKey(q), NEW m, NEW adapter
    PROVE  SameBody(Sent(adapter, q, m), Sent(adapter, r, m), r, q)
<1>1. /\ r.messages = q.messages /\ r.tuning = q.tuning /\ r.seed = q.seed
      /\ r.penalties = q.penalties /\ r.format = q.format
  BY DEF computeKey
<1>2. Limit(r) = Limit(q) \/ TwoLimits(r) \/ TwoLimits(q)
  BY OneLimit
<1>3. OwnLimit(r, m) = OwnLimit(q, m) \/ TwoLimits(r) \/ TwoLimits(q)
  BY <1>2 DEF OwnLimit
<1> DEFINE u == [r EXCEPT !.model = m]
           v == [q EXCEPT !.model = m]
<1>4. ASSUME NEW sys, NEW turns, NEW k, NEW l, NEW i, NEW j, NEW a, NEW b,
             NEW t, NEW s, NEW f, NEW p, NEW x, NEW y,
             Or(k, i) = Or(l, j) \/ TwoLimits(r) \/ TwoLimits(q)
      PROVE  SameBody(BodyOf(m, sys, turns, i, k, 0, {}, a, t, s, f, p, x),
                      BodyOf(m, sys, turns, j, l, 0, {}, b, t, s, f, p, y), r, q)
  <2> DEFINE c == BodyOf(m, sys, turns, i, k, 0, {}, a, t, s, f, p, x)
             d == BodyOf(m, sys, turns, j, l, 0, {}, b, t, s, f, p, y)
             e == BodyOf(m, sys, turns, Unset, Unset, 0, {}, "unset", t, s, f, p, Unset)
  <2>1. Plain(c) = e /\ Limit(c) = Or(k, i)
    BY PlainBody
  <2>2. Plain(d) = e /\ Limit(d) = Or(l, j) /\ d.tools = {}
    BY PlainBody
  <2> HIDE DEF c, d, e
  <2>3. SameBody(c, d, r, q)
    BY <1>4, <2>1, <2>2 DEF SameBody
  <2> QED BY <2>3 DEF c, d
<1>o. /\ Or(Unset, Limit(q)) = Or(Unset, Limit(r)) \/ TwoLimits(r) \/ TwoLimits(q)
      /\ Or(Unset, OwnLimit(q, m)) = Or(Unset, OwnLimit(r, m)) \/ TwoLimits(r) \/ TwoLimits(q)
      /\ \/ Or(q.max_completion_tokens, q.max_tokens) = Or(r.max_completion_tokens, r.max_tokens)
         \/ TwoLimits(r) \/ TwoLimits(q)
  <2>1. Or(r.max_completion_tokens, r.max_tokens) = Limit(r)
        /\ Or(q.max_completion_tokens, q.max_tokens) = Limit(q)
    BY DEF Limit
  <2> QED BY <1>2, <1>3, <2>1
<1>5. SameBody(AnthropicRequest(v), AnthropicRequest(u), r, q)
  BY <1>1, <1>4, <1>o, SentBodies
<1>6. SameBody(GeminiRequest(v), GeminiRequest(u), r, q)
  BY <1>1, <1>4, <1>o, SentBodies
<1>7. SameBody(CohereRequest(v), CohereRequest(u), r, q)
  BY <1>1, <1>4, <1>o, SentBodies
<1>8. SameBody(OpenAIRequest(v), OpenAIRequest(u), r, q)
  BY <1>1, <1>4, <1>o, SentBodies
<1>9. SameBody(MistralRequest(v), MistralRequest(u), r, q)
  BY <1>1, <1>4, <1>o, SentBodies
<1> HIDE DEF u, v
<1>10. SameBody(TranslateRequest(adapter, v), TranslateRequest(adapter, u), r, q)
  BY <1>5, <1>6, <1>7, <1>8, <1>9 DEF TranslateRequest
<1> QED BY <1>10 DEF Sent, u, v

-----------------------------------------------------------------------------
Places == {"idle", "looking", "calling", "storing"}
Statuses == {"none", "HIT", "MISS", "SKIP"}
FlushPlaces == {"idle", "scan", "del", "done", "failed"}

TypeOK ==
    /\ pc \in [Handlers -> Places]
    /\ req \in [Handlers -> Requests \cup {Nobody}]
    /\ DOMAIN model = Handlers /\ DOMAIN answer = Handlers
    /\ status \in [Handlers -> Statuses]
    /\ target \in meant
    /\ flush \in [pc : FlushPlaces, todo : SUBSET Keys, batch : SUBSET Keys, gen : Nat]
    /\ DOMAIN cache \subseteq Keys

(* The models a name stands for or has stood for. *)
Names(name) == IF name = Alias THEN meant ELSE {name}

(* An answer a provider of such a model gave to request r. *)
Genuine(got, r) ==
    \E m \in Names(r.model) : \E a \in Serves[m] :
        got = [adapter |-> a, of |-> r, body |-> Sent(a, r, m)]

(* An answer that may be shared with the requests that have the key. *)
Shared(got, key) ==
    \E r \in Requests : isEligible(r) /\ computeKey(r) = key /\ Genuine(got, r)

(* A request that is being handled. *)
UnderwayOf(h) ==
    pc[h] # "idle" =>
        /\ req[h] \in Requests
        /\ model[h] \in Names(req[h].model)
        /\ pc[h] \in {"looking", "storing"} => Cached(h)
        /\ pc[h] = "storing" => status[h] = "MISS"

(* Where an answer that was given came from. *)
GivenOf(h) ==
    /\ status[h] # "none" => req[h] \in Requests
    /\ status[h] \in {"MISS", "SKIP"} => Genuine(answer[h], req[h])
    /\ status[h] = "HIT" => Cached(h) /\ Shared(answer[h], computeKey(req[h]))

Underway == \A h \in Handlers : UnderwayOf(h)
Given == \A h \in Handlers : GivenOf(h)
Stored == \A k \in DOMAIN cache : Shared(cache[k].answer, k)

(* A flush under way has before it, or in hand, every entry of the time     *)
(* before it.                                                               *)
Flushing ==
    /\ flush.pc = "scan" => flush.batch = {}
    /\ flush.pc \in {"scan", "del"} =>
          \A k \in DOMAIN cache :
              cache[k].stored = flush.gen \/ k \in flush.todo \cup flush.batch

(* The inductive invariant. *)
IInv == TypeOK /\ Underway /\ Given /\ Stored /\ Flushing /\ FlushClears

-----------------------------------------------------------------------------
LEMMA InvInit == Init => IInv
<1> SUFFICES ASSUME Init PROVE IInv
  OBVIOUS
<1>1. DOMAIN cache = {}
  BY DEF Init, Empty
<1>2. /\ pc \in [Handlers -> Places] /\ status \in [Handlers -> Statuses]
      /\ req \in [Handlers -> Requests \cup {Nobody}]
      /\ DOMAIN model = Handlers /\ DOMAIN answer = Handlers /\ target \in meant
  BY DEF Init, Places, Statuses
<1>3. flush \in [pc : FlushPlaces, todo : SUBSET Keys, batch : SUBSET Keys, gen : Nat]
  BY DEF Init, FlushPlaces
<1>4. TypeOK
  BY <1>1, <1>2, <1>3 DEF TypeOK
<1>5. Underway /\ Given
  BY DEF Init, Underway, UnderwayOf, Given, GivenOf
<1>6. Stored /\ Flushing /\ FlushClears
  BY <1>1 DEF Init, Stored, Flushing, FlushClears
<1> QED BY <1>4, <1>5, <1>6 DEF IInv

(* Genuine answers stay genuine: an alias never loses a model it had. *)
LEMMA GenuineKept ==
    ASSUME meant \subseteq meant', NEW got, NEW r, Genuine(got, r)
    PROVE  Genuine(got, r)'
<1> QED BY DEF Genuine, Names

LEMMA SharedKept ==
    ASSUME meant \subseteq meant', NEW got, NEW key, Shared(got, key)
    PROVE  Shared(got, key)'
<1> QED BY GenuineKept DEF Shared

(* What holds of a handler that a step leaves alone. *)
LEMMA GivenKept ==
    ASSUME NEW g \in Handlers, GivenOf(g), meant \subseteq meant',
           req'[g] = req[g], answer'[g] = answer[g], status'[g] = status[g]
    PROVE  GivenOf(g)'
<1>1. status'[g] # "none" => req'[g] \in Requests
  BY DEF GivenOf
<1>2. ASSUME status'[g] \in {"MISS", "SKIP"} PROVE Genuine(answer[g], req[g])'
  <2>1. Genuine(answer[g], req[g])
    BY <1>2 DEF GivenOf
  <2> QED BY <2>1 DEF Genuine, Names
<1>3. ASSUME status'[g] = "HIT"
      PROVE  Cached(g)' /\ Shared(answer[g], computeKey(req[g]))'
  <2>1. Cached(g) /\ Shared(answer[g], computeKey(req[g]))
    BY <1>3 DEF GivenOf
  <2>2. Cached(g)'
    BY <2>1 DEF Cached
  <2>3. PICK r \in Requests : /\ isEligible(r) /\ computeKey(r) = computeKey(req[g])
                              /\ Genuine(answer[g], r)
    BY <2>1 DEF Shared
  <2>4. \E m \in Names(r.model)' : \E a \in Serves[m] :
            answer'[g] = [adapter |-> a, of |-> r, body |-> Sent(a, r, m)]
    BY <2>3 DEF Genuine, Names
  <2>5. Shared(answer[g], computeKey(req[g]))'
    BY <2>3, <2>4 DEF Shared, Genuine
  <2> QED BY <2>2, <2>5
<1> QED BY <1>1, <1>2, <1>3 DEF GivenOf

LEMMA UnderwayKept ==
    ASSUME NEW g \in Handlers, UnderwayOf(g), meant \subseteq meant',
           req'[g] = req[g], model'[g] = model[g], status'[g] = status[g],
           pc'[g] = pc[g]
    PROVE  UnderwayOf(g)'
<1> QED BY DEF UnderwayOf, Names, Cached

(* A step of one handler. *)
LEMMA OneHandler ==
    ASSUME TypeOK, Underway, Given, meant' = meant, NEW h \in Handlers,
           \A g \in Handlers : g # h =>
               /\ pc'[g] = pc[g] /\ req'[g] = req[g] /\ model'[g] = model[g]
               /\ answer'[g] = answer[g] /\ status'[g] = status[g],
           UnderwayOf(h)', GivenOf(h)'
    PROVE  Underway' /\ Given'
<1>1. ASSUME NEW g \in Handlers PROVE UnderwayOf(g)'
  <2>1. CASE g = h
    BY <2>1
  <2>2. CASE g # h
    BY <2>2, UnderwayKept DEF Underway
  <2> QED BY <2>1, <2>2
<1>2. ASSUME NEW g \in Handlers PROVE GivenOf(g)'
  <2>1. CASE g = h
    BY <2>1
  <2>2. CASE g # h
    BY <2>2, GivenKept DEF Given
  <2> QED BY <2>1, <2>2
<1> QED BY <1>1, <1>2 DEF Underway, Given

(* The entries and the flush, for steps that leave them alone. *)
LEMMA CacheKept ==
    ASSUME IInv, meant \subseteq meant', UNCHANGED <<cache, flush>>
    PROVE  Stored' /\ Flushing' /\ FlushClears'
<1>1. ASSUME NEW k \in DOMAIN cache PROVE Shared(cache[k].answer, k)'
  <2>1. Shared(cache[k].answer, k)
    BY DEF IInv, Stored
  <2> QED BY <2>1 DEF Shared, Genuine, Names
<1>2. Stored'
  BY <1>1 DEF Stored
<1> QED BY <1>2 DEF IInv, Flushing, FlushClears

LEMMA SubmitKeeps ==
    ASSUME IInv, NEW h \in Handlers, NEW r \in Requests, Submit(h, r)
    PROVE  IInv'
<1> USE DEF IInv
<1>1. /\ req' = [req EXCEPT ![h] = r]
      /\ model' = [model EXCEPT ![h] = resolve(r.model)]
      /\ answer' = [answer EXCEPT ![h] = NoAnswer]
      /\ status' = [status EXCEPT ![h] = "none"]
      /\ UNCHANGED <<target, cache, flush, meant>>
  BY DEF Submit
<1>2. \/ pc' = [pc EXCEPT ![h] = "looking"] /\ isEligible(r) /\ ~r.bypass
      \/ pc' = [pc EXCEPT ![h] = "calling"]
  BY DEF Submit
<1>3. TypeOK'
  <2>1. pc' \in [Handlers -> Places]
    BY <1>2 DEF TypeOK, Places
  <2>2. status' \in [Handlers -> Statuses]
    BY <1>1 DEF TypeOK, Statuses
  <2> QED BY <1>1, <2>1, <2>2 DEF TypeOK
<1>4. UnderwayOf(h)'
  <2>1. resolve(r.model) \in Names(r.model)
    BY DEF resolve, Names, TypeOK
  <2>2. req'[h] = r /\ model'[h] = resolve(r.model)
    BY <1>1 DEF TypeOK
  <2>3. \/ pc'[h] = "looking" /\ isEligible(r) /\ ~r.bypass
        \/ pc'[h] = "calling"
    BY <1>2 DEF TypeOK
  <2> QED BY <1>1, <2>1, <2>2, <2>3 DEF UnderwayOf, Names, Cached
<1>5. GivenOf(h)'
  BY <1>1 DEF GivenOf, TypeOK
<1>6. Underway' /\ Given'
  BY <1>1, <1>2, <1>4, <1>5, OneHandler DEF TypeOK
<1>7. Stored' /\ Flushing' /\ FlushClears'
  BY <1>1, CacheKept
<1> QED BY <1>3, <1>6, <1>7

LEMMA HitKeeps ==
    ASSUME IInv, NEW h \in Handlers, Hit(h)
    PROVE  IInv'
<1> USE DEF IInv
<1> DEFINE key == computeKey(req[h])
<1>1. /\ pc[h] = "looking" /\ key \in DOMAIN cache
      /\ answer' = [answer EXCEPT ![h] = cache[key].answer]
      /\ status' = [status EXCEPT ![h] = "HIT"]
      /\ pc' = [pc EXCEPT ![h] = "idle"]
      /\ UNCHANGED <<req, model, target, cache, flush, meant>>
  BY DEF Hit
<1>2. TypeOK'
  BY <1>1 DEF TypeOK, Places, Statuses
<1>3. UnderwayOf(h)'
  BY <1>1 DEF UnderwayOf, TypeOK
<1>4. GivenOf(h)'
  <2>1. req[h] \in Requests /\ Cached(h)
    BY <1>1 DEF Underway, UnderwayOf
  <2>2. Shared(cache[key].answer, key)
    BY <1>1 DEF Stored
  <2>3. answer'[h] = cache[key].answer /\ status'[h] = "HIT" /\ req'[h] = req[h]
    BY <1>1 DEF TypeOK
  <2>4. Shared(answer[h], computeKey(req[h]))'
    BY <1>1, <2>2, <2>3 DEF Shared, Genuine, Names
  <2> QED BY <2>1, <2>3, <2>4 DEF GivenOf, Cached
<1>5. Underway' /\ Given'
  BY <1>1, <1>3, <1>4, OneHandler DEF TypeOK
<1>6. Stored' /\ Flushing' /\ FlushClears'
  BY <1>1, CacheKept
<1> QED BY <1>2, <1>5, <1>6

(* Steps that only move a handler: to its call, or to the end. *)
LEMMA MoveKeeps ==
    ASSUME IInv, NEW h \in Handlers, Miss(h) \/ CacheFault(h) \/ CallFails(h)
    PROVE  IInv'
<1> USE DEF IInv
<1>1. /\ UNCHANGED <<req, model, answer, status, target, cache, flush, meant>>
      /\ pc[h] # "idle"
      /\ pc' = [pc EXCEPT ![h] = "calling"] \/ pc' = [pc EXCEPT ![h] = "idle"]
  BY DEF Miss, CacheFault, CallFails
<1>2. pc'[h] \in {"calling", "idle"} /\ pc' \in [Handlers -> Places]
  BY <1>1 DEF TypeOK, Places
<1>3. TypeOK'
  BY <1>1, <1>2 DEF TypeOK
<1>4. UnderwayOf(h)'
  BY <1>1, <1>2 DEF Underway, UnderwayOf, Names
<1>5. GivenOf(h)'
  BY <1>1, GivenKept DEF Given
<1>6. Underway' /\ Given'
  BY <1>1, <1>4, <1>5, OneHandler DEF TypeOK
<1>7. Stored' /\ Flushing' /\ FlushClears'
  BY <1>1, CacheKept
<1> QED BY <1>3, <1>6, <1>7

LEMMA CallProviderKeeps ==
    ASSUME IInv, NEW h \in Handlers, NEW adapter, CallProvider(h, adapter)
    PROVE  IInv'
<1> USE DEF IInv
<1> DEFINE got == [adapter |-> adapter, of |-> req[h],
                   body |-> Sent(adapter, req[h], model[h])]
<1>1. /\ pc[h] = "calling" /\ adapter \in Serves[model[h]]
      /\ answer' = [answer EXCEPT ![h] = got]
      /\ UNCHANGED <<req, model, target, cache, flush, meant>>
  BY DEF CallProvider, Sent, upstreamRequest
<1>2. \/ /\ Cached(h) /\ status' = [status EXCEPT ![h] = "MISS"]
         /\ pc' = [pc EXCEPT ![h] = "storing"]
      \/ /\ status' = [status EXCEPT ![h] = "SKIP"]
         /\ pc' = [pc EXCEPT ![h] = "idle"]
  BY DEF CallProvider
<1>3. TypeOK'
  <2>1. pc' \in [Handlers -> Places]
    BY <1>2 DEF TypeOK, Places
  <2>2. status' \in [Handlers -> Statuses]
    BY <1>2 DEF TypeOK, Statuses
  <2> QED BY <1>1, <2>1, <2>2 DEF TypeOK
<1>4. req[h] \in Requests /\ model[h] \in Names(req[h].model)
  BY <1>1 DEF Underway, UnderwayOf
<1>5. \/ Cached(h) /\ status'[h] = "MISS" /\ pc'[h] = "storing"
      \/ status'[h] = "SKIP" /\ pc'[h] = "idle"
  BY <1>2 DEF TypeOK
<1>6. UnderwayOf(h)'
  BY <1>1, <1>4, <1>5 DEF UnderwayOf, Names, Cached
<1>7. GivenOf(h)'
  <2>1. answer'[h] = got /\ req'[h] = req[h]
    BY <1>1 DEF TypeOK
  <2> HIDE DEF got
  <2>2. Genuine(got, req[h])
    BY <1>1, <1>4 DEF Genuine, got
  <2>3. Genuine(answer[h], req[h])'
    BY <1>1, <2>1, <2>2 DEF Genuine, Names
  <2> QED BY <1>4, <1>5, <2>1, <2>3 DEF GivenOf
<1>8. Underway' /\ Given'
  BY <1>1, <1>2, <1>6, <1>7, OneHandler DEF TypeOK
<1>9. Stored' /\ Flushing' /\ FlushClears'
  BY <1>1, CacheKept
<1> QED BY <1>3, <1>8, <1>9

(* An answer is stored under its own key, with the number of the flush that *)
(* began last.                                                              *)
LEMMA StoreKeeps ==
    ASSUME IInv, NEW h \in Handlers, NEW small \in BOOLEAN, Store(h, small)
    PROVE  IInv'
<1> USE DEF IInv
<1> DEFINE key == computeKey(req[h])
           entry == [answer |-> answer[h], stored |-> flush.gen]
<1>1. /\ pc[h] = "storing" /\ pc' = [pc EXCEPT ![h] = "idle"]
      /\ UNCHANGED <<req, model, answer, status, target, flush, meant>>
  BY DEF Store
<1>2. \/ cache' = [k \in DOMAIN cache \cup {key} |-> IF k = key THEN entry ELSE cache[k]]
      \/ cache' = cache
  BY DEF Store
<1>3. req[h] \in Requests /\ Cached(h) /\ status[h] = "MISS"
  BY <1>1 DEF Underway, UnderwayOf
<1>4. key \in Keys /\ Shared(answer[h], key)
  <2>1. isEligible(req[h])
    BY <1>3 DEF Cached
  <2>2. Genuine(answer[h], req[h])
    BY <1>3 DEF Given, GivenOf
  <2> QED BY <1>3, <2>1, <2>2 DEF Keys, Shared
<1>5. TypeOK'
  <2>1. DOMAIN cache' \subseteq Keys
    BY <1>2, <1>4 DEF TypeOK
  <2> QED BY <1>1, <2>1 DEF TypeOK, Places
<1>6. UnderwayOf(h)' /\ GivenOf(h)'
  <2>1. UnderwayOf(h)'
    BY <1>1 DEF UnderwayOf, TypeOK
  <2> QED BY <1>1, <2>1, GivenKept DEF Given
<1>7. Underway' /\ Given'
  BY <1>1, <1>6, OneHandler DEF TypeOK
<1>8. ASSUME NEW k \in DOMAIN cache'
      PROVE  \/ cache'[k].answer = answer[h] /\ cache'[k].stored = flush.gen /\ k = key
             \/ k \in DOMAIN cache /\ cache'[k] = cache[k]
  BY <1>2, <1>8
<1>9. Stored'
  <2> SUFFICES ASSUME NEW k \in DOMAIN cache' PROVE Shared(cache[k].answer, k)'
    BY DEF Stored
  <2>1. Shared(cache'[k].answer, k)
    BY <1>4, <1>8 DEF Stored
  <2> QED BY <1>1, <2>1 DEF Shared, Genuine, Names
<1>10. Flushing' /\ FlushClears'
  BY <1>1, <1>8 DEF Flushing, FlushClears
<1> QED BY <1>5, <1>7, <1>9, <1>10

-----------------------------------------------------------------------------
(* Steps that leave the handlers alone. *)
LEMMA HandlersKept ==
    ASSUME IInv, meant \subseteq meant', UNCHANGED handler
    PROVE  Underway' /\ Given'
<1>1. ASSUME NEW g \in Handlers PROVE UnderwayOf(g)' /\ GivenOf(g)'
  BY UnderwayKept, GivenKept DEF IInv, Underway, Given, handler
<1> QED BY <1>1 DEF Underway, Given

(* Entries that are dropped, one by one or by a flush. *)
LEMMA WithoutKeeps ==
    ASSUME IInv, NEW keys, cache' = Without(keys), meant' = meant
    PROVE  /\ Stored'
           /\ \A k \in DOMAIN cache' : k \in DOMAIN cache /\ k \notin keys /\ cache'[k] = cache[k]
<1>1. \A k \in DOMAIN cache' : k \in DOMAIN cache /\ k \notin keys /\ cache'[k] = cache[k]
  BY DEF Without
<1>2. ASSUME NEW k \in DOMAIN cache' PROVE Shared(cache[k].answer, k)'
  <2>1. Shared(cache'[k].answer, k)
    BY <1>1 DEF IInv, Stored
  <2> QED BY <2>1 DEF Shared, Genuine, Names
<1> QED BY <1>1, <1>2 DEF Stored

LEMMA DropKeeps ==
    ASSUME IInv, NEW key, Drop(key)
    PROVE  IInv'
<1> USE DEF IInv
<1>1. cache' = Without({key}) /\ UNCHANGED <<handler, target, flush, meant>>
  BY DEF Drop
<1>2. /\ Stored'
      /\ \A k \in DOMAIN cache' : k \in DOMAIN cache /\ cache'[k] = cache[k]
  BY <1>1, WithoutKeeps
<1>3. TypeOK'
  BY <1>1, <1>2 DEF TypeOK, handler
<1>4. Underway' /\ Given'
  BY <1>1, HandlersKept
<1>5. Flushing' /\ FlushClears'
  BY <1>1, <1>2 DEF Flushing, FlushClears
<1> QED BY <1>2, <1>3, <1>4, <1>5

LEMMA RepointKeeps ==
    ASSUME IInv, NEW m, Repoint(m)
    PROVE  IInv'
<1> USE DEF IInv
<1>1. /\ target' = m /\ meant' = meant \cup {m}
      /\ UNCHANGED <<handler, cache, flush>>
  BY DEF Repoint
<1>2. TypeOK'
  BY <1>1 DEF TypeOK, handler
<1>3. Underway' /\ Given' /\ Stored' /\ Flushing' /\ FlushClears'
  BY <1>1, HandlersKept, CacheKept
<1> QED BY <1>2, <1>3

LEMMA FlushStepKeeps ==
    ASSUME IInv,
           \/ FlushStart \/ FlushDel \/ FlushFault
           \/ \E part \in {flush.todo} \cup {{k} : k \in flush.todo} : FlushScan(part)
    PROVE  IInv'
<1> USE DEF IInv
<1>0. UNCHANGED <<handler, target, meant>>
  BY DEF FlushStart, FlushDel, FlushFault, FlushScan
<1>1. Underway' /\ Given'
  BY <1>0, HandlersKept
<1> DEFINE Rest == TypeOK' /\ Stored' /\ Flushing' /\ FlushClears'
<1>2. ASSUME FlushStart PROVE Rest
  <2>1. /\ flush' = [pc |-> "scan", todo |-> Keys, batch |-> {}, gen |-> flush.gen + 1]
        /\ cache' = cache
    BY <1>2 DEF FlushStart
  <2>2. TypeOK'
    <3>1. flush' \in [pc : FlushPlaces, todo : SUBSET Keys, batch : SUBSET Keys, gen : Nat]
      BY <2>1 DEF TypeOK, FlushPlaces
    <3> QED BY <1>0, <2>1, <3>1 DEF TypeOK, handler
  <2>3. Stored'
    BY <1>0, <2>1 DEF Stored, Shared, Genuine, Names
  <2>4. Flushing' /\ FlushClears'
    BY <2>1 DEF Flushing, FlushClears, TypeOK
  <2> QED BY <2>2, <2>3, <2>4
<1>3. ASSUME NEW part, part \subseteq flush.todo, FlushScan(part) PROVE Rest
  <2> DEFINE rest == flush.todo \ part
             batch == part \cap DOMAIN cache
  <2>1. /\ flush.pc = "scan" /\ cache' = cache /\ flush.batch = {}
        /\ flush' = [flush EXCEPT !.todo = rest, !.batch = batch,
                        !.pc = IF batch = {} THEN AfterBatch(rest, batch) ELSE "del"]
    BY <1>3 DEF FlushScan, Flushing
  <2>2. /\ flush'.todo = rest /\ flush'.batch = batch /\ flush'.gen = flush.gen
        /\ flush'.pc = IF batch = {} THEN AfterBatch(rest, batch) ELSE "del"
        /\ flush' \in [pc : FlushPlaces, todo : SUBSET Keys, batch : SUBSET Keys, gen : Nat]
    BY <1>3, <2>1 DEF TypeOK, FlushPlaces, AfterBatch
  <2>3. TypeOK'
    BY <1>0, <2>1, <2>2 DEF TypeOK, handler
  <2>4. Stored'
    BY <1>0, <2>1 DEF Stored, Shared, Genuine, Names
  <2>5. \A k \in DOMAIN cache : cache[k].stored = flush.gen \/ k \in rest \cup batch
    BY <1>3, <2>1 DEF Flushing
  <2>6. flush'.pc = "scan" => batch = {}
    BY <2>2
  <2>7. flush'.pc = "done" => rest = {} /\ batch = {}
    BY <2>2 DEF AfterBatch
  <2> HIDE DEF rest, batch
  <2>8. Flushing' /\ FlushClears'
    BY <2>1, <2>2, <2>5, <2>6, <2>7 DEF Flushing, FlushClears
  <2> QED BY <2>3, <2>4, <2>8
<1>4. ASSUME FlushDel PROVE Rest
  <2>1. /\ flush.pc = "del" /\ cache' = Without(flush.batch)
        /\ flush' = [flush EXCEPT !.pc = AfterBatch(flush.todo, flush.batch), !.batch = {}]
    BY <1>4 DEF FlushDel
  <2>2. /\ flush'.todo = flush.todo /\ flush'.batch = {} /\ flush'.gen = flush.gen
        /\ flush'.pc = AfterBatch(flush.todo, flush.batch)
        /\ flush' \in [pc : FlushPlaces, todo : SUBSET Keys, batch : SUBSET Keys, gen : Nat]
    BY <2>1 DEF TypeOK, FlushPlaces, AfterBatch
  <2>3. /\ Stored'
        /\ \A k \in DOMAIN cache' : /\ k \in DOMAIN cache /\ k \notin flush.batch
                                    /\ cache'[k] = cache[k]
    BY <1>0, <2>1, WithoutKeeps
  <2>4. TypeOK'
    BY <1>0, <2>2, <2>3 DEF TypeOK, handler
  <2>5. flush'.pc = "done" => flush.todo = {}
    BY <2>2 DEF AfterBatch
  <2>6. \A k \in DOMAIN cache' : cache'[k].stored = flush.gen \/ k \in flush.todo
    BY <2>1, <2>3 DEF Flushing
  <2>7. Flushing' /\ FlushClears'
    BY <2>2, <2>5, <2>6 DEF Flushing, FlushClears
  <2> QED BY <2>3, <2>4, <2>7
<1>5. ASSUME FlushFault PROVE Rest
  <2>1. /\ cache' = cache
        /\ flush' = [flush EXCEPT !.pc = "failed", !.todo = {}, !.batch = {}]
    BY <1>5 DEF FlushFault
  <2>2. /\ flush'.pc = "failed"
        /\ flush' \in [pc : FlushPlaces, todo : SUBSET Keys, batch : SUBSET Keys, gen : Nat]
    BY <2>1 DEF TypeOK, FlushPlaces
  <2>3. TypeOK'
    BY <1>0, <2>1, <2>2 DEF TypeOK, handler
  <2>4. Stored'
    BY <1>0, <2>1 DEF Stored, Shared, Genuine, Names
  <2>5. Flushing' /\ FlushClears'
    BY <2>2 DEF Flushing, FlushClears
  <2> QED BY <2>3, <2>4, <2>5
<1>6. ASSUME NEW part \in {flush.todo} \cup {{k} : k \in flush.todo}
      PROVE  part \subseteq flush.todo
  OBVIOUS
<1> HIDE DEF Rest
<1>7. Rest
  BY <1>2, <1>3, <1>4, <1>5, <1>6
<1> QED BY <1>1, <1>7 DEF Rest

LEMMA InvNext == IInv /\ [Next]_vars => IInv'
<1> SUFFICES ASSUME IInv, [Next]_vars PROVE IInv'
  OBVIOUS
<1>1. CASE UNCHANGED vars
  <2>1. Underway' /\ Given' /\ Stored' /\ Flushing' /\ FlushClears'
    BY <1>1, HandlersKept, CacheKept DEF vars, handler
  <2> QED BY <1>1, <2>1 DEF vars, IInv, TypeOK
<1>2. ASSUME NEW h \in Handlers, Handle(h) PROVE IInv'
  BY <1>2, SubmitKeeps, HitKeeps, MoveKeeps, CallProviderKeeps, StoreKeeps DEF Handle
<1>3. CASE Operate
  BY <1>3, RepointKeeps, FlushStepKeeps DEF Operate
<1> QED BY <1>1, <1>2, <1>3, DropKeeps DEF Next

LEMMA InvAlways == Spec => []IInv
<1> QED BY InvInit, InvNext, PTL DEF Spec

-----------------------------------------------------------------------------
(* Whatever requests, expiries, changed aliases, flushes and Redis faults   *)
(* interleave in chatCompletion, a client gets an answer to its own         *)
(* question: computeKey tells apart every two requests that a provider      *)
(* would, but for the three differences AnswersRight names.                 *)
THEOREM AnswersAreRight == Spec => []AnswersRight
<1>1. ASSUME IInv PROVE AnswersRight
  <2> USE DEF IInv
  <2> SUFFICES ASSUME NEW h \in Handlers, Answered(h)
               PROVE  /\ \E m \in Names(req[h].model) : \E a \in Serves[m] :
                            SameBody(answer[h].body, Sent(a, req[h], m), req[h], answer[h].of)
                      /\ status[h] = "HIT" => Cached(h)
    BY DEF AnswersRight, Names, SameBody, Plain, Sent
  <2>1. req[h] \in Requests /\ status[h] \in {"HIT", "MISS", "SKIP"}
    BY <1>1 DEF Answered, TypeOK, Statuses, Given, GivenOf
  <2>2. CASE status[h] \in {"MISS", "SKIP"}
    <3>0. PICK m \in Names(req[h].model) : \E a \in Serves[m] :
              answer[h] = [adapter |-> a, of |-> req[h], body |-> Sent(a, req[h], m)]
      BY <1>1, <2>2 DEF Given, GivenOf, Genuine
    <3>1. PICK a \in Serves[m] :
              answer[h] = [adapter |-> a, of |-> req[h], body |-> Sent(a, req[h], m)]
      BY <3>0
    <3>2. answer[h].body = Sent(a, req[h], m)
      BY <3>1
    <3> QED BY <2>2, <3>0, <3>1, <3>2 DEF SameBody
  <2>3. CASE status[h] = "HIT"
    <3>1. Cached(h) /\ Shared(answer[h], computeKey(req[h]))
      BY <1>1, <2>3 DEF Given, GivenOf
    <3>2. PICK r \in Requests : /\ isEligible(r) /\ computeKey(r) = computeKey(req[h])
                                /\ Genuine(answer[h], r)
      BY <3>1 DEF Shared
    <3>3. PICK m \in Names(r.model) : \E a \in Serves[m] :
              answer[h] = [adapter |-> a, of |-> r, body |-> Sent(a, r, m)]
      BY <3>2 DEF Genuine
    <3>4. PICK a \in Serves[m] :
              answer[h] = [adapter |-> a, of |-> r, body |-> Sent(a, r, m)]
      BY <3>3
    <3>5. r.model = req[h].model
      BY <3>2 DEF computeKey
    <3>6. SameBody(Sent(a, r, m), Sent(a, req[h], m), req[h], r)
      BY <2>1, <3>1, <3>2, SameKeySameBody DEF Cached
    <3>7. answer[h].body = Sent(a, r, m) /\ answer[h].of = r
      BY <3>4
    <3> QED BY <3>1, <3>3, <3>4, <3>5, <3>6, <3>7
  <2> QED BY <2>1, <2>2, <2>3
<1> QED BY <1>1, InvAlways, PTL

(* A flush that ends has removed every answer stored before it began, while *)
(* requests store, entries expire and SCAN returns empty steps.             *)
THEOREM FlushIsThorough == Spec => []FlushClears
<1>1. IInv => FlushClears
  BY DEF IInv
<1> QED BY <1>1, InvAlways, PTL

-----------------------------------------------------------------------------
(* Induction over naturals: a property is a set here, so that it can be     *)
(* instantiated.                                                            *)
LEMMA Induction ==
    ASSUME NEW a \in Nat, NEW b \in Nat, NEW P \in SUBSET (a .. b),
           a \in P, \A i \in a .. b - 1 : i \in P => i + 1 \in P
    PROVE  \A i \in a .. b : i \in P
<1> DEFINE N == (a .. b) \ P
<1> SUFFICES ASSUME N # {} PROVE FALSE
  OBVIOUS
<1>1. IsWellFoundedOn(OpToRel(<, Nat), Nat)
  BY NatLessThanWellFounded
<1>0. N \in SUBSET Nat
  OBVIOUS
<1>2. PICK m \in N : \A n \in N : ~(<<n, m>> \in OpToRel(<, Nat))
  <2> HIDE DEF N
  <2> QED BY <1>0, <1>1, WFMin
<1>3. \A n \in N : ~(n < m)
  <2> HIDE DEF N
  <2> QED BY <1>0, <1>2 DEF OpToRel
<1>4. m \in a .. b /\ m \notin P /\ m # a
  OBVIOUS
<1>5. m - 1 \in a .. b - 1 /\ m - 1 \notin N
  BY <1>3, <1>4
<1>6. (m - 1) + 1 = m
  BY <1>4
<1> QED BY <1>4, <1>5, <1>6

LEMMA TopOf ==
    ASSUME NEW m \in Nat, NEW s \in SUBSET (1 .. m + 1), m + 1 \in s
    PROVE  Max(s) = m + 1
<1>1. \A y \in s : y \in Nat /\ m + 1 >= y
  OBVIOUS
<1>2. \A x \in s : (\A y \in s : x >= y) => x = m + 1
  BY <1>1
<1>3. \E x \in s : \A y \in s : x >= y
  BY <1>1
<1> QED BY <1>2, <1>3, Zenon DEF Max

LEMMA Climb ==
    ASSUME NEW n \in Nat, NEW i \in 0 .. n - 1
    PROVE  /\ i \in Nat /\ i + 1 \in 1 .. n /\ i + 1 \in 0 .. n /\ (i + 1) - 1 = i
           /\ 1 .. i + 1 \in SUBSET (1 .. n) /\ 1 .. i + 1 # {}
           /\ (1 .. i + 1) \ {i + 1} = 1 .. i /\ Max(1 .. i + 1) = i + 1
<1>1. /\ i \in Nat /\ i + 1 \in 1 .. n /\ i + 1 \in 0 .. n /\ (i + 1) - 1 = i
      /\ i + 1 \in 1 .. i + 1
  OBVIOUS
<1>2. 1 .. i + 1 \in SUBSET (1 .. n) /\ 1 .. i + 1 # {}
  BY <1>1
<1>3. (1 .. i + 1) \ {i + 1} = 1 .. i
  OBVIOUS
<1>4. Max(1 .. i + 1) = i + 1
  BY <1>1, TopOf
<1> QED BY <1>1, <1>2, <1>3, <1>4

-----------------------------------------------------------------------------
(* The turns of Anthropic and Gemini alternate, whatever the conversation.  *)
Alternate(turns) ==
    /\ turns \in Seq(Range(turns))
    /\ \A i \in 2 .. Len(turns) : turns[i].role # turns[i - 1].role

LEMMA PushAlternates ==
    ASSUME NEW turns, NEW turn, Alternate(turns)
    PROVE  Alternate(push(turns, turn))
<1> DEFINE n == Len(turns)
           S == Range(turns)
<1>1. n \in Nat /\ turns \in Seq(S) /\ \A i \in 2 .. n : turns[i].role # turns[i - 1].role
  BY DEF Alternate
<1>0. turns = <<>> <=> n = 0
  BY <1>1
<1>r. \A T, s : s \in Seq(T) => s \in Seq(Range(s))
  BY DEF Range
<1> HIDE DEF n, S
<1>2. CASE turn.parts = <<>>
  BY <1>2 DEF push
<1>3. CASE turn.parts # <<>> /\ turns # <<>> /\ Last(turns).role = turn.role
  <2> DEFINE u == Turn(turn.role, Last(turns).parts \o turn.parts)
             f == Front(turns)
             p == Append(f, u)
             T == S \cup {u}
  <2>1. push(turns, turn) = p
    BY <1>3 DEF push
  <2>2. u.role = turn.role
    BY DEF Turn
  <2>3. Last(turns) = turns[n]
    BY DEF Last, n
  <2> HIDE DEF u
  <2>4. n >= 1
    BY <1>0, <1>1, <1>3
  <2>5. f \in Seq(T) /\ Len(f) = n - 1 /\ \A i \in 1 .. n - 1 : f[i] = turns[i]
    <3>1. turns \in Seq(T)
      BY <1>1
    <3> HIDE DEF T
    <3>2. f = SubSeq(turns, 1, n - 1)
      BY DEF Front, n
    <3>3. \A i \in 1 .. n - 1 : i \in 1 .. n
      BY <1>1
    <3>4. n = Len(turns)
      BY DEF n
    <3> HIDE DEF f
    <3>5. f \in Seq(T) /\ Len(f) = n - 1
      BY <1>1, <2>4, <3>1, <3>2, <3>4
    <3>6. \A i \in 1 .. n - 1 : f[i] = turns[i]
      BY <1>1, <2>4, <3>1, <3>2, <3>3, <3>4
    <3> QED BY <3>5, <3>6
  <2> HIDE DEF f
  <2>6. u \in T
    OBVIOUS
  <2> HIDE DEF T
  <2>7. p \in Seq(T) /\ Len(p) = n /\ p[n] = u /\ \A i \in 1 .. n - 1 : p[i] = f[i]
    BY <1>1, <2>4, <2>5, <2>6
  <2> HIDE DEF p
  <2>8. \A i \in 1 .. n - 1 : p[i].role = turns[i].role
    BY <2>5, <2>7
  <2>9. p[n].role = turns[n].role
    BY <1>3, <2>2, <2>3, <2>7
  <2>10. \A i \in 1 .. n : p[i].role = turns[i].role
    <3>1. \A i \in 1 .. n : i \in 1 .. n - 1 \/ i = n
      BY <1>1
    <3> QED BY <2>8, <2>9, <3>1
  <2>11. \A i \in 2 .. n : p[i].role # p[i - 1].role
    <3>1. \A i \in 2 .. n : i \in 1 .. n /\ i - 1 \in 1 .. n
      BY <1>1
    <3> QED BY <1>1, <2>10, <3>1
  <2> QED BY <1>r, <2>1, <2>7, <2>11 DEF Alternate
<1>4. CASE turn.parts # <<>> /\ ~(turns # <<>> /\ Last(turns).role = turn.role)
  <2> DEFINE p == Append(turns, turn)
             T == S \cup {turn}
  <2>1. push(turns, turn) = p
    BY <1>4 DEF push
  <2>2. Last(turns) = turns[n]
    BY DEF Last, n
  <2>3. turns \in Seq(T) /\ turn \in T
    BY <1>1
  <2> HIDE DEF T
  <2>4. p \in Seq(T) /\ Len(p) = n + 1 /\ p[n + 1] = turn /\ \A i \in 1 .. n : p[i] = turns[i]
    BY <1>1, <2>3 DEF n
  <2> HIDE DEF p
  <2>5. n # 0 => turns[n].role # turn.role
    BY <1>0, <1>4, <2>2
  <2>6. \A i \in 2 .. n + 1 : p[i].role # p[i - 1].role
    <3> SUFFICES ASSUME NEW i \in 2 .. n + 1 PROVE p[i].role # p[i - 1].role
      OBVIOUS
    <3>1. CASE i = n + 1
      <4>1. i - 1 = n /\ n \in 1 .. n /\ n # 0
        BY <1>1, <3>1
      <4> QED BY <2>4, <2>5, <3>1, <4>1
    <3>2. CASE i # n + 1
      <4>1. i \in 2 .. n /\ i \in 1 .. n /\ i - 1 \in 1 .. n
        BY <1>1, <3>2
      <4> QED BY <1>1, <2>4, <4>1
    <3> QED BY <3>1, <3>2
  <2> QED BY <1>r, <2>1, <2>4, <2>6 DEF Alternate
<1> QED BY <1>2, <1>3, <1>4

(* FoldLeft descends through the sets 1..m: what it computes is defined. *)
Pushed(h, m, s) ==
    h = [t \in SUBSET (1 .. m) |->
            IF t = {} THEN <<>> ELSE push(h[t \ {Max(t)}], s[Max(t)])]

LEMMA PushedExists ==
    ASSUME NEW n \in Nat, NEW s
    PROVE  \E h : Pushed(h, n, s)
<1> DEFINE P == {m \in 0 .. n : \E h : Pushed(h, m, s)}
<1>1. 0 \in P
  <2> DEFINE h == [t \in SUBSET (1 .. 0) |-> <<>>]
  <2>2. \A t \in SUBSET (1 .. 0) : t = {}
    OBVIOUS
  <2>3. Pushed(h, 0, s)
    BY <2>2 DEF Pushed
  <2>4. 0 \in 0 .. n
    OBVIOUS
  <2> HIDE DEF h
  <2> QED BY <2>3, <2>4
<1>2. \A m \in 0 .. n - 1 : m \in P => m + 1 \in P
  <2> SUFFICES ASSUME NEW m \in 0 .. n - 1, m \in P PROVE m + 1 \in P
    OBVIOUS
  <2>1. PICK k : Pushed(k, m, s)
    OBVIOUS
  <2>0. m \in Nat /\ m + 1 \in 0 .. n /\ m + 1 \notin 1 .. m
    OBVIOUS
  <2> DEFINE h == [t \in SUBSET (1 .. m + 1) |->
                      IF m + 1 \in t THEN push(k[t \ {m + 1}], s[m + 1]) ELSE k[t]]
  <2>2. \A t \in SUBSET (1 .. m + 1) :
           /\ t \ {m + 1} \in SUBSET (1 .. m)
           /\ m + 1 \notin t => t \in SUBSET (1 .. m)
    OBVIOUS
  <2>3. \A t \in SUBSET (1 .. m) : t \in SUBSET (1 .. m + 1) /\ m + 1 \notin t /\ h[t] = k[t]
    <3>1. \A t \in SUBSET (1 .. m) : t \in SUBSET (1 .. m + 1) /\ m + 1 \notin t
      BY <2>0
    <3> QED BY <3>1
  <2>4. \A t \in SUBSET (1 .. m + 1) : m + 1 \in t => h[t] = push(k[t \ {m + 1}], s[m + 1])
    OBVIOUS
  <2>5. h = [t \in SUBSET (1 .. m + 1) |-> h[t]]
    OBVIOUS
  <2>6. \A t \in SUBSET (1 .. m) :
            k[t] = IF t = {} THEN <<>> ELSE push(k[t \ {Max(t)}], s[Max(t)])
    BY <2>1 DEF Pushed
  <2> HIDE DEF h
  <2>7. ASSUME NEW t \in SUBSET (1 .. m + 1)
        PROVE  h[t] = IF t = {} THEN <<>> ELSE push(h[t \ {Max(t)}], s[Max(t)])
    <3>1. CASE m + 1 \in t
      <4>1. Max(t) = m + 1 /\ t # {}
        BY <2>0, <3>1, TopOf
      <4>2. h[t] = push(k[t \ {m + 1}], s[m + 1])
        BY <3>1, <2>4
      <4>3. h[t \ {m + 1}] = k[t \ {m + 1}]
        BY <2>2, <2>3
      <4> QED BY <4>1, <4>2, <4>3
    <3>2. CASE m + 1 \notin t
      <4>1. t \in SUBSET (1 .. m) /\ t \ {Max(t)} \in SUBSET (1 .. m)
        BY <2>2, <3>2
      <4>2. h[t] = k[t] /\ h[t \ {Max(t)}] = k[t \ {Max(t)}]
        BY <4>1, <2>3
      <4> QED BY <2>6, <4>1, <4>2
    <3> QED BY <3>1, <3>2
  <2>8. Pushed(h, m + 1, s)
    BY <2>5, <2>7 DEF Pushed
  <2> QED BY <2>0, <2>8
<1>3. P \in SUBSET (0 .. n) /\ 0 \in Nat /\ n \in Nat /\ n \in 0 .. n
  OBVIOUS
<1>4. n \in P
  <2> HIDE DEF P
  <2> QED BY <1>1, <1>2, <1>3, Induction
<1> QED BY <1>4

LEMMA MergedAlternates ==
    ASSUME NEW n \in Nat, NEW s, DOMAIN s = 1 .. n
    PROVE  Alternate(Merged(s))
<1> DEFINE iter == CHOOSE h : Pushed(h, n, s)
           P == {i \in 0 .. n : Alternate(iter[1 .. i])}
<1>1. Merged(s) = iter[1 .. n]
  BY DEF Merged, FoldLeft, MapThenFoldSet, Pushed
<1>2. Pushed(iter, n, s)
  BY PushedExists
<1> HIDE DEF iter
<1>3. \A t \in SUBSET (1 .. n) :
        iter[t] = IF t = {} THEN <<>> ELSE push(iter[t \ {Max(t)}], s[Max(t)])
  BY <1>2 DEF Pushed
<1>4. 0 \in P
  <2>1. 1 .. 0 = {} /\ {} \in SUBSET (1 .. n) /\ 0 \in 0 .. n
    OBVIOUS
  <2>2. iter[1 .. 0] = <<>>
    BY <1>3, <2>1
  <2>3. Alternate(<<>>)
    <3>1. <<>> \in Seq(Range(<<>>)) /\ Len(<<>>) = 0 /\ 2 .. 0 = {}
      BY DEF Range
    <3> QED BY <3>1 DEF Alternate
  <2> QED BY <2>1, <2>2, <2>3
<1>5. \A i \in 0 .. n - 1 : i \in P => i + 1 \in P
  <2> SUFFICES ASSUME NEW i \in 0 .. n - 1, i \in P PROVE i + 1 \in P
    OBVIOUS
  <2>1. /\ i + 1 \in 0 .. n /\ 1 .. i + 1 \in SUBSET (1 .. n) /\ 1 .. i + 1 # {}
        /\ (1 .. i + 1) \ {i + 1} = 1 .. i /\ Max(1 .. i + 1) = i + 1
    BY Climb
  <2>2. iter[1 .. i + 1] = push(iter[1 .. i], s[i + 1])
    BY <1>3, <2>1
  <2>3. Alternate(push(iter[1 .. i], s[i + 1]))
    BY PushAlternates
  <2> QED BY <2>1, <2>2, <2>3
<1>6. P \in SUBSET (0 .. n) /\ 0 \in Nat /\ n \in Nat /\ n \in 0 .. n
  OBVIOUS
<1>7. n \in P
  <2> HIDE DEF P
  <2> QED BY <1>4, <1>5, <1>6, Induction
<1> QED BY <1>1, <1>7

-----------------------------------------------------------------------------
(* What a provider is asked, apart from what is said: see RequestKept. *)
WellPut(got) ==
    LET roles == [i \in DOMAIN got.body.turns |-> got.body.turns[i].role]
    IN  /\ got.adapter \in {"anthropic", "gemini"} =>
              \A i \in 2 .. Len(roles) : roles[i] # roles[i - 1]
        /\ Limit(got.of) # Unset => Limit(got.body) = Limit(got.of)
        /\ got.of.tool_choice = "none" =>
              got.body.tools = {} \/ got.body.tool_choice = "none"

(* The same of a body. *)
Fit(b, r, merged) ==
    /\ merged => Alternate(b.turns)
    /\ Limit(r) # Unset => Limit(b) = Limit(r)
    /\ r.tool_choice = "none" => b.tools = {} \/ b.tool_choice = "none"

BodyNames ==
    {"model", "system", "turns", "max_tokens", "max_completion_tokens", "temperature", "tools",
     "tool_choice", "tuning", "seed", "format", "penalties", "vendor"}

LEMMA BodyFits ==
    ASSUME NEW r, NEW turns
    PROVE  LET b == Body(r, turns) IN
           /\ b.turns = turns /\ b.max_tokens = Limit(r) /\ b.max_completion_tokens = Unset
           /\ b.tools = r.tools
           /\ b.tool_choice = ToolChoice(r)
           /\ DOMAIN b = BodyNames
           /\ r.tool_choice = "none" => r.tools = {} \/ ToolChoice(r) = "none"
<1>1. r.tool_choice = "none" => r.tools = {} \/ ToolChoice(r) = "none"
  BY DEF ToolChoice
<1> QED BY <1>1 DEF Body, BodyNames

LEMMA SentFits ==
    ASSUME NEW r \in Requests, NEW a, NEW m
    PROVE  Fit(Sent(a, r, m), r, a \in {"anthropic", "gemini"})
<1> DEFINE u == [r EXCEPT !.model = m]
           turn(t) == GeminiTurn(u.messages, t)
           s == Each(u.messages, AnthropicTurn)
           g == Each(u.messages, turn)
<1>1. /\ u.messages = r.messages /\ u.tool_choice = r.tool_choice /\ u.tools = r.tools
      /\ u.max_tokens = r.max_tokens /\ u.max_completion_tokens = r.max_completion_tokens
  BY ChatPipelineAssumption DEF RequestFields
<1>2. Limit(u) = Limit(r)
  BY <1>1 DEF Limit
<1>3. Limit(u) # Unset => ModelLimit(u) = Limit(u)
  BY DEF ModelLimit, Or
<1>4. Len(u.messages) \in Nat /\ DOMAIN u.messages = 1 .. Len(u.messages)
  <2>1. r.messages \in Seq(Range(r.messages))
    BY ChatPipelineAssumption
  <2> QED BY <1>1, <2>1
<1>5. Alternate(Merged(s)) /\ Alternate(Merged(g))
  <2>1. DOMAIN s = 1 .. Len(u.messages) /\ DOMAIN g = 1 .. Len(u.messages)
    BY <1>4 DEF Each
  <2> HIDE DEF s, g
  <2> QED BY <1>4, <2>1, MergedAlternates
<1> HIDE DEF u
<1>6. Fit(AnthropicRequest(u), u, TRUE)
  <2> DEFINE b == Body(u, Merged(s))
             withheld == u.tool_choice = "none"
  <2>1. AnthropicRequest(u) =
            [b EXCEPT !.system = SystemParts(u.messages),
                      !.max_tokens = ModelLimit(u),
                      !.temperature = IF @ > 1 THEN 1 ELSE @,
                      !.tools = IF withheld THEN {} ELSE @,
                      !.tool_choice = IF withheld THEN "auto" ELSE @]
    BY Zenon DEF AnthropicRequest
  <2>2. b.turns = Merged(s) /\ DOMAIN b = BodyNames /\ b.max_completion_tokens = Unset
    BY BodyFits
  <2> HIDE DEF b, s
  <2>3. /\ AnthropicRequest(u).turns = b.turns
        /\ AnthropicRequest(u).max_tokens = ModelLimit(u)
        /\ AnthropicRequest(u).max_completion_tokens = Unset
        /\ withheld => AnthropicRequest(u).tools = {}
    BY <2>1, <2>2 DEF BodyNames
  <2>4. Limit(AnthropicRequest(u)) = ModelLimit(u)
    BY <2>3 DEF Limit, Or
  <2> QED BY <1>3, <1>5, <2>2, <2>3, <2>4 DEF Fit
<1>7. Fit(GeminiRequest(u), u, TRUE)
  <2> DEFINE b == Body(u, Merged(g))
  <2>1. GeminiRequest(u) =
            [b EXCEPT !.system = SystemParts(u.messages), !.max_tokens = ModelLimit(u)]
    BY Zenon DEF GeminiRequest
  <2>2. /\ b.turns = Merged(g) /\ b.tools = u.tools /\ b.tool_choice = ToolChoice(u)
        /\ DOMAIN b = BodyNames /\ b.max_completion_tokens = Unset
        /\ u.tool_choice = "none" => u.tools = {} \/ ToolChoice(u) = "none"
    BY BodyFits
  <2> HIDE DEF b, g
  <2>3. /\ GeminiRequest(u).turns = b.turns /\ GeminiRequest(u).tools = b.tools
        /\ GeminiRequest(u).max_tokens = ModelLimit(u)
        /\ GeminiRequest(u).tool_choice = b.tool_choice
        /\ GeminiRequest(u).max_completion_tokens = Unset
    BY <2>1, <2>2 DEF BodyNames
  <2>4. Limit(GeminiRequest(u)) = ModelLimit(u)
    BY <2>3 DEF Limit, Or
  <2> QED BY <1>3, <1>5, <2>2, <2>3, <2>4 DEF Fit
<1>8. Fit(CohereRequest(u), u, FALSE)
  <2> DEFINE b == Body(u, Each(u.messages, translateMessage))
  <2>1. CohereRequest(u) =
            [b EXCEPT !.tool_choice = IF @ \in {"auto", "none"} THEN @ ELSE "any"]
    BY Zenon DEF CohereRequest
  <2>2. /\ b.max_tokens = Limit(u) /\ b.tools = u.tools /\ b.tool_choice = ToolChoice(u)
        /\ DOMAIN b = BodyNames /\ b.max_completion_tokens = Unset
        /\ u.tool_choice = "none" => u.tools = {} \/ ToolChoice(u) = "none"
    BY BodyFits
  <2> HIDE DEF b
  <2>3. /\ CohereRequest(u).max_tokens = Limit(u) /\ CohereRequest(u).tools = u.tools
        /\ ToolChoice(u) = "none" => CohereRequest(u).tool_choice = "none"
        /\ CohereRequest(u).max_completion_tokens = Unset
    BY <2>1, <2>2 DEF BodyNames
  <2>4. Limit(CohereRequest(u)) = Limit(u)
    BY <2>3 DEF Limit, Or
  <2> QED BY <2>2, <2>3, <2>4 DEF Fit
<1>9. Fit(OpenAIRequest(u), u, FALSE) /\ Fit(MistralRequest(u), u, FALSE)
  <2> DEFINE b == Body(u, Each(u.messages, OpenAITurn))
             o == [b EXCEPT !.max_tokens = u.max_tokens,
                            !.max_completion_tokens = u.max_completion_tokens,
                            !.tool_choice = u.tool_choice,
                            !.seed = u.seed, !.format = u.format,
                            !.penalties = u.penalties, !.vendor = u.vendor]
             i == [o EXCEPT !.penalties = Unset]
  <2>1. OpenAIRequest(u) = o /\ MistralRequest(u) = i
    BY Zenon DEF OpenAIRequest, MistralRequest
  <2>2. b.tools = u.tools /\ DOMAIN b = BodyNames
    BY BodyFits
  <2> HIDE DEF b
  <2>3. /\ o.max_tokens = u.max_tokens /\ o.max_completion_tokens = u.max_completion_tokens
        /\ o.tool_choice = u.tool_choice
        /\ i.max_tokens = u.max_tokens /\ i.max_completion_tokens = u.max_completion_tokens
        /\ i.tool_choice = u.tool_choice
    BY <2>2 DEF BodyNames
  <2> HIDE DEF o, i
  <2>4. Limit(o) = Limit(u) /\ Limit(i) = Limit(u)
    BY <2>3 DEF Limit
  <2> QED BY <2>1, <2>3, <2>4 DEF Fit
<1>10. Fit(Sent(a, r, m), u, a \in {"anthropic", "gemini"})
  <2>1. Sent(a, r, m) = TranslateRequest(a, u)
    BY DEF Sent, u
  <2>2. CASE a = "anthropic"
    <3>1. TranslateRequest(a, u) = AnthropicRequest(u)
      BY <2>2 DEF TranslateRequest
    <3> QED BY <1>6, <2>1, <2>2, <3>1 DEF Fit
  <2>3. CASE a = "gemini"
    <3>1. TranslateRequest(a, u) = GeminiRequest(u)
      BY <2>3 DEF TranslateRequest
    <3> QED BY <1>7, <2>1, <2>3, <3>1 DEF Fit
  <2>4. CASE a \notin {"anthropic", "gemini"}
    <3>1. TranslateRequest(a, u) \in {CohereRequest(u), MistralRequest(u), OpenAIRequest(u)}
      BY <2>4 DEF TranslateRequest
    <3> QED BY <1>8, <1>9, <2>1, <2>4, <3>1 DEF Fit
  <2> QED BY <2>2, <2>3, <2>4
<1> QED BY <1>1, <1>2, <1>10 DEF Fit

LEMMA FitIsWellPut ==
    ASSUME NEW got, NEW r, NEW a, got.adapter = a, got.of = r,
           Fit(got.body, r, a \in {"anthropic", "gemini"})
    PROVE  WellPut(got)
<1> DEFINE t == got.body.turns
           roles == [i \in DOMAIN t |-> t[i].role]
<1>1. got.adapter \in {"anthropic", "gemini"} =>
          \A i \in 2 .. Len(roles) : roles[i] # roles[i - 1]
  <2> SUFFICES ASSUME a \in {"anthropic", "gemini"}
               PROVE  \A i \in 2 .. Len(roles) : roles[i] # roles[i - 1]
    OBVIOUS
  <2>1. /\ t \in Seq(Range(t)) /\ \A i \in 2 .. Len(t) : t[i].role # t[i - 1].role
    BY DEF Fit, Alternate
  <2> HIDE DEF t
  <2>2. Len(t) \in Nat /\ DOMAIN t = 1 .. Len(t)
    BY <2>1
  <2>3. Len(roles) = Len(t) /\ \A i \in 1 .. Len(t) : roles[i] = t[i].role
    BY <2>2
  <2>4. \A i \in 2 .. Len(t) : i \in 1 .. Len(t) /\ i - 1 \in 1 .. Len(t)
    BY <2>2
  <2> HIDE DEF roles
  <2> QED BY <2>1, <2>3, <2>4
<1> QED BY <1>1 DEF Fit, WellPut

(* Of what RequestKept says, the part that does not depend on the words:    *)
(* whatever the conversation, the turns that translateRequest sends to      *)
(* Anthropic and Gemini alternate, as those providers require, a limit on   *)
(* the tokens is passed on, and a client that wants no tools called gets    *)
(* none; in every answer, from the cache as from a provider.                *)
THEOREM RequestsAreWellPut ==
    Spec => [](\A h \in Handlers : Answered(h) => WellPut(answer[h]))
<1>1. ASSUME IInv PROVE \A h \in Handlers : Answered(h) => WellPut(answer[h])
  <2> SUFFICES ASSUME NEW h \in Handlers, Answered(h) PROVE WellPut(answer[h])
    OBVIOUS
  <2>1. req[h] \in Requests /\ status[h] \in {"HIT", "MISS", "SKIP"}
    BY <1>1 DEF IInv, Answered, TypeOK, Statuses, Given, GivenOf
  <2>2. \E r \in Requests : Genuine(answer[h], r)
    <3>1. CASE status[h] = "HIT"
      BY <1>1, <3>1 DEF IInv, Given, GivenOf, Shared
    <3>2. CASE status[h] # "HIT"
      BY <1>1, <2>1, <3>2 DEF IInv, Given, GivenOf
    <3> QED BY <3>1, <3>2
  <2>3. PICK r \in Requests : Genuine(answer[h], r)
    BY <2>2
  <2>4. PICK m, a : answer[h] = [adapter |-> a, of |-> r, body |-> Sent(a, r, m)]
    BY <2>3 DEF Genuine
  <2>5. answer[h].adapter = a /\ answer[h].of = r /\ answer[h].body = Sent(a, r, m)
    BY <2>4
  <2>6. Fit(answer[h].body, r, a \in {"anthropic", "gemini"})
    BY <2>5, SentFits
  <2> QED BY <2>5, <2>6, FitIsWellPut
<1> QED BY <1>1, InvAlways, PTL
=============================================================================
