---------------------------- MODULE ChatPipeline ----------------------------
(***************************************************************************)
(* chatCompletion of the router (src/src/services/router.ts) with the      *)
(* response cache (src/src/cache/index.ts) and the bodies the adapters     *)
(* send (Translation), for requests handled concurrently while operators   *)
(* flush the cache, delete entries and change which models are served,     *)
(* entries expire and Redis fails.                                         *)
(*                                                                         *)
(* An answer is known by the body it is an answer to.  A cache key is the  *)
(* record computeKey hashes: canonicalStringify is one-to-one on it.       *)
(***************************************************************************)
EXTENDS Translation, FiniteSets

CONSTANTS
    Handlers,     \* request handlers running at a time
    Requests,     \* requests clients may send
    Serves,       \* adapters of the providers that serve each model
    Alias,        \* a model name in MODEL_ALIASES
    Canonical,    \* the model it is an alias of
    MaxRequests, MaxEdits, MaxFlushes, MaxFaults   \* bounds

(* A request is a record of what the handlers read of it: the body's fields, *)
(* the header that bypasses the cache and the models its key may use.        *)
RequestFields ==
    {"model", "messages", "temperature", "tuning", "seed", "format", "penalties",
     "vendor", "max_tokens", "max_completion_tokens", "tools", "tool_choice",
     "bypass", "allowed"}

ASSUME ChatPipelineAssumption ==
    \A r \in Requests : DOMAIN r = RequestFields /\ r.messages \in Seq(Range(r.messages))

VARIABLES
    pc, req, model,  \* per handler: where it is, its request, canonicalModel
    answer,          \* per handler: the answer it has
    status,          \* per handler: cacheStatus of the last answer
    target,          \* the model the alias stands for: itself if it is served
    cache,           \* from cache keys to entries
    flush,           \* the flush in progress
    requests, edits, faults,   \* counters, bounded
    meant            \* history: the models the alias has stood for

vars == <<pc, req, model, answer, status, target, cache, flush, requests,
          edits, faults, meant>>
handler == <<pc, req, model, answer, status>>

Nobody == [messages |-> <<>>]
NoAnswer == [adapter |-> "none", body |-> <<>>, of |-> Nobody]
Empty == <<>>   \* the cache without entries

Init ==
    /\ pc = [h \in Handlers |-> "idle"]
    /\ req = [h \in Handlers |-> Nobody]
    /\ model = [h \in Handlers |-> Alias]
    /\ answer = [h \in Handlers |-> NoAnswer]
    /\ status = [h \in Handlers |-> "none"]
    /\ target \in {Alias, Canonical}
    /\ cache = Empty
    /\ flush = [pc |-> "idle", todo |-> {}, batch |-> {}, gen |-> 0]
    /\ requests = 0 /\ edits = 0 /\ faults = 0
    /\ meant = {target}

-----------------------------------------------------------------------------
isEligible(r) == r.temperature = 0 /\ r.tools = {} /\ r.seed # Unset

(* Mutant of computeKey: a field that came later is forgotten. *)
computeOldKey(r) ==
    [model |-> r.model, messages |-> r.messages, tuning |-> r.tuning,
     max_tokens |-> Or(r.max_tokens, r.max_completion_tokens),
     seed |-> r.seed, penalties |-> r.penalties]

computeKey(r) ==
    [model |-> r.model, messages |-> r.messages, tuning |-> r.tuning,
     max_tokens |-> Or(r.max_tokens, r.max_completion_tokens),
     seed |-> r.seed, penalties |-> r.penalties, format |-> r.format]

Keys == {computeKey(r) : r \in {q \in Requests : isEligible(q)}}

Cached(h) == isEligible(req[h]) /\ ~req[h].bypass

(* resolveCandidates: a model that is served under its own name is no alias. *)
resolve(name) == IF name = Alias THEN target ELSE name

(* authorizeModel: the name asked for or the model it stands for. *)
Authorized(r) == r.allowed = {} \/ {r.model, resolve(r.model)} \cap r.allowed # {}

(* The request as the providers get it. *)
upstreamRequest(h) == [req[h] EXCEPT !.model = model[h]]

-----------------------------------------------------------------------------
(* A request arrives: its model is resolved and authorized; a request that  *)
(* may be cached is looked up.                                              *)
Submit(h, r) ==
    /\ pc[h] = "idle"
    /\ requests < MaxRequests
    /\ requests' = requests + 1
    /\ Authorized(r)
    /\ req' = [req EXCEPT ![h] = r]
    /\ model' = [model EXCEPT ![h] = resolve(r.model)]
    /\ answer' = [answer EXCEPT ![h] = NoAnswer]
    /\ status' = [status EXCEPT ![h] = "none"]
    /\ pc' = [pc EXCEPT ![h] = IF isEligible(r) /\ ~r.bypass THEN "looking" ELSE "calling"]
    /\ UNCHANGED <<target, cache, flush, edits, faults, meant>>

(* cache.get finds an entry, and the request is answered from it. *)
Hit(h) ==
    LET key == computeKey(req[h]) IN
    /\ pc[h] = "looking"
    /\ key \in DOMAIN cache
    /\ answer' = [answer EXCEPT ![h] = cache[key].answer]
    /\ status' = [status EXCEPT ![h] = "HIT"]
    /\ pc' = [pc EXCEPT ![h] = "idle"]
    /\ UNCHANGED <<req, model, target, cache, flush, requests, edits, faults, meant>>

Miss(h) ==
    /\ pc[h] = "looking"
    /\ computeKey(req[h]) \notin DOMAIN cache
    /\ pc' = [pc EXCEPT ![h] = "calling"]
    /\ UNCHANGED <<req, model, answer, status, target, cache, flush, requests,
                   edits, faults, meant>>

(* cache.get or cache.set fails: a miss, or an answer that is not kept. *)
CacheFault(h) ==
    /\ pc[h] \in {"looking", "storing"}
    /\ faults < MaxFaults
    /\ faults' = faults + 1
    /\ pc' = [pc EXCEPT ![h] = IF @ = "looking" THEN "calling" ELSE "idle"]
    /\ UNCHANGED <<req, model, answer, status, target, cache, flush, requests,
                   edits, meant>>

(* runFailover gets an answer from a provider of the model. *)
CallProvider(h, adapter) ==
    /\ pc[h] = "calling"
    /\ adapter \in Serves[model[h]]
    /\ answer' = [answer EXCEPT ![h] =
                    [adapter |-> adapter, of |-> req[h],
                     body |-> TranslateRequest(adapter, upstreamRequest(h))]]
    /\ status' = [status EXCEPT ![h] = IF Cached(h) THEN "MISS" ELSE "SKIP"]
    /\ pc' = [pc EXCEPT ![h] = IF Cached(h) THEN "storing" ELSE "idle"]
    /\ UNCHANGED <<req, model, target, cache, flush, requests, edits, faults, meant>>

(* The budget is spent, or every provider failed. *)
CallFails(h) ==
    /\ pc[h] = "calling"
    /\ pc' = [pc EXCEPT ![h] = "idle"]
    /\ UNCHANGED <<req, model, answer, status, target, cache, flush, requests,
                   edits, faults, meant>>

(* cache.set, unless the answer is over CACHE_MAX_VALUE_BYTES. *)
Store(h, small) ==
    LET key == computeKey(req[h])
        entry == [answer |-> answer[h], stored |-> flush.gen]
    IN
    /\ pc[h] = "storing"
    /\ cache' = IF small
                THEN [k \in DOMAIN cache \cup {key} |-> IF k = key THEN entry ELSE cache[k]]
                ELSE cache
    /\ pc' = [pc EXCEPT ![h] = "idle"]
    /\ UNCHANGED <<req, model, answer, status, target, flush, requests, edits,
                   faults, meant>>

-----------------------------------------------------------------------------
Without(keys) == [k \in DOMAIN cache \ keys |-> cache[k]]

(* An entry's TTL runs out, or an operator deletes it by its fingerprint. *)
Drop(key) ==
    /\ key \in DOMAIN cache
    /\ cache' = Without({key})
    /\ UNCHANGED <<handler, target, flush, requests, edits, faults, meant>>

(* The registry has its first provider that serves the alias as a model of  *)
(* its own, or no such provider any more.                                   *)
Repoint(m) ==
    /\ edits < MaxEdits /\ m # target
    /\ edits' = edits + 1
    /\ target' = m
    /\ meant' = meant \cup {m}
    /\ UNCHANGED <<handler, cache, flush, requests, faults>>

(* flush: SCAN walks the key space in steps, each of which returns the      *)
(* entries, if any, of the part it walked; DEL deletes them; until the      *)
(* cursor is back at 0.                                                     *)
FlushStart ==
    /\ flush.pc \in {"idle", "done", "failed"}
    /\ flush.gen < MaxFlushes
    /\ flush' = [pc |-> "scan", todo |-> Keys, batch |-> {}, gen |-> flush.gen + 1]
    /\ UNCHANGED <<handler, target, cache, requests, edits, faults, meant>>

(* Mutant of AfterBatch: a step that returns nothing ends the scan. *)
AfterEmptyBatch(todo, batch) == IF todo = {} \/ batch = {} THEN "done" ELSE "scan"

AfterBatch(todo, batch) == IF todo = {} THEN "done" ELSE "scan"

FlushScan(part) ==
    LET rest == flush.todo \ part
        batch == part \cap DOMAIN cache
    IN
    /\ flush.pc = "scan"
    /\ flush' = [flush EXCEPT !.todo = rest, !.batch = batch,
                    !.pc = IF batch = {} THEN AfterBatch(rest, batch) ELSE "del"]
    /\ UNCHANGED <<handler, target, cache, requests, edits, faults, meant>>

FlushDel ==
    /\ flush.pc = "del"
    /\ cache' = Without(flush.batch)
    /\ flush' = [flush EXCEPT !.pc = AfterBatch(flush.todo, flush.batch), !.batch = {}]
    /\ UNCHANGED <<handler, target, requests, edits, faults, meant>>

(* SCAN or DEL fails: the flush gives up. *)
FlushFault ==
    /\ flush.pc \in {"scan", "del"}
    /\ faults < MaxFaults
    /\ faults' = faults + 1
    /\ flush' = [flush EXCEPT !.pc = "failed", !.todo = {}, !.batch = {}]
    /\ UNCHANGED <<handler, target, cache, requests, edits, meant>>

-----------------------------------------------------------------------------
Handle(h) ==
    \/ \E r \in Requests : Submit(h, r)
    \/ Hit(h) \/ Miss(h) \/ CacheFault(h)
    \/ \E adapter \in UNION {Serves[m] : m \in DOMAIN Serves} : CallProvider(h, adapter)
    \/ CallFails(h)
    \/ \E small \in BOOLEAN : Store(h, small)

Operate ==
    \/ \E m \in {Alias, Canonical} : Repoint(m)
    \/ FlushStart
    \/ \E part \in {flush.todo} \cup {{k} : k \in flush.todo} : FlushScan(part)
    \/ FlushDel \/ FlushFault

Next ==
    \/ \E h \in Handlers : Handle(h)
    \/ \E key \in Keys : Drop(key)
    \/ Operate

Spec == Init /\ [][Next]_vars

-----------------------------------------------------------------------------
Answered(h) == status[h] # "none"
TwoLimits(r) == r.max_tokens # Unset /\ r.max_completion_tokens # Unset
Plain(body) == [body EXCEPT !.vendor = Unset, !.max_tokens = Unset,
                            !.max_completion_tokens = Unset, !.tool_choice = "unset"]

(* A client gets an answer to its own question, from the cache as from a    *)
(* provider: to the body its request is translated to for one of the        *)
(* providers of a model its name stands for or, for an alias, has stood     *)
(* for.  Three differences pass, since computeKey does not tell them apart: *)
(* vendor fields, what an alias stands for, and the two limits of a request *)
(* that has both, where the key has one and the providers go by the other.  *)
(* Which field a limit came in, and how to choose among no tools, is none.  *)
(* And what may not be cached is never answered from the cache.             *)
AnswersRight ==
    \A h \in Handlers : Answered(h) =>
        LET got == answer[h]
            names == IF req[h].model = Alias THEN meant ELSE {req[h].model}
            same(body) ==
                /\ Plain(got.body) = Plain(body)
                /\ Limit(got.body) = Limit(body) \/ TwoLimits(req[h]) \/ TwoLimits(got.of)
                /\ got.body.tool_choice = body.tool_choice \/ body.tools = {}
        IN  /\ \E m \in names : \E a \in Serves[m] :
                    same(TranslateRequest(a, [req[h] EXCEPT !.model = m]))
            /\ status[h] = "HIT" => Cached(h)

(* The speaker of a turn, and what a part says, with the name of the        *)
(* function a result belongs to.  Arguments that are not JSON pass for {}.  *)
Says(messages, role, part) ==
    [speaker |-> IF role \in {"assistant", "model"} THEN "assistant" ELSE "user",
     kind |-> CASE part.kind = "url" \/ (part.kind = "image" /\ part.name = "url") -> "text"
                [] part.kind = "image" /\ part.name = "base64" -> "data"
                [] OTHER -> part.kind,
     name |-> CASE part.kind = "image" -> "none"
                [] part.id # "none" -> ToolName(messages, part.id)
                [] OTHER -> part.name,
     text |-> IF part.text = NotJson THEN <<"{}">> ELSE part.text]

(* Everything said in a sequence of turns, system messages aside.           *)
Transcript(messages, turns) ==
    LET said(i) == IF turns[i].role = "system" THEN <<>>
                   ELSE [j \in DOMAIN turns[i].parts |->
                            Says(messages, turns[i].role, turns[i].parts[j])]
    IN  FlattenSeq([i \in DOMAIN turns |-> said(i)])

(* The system prompt, wherever the provider has it. *)
Instructions(body) ==
    FlattenSeq(body.system)
    \o FlattenSeq([i \in DOMAIN body.turns |->
            IF body.turns[i].role = "system" THEN flattenText(body.turns[i].parts) ELSE <<>>])

(* A provider is asked what the client asked: every text, image, tool call  *)
(* and result, in order, by the right speaker, each result under the        *)
(* function it belongs to; the system prompt; no more tokens than allowed;  *)
(* and no tools where the client said none.  Where turns are merged they    *)
(* alternate, as Anthropic and Gemini require.                              *)
RequestKept ==
    \A h \in Handlers : Answered(h) =>
        LET body == answer[h].body
            asked == answer[h].of
            plain == [i \in DOMAIN asked.messages |-> OpenAITurn(asked.messages[i])]
            roles == [i \in DOMAIN body.turns |-> body.turns[i].role]
        IN  /\ Transcript(asked.messages, body.turns) = Transcript(asked.messages, plain)
            /\ Instructions(body) = FlattenSeq(SystemParts(asked.messages))
            /\ answer[h].adapter \in {"anthropic", "gemini"} =>
                  \A i \in 2 .. Len(roles) : roles[i] # roles[i - 1]
            /\ Limit(asked) # Unset => Limit(body) = Limit(asked)
            /\ asked.tool_choice = "none" => body.tools = {} \/ body.tool_choice = "none"

(* A flush that comes to its end has removed every answer stored before it  *)
(* began, however requests store and entries expire meanwhile.  An answer   *)
(* that was on its way when the flush began may be stored after it.         *)
FlushClears ==
    flush.pc = "done" => \A k \in DOMAIN cache : cache[k].stored = flush.gen
=============================================================================
