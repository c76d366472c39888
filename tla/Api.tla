----------------------------------- MODULE Api ----------------------------------
(***************************************************************************)
(* What a generation request asks for and what it is answered, in the      *)
(* three forms of server/api.rs: OpenAI's "chat" and "completions", and    *)
(* llama.cpp's "completion".                                               *)
(*                                                                         *)
(* A JSON value is a record [type, value]; a body is a function from keys  *)
(* to values.  A number that is not an integer has the type "real" and is  *)
(* written in hundredths, like the bounds it is compared with.             *)
(***************************************************************************)
EXTENDS Integers, Sequences

CONSTANTS
  Cap,          \* cfg.max_tokens_cap
  DefaultMax,   \* cfg.default_max_tokens
  MaxStops, MaxStopLen

None == [type |-> "null"]
At(o, key) == IF key \in DOMAIN o THEN o[key] ELSE None
Given(o, key) == At(o, key) # None

-----------------------------------------------------------------------------
(* get_f32, get_i64 and get_bool: of its type, or not given. *)
Hundredths(v) == IF v.type = "int" THEN v.value * 100 ELSE v.value
IsNumber(o, key) == At(o, key).type \in {"null", "int", "real"}
IsInt(o, key) == At(o, key).type \in {"null", "int"}
IsBool(o, key) == At(o, key).type \in {"null", "bool"}
IntOr(o, key, default) == IF Given(o, key) THEN o[key].value ELSE default
RealOr(o, key, default) == IF Given(o, key) THEN Hundredths(o[key]) ELSE default
Holds(o, key) == Given(o, key) /\ o[key].value

InRange(o, key, low, high, open) ==
  /\ IsNumber(o, key)
  /\ Given(o, key) => LET v == Hundredths(o[key]) IN v <= high /\ (IF open THEN v > low ELSE v >= low)

(* The ranges, and the older name of a penalty, which counts when the      *)
(* other is not given.                                                     *)
Repetition(o) == IF Given(o, "repetition_penalty") THEN "repetition_penalty" ELSE "repeat_penalty"
RangesOk(o) ==
  /\ InRange(o, "temperature", 0, 200, FALSE) /\ InRange(o, "top_p", 0, 100, TRUE)
  /\ InRange(o, "min_p", 0, 100, FALSE) /\ InRange(o, "presence_penalty", -200, 200, FALSE)
  /\ InRange(o, "frequency_penalty", -200, 200, FALSE) /\ InRange(o, Repetition(o), 0, 1000, TRUE)
  /\ IsInt(o, "top_k") /\ IntOr(o, "top_k", 0) >= 0

(* parse_messages and parse_content: a role, and a text or parts of text.  *)
TextParts(parts) == \A i \in DOMAIN parts : parts[i].type = "text"
MessageOk(m) ==
  /\ m.role.type = "string" /\ m.role.value # <<>>
  /\ m.content.type \in {"null", "string", "parts"}
  /\ m.content.type = "parts" => TextParts(m.content.value)
  /\ m.reasoning.type \in {"null", "string"}
MessagesOk(o) ==
  LET v == At(o, "messages") IN
  v.type = "messages" /\ v.value # <<>> /\ \A i \in DOMAIN v.value : MessageOk(v.value[i])

(* parse_prompt: a text, token ids, or one of either in an array. *)
Ids(v) == \A i \in DOMAIN v : v[i].type = "int" /\ v[i].value >= 0
Numbers(v) == \A i \in DOMAIN v : v[i].type \in {"int", "real"}
PromptOk(o) ==
  LET p == At(o, "prompt") IN
  \/ p.type = "string"
  \/ /\ p.type = "array" /\ p.value # <<>>
     /\ IF Numbers(p.value) THEN Ids(p.value)
        ELSE Len(p.value) = 1 /\ (p.value[1].type = "string" \/
               (p.value[1].type = "array" /\ p.value[1].value # <<>> /\ Ids(p.value[1].value)))

(* parse_stop: a string or an array of them. Empty ones are dropped. *)
StopList(o) ==
  LET v == At(o, "stop") IN
  CASE v.type = "null" -> <<>> [] v.type = "string" -> <<v>> [] OTHER -> v.value
StopOk(o) ==
  /\ At(o, "stop").type \in {"null", "string", "array"}
  /\ \A i \in DOMAIN StopList(o) : StopList(o)[i].type = "string" /\ Len(StopList(o)[i].value) <= MaxStopLen
  /\ Len(StopList(o)) <= MaxStops

(* The first of the three keys that is given; -1 says no limit to          *)
(* llama.cpp's.  0 when none counts.                                       *)
Counts(o, key) == Given(o, key) /\ (IsInt(o, key) => key # "n_predict" \/ o[key].value >= 0)
LimitKeys == <<"max_completion_tokens", "max_tokens", "n_predict">>
LimitKey(o) ==
  LET given == {i \in 1 .. 3 : Counts(o, LimitKeys[i])} IN
  IF given = {} THEN "none" ELSE LimitKeys[CHOOSE i \in given : \A j \in given : i <= j]
LimitOk(o) ==
  LET key == LimitKey(o) IN
  key # "none" => IsInt(o, key) /\ o[key].value \in 1 .. Cap
Limit(o) == IF LimitKey(o) = "none" THEN 0 ELSE o[LimitKey(o)].value

(* What is not supported: several answers, and log probabilities. *)
Supported(api, o) ==
  /\ IsInt(o, "n") /\ IntOr(o, "n", 1) = 1
  /\ api = "completions" => /\ IsInt(o, "best_of") /\ IntOr(o, "best_of", 1) = 1
                            /\ IsInt(o, "logprobs") /\ IntOr(o, "logprobs", 0) <= 0
  /\ api = "chat" => IsBool(o, "logprobs") /\ ~Holds(o, "logprobs")
OptionsOk(api, o) ==
  /\ IsBool(o, "stream") /\ IsInt(o, "seed")
  /\ At(o, "stream_options").type \in {"null", "object"}
  /\ Given(o, "stream_options") => IsBool(o.stream_options.value, "include_usage")
  /\ api = "chat" => /\ At(o, "chat_template_kwargs").type \in {"null", "object"}
                     /\ IsBool(o, "enable_thinking")

(* Whether thinking is on in the template: an explicit entry wins. *)
Thinking(api, o) ==
  IF api # "chat" THEN None
  ELSE IF Given(o, "chat_template_kwargs") /\ "enable_thinking" \in DOMAIN o.chat_template_kwargs.value
  THEN o.chat_template_kwargs.value["enable_thinking"] ELSE At(o, "enable_thinking")

Accepted(api, o) ==
  /\ IF api = "chat" THEN MessagesOk(o) ELSE PromptOk(o)
  /\ Supported(api, o) /\ LimitOk(o) /\ RangesOk(o) /\ OptionsOk(api, o) /\ StopOk(o)

(* parse_request, of an accepted body. *)
ParseRequest(api, o) ==
  [limit |-> Limit(o), temperature |-> RealOr(o, "temperature", 100), topP |-> RealOr(o, "top_p", 100),
   topK |-> IntOr(o, "top_k", 0), minP |-> RealOr(o, "min_p", 0), repetition |-> RealOr(o, Repetition(o), 100),
   seeded |-> Given(o, "seed") /\ ~(api = "completion" /\ o.seed.value = -1),
   stop |-> SelectSeq(StopList(o), LAMBDA s : s.value # <<>>),
   stream |-> Holds(o, "stream"), thinking |-> Thinking(api, o),
   usage |-> Given(o, "stream_options") /\ Holds(o.stream_options.value, "include_usage")]

(* resolve_max_tokens: 0 is a refusal. *)
RoomM(prompt, ctx) == (ctx - prompt) + 1
Room(prompt, ctx) == ctx - prompt
Least(a, b) == IF a < b THEN a ELSE b
ResolveMaxTokens(limit, prompt, ctx) ==
  CASE prompt = 0 \/ prompt >= ctx \/ limit > Room(prompt, ctx) -> 0
    [] prompt \in 1 .. ctx - 1 /\ limit \in 1 .. Room(prompt, ctx) -> limit
    [] OTHER -> IF Least(DefaultMax, Room(prompt, ctx)) < 1 THEN 1 ELSE Least(DefaultMax, Room(prompt, ctx))

-----------------------------------------------------------------------------
(* Answers.  What a job sends is a sequence of [kind, text], kind being    *)
(* "text" or "reasoning", and what it ends with: finish reason and count   *)
(* of tokens.  With reasoning separation its kinds are told apart, for     *)
(* chat only.                                                              *)
FinishReason(api, finish) ==
  IF api = "completion"
  THEN CASE finish = "eos" -> "eos" [] finish = "stop" -> "word" [] finish = "length" -> "limit" [] OTHER -> "none"
  ELSE IF finish = "length" THEN "length" ELSE "stop"

Texts(events, kind) == LET of == SelectSeq(events, LAMBDA e : e.kind = kind) IN [i \in DOMAIN of |-> of[i].text]
Usage(prompt, res) == [prompt |-> prompt, completion |-> res.tokens]

FullBody(api, prompt, events, reasons, res) ==
  [text |-> Texts(events, "text"), finish |-> FinishReason(api, res.finish),
   reasoning |-> IF api = "chat" /\ reasons THEN Texts(events, "reasoning") ELSE <<>>,
   usage |-> Usage(prompt, res)]

(* stream_events: the role, a chunk for each delta, the closing chunks.    *)
(* A chunk is [role, text, reasoning, finish, usage], parts left out None. *)
Nothing == [role |-> FALSE, text |-> <<>>, reasoning |-> <<>>, finish |-> "", usage |-> <<>>]
DeltaChunk(e) == [Nothing EXCEPT !.text = <<e.text>>]
ReasoningChunk(e) == [Nothing EXCEPT !.reasoning = <<e.text>>]
FinalChunks(api, prompt, res, usage) ==
  LET last == [Nothing EXCEPT !.finish = FinishReason(api, res.finish)]
      counts == <<Usage(prompt, res)>>
  IN CASE api = "completion" -> <<[last EXCEPT !.usage = counts]>>
       [] api # "completion" /\ usage -> <<last, [Nothing EXCEPT !.usage = counts]>>
       [] OTHER -> <<last>>
StreamEvents(api, prompt, events, res, usage) ==
  LET kept == SelectSeq(events, LAMBDA e : e.kind = "text" \/ api = "chat") IN
  (IF api = "chat" THEN <<[Nothing EXCEPT !.role = TRUE]>> ELSE <<>>)
    \o [i \in DOMAIN kept |-> IF kept[i].kind = "text" THEN DeltaChunk(kept[i]) ELSE ReasoningChunk(kept[i])]
    \o FinalChunks(api, prompt, res, usage)
=============================================================================
