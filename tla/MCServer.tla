-------------------------------- MODULE MCServer --------------------------------
(***************************************************************************)
(* The server of Server, and beside it the requests one connection reads   *)
(* and answers, whatever they are and however their bytes arrive.          *)
(***************************************************************************)
EXTENDS Server

LOCAL INSTANCE SequencesExt

CONSTANTS c1, c2

VARIABLE wire    \* what arrives on a connection, nothing yet, or the threads' behaviour

Outcomes(body) ==
  CASE body = <<>> -> "invalid" [] body # <<>> /\ Len(body) = 1 -> "stream"
    [] body # <<>> /\ Len(body) = 2 -> "full" [] OTHER -> "stopped"
H == INSTANCE Http WITH MaxLine <- 3, MaxHeaders <- 2, MaxBody <- 3, KeepAliveMax <- 3, Outcome <- Outcomes
Ap == INSTANCE Api WITH Cap <- 8, DefaultMax <- 5, MaxStops <- 2, MaxStopLen <- 2

-----------------------------------------------------------------------------
(* Requests, what each is answered, and whether it ends the connection.    *)
(* Bodies may look like requests.                                          *)
X == [kind |-> "x"]
Line(method, path, version) == [kind |-> "start", method |-> method, path |-> path, version |-> version]
Field(name, value) == [kind |-> "field", name |-> name, value |-> value]
Size(n) == [kind |-> "size", value |-> n]
Length(n) == Field("content-length", n)
Coded(c) == Field("transfer-encoding", c)
Connected(tokens) == Field("connection", tokens)
CrLf(b) == <<b, H!CR, H!LF>>
Lines(bytes) == [i \in 1 .. 3 * Len(bytes) |-> CrLf(bytes[((i - 1) \div 3) + 1])[((i - 1) % 3) + 1]]
Blank == <<H!CR, H!LF>>
Sent(start, fields, body, answers, ends) ==
  [bytes |-> CrLf(start) \o Lines(fields) \o Blank \o body, answers |-> answers, ends |-> ends]
Post(path) == Line("POST", path, "1.1")
Get(path, version) == Line("GET", path, version)
Chunk(data) == CrLf(Size(Len(data))) \o data \o Blank
LastChunk == CrLf(Size(0))
Fake == Get("models", "1.1")

Requests == <<
  Sent(Get("health", "1.1"), <<>>, <<>>, <<200>>, FALSE),
  Sent(Get("health", "1.0"), <<>>, <<>>, <<200>>, TRUE),
  Sent(Get("models", "1.0"), <<Connected({"keep-alive"})>>, <<>>, <<200>>, FALSE),
  Sent(Get("models", "1.1"), <<Connected({"keep-alive", "close"})>>, <<>>, <<200>>, TRUE),
  Sent(Get("other", "1.1"), <<Length(3)>>, CrLf(Fake), <<404>>, FALSE),
  Sent(Get("chat", "1.1"), <<>>, <<>>, <<405>>, FALSE),
  Sent(Line("OPTIONS", "chat", "1.1"), <<Length(0)>>, <<>>, <<204>>, FALSE),
  Sent(Post("chat"), <<Length(2), Length(2)>>, <<Fake, H!LF>>, <<200>>, FALSE),
  Sent(Post("completions"), <<>>, <<>>, <<400>>, FALSE),
  Sent(Post("completion"), <<Field("expect", "100-continue"), Length(1)>>, <<X>>, <<100, 200>>, TRUE),
  Sent(Post("chat"), <<Coded("chunked")>>, Chunk(<<Fake>>) \o Chunk(<<H!LF>>) \o LastChunk \o Blank, <<200>>, FALSE),
  Sent(Post("chat"), <<Coded("chunked")>>, Chunk(<<X, X, X>>) \o LastChunk \o CrLf(Field("x", 0)) \o Blank,
       <<500>>, TRUE) >>
Refused == <<
  Sent(Get("health", "2"), <<>>, <<>>, <<505>>, TRUE),
  Sent(X, <<>>, <<>>, <<400>>, TRUE),
  [bytes |-> <<Fake, X>> \o Blank, answers |-> <<414>>, ends |-> TRUE],
  [bytes |-> Blank \o Blank \o Blank \o Blank \o Blank, answers |-> <<400>>, ends |-> TRUE],
  Sent(Fake, <<X>>, <<>>, <<400>>, TRUE),
  [bytes |-> CrLf(Fake) \o <<X, X, H!CR, H!LF>>, answers |-> <<431>>, ends |-> TRUE],
  Sent(Fake, <<Length(0), Length(0), Length(0)>>, <<>>, <<431>>, TRUE),
  Sent(Post("chat"), <<Length(1), Length(2)>>, <<X, X>>, <<400>>, TRUE),
  Sent(Post("chat"), <<Length(-1)>>, <<>>, <<400>>, TRUE),
  Sent(Post("chat"), <<Length(4)>>, <<X, X, X, X>>, <<413>>, TRUE),
  Sent(Post("chat"), <<Length(1), Coded("chunked")>>, <<X>>, <<400>>, TRUE),
  Sent(Post("chat"), <<Coded("gzip")>>, <<>>, <<501>>, TRUE),
  Sent(Line("POST", "chat", "1.0"), <<Coded("chunked")>>, LastChunk \o Blank, <<400>>, TRUE),
  Sent(Post("chat"), <<Field("expect", "100-continue"), Coded("chunked")>>,
       Chunk(<<X, X>>) \o Chunk(<<X, X>>), <<100, 413>>, TRUE),
  Sent(Post("chat"), <<Coded("chunked")>>, CrLf(Size(1)) \o <<X, X, H!LF>>, <<400>>, TRUE) >>

Pieces(bytes, k) ==
  [i \in 1 .. (Len(bytes) + k - 1) \div k |->
     SubSeq(bytes, ((i - 1) * k) + 1, IF i * k > Len(bytes) THEN Len(bytes) ELSE i * k)]

(* Values of a request's keys, whether each is accepted by the three APIs, *)
(* and what it is about: of two keys about the same, one may hide the      *)
(* other.                                                                  *)
I(n) == [type |-> "int", value |-> n]
R(n) == [type |-> "real", value |-> n]
B(b) == [type |-> "bool", value |-> b]
S(chars) == [type |-> "string", value |-> chars]
A(values) == [type |-> "array", value |-> values]
O(key, value) == [type |-> "object", value |-> [k \in {key} |-> value]]
Of(key, value, legal) == [key |-> key, value |-> value, legal |-> legal, about |-> key]
About(what, v) == [v EXCEPT !.about = what]
Every == {"chat", "completions", "completion"}
Says(role, content, reasoning) ==
  [type |-> "messages", value |-> <<[role |-> role, content |-> content, reasoning |-> reasoning]>>]
Parts(kinds) == [type |-> "parts", value |-> [i \in DOMAIN kinds |-> [type |-> kinds[i]]]]
Variants == <<
  About("limit", Of("max_tokens", I(8), Every)), About("limit", Of("max_completion_tokens", I(9), {})),
  About("limit", Of("max_tokens", I(0), {})), About("limit", Of("n_predict", I(-1), Every)),
  About("limit", Of("n_predict", I(3), Every)), About("limit", Of("n_predict", R(50), {})),
  Of("temperature", I(2), Every), Of("temperature", R(201), {}), Of("temperature", S(<<"x">>), {}),
  Of("top_p", R(0), {}), Of("top_p", R(1), Every), Of("min_p", I(1), Every), Of("min_p", R(-1), {}),
  Of("presence_penalty", I(-2), Every), Of("frequency_penalty", R(-250), {}),
  About("repetition", Of("repetition_penalty", I(10), Every)), About("repetition", Of("repeat_penalty", I(0), {})),
  Of("top_k", I(-1), {}), Of("top_k", I(5), Every), Of("n", I(2), {}), Of("n", I(1), Every),
  Of("best_of", I(2), {"chat", "completion"}), Of("seed", I(-1), Every), Of("stream", I(1), {}),
  Of("stream", B(TRUE), Every), Of("stream_options", O("include_usage", B(TRUE)), Every),
  Of("stream_options", O("include_usage", I(1)), {}), Of("stream_options", B(TRUE), {}),
  Of("logprobs", B(TRUE), {"completion"}), Of("logprobs", I(0), {"completions", "completion"}),
  Of("chat_template_kwargs", O("enable_thinking", B(FALSE)), Every),
  Of("chat_template_kwargs", I(1), {"completions", "completion"}),
  Of("enable_thinking", B(TRUE), Every), Of("enable_thinking", I(1), {"completions", "completion"}),
  Of("stop", S(<<"x", "x">>), Every), Of("stop", S(<<"x", "x", "x">>), {}),
  Of("stop", A(<<S(<<>>), S(<<"x">>)>>), Every), Of("stop", A(<<I(1)>>), {}),
  Of("stop", A(<<S(<<>>), S(<<>>), S(<<>>)>>), {}), Of("stop", I(1), {}),
  Of("prompt", A(<<>>), {"chat"}), Of("prompt", A(<<I(1), I(-1)>>), {"chat"}), Of("prompt", A(<<I(1), I(2)>>), Every),
  Of("prompt", A(<<S(<<"x">>)>>), Every), Of("prompt", A(<<A(<<I(1)>>)>>), Every),
  Of("prompt", A(<<S(<<"x">>), S(<<"x">>)>>), {"chat"}), Of("prompt", I(1), {"chat"}),
  Of("messages", A(<<>>), {"completions", "completion"}),
  Of("messages", Says(S(<<>>), S(<<"x">>), Ap!None), {"completions", "completion"}),
  Of("messages", Says(S(<<"u">>), Ap!None, S(<<>>)), Every),
  Of("messages", Says(S(<<"u">>), I(1), Ap!None), {"completions", "completion"}),
  Of("messages", Says(S(<<"u">>), Parts(<<"text">>), Ap!None), Every),
  Of("messages", Says(S(<<"u">>), Parts(<<"text", "image">>), Ap!None), {"completions", "completion"}) >>
Plain == [k \in {"prompt", "messages"} |->
            IF k = "prompt" THEN S(<<"x">>) ELSE Says(S(<<"u">>), S(<<"x">>), Ap!None)]
Body(i, j) ==
  [k \in DOMAIN Plain \cup {Variants[i].key, Variants[j].key} |->
     IF k = Variants[i].key THEN Variants[i].value
     ELSE IF k = Variants[j].key THEN Variants[j].value ELSE Plain[k]]
Bodies == {v \in [kind : {"body"}, api : Every, first : DOMAIN Variants, second : DOMAIN Variants] :
             /\ v.first <= v.second
             /\ v.first # v.second => Variants[v.first].about # Variants[v.second].about}

Events == [kind : {"text", "reasoning"}, text : {1, 2}]
AnswersGiven == [kind : {"answer"}, api : Every, usage : BOOLEAN, reasons : BOOLEAN,
              finish : {"eos", "stop", "length"}, events : UNION {[1 .. n -> Events] : n \in {0, 3}}]

NoWire == [kind |-> "none"]
All == Requests \o Refused
Wires == {<<a, b>> : a \in DOMAIN Requests, b \in DOMAIN All}
           \cup {<<a, a, a, b>> : a \in {i \in DOMAIN Requests : ~Requests[i].ends}, b \in DOMAIN Requests}
Threads == [kind |-> "threads"]
Read ==
  /\ wire = NoWire
  /\ wire' \in {Threads} \/ wire' \in [kind : {"bytes"}, sent : Wires] \/ wire' \in Bodies \/ wire' \in AnswersGiven
  /\ UNCHANGED vars

Done == wire \notin {NoWire, Threads} /\ wire' = NoWire /\ UNCHANGED vars

MCInit == Init /\ wire = NoWire
MCNext == Read \/ Done \/ (wire = Threads /\ Next /\ UNCHANGED wire)
MCSpec == MCInit /\ [][MCNext]_<<vars, wire>> /\ Fairness

-----------------------------------------------------------------------------
(* Each request of a connection is read as it was sent and answered once,  *)
(* in order, however its bytes arrive, until one ends the connection, the  *)
(* last that is kept alive has been served, or the stream breaks off: what *)
(* was cut short is refused at most.  Only the last answer may announce    *)
(* the close, and one that does is the last.                               *)
Answers(rs) ==
  LET last == {i \in DOMAIN rs : rs[i].ends \/ i = 3 \/ i = Len(rs)}
      n == CHOOSE i \in last : \A j \in last : i <= j
      upto[i \in 0 .. n] == IF i = 0 THEN <<>> ELSE upto[i - 1] \o rs[i].answers
  IN [statuses |-> upto[n], closes |-> rs[n].ends \/ n = 3]
Statuses(out) == [i \in DOMAIN out |-> out[i].status]
RequestsRead ==
  wire.kind = "bytes" =>
    LET sent == [i \in DOMAIN wire.sent |-> All[wire.sent[i]]]
        bytes[i \in 0 .. Len(wire.sent)] == IF i = 0 THEN <<>> ELSE bytes[i - 1] \o sent[i].bytes
        answers(n, k, end) == H!Connection([pieces |-> Pieces(SubSeq(bytes[Len(wire.sent)], 1, n), k), end |-> end], 0)
        all == Len(bytes[Len(wire.sent)])
    IN \A x \in {Answers(sent)} :
       /\ \A k \in {1, 2, 5, 100} : \A out \in {answers(all, k, "eof")} :
            /\ Statuses(out) = x.statuses
            /\ \A i \in 1 .. Len(out) - 1 : out[i].keep
            /\ ~out[Len(out)].keep <=> x.closes
       /\ Len(wire.sent) = 2 =>
            \A n \in 0 .. all, end \in {"eof", "timeout", "reset"} : \A out \in {answers(n, 2, end)} :
              /\ \A i \in 1 .. Len(out) - 1 : out[i].keep
              /\ \/ Statuses(out) = SubSeq(x.statuses, 1, Len(out))
                 \/ /\ Len(out) <= Len(x.statuses) + 1 /\ ~out[Len(out)].keep
                    /\ Statuses(SubSeq(out, 1, Len(out) - 1)) = SubSeq(x.statuses, 1, Len(out) - 1)
                    /\ out[Len(out)].status = IF end = "timeout" THEN 408 ELSE 400

(* A request is accepted exactly when all it says is in the ranges the     *)
(* engines take, and then asks for at least one token and no more than the *)
(* context has left; and what a client gets of a completion, its finish    *)
(* reason and its usage are the same in a stream and in one body.          *)
Streamed(texts(_), chunks) == FlattenSeq([i \in DOMAIN chunks |-> texts(chunks[i])])
RequestsUnderstood ==
  /\ wire.kind = "body" =>
       \A o \in {Body(wire.first, wire.second)} :
         /\ Ap!Accepted(wire.api, o) <=> \A i \in {wire.first, wire.second} : wire.api \in Variants[i].legal
         /\ Ap!Accepted(wire.api, o) => \A r \in {Ap!ParseRequest(wire.api, o)} :
              /\ r.limit \in 0 .. 8 /\ r.topP \in 1 .. 100 /\ r.repetition \in 1 .. 1000 /\ r.minP \in 0 .. 100
              /\ r.temperature \in 0 .. 200 /\ r.topK >= 0
              /\ \A i \in DOMAIN r.stop : r.stop[i].value # <<>>
              /\ \A prompt \in 0 .. 12, ctx \in {4, 10, 12} :
                   LET n == Ap!ResolveMaxTokens(r.limit, prompt, ctx) IN
                   IF prompt \in 1 .. ctx - 1 /\ prompt + r.limit <= ctx
                   THEN n >= 1 /\ prompt + n <= ctx /\ (r.limit # 0 => n = r.limit) ELSE n = 0
  /\ wire.kind = "answer" =>
       LET res == [finish |-> wire.finish, tokens |-> 3]
           given == IF wire.api = "chat" /\ wire.reasons THEN wire.events
                    ELSE [i \in DOMAIN wire.events |-> [wire.events[i] EXCEPT !.kind = "text"]]
           body == Ap!FullBody(wire.api, 7, given, wire.reasons, res)
           chunks == Ap!StreamEvents(wire.api, 7, given, res, wire.usage)
           closing == SelectSeq(chunks, LAMBDA c : c.finish # "")
           counted == SelectSeq(chunks, LAMBDA c : c.usage # <<>>)
       IN /\ Streamed(LAMBDA c : c.text, chunks) = body.text
          /\ Streamed(LAMBDA c : c.reasoning, chunks) = body.reasoning
          /\ Len(closing) = 1 /\ closing[1].finish = body.finish
          /\ IF wire.usage \/ wire.api = "completion"
             THEN Len(counted) = 1 /\ counted[1].usage = <<body.usage>> ELSE counted = <<>>
=============================================================================
