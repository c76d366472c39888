---------------------------------- MODULE Http ----------------------------------
(***************************************************************************)
(* How a connection reads its requests and answers them: the parser and    *)
(* the writer of server/http.rs, and the loop, the routes and the answers  *)
(* of server/serve.rs around them.                                         *)
(*                                                                         *)
(* A byte is LF, CR, a letter, or stands for the bytes of a line that is   *)
(* well formed: a request line, a header field or the size of a chunk.     *)
(* What the socket delivers is a sequence of pieces, as fill_buf returns   *)
(* them, and then an end: the peer has closed ("eof"), nothing came before *)
(* a deadline ("timeout"), or another error ("reset").                     *)
(*                                                                         *)
(* What was read is a record with the value or the error, and the pieces   *)
(* that are left.  An error is the status that answers it, or 0.           *)
(***************************************************************************)
EXTENDS Integers, Sequences, FiniteSets

CONSTANTS
  MaxLine, MaxHeaders, MaxBody,   \* Limits
  KeepAliveMax,                   \* cfg.keep_alive_max
  Outcome(_)                      \* of generate, from the body

LF == [kind |-> "lf"]
CR == [kind |-> "cr"]
Single(line, kind) == Len(line) = 1 /\ line[1].kind = kind

-----------------------------------------------------------------------------
(* Reading. *)
Got(value, in) == [ok |-> TRUE, value |-> value, in |-> in]
Failed(status) == [ok |-> FALSE, status |-> status]

(* ParseError::status of what ends the stream. *)
EndStatus(end, eof) == CASE end = "eof" -> eof [] end = "timeout" -> 408 [] end = "reset" -> 0

ConsumedM(in, n) == [in EXCEPT !.pieces = Tail(@)]
Consumed(in, n) ==
  LET buf == Head(in.pieces) IN
  [in EXCEPT !.pieces = (IF n = Len(buf) THEN <<>> ELSE <<SubSeq(buf, n + 1, Len(buf))>>) \o Tail(@)]

Stripped(line) == IF line # <<>> /\ line[Len(line)] = CR THEN SubSeq(line, 1, Len(line) - 1) ELSE line

(* read_line_capped, with what its errors become: never more than max      *)
(* bytes of a line are kept, its end included.                             *)
RECURSIVE ReadLine(_, _, _, _, _)
ReadLine(in, out, max, tooLong, eof) ==
  IF in.pieces = <<>> THEN Failed(EndStatus(in.end, eof))
  ELSE LET buf == Head(in.pieces)
           ends == {i \in DOMAIN buf : buf[i] = LF}
           n == IF ends = {} THEN Len(buf) ELSE CHOOSE i \in ends : \A j \in ends : i <= j
           line == out \o SubSeq(buf, 1, n)
       IN CASE Len(line) > max -> Failed(tooLong)
            [] Len(line) <= max /\ ends # {} ->
                 Got(Stripped(SubSeq(line, 1, Len(line) - 1)), Consumed(in, n))
            [] OTHER -> ReadLine(Consumed(in, n), line, max, tooLong, eof)

(* read_fields: up to the empty line. *)
RECURSIVE ReadFields(_, _)
FieldsFrom(line, out) ==
  CASE ~line.ok -> line
    [] line.ok /\ line.value = <<>> -> Got(out, line.in)
    [] line.ok /\ line.value # <<>> /\ Len(out) >= MaxHeaders -> Failed(431)
    [] OTHER -> IF Single(line.value, "field")
                THEN ReadFields(line.in, Append(out, line.value[1])) ELSE Failed(400)
ReadFields(in, out) == FieldsFrom(ReadLine(in, <<>>, MaxLine, 431, 400), out)

(* read_exact_capped. *)
RECURSIVE ReadExact(_, _, _)
ReadExact(in, n, out) ==
  IF n = 0 THEN Got(out, in)
  ELSE IF in.pieces = <<>> THEN Failed(EndStatus(in.end, 400))
  ELSE LET k == IF n < Len(Head(in.pieces)) THEN n ELSE Len(Head(in.pieces)) IN
       ReadExact(Consumed(in, k), n - k, out \o SubSeq(Head(in.pieces), 1, k))

(* read_chunked: the trailers are read like fields and dropped. *)
RECURSIVE ReadChunked(_, _)
AfterTrailers(trailers, body) == IF trailers.ok THEN Got(body, trailers.in) ELSE trailers
AfterChunk(crlf, body) ==
  IF ~crlf.ok THEN crlf ELSE IF crlf.value # <<>> THEN Failed(400) ELSE ReadChunked(crlf.in, body)
AfterData(data) == IF ~data.ok THEN data ELSE AfterChunk(ReadLine(data.in, <<>>, 2, 400, 400), data.value)
ChunkFrom(line, body) ==
  IF ~line.ok THEN line
  ELSE IF ~Single(line.value, "size") THEN Failed(400)
  ELSE LET size == line.value[1].value IN
       IF size = 0 THEN AfterTrailers(ReadFields(line.in, <<>>), body)
       ELSE IF Len(body) + size > MaxBody THEN Failed(413)
       ELSE AfterData(ReadExact(line.in, size, body))
ReadChunked(in, body) == ChunkFrom(ReadLine(in, <<>>, MaxLine, 400, 400), body)

(* The values of the fields of a name, in their order. *)
Values(headers, name) ==
  [i \in DOMAIN SelectSeq(headers, LAMBDA h : h.name = name) |->
     SelectSeq(headers, LAMBDA h : h.name = name)[i].value]
Some(seq) == {seq[i] : i \in DOMAIN seq}

(* How the body is framed: in chunks or by a length, or the error.  -1     *)
(* stands for a length that is not a number of 64 bits.                    *)
Framing(version, headers) ==
  LET lengths == Some(Values(headers, "content-length"))
      codings == Values(headers, "transfer-encoding")
      framed(chunked, n) == Got([chunked |-> chunked, length |-> n], {})
  IN CASE -1 \in lengths \/ Cardinality(lengths) > 1 \/ Len(codings) > 1 -> Failed(400)
       [] codings # <<>> /\ (lengths # {} \/ version = "1.0") -> Failed(400)
       [] codings # <<>> /\ codings[1] # "chunked" -> Failed(501)
       [] \E n \in lengths : n > MaxBody -> Failed(413)
       [] OTHER -> framed(codings # <<>>, IF lengths = {} THEN 0 ELSE CHOOSE n \in lengths : TRUE)

(* 100 Continue is sent before a body that is to come, once its framing    *)
(* was accepted.                                                           *)
Continues(version, headers, framing) ==
  (framing.chunked \/ framing.length > 0) /\ version = "1.1" /\ "100-continue" \in Some(Values(headers, "expect"))

(* The request line, after at most four empty lines. *)
RECURSIVE ReadStart(_, _)
StartFrom(line, skipped) ==
  CASE ~line.ok -> line
    [] line.ok /\ line.value = <<>> -> IF skipped = 4 THEN Failed(400) ELSE ReadStart(line.in, skipped + 1)
    [] OTHER -> IF ~Single(line.value, "start") THEN Failed(400)
                ELSE IF line.value[1].version \notin {"1.0", "1.1"} THEN Failed(505)
                ELSE Got(line.value[1], line.in)
ReadStart(in, skipped) ==
  StartFrom(ReadLine(in, <<>>, MaxLine, 414, IF skipped = 0 THEN 0 ELSE 400), skipped)

(* read_request_with: the request or the error, and whether 100 Continue   *)
(* was sent.                                                               *)
WithBody(start, headers, body) ==
  IF ~body.ok THEN body ELSE Got([start |-> start, headers |-> headers, body |-> body.value], body.in)
WithFraming(start, headers, framing) ==
  IF ~framing.ok THEN [continue |-> FALSE, read |-> framing]
  ELSE [continue |-> Continues(start.version, headers.value, framing.value),
        read |-> WithBody(start, headers.value,
                   IF framing.value.chunked THEN ReadChunked(headers.in, <<>>)
                   ELSE ReadExact(headers.in, framing.value.length, <<>>))]
WithHeaders(start, headers) ==
  IF ~headers.ok THEN [continue |-> FALSE, read |-> headers]
  ELSE WithFraming(start, headers, Framing(start.version, headers.value))
WithStart(start) ==
  IF ~start.ok THEN [continue |-> FALSE, read |-> start]
  ELSE WithHeaders(start.value, ReadFields(start.in, <<>>))
Received(in) == WithStart(ReadStart(in, 0))

WantsKeepAlive(req) ==
  LET tokens == UNION Some(Values(req.headers, "connection")) IN
  "close" \notin tokens /\ (req.start.version = "1.1" \/ "keep-alive" \in tokens)

-----------------------------------------------------------------------------
(* Answering.  What is written is a status and whether the connection is   *)
(* announced as kept; a stream of events is announced as closed.           *)
Answer(status, keep) == [status |-> status, keep |-> keep]
Interim == Answer(100, TRUE)

(* lookup: the method of a path's route. *)
Allowed(path) ==
  CASE path \in {"health", "models"} -> "GET" [] path \in {"chat", "completions", "completion"} -> "POST"
    [] OTHER -> "none"

(* generate: refused, or answered by a job.  A stream is delimited by the  *)
(* connection's close; a client that has gone is not answered.             *)
Generated(body, keep) ==
  CASE Outcome(body) = "full" -> [out |-> <<Answer(200, keep)>>, reusable |-> TRUE]
    [] Outcome(body) = "failed" -> [out |-> <<Answer(500, keep)>>, reusable |-> TRUE]
    [] Outcome(body) = "invalid" -> [out |-> <<Answer(400, keep)>>, reusable |-> TRUE]
    [] Outcome(body) = "busy" -> [out |-> <<Answer(503, keep)>>, reusable |-> TRUE]
    [] Outcome(body) = "stopped" -> [out |-> <<Answer(500, FALSE)>>, reusable |-> FALSE]
    [] Outcome(body) = "stream" -> [out |-> <<Answer(200, FALSE)>>, reusable |-> FALSE]
    [] Outcome(body) = "gone" -> [out |-> <<>>, reusable |-> FALSE]

Dispatch(req, keep) ==
  LET allowed == Allowed(req.start.path)
      plain(status) == [out |-> <<Answer(status, keep)>>, reusable |-> TRUE]
  IN CASE allowed = "none" -> plain(404)
       [] allowed # "none" /\ req.start.method = "OPTIONS" -> plain(204)
       [] allowed # "none" /\ req.start.method \notin {"OPTIONS", allowed} -> plain(405)
       [] OTHER -> IF allowed = "GET" THEN plain(200) ELSE Generated(req.body, keep)

(* handle_connection: what it writes.  A connection that ends before the   *)
(* first byte of a request is closed without a word, except when nothing   *)
(* ever came in time.  served has reached KeepAliveMax at the last.        *)
Keeps(req, served, reusable) == WantsKeepAlive(req) /\ served < KeepAliveMax /\ reusable
RECURSIVE Connection(_, _)
Answered(req, rest, served, done) ==
  done.out \o (IF Keeps(req, served, done.reusable) THEN Connection(rest, served) ELSE <<>>)
Served(read, served) ==
  IF ~read.ok THEN IF read.status = 0 THEN <<>> ELSE <<Answer(read.status, FALSE)>>
  ELSE Answered(read.value, read.in, served,
                Dispatch(read.value, WantsKeepAlive(read.value) /\ served < KeepAliveMax))
Heard(got, served) == (IF got.continue THEN <<Interim>> ELSE <<>>) \o Served(got.read, served)
Connection(in, served) ==
  IF in.pieces = <<>>
  THEN IF served = 0 /\ in.end = "timeout" THEN <<Answer(408, FALSE)>> ELSE <<>>
  ELSE Heard(Received(in), served + 1)

(* reject_busy: one answer, and nothing is read. *)
RejectBusy == <<Answer(503, FALSE)>>
=============================================================================
