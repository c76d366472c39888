------------------------------ MODULE OutputFilter ------------------------------
(***************************************************************************)
(* The way from tokens to the caller's text (generation.rs): StreamDecoder *)
(* decodes a window of tokens with and without the new ones, StopMatcher   *)
(* looks for stop strings and holds back what may become one,              *)
(* ReasoningSplitter separates the first thinking block and holds back     *)
(* what may become a tag, OutputSink collects both parts.                  *)
(*                                                                         *)
(* Text is a sequence of characters; the filters see it in arbitrary       *)
(* pieces.                                                                 *)
(***************************************************************************)
EXTENDS Integers, Sequences, SequencesExt

CONSTANTS
  Char,
  Newline,
  Open, Close,   \* THINK_OPEN, THINK_CLOSE
  Stops,         \* a sequence of stop strings, none empty
  MaxText,       \* bound: characters of a completion
  MaxPiece,      \* bound: characters of a piece
  Ctx,           \* prompt tokens the decoder keeps as context; 6 there
  DrainAt        \* tokens that may lie before its window; 64 there

VARIABLES
  input,       \* text decoded so far
  last,        \* length of the input before its last piece
  pending,     \* of the stop matcher
  matched,     \* index of the stop string that matched, or 0
  separate,    \* reasoning is split off
  start,       \* the prompt opened the thinking block
  sp,          \* the splitter
  text, reasoning,
  finish       \* "none", "stop_string", "stop", "aborted"
filterVars == <<input, last, pending, matched, separate, start, sp, text, reasoning, finish>>

Pieces == UNION {[1 .. n -> Char] : n \in 1 .. MaxPiece}
Take(s, n) == SubSeq(s, 1, n)
Drop(s, n) == SubSeq(s, n + 1, Len(s))
Occurrences(s, t) ==
  {i \in 1 .. Len(s) - Len(t) + 1 : SubSeq(s, i, i + Len(t) - 1) = t}

(* <think> and </think>: the closing tag is no part of the opening one. *)
ASSUME FilterAssumption ==
  /\ Open \in Seq(Char) /\ Open # <<>> /\ Close \in Seq(Char) /\ Close # <<>>
  /\ Occurrences(Open, Close) = {}
  /\ Stops \in Seq(Seq(Char)) /\ \A i \in DOMAIN Stops : Stops[i] # <<>>
  /\ MaxText \in Nat /\ MaxPiece \in Nat

TrimStart(s) ==
  LET n == {i \in DOMAIN s : s[i] # Newline}
  IN  IF n = {} THEN <<>> ELSE Drop(s, Min(n) - 1)
TrimEnd(s) ==
  LET n == {i \in DOMAIN s : s[i] # Newline}
  IN  IF n = {} THEN <<>> ELSE Take(s, Max(n))

-----------------------------------------------------------------------------
(* StreamDecoder.  The tokenizer is external: a word carries a leading     *)
(* space, which the decoder drops at the start of a text; "b1" and "b2"    *)
(* are the bytes of one character, and either of them alone decodes to a   *)
(* replacement; special tokens decode to nothing.                          *)
Visible(ids) == {i \in DOMAIN ids : ids[i] # "special"}
TextAt(ids, i) ==
  LET before == {j \in Visible(ids) : j < i}
      after == {j \in Visible(ids) : i < j}
  IN CASE ids[i] = "word" -> IF before = {} THEN <<"w">> ELSE <<" ", "w">>
       [] ids[i] = "b1" -> IF after # {} /\ ids[Min(after)] = "b2" THEN <<"e">> ELSE <<"?">>
       [] ids[i] = "b2" -> IF before # {} /\ ids[Max(before)] = "b1" THEN <<>> ELSE <<"?">>
       [] ids[i] = "special" -> <<>>
Decode(ids) == FlattenSeq([i \in DOMAIN ids |-> TextAt(ids, i)])

Utf8(c) == [i \in 1 .. (IF c = "?" THEN 3 ELSE IF c = "e" THEN 2 ELSE 1) |-> c]
ByteLen(s) == Len(FlattenSeq([i \in DOMAIN s |-> Utf8(s[i])]))

(* diff_suffix: what comes after the common beginning.                     *)
Common(s, t) ==
  CHOOSE n \in 0 .. Len(s) :
    /\ IsPrefix(SubSeq(s, 1, n), t)
    /\ n < Len(s) => ~IsPrefix(SubSeq(s, 1, n + 1), t)
DiffSuffix(prefix, full) == SubSeq(full, Common(prefix, full) + 1, Len(full))

NewDecoder(context) ==
  LET from == Len(context) - Ctx + 1
      ctx == SubSeq(context, IF from < 1 THEN 1 ELSE from, Len(context))
  IN [tokens |-> ctx, prefix |-> 0, read |-> Len(ctx)]

Prefix(d) == Decode(SubSeq(d.tokens, d.prefix + 1, d.read))
Full(d) == Decode(SubSeq(d.tokens, d.prefix + 1, Len(d.tokens)))
WaitsM(d) == ByteLen(Full(d)) <= ByteLen(Prefix(d))
Waits(d) ==
  ByteLen(Full(d)) <= ByteLen(Prefix(d)) \/ (Full(d) # <<>> /\ Last(Full(d)) = "?")

Moved(d) == [d EXCEPT !.prefix = d.read, !.read = Len(d.tokens)]
Drained(d) ==
  IF d.prefix > DrainAt
  THEN [tokens |-> SubSeq(d.tokens, d.prefix + 1, Len(d.tokens)), prefix |-> 0, read |-> d.read - d.prefix]
  ELSE d

(* push and flush: the new text and the decoder after it.                  *)
Push(decoder, id) ==
  LET d == [decoder EXCEPT !.tokens = Append(@, id)] IN
  IF Waits(d) THEN <<<<>>, d>> ELSE <<DiffSuffix(Prefix(d), Full(d)), Drained(Moved(d))>>
Flush(d) ==
  IF d.read = Len(d.tokens) \/ ByteLen(Full(d)) <= ByteLen(Prefix(d)) THEN <<>>
  ELSE DiffSuffix(Prefix(d), Full(d))

Streamed(context, ids) ==
  LET run[n \in 0 .. Len(ids)] ==
        IF n = 0 THEN <<<<>>, NewDecoder(context)>>
        ELSE LET p == Push(run[n - 1][2], ids[n]) IN <<run[n - 1][1] \o p[1], p[2]>>
  IN run[Len(ids)][1] \o Flush(run[Len(ids)][2])

-----------------------------------------------------------------------------
(* StopMatcher::push: the first occurrence of any stop string, or the text *)
(* without a possible beginning of one at its end.                         *)
Hits(s) == UNION {Occurrences(s, Stops[i]) \X {i} : i \in DOMAIN Stops}
Earlier(a, b) == a[1] < b[1] \/ (a[1] = b[1] /\ a[2] <= b[2])
FirstHit(s) == CHOOSE h \in Hits(s) : \A g \in Hits(s) : Earlier(h, g)

Beginnings(s) ==
  {k \in 1 .. Len(s) :
    \E i \in DOMAIN Stops : k < Len(Stops[i]) /\ IsSuffix(Take(Stops[i], k), s)}
HeldBack(s) == Max({0} \cup Beginnings(s))

Matched(piece) ==
  LET s == pending \o piece IN
  IF Hits(s) # {}
  THEN [safe |-> Take(s, FirstHit(s)[1] - 1), rest |-> <<>>, hit |-> FirstHit(s)[2]]
  ELSE [safe |-> Take(s, Len(s) - HeldBack(s)), rest |-> Drop(s, Len(s) - HeldBack(s)), hit |-> 0]

-----------------------------------------------------------------------------
(* ReasoningSplitter.  got collects what is released.                      *)
Splitter(opened) ==
  [inside |-> opened, done |-> FALSE, strip |-> opened, blockStart |-> opened, pend |-> <<>>]

Nothing == [text |-> <<>>, reasoning |-> <<>>]
Give(got, inside, s) ==
  IF inside THEN [got EXCEPT !.reasoning = @ \o s] ELSE [got EXCEPT !.text = @ \o s]

(* A partial tag at the end, and in reasoning the newlines before it.      *)
Begun(p, tag) == Max({0} \cup {k \in 1 .. Len(tag) - 1 : IsSuffix(Take(tag, k), p)})
HoldM(p, inside, tag) == Begun(p, tag)
Hold(p, inside, tag) ==
  LET k == Begun(p, tag)
      rest == Take(p, Len(p) - k)
  IN  IF inside THEN k + Len(rest) - Len(TrimEnd(rest)) ELSE k

(* push's loop: what it has, what it released, whether it goes on.         *)
Stripped(s) ==
  LET p == IF s.strip THEN TrimStart(s.pend) ELSE s.pend
  IN  [s EXCEPT !.pend = p, !.strip = @ /\ p = <<>>]

(* It goes on behind the tag it looks for, or releases what is not held.   *)
Sought(s, got) ==
  LET p == s.pend
      tag == IF s.inside THEN Close ELSE Open
      at == Min(Occurrences(p, tag))
      before == IF s.inside THEN TrimEnd(Take(p, at - 1)) ELSE Take(p, at - 1)
      cut == Len(p) - Hold(p, s.inside, tag)
  IN
  IF Occurrences(p, tag) # {}
  THEN [sp |-> [s EXCEPT !.pend = Drop(p, at + Len(tag) - 1), !.done = s.inside,
                         !.inside = ~s.inside, !.strip = TRUE, !.blockStart = FALSE],
        got |-> Give(got, s.inside, before), more |-> TRUE]
  ELSE [sp |-> [s EXCEPT !.pend = Drop(p, cut), !.blockStart = FALSE],
        got |-> Give(got, s.inside, Take(p, cut)), more |-> FALSE]

Looked(s, got) ==
  LET again == ~s.strip /\ ~s.done /\ s.blockStart /\ IsPrefix(Open, s.pend)
      perhaps == ~s.strip /\ ~s.done /\ s.blockStart /\ ~IsPrefix(Open, s.pend) /\ IsPrefix(s.pend, Open)
  IN
  CASE s.strip \/ perhaps -> [sp |-> s, got |-> got, more |-> FALSE]
    [] ~s.strip /\ s.done ->
         [sp |-> [s EXCEPT !.pend = <<>>], got |-> Give(got, FALSE, s.pend), more |-> FALSE]
    [] again ->
         [sp |-> [s EXCEPT !.pend = Drop(s.pend, Len(Open)), !.blockStart = FALSE, !.strip = TRUE],
          got |-> got, more |-> TRUE]
    [] OTHER -> Sought(s, got)

Turn(r) == IF r.more THEN Looked(Stripped(r.sp), r.got) ELSE r

(* A redundant opening tag or the opening tag, the closing tag, the rest:  *)
(* after three turns the loop has returned.                                *)
Scan(s) == Turn(Turn(Turn([sp |-> s, got |-> Nothing, more |-> TRUE])))

Split(s, piece) ==
  IF s.done /\ s.pend = <<>> /\ ~s.strip
  THEN [sp |-> s, got |-> Give(Nothing, FALSE, piece)]
  ELSE Scan([s EXCEPT !.pend = @ \o piece])

(* ReasoningSplitter::flush *)
Leftover(s) ==
  Give(Nothing, s.inside, IF s.inside THEN TrimEnd(s.pend) ELSE s.pend)

-----------------------------------------------------------------------------
(* OutputSink::push and finish. *)
Pushed(s, piece) ==
  IF piece = <<>> THEN [sp |-> s, got |-> Nothing]
  ELSE IF separate THEN Split(s, piece)
  ELSE [sp |-> s, got |-> Give(Nothing, FALSE, piece)]

Collect(a, b) ==
  /\ text' = text \o a.text \o b.text
  /\ reasoning' = reasoning \o a.reasoning \o b.reasoning

Finished(s) == IF separate THEN Leftover(s) ELSE Nothing

FilterInit ==
  /\ input = <<>> /\ last = 0 /\ pending = <<>> /\ matched = 0
  /\ separate \in BOOLEAN /\ start \in BOOLEAN /\ sp = Splitter(start)
  /\ text = <<>> /\ reasoning = <<>> /\ finish = "none"

Receive(piece) ==
  /\ input' = input \o piece /\ last' = Len(input)
  /\ Len(input') <= MaxText

(* A token gives a piece of text; the caller may abort on it. *)
Delta(piece) ==
  LET m == Matched(piece)
      p == Pushed(sp, m.safe)
      ends == m.hit # 0
  IN
  /\ finish = "none"
  /\ Receive(piece)
  /\ pending' = m.rest /\ matched' = m.hit
  /\ \/ /\ finish' = IF ends THEN "stop_string" ELSE "none"
        /\ sp' = IF ends /\ separate THEN [p.sp EXCEPT !.pend = <<>>] ELSE p.sp
        /\ Collect(p.got, IF ends THEN Finished(p.sp) ELSE Nothing)
     \/ /\ m.safe # <<>>
        /\ finish' = "aborted"
        /\ sp' = p.sp
        /\ Collect(p.got, Nothing)
  /\ UNCHANGED <<separate, start>>

(* The end of generation: what the detokenizer (an incomplete character),  *)
(* the matcher and the splitter hold back is released.                     *)
End(piece) ==
  LET m == Matched(piece)
      p == Pushed(sp, m.safe)
      r == Pushed(p.sp, m.rest)
      both == [text |-> p.got.text \o r.got.text,
               reasoning |-> p.got.reasoning \o r.got.reasoning]
  IN
  /\ finish = "none"
  /\ Receive(piece)
  /\ pending' = <<>> /\ matched' = m.hit
  /\ finish' = IF m.hit # 0 THEN "stop_string" ELSE "stop"
  /\ sp' = IF separate THEN [r.sp EXCEPT !.pend = <<>>] ELSE r.sp
  /\ Collect(both, Finished(r.sp))
  /\ UNCHANGED <<separate, start>>

Ended == finish # "none" /\ UNCHANGED filterVars

FilterNext ==
  \/ \E piece \in Pieces : Delta(piece)
  \/ End(<<>>) \/ \E c \in Char : End(<<c>>)
  \/ Ended

FilterSpec == FilterInit /\ [][FilterNext]_filterVars

-----------------------------------------------------------------------------
Stopped == matched # 0
Shown ==
  IF Stopped THEN Take(input, Min({h[1] : h \in Hits(input)}) - 1)
  ELSE Take(input, Len(input) - Len(pending))

(* The first thinking block of s and the text around it, in one go.        *)
Body(s) ==
  LET a == TrimStart(s) IN
  IF ~start THEN TrimStart(Drop(s, Min(Occurrences(s, Open)) + Len(Open) - 1))
  ELSE IF IsPrefix(Open, a) THEN TrimStart(Drop(a, Len(Open))) ELSE a
Before(s) == IF start THEN <<>> ELSE Take(s, Min(Occurrences(s, Open)) - 1)

Reference(s) ==
  IF ~separate \/ (~start /\ Occurrences(s, Open) = {})
  THEN [text |-> s, reasoning |-> <<>>]
  ELSE LET ends == Occurrences(Body(s), Close) IN
       IF ends = {} THEN [text |-> Before(s), reasoning |-> TrimEnd(Body(s))]
       ELSE [text |-> Before(s) \o TrimStart(Drop(Body(s), Min(ends) + Len(Close) - 1)),
             reasoning |-> TrimEnd(Take(Body(s), Min(ends) - 1))]

(* A stop string that appears in the decoded text ends the completion with *)
(* the piece that completes it, however the text was cut into pieces: none *)
(* is missed, none is found where there is none.                           *)
StopsCaught ==
  /\ Stopped <=> Hits(input) # {}
  /\ Hits(Take(input, last)) = {}

(* What the caller has got, with what a flush would add, is at every time  *)
(* the text before the earliest stop string, split as a whole into the     *)
(* first thinking block and the rest: independent of the pieces.           *)
SplitExact ==
  LET r == Reference(Shown) IN
  /\ text \o Finished(sp).text = r.text
  /\ reasoning \o Finished(sp).reasoning = r.reasoning

(* The caller gets the same text and reasoning in whatever pieces the text *)
(* arrives: what stands before the earliest stop string, split at its      *)
(* first thinking block.                                                   *)
OutputExact == StopsCaught /\ SplitExact
=============================================================================
