--------------------------- MODULE BatchEngineProofs ---------------------------
(***************************************************************************)
(* Continuous batching for any number of slots, any prompts, limits and    *)
(* chunk sizes: requests are answered once, what is remembered of a slot   *)
(* is true, and a session is fed its prompt and its output without a gap.  *)
(***************************************************************************)
EXTENDS BatchEngine, FiniteSetTheorems, SequenceTheorems, WellFoundedInduction, TLAPS

Event == {"piece", "ok", "err"}

TypeOK ==
  /\ wpc \in [Slot -> {"idle", "relay", "gone"}]
  /\ quiet \in [Slot -> BOOLEAN] /\ cancel \in [Slot -> BOOLEAN]
  /\ chan \in [Slot -> Seq(Event)]
  /\ rx \in Seq(Slot) /\ open \in BOOLEAN
  /\ epc \in {"recv", "drain", "cancel", "step", "retire", "exit"} /\ cursor \in Nat \ {0}
  /\ active \in Seq(Session)
  /\ states \in [Slot -> Int] /\ content \in [Slot -> Int] /\ held \in [Slot -> Int]

(* FedTokens and PausesHandled of one session, and what makes them last:   *)
(* the end of the prompt is a pause point and the last, a session that     *)
(* goes on may sample another token, and a failed one does not go on.      *)
Sound(a) ==
  /\ a.out <= a.max
  /\ ~a.failed /\ ~a.decoding => a.fed < a.len /\ a.out = 0
  /\ ~a.failed /\ a.decoding => a.fed = a.len + a.out - 1 /\ a.out > 0
  /\ a.finish = "length" => a.out = a.max
  /\ ~a.failed => a.handled = {p \in a.pauses : p <= a.fed}
  /\ a.len \in a.pauses /\ a.pauses \subseteq 0 .. a.len
  /\ a.finish = "none" => ~a.failed /\ a.out < a.max
Sessions == \A i \in 1 .. Len(active) : Sound(active[i])

InRx(s) == \E i \in 1 .. Len(rx) : rx[i] = s
InActive(s) == \E i \in 1 .. Len(active) : active[i].slot = s
HasResult(s) == \E k \in 1 .. Len(chan[s]) : chan[s][k] # "piece"

Distinct ==
  /\ \A i, j \in 1 .. Len(rx) : rx[i] = rx[j] => i = j
  /\ \A i, j \in 1 .. Len(active) : active[i].slot = active[j].slot => i = j
(* A request is in one of the three places, and in no two. *)
Placed(s) ==
  /\ InRx(s) => wpc[s] = "relay" /\ ~InActive(s) /\ ~HasResult(s)
  /\ InActive(s) => wpc[s] = "relay" /\ ~HasResult(s)
  /\ HasResult(s) => wpc[s] = "relay"
  /\ wpc[s] = "relay" => InRx(s) \/ InActive(s) \/ HasResult(s)
  /\ \A k \in 1 .. Len(chan[s]) : chan[s][k] # "piece" => k = Len(chan[s])
Once == Distinct /\ \A s \in Slot : Placed(s)

(* SlotStates, slot by slot. *)
Remembered ==
  /\ \A s \in Slot : ~InActive(s) =>
       /\ held[s] = IF states[s] = NoState THEN 0 ELSE states[s]
       /\ states[s] # NoState => content[s] = states[s]
  /\ \A s \in Slot : InActive(s) => held[s] = 0 /\ states[s] = NoState
  /\ \A i \in 1 .. Len(active) : ~active[i].failed => content[active[i].slot] = active[i].fed

Inv == TypeOK /\ Sessions /\ Once /\ Remembered

-----------------------------------------------------------------------------
(* Sessions.                                                               *)

(* A set of natural numbers that is not empty has a least element. *)
LEMMA Least ==
  ASSUME NEW S \in SUBSET Nat, S # {}
  PROVE  \E m \in S : \A n \in S : m <= n
<1> DEFINE R == OpToRel(<, Nat)
<1>1. \A a, b \in Nat : a < b => <<a, b>> \in R
  <2>1. R = {ss \in Nat \X Nat : ss[1] < ss[2]} BY Zenon DEF OpToRel
  <2> QED BY <2>1
<1>2. IsWellFoundedOn(R, Nat) BY NatLessThanWellFounded
<1> HIDE DEF R
<1>3. PICK m \in S : \A n \in S : <<n, m>> \notin R BY <1>2, WFMin, Zenon
<1>4. ASSUME NEW n \in S PROVE m <= n
  <2>1. n \in Nat /\ m \in Nat OBVIOUS
  <2>2. ~(n < m) BY <1>1, <1>3, <2>1, Zenon
  <2> QED BY <2>1, <2>2
<1> QED BY <1>4

(* handle_pause: only the pauses handled change. *)
LEMMA PauseHandled ==
  ASSUME NEW a \in Session, a.fed \in a.pauses => a.fed \in 0 .. MaxPrompt
  PROVE  /\ HandlePause(a) \in Session
         /\ HandlePause(a) = [a EXCEPT !.handled =
              IF a.fed \in a.pauses THEN a.handled \cup {a.fed} ELSE a.handled]
BY DEF HandlePause, Session

(* A session starts sound, with what is kept of its slot's state.          *)
LEMMA StartSound ==
  ASSUME NEW s \in Slot, NEW a \in Starting(s)
  PROVE  a \in Session /\ Sound(a) /\ a.slot = s /\ ~a.failed /\ a.fed \in Nat
<1>1. PICK len \in 1 .. MaxPrompt, max \in Limits, keep \in 0 .. MaxPrompt - 1, extra \in SUBSET (0 .. MaxPrompt) :
        /\ keep < len /\ extra \subseteq keep .. len - 1
        /\ a = HandlePause([slot |-> s, len |-> len, max |-> max, fed |-> keep, out |-> 0,
                 decoding |-> FALSE, pauses |-> {len} \cup extra, handled |-> {},
                 pieces |-> 0, finish |-> "none", failed |-> FALSE])
  <2>1. PICK p \in (1 .. MaxPrompt) \X Limits \X (0 .. MaxPrompt - 1) \X SUBSET (0 .. MaxPrompt) :
          /\ p[3] < p[1] /\ p[4] \subseteq p[3] .. p[1] - 1
          /\ a = HandlePause([slot |-> s, len |-> p[1], max |-> p[2], fed |-> p[3], out |-> 0,
                   decoding |-> FALSE, pauses |-> {p[1]} \cup p[4], handled |-> {},
                   pieces |-> 0, finish |-> "none", failed |-> FALSE])
    BY Zenon DEF Starting
  <2>2. /\ p[1] \in 1 .. MaxPrompt /\ p[2] \in Limits /\ p[3] \in 0 .. MaxPrompt - 1
        /\ p[4] \in SUBSET (0 .. MaxPrompt)
    OBVIOUS
  <2> QED BY <2>1, <2>2
<1> DEFINE b == [slot |-> s, len |-> len, max |-> max, fed |-> keep, out |-> 0,
                 decoding |-> FALSE, pauses |-> {len} \cup extra, handled |-> {},
                 pieces |-> 0, finish |-> "none", failed |-> FALSE]
<1>2. len \in Nat /\ max \in Nat \ {0} /\ keep \in Nat /\ max \in 1 .. MaxTokens /\ len \in 0 .. MaxPrompt
      /\ keep \in 0 .. MaxPrompt
  BY EngineAssumption DEF Limits
<1>3. b \in Session BY <1>1, <1>2 DEF Session
<1>4. a.handled = {p \in {len} \cup extra : p <= keep} BY <1>1, <1>2 DEF HandlePause
<1>5. /\ a.slot = s /\ a.len = len /\ a.max = max /\ a.fed = keep /\ a.out = 0 /\ a.decoding = FALSE
      /\ a.pauses = {len} \cup extra /\ a.finish = "none" /\ a.failed = FALSE
  BY <1>1 DEF HandlePause
<1>6. a \in Session BY <1>1, <1>2, <1>3, PauseHandled
<1>7. {len} \cup extra \subseteq 0 .. len BY <1>1, <1>2
<1>8. a.len \in a.pauses /\ a.pauses \subseteq 0 .. a.len BY <1>5, <1>7
<1>9. a.handled = {p \in a.pauses : p <= a.fed} BY <1>4, <1>5
<1>10. Sound(a)
  <2>1. a.out <= a.max /\ a.fed < a.len /\ a.out < a.max BY <1>1, <1>2, <1>5
  <2> HIDE DEF b
  <2> QED BY <1>5, <1>8, <1>9, <2>1 DEF Sound
<1> QED BY <1>2, <1>5, <1>6, <1>10

(* input: a chunk is not empty, leaves no pause point inside it, and ends  *)
(* with the prompt at the latest.                                          *)
LEMMA ChunkEnds ==
  ASSUME NEW a \in Session, Sound(a), ~a.failed, ~a.decoding,
         NEW take \in Nat \ {0}
  PROVE  /\ Chunk(a, take) \in Nat \ {0} /\ a.fed + Chunk(a, take) <= a.len
         /\ \A p \in a.pauses : p > a.fed => p >= a.fed + Chunk(a, take)
<1> DEFINE S == {p \in a.pauses : p > a.fed}
<1>1. a.fed \in Nat /\ a.len \in Nat /\ a.fed < a.len /\ a.pauses \subseteq Nat /\ a.len \in a.pauses
  BY DEF Session, Sound
<1>2. S \in SUBSET Nat /\ S # {} BY <1>1
<1>3. PICK m \in S : \A n \in S : m <= n BY <1>2, Least
<1>4. \E p \in a.pauses : p > a.fed /\ \A q \in a.pauses : q > a.fed => p <= q BY <1>3
<1>5. /\ NextPause(a) \in a.pauses /\ NextPause(a) > a.fed
      /\ \A q \in a.pauses : q > a.fed => NextPause(a) <= q
  BY <1>4 DEF NextPause
<1>6. NextPause(a) \in Nat /\ NextPause(a) <= a.len BY <1>1, <1>5
<1> DEFINE m2 == NextPause(a)
<1> HIDE DEF m2
<1>7. Chunk(a, take) = IF m2 - a.fed < take THEN m2 - a.fed ELSE take BY DEF Chunk, Lesser, m2
<1>8. /\ m2 \in Nat /\ m2 <= a.len /\ m2 > a.fed /\ \A q \in a.pauses : q > a.fed => m2 <= q
  BY <1>5, <1>6 DEF m2
<1> QED BY <1>1, <1>7, <1>8

(* Cancelling a session changes nothing else about it. *)
LEMMA AbortSound ==
  ASSUME NEW a \in Session, Sound(a)
  PROVE  /\ Aborted(a) \in Session /\ Sound(Aborted(a)) /\ Aborted(a).slot = a.slot
         /\ Aborted(a).fed = a.fed /\ Aborted(a).failed = a.failed
BY DEF Aborted, Session, Sound

(* A failed session is sound whatever its bookkeeping was. *)
LEMMA FailSound ==
  ASSUME NEW a \in Session, Sound(a), NEW n \in 0 .. 1
  PROVE  /\ Failed(a) \in Session /\ Sound(Failed(a)) /\ Failed(a).slot = a.slot /\ Failed(a).failed
         /\ [Failed(a) EXCEPT !.pieces = n] \in Session /\ Sound([Failed(a) EXCEPT !.pieces = n])
         /\ [Failed(a) EXCEPT !.pieces = n].slot = a.slot /\ [Failed(a) EXCEPT !.pieces = n].failed
BY DEF Failed, Session, Sound

(* sample: one more token, and the session ends when it was the last.      *)
LEMMA SampleSound ==
  ASSUME NEW a \in Session, NEW o \in Outcome, a.finish = "none", ~a.failed,
         a.out < a.max, a.fed = a.len + a.out, a.handled = {p \in a.pauses : p <= a.fed},
         a.len \in a.pauses, a.pauses \subseteq 0 .. a.len
  PROVE  /\ Sampled(a, o) \in Session /\ Sound(Sampled(a, o)) /\ Sampled(a, o).slot = a.slot
         /\ Sampled(a, o).fed = a.fed
<1> DEFINE b == [a EXCEPT !.out = a.out + 1, !.decoding = TRUE, !.pieces = o[2]]
<1> DEFINE f == IF o[1] = "end" THEN "stop" ELSE IF LengthReached(b) THEN "length" ELSE "none"
<1>1. /\ a.out \in Nat /\ a.max \in Nat /\ o[2] \in 0 .. 1 /\ a.len \in Nat /\ a.fed \in Nat
      /\ f \in {"none", "stop", "length"}
  BY EngineAssumption DEF Session, Outcome
<1>2. /\ b \in Session /\ b.out = a.out + 1 /\ b.decoding = TRUE /\ b.slot = a.slot /\ b.fed = a.fed
      /\ b.max = a.max /\ b.len = a.len /\ b.pauses = a.pauses /\ b.handled = a.handled /\ b.failed = a.failed
  <2> DEFINE x == [a EXCEPT !.out = a.out + 1]
  <2> DEFINE y == [x EXCEPT !.decoding = TRUE]
  <2>1. /\ x \in Session /\ x.out = a.out + 1 /\ x.slot = a.slot /\ x.fed = a.fed
        /\ x.max = a.max /\ x.len = a.len /\ x.pauses = a.pauses /\ x.handled = a.handled /\ x.failed = a.failed
    BY <1>1 DEF Session
  <2> HIDE DEF x
  <2>2. /\ y \in Session /\ y.out = a.out + 1 /\ y.decoding = TRUE /\ y.slot = a.slot /\ y.fed = a.fed
        /\ y.max = a.max /\ y.len = a.len /\ y.pauses = a.pauses /\ y.handled = a.handled /\ y.failed = a.failed
    BY <2>1 DEF Session
  <2> HIDE DEF y
  <2>3. b = [y EXCEPT !.pieces = o[2]] BY DEF x, y
  <2> HIDE DEF b
  <2> QED BY <1>1, <2>2, <2>3 DEF Session
<1>3. f = IF o[1] = "end" THEN "stop" ELSE IF a.out + 1 >= a.max THEN "length" ELSE "none"
  BY <1>2 DEF LengthReached
<1>4. Sampled(a, o) = [b EXCEPT !.finish = f] BY DEF Sampled
<1> HIDE DEF b, f
<1> DEFINE c == [b EXCEPT !.finish = f]
<1>5. /\ c \in Session /\ c.out = a.out + 1 /\ c.decoding = TRUE /\ c.slot = a.slot /\ c.fed = a.fed /\ c.finish = f
      /\ c.max = a.max /\ c.len = a.len /\ c.pauses = a.pauses /\ c.handled = a.handled /\ c.failed = a.failed
  BY <1>1, <1>2 DEF Session
<1> HIDE DEF c
<1>6. Sound(c) BY <1>1, <1>3, <1>5 DEF Sound
<1> QED BY <1>4, <1>5, <1>6 DEF c

(* feed: the tokens of a forward are counted once, pause points in the     *)
(* chunk are handled, and what was sampled is one token.                   *)
LEMMA FeedSound ==
  ASSUME NEW a \in Session, Sound(a), Unfinished(a), NEW n \in Nat \ {0}, NEW o \in Outcome,
         a.decoding => n = 1,
         ~a.decoding => a.fed + n <= a.len /\ \A p \in a.pauses : p > a.fed => p >= a.fed + n
  PROVE  /\ Fed(a, n, o) \in Session /\ Sound(Fed(a, n, o)) /\ Fed(a, n, o).slot = a.slot
         /\ ~Fed(a, n, o).failed => Fed(a, n, o).fed = a.fed + n
<1>0. /\ a.finish = "none" /\ ~a.failed /\ a.out < a.max /\ a.fed \in Nat /\ a.len \in Nat /\ a.out \in Nat
      /\ a.pauses \subseteq Nat /\ a.pauses \subseteq 0 .. MaxPrompt /\ a.len \in a.pauses
      /\ a.handled = {p \in a.pauses : p <= a.fed} /\ a.pauses \subseteq 0 .. a.len /\ o[2] \in 0 .. 1
  BY EngineAssumption DEF Session, Sound, Unfinished, Outcome
<1> DEFINE g == [a EXCEPT !.fed = a.fed + n]
<1> DEFINE b == IF a.decoding THEN [a EXCEPT !.fed = a.fed + 1] ELSE HandlePause([a EXCEPT !.fed = a.fed + n])
<1>1. /\ g \in Session /\ g.fed = a.fed + n /\ g.len = a.len /\ g.out = a.out /\ g.max = a.max /\ g.slot = a.slot
      /\ g.finish = a.finish /\ g.failed = a.failed /\ g.pauses = a.pauses /\ g.handled = a.handled
      /\ g.decoding = a.decoding
  BY <1>0 DEF Session
<1>2. /\ b \in Session /\ b.fed = a.fed + n /\ b.len = a.len /\ b.out = a.out /\ b.max = a.max /\ b.slot = a.slot
      /\ b.finish = "none" /\ ~b.failed /\ b.pauses = a.pauses /\ b.decoding = a.decoding
      /\ b.handled = {p \in a.pauses : p <= a.fed + n}
  <2>1. CASE a.decoding
    <3>1. b = g BY <2>1
    <3>2. a.fed >= a.len BY <1>0, <2>1 DEF Sound
    <3>3. \A p \in a.pauses : p <= a.fed /\ p <= a.fed + n BY <1>0, <3>2
    <3> QED BY <1>0, <1>1, <3>1, <3>3
  <2>2. CASE ~a.decoding
    <3>1. b = HandlePause(g) BY <2>2
    <3>2. /\ HandlePause(g) \in Session
          /\ HandlePause(g) = [g EXCEPT !.handled = IF g.fed \in g.pauses THEN g.handled \cup {g.fed} ELSE g.handled]
      BY <1>0, <1>1, PauseHandled
    <3> DEFINE h == IF g.fed \in g.pauses THEN g.handled \cup {g.fed} ELSE g.handled
    <3>3. h = {p \in a.pauses : p <= a.fed + n}
      <4>1. \A p \in a.pauses : p <= a.fed + n <=> p <= a.fed \/ p = a.fed + n BY <1>0, <2>2
      <4> QED BY <1>0, <1>1, <4>1
    <3> HIDE DEF h, g
    <3>4. HandlePause(g) = [g EXCEPT !.handled = h] BY <3>2 DEF h
    <3> QED BY <1>0, <1>1, <3>1, <3>2, <3>3, <3>4 DEF Session
  <2> QED BY <2>1, <2>2
<1>3. Fed(a, n, o) = IF o[1] = "fail" THEN [Failed(b) EXCEPT !.pieces = o[2]]
                     ELSE IF b.fed < b.len THEN b ELSE Sampled(b, o)
  BY DEF Fed
<1> HIDE DEF g, b
<1>4. b.len \in b.pauses /\ b.pauses \subseteq 0 .. b.len BY <1>0, <1>2
<1>5. a.decoding => a.fed = a.len + a.out - 1 /\ a.out > 0 BY <1>0 DEF Sound
<1>6. ~a.decoding => a.out = 0 BY <1>0 DEF Sound
<1>7. CASE o[1] = "fail"
  <2>1. [Failed(b) EXCEPT !.pieces = o[2]] \in Session /\ Sound([Failed(b) EXCEPT !.pieces = o[2]])
        /\ [Failed(b) EXCEPT !.pieces = o[2]].slot = b.slot /\ [Failed(b) EXCEPT !.pieces = o[2]].failed
    <3> DEFINE c == [Failed(b) EXCEPT !.pieces = o[2]]
    <3>1. /\ c \in Session /\ c.out = b.out /\ c.max = b.max /\ c.failed = TRUE /\ c.finish = "aborted"
          /\ c.len = b.len /\ c.pauses = b.pauses /\ c.slot = b.slot
      BY <1>0, <1>2 DEF Failed, Session
    <3> HIDE DEF c
    <3>2. b.out <= b.max BY <1>0, <1>2 DEF Session
    <3>3. Sound(c) BY <3>1, <3>2, <1>4 DEF Sound
    <3> QED BY <3>1, <3>3 DEF c
  <2> QED BY <1>2, <1>3, <1>7, <2>1
<1>8. CASE o[1] # "fail" /\ b.fed < b.len
  <2>1. ~a.decoding BY <1>0, <1>2, <1>5, <1>8
  <2>2. Sound(b) BY <1>0, <1>2, <1>4, <1>6, <1>8, <2>1 DEF Sound
  <2> QED BY <1>2, <1>3, <1>8, <2>2
<1>9. CASE o[1] # "fail" /\ ~(b.fed < b.len)
  <2>1. b.fed = b.len + b.out BY <1>0, <1>2, <1>5, <1>6, <1>9
  <2>2. b.handled = {p \in b.pauses : p <= b.fed} BY <1>2
  <2>3. b.out < b.max BY <1>0, <1>2
  <2>4. /\ Sampled(b, o) \in Session /\ Sound(Sampled(b, o)) /\ Sampled(b, o).slot = b.slot
        /\ Sampled(b, o).fed = b.fed
    BY <1>2, <1>4, <2>1, <2>2, <2>3, SampleSound
  <2> QED BY <1>2, <1>3, <1>9, <2>4
<1> QED BY <1>7, <1>8, <1>9

-----------------------------------------------------------------------------
(* The plan of a step.                                                     *)

(* Whatever is left of the budget, a session takes a natural number of     *)
(* tokens, none if it has ended and none that its prompt does not have.    *)
LEMMA TakeNat ==
  ASSUME active \in Seq(Session), Sessions, NEW i \in 1 .. Len(active), NEW left \in Nat
  PROVE  /\ Take(i, left) \in Nat
         /\ ~Unfinished(active[i]) => Take(i, left) = 0
         /\ Unfinished(active[i]) /\ active[i].decoding => Take(i, left) = 1
<1>1. active[i] \in Session /\ Sound(active[i]) BY DEF Sessions
<1>2. Allowance(i, left) \in Nat BY EngineAssumption DEF Allowance, Lesser, Greater
<1>3. CASE ~Unfinished(active[i]) BY <1>3 DEF Take, PassedOver
<1>4. CASE Unfinished(active[i]) /\ active[i].decoding BY <1>4 DEF Take, PassedOver
<1>5. CASE Unfinished(active[i]) /\ ~active[i].decoding
  <2>1. /\ active[i].fed \in Nat /\ active[i].len \in Nat /\ active[i].fed < active[i].len
    BY <1>1, <1>5 DEF Sound, Session, Unfinished
  <2>2. Take(i, left) = Lesser(Allowance(i, left), active[i].len - active[i].fed)
    BY <1>5 DEF Take, PassedOver
  <2> QED BY <1>2, <1>5, <2>1, <2>2 DEF Lesser
<1> QED BY <1>3, <1>4, <1>5

(* A function on 0 .. n may be defined by its value at 0 and its value at   *)
(* i from the one at i - 1: it is built up from 0 .. 0 to 0 .. n.          *)
LEMMA Recursion ==
  ASSUME NEW n \in Nat, NEW zero \in Nat, NEW step \in [(1 .. n) \X Nat -> Nat]
  PROVE  \E f \in [0 .. n -> Nat] : f[0] = zero /\ \A i \in 1 .. n : f[i] = step[<<i, f[i - 1]>>]
<1> DEFINE Follows(f, m) == f[0] = zero /\ \A i \in 1 .. m : f[i] = step[<<i, f[i - 1]>>]
<1> DEFINE Missing == {m \in 0 .. n : ~\E f \in [0 .. m -> Nat] : Follows(f, m)}
<1>1. Missing = {}
  <2> SUFFICES ASSUME Missing # {} PROVE FALSE OBVIOUS
  <2>1. PICK m \in Missing : \A k \in Missing : m <= k
    <3>1. Missing \in SUBSET Nat OBVIOUS
    <3> QED BY <3>1, Least
  <2>2. m \in 0 .. n /\ m \in Nat BY <2>1
  <2>3. ~\E f \in [0 .. m -> Nat] : Follows(f, m) BY <2>1
  <2>4. m # 0
    <3> DEFINE f == [i \in 0 .. 0 |-> zero]
    <3>1. f \in [0 .. 0 -> Nat] OBVIOUS
    <3>2. Follows(f, 0) OBVIOUS
    <3> QED BY <2>3, <3>1, <3>2
  <2>5. m - 1 \notin Missing /\ m - 1 \in 0 .. n
    <3>1. m - 1 \in 0 .. n /\ ~(m <= m - 1) BY <2>2, <2>4
    <3> HIDE DEF Missing
    <3> QED BY <2>1, <3>1
  <2>6. PICK g \in [0 .. m - 1 -> Nat] : Follows(g, m - 1) BY <2>5
  <2>7. g[m - 1] \in Nat BY <2>2, <2>4
  <2>8. PICK v \in Nat : v = step[<<m, g[m - 1]>>]
    <3>1. <<m, g[m - 1]>> \in (1 .. n) \X Nat BY <2>2, <2>4, <2>7
    <3> QED BY <3>1
  <2> DEFINE f == [i \in 0 .. m |-> IF i = m THEN v ELSE g[i]]
  <2>9. f \in [0 .. m -> Nat] BY <2>2, <2>8
  <2>10. f[0] = zero BY <2>2, <2>4, <2>6
  <2>11. ASSUME NEW i \in 1 .. m PROVE f[i] = step[<<i, f[i - 1]>>]
    <3>1. f[i - 1] = g[i - 1] BY <2>2
    <3>2. f[i] = IF i = m THEN v ELSE g[i] BY <2>2
    <3> HIDE DEF f
    <3>3. CASE i = m
      <4>1. f[i - 1] = g[m - 1] BY <3>1, <3>3
      <4>2. f[i] = v BY <3>2, <3>3
      <4> QED BY <2>8, <3>3, <4>1, <4>2
    <3>4. CASE i # m
      <4>1. i \in 1 .. m - 1 BY <2>2, <3>4
      <4>2. g[i] = step[<<i, g[i - 1]>>] BY <2>6, <4>1
      <4> QED BY <3>1, <3>2, <3>4, <4>2
    <3> QED BY <3>3, <3>4
  <2> HIDE DEF f
  <2>12. Follows(f, m) BY <2>10, <2>11
  <2> QED BY <2>3, <2>9, <2>12
<1>2. PICK f \in [0 .. n -> Nat] : Follows(f, n)
  <2>1. n \in 0 .. n OBVIOUS
  <2>2. n \notin Missing BY <1>1, Zenon
  <2> QED BY <2>1, <2>2
<1> QED BY <1>2

(* The budget left after a session. *)
LeftAfter(i, left) ==
  IF Prefilling(active[i]) THEN Greater(left - Take(i, left), 0) ELSE left

(* Left is what its recursive definition says, and natural numbers. *)
LEMMA LeftFollows ==
  ASSUME active \in Seq(Session), Sessions
  PROVE  /\ Left[0] = Budget /\ \A i \in 0 .. Len(active) : Left[i] \in Nat
         /\ \A i \in 1 .. Len(active) : Left[i] = LeftAfter(i, Left[i - 1])
<1>0. PICK n \in Nat : n = Len(active) OBVIOUS
<1>1. Budget \in Nat BY EngineAssumption DEF Budget, Greater
<1>2. ASSUME NEW i \in 1 .. n, NEW left \in Nat PROVE LeftAfter(i, left) \in Nat
  <2>1. Take(i, left) \in Nat BY <1>0, TakeNat
  <2> QED BY <2>1 DEF LeftAfter, Greater
<1> DEFINE step == [p \in (1 .. n) \X Nat |-> LeftAfter(p[1], p[2])]
<1>3. step \in [(1 .. n) \X Nat -> Nat]
  <2>1. ASSUME NEW p \in (1 .. n) \X Nat PROVE LeftAfter(p[1], p[2]) \in Nat BY <1>2
  <2> QED BY <2>1
<1>4. \A i \in 1 .. n : \A left \in Nat : step[<<i, left>>] = LeftAfter(i, left) OBVIOUS
<1> HIDE DEF step
<1>5. PICK f \in [0 .. n -> Nat] : f[0] = Budget /\ \A i \in 1 .. n : f[i] = step[<<i, f[i - 1]>>]
  BY <1>1, <1>3, Recursion
<1>6. ASSUME NEW i \in 1 .. n PROVE f[i] = LeftAfter(i, f[i - 1])
  <2>1. f[i - 1] \in Nat OBVIOUS
  <2> QED BY <1>4, <1>5, <2>1
<1> DEFINE Rec(h) == [i \in 0 .. Len(active) |->
       IF i = 0 THEN Budget
       ELSE IF Prefilling(active[i])
            THEN Greater(h[i - 1] - Take(i, h[i - 1]), 0)
            ELSE h[i - 1]]
<1>7. \A h : \A i \in 1 .. n : Rec(h)[i] = LeftAfter(i, h[i - 1]) BY <1>0 DEF LeftAfter
<1>8. \A h : Rec(h)[0] = Budget /\ DOMAIN Rec(h) = 0 .. n BY <1>0
<1>9. f = Rec(f)
  <2>1. ASSUME NEW i \in 0 .. n PROVE f[i] = Rec(f)[i]
    <3>1. i = 0 \/ i \in 1 .. n OBVIOUS
    <3> HIDE DEF Rec
    <3> QED BY <1>5, <1>6, <1>7, <1>8, <3>1
  <2>2. Rec(f) = [i \in 0 .. n |-> Rec(f)[i]] BY <1>0
  <2> HIDE DEF Rec
  <2> QED BY <2>1, <2>2
<1>10. Left = CHOOSE h : h = Rec(h) BY DEF Left
<1> HIDE DEF Rec
<1>11. Left = Rec(Left) BY <1>9, <1>10, Zenon
<1>12. Left[0] = Budget /\ \A i \in 1 .. n : Left[i] = LeftAfter(i, Left[i - 1]) BY <1>7, <1>8, <1>11
<1> DEFINE Bad == {i \in 0 .. n : Left[i] \notin Nat}
<1>13. Bad = {}
  <2> SUFFICES ASSUME Bad # {} PROVE FALSE OBVIOUS
  <2>1. PICK m \in Bad : \A k \in Bad : m <= k
    <3>1. Bad \in SUBSET Nat OBVIOUS
    <3> QED BY <3>1, Least
  <2>2. m \in 0 .. n /\ m \in Nat /\ Left[m] \notin Nat BY <2>1
  <2>3. m # 0 BY <1>1, <1>12, <2>2
  <2>4. m \in 1 .. n BY <2>2, <2>3
  <2>5. Left[m - 1] \in Nat BY <2>1, <2>2, <2>3
  <2> QED BY <1>2, <1>12, <2>2, <2>4, <2>5
<1> QED BY <1>0, <1>12, <1>13

(* What is left of the budget is a natural number. *)
LEMMA LeftNat ==
  ASSUME active \in Seq(Session), Sessions
  PROVE  \A i \in 0 .. Len(active) : Left[i] \in Nat
BY LeftFollows

(* What a step feeds a session it has chosen. *)
LEMMA InputsSound ==
  ASSUME active \in Seq(Session), Sessions, NEW i \in Chosen
  PROVE  /\ i \in 1 .. Len(active) /\ active[i] \in Session /\ Sound(active[i]) /\ Unfinished(active[i])
         /\ Inputs(i) \in Nat \ {0}
         /\ active[i].decoding => Inputs(i) = 1
         /\ ~active[i].decoding =>
              /\ active[i].fed + Inputs(i) <= active[i].len
              /\ \A p \in active[i].pauses : p > active[i].fed => p >= active[i].fed + Inputs(i)
<1> DEFINE a == active[i]
<1>1. i \in 1 .. Len(active) /\ Plan[i] > 0 BY DEF Chosen
<1>2. a \in Session /\ Sound(a) BY <1>1 DEF Sessions
<1>3. i - 1 \in 0 .. Len(active) BY <1>1
<1>4. Left[i - 1] \in Nat BY <1>3, LeftNat
<1>5. Plan[i] = Take(i, Left[i - 1]) BY <1>1, Zenon DEF Plan
<1>6. Plan[i] \in Nat \ {0}
  <2>1. Take(i, Left[i - 1]) \in Nat BY <1>1, <1>4, TakeNat
  <2> QED BY <1>1, <1>5, <2>1
<1>7. Unfinished(a) BY <1>1, <1>4, <1>5, TakeNat
<1>8. CASE a.decoding BY <1>1, <1>2, <1>7, <1>8 DEF Inputs
<1>9. CASE ~a.decoding
  <2>1. Inputs(i) = Chunk(a, Plan[i]) BY <1>9 DEF Inputs
  <2>2. ~a.failed BY <1>2, <1>7 DEF Sound, Unfinished
  <2> QED BY <1>1, <1>2, <1>6, <1>7, <1>9, <2>1, <2>2, ChunkEnds
<1> QED BY <1>8, <1>9

(* A session never takes more than a chunk, nor, while it prefills, more   *)
(* than is left of the budget; only the first one is owed a token, and it  *)
(* gets one.                                                               *)
LEMMA TakeBounds ==
  ASSUME active \in Seq(Session), Sessions, NEW i \in 1 .. Len(active), NEW left \in Nat
  PROVE  /\ Take(i, left) \in Nat /\ Take(i, left) <= PrefillChunk
         /\ Prefilling(active[i]) => Take(i, left) <= IF FirstPrefill(i) THEN Greater(left, 1) ELSE left
         /\ FirstPrefill(i) => Take(i, left) > 0
<1>1. active[i] \in Session /\ Sound(active[i]) BY DEF Sessions
<1>2. PrefillChunk \in Nat \ {0} BY EngineAssumption
<1>3. Take(i, left) \in Nat BY TakeNat
<1>4. CASE ~Prefilling(active[i])
  <2>1. ~Unfinished(active[i]) \/ (Unfinished(active[i]) /\ active[i].decoding) BY <1>4 DEF Prefilling
  <2>2. Take(i, left) = 0 \/ Take(i, left) = 1 BY <2>1, TakeNat
  <2> QED BY <1>2, <1>4, <2>2 DEF FirstPrefill
<1>5. CASE Prefilling(active[i])
  <2>1. PICK rest \in Nat \ {0} : rest = active[i].len - active[i].fed
    <3>1. active[i].fed \in Nat /\ active[i].len \in Nat /\ active[i].fed < active[i].len
      BY <1>1, <1>5 DEF Sound, Session, Unfinished, Prefilling
    <3> QED BY <3>1
  <2>2. Take(i, left) = Lesser(Lesser(PrefillChunk, IF FirstPrefill(i) THEN Greater(left, 1) ELSE left), rest)
    BY <1>5, <2>1 DEF Take, PassedOver, Prefilling, Allowance
  <2>3. CASE FirstPrefill(i) BY <1>2, <2>2, <2>3 DEF Lesser, Greater
  <2>4. CASE ~FirstPrefill(i) BY <1>2, <2>2, <2>4 DEF Lesser, Greater
  <2> QED BY <2>3, <2>4
<1> QED BY <1>4, <1>5

(* What the prompts of a step are fed is at most what the plan gave them:  *)
(* a chunk may end early at a pause point.                                 *)
LEMMA InputsBounded ==
  ASSUME active \in Seq(Session), Sessions, NEW i \in Chosen
  PROVE  /\ Inputs(i) \in 1 .. PrefillChunk
         /\ Prefilling(active[i]) => Inputs(i) <= Take(i, Left[i - 1])
<1>1. i \in 1 .. Len(active) /\ Plan[i] = Take(i, Left[i - 1]) BY Zenon DEF Chosen, Plan
<1>2. i - 1 \in 0 .. Len(active) BY <1>1
<1>3. PICK left \in Nat : left = Left[i - 1] BY <1>2, LeftNat
<1>4. PICK take \in Nat : take = Plan[i] /\ take <= PrefillChunk BY <1>1, <1>3, TakeBounds
<1>5. PICK n \in Nat \ {0} : n = Inputs(i) BY InputsSound
<1>6. PrefillChunk \in Nat \ {0} BY EngineAssumption
<1>7. CASE active[i].decoding BY <1>5, <1>6, <1>7, InputsSound DEF Prefilling
<1>8. CASE ~active[i].decoding
  <2>1. n = Lesser(NextPause(active[i]) - active[i].fed, take) BY <1>4, <1>5, <1>8 DEF Inputs, Chunk
  <2>2. /\ active[i] \in Session /\ Sound(active[i]) /\ ~active[i].failed
    BY InputsSound DEF Sound, Unfinished
  <2>3. take \in Nat \ {0} BY <1>4 DEF Chosen
  <2>4. Chunk(active[i], take) <= take
    <3> DEFINE ahead == NextPause(active[i]) - active[i].fed
    <3>1. Chunk(active[i], take) \in Nat /\ Chunk(active[i], take) = IF ahead < take THEN ahead ELSE take
      BY <2>2, <2>3, <1>8, ChunkEnds DEF Chunk, Lesser
    <3> HIDE DEF ahead
    <3> QED BY <2>3, <3>1
  <2>5. n <= take BY <1>4, <1>5, <1>8, <2>4 DEF Inputs
  <2> QED BY <1>1, <1>3, <1>4, <1>5, <1>6, <2>5
<1> QED BY <1>7, <1>8

(* Spent is what its recursive definition says, and natural numbers.       *)
LEMMA SpentFollows ==
  ASSUME active \in Seq(Session), Sessions
  PROVE  /\ Spent[0] = 0 /\ \A i \in 0 .. Len(active) : Spent[i] \in Nat
         /\ \A i \in 1 .. Len(active) :
              Spent[i] = Spent[i - 1] + IF i \in Chosen /\ Prefilling(active[i]) THEN Inputs(i) ELSE 0
<1>0. PICK n \in Nat : n = Len(active) OBVIOUS
<1> DEFINE cost(i) == IF i \in Chosen /\ Prefilling(active[i]) THEN Inputs(i) ELSE 0
<1>1. \A i : cost(i) \in Nat
  <2> SUFFICES ASSUME NEW i PROVE cost(i) \in Nat OBVIOUS
  <2>1. i \in Chosen => Inputs(i) \in Nat BY InputsSound
  <2> QED BY <2>1
<1> DEFINE step == [p \in (1 .. n) \X Nat |-> p[2] + cost(p[1])]
<1> DEFINE Rec(h) == [i \in 0 .. Len(active) |->
       IF i = 0 THEN 0
       ELSE h[i - 1] + IF i \in Chosen /\ Prefilling(active[i]) THEN Inputs(i) ELSE 0]
<1>2. Spent = CHOOSE h : h = Rec(h) BY DEF Spent
<1>3. \A h : \A i \in 1 .. n : Rec(h)[i] = h[i - 1] + cost(i) BY <1>0
<1>4. \A h : Rec(h)[0] = 0 /\ Rec(h) = [i \in 0 .. n |-> Rec(h)[i]] BY <1>0
<1> HIDE DEF cost, Rec
<1>5. step \in [(1 .. n) \X Nat -> Nat]
  <2>1. ASSUME NEW p \in (1 .. n) \X Nat PROVE p[2] + cost(p[1]) \in Nat
    <3>1. p[2] \in Nat /\ cost(p[1]) \in Nat BY <1>1
    <3> QED BY <3>1
  <2> QED BY <2>1
<1>6. \A i \in 1 .. n : \A v \in Nat : step[<<i, v>>] = v + cost(i) OBVIOUS
<1> HIDE DEF step
<1>7. PICK f \in [0 .. n -> Nat] : f[0] = 0 /\ \A i \in 1 .. n : f[i] = step[<<i, f[i - 1]>>]
  <2>1. PICK zero \in Nat : zero = 0 OBVIOUS
  <2>2. \E f \in [0 .. n -> Nat] : f[0] = zero /\ \A i \in 1 .. n : f[i] = step[<<i, f[i - 1]>>]
    BY <1>5, Recursion
  <2> QED BY <2>1, <2>2
<1>8. ASSUME NEW i \in 1 .. n PROVE f[i] = f[i - 1] + cost(i)
  <2>1. f[i - 1] \in Nat OBVIOUS
  <2> QED BY <1>6, <1>7, <2>1
<1>9. f = Rec(f)
  <2>1. ASSUME NEW i \in 0 .. n PROVE f[i] = Rec(f)[i]
    <3>1. i = 0 \/ i \in 1 .. n OBVIOUS
    <3> QED BY <1>3, <1>4, <1>7, <1>8, <3>1
  <2>2. Rec(f) = [i \in 0 .. n |-> Rec(f)[i]] BY <1>4
  <2> QED BY <2>1, <2>2
<1>10. Spent = Rec(Spent) BY <1>2, <1>9, Zenon
<1>11. Spent[0] = 0 /\ \A i \in 1 .. n : Spent[i] = Spent[i - 1] + cost(i) BY <1>3, <1>4, <1>10
<1> DEFINE Bad == {i \in 0 .. n : Spent[i] \notin Nat}
<1>12. Bad = {}
  <2> SUFFICES ASSUME Bad # {} PROVE FALSE OBVIOUS
  <2>1. PICK m \in Bad : \A k \in Bad : m <= k
    <3>1. Bad \in SUBSET Nat OBVIOUS
    <3> QED BY <3>1, Least
  <2>2. m \in 0 .. n /\ m \in Nat /\ Spent[m] \notin Nat BY <2>1
  <2>3. m # 0 BY <1>11, <2>2
  <2>4. m \in 1 .. n BY <2>2, <2>3
  <2>5. Spent[m - 1] \in Nat BY <2>1, <2>2, <2>3
  <2>6. Spent[m] = Spent[m - 1] + cost(m) /\ cost(m) \in Nat BY <1>1, <1>11, <2>4
  <2> QED BY <2>2, <2>5, <2>6
<1> QED BY <1>0, <1>11, <1>12 DEF cost

(* The prompt tokens of the first sessions and the budget left after them  *)
(* never exceed the budget by more than the one token owed when it is      *)
(* zero; until a session prefills, nothing is spent.                       *)
LEMMA SpentBound ==
  ASSUME active \in Seq(Session), Sessions
  PROVE  Spent[Len(active)] <= Greater(Budget, 1)
<1>0. PICK n \in Nat : n = Len(active) OBVIOUS
<1>1. PICK limit \in Nat : limit = Budget BY EngineAssumption DEF Budget, Greater
<1>2. Spent[0] = 0 /\ \A i \in 0 .. n : Spent[i] \in Nat BY <1>0, SpentFollows
<1>3. Left[0] = limit /\ \A i \in 0 .. n : Left[i] \in Nat BY <1>0, <1>1, LeftFollows
<1> DEFINE Balanced(i) == /\ Spent[i] + Left[i] <= Greater(limit, 1)
                          /\ (\A k \in 1 .. i : ~Prefilling(active[k])) => Spent[i] = 0 /\ Left[i] = limit
<1> DEFINE Bad == {i \in 0 .. n : ~Balanced(i)}
<1>4. Bad = {}
  <2> SUFFICES ASSUME Bad # {} PROVE FALSE OBVIOUS
  <2>1. PICK m \in Bad : \A k \in Bad : m <= k
    <3>1. Bad \in SUBSET Nat OBVIOUS
    <3> QED BY <3>1, Least
  <2>2. m \in 0 .. n /\ m \in Nat /\ ~Balanced(m) BY <2>1
  <2>3. m # 0 BY <1>1, <1>2, <1>3, <2>2 DEF Greater
  <2>4. m \in 1 .. n /\ m - 1 \in 0 .. n /\ m - 1 \in Nat BY <2>2, <2>3
  <2>5. Balanced(m - 1)
    <3>1. m - 1 \notin Bad BY <2>1, <2>4
    <3> QED BY <2>4, <3>1
  <2>6. PICK s \in Nat, l \in Nat : s = Spent[m - 1] /\ l = Left[m - 1] BY <1>2, <1>3, <2>4
  <2>7. \A k \in 1 .. m : k = m \/ k \in 1 .. m - 1 BY <2>2
  <2>8. m \in 1 .. Len(active) BY <1>0, <2>4
  <2>9. CASE ~Prefilling(active[m])
    <3>1. Spent[m] = s BY <1>0, <2>4, <2>6, <2>9, SpentFollows
    <3>2. Left[m] = l BY <1>0, <2>4, <2>6, <2>9, LeftFollows DEF LeftAfter
    <3> QED BY <2>2, <2>5, <2>6, <2>7, <3>1, <3>2
  <2>10. CASE Prefilling(active[m])
    <3>1. PICK take \in Nat : /\ take = Take(m, l)
                              /\ take <= IF FirstPrefill(m) THEN Greater(l, 1) ELSE l
      BY <2>8, <2>10, TakeBounds
    <3>2. PICK cost \in Nat : cost <= take /\ Spent[m] = s + cost
      <4>1. CASE m \in Chosen
        <5>1. Inputs(m) \in Nat /\ Inputs(m) <= take
          BY <2>6, <2>10, <3>1, <4>1, InputsBounded
        <5>2. Spent[m] = s + Inputs(m) BY <2>6, <2>8, <2>10, <4>1, SpentFollows
        <5> QED BY <5>1, <5>2
      <4>2. CASE m \notin Chosen
        <5>1. Spent[m] = s + 0 BY <2>6, <2>8, <4>2, SpentFollows
        <5> QED BY <5>1
      <4> QED BY <4>1, <4>2
    <3>3. Left[m] = Greater(l - take, 0) BY <2>6, <2>8, <2>10, <3>1, LeftFollows DEF LeftAfter
    <3>4. m \in 1 .. m BY <2>4
    <3>5. ~(\A k \in 1 .. m : ~Prefilling(active[k])) BY <2>10, <3>4
    <3>6. s + l <= Greater(limit, 1) BY <2>5, <2>6
    <3>7. FirstPrefill(m) => s = 0 /\ l = limit BY <2>5, <2>6 DEF FirstPrefill
    <3>8. s + cost + Greater(l - take, 0) <= Greater(limit, 1)
      <4>1. CASE FirstPrefill(m) BY <1>1, <3>1, <3>2, <3>7, <4>1 DEF Greater
      <4>2. CASE ~FirstPrefill(m) BY <1>1, <3>1, <3>2, <3>6, <4>2 DEF Greater
      <4> QED BY <4>1, <4>2
    <3> QED BY <2>2, <3>2, <3>3, <3>5, <3>8
  <2> QED BY <2>9, <2>10
<1>5. n \in 0 .. n /\ n \notin Bad BY <1>0, <1>4
<1>6. Balanced(n) BY <1>5
<1>7. PICK s \in Nat, l \in Nat : s = Spent[n] /\ l = Left[n] BY <1>2, <1>3, <1>5
<1>8. Greater(limit, 1) \in Nat BY DEF Greater
<1> QED BY <1>0, <1>1, <1>6, <1>7, <1>8

-----------------------------------------------------------------------------
(* Steps.                                                                  *)

(* The invariant holds when the engine starts. *)
THEOREM InitInv == Init => Inv
<1> SUFFICES ASSUME Init PROVE Inv OBVIOUS
<1>1. TypeOK BY DEF Init, TypeOK, NoState
<1>2. Sessions BY DEF Init, Sessions
<1>3. Once
  <2>1. \A s : ~InRx(s) /\ ~InActive(s) BY DEF Init, InRx, InActive
  <2>2. \A s \in Slot : Len(chan[s]) = 0 BY DEF Init
  <2>3. \A s \in Slot : ~HasResult(s) BY <2>2 DEF HasResult
  <2>4. Distinct BY DEF Init, Distinct
  <2> QED BY <2>1, <2>2, <2>3, <2>4 DEF Init, Once, Placed
<1>4. Remembered BY DEF Init, Remembered, InActive, NoState
<1> QED BY <1>1, <1>2, <1>3, <1>4 DEF Inv

(* Steps that change nothing but where the engine is. *)
LEMMA EngineMoves ==
  ASSUME Inv, UNCHANGED <<wpc, quiet, cancel, chan, rx, open, active, states, content, held>>,
         epc' \in {"recv", "drain", "cancel", "step", "retire", "exit"}, cursor' \in Nat \ {0}
  PROVE  Inv'
<1>1. TypeOK' BY DEF Inv, TypeOK
<1>2. Sessions' BY DEF Inv, Sessions, Sound
<1>3. Once' BY DEF Inv, Once, Distinct, Placed, InRx, InActive, HasResult
<1>4. Remembered' BY DEF Inv, Remembered, InActive
<1> QED BY <1>1, <1>2, <1>3, <1>4 DEF Inv

(* Steps that change sessions in their places, and perhaps their slots'    *)
(* channels without a result.                                              *)
LEMMA SessionsMoved ==
  ASSUME Inv, UNCHANGED <<wpc, quiet, cancel, rx, open, states, held>>,
         active' \in Seq(Session), Len(active') = Len(active),
         \A i \in 1 .. Len(active) : Sound(active[i])' /\ active'[i].slot = active[i].slot,
         \A i \in 1 .. Len(active) : ~active'[i].failed => content'[active[i].slot] = active'[i].fed,
         content' \in [Slot -> Int], \A s \in Slot : ~InActive(s) => content'[s] = content[s],
         chan' \in [Slot -> Seq(Event)],
         \A s \in Slot : HasResult(s)' <=> HasResult(s),
         \A s \in Slot : \A k \in 1 .. Len(chan'[s]) : chan'[s][k] # "piece" => k = Len(chan'[s]),
         epc' \in {"recv", "drain", "cancel", "step", "retire", "exit"}, cursor' \in Nat \ {0}
  PROVE  Inv'
<1>1. TypeOK' BY DEF Inv, TypeOK
<1>2. Sessions' BY DEF Sessions
<1>3. \A s : InActive(s)' <=> InActive(s) BY DEF InActive
<1>4. \A s : InRx(s)' <=> InRx(s) BY DEF InRx
<1>5. Distinct' BY DEF Inv, Once, Distinct
<1>6. ASSUME NEW s \in Slot PROVE Placed(s)'
  <2>1. Placed(s) BY DEF Inv, Once
  <2> QED BY <1>3, <1>4, <2>1 DEF Placed
<1>7. Remembered' BY <1>3 DEF Inv, Remembered
<1> QED BY <1>1, <1>2, <1>5, <1>6, <1>7 DEF Inv, Once

(* The worker's side of a channel and of a flag. *)
LEMMA WorkerMoves ==
  ASSUME Inv, UNCHANGED <<rx, open, engineVars>>,
         NEW s \in Slot, wpc[s] = "relay", NEW w \in {"relay", "idle"}, NEW q \in Seq(Event),
         wpc' = [wpc EXCEPT ![s] = w], quiet' \in [Slot -> BOOLEAN], cancel' \in [Slot -> BOOLEAN],
         chan' = [chan EXCEPT ![s] = q],
         \A k \in 1 .. Len(q) : q[k] # "piece" => k = Len(q),
         (\E k \in 1 .. Len(q) : q[k] # "piece") <=> HasResult(s) /\ w = "relay",
         w = "idle" => HasResult(s)
  PROVE  Inv'
<1>0. /\ wpc' \in [Slot -> {"idle", "relay", "gone"}] /\ wpc'[s] = w /\ \A t \in Slot : t # s => wpc'[t] = wpc[t]
      /\ chan' \in [Slot -> Seq(Event)] /\ chan'[s] = q /\ \A t \in Slot : t # s => chan'[t] = chan[t]
  BY DEF Inv, TypeOK
<1>1. TypeOK' BY <1>0 DEF Inv, TypeOK, engineVars
<1>2. Sessions' BY DEF Inv, Sessions, Sound, engineVars
<1>3. \A t : (InActive(t)' <=> InActive(t)) /\ (InRx(t)' <=> InRx(t)) BY DEF InActive, InRx, engineVars
<1>4. Distinct' BY DEF Inv, Once, Distinct, engineVars
<1>5. ASSUME NEW t \in Slot PROVE Placed(t)'
  <2>1. Placed(t) BY DEF Inv, Once
  <2>2. CASE t # s
    <3>1. HasResult(t)' <=> HasResult(t) BY <1>0, <2>2 DEF HasResult
    <3> QED BY <1>0, <1>3, <2>1, <2>2, <3>1 DEF Placed
  <2>3. CASE t = s
    <3>1. HasResult(s)' <=> HasResult(s) /\ w = "relay" BY <1>0 DEF HasResult
    <3> QED BY <1>0, <1>3, <2>1, <2>3, <3>1 DEF Placed
  <2> QED BY <2>2, <2>3
<1>6. Remembered' BY <1>3 DEF Inv, Remembered, engineVars
<1> QED BY <1>1, <1>2, <1>4, <1>5, <1>6 DEF Inv, Once

(* generate: the slot's worker had no request, so its new one is the only. *)
LEMMA SubmitKeeps == ASSUME Inv, NEW s \in Slot, Submit(s) PROVE Inv'
<1>0. /\ wpc[s] = "idle" /\ wpc' = [wpc EXCEPT ![s] = "relay"] /\ rx' = Append(rx, s) /\ rx \in Seq(Slot)
      /\ UNCHANGED <<quiet, cancel, chan, open, epc, cursor, active, states, content, held>>
  BY DEF Submit, engineVars, Inv, TypeOK
<1>1. TypeOK' BY <1>0 DEF Inv, TypeOK
<1>2. Sessions' BY <1>0 DEF Inv, Sessions, Sound
<1>3. ~InRx(s) /\ ~InActive(s) /\ ~HasResult(s) BY <1>0 DEF Inv, Once, Placed
<1>4. /\ Len(rx') = Len(rx) + 1 /\ Len(rx) \in Nat /\ rx'[Len(rx) + 1] = s
      /\ \A i \in 1 .. Len(rx) : rx'[i] = rx[i]
  BY <1>0
<1>5. InRx(s)' BY <1>4 DEF InRx
<1>6. \A t : t # s => (InRx(t)' <=> InRx(t)) BY <1>4 DEF InRx
<1>7. \A t : (InActive(t)' <=> InActive(t)) /\ (HasResult(t)' <=> HasResult(t))
  BY <1>0 DEF InActive, HasResult
<1>8. Distinct'
  <2>1. ASSUME NEW i \in 1 .. Len(rx'), NEW j \in 1 .. Len(rx'), rx'[i] = rx'[j] PROVE i = j
    <3>1. i <= Len(rx) => rx'[i] # s BY <1>3, <1>4 DEF InRx
    <3>2. j <= Len(rx) => rx'[j] # s BY <1>3, <1>4 DEF InRx
    <3>3. CASE i <= Len(rx) /\ j <= Len(rx)
      <4>1. i \in 1 .. Len(rx) /\ j \in 1 .. Len(rx) BY <1>4, <3>3
      <4> QED BY <1>4, <2>1, <4>1 DEF Inv, Once, Distinct
    <3>4. CASE ~(i <= Len(rx)) /\ ~(j <= Len(rx)) BY <1>4, <3>4
    <3> QED BY <1>4, <2>1, <3>1, <3>2, <3>3, <3>4
  <2> QED BY <1>0, <2>1 DEF Distinct, Inv, Once
<1>9. ASSUME NEW t \in Slot PROVE Placed(t)'
  <2>1. Placed(t) BY DEF Inv, Once
  <2>2. wpc'[s] = "relay" /\ (t # s => wpc'[t] = wpc[t]) BY <1>0 DEF Inv, TypeOK
  <2> QED BY <1>0, <1>3, <1>5, <1>6, <1>7, <2>1, <2>2 DEF Placed
<1>10. Remembered' BY <1>0, <1>7 DEF Inv, Remembered
<1> QED BY <1>1, <1>2, <1>8, <1>9, <1>10 DEF Inv, Once

(* A worker that breaks off keeps relaying; what it takes from its channel *)
(* is the first event, and the result is the last.                         *)
LEMMA RelayKeeps ==
  ASSUME Inv, NEW s \in Slot, PollBreak(s) \/ RelayPiece(s) \/ RelayDone(s)
  PROVE  Inv'
<1>0. /\ wpc[s] = "relay" /\ UNCHANGED <<rx, open, engineVars>> /\ wpc \in [Slot -> {"idle", "relay", "gone"}]
      /\ chan \in [Slot -> Seq(Event)] /\ chan[s] \in Seq(Event)
      /\ quiet \in [Slot -> BOOLEAN] /\ cancel \in [Slot -> BOOLEAN]
  BY DEF PollBreak, RelayPiece, RelayDone, Inv, TypeOK
<1>1. \A k \in 1 .. Len(chan[s]) : chan[s][k] # "piece" => k = Len(chan[s])
  BY DEF Inv, Once, Placed
<1>2. CASE PollBreak(s)
  <2>1. /\ wpc' = [wpc EXCEPT ![s] = "relay"] /\ chan' = [chan EXCEPT ![s] = chan[s]]
        /\ quiet' \in [Slot -> BOOLEAN] /\ cancel' \in [Slot -> BOOLEAN]
    BY <1>0, <1>2 DEF PollBreak, Break, AfterBreak
  <2>2. (\E k \in 1 .. Len(chan[s]) : chan[s][k] # "piece") <=> HasResult(s) /\ "relay" = "relay" BY DEF HasResult
  <2> QED BY <1>0, <1>1, <2>1, <2>2, WorkerMoves
<1>3. CASE RelayPiece(s)
  <2> DEFINE q == Tail(chan[s])
  <2>1. /\ wpc' = [wpc EXCEPT ![s] = "relay"] /\ chan' = [chan EXCEPT ![s] = q]
        /\ quiet' \in [Slot -> BOOLEAN] /\ cancel' \in [Slot -> BOOLEAN]
    BY <1>0, <1>3 DEF RelayPiece, Break, AfterBreak, workerVars
  <2>2. chan[s] # <<>> /\ Head(chan[s]) = "piece" BY <1>3 DEF RelayPiece
  <2>3. /\ q \in Seq(Event) /\ Len(q) = Len(chan[s]) - 1 /\ chan[s][1] = "piece" /\ Len(chan[s]) \in Nat
        /\ Len(chan[s]) > 0
        /\ \A k \in 1 .. Len(q) : q[k] = chan[s][k + 1]
    BY <1>0, <2>2
  <2> HIDE DEF q
  <2>4. \A k \in 1 .. Len(q) : q[k] # "piece" => k = Len(q)
    <3> SUFFICES ASSUME NEW k \in 1 .. Len(q), q[k] # "piece" PROVE k = Len(q) OBVIOUS
    <3>1. k + 1 \in 1 .. Len(chan[s]) /\ chan[s][k + 1] # "piece" BY <2>3
    <3>2. k + 1 = Len(chan[s]) BY <1>1, <3>1
    <3> QED BY <2>3, <3>2
  <2>5. (\E k \in 1 .. Len(q) : q[k] # "piece") <=> HasResult(s)
    <3>1. ASSUME NEW k \in 1 .. Len(q), q[k] # "piece" PROVE HasResult(s)
      <4>1. k + 1 \in 1 .. Len(chan[s]) /\ chan[s][k + 1] # "piece" BY <2>3, <3>1
      <4> QED BY <4>1 DEF HasResult
    <3>2. ASSUME NEW k \in 1 .. Len(chan[s]), chan[s][k] # "piece" PROVE \E m \in 1 .. Len(q) : q[m] # "piece"
      <4>1. k # 1 /\ k - 1 \in 1 .. Len(q) BY <2>3, <3>2
      <4>2. q[k - 1] = chan[s][k] BY <2>3, <4>1
      <4> QED BY <3>2, <4>1, <4>2
    <3> QED BY <3>1, <3>2 DEF HasResult
  <2> QED BY <1>0, <2>1, <2>3, <2>4, <2>5, WorkerMoves
<1>4. CASE RelayDone(s)
  <2> DEFINE q == << >>
  <2>1. /\ wpc' = [wpc EXCEPT ![s] = "idle"] /\ chan' = [chan EXCEPT ![s] = q]
        /\ quiet' \in [Slot -> BOOLEAN] /\ cancel' \in [Slot -> BOOLEAN]
    BY <1>0, <1>4 DEF RelayDone
  <2>2. chan[s] # <<>> /\ Head(chan[s]) # "piece" BY <1>4 DEF RelayDone
  <2>3. HasResult(s)
    <3>1. 1 \in 1 .. Len(chan[s]) /\ chan[s][1] # "piece" BY <1>0, <2>2
    <3> QED BY <3>1 DEF HasResult
  <2>4. q \in Seq(Event) /\ Len(q) = 0 OBVIOUS
  <2> HIDE DEF q
  <2>5. ~\E k \in 1 .. Len(q) : q[k] # "piece" BY <2>4
  <2> QED BY <1>0, <2>1, <2>3, <2>4, <2>5, WorkerMoves
<1> QED BY <1>2, <1>3, <1>4

(* The runner is dropped when no worker is inside generate. *)
LEMMA DropKeeps == ASSUME Inv, Drop PROVE Inv'
<1>0. /\ \A s \in Slot : wpc[s] = "idle"
      /\ wpc' = [t \in Slot |-> "gone"] /\ open' = FALSE
      /\ UNCHANGED <<quiet, cancel, chan, rx, epc, cursor, active, states, content, held>>
  BY DEF Drop, engineVars
<1>1. TypeOK'
  <2>1. wpc' \in [Slot -> {"idle", "relay", "gone"}] BY DEF Drop
  <2> QED BY <1>0, <2>1 DEF Inv, TypeOK, Drop
<1>2. Sessions' BY DEF Inv, Sessions, Sound, Drop, engineVars
<1>3. \A t \in Slot : (InActive(t)' <=> InActive(t)) /\ (HasResult(t)' <=> HasResult(t)) /\ (InRx(t)' <=> InRx(t))
  BY DEF InActive, HasResult, InRx, Drop, engineVars
<1>4. Distinct' BY DEF Inv, Once, Distinct, Drop, engineVars
<1>5. ASSUME NEW t \in Slot PROVE Placed(t)'
  <2>1. Placed(t) /\ wpc[t] = "idle" BY <1>0 DEF Inv, Once
  <2>2. wpc'[t] = "gone" /\ chan' = chan BY <1>0
  <2> QED BY <1>3, <2>1, <2>2 DEF Placed
<1>6. Remembered' BY <1>3 DEF Inv, Remembered, Drop, engineVars
<1> QED BY <1>1, <1>2, <1>4, <1>5, <1>6 DEF Inv, Once

(* One result ends a channel that had none. *)
LEMMA ResultAppended ==
  ASSUME NEW q \in Seq(Event), \A k \in 1 .. Len(q) : q[k] = "piece", NEW e \in {"ok", "err"}
  PROVE  /\ Append(q, e) \in Seq(Event)
         /\ \E k \in 1 .. Len(Append(q, e)) : Append(q, e)[k] # "piece"
         /\ \A k \in 1 .. Len(Append(q, e)) : Append(q, e)[k] # "piece" => k = Len(Append(q, e))
<1> DEFINE r == Append(q, e)
<1>1. /\ r \in Seq(Event) /\ Len(r) = Len(q) + 1 /\ Len(q) \in Nat /\ r[Len(r)] = e
      /\ \A k \in 1 .. Len(q) : r[k] = "piece"
  BY DEF Event
<1> HIDE DEF r
<1>2. \A k \in 1 .. Len(r) : r[k] # "piece" => k = Len(r) BY <1>1
<1>3. Len(r) \in 1 .. Len(r) /\ r[Len(r)] # "piece" BY <1>1
<1> QED BY <1>1, <1>2, <1>3 DEF r

(* admit: the slot of a received request has no session, since a request   *)
(* is in one place only; it starts one, or is answered at once.            *)
LEMMA AdmitKeeps ==
  ASSUME Inv, rx # <<>>, Admit, UNCHANGED <<wpc, quiet, cancel, open, cursor>>,
         epc' \in {"recv", "drain", "cancel", "step", "retire", "exit"}
  PROVE  Inv'
<1>p. PICK s \in Slot : s = Head(rx) BY DEF Inv, TypeOK
<1>0. /\ rx \in Seq(Slot) /\ s \in Slot /\ s = rx[1] /\ Len(rx) \in Nat /\ Len(rx) > 0
      /\ rx' = Tail(rx) /\ rx' \in Seq(Slot) /\ Len(rx') = Len(rx) - 1
      /\ \A i \in 1 .. Len(rx') : rx'[i] = rx[i + 1]
      /\ chan \in [Slot -> Seq(Event)] /\ active \in Seq(Session) /\ Len(active) \in Nat
      /\ states \in [Slot -> Int] /\ content \in [Slot -> Int] /\ held \in [Slot -> Int]
  BY <1>p DEF Inv, TypeOK, Admit
<1>1. InRx(s)
  <2>1. 1 \in 1 .. Len(rx) /\ rx[1] = s BY <1>0
  <2> QED BY <2>1 DEF InRx
<1>2. wpc[s] = "relay" /\ ~InActive(s) /\ ~HasResult(s) BY <1>0, <1>1 DEF Inv, Once, Placed
<1>3. s \notin ActiveSlots BY <1>2 DEF ActiveSlots, InActive
<1>4. /\ held' = [held EXCEPT ![s] = 0] /\ states' = [states EXCEPT ![s] = NoState]
      /\ \/ \E a \in Starting(s) : /\ active' = Append(active, a)
                                   /\ content' = [content EXCEPT ![s] = a.fed]
                                   /\ chan' = chan
         \/ /\ chan' = [chan EXCEPT ![s] = Append(chan[s], "err")]
            /\ content' = [content EXCEPT ![s] = 0]
            /\ active' = active
  BY <1>3, <1>p DEF Admit
<1>5. \A t \in Slot : t # s => (InRx(t)' <=> InRx(t))
  <2>1. ASSUME NEW t \in Slot, t # s, NEW i \in 1 .. Len(rx), rx[i] = t PROVE InRx(t)'
    <3>1. i # 1 /\ i - 1 \in 1 .. Len(rx') BY <1>0, <2>1
    <3>2. rx'[i - 1] = t BY <1>0, <2>1, <3>1
    <3> QED BY <3>1, <3>2 DEF InRx
  <2>2. ASSUME NEW t \in Slot, NEW i \in 1 .. Len(rx'), rx'[i] = t PROVE InRx(t)
    <3>1. i + 1 \in 1 .. Len(rx) /\ rx[i + 1] = t BY <1>0, <2>2
    <3> QED BY <3>1 DEF InRx
  <2> QED BY <2>1, <2>2 DEF InRx
<1>6. \A i, j \in 1 .. Len(rx) : rx[i] = rx[j] => i = j BY DEF Inv, Once, Distinct
<1>7. ~InRx(s)'
  <2> SUFFICES ASSUME NEW i \in 1 .. Len(rx'), rx'[i] = s PROVE FALSE BY DEF InRx
  <2>1. i + 1 \in 1 .. Len(rx) /\ 1 \in 1 .. Len(rx) /\ rx[i + 1] = rx[1] BY <1>0
  <2> QED BY <1>6, <2>1
<1>8. \A i, j \in 1 .. Len(rx') : rx'[i] = rx'[j] => i = j
  <2> SUFFICES ASSUME NEW i \in 1 .. Len(rx'), NEW j \in 1 .. Len(rx'), rx'[i] = rx'[j] PROVE i = j OBVIOUS
  <2>1. i + 1 \in 1 .. Len(rx) /\ j + 1 \in 1 .. Len(rx) /\ rx[i + 1] = rx[j + 1] BY <1>0
  <2>2. i + 1 = j + 1 BY <1>6, <2>1
  <2> QED BY <2>2
<1>9. /\ held'[s] = 0 /\ states'[s] = NoState /\ held' \in [Slot -> Int] /\ states' \in [Slot -> Int]
      /\ \A t \in Slot : t # s => held'[t] = held[t] /\ states'[t] = states[t]
  BY <1>0, <1>4 DEF NoState
<1>10. CASE \E a \in Starting(s) : /\ active' = Append(active, a)
                                   /\ content' = [content EXCEPT ![s] = a.fed]
                                   /\ chan' = chan
  <2>1. PICK a \in Starting(s) : /\ active' = Append(active, a)
                                 /\ content' = [content EXCEPT ![s] = a.fed]
                                 /\ chan' = chan
    BY <1>10
  <2>2. a \in Session /\ Sound(a) /\ a.slot = s /\ a.fed \in Nat BY <1>0, StartSound
  <2>3. /\ active' \in Seq(Session) /\ Len(active') = Len(active) + 1 /\ active'[Len(active) + 1] = a
        /\ \A i \in 1 .. Len(active) : active'[i] = active[i]
        /\ content' \in [Slot -> Int] /\ content'[s] = a.fed
        /\ \A t \in Slot : t # s => content'[t] = content[t]
    BY <1>0, <2>1, <2>2
  <2>4. TypeOK' BY <1>0, <1>9, <2>1, <2>3 DEF Inv, TypeOK
  <2>5. Sessions'
    <3> SUFFICES ASSUME NEW i \in 1 .. Len(active') PROVE Sound(active'[i]) BY DEF Sessions, Sound
    <3>1. CASE i = Len(active) + 1 BY <2>2, <2>3, <3>1
    <3>2. CASE i # Len(active) + 1
      <4>1. i \in 1 .. Len(active) BY <1>0, <2>3, <3>2
      <4> QED BY <2>3, <4>1 DEF Inv, Sessions
    <3> QED BY <3>1, <3>2
  <2>6. InActive(s)'
    <3>1. Len(active) + 1 \in 1 .. Len(active') BY <1>0, <2>3
    <3> QED BY <2>2, <2>3, <3>1 DEF InActive
  <2>7. \A t : t # s => (InActive(t)' <=> InActive(t))
    <3>1. ASSUME NEW t, t # s, NEW i \in 1 .. Len(active'), active'[i].slot = t PROVE InActive(t)
      <4>1. i # Len(active) + 1 BY <2>2, <2>3, <3>1
      <4>2. i \in 1 .. Len(active) BY <1>0, <2>3, <4>1
      <4> QED BY <2>3, <3>1, <4>2 DEF InActive
    <3>2. ASSUME NEW t, NEW i \in 1 .. Len(active), active[i].slot = t PROVE InActive(t)'
      <4>1. i \in 1 .. Len(active') /\ active'[i].slot = t BY <1>0, <2>3, <3>2
      <4> QED BY <4>1 DEF InActive
    <3> QED BY <3>1, <3>2 DEF InActive
  <2>8. \A t \in Slot : HasResult(t)' <=> HasResult(t) BY <2>1 DEF HasResult
  <2>9. \A i, j \in 1 .. Len(active') : active'[i].slot = active'[j].slot => i = j
    <3>1. \A i \in 1 .. Len(active) : active'[i].slot # s BY <1>2, <2>3 DEF InActive
    <3>2. \A i, j \in 1 .. Len(active) : active'[i].slot = active'[j].slot => i = j
      BY <2>3 DEF Inv, Once, Distinct
    <3>3. \A i \in 1 .. Len(active') : i \in 1 .. Len(active) \/ (i = Len(active) + 1 /\ active'[i].slot = s)
      BY <1>0, <2>2, <2>3
    <3> QED BY <3>1, <3>2, <3>3
  <2>10. ASSUME NEW t \in Slot PROVE Placed(t)'
    <3>1. Placed(t) BY DEF Inv, Once
    <3> QED BY <1>2, <1>5, <1>7, <2>1, <2>6, <2>7, <2>8, <3>1 DEF Placed
  <2>11. Remembered'
    <3>1. \A t \in Slot : ~InActive(t)' =>
            /\ held'[t] = IF states'[t] = NoState THEN 0 ELSE states'[t]
            /\ states'[t] # NoState => content'[t] = states'[t]
      BY <1>9, <2>3, <2>6, <2>7 DEF Inv, Remembered
    <3>2. \A t \in Slot : InActive(t)' => held'[t] = 0 /\ states'[t] = NoState
      BY <1>9, <2>7 DEF Inv, Remembered
    <3>3. ASSUME NEW i \in 1 .. Len(active'), ~active'[i].failed PROVE content'[active'[i].slot] = active'[i].fed
      <4>1. CASE i = Len(active) + 1 BY <2>2, <2>3, <4>1
      <4>2. CASE i # Len(active) + 1
        <5>1. i \in 1 .. Len(active) BY <1>0, <2>3, <4>2
        <5>2. active[i].slot \in Slot /\ active[i].slot # s
          <6>1. active[i] \in Session BY <1>0, <5>1
          <6> QED BY <1>2, <5>1, <6>1 DEF InActive, Session
        <5> QED BY <2>3, <3>3, <5>1, <5>2 DEF Inv, Remembered
      <4> QED BY <4>1, <4>2
    <3> QED BY <3>1, <3>2, <3>3 DEF Remembered
  <2> QED BY <1>8, <2>4, <2>5, <2>9, <2>10, <2>11 DEF Inv, Once, Distinct
<1>11. CASE /\ chan' = [chan EXCEPT ![s] = Append(chan[s], "err")]
            /\ content' = [content EXCEPT ![s] = 0]
            /\ active' = active
  <2> DEFINE q == Append(chan[s], "err")
  <2>1. chan[s] \in Seq(Event) /\ \A k \in 1 .. Len(chan[s]) : chan[s][k] = "piece"
    BY <1>0, <1>2 DEF HasResult
  <2>2. /\ q \in Seq(Event) /\ \E k \in 1 .. Len(q) : q[k] # "piece"
        /\ \A k \in 1 .. Len(q) : q[k] # "piece" => k = Len(q)
    BY <2>1, ResultAppended
  <2> HIDE DEF q
  <2>3. /\ chan' \in [Slot -> Seq(Event)] /\ chan'[s] = q /\ \A t \in Slot : t # s => chan'[t] = chan[t]
        /\ content' \in [Slot -> Int] /\ \A t \in Slot : t # s => content'[t] = content[t]
    BY <1>0, <1>11, <2>2 DEF q
  <2>4. TypeOK' BY <1>0, <1>9, <1>11, <2>3 DEF Inv, TypeOK
  <2>5. Sessions' BY <1>11 DEF Inv, Sessions, Sound
  <2>6. \A t : InActive(t)' <=> InActive(t) BY <1>11 DEF InActive
  <2>7. HasResult(s)' /\ \A t \in Slot : t # s => (HasResult(t)' <=> HasResult(t)) BY <2>2, <2>3 DEF HasResult
  <2>8. ASSUME NEW t \in Slot PROVE Placed(t)'
    <3>1. Placed(t) BY DEF Inv, Once
    <3>2. CASE t = s BY <1>2, <1>7, <2>2, <2>3, <2>6, <2>7, <3>2 DEF Placed
    <3>3. CASE t # s BY <1>5, <2>3, <2>6, <2>7, <3>1, <3>3 DEF Placed
    <3> QED BY <3>2, <3>3
  <2>9. Remembered'
    <3>1. \A i \in 1 .. Len(active) : active[i].slot \in Slot /\ active[i].slot # s
      <4> SUFFICES ASSUME NEW i \in 1 .. Len(active) PROVE active[i].slot \in Slot /\ active[i].slot # s OBVIOUS
      <4>1. active[i] \in Session BY <1>0
      <4> QED BY <1>2, <4>1 DEF InActive, Session
    <3>2. \A i \in 1 .. Len(active) : ~active[i].failed => content'[active[i].slot] = active[i].fed
      BY <2>3, <3>1 DEF Inv, Remembered
    <3>3. \A t \in Slot : ~InActive(t)' =>
            /\ held'[t] = IF states'[t] = NoState THEN 0 ELSE states'[t]
            /\ states'[t] # NoState => content'[t] = states'[t]
      <4> SUFFICES ASSUME NEW t \in Slot, ~InActive(t)
          PROVE /\ held'[t] = IF states'[t] = NoState THEN 0 ELSE states'[t]
                /\ states'[t] # NoState => content'[t] = states'[t]
        BY <2>6
      <4>1. CASE t = s BY <1>9, <4>1
      <4>2. CASE t # s BY <1>9, <2>3, <4>2 DEF Inv, Remembered
      <4> QED BY <4>1, <4>2
    <3>4. \A t \in Slot : InActive(t)' => held'[t] = 0 /\ states'[t] = NoState
      <4> SUFFICES ASSUME NEW t \in Slot, InActive(t) PROVE held'[t] = 0 /\ states'[t] = NoState BY <2>6
      <4>1. t # s BY <1>2
      <4> QED BY <1>9, <4>1 DEF Inv, Remembered
    <3> QED BY <1>11, <3>2, <3>3, <3>4 DEF Remembered
  <2> QED BY <1>8, <1>11, <2>4, <2>5, <2>8, <2>9 DEF Inv, Once, Distinct
<1> QED BY <1>4, <1>10, <1>11

(* Cancel flags abort sessions in their places. *)
LEMMA CancelKeeps == ASSUME Inv, ApplyCancel PROVE Inv'
<1>0. /\ active \in Seq(Session) /\ Len(active) \in Nat
      /\ active' = [i \in 1 .. Len(active) |-> IF cancel[active[i].slot] THEN Aborted(active[i]) ELSE active[i]]
      /\ epc' = "step" /\ UNCHANGED <<wpc, quiet, cancel, chan, rx, open, cursor, states, content, held>>
  BY DEF ApplyCancel, workerVars, Inv, TypeOK
<1>1. ASSUME NEW i \in 1 .. Len(active)
      PROVE  /\ active'[i] \in Session /\ Sound(active'[i]) /\ active'[i].slot = active[i].slot
             /\ active'[i].fed = active[i].fed /\ active'[i].failed = active[i].failed
  <2>1. active[i] \in Session /\ Sound(active[i]) BY <1>0 DEF Inv, Sessions
  <2>2. active'[i] = Aborted(active[i]) \/ active'[i] = active[i] BY <1>0
  <2> QED BY <2>1, <2>2, AbortSound
<1>2. active' \in Seq(Session) /\ Len(active') = Len(active) BY <1>0, <1>1
<1>3. \A i \in 1 .. Len(active) : Sound(active[i])' BY <1>1 DEF Sound
<1>4. \A i \in 1 .. Len(active) : ~active'[i].failed => content'[active[i].slot] = active'[i].fed
  BY <1>0, <1>1 DEF Inv, Remembered
<1>5. \A s \in Slot : HasResult(s)' <=> HasResult(s) BY <1>0 DEF HasResult
<1>6. \A s \in Slot : \A k \in 1 .. Len(chan'[s]) : chan'[s][k] # "piece" => k = Len(chan'[s])
  BY <1>0 DEF Inv, Once, Placed
<1>7. content' \in [Slot -> Int] /\ chan' \in [Slot -> Seq(Event)] /\ cursor' \in Nat \ {0}
  BY <1>0 DEF Inv, TypeOK
<1> QED BY <1>0, <1>1, <1>2, <1>3, <1>4, <1>5, <1>6, <1>7, SessionsMoved

(* A function on 1 .. n is a sequence. *)
LEMMA SequenceOf ==
  ASSUME NEW S, NEW n \in Nat, NEW f, f = [i \in 1 .. n |-> f[i]], \A i \in 1 .. n : f[i] \in S
  PROVE  f \in Seq(S) /\ Len(f) = n
<1>1. f \in [1 .. n -> S] OBVIOUS
<1>2. f \in Seq(S) BY <1>1
<1>3. DOMAIN f = 1 .. n BY <1>1
<1> QED BY <1>2, <1>3, LenProperties

(* A step feeds each chosen session what its state is fed, or fails them   *)
(* all; the others stay as they are.                                       *)
LEMMA StepKeeps == ASSUME Inv, Step PROVE Inv'
<1>0. /\ active \in Seq(Session) /\ Len(active) \in Nat /\ Sessions /\ content \in [Slot -> Int]
      /\ epc' = "retire" /\ cursor' = 1 /\ UNCHANGED <<wpc, quiet, cancel, chan, rx, open, states, held>>
  BY DEF Step, workerVars, Inv, TypeOK
<1>1. \A i \in Chosen : i \in 1 .. Len(active) BY DEF Chosen
<1>2. \A i, j \in 1 .. Len(active) : active[i].slot = active[j].slot => i = j BY DEF Inv, Once, Distinct
<1>3. \A i \in 1 .. Len(active) : active[i] \in Session /\ Sound(active[i]) /\ active[i].slot \in Slot
  <2> SUFFICES ASSUME NEW i \in 1 .. Len(active)
      PROVE active[i] \in Session /\ Sound(active[i]) /\ active[i].slot \in Slot OBVIOUS
  <2>1. active[i] \in Session BY <1>0
  <2> QED BY <1>0, <2>1 DEF Sessions, Session
<1>4. \A i \in 1 .. Len(active) : ~active[i].failed => content[active[i].slot] = active[i].fed
  BY DEF Inv, Remembered
<1>5. \A s \in Slot : HasResult(s)' <=> HasResult(s) BY <1>0 DEF HasResult
<1>6. \A s \in Slot : \A k \in 1 .. Len(chan'[s]) : chan'[s][k] # "piece" => k = Len(chan'[s])
  BY <1>0 DEF Inv, Once, Placed
<1>7. chan' \in [Slot -> Seq(Event)] BY <1>0 DEF Inv, TypeOK
<1>8. ASSUME /\ \A i \in 1 .. Len(active) :
                  /\ active'[i] \in Session /\ Sound(active'[i]) /\ active'[i].slot = active[i].slot
                  /\ ~active'[i].failed => content'[active[i].slot] = active'[i].fed
             /\ active' = [i \in 1 .. Len(active) |-> active'[i]]
             /\ content' \in [Slot -> Int]
             /\ \A s \in Slot : ~InActive(s) => content'[s] = content[s]
      PROVE  Inv'
  <2>0. \A i \in 1 .. Len(active) : active'[i] \in Session BY <1>8
  <2>1. active' \in Seq(Session) /\ Len(active') = Len(active) BY <1>0, <1>8, <2>0, SequenceOf
  <2>2. \A i \in 1 .. Len(active) : Sound(active[i])' BY <1>8 DEF Sound
  <2> QED BY <1>0, <1>5, <1>6, <1>7, <1>8, <2>1, <2>2, SessionsMoved
<1>9. CASE \E outcome \in [Chosen -> Outcome] :
             /\ active' = [i \in 1 .. Len(active) |->
                  IF i \in Chosen THEN Fed(active[i], Inputs(i), outcome[i]) ELSE active[i]]
             /\ content' = [s \in Slot |->
                  IF \E i \in Chosen : active[i].slot = s
                  THEN content[s] + Inputs(CHOOSE i \in Chosen : active[i].slot = s)
                  ELSE content[s]]
  <2>1. PICK outcome \in [Chosen -> Outcome] :
          active' = [i \in 1 .. Len(active) |->
            IF i \in Chosen THEN Fed(active[i], Inputs(i), outcome[i]) ELSE active[i]]
    BY <1>9
  <2>2. content' = [s \in Slot |->
          IF \E i \in Chosen : active[i].slot = s
          THEN content[s] + Inputs(CHOOSE i \in Chosen : active[i].slot = s)
          ELSE content[s]]
    BY <1>9
  <2>3. ASSUME NEW i \in Chosen PROVE content'[active[i].slot] = content[active[i].slot] + Inputs(i)
    <3> DEFINE c == CHOOSE j \in Chosen : active[j].slot = active[i].slot
    <3>1. c \in Chosen /\ active[c].slot = active[i].slot OBVIOUS
    <3>2. c = i BY <1>1, <1>2, <3>1
    <3>3. content'[active[i].slot] = content[active[i].slot] + Inputs(c) BY <1>1, <1>3, <2>2
    <3> QED BY <3>2, <3>3
  <2>4. ASSUME NEW i \in Chosen
        PROVE  /\ active'[i] \in Session /\ Sound(active'[i]) /\ active'[i].slot = active[i].slot
               /\ ~active'[i].failed => content'[active[i].slot] = active'[i].fed
               /\ Inputs(i) \in Nat
    <3>1. active'[i] = Fed(active[i], Inputs(i), outcome[i]) BY <1>1, <2>1
    <3>2. outcome[i] \in Outcome OBVIOUS
    <3>3. /\ active[i] \in Session /\ Sound(active[i]) /\ Unfinished(active[i])
          /\ Inputs(i) \in Nat \ {0}
          /\ active[i].decoding => Inputs(i) = 1
          /\ ~active[i].decoding =>
               /\ active[i].fed + Inputs(i) <= active[i].len
               /\ \A p \in active[i].pauses : p > active[i].fed => p >= active[i].fed + Inputs(i)
      BY <1>0, InputsSound
    <3> DEFINE f == Fed(active[i], Inputs(i), outcome[i])
    <3>4. /\ f \in Session /\ Sound(f) /\ f.slot = active[i].slot
          /\ ~f.failed => f.fed = active[i].fed + Inputs(i)
      BY <3>2, <3>3, FeedSound
    <3>5. ~active[i].failed BY <3>3 DEF Sound, Unfinished
    <3>6. content[active[i].slot] = active[i].fed BY <1>1, <1>4, <3>5
    <3> HIDE DEF f
    <3>7. active'[i] = f BY <3>1 DEF f
    <3> QED BY <2>3, <3>3, <3>4, <3>6, <3>7
  <2>5. ASSUME NEW i \in 1 .. Len(active), i \notin Chosen
        PROVE  /\ active'[i] \in Session /\ Sound(active'[i]) /\ active'[i].slot = active[i].slot
               /\ ~active'[i].failed => content'[active[i].slot] = active'[i].fed
    <3>1. active'[i] = active[i] BY <2>1, <2>5
    <3>2. ~\E j \in Chosen : active[j].slot = active[i].slot BY <1>1, <1>2, <2>5
    <3>3. content'[active[i].slot] = content[active[i].slot] BY <1>3, <2>2, <3>2
    <3> QED BY <1>3, <1>4, <3>1, <3>3
  <2>6. content' \in [Slot -> Int]
    <3> SUFFICES ASSUME NEW s \in Slot
        PROVE (IF \E i \in Chosen : active[i].slot = s
               THEN content[s] + Inputs(CHOOSE i \in Chosen : active[i].slot = s)
               ELSE content[s]) \in Int
      BY <2>2
    <3>1. CASE \E i \in Chosen : active[i].slot = s
      <4> DEFINE c == CHOOSE i \in Chosen : active[i].slot = s
      <4>1. c \in Chosen BY <3>1
      <4>2. Inputs(c) \in Nat BY <2>4, <4>1
      <4> QED BY <1>0, <3>1, <4>2
    <3>2. CASE ~\E i \in Chosen : active[i].slot = s BY <1>0, <3>2
    <3> QED BY <3>1, <3>2
  <2>7. \A s \in Slot : ~InActive(s) => content'[s] = content[s] BY <1>1, <2>2 DEF InActive
  <2>8. active' = [i \in 1 .. Len(active) |-> active'[i]] BY <2>1
  <2> QED BY <1>8, <2>4, <2>5, <2>6, <2>7, <2>8
<1>10. CASE /\ active' = [i \in 1 .. Len(active) |-> IF i \in Chosen THEN Failed(active[i]) ELSE active[i]]
            /\ content' = [s \in Slot |-> IF \E i \in Chosen : active[i].slot = s THEN Garbage ELSE content[s]]
  <2>1. ASSUME NEW i \in 1 .. Len(active)
        PROVE  /\ active'[i] \in Session /\ Sound(active'[i]) /\ active'[i].slot = active[i].slot
               /\ ~active'[i].failed => content'[active[i].slot] = active'[i].fed
    <3>1. CASE i \in Chosen
      <4>1. active'[i] = Failed(active[i]) BY <1>10, <3>1
      <4>2. 0 \in 0 .. 1 OBVIOUS
      <4>3. /\ Failed(active[i]) \in Session /\ Sound(Failed(active[i]))
            /\ Failed(active[i]).slot = active[i].slot /\ Failed(active[i]).failed
        BY <1>3, <4>2, FailSound
      <4> QED BY <4>1, <4>3
    <3>2. CASE i \notin Chosen
      <4>1. active'[i] = active[i] BY <1>10, <3>2
      <4>2. ~\E j \in Chosen : active[j].slot = active[i].slot BY <1>1, <1>2, <3>2
      <4>3. content'[active[i].slot] = content[active[i].slot] BY <1>3, <1>10, <4>2
      <4> QED BY <1>3, <1>4, <4>1, <4>3
    <3> QED BY <3>1, <3>2
  <2>2. content' \in [Slot -> Int] BY <1>0, <1>10 DEF Garbage
  <2>3. \A s \in Slot : ~InActive(s) => content'[s] = content[s] BY <1>1, <1>10 DEF InActive
  <2>4. active' = [i \in 1 .. Len(active) |-> active'[i]] BY <1>10
  <2> QED BY <1>8, <2>1, <2>2, <2>3, <2>4
<1> QED BY <1>9, <1>10 DEF Step

(* A session's pieces follow those of a channel that has no result yet. *)
LEMMA PiecesAppended ==
  ASSUME NEW q \in Seq(Event), \A k \in 1 .. Len(q) : q[k] = "piece", NEW a \in Session
  PROVE  /\ q \o Pieces(a) \in Seq(Event)
         /\ \A k \in 1 .. Len(q \o Pieces(a)) : (q \o Pieces(a))[k] = "piece"
<1> DEFINE p == Pieces(a)
<1>1. a.pieces \in Nat BY DEF Session
<1>2. p = [k \in 1 .. a.pieces |-> "piece"] BY DEF Pieces
<1>3. "piece" \in Event BY DEF Event
<1> HIDE DEF p
<1>4. p \in Seq(Event) /\ Len(p) = a.pieces
  <2>1. p = [k \in 1 .. a.pieces |-> p[k]] /\ \A k \in 1 .. a.pieces : p[k] \in Event BY <1>1, <1>2, <1>3
  <2> QED BY <1>1, <2>1, SequenceOf
<1>5. \A k \in 1 .. Len(p) : p[k] = "piece" BY <1>2, <1>4
<1> DEFINE r == q \o p
<1>6. /\ r \in Seq(Event) /\ Len(r) = Len(q) + Len(p) /\ Len(q) \in Nat /\ Len(p) \in Nat
      /\ \A k \in 1 .. Len(r) : r[k] = IF k <= Len(q) THEN q[k] ELSE p[k - Len(q)]
  BY <1>4
<1> HIDE DEF r
<1>7. ASSUME NEW k \in 1 .. Len(r) PROVE r[k] = "piece"
  <2>1. CASE k <= Len(q) BY <1>6, <2>1
  <2>2. CASE ~(k <= Len(q))
    <3>1. k - Len(q) \in 1 .. Len(p) BY <1>6, <2>2
    <3> QED BY <1>5, <1>6, <2>2, <3>1
  <2> QED BY <2>1, <2>2
<1> QED BY <1>6, <1>7 DEF p, r

(* The session the retire loop looks at, its slot and its channel. *)
LEMMA AtCursor ==
  ASSUME Inv, cursor <= Len(active)
  PROVE  /\ cursor \in 1 .. Len(active) /\ active \in Seq(Session) /\ Len(active) \in Nat
         /\ active[cursor] \in Session /\ Sound(active[cursor])
         /\ active[cursor].slot \in Slot /\ InActive(active[cursor].slot)
         /\ chan[active[cursor].slot] \in Seq(Event)
         /\ \A k \in 1 .. Len(chan[active[cursor].slot]) : chan[active[cursor].slot][k] = "piece"
         /\ wpc[active[cursor].slot] = "relay"
<1>1. /\ cursor \in 1 .. Len(active) /\ active \in Seq(Session) /\ Len(active) \in Nat
      /\ chan \in [Slot -> Seq(Event)]
  BY DEF Inv, TypeOK
<1>2. active[cursor] \in Session /\ Sound(active[cursor]) BY <1>1 DEF Inv, Sessions
<1>3. active[cursor].slot \in Slot BY <1>2 DEF Session
<1>4. InActive(active[cursor].slot) BY <1>1 DEF InActive
<1>5. Placed(active[cursor].slot) BY <1>3 DEF Inv, Once
<1>6. wpc[active[cursor].slot] = "relay" /\ ~HasResult(active[cursor].slot) BY <1>4, <1>5 DEF Placed
<1>7. \A k \in 1 .. Len(chan[active[cursor].slot]) : chan[active[cursor].slot][k] = "piece"
  BY <1>6 DEF HasResult
<1> QED BY <1>1, <1>2, <1>3, <1>4, <1>6, <1>7

(* A session that goes on sends its pieces, which are no result. *)
LEMMA StreamKeeps ==
  ASSUME Inv, cursor <= Len(active), StreamOnly, UNCHANGED <<wpc, quiet, cancel, rx, open, epc>>
  PROVE  Inv'
<1>p. PICK a \in Session, s \in Slot, n \in 1 .. Len(active) : a = active[cursor] /\ s = a.slot /\ n = cursor
  BY AtCursor
<1> DEFINE q == chan[s] \o Pieces(a)
<1>0. /\ active \in Seq(Session) /\ Len(active) \in Nat /\ Sound(a) /\ InActive(s)
      /\ chan[s] \in Seq(Event) /\ \A k \in 1 .. Len(chan[s]) : chan[s][k] = "piece"
      /\ active[n] = a /\ a.slot = s
  BY <1>p, AtCursor
<1>1. /\ chan' = [chan EXCEPT ![s] = q]
      /\ active' = [active EXCEPT ![n].pieces = 0]
      /\ cursor' = n + 1 /\ UNCHANGED <<states, content, held>>
  BY <1>p DEF StreamOnly
<1>2. q \in Seq(Event) /\ \A k \in 1 .. Len(q) : q[k] = "piece" BY <1>0, PiecesAppended
<1> HIDE DEF q
<1>3. /\ chan' \in [Slot -> Seq(Event)] /\ chan'[s] = q /\ \A t \in Slot : t # s => chan'[t] = chan[t]
  BY <1>1, <1>2 DEF Inv, TypeOK
<1> DEFINE b == [a EXCEPT !.pieces = 0]
<1>4. b \in Session /\ b.slot = s /\ b.fed = a.fed /\ b.failed = a.failed
  <2>1. 0 \in 0 .. 1 /\ a.slot = s BY <1>p
  <2> QED BY <2>1 DEF Session
<1>5. Sound(b)
  <2>1. /\ b.out = a.out /\ b.max = a.max /\ b.failed = a.failed /\ b.decoding = a.decoding /\ b.fed = a.fed
        /\ b.len = a.len /\ b.finish = a.finish /\ b.handled = a.handled /\ b.pauses = a.pauses
    BY DEF Session
  <2> HIDE DEF b
  <2> QED BY <1>0, <2>1 DEF Sound
<1>6. active' = [active EXCEPT ![n] = b] BY <1>0, <1>1
<1> HIDE DEF b
<1>7. /\ active' \in Seq(Session) /\ Len(active') = Len(active) /\ active'[n] = b
      /\ \A i \in 1 .. Len(active) : i # n => active'[i] = active[i]
  BY <1>0, <1>4, <1>6
<1>8. ASSUME NEW i \in 1 .. Len(active) PROVE
        /\ Sound(active'[i]) /\ active'[i].slot = active[i].slot
        /\ ~active'[i].failed => content'[active[i].slot] = active'[i].fed
  <2>1. Sound(active[i]) /\ (~active[i].failed => content[active[i].slot] = active[i].fed)
    BY DEF Inv, Sessions, Remembered
  <2>2. CASE i = n BY <1>0, <1>1, <1>4, <1>5, <1>7, <2>1, <2>2
  <2>3. CASE i # n BY <1>1, <1>7, <2>1, <2>3
  <2> QED BY <2>2, <2>3
<1>9. \A i \in 1 .. Len(active) : Sound(active[i])' BY <1>8 DEF Sound
<1>10. ASSUME NEW t \in Slot PROVE
         /\ HasResult(t)' <=> HasResult(t)
         /\ \A k \in 1 .. Len(chan'[t]) : chan'[t][k] # "piece" => k = Len(chan'[t])
  <2>1. Placed(t) BY DEF Inv, Once
  <2>2. CASE t = s BY <1>0, <1>2, <1>3, <2>2 DEF HasResult
  <2>3. CASE t # s BY <1>3, <2>1, <2>3 DEF HasResult, Placed
  <2> QED BY <2>2, <2>3
<1>11. /\ content' \in [Slot -> Int] /\ cursor' \in Nat \ {0}
       /\ epc' \in {"recv", "drain", "cancel", "step", "retire", "exit"}
       /\ \A t \in Slot : ~InActive(t) => content'[t] = content[t]
  <2>1. n + 1 \in Nat \ {0} OBVIOUS
  <2>2. content \in [Slot -> Int] /\ epc \in {"recv", "drain", "cancel", "step", "retire", "exit"}
    BY DEF Inv, TypeOK
  <2>3. content' = content /\ epc' = epc /\ cursor' = n + 1 BY <1>1
  <2> QED BY <2>1, <2>2, <2>3
<1> QED BY <1>1, <1>3, <1>7, <1>8, <1>9, <1>10, <1>11, SessionsMoved

(* A finished session leaves its place and the later ones move up. *)
LEMMA Removed ==
  ASSUME NEW q \in Seq(Session), NEW n \in 1 .. Len(q)
  PROVE  /\ WithoutAt(q, n) \in Seq(Session) /\ Len(WithoutAt(q, n)) = Len(q) - 1
         /\ \A k \in 1 .. Len(WithoutAt(q, n)) :
              WithoutAt(q, n)[k] = IF k < n THEN q[k] ELSE q[k + 1]
<1> DEFINE w == WithoutAt(q, n)
<1>1. Len(q) \in Nat /\ Len(q) - 1 \in Nat OBVIOUS
<1>2. w = [k \in 1 .. Len(q) - 1 |-> IF k < n THEN q[k] ELSE q[k + 1]] BY DEF WithoutAt
<1> HIDE DEF w
<1>3. \A k \in 1 .. Len(q) - 1 : w[k] \in Session
  <2> SUFFICES ASSUME NEW k \in 1 .. Len(q) - 1 PROVE w[k] \in Session OBVIOUS
  <2>1. k \in 1 .. Len(q) /\ k + 1 \in 1 .. Len(q) BY <1>1
  <2> QED BY <1>2, <2>1
<1>4. w = [k \in 1 .. Len(q) - 1 |-> w[k]] BY <1>2
<1>5. w \in Seq(Session) /\ Len(w) = Len(q) - 1 BY <1>1, <1>3, <1>4, SequenceOf
<1> QED BY <1>2, <1>5 DEF w

(* A finished session leaves with its slot's state, or with none if it     *)
(* failed, and its result ends the channel: its request was in this one    *)
(* place.                                                                  *)
LEMMA RetireKeeps ==
  ASSUME Inv, cursor <= Len(active), Retire, UNCHANGED <<wpc, quiet, cancel, rx, open, epc>>
  PROVE  Inv'
<1>p. PICK a \in Session, s \in Slot, n \in 1 .. Len(active) : a = active[cursor] /\ s = a.slot /\ n = cursor
  BY AtCursor
<1>0. /\ active \in Seq(Session) /\ Len(active) \in Nat /\ Sound(a) /\ InActive(s) /\ wpc[s] = "relay"
      /\ chan[s] \in Seq(Event) /\ \A k \in 1 .. Len(chan[s]) : chan[s][k] = "piece"
      /\ active[n] = a /\ a.slot = s
  BY <1>p, AtCursor
<1> DEFINE q == (chan[s] \o Pieces(a)) \o LastEvents(a)
<1>1. /\ active' = WithoutAt(active, n)
      /\ states' = [states EXCEPT ![s] = Kept(a)]
      /\ held' = IF a.failed THEN held ELSE [held EXCEPT ![s] = a.fed]
      /\ chan' = [chan EXCEPT ![s] = q]
      /\ content' = IF a.failed THEN [content EXCEPT ![s] = 0] ELSE content
      /\ cursor' = cursor
  BY <1>p DEF Retire
<1>2. /\ q \in Seq(Event) /\ \E k \in 1 .. Len(q) : q[k] # "piece"
      /\ \A k \in 1 .. Len(q) : q[k] # "piece" => k = Len(q)
  <2> DEFINE p == chan[s] \o Pieces(a)
  <2>1. p \in Seq(Event) /\ \A k \in 1 .. Len(p) : p[k] = "piece" BY <1>0, PiecesAppended
  <2>2. q = p \o <<Result(a)>> BY DEF LastEvents
  <2>3. Result(a) \in {"ok", "err"} BY DEF Result
  <2>4. Result(a) \in Event BY <2>3 DEF Event
  <2> HIDE DEF p, q
  <2>5. q = Append(p, Result(a)) BY <2>1, <2>2, <2>4
  <2> QED BY <2>1, <2>3, <2>5, ResultAppended
<1> HIDE DEF q
<1>3. /\ chan' \in [Slot -> Seq(Event)] /\ chan'[s] = q /\ \A t \in Slot : t # s => chan'[t] = chan[t]
  BY <1>1, <1>2 DEF Inv, TypeOK
<1>4. a.fed \in Nat /\ a.failed \in BOOLEAN BY DEF Session
<1>5. /\ states \in [Slot -> Int] /\ content \in [Slot -> Int] /\ held \in [Slot -> Int]
      /\ held[s] = 0 /\ (~a.failed => content[s] = a.fed)
  BY <1>0 DEF Inv, TypeOK, Remembered
<1>6. /\ states' \in [Slot -> Int] /\ content' \in [Slot -> Int] /\ held' \in [Slot -> Int]
      /\ \A t \in Slot : t # s => states'[t] = states[t] /\ content'[t] = content[t] /\ held'[t] = held[t]
      /\ held'[s] = IF states'[s] = NoState THEN 0 ELSE states'[s]
      /\ states'[s] # NoState => content'[s] = states'[s]
  <2>1. CASE a.failed BY <1>1, <1>5, <2>1 DEF Kept, NoState
  <2>2. CASE ~a.failed BY <1>1, <1>4, <1>5, <2>2 DEF Kept, NoState
  <2> QED BY <2>1, <2>2
<1>7. /\ active' \in Seq(Session) /\ Len(active') = Len(active) - 1
      /\ \A k \in 1 .. Len(active') : active'[k] = IF k < n THEN active[k] ELSE active[k + 1]
  BY <1>0, <1>1, Removed
<1> DEFINE old(k) == IF k < n THEN k ELSE k + 1
<1>8. \A k \in 1 .. Len(active') : old(k) \in 1 .. Len(active) /\ old(k) # n /\ active'[k] = active[old(k)]
  BY <1>0, <1>7
<1>9. \A i \in 1 .. Len(active) : i # n => \E k \in 1 .. Len(active') : old(k) = i
  <2> SUFFICES ASSUME NEW i \in 1 .. Len(active), i # n PROVE \E k \in 1 .. Len(active') : old(k) = i OBVIOUS
  <2>1. CASE i < n
    <3>1. i \in 1 .. Len(active') /\ old(i) = i BY <1>0, <1>7, <2>1
    <3> QED BY <3>1
  <2>2. CASE ~(i < n)
    <3>1. i - 1 \in 1 .. Len(active') /\ old(i - 1) = i BY <1>0, <1>7, <2>2
    <3> QED BY <3>1
  <2> QED BY <2>1, <2>2
<1>10. \A k, m \in 1 .. Len(active') : old(k) = old(m) => k = m BY <1>0, <1>7
<1> HIDE DEF old
<1>11. \A i, j \in 1 .. Len(active) : active[i].slot = active[j].slot => i = j BY DEF Inv, Once, Distinct
<1>12. ~InActive(s)'
  <2> SUFFICES ASSUME NEW k \in 1 .. Len(active'), active'[k].slot = s PROVE FALSE BY DEF InActive
  <2>1. old(k) \in 1 .. Len(active) /\ old(k) # n /\ active[old(k)].slot = active[n].slot BY <1>0, <1>8
  <2> QED BY <1>11, <2>1
<1>13. \A t : t # s => (InActive(t)' <=> InActive(t))
  <2>1. ASSUME NEW t, NEW k \in 1 .. Len(active'), active'[k].slot = t PROVE InActive(t)
    <3>1. old(k) \in 1 .. Len(active) /\ active[old(k)].slot = t BY <1>8, <2>1
    <3> QED BY <3>1 DEF InActive
  <2>2. ASSUME NEW t, t # s, NEW i \in 1 .. Len(active), active[i].slot = t PROVE InActive(t)'
    <3>1. i # n BY <1>0, <2>2
    <3>2. PICK k \in 1 .. Len(active') : old(k) = i BY <1>9, <3>1
    <3>3. active'[k].slot = t BY <1>8, <2>2, <3>2
    <3> QED BY <3>3 DEF InActive
  <2> QED BY <2>1, <2>2 DEF InActive
<1>14. TypeOK' BY <1>1, <1>3, <1>6, <1>7 DEF Inv, TypeOK
<1>15. Sessions'
  <2> SUFFICES ASSUME NEW k \in 1 .. Len(active') PROVE Sound(active'[k]) BY DEF Sessions, Sound
  <2>1. old(k) \in 1 .. Len(active) /\ active'[k] = active[old(k)] BY <1>8
  <2>2. Sound(active[old(k)]) BY <2>1 DEF Inv, Sessions
  <2> QED BY <2>1, <2>2
<1>16. Distinct'
  <2>1. \A k, m \in 1 .. Len(active') : active'[k].slot = active'[m].slot => k = m
    <3> SUFFICES ASSUME NEW k \in 1 .. Len(active'), NEW m \in 1 .. Len(active'), active'[k].slot = active'[m].slot
        PROVE k = m OBVIOUS
    <3>1. old(k) \in 1 .. Len(active) /\ old(m) \in 1 .. Len(active) /\ active[old(k)].slot = active[old(m)].slot
      BY <1>8
    <3>2. old(k) = old(m) BY <1>11, <3>1
    <3> QED BY <1>10, <3>2
  <2> QED BY <2>1 DEF Inv, Once, Distinct
<1>17. ASSUME NEW t \in Slot PROVE Placed(t)'
  <2>1. Placed(t) /\ Placed(s) BY DEF Inv, Once
  <2>2. (InRx(t)' <=> InRx(t)) /\ wpc' = wpc BY DEF InRx
  <2>3. CASE t = s
    <3>1. HasResult(s)' BY <1>2, <1>3 DEF HasResult
    <3>2. ~InRx(s) BY <1>0, <2>1 DEF Placed
    <3> QED BY <1>0, <1>2, <1>3, <1>12, <2>2, <2>3, <3>1, <3>2 DEF Placed
  <2>4. CASE t # s
    <3>1. HasResult(t)' <=> HasResult(t) BY <1>3, <2>4 DEF HasResult
    <3> QED BY <1>3, <1>13, <2>1, <2>2, <2>4, <3>1 DEF Placed
  <2> QED BY <2>3, <2>4
<1>18. Remembered'
  <2>1. ASSUME NEW t \in Slot, ~InActive(t)'
        PROVE  /\ held'[t] = IF states'[t] = NoState THEN 0 ELSE states'[t]
               /\ states'[t] # NoState => content'[t] = states'[t]
    <3>1. CASE t = s BY <1>6, <3>1
    <3>2. CASE t # s BY <1>6, <1>13, <2>1, <3>2 DEF Inv, Remembered
    <3> QED BY <3>1, <3>2
  <2>2. ASSUME NEW t \in Slot, InActive(t)' PROVE held'[t] = 0 /\ states'[t] = NoState
    <3>1. t # s BY <1>12, <2>2
    <3> QED BY <1>6, <1>13, <2>2, <3>1 DEF Inv, Remembered
  <2>3. ASSUME NEW k \in 1 .. Len(active'), ~active'[k].failed PROVE content'[active'[k].slot] = active'[k].fed
    <3>1. old(k) \in 1 .. Len(active) /\ old(k) # n /\ active'[k] = active[old(k)] BY <1>8
    <3>2. active[old(k)].slot # active[n].slot BY <1>11, <3>1
    <3>3. active[old(k)].slot \in Slot
      <4>1. active[old(k)] \in Session BY <1>0, <3>1
      <4> QED BY <4>1 DEF Session
    <3>4. content[active[old(k)].slot] = active[old(k)].fed BY <2>3, <3>1 DEF Inv, Remembered
    <3> QED BY <1>0, <1>6, <3>1, <3>2, <3>3, <3>4
  <2> QED BY <2>1, <2>2, <2>3 DEF Remembered
<1> QED BY <1>14, <1>15, <1>16, <1>17, <1>18 DEF Inv, Once

(* The retire loop, to its end. *)
LEMMA SweepKeeps == ASSUME Inv, Sweep PROVE Inv'
<1>1. UNCHANGED <<wpc, quiet, cancel, rx, open>> BY DEF Sweep, workerVars
<1>2. CASE cursor <= Len(active)
  <2>1. (StreamOnly \/ Retire) /\ epc' = epc BY <1>2 DEF Sweep
  <2> QED BY <1>1, <1>2, <2>1, StreamKeeps, RetireKeeps
<1>3. CASE ~(cursor <= Len(active))
  <2>1. epc' = "recv" /\ cursor' = 1 /\ UNCHANGED <<chan, active, states, content, held>> BY <1>3 DEF Sweep
  <2> QED BY <1>1, <2>1, EngineMoves
<1> QED BY <1>2, <1>3

(* Every step keeps the invariant. *)
LEMMA NextInv == Inv /\ [Next]_vars => Inv'
<1> SUFFICES ASSUME Inv, [Next]_vars PROVE Inv' OBVIOUS
<1>0. TypeOK BY DEF Inv
<1>1. CASE UNCHANGED vars BY <1>0, <1>1, EngineMoves DEF vars, TypeOK
<1>2. CASE Recv
  <2>1. epc' = "drain" /\ UNCHANGED <<wpc, quiet, cancel, open, cursor>> BY <1>2 DEF Recv, workerVars
  <2>2. CASE UNCHANGED <<rx, chan, active, states, content, held>> BY <1>0, <2>1, <2>2, EngineMoves DEF TypeOK
  <2>3. CASE rx # <<>> /\ Admit BY <2>1, <2>3, AdmitKeeps
  <2> QED BY <1>2, <2>2, <2>3 DEF Recv
<1>3. CASE Disconnect BY <1>0, <1>3, EngineMoves DEF Disconnect, AfterDisconnect, workerVars, TypeOK
<1>4. CASE DrainOne
  <2>1. /\ rx # <<>> /\ Admit /\ UNCHANGED <<wpc, quiet, cancel, open, cursor>>
        /\ epc' \in {"recv", "drain", "cancel", "step", "retire", "exit"}
    BY <1>4 DEF DrainOne, workerVars
  <2> QED BY <2>1, AdmitKeeps
<1>5. CASE DrainEnd BY <1>0, <1>5, EngineMoves DEF DrainEnd, workerVars, TypeOK
<1>6. CASE ApplyCancel BY <1>6, CancelKeeps
<1>7. CASE Step BY <1>7, StepKeeps
<1>8. CASE Sweep BY <1>8, SweepKeeps
<1>9. CASE Drop BY <1>9, DropKeeps
<1>10. CASE \E s \in Slot : Worker(s) BY <1>10, SubmitKeeps, RelayKeeps DEF Worker
<1> QED BY <1>1, <1>2, <1>3, <1>4, <1>5, <1>6, <1>7, <1>8, <1>9, <1>10 DEF Next, Engine

(* The invariant holds of every reachable state. *)
THEOREM EngineInvariant == Spec => []Inv
BY InitInv, NextInv, PTL DEF Spec

-----------------------------------------------------------------------------
(* What the invariant means.                                               *)

(* No positions, or the only one, counted. *)
LEMMA OneOrNone ==
  ASSUME NEW S, \A i, j \in S : i = j
  PROVE  IsFiniteSet(S) /\ Cardinality(S) = IF S = {} THEN 0 ELSE 1
<1>1. CASE S = {} BY <1>1, FS_EmptySet
<1>2. CASE S # {}
  <2>1. PICK x : S = {x} BY <1>2
  <2> QED BY <2>1, FS_Singleton
<1> QED BY <1>1, <1>2

(* A request in flight is in exactly one place and no request is answered  *)
(* twice, so no slot is asked to run two sessions: BatchRunner::generate,  *)
(* admit and the retire loop.                                              *)
THEOREM RequestsAnsweredOnce == Spec => []RequestOnce
<1>1. ASSUME Inv PROVE RequestOnce
  <2> SUFFICES ASSUME NEW s \in Slot
      PROVE /\ Cardinality(Submitted(s)) + Cardinality(SessionsOf(s)) + Cardinality(ResultsFor(s))
                 = IF wpc[s] = "relay" THEN 1 ELSE 0
            /\ ResultsFor(s) \subseteq {Len(chan[s])}
    BY DEF RequestOnce
  <2>1. Placed(s) /\ Distinct BY <1>1 DEF Inv, Once
  <2>2. \A i, j \in Submitted(s) : i = j BY <2>1 DEF Distinct, Submitted
  <2>3. \A i, j \in SessionsOf(s) : i = j BY <2>1 DEF Distinct, SessionsOf
  <2>4. ResultsFor(s) \subseteq {Len(chan[s])} BY <2>1 DEF Placed, ResultsFor
  <2>5. \A i, j \in ResultsFor(s) : i = j BY <2>4
  <2>6. /\ Submitted(s) = {} <=> ~InRx(s)
        /\ SessionsOf(s) = {} <=> ~InActive(s)
        /\ ResultsFor(s) = {} <=> ~HasResult(s)
    BY DEF Submitted, SessionsOf, ResultsFor, InRx, InActive, HasResult
  <2>7. /\ Cardinality(Submitted(s)) = IF InRx(s) THEN 1 ELSE 0
        /\ Cardinality(SessionsOf(s)) = IF InActive(s) THEN 1 ELSE 0
        /\ Cardinality(ResultsFor(s)) = IF HasResult(s) THEN 1 ELSE 0
    BY <2>2, <2>3, <2>5, <2>6, OneOrNone
  <2>8. Cardinality(Submitted(s)) + Cardinality(SessionsOf(s)) + Cardinality(ResultsFor(s))
          = IF wpc[s] = "relay" THEN 1 ELSE 0
    BY <2>1, <2>7 DEF Placed
  <2> QED BY <2>4, <2>8
<1> QED BY <1>1, EngineInvariant, PTL

(* What the engine remembers of a slot is true: an idle slot's state holds *)
(* the tokens recorded with it and shown to slot affinity, an active slot  *)
(* shows none, and a state a failed forward touched is dropped (admit,     *)
(* into_state, the retire loop).                                           *)
THEOREM SlotsRemembered == Spec => []SlotStates
<1>1. ASSUME Inv PROVE SlotStates
  <2>1. \A s : s \in ActiveSlots <=> InActive(s) BY DEF ActiveSlots, InActive
  <2>2. ASSUME NEW s \in ActiveSlots PROVE s \in Slot
    <3>1. PICK i \in 1 .. Len(active) : active[i].slot = s BY DEF ActiveSlots
    <3>2. active[i] \in Session BY <1>1, <3>1 DEF Inv, TypeOK
    <3> QED BY <3>1, <3>2 DEF Session
  <2> QED BY <1>1, <2>1, <2>2 DEF Inv, Remembered, SlotStates
<1> QED BY <1>1, EngineInvariant, PTL

(* A session is fed its whole prompt and then every sampled token but the  *)
(* last, never past max_tokens, and no pause point is jumped over, however *)
(* the plan cuts the prompt into chunks (step, input, feed, sample).       *)
THEOREM SessionsFedExactly == Spec => []SessionsExact
<1>1. ASSUME Inv PROVE SessionsExact
  <2>1. \A i \in 1 .. Len(active) : Sound(active[i]) BY <1>1 DEF Inv, Sessions
  <2>2. FedTokens BY <2>1 DEF FedTokens, Sound
  <2>3. PausesHandled BY <2>1 DEF PausesHandled, Sound
  <2> QED BY <2>2, <2>3 DEF SessionsExact
<1> QED BY <1>1, EngineInvariant, PTL

(* A step neither starves nor floods: together the prompts are fed at most *)
(* the prefill budget (one token if it is zero), every decoding session    *)
(* and the oldest prefilling one take part, and no session that has ended  *)
(* (step, input, whatever the batch and the pause points are).             *)
THEOREM StepBounded == Spec => []StepBounds
<1>1. ASSUME Inv PROVE StepBounds
  <2>0. active \in Seq(Session) /\ Sessions BY <1>1 DEF Inv, TypeOK
  <2>1. Spent[Len(active)] <= Greater(Budget, 1) BY <2>0, SpentBound
  <2>2. ASSUME NEW i \in 1 .. Len(active), Unfinished(active[i]), active[i].decoding \/ FirstPrefill(i)
        PROVE  i \in Chosen
    <3>1. i - 1 \in 0 .. Len(active) OBVIOUS
    <3>2. PICK left \in Nat : left = Left[i - 1] BY <2>0, <3>1, LeftNat
    <3>3. Plan[i] = Take(i, left) BY <3>2, Zenon DEF Plan
    <3>4. Take(i, left) > 0 BY <2>0, <2>2, TakeNat, TakeBounds
    <3> QED BY <3>3, <3>4 DEF Chosen
  <2>3. \A i \in Chosen : Unfinished(active[i]) /\ Inputs(i) \in 1 .. PrefillChunk
    BY <2>0, InputsSound, InputsBounded
  <2> QED BY <2>1, <2>2, <2>3 DEF StepBounds
<1> QED BY <1>1, EngineInvariant, PTL

=============================================================================
