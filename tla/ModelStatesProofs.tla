--------------------------- MODULE ModelStatesProofs ---------------------------
(***************************************************************************)
(* The states a model keeps between forwards are exact, for any tokens,    *)
(* lengths and bounds: the hybrid state and its snapshots, which also keep *)
(* the contract of ModelState, the rows of a drafter and the position      *)
(* caches.                                                                 *)
(***************************************************************************)
EXTENDS MCModelStates, SequenceTheorems, FiniteSetTheorems, WellFoundedInduction, TLAPS

-----------------------------------------------------------------------------
(* Prefixes. *)
First(s, n) == SubSeq(s, 1, n)

(* The first n of a sequence, one by one.                                  *)
LEMMA FirstProps ==
  ASSUME NEW S, NEW s \in Seq(S), NEW n \in 0 .. Len(s)
  PROVE  /\ First(s, n) \in Seq(S)
         /\ Len(First(s, n)) = n
         /\ \A i \in 1 .. n : First(s, n)[i] = s[i]
<1>1. Len(s) \in Nat /\ \A i \in 1 .. n : s[i] \in S
  BY LenProperties, ElementOfSeq
<1>2. /\ SubSeq(s, 1, n) \in Seq(S)
      /\ Len(SubSeq(s, 1, n)) = IF 1 <= n THEN n - 1 + 1 ELSE 0
      /\ \A i \in 1 .. n - 1 + 1 : SubSeq(s, 1, n)[i] = s[1 + i - 1]
  BY <1>1, SubSeqProperties
<1> DEFINE f == SubSeq(s, 1, n)
<1> HIDE DEF f
<1>3. f \in Seq(S) /\ Len(f) = n /\ \A i \in 1 .. n : f[i] = s[i]
  BY <1>1, <1>2 DEF f
<1> QED
  BY <1>3 DEF f, First

(* All of them and none of them.                                           *)
LEMMA FirstAll ==
  ASSUME NEW S, NEW s \in Seq(S)
  PROVE  First(s, Len(s)) = s /\ First(s, 0) = <<>>
BY SubSeqFull, SubSeqEmpty DEF First

(* The first of the first.                                                 *)
LEMMA FirstOfFirst ==
  ASSUME NEW S, NEW s \in Seq(S), NEW n \in 0 .. Len(s), NEW m \in 0 .. n
  PROVE  First(First(s, n), m) = First(s, m)
<1> DEFINE f == First(s, n)
           g == First(s, m)
           h == First(f, m)
<1>1. Len(s) \in Nat /\ m \in 0 .. Len(s)
  BY LenProperties
<1>2. f \in Seq(S) /\ Len(f) = n /\ \A i \in 1 .. n : f[i] = s[i]
  BY FirstProps
<1>3. g \in Seq(S) /\ Len(g) = m /\ \A i \in 1 .. m : g[i] = s[i]
  BY <1>1, FirstProps
<1> HIDE DEF f, g
<1>4. h \in Seq(S) /\ Len(h) = m /\ \A i \in 1 .. m : h[i] = f[i]
  BY <1>2, FirstProps
<1> HIDE DEF h
<1>5. \A i \in 1 .. Len(h) : h[i] = g[i]
  BY <1>1, <1>2, <1>3, <1>4
<1>6. h = g
  BY <1>3, <1>4, <1>5, SeqEqual
<1> QED
  BY <1>6 DEF f, g, h

(* A prefix of a concatenation: of the first part, or that and a prefix of *)
(* the second.                                                             *)
LEMMA FirstOfConcat ==
  ASSUME NEW S, NEW a \in Seq(S), NEW b \in Seq(S)
  PROVE  /\ \A n \in 0 .. Len(a) : First(a \o b, n) = First(a, n)
         /\ \A n \in 0 .. Len(b) : First(a \o b, Len(a) + n) = a \o First(b, n)
<1> DEFINE c == a \o b
<1>1. Len(a) \in Nat /\ Len(b) \in Nat
  BY LenProperties
<1>2. /\ c \in Seq(S) /\ Len(c) = Len(a) + Len(b)
      /\ \A i \in 1 .. Len(a) + Len(b) :
           c[i] = IF i <= Len(a) THEN a[i] ELSE b[i - Len(a)]
  BY ConcatProperties
<1> HIDE DEF c
<1>3. ASSUME NEW n \in 0 .. Len(a) PROVE First(c, n) = First(a, n)
  <2> DEFINE f == First(c, n)
             g == First(a, n)
  <2>0. n \in 0 .. Len(c)
    BY <1>1, <1>2
  <2>1. f \in Seq(S) /\ Len(f) = n /\ \A i \in 1 .. n : f[i] = c[i]
    BY <1>2, <2>0, FirstProps
  <2>2. g \in Seq(S) /\ Len(g) = n /\ \A i \in 1 .. n : g[i] = a[i]
    BY FirstProps
  <2> HIDE DEF f, g
  <2>3. \A i \in 1 .. Len(f) : f[i] = g[i]
    BY <1>1, <1>2, <2>1, <2>2
  <2>4. f = g
    BY <2>1, <2>2, <2>3, SeqEqual
  <2> QED
    BY <2>4 DEF f, g
<1>4. ASSUME NEW n \in 0 .. Len(b) PROVE First(c, Len(a) + n) = a \o First(b, n)
  <2> DEFINE f == First(c, Len(a) + n)
             g == First(b, n)
             h == a \o g
  <2>0. Len(a) + n \in 0 .. Len(c)
    BY <1>1, <1>2
  <2>1. f \in Seq(S) /\ Len(f) = Len(a) + n /\ \A i \in 1 .. Len(a) + n : f[i] = c[i]
    BY <1>2, <2>0, FirstProps
  <2>2. g \in Seq(S) /\ Len(g) = n /\ \A i \in 1 .. n : g[i] = b[i]
    BY FirstProps
  <2> HIDE DEF f, g
  <2>3. /\ h \in Seq(S) /\ Len(h) = Len(a) + n
        /\ \A i \in 1 .. Len(a) + n : h[i] = IF i <= Len(a) THEN a[i] ELSE g[i - Len(a)]
    BY <2>2, ConcatProperties
  <2> HIDE DEF h
  <2>4. ASSUME NEW i \in 1 .. Len(f) PROVE f[i] = h[i]
    <3>1. i \in 1 .. Len(a) + n /\ i \in 1 .. Len(a) + Len(b) /\ n \in Nat
      BY <1>1, <2>1
    <3>2. f[i] = (IF i <= Len(a) THEN a[i] ELSE b[i - Len(a)])
      BY <1>2, <2>1, <3>1
    <3>3. i > Len(a) => g[i - Len(a)] = b[i - Len(a)]
      BY <1>1, <2>2, <3>1
    <3>4. h[i] = IF i <= Len(a) THEN a[i] ELSE g[i - Len(a)]
      BY <2>3, <3>1
    <3> QED
      BY <1>1, <3>1, <3>2, <3>3, <3>4
  <2>5. f = h
    BY <2>1, <2>3, <2>4, SeqEqual
  <2> QED
    BY <2>5 DEF f, g, h
<1> QED
  BY <1>3, <1>4 DEF c

(* Where a concatenation is cut in its second part.                        *)
LEMMA Cut ==
  ASSUME NEW S, NEW a \in Seq(S), NEW b \in Seq(S), NEW len \in Len(a) .. Len(a) + Len(b)
  PROVE  /\ First(a \o b, len) = a \o First(b, len - Len(a))
         /\ First(b, len - Len(a)) \in Seq(S)
         /\ a \o First(b, len - Len(a)) \in Seq(S)
         /\ Len(a \o First(b, len - Len(a))) = len
<1>1. Len(a) \in Nat /\ Len(b) \in Nat
  BY LenProperties
<1>2. PICK n \in 0 .. Len(b) : len - Len(a) = n /\ len = Len(a) + n
  <2>1. len - Len(a) \in 0 .. Len(b) /\ len = Len(a) + (len - Len(a))
    BY <1>1
  <2> QED
    BY <2>1
<1>3. First(b, n) \in Seq(S) /\ Len(First(b, n)) = n
  BY FirstProps
<1>4. a \o First(b, n) \in Seq(S) /\ Len(a \o First(b, n)) = Len(a) + n
  BY <1>3, ConcatProperties
<1>5. First(a \o b, Len(a) + n) = a \o First(b, n)
  BY FirstOfConcat
<1> QED
  BY <1>2, <1>3, <1>4, <1>5

-----------------------------------------------------------------------------
(* Row i was computed from the first i tokens. *)
RowsOf(kv, tokens) ==
  Len(kv) >= Len(tokens) /\ \A i \in 1 .. Len(tokens) : kv[i] = First(tokens, i)

(* Rows of a sequence are rows of its prefixes.                            *)
LEMMA RowsOfPrefix ==
  ASSUME NEW kv \in Seq(Seq(Token)), NEW s \in Seq(Token), RowsOf(kv, s),
         NEW n \in 0 .. Len(s)
  PROVE  RowsOf(kv, First(s, n))
<1> DEFINE f == First(s, n)
<1>1. Len(s) \in Nat /\ Len(kv) \in Nat
  BY LenProperties
<1>2. Len(f) = n
  BY FirstProps
<1>3. \A i \in 1 .. n : First(f, i) = First(s, i)
  BY <1>1, FirstOfFirst
<1> HIDE DEF f
<1>4. RowsOf(kv, f)
  BY <1>1, <1>2, <1>3 DEF RowsOf
<1> QED
  BY <1>4 DEF f

(* Rows written over the front of others. *)
LEMMA OverlaidProps ==
  ASSUME NEW kv \in Seq(Seq(Token)), NEW rows \in Seq(Seq(Token))
  PROVE  /\ Overlaid(kv, rows) \in Seq(Seq(Token))
         /\ Len(Overlaid(kv, rows)) >= Len(rows)
         /\ Len(Overlaid(kv, rows)) \in Nat
         /\ \A i \in 1 .. Len(rows) : Overlaid(kv, rows)[i] = rows[i]
<1> DEFINE top == IF Len(kv) > Len(rows) THEN Len(kv) ELSE Len(rows)
           over == [i \in 1 .. top |-> IF i <= Len(rows) THEN rows[i] ELSE kv[i]]
<1>1. Len(kv) \in Nat /\ Len(rows) \in Nat /\ top \in Nat /\ top >= Len(rows)
  BY LenProperties
<1>2. \A i \in 1 .. top : (IF i <= Len(rows) THEN rows[i] ELSE kv[i]) \in Seq(Token)
  BY <1>1, ElementOfSeq
<1>3. over \in [1 .. top -> Seq(Token)]
  BY <1>2
<1>4. over \in Seq(Seq(Token)) /\ Len(over) = top
  BY <1>1, <1>3
<1>5. \A i \in 1 .. Len(rows) : over[i] = rows[i]
  BY <1>1
<1>6. Overlaid(kv, rows) = over
  BY DEF Overlaid
<1> HIDE DEF over, top
<1> QED
  BY <1>1, <1>4, <1>5, <1>6

(* Rows written at the end are those of the tokens fed.                    *)
LEMMA RowsFed ==
  ASSUME NEW kv \in Seq(Seq(Token)), NEW s \in Seq(Token), NEW tokens \in Seq(Token),
         RowsOf(kv, s)
  PROVE  /\ Overlaid(kv, RowsFor(kv, Len(s), s, tokens)) \in Seq(Seq(Token))
         /\ RowsOf(Overlaid(kv, RowsFor(kv, Len(s), s, tokens)), s \o tokens)
<1> DEFINE all == s \o tokens
           top == Len(s) + Len(tokens)
           rows == RowsFor(kv, Len(s), s, tokens)
           over == Overlaid(kv, rows)
<1>1. Len(s) \in Nat /\ Len(tokens) \in Nat /\ top \in Nat /\ Len(kv) \in Nat
  BY LenProperties
<1>2. all \in Seq(Token) /\ Len(all) = top
  BY ConcatProperties
<1>3. rows = [i \in 1 .. top |-> IF i <= Len(s) THEN kv[i]
                                 ELSE s \o First(tokens, i - Len(s))]
  BY DEF RowsFor, First
<1>4. /\ \A i \in 0 .. Len(s) : First(all, i) = First(s, i)
      /\ \A n \in 0 .. Len(tokens) : First(all, Len(s) + n) = s \o First(tokens, n)
  BY FirstOfConcat
<1> HIDE DEF all, rows
<1>5. ASSUME NEW i \in 1 .. top PROVE rows[i] = First(all, i)
  <2>1. CASE i <= Len(s)
    BY <1>1, <1>3, <1>4, <2>1 DEF RowsOf
  <2>2. CASE i > Len(s)
    <3>1. PICK n \in 0 .. Len(tokens) : i = Len(s) + n
      <4>1. i - Len(s) \in 0 .. Len(tokens) /\ i = Len(s) + (i - Len(s))
        BY <1>1, <2>2
      <4> QED
        BY <4>1
    <3>2. First(all, i) = s \o First(tokens, n)
      BY <1>4, <3>1
    <3>3. i - Len(s) = n
      BY <1>1, <3>1
    <3> QED
      BY <1>1, <1>3, <2>2, <3>2, <3>3
  <2> QED
    BY <1>1, <2>1, <2>2
<1> HIDE DEF top
<1>6. ASSUME NEW i \in 1 .. top PROVE First(all, i) \in Seq(Token)
  <2>1. i \in 0 .. Len(all)
    BY <1>1, <1>2
  <2> QED
    BY <1>2, <2>1, FirstProps
<1>7. rows \in [1 .. top -> Seq(Token)]
  BY <1>3, <1>5, <1>6
<1>8. rows \in Seq(Seq(Token)) /\ Len(rows) = top
  BY <1>1, <1>7
<1>9. /\ over \in Seq(Seq(Token)) /\ Len(over) >= Len(rows) /\ Len(over) \in Nat
      /\ \A i \in 1 .. Len(rows) : over[i] = rows[i]
  BY <1>8, OverlaidProps
<1> HIDE DEF over
<1>10. RowsOf(over, all)
  BY <1>1, <1>2, <1>5, <1>8, <1>9 DEF RowsOf
<1> QED
  BY <1>9, <1>10 DEF over, rows, all

(* Rows of a copy written over others.                                     *)
LEMMA RowsCopied ==
  ASSUME NEW kv \in Seq(Seq(Token)), NEW rows \in Seq(Seq(Token)),
         NEW s \in Seq(Token), RowsOf(rows, s), Len(rows) = Len(s)
  PROVE  Overlaid(kv, rows) \in Seq(Seq(Token)) /\ RowsOf(Overlaid(kv, rows), s)
<1> DEFINE over == Overlaid(kv, rows)
<1>1. /\ over \in Seq(Seq(Token)) /\ Len(over) >= Len(rows) /\ Len(over) \in Nat
      /\ \A i \in 1 .. Len(rows) : over[i] = rows[i]
  BY OverlaidProps
<1> HIDE DEF over
<1>2. RowsOf(over, s)
  BY <1>1 DEF RowsOf
<1> QED
  BY <1>1, <1>2 DEF over

-----------------------------------------------------------------------------
(* What every call keeps. *)
Tokens == Seq(Token)
States == [kv : Seq(Tokens), rec : Tokens, len : Nat,
           ckpt : [len : Int, rec : Tokens], pend : [base : Int, tokens : Tokens]]

Held(s) == s.rec \o s.pend.tokens
Marked(s) == s.ckpt.len \in 0 .. Len(s.rec) /\ s.ckpt.rec = First(s.rec, s.ckpt.len)

Good(s) ==
  /\ s \in States
  /\ RowsOf(s.kv, Held(s))
  /\ s.len = Len(s.rec) + Len(s.pend.tokens)
  /\ s.pend = NoPend \/ s.pend.base = Len(s.rec)
  /\ s.ckpt = NoCkpt \/ Marked(s)

Copy(snap) ==
  /\ snap \in [len : Nat, kv : Seq(Tokens), rec : Tokens]
  /\ snap.len = Len(snap.rec) /\ Len(snap.kv) = snap.len
  /\ RowsOf(snap.kv, snap.rec)

(* Without a provisional forward all is folded in.                         *)
LEMMA Plain ==
  ASSUME NEW s, Good(s), ~HasPending(s)
  PROVE  s.pend = NoPend /\ Held(s) = s.rec /\ s.len = Len(s.rec) /\ s.pend.base = -1
<1>1. s.rec \in Tokens /\ Len(s.rec) \in Nat
  BY LenProperties DEF Good, States, Tokens
<1>2. s.pend = NoPend
  BY <1>1 DEF Good, HasPending
<1>3. s.pend.tokens = <<>> /\ s.pend.base = -1
  BY <1>2 DEF NoPend
<1>4. Held(s) = s.rec
  BY <1>1, <1>3, ConcatEmptySeq DEF Held, Tokens
<1>5. s.len = Len(s.rec) + 0 /\ Len(s.rec) + 0 = Len(s.rec)
  BY <1>1, <1>3, EmptySeq DEF Good
<1> QED
  BY <1>2, <1>3, <1>4, <1>5

(* A provisional forward starts where the recurrent part ends.             *)
LEMMA Provisional ==
  ASSUME NEW s, Good(s), HasPending(s)
  PROVE  s.pend.base = Len(s.rec) /\ s.pend.base \in Nat /\ s.pend # NoPend
BY LenProperties DEF Good, HasPending, NoPend, States, Tokens

(* The types of a good state.                                              *)
LEMMA Parts ==
  ASSUME NEW s, Good(s)
  PROVE  /\ s.kv \in Seq(Tokens) /\ s.rec \in Tokens /\ s.pend.tokens \in Tokens
         /\ s.ckpt.rec \in Tokens /\ s.ckpt.len \in Int
         /\ Held(s) \in Tokens /\ Len(Held(s)) = s.len /\ s.len \in Nat
         /\ Len(s.rec) \in Nat /\ Len(s.rec) <= s.len /\ Len(s.pend.tokens) \in Nat
         /\ s.ckpt.len = -1 \/ Marked(s)
<1>1. /\ s.kv \in Seq(Tokens) /\ s.rec \in Tokens /\ s.pend.tokens \in Tokens
      /\ s.ckpt.rec \in Tokens /\ s.ckpt.len \in Int /\ s.len \in Nat
  BY DEF Good, States
<1>2. Len(s.rec) \in Nat /\ Len(s.pend.tokens) \in Nat
  BY <1>1, LenProperties DEF Tokens
<1>3. Held(s) \in Tokens /\ Len(Held(s)) = Len(s.rec) + Len(s.pend.tokens)
  BY <1>1, ConcatProperties DEF Held, Tokens
<1>4. s.ckpt.len = -1 \/ Marked(s)
  BY DEF Good, NoCkpt
<1>5. s.len = Len(s.rec) + Len(s.pend.tokens)
  BY DEF Good
<1>6. Len(Held(s)) = s.len
  BY <1>3, <1>5, Zenon
<1>7. \A m, n \in Nat : m <= m + n
  OBVIOUS
<1>8. Len(s.rec) <= s.len
  BY <1>2, <1>5, <1>7, Zenon
<1> QED
  BY <1>1, <1>2, <1>3, <1>4, <1>6, <1>8

-----------------------------------------------------------------------------
(* A state put together from its parts. *)
LEMMA IsGood ==
  ASSUME NEW s, s \in States, s.pend = NoPend, s.len = Len(s.rec),
         RowsOf(s.kv, s.rec), s.ckpt = NoCkpt \/ Marked(s)
  PROVE  Good(s) /\ Held(s) = s.rec /\ s.pend.base = -1 /\ ~HasPending(s)
<1>1. s.rec \in Tokens /\ Len(s.rec) \in Nat
  BY LenProperties DEF States, Tokens
<1>2. s.pend.tokens = <<>> /\ s.pend.base = -1
  BY DEF NoPend
<1>3. Held(s) = s.rec /\ Len(s.pend.tokens) = 0
  BY <1>1, <1>2, ConcatEmptySeq, EmptySeq DEF Held, Tokens
<1> QED
  BY <1>1, <1>2, <1>3 DEF Good, HasPending

(* No checkpoint and no provisional forward are values of their types.     *)
LEMMA NoTypes == NoCkpt \in [len : Int, rec : Tokens] /\ NoPend \in [base : Int, tokens : Tokens]
BY EmptySeq DEF NoCkpt, NoPend, Tokens

(* A checkpoint stays within a sequence that begins with what it marks. *)
LEMMA StillMarked ==
  ASSUME NEW s, Good(s), NEW t, t.ckpt = s.ckpt, NEW more \in Tokens,
         t.rec = s.rec \o more
  PROVE  t.ckpt = NoCkpt \/ Marked(t)
<1>1. s.rec \in Seq(Token) /\ more \in Seq(Token) /\ Len(s.rec) \in Nat /\ Len(more) \in Nat
  BY Parts, LenProperties DEF Tokens
<1>2. CASE Marked(s)
  <2>1. PICK n \in 0 .. Len(s.rec) : s.ckpt.len = n /\ s.ckpt.rec = First(s.rec, n)
    BY <1>2 DEF Marked
  <2>2. First(t.rec, n) = First(s.rec, n) /\ Len(t.rec) = Len(s.rec) + Len(more)
    BY <1>1, FirstOfConcat, ConcatProperties
  <2> QED
    BY <1>1, <2>1, <2>2 DEF Marked
<1> QED
  BY <1>2 DEF Good

(* A new state is good.                                                    *)
LEMMA Fresh == Good(NewState) /\ Held(NewState) = <<>>
<1>1. <<>> \in Tokens /\ <<>> \in Seq(Tokens) /\ Len(<<>>) = 0
  BY EmptySeq DEF Tokens
<1>2. NewState \in States
  BY <1>1, NoTypes DEF NewState, States
<1>3. NewState.rec = <<>> /\ NewState.kv = <<>> /\ NewState.len = 0
      /\ NewState.pend = NoPend /\ NewState.ckpt = NoCkpt
  BY DEF NewState
<1>4. RowsOf(<<>>, <<>>)
  BY <1>1 DEF RowsOf
<1> QED
  BY <1>1, <1>2, <1>3, <1>4, IsGood

(* A forward adds its tokens.                                              *)
LEMMA Forwarded ==
  ASSUME NEW s, Good(s), ~HasPending(s), NEW tokens \in Tokens
  PROVE  LET t == Forward(s, tokens)
         IN  Good(t) /\ Held(t) = Held(s) \o tokens /\ t.pend.base = -1 /\ t.ckpt = s.ckpt
<1> DEFINE t == Forward(s, tokens)
           over == Overlaid(s.kv, RowsFor(s.kv, s.len, s.rec, tokens))
           all == s.rec \o tokens
<1>1. Held(s) = s.rec /\ s.len = Len(s.rec) /\ s.pend = NoPend
  BY Plain
<1>2. s.kv \in Seq(Seq(Token)) /\ s.rec \in Seq(Token) /\ tokens \in Seq(Token)
      /\ RowsOf(s.kv, s.rec)
  BY <1>1, Parts DEF Good, Tokens
<1>3. over \in Seq(Seq(Token)) /\ RowsOf(over, all)
  BY <1>1, <1>2, RowsFed
<1>4. all \in Tokens /\ Len(all) = Len(s.rec) + Len(tokens) /\ Len(s.rec) \in Nat
      /\ Len(tokens) \in Nat
  BY <1>2, ConcatProperties, LenProperties DEF Tokens
<1> HIDE DEF over, all
<1>5. t = [s EXCEPT !.kv = over, !.rec = all, !.len = s.len + Len(tokens)]
  BY DEF Forward, over, all
<1> HIDE DEF t
<1>6. s \in States /\ over \in Seq(Tokens)
  BY <1>3 DEF Good, Tokens
<1>10. s.len + Len(tokens) \in Nat
  BY <1>4, Parts
<1>7. /\ t \in States
      /\ t.kv = over /\ t.rec = all /\ t.len = s.len + Len(tokens)
      /\ t.pend = s.pend /\ t.ckpt = s.ckpt
  BY <1>4, <1>5, <1>6, <1>10 DEF States
<1>8. t.ckpt = NoCkpt \/ Marked(t)
  BY <1>7, StillMarked DEF all
<1>9. Good(t) /\ Held(t) = t.rec /\ t.pend.base = -1
  BY <1>1, <1>3, <1>4, <1>7, <1>8, IsGood
<1> QED
  BY <1>1, <1>7, <1>9 DEF t, all

(* A provisional one adds them for as long as it is not cut.               *)
LEMMA ForwardedProvisionally ==
  ASSUME NEW s, Good(s), ~HasPending(s), NEW tokens \in Tokens
  PROVE  LET t == ForwardProvisional(s, tokens)
         IN  /\ Good(t) /\ Held(t) = Held(s) \o tokens
             /\ t.pend.base = Len(Held(s)) /\ t.ckpt = s.ckpt
<1> DEFINE t == ForwardProvisional(s, tokens)
           over == Overlaid(s.kv, RowsFor(s.kv, s.len, s.rec, tokens))
           all == s.rec \o tokens
           rest == [base |-> s.len, tokens |-> tokens]
<1>1. Held(s) = s.rec /\ s.len = Len(s.rec)
  BY Plain
<1>2. s.kv \in Seq(Seq(Token)) /\ s.rec \in Seq(Token) /\ tokens \in Seq(Token)
      /\ RowsOf(s.kv, s.rec)
  BY <1>1, Parts DEF Good, Tokens
<1>3. over \in Seq(Seq(Token)) /\ RowsOf(over, all)
  BY <1>1, <1>2, RowsFed
<1> HIDE DEF over
<1>4. s \in States /\ over \in Seq(Tokens) /\ s.len \in Nat
  BY <1>3, Parts DEF Good, Tokens
<1>5. s.len + Len(tokens) \in Nat /\ rest \in [base : Int, tokens : Tokens]
  BY <1>2, <1>4, LenProperties
<1> HIDE DEF rest
<1>6. t = [s EXCEPT !.kv = over, !.len = s.len + Len(tokens), !.pend = rest]
  BY DEF ForwardProvisional, over, rest
<1> HIDE DEF t
<1>7. /\ t \in States
      /\ t.kv = over /\ t.rec = s.rec /\ t.len = s.len + Len(tokens)
      /\ t.pend = rest /\ t.ckpt = s.ckpt
  BY <1>4, <1>5, <1>6 DEF States
<1>8. Held(t) = all
  BY <1>7 DEF Held, rest
<1>9. t.ckpt = NoCkpt \/ Marked(t)
  BY <1>7 DEF Good, Marked
<1>10. t.pend.tokens = tokens /\ t.pend.base = s.len
  BY <1>7 DEF rest
<1>11. Good(t)
  BY <1>1, <1>3, <1>7, <1>8, <1>9, <1>10, Zenon DEF Good
<1> QED
  BY <1>1, <1>7, <1>8, <1>10, <1>11 DEF t

(* discard_pending: what was provisional is gone. *)
LEMMA Dropped ==
  ASSUME NEW s, Good(s)
  PROVE  LET t == Discarded(s)
         IN  /\ Good(t) /\ ~HasPending(t) /\ t.pend.base = -1
             /\ Held(t) = First(Held(s), Len(s.rec)) /\ t.ckpt = s.ckpt
             /\ t.rec = s.rec
<1> DEFINE t == Discarded(s)
<1>1. s.rec \in Seq(Token) /\ s.pend.tokens \in Seq(Token) /\ Len(s.rec) \in Nat
      /\ Held(s) \in Seq(Token) /\ s.kv \in Seq(Seq(Token)) /\ Len(s.rec) <= s.len
      /\ Len(Held(s)) = s.len /\ s \in States
  BY Parts DEF Tokens, Good
<1>2. First(Held(s), Len(s.rec)) = s.rec
  <2>1. Len(s.rec) \in 0 .. Len(s.rec)
    BY <1>1
  <2>2. First(Held(s), Len(s.rec)) = First(s.rec, Len(s.rec))
    BY <1>1, <2>1, FirstOfConcat DEF Held
  <2> QED
    BY <1>1, <2>2, FirstAll
<1>3. CASE HasPending(s)
  <2>1. t = [s EXCEPT !.len = Len(s.rec), !.pend = NoPend]
    BY <1>3, Provisional DEF Discarded
  <2> HIDE DEF t
  <2>2. /\ t \in States /\ t.kv = s.kv /\ t.rec = s.rec /\ t.len = Len(s.rec)
        /\ t.pend = NoPend /\ t.ckpt = s.ckpt
    BY <1>1, <2>1, NoTypes DEF States
  <2>3. Len(s.rec) \in 0 .. Len(Held(s))
    BY <1>1
  <2>4. RowsOf(s.kv, Held(s))
    BY DEF Good
  <2>5. RowsOf(t.kv, t.rec)
    BY <1>1, <1>2, <2>2, <2>3, <2>4, RowsOfPrefix
  <2>6. t.ckpt = NoCkpt \/ Marked(t)
    BY <2>2 DEF Good, Marked
  <2>7. Good(t) /\ Held(t) = t.rec /\ t.pend.base = -1 /\ ~HasPending(t)
    BY <2>2, <2>5, <2>6, IsGood
  <2> QED
    BY <1>2, <2>2, <2>7 DEF t
<1>4. CASE ~HasPending(s)
  <2>1. t = s
    BY <1>4 DEF Discarded
  <2> QED
    BY <1>2, <1>4, <2>1, Plain
<1> QED
  BY <1>3, <1>4

(* A pending forward is committed up to len, or refused and dropped. *)
LEMMA Committed ==
  ASSUME NEW s, Good(s), HasPending(s), NEW len \in Nat
  PROVE  LET r == CommitPending(s, len)
         IN  /\ Good(r.st) /\ r.st.pend.base = -1 /\ r.st.ckpt = s.ckpt
             /\ r.ok <=> len \in s.pend.base .. Len(Held(s))
             /\ r.ok => Held(r.st) = First(Held(s), len) /\ r.st.len = len
             /\ ~r.ok => Held(r.st) = First(Held(s), s.pend.base)
             /\ r.ok \in BOOLEAN
<1> DEFINE r == CommitPending(s, len)
           rec == s.rec
           p == s.pend.tokens
           held == Held(s)
           base == s.pend.base
           kept == First(p, len - base)
           all == rec \o kept
           t == [s EXCEPT !.rec = all, !.len = len, !.pend = NoPend]
<1>1. /\ rec \in Seq(Token) /\ p \in Seq(Token) /\ Len(rec) \in Nat /\ Len(p) \in Nat
      /\ held \in Seq(Token) /\ s.kv \in Seq(Seq(Token)) /\ s \in States
      /\ held = rec \o p /\ RowsOf(s.kv, held) /\ base = Len(rec)
  BY Parts, Provisional DEF Tokens, Good, Held
<1>2. /\ base \in Nat /\ Len(held) = base + Len(p)
  BY <1>1, ConcatProperties
<1>3. r = IF len < base \/ len > base + Len(p) THEN Refuse(Discarded(s)) ELSE Ok(t)
  BY DEF CommitPending, Replayed, First
<1> HIDE DEF r, rec, p, held, base, t
<1>4. len \in base .. Len(held) <=> ~(len < base \/ len > base + Len(p))
  BY <1>1, <1>2
<1>5. CASE len \in base .. Len(held)
  <2>1. len \in Len(rec) .. Len(rec) + Len(p) /\ len \in 0 .. Len(held)
    BY <1>1, <1>2, <1>5
  <2>2. /\ First(held, len) = all /\ kept \in Seq(Token)
        /\ all \in Seq(Token) /\ Len(all) = len
    <3>1. /\ First(rec \o p, len) = rec \o First(p, len - Len(rec))
          /\ First(p, len - Len(rec)) \in Seq(Token)
          /\ rec \o First(p, len - Len(rec)) \in Seq(Token)
          /\ Len(rec \o First(p, len - Len(rec))) = len
      <4>1. rec \in Seq(Token) /\ p \in Seq(Token)
        BY <1>1
      <4>2. len \in Len(rec) .. Len(rec) + Len(p)
        BY <2>1
      <4> QED
        BY <4>1, <4>2, Cut
    <3> QED
      BY <1>1, <3>1, Zenon
  <2>3. RowsOf(s.kv, First(held, len))
    BY <1>1, <2>1, RowsOfPrefix
  <2> HIDE DEF kept
  <2>4. t.rec = s.rec \o kept
    BY <1>1 DEF t, rec, States
  <2> HIDE DEF all
  <2>5. /\ t \in States /\ t.kv = s.kv /\ t.rec = all /\ t.len = len
        /\ t.pend = NoPend /\ t.ckpt = s.ckpt
    BY <1>1, <2>2, NoTypes DEF States, t, Tokens
  <2>6. t.ckpt = NoCkpt \/ Marked(t)
    BY <2>2, <2>4, <2>5, StillMarked DEF Tokens
  <2>7. Good(t) /\ Held(t) = t.rec /\ t.pend.base = -1
    BY <2>2, <2>3, <2>5, <2>6, IsGood
  <2>8. r.st = t /\ r.ok = TRUE
    BY <1>3, <1>4, <1>5 DEF Ok
  <2> QED
    BY <1>5, <2>2, <2>5, <2>7, <2>8 DEF r, held, base
<1>6. CASE len \notin base .. Len(held)
  <2>1. r.st = Discarded(s) /\ r.ok = FALSE
    BY <1>3, <1>4, <1>6 DEF Refuse
  <2> QED
    BY <1>1, <1>6, <2>1, Dropped DEF r, held, base, rec
<1> QED
  BY <1>5, <1>6

(* truncate without a pending forward: to the length itself, to nothing or *)
(* to the checkpoint, otherwise refused.                                   *)
LEMMA RolledBack ==
  ASSUME NEW s, Good(s), ~HasPending(s), NEW len \in Nat
  PROVE  LET r == RollBack(s, len)
         IN  /\ Good(r.st) /\ r.st.pend.base = -1 /\ r.ok \in BOOLEAN
             /\ r.ok <=> len \in {Len(Held(s)), 0, s.ckpt.len}
             /\ r.ok => len <= Len(Held(s)) /\ Held(r.st) = First(Held(s), len)
             /\ r.ok => r.st.ckpt.len = IF len = 0 /\ Len(Held(s)) > 0 THEN -1 ELSE s.ckpt.len
             /\ ~r.ok => r.st = s
<1> DEFINE r == RollBack(s, len)
           rec == s.rec
           size == s.len
           mark == s.ckpt.len
<1>1. /\ rec \in Seq(Token) /\ size \in Nat /\ Held(s) = rec /\ size = Len(rec)
      /\ s.pend = NoPend /\ s.pend.base = -1 /\ s \in States /\ s.kv \in Seq(Seq(Token))
      /\ RowsOf(s.kv, rec) /\ mark \in Int
  BY Parts, Plain DEF Tokens, Good
<1>2. mark = -1 \/ (mark \in 0 .. size /\ s.ckpt.rec = First(rec, mark))
  BY <1>1, Parts DEF Marked
<1>3. CASE len = size
  <2>1. r = [st |-> s, ok |-> TRUE]
    BY <1>3 DEF RollBack, Ok
  <2>2. First(rec, size) = rec
    BY <1>1, FirstAll
  <2>3. ~(len = 0 /\ size > 0) /\ len <= size
    BY <1>1, <1>3
  <2> HIDE DEF size, rec
  <2>4. r.st = s /\ r.ok = TRUE
    BY <2>1
  <2> HIDE DEF r
  <2> QED
    BY <1>1, <1>3, <2>2, <2>3, <2>4 DEF r
<1>4. CASE len # size /\ len = 0
  <2> DEFINE t == Reset(s)
  <2>1. r = [st |-> t, ok |-> TRUE]
    BY <1>4 DEF RollBack, Ok
  <2>2. <<>> \in Tokens /\ Len(<<>>) = 0
    BY EmptySeq DEF Tokens
  <2>3. /\ t \in States /\ t.rec = <<>> /\ t.len = 0 /\ t.pend = NoPend /\ t.ckpt = NoCkpt
    BY <1>1, <2>2, NoTypes DEF Reset, States
  <2>4. RowsOf(t.kv, <<>>)
    <3>1. t.kv \in Seq(Tokens)
      BY <2>3 DEF States
    <3>2. Len(t.kv) \in Nat
      BY <3>1, LenProperties
    <3> QED
      BY <2>2, <3>2 DEF RowsOf
  <2> HIDE DEF t
  <2>5. Good(t) /\ Held(t) = <<>> /\ t.pend.base = -1
    BY <2>2, <2>3, <2>4, IsGood
  <2>6. First(rec, 0) = <<>>
    BY <1>1, FirstAll
  <2>7. t.ckpt.len = -1
    BY <2>3 DEF NoCkpt
  <2>8. r.st = t /\ r.ok = TRUE
    BY <2>1
  <2>9. size > 0 /\ len <= size
    BY <1>1, <1>4
  <2> HIDE DEF r, size, rec
  <2> QED
    BY <1>1, <1>4, <2>5, <2>6, <2>7, <2>8, <2>9 DEF r
<1>5. CASE len # size /\ len # 0 /\ len = mark
  <2>1. mark \in 0 .. size /\ s.ckpt.rec = First(rec, mark) /\ len < size
    BY <1>1, <1>2, <1>5
  <2> DEFINE back == s.ckpt.rec
             t == [s EXCEPT !.rec = back, !.len = len]
  <2>2. r = [st |-> t, ok |-> TRUE]
    BY <1>5, <2>1 DEF RollBack, Ok
  <2>3. back \in Seq(Token) /\ Len(back) = len
    BY <1>1, <1>5, <2>1, FirstProps
  <2> HIDE DEF back
  <2>4. /\ t \in States /\ t.kv = s.kv /\ t.rec = back /\ t.len = len
        /\ t.pend = s.pend /\ t.ckpt = s.ckpt
    BY <1>1, <2>3 DEF States, Tokens
  <2>5. back = First(rec, mark) /\ RowsOf(s.kv, back)
    BY <1>1, <2>1, RowsOfPrefix DEF back
  <2>6. First(back, len) = back
    BY <2>3, FirstAll
  <2>7. len \in 0 .. Len(back)
    BY <2>3
  <2> HIDE DEF t
  <2>8. t.ckpt.len = len /\ t.ckpt.rec = back
    BY <1>5, <2>4 DEF back
  <2>9. Marked(t)
    BY <2>4, <2>6, <2>7, <2>8 DEF Marked
  <2>10. Good(t) /\ Held(t) = back /\ t.pend.base = -1
    BY <1>1, <2>3, <2>4, <2>5, <2>9, IsGood
  <2>11. r.st = t /\ r.ok = TRUE
    BY <2>2
  <2> HIDE DEF r
  <2>12. Held(t) = First(rec, len) /\ t.ckpt.len = mark /\ len <= size
    BY <1>1, <1>5, <2>1, <2>5, <2>8, <2>10
  <2> HIDE DEF rec, mark, size
  <2> QED
    BY <1>1, <1>5, <2>10, <2>11, <2>12 DEF r, mark
<1>6. CASE len # size /\ len # 0 /\ len # mark
  <2>1. r = [st |-> s, ok |-> FALSE]
    BY <1>6 DEF RollBack, Refuse
  <2>2. r.st = s /\ r.ok = FALSE
    BY <2>1
  <2> HIDE DEF r
  <2> QED
    BY <1>1, <1>6, <2>2 DEF r
<1> QED
  BY <1>3, <1>4, <1>5, <1>6

(* truncate, commit and checkpoint, with or without a pending forward. *)
LEMMA Truncated ==
  ASSUME NEW s, Good(s), NEW len \in Nat, len <= s.len
  PROVE  LET r    == Truncate(s, len)
             kept == IF HasPending(s) THEN s.pend.base ELSE Len(Held(s))
         IN  /\ Good(r.st) /\ r.st.pend.base = -1 /\ r.ok \in BOOLEAN
             /\ r.ok <=> \/ len \in {kept, 0, s.ckpt.len}
                         \/ HasPending(s) /\ len \in s.pend.base .. Len(Held(s))
             /\ r.ok => Held(r.st) = First(Held(s), len)
             /\ r.ok => r.st.ckpt.len = IF len = 0 /\ kept > 0 THEN -1 ELSE s.ckpt.len
             /\ ~r.ok => Held(r.st) = First(Held(s), kept) /\ r.st.ckpt = s.ckpt
<1> DEFINE r == Truncate(s, len)
           held == Held(s)
           mark == s.ckpt.len
<1>1. held \in Seq(Token) /\ Len(held) = s.len /\ Len(held) \in Nat /\ mark \in Int
      /\ Len(s.rec) \in Nat /\ Len(s.rec) <= Len(held)
  BY Parts DEF Tokens
<1>2. CASE ~HasPending(s)
  <2>1. r = RollBack(s, len)
    BY <1>2 DEF Truncate, Discarded
  <2>2. First(held, Len(held)) = held
    BY <1>1, FirstAll
  <2> HIDE DEF r, held, mark
  <2> QED
    BY <1>2, <2>1, <2>2, RolledBack DEF r, held, mark
<1>3. CASE HasPending(s) /\ len > s.pend.base
  <2>1. r = CommitPending(s, len)
    BY <1>3 DEF Truncate
  <2>2. s.pend.base = Len(s.rec)
    BY <1>3, Provisional
  <2>3. len \in Len(s.rec) .. Len(held) /\ len # 0 /\ len <= Len(held)
    BY <1>1, <1>3, <2>2
  <2> HIDE DEF r, held, mark
  <2>4. r.ok = TRUE /\ Good(r.st) /\ r.st.pend.base = -1 /\ r.st.ckpt = s.ckpt
        /\ Held(r.st) = First(held, len)
    BY <1>3, <2>1, <2>2, <2>3, Committed DEF held
  <2> QED
    BY <1>3, <2>2, <2>3, <2>4 DEF r, held, mark
<1>4. CASE HasPending(s) /\ ~(len > s.pend.base)
  <2> DEFINE d == Discarded(s)
             base == s.pend.base
  <2>1. r = RollBack(d, len)
    BY <1>4 DEF Truncate
  <2>2. base = Len(s.rec)
    BY <1>4, Provisional
  <2>3. /\ Good(d) /\ ~HasPending(d) /\ d.pend.base = -1
        /\ Held(d) = First(held, base) /\ d.ckpt = s.ckpt
    BY <2>2, Dropped
  <2>4. Len(Held(d)) = base /\ base \in Nat
    BY <1>1, <2>2, <2>3, FirstProps
  <2> HIDE DEF d, r, mark, base
  <2>5. /\ Good(r.st) /\ r.st.pend.base = -1 /\ r.ok \in BOOLEAN
        /\ r.ok <=> len \in {base, 0, d.ckpt.len}
        /\ r.ok => len <= base /\ Held(r.st) = First(Held(d), len)
        /\ r.ok => r.st.ckpt.len = IF len = 0 /\ base > 0 THEN -1 ELSE d.ckpt.len
        /\ ~r.ok => r.st = d
    BY <2>1, <2>3, <2>4, RolledBack
  <2>6. r.ok => First(Held(d), len) = First(held, len)
    BY <1>1, <2>2, <2>3, <2>4, <2>5, FirstOfFirst
  <2>7. len \in base .. Len(held) => len = base
    BY <1>1, <1>4, <2>4 DEF base
  <2> HIDE DEF held
  <2>8. r.ok <=> \/ len \in {base, 0, mark}
                 \/ len \in base .. Len(held)
    BY <2>3, <2>5, <2>7 DEF mark
  <2> QED
    BY <1>4, <2>3, <2>5, <2>6, <2>8 DEF r, held, mark, base
<1> QED
  BY <1>2, <1>3, <1>4

(* A checkpoint settles what is provisional.                               *)
LEMMA Checkpointed ==
  ASSUME NEW s, Good(s)
  PROVE  LET t == Checkpoint(s)
         IN  /\ Good(t) /\ Held(t) = Held(s)
             /\ t.pend.base = -1 /\ t.ckpt.len = Len(Held(s))
<1> DEFINE c == Settled(s)
           t == Checkpoint(s)
           held == Held(s)
<1>1. held \in Seq(Token) /\ Len(held) = s.len /\ s.len \in Nat
      /\ Len(s.rec) \in Nat /\ Len(s.rec) <= s.len
  BY Parts DEF Tokens
<1>2. First(held, Len(held)) = held
  BY <1>1, FirstAll
<1>3. Good(c) /\ Held(c) = held /\ c.pend.base = -1
  <2>1. CASE HasPending(s)
    <3>1. c = CommitPending(s, s.len).st
      BY <2>1 DEF Settled
    <3>2. s.len \in s.pend.base .. Len(Held(s))
      BY <1>1, <2>1, Provisional
    <3> QED
      BY <1>1, <1>2, <2>1, <3>1, <3>2, Committed
  <2>2. CASE ~HasPending(s)
    BY <2>2, Plain DEF Settled
  <2> QED
    BY <2>1, <2>2
<1> HIDE DEF c
<1>4. ~HasPending(c)
  BY <1>3 DEF HasPending
<1>5. c.pend = NoPend /\ c.rec = held /\ c.len = Len(held) /\ c \in States
      /\ RowsOf(c.kv, held)
  BY <1>3, <1>4, Plain DEF Good
<1> DEFINE mark == [len |-> c.len, rec |-> c.rec]
<1>6. mark \in [len : Int, rec : Tokens]
  BY <1>1, <1>5 DEF Tokens
<1> HIDE DEF mark, held
<1>7. t = [c EXCEPT !.ckpt = mark]
  BY DEF Checkpoint, c, mark
<1> HIDE DEF t
<1>8. /\ t \in States /\ t.kv = c.kv /\ t.rec = c.rec /\ t.len = c.len
      /\ t.pend = NoPend /\ t.ckpt = mark
  BY <1>5, <1>6, <1>7 DEF States
<1>9. mark.len = Len(held) /\ mark.rec = held
  BY <1>5 DEF mark
<1>10. Len(held) \in 0 .. Len(held)
  BY <1>1
<1>11. Marked(t)
  BY <1>2, <1>5, <1>8, <1>9, <1>10 DEF Marked
<1>12. Good(t) /\ Held(t) = t.rec /\ t.pend.base = -1
  BY <1>5, <1>8, <1>11, IsGood
<1> QED
  BY <1>5, <1>8, <1>9, <1>12 DEF t, held

(* A snapshot at the length or at the checkpoint is a copy of that prefix. *)
LEMMA Snapped ==
  ASSUME NEW s, Good(s), NEW len \in Nat
  PROVE  /\ CanSnapshot(s, len) <=>
              s.pend.base = -1 /\ len \in {Len(Held(s)), s.ckpt.len}
         /\ CanSnapshot(s, len) =>
              Copy(Snapshot(s, len)) /\ Snapshot(s, len).rec = First(Held(s), len)
<1> DEFINE held == Held(s)
           mark == s.ckpt.len
           kv == s.kv
           size == s.len
<1>1. /\ held \in Seq(Token) /\ Len(held) = size /\ size \in Nat /\ mark \in Int
      /\ RowsOf(kv, held) /\ kv \in Seq(Seq(Token)) /\ Len(kv) \in Nat
      /\ size <= Len(kv)
  BY Parts, LenProperties DEF Good, RowsOf, Tokens
<1>2. HasPending(s) => s.pend.base # -1
  BY Provisional
<1>3. ~HasPending(s) => s.pend.base = -1 /\ held = s.rec
  BY Plain
<1>4. ASSUME ~HasPending(s), mark = len
      PROVE  len \in 0 .. size /\ s.ckpt.rec = First(held, len)
  BY <1>1, <1>3, <1>4, Parts DEF Marked
<1> HIDE DEF held, mark, kv, size
<1>5. CanSnapshot(s, len) <=> s.pend.base = -1 /\ len \in {Len(held), mark}
  BY <1>1, <1>2, <1>3, <1>4 DEF CanSnapshot, mark, kv, size
<1>6. ASSUME CanSnapshot(s, len)
      PROVE  Copy(Snapshot(s, len)) /\ Snapshot(s, len).rec = First(held, len)
  <2> DEFINE snap == Snapshot(s, len)
             rows == SubSeq(kv, 1, len)
             copy == IF len = size THEN s.rec ELSE s.ckpt.rec
  <2>1. ~HasPending(s) /\ (len = size \/ mark = len)
    BY <1>6 DEF CanSnapshot, mark, size
  <2>2. First(held, size) = held
    BY <1>1, FirstAll
  <2>3. copy = First(held, len) /\ len \in 0 .. Len(held)
    BY <1>1, <1>3, <1>4, <2>1, <2>2
  <2>4. copy \in Seq(Token) /\ Len(copy) = len /\ RowsOf(kv, copy)
    BY <1>1, <2>3, FirstProps, RowsOfPrefix
  <2>5. rows = First(kv, len) /\ len \in 0 .. Len(kv)
    BY <1>1, <2>3 DEF First
  <2>6. rows \in Seq(Seq(Token)) /\ Len(rows) = len /\ \A i \in 1 .. len : rows[i] = kv[i]
    BY <1>1, <2>5, FirstProps
  <2>7. snap = [len |-> len, kv |-> rows, rec |-> copy]
    BY DEF Snapshot, kv, size
  <2> HIDE DEF rows, copy, snap
  <2>8. snap.len = len /\ snap.kv = rows /\ snap.rec = copy
    BY <2>7
  <2>9. snap \in [len : Nat, kv : Seq(Tokens), rec : Tokens]
    BY <2>4, <2>6, <2>7 DEF Tokens
  <2>10. RowsOf(rows, copy)
    BY <2>4, <2>6 DEF RowsOf
  <2> QED
    BY <2>3, <2>4, <2>6, <2>8, <2>9, <2>10 DEF Copy, snap
<1> QED
  BY <1>5, <1>6 DEF held, mark

(* A reset state holds nothing.                                            *)
LEMMA Cleared ==
  ASSUME NEW s, Good(s)
  PROVE  LET t == Reset(s)
         IN  Good(t) /\ Held(t) = <<>> /\ t.pend.base = -1 /\ t.ckpt.len = -1
<1> DEFINE t == Reset(s)
<1>1. <<>> \in Tokens /\ Len(<<>>) = 0
  BY EmptySeq DEF Tokens
<1>2. s \in States /\ s.kv \in Seq(Tokens)
  BY Parts DEF Good
<1>3. /\ t \in States /\ t.kv = s.kv /\ t.rec = <<>> /\ t.len = 0
      /\ t.pend = NoPend /\ t.ckpt = NoCkpt
  BY <1>1, <1>2, NoTypes DEF Reset, States
<1> HIDE DEF t
<1>4. RowsOf(t.kv, <<>>)
  BY <1>1, <1>2, <1>3, LenProperties DEF RowsOf
<1>5. Good(t) /\ Held(t) = <<>> /\ t.pend.base = -1 /\ t.ckpt.len = -1
  BY <1>1, <1>3, <1>4, IsGood DEF NoCkpt
<1> QED
  BY <1>5 DEF t

(* A restored state holds what the copy does, over any rows.               *)
LEMMA Restored ==
  ASSUME NEW s, Good(s), NEW snap, Copy(snap)
  PROVE  LET t == Restore(s, snap)
         IN  Good(t) /\ Held(t) = snap.rec /\ t.pend.base = -1 /\ t.ckpt.len = -1
<1> DEFINE t == Restore(s, snap)
           over == Overlaid(s.kv, snap.kv)
<1>1. /\ snap.rec \in Tokens /\ snap.kv \in Seq(Tokens) /\ snap.len \in Nat
      /\ snap.len = Len(snap.rec) /\ Len(snap.kv) = Len(snap.rec)
      /\ RowsOf(snap.kv, snap.rec) /\ s.kv \in Seq(Tokens)
  BY Parts DEF Copy
<1>2. over \in Seq(Tokens) /\ RowsOf(over, snap.rec)
  BY <1>1, RowsCopied DEF Tokens
<1> HIDE DEF over
<1>3. t = [kv |-> over, rec |-> snap.rec, len |-> snap.len, ckpt |-> NoCkpt, pend |-> NoPend]
  BY DEF Restore, over
<1> HIDE DEF t
<1>4. /\ t.kv = over /\ t.rec = snap.rec /\ t.len = snap.len /\ t.ckpt = NoCkpt
      /\ t.pend = NoPend
  BY <1>3
<1>5. t \in States
  BY <1>1, <1>2, <1>3, NoTypes DEF States
<1>6. Good(t) /\ Held(t) = t.rec /\ t.pend.base = -1
  BY <1>1, <1>2, <1>4, <1>5, IsGood
<1>7. NoCkpt.len = -1
  BY DEF NoCkpt
<1> QED
  BY <1>4, <1>6, <1>7 DEF t

-----------------------------------------------------------------------------
StateInv == Good(st) /\ \A snap \in snaps : Copy(snap)

(* What a step keeps, and the step of the contract it is. *)
Kept == Good(st') /\ \A snap \in snaps' : Copy(snap)

(* What the state holds is what it stands for.                             *)
LEMMA Mapped == Fed = Held(st) /\ Fed' = Held(st')
BY DEF Fed, Held

(* What is fed are tokens.                                                 *)
LEMMA ChunkIsTokens ==
  ASSUME NEW tokens \in Chunks
  PROVE  tokens \in Tokens /\ Len(tokens) \in Nat
<1>1. PICK n \in 1 .. MaxLen : tokens \in [1 .. n -> Token]
  BY DEF Chunks
<1>2. n \in Nat
  BY StateAssumption
<1> QED
  BY <1>1, <1>2 DEF Tokens

(* Each call keeps the invariant and is one the contract allows.           *)
LEMMA FeedStep ==
  ASSUME StateInv, NEW tokens \in Chunks, Feed(tokens) \/ FeedProvisional(tokens)
  PROVE  Kept /\ Contract!StateNext
<1>1. tokens \in Tokens /\ Len(tokens) \in Nat /\ tokens \in Contract!Chunks
  BY ChunkIsTokens DEF Chunks, Contract!Chunks
<1>2. ~HasPending(st) /\ st.len + Len(tokens) <= MaxLen /\ Good(st)
  BY DEF StateInv, Feed, FeedProvisional, CanForward
<1>3. Len(Held(st)) = st.len /\ st.pend.base = -1
  BY <1>2, Parts, Plain
<1>4. CASE Feed(tokens)
  <2>1. st' = Forward(st, tokens) /\ ret' = TRUE /\ snaps' = snaps
    BY <1>4 DEF Feed, Return, Ok
  <2>2. /\ Good(st') /\ Held(st') = Held(st) \o tokens
        /\ st'.pend.base = -1 /\ st'.ckpt = st.ckpt
    BY <1>1, <1>2, <2>1, Forwarded
  <2>3. Contract!Feed(tokens, FALSE)
    BY <1>2, <1>3, <2>1, <2>2, Mapped DEF Contract!Feed
  <2> QED
    BY <1>1, <2>1, <2>2, <2>3 DEF Kept, StateInv, Contract!StateNext
<1>5. CASE FeedProvisional(tokens)
  <2>1. st' = ForwardProvisional(st, tokens) /\ ret' = TRUE /\ snaps' = snaps
    BY <1>5 DEF FeedProvisional, Return, Ok
  <2>2. /\ Good(st') /\ Held(st') = Held(st) \o tokens
        /\ st'.pend.base = Len(Held(st)) /\ st'.ckpt = st.ckpt
    BY <1>1, <1>2, <2>1, ForwardedProvisionally
  <2>3. Contract!Feed(tokens, TRUE)
    BY <1>2, <1>3, <2>1, <2>2, Mapped DEF Contract!Feed
  <2> QED
    BY <1>1, <2>1, <2>2, <2>3 DEF Kept, StateInv, Contract!StateNext
<1> QED
  BY <1>4, <1>5

(* The length a provisional tail is dropped to. *)
KeptLen == IF HasPending(st) THEN st.pend.base ELSE Len(Held(st))

(* Where a checkpoint can be.                                              *)
LEMMA SettledIs ==
  ASSUME Good(st)
  PROVE  /\ KeptLen = Contract!Settled
         /\ HasPending(st) <=> st.pend.base >= 0
BY Plain, Provisional, Mapped DEF KeptLen, Contract!Settled, HasPending

(* Truncating: a refused length drops a provisional tail.                  *)
LEMMA RollBackStep ==
  ASSUME StateInv, NEW len \in 0 .. MaxLen, RollBackTo(len)
  PROVE  Kept /\ (Contract!StateNext \/ DropsTail)
<1> DEFINE r == Truncate(st, len)
<1>1. Good(st) /\ len <= st.len /\ len \in Nat
  BY StateAssumption DEF StateInv, RollBackTo
<1>2. st' = r.st /\ ret' = r.ok /\ snaps' = snaps
  BY DEF RollBackTo, Return
<1>3. /\ Good(r.st) /\ r.st.pend.base = -1 /\ r.ok \in BOOLEAN
      /\ r.ok <=> \/ len \in {KeptLen, 0, st.ckpt.len}
                  \/ HasPending(st) /\ len \in st.pend.base .. Len(Held(st))
      /\ r.ok => Held(r.st) = First(Held(st), len)
      /\ r.ok => r.st.ckpt.len = IF len = 0 /\ KeptLen > 0 THEN -1 ELSE st.ckpt.len
      /\ ~r.ok => Held(r.st) = First(Held(st), KeptLen) /\ r.st.ckpt = st.ckpt
  BY <1>1, Truncated DEF KeptLen
<1>0. ~HasPending(st) => st.pend.base = -1
  BY <1>1, Plain
<1> HIDE DEF r
<1>4. r.ok <=> Contract!CanRollBack(len)
  BY <1>1, <1>3, SettledIs, Mapped DEF Contract!CanRollBack
<1>5. Len(Held(st)) = st.len
  BY <1>1, Parts
<1>6. CASE r.ok
  <2>1. Contract!TruncateOk(len)
    BY <1>1, <1>2, <1>3, <1>4, <1>5, <1>6, SettledIs, Mapped
    DEF Contract!TruncateOk, Contract!Prefix, First
  <2> QED
    BY <1>2, <1>3, <2>1 DEF Kept, StateInv, Contract!StateNext
<1>7. CASE ~r.ok /\ ~HasPending(st)
  <2>1. Held(r.st) = Held(st)
    <3>1. KeptLen = Len(Held(st)) /\ Held(st) \in Seq(Token)
      BY <1>1, <1>7, Parts DEF KeptLen, Tokens
    <3> QED
      BY <1>3, <1>7, <3>1, FirstAll
  <2>2. Contract!TruncateFails(len)
    BY <1>0, <1>1, <1>2, <1>3, <1>4, <1>7, <2>1, Mapped DEF Contract!TruncateFails
  <2> QED
    BY <1>2, <1>3, <2>2 DEF Kept, StateInv, Contract!StateNext
<1>8. CASE ~r.ok /\ HasPending(st)
  <2>1. st.pend.base \in Nat /\ KeptLen = st.pend.base /\ len \in 0 .. st.pend.base
    BY <1>1, <1>3, <1>5, <1>8, Provisional DEF KeptLen
  <2>2. DropsTail
    BY <1>1, <1>2, <1>3, <1>4, <1>8, <2>1, Mapped DEF DropsTail, Contract!Prefix, First
  <2> QED
    BY <1>2, <1>3, <2>2 DEF Kept, StateInv
<1> QED
  BY <1>6, <1>7, <1>8

(* Committing part of a provisional forward.                               *)
LEMMA CommitStep ==
  ASSUME StateInv, NEW len \in 0 .. MaxLen, CommitTo(len)
  PROVE  Kept /\ Contract!StateNext
<1> DEFINE r == Commit(st, len)
<1>1. Good(st) /\ len \in Nat /\ Len(Held(st)) \in Nat /\ Held(st) \in Seq(Token)
  BY StateAssumption, Parts, LenProperties DEF StateInv, Tokens
<1>2. st' = r.st /\ ret' = r.ok /\ snaps' = snaps
  BY DEF CommitTo, Return
<1>3. CASE HasPending(st)
  <2>1. r = CommitPending(st, len)
    BY <1>3 DEF Commit
  <2>2. st.pend.base \in Nat
    BY <1>1, <1>3, Provisional
  <2>3. /\ Good(r.st) /\ r.st.pend.base = -1 /\ r.st.ckpt = st.ckpt
        /\ r.ok <=> len \in st.pend.base .. Len(Held(st))
        /\ r.ok => Held(r.st) = First(Held(st), len)
        /\ ~r.ok => Held(r.st) = First(Held(st), st.pend.base)
        /\ r.ok \in BOOLEAN
    BY <1>1, <1>3, <2>1, Committed
  <2> HIDE DEF r
  <2>4. CASE r.ok
    <3>1. Contract!CommitOk(len)
      BY <1>2, <2>2, <2>3, <2>4, Mapped DEF Contract!CommitOk, Contract!Prefix, First
    <3> QED
      BY <1>2, <2>3, <3>1 DEF Kept, StateInv, Contract!StateNext
  <2>5. CASE ~r.ok
    <3>1. Contract!CommitFails(len)
      BY <1>2, <2>2, <2>3, <2>5, Mapped DEF Contract!CommitFails, Contract!Prefix, First
    <3> QED
      BY <1>2, <2>3, <3>1 DEF Kept, StateInv, Contract!StateNext
  <2> QED
    BY <2>4, <2>5
<1>4. CASE ~HasPending(st)
  <2>1. r = RollBack(st, len)
    BY <1>4 DEF Commit
  <2>2. /\ Good(r.st) /\ r.st.pend.base = -1 /\ r.ok \in BOOLEAN
        /\ r.ok <=> len \in {Len(Held(st)), 0, st.ckpt.len}
        /\ r.ok => len <= Len(Held(st)) /\ Held(r.st) = First(Held(st), len)
        /\ r.ok => r.st.ckpt.len = IF len = 0 /\ Len(Held(st)) > 0 THEN -1 ELSE st.ckpt.len
        /\ ~r.ok => r.st = st
    BY <1>1, <1>4, <2>1, RolledBack
  <2>3. KeptLen = Len(Held(st)) /\ KeptLen = Contract!Settled /\ ~(st.pend.base >= 0)
        /\ First(Held(st), Len(Held(st))) = Held(st)
    BY <1>1, <1>4, SettledIs, FirstAll DEF KeptLen
  <2> HIDE DEF r
  <2>4. r.ok <=> Contract!CanRollBack(len)
    BY <2>2, <2>3, Mapped DEF Contract!CanRollBack
  <2>5. CASE r.ok
    <3>1. Contract!TruncateOk(len)
      BY <1>2, <2>2, <2>3, <2>4, <2>5, Mapped DEF Contract!TruncateOk, Contract!Prefix, First
    <3> QED
      BY <1>2, <2>2, <3>1 DEF Kept, StateInv, Contract!StateNext
  <2>6. CASE ~r.ok
    <3>1. Contract!TruncateFails(len)
      BY <1>2, <2>2, <2>4, <2>6, Mapped DEF Contract!TruncateFails
    <3> QED
      BY <1>2, <2>2, <3>1 DEF Kept, StateInv, Contract!StateNext
  <2> QED
    BY <2>5, <2>6
<1> QED
  BY <1>3, <1>4

(* Taking a snapshot, or being refused one.                                *)
LEMMA SnapshotStep ==
  ASSUME StateInv, NEW len \in 0 .. MaxLen, TakeSnapshot(len)
  PROVE  Kept /\ Contract!StateNext
<1>1. Good(st) /\ len \in Nat
  BY StateAssumption DEF StateInv
<1>2. /\ CanSnapshot(st, len) <=> st.pend.base = -1 /\ len \in {Len(Held(st)), st.ckpt.len}
      /\ CanSnapshot(st, len) =>
           Copy(Snapshot(st, len)) /\ Snapshot(st, len).rec = First(Held(st), len)
  BY <1>1, Snapped
<1>3. CASE CanSnapshot(st, len)
  <2> DEFINE new == Snapshot(st, len)
  <2>1. snaps' = snaps \cup {new} /\ ret' = TRUE /\ st' = st
    BY <1>3 DEF TakeSnapshot
  <2>2. Copy(new) /\ new.rec = First(Held(st), len)
    BY <1>2, <1>3
  <2> HIDE DEF new
  <2>3. {snap.rec : snap \in snaps'} = {snap.rec : snap \in snaps} \cup {new.rec}
    BY <2>1
  <2>4. Contract!Save(len)
    BY <1>2, <1>3, <2>1, <2>2, <2>3, Mapped DEF Contract!Save, Contract!Prefix, First
  <2> QED
    BY <2>1, <2>2, <2>4 DEF Kept, StateInv, Contract!StateNext
<1>4. CASE ~CanSnapshot(st, len)
  <2>1. snaps' = snaps /\ ret' = FALSE /\ st' = st
    BY <1>4 DEF TakeSnapshot, CanSnapshot
  <2>2. st.pend.base >= 0 \/ st.pend.base = -1
    BY <1>1, Plain, SettledIs
  <2>3. Contract!SaveFails(len)
    BY <1>2, <1>4, <2>1, <2>2, Mapped DEF Contract!SaveFails
  <2> QED
    BY <2>1, <2>3 DEF Kept, StateInv, Contract!StateNext
<1> QED
  BY <1>3, <1>4

(* Taking a checkpoint.                                                    *)
LEMMA CheckpointStep ==
  ASSUME StateInv, SaveCheckpoint
  PROVE  Kept /\ Contract!StateNext
<1>1. Good(st) /\ st' = Checkpoint(st) /\ snaps' = snaps /\ ret' = ret
  BY DEF StateInv, SaveCheckpoint
<1>2. /\ Good(st') /\ Held(st') = Held(st)
      /\ st'.pend.base = -1 /\ st'.ckpt.len = Len(Held(st))
  BY <1>1, Checkpointed
<1>3. Contract!Mark
  BY <1>1, <1>2, Mapped DEF Contract!Mark
<1> QED
  BY <1>1, <1>2, <1>3 DEF Kept, StateInv, Contract!StateNext

(* Starting over.                                                          *)
LEMMA ResetStep ==
  ASSUME StateInv, StartOver
  PROVE  Kept /\ Contract!StateNext
<1>1. Good(st) /\ st' = Reset(st) /\ snaps' = snaps /\ ret' = TRUE
  BY DEF StateInv, StartOver, Return, Ok
<1>2. Good(st') /\ Held(st') = <<>> /\ st'.pend.base = -1 /\ st'.ckpt.len = -1
  BY <1>1, Cleared
<1>3. Contract!Clear
  BY <1>1, <1>2, Mapped DEF Contract!Clear
<1> QED
  BY <1>1, <1>2, <1>3 DEF Kept, StateInv, Contract!StateNext

(* Restoring a snapshot.                                                   *)
LEMMA RestoreStep ==
  ASSUME StateInv, LoadSnapshot
  PROVE  Kept /\ Contract!StateNext
<1>1. PICK snap \in snaps : st' = Restore(st, snap) /\ ret' = TRUE /\ snaps' = snaps
  BY DEF LoadSnapshot, Return, Ok
<1>2. Good(st) /\ Copy(snap)
  BY DEF StateInv
<1>3. Good(st') /\ Held(st') = snap.rec /\ st'.pend.base = -1 /\ st'.ckpt.len = -1
  BY <1>1, <1>2, Restored
<1>4. Contract!Load(snap.rec)
  BY <1>1, <1>3, Mapped DEF Contract!Load
<1>5. snap.rec \in {x.rec : x \in snaps}
  OBVIOUS
<1> QED
  BY <1>1, <1>3, <1>4, <1>5 DEF Kept, StateInv, Contract!StateNext

-----------------------------------------------------------------------------
(* The first state.                                                        *)
LEMMA InitGood == Init => StateInv /\ Contract!StateInit
<1> SUFFICES ASSUME Init PROVE StateInv /\ Contract!StateInit
  OBVIOUS
<1>1. st = NewState /\ snaps = {} /\ ret = TRUE
  BY DEF Init
<1>2. Good(st) /\ Held(st) = <<>>
  BY <1>1, Fresh
<1>3. st.pend.base = -1 /\ st.ckpt.len = -1
  BY <1>1 DEF NewState, NoPend, NoCkpt
<1> QED
  BY <1>1, <1>2, <1>3, Mapped DEF StateInv, Contract!StateInit

(* Every step.                                                             *)
LEMMA NextKeeps ==
  StateInv /\ [Next]_vars =>
    StateInv' /\ [Contract!StateNext \/ DropsTail]_(Contract!stateVars)
<1> SUFFICES ASSUME StateInv, [Next]_vars
             PROVE  StateInv' /\ [Contract!StateNext \/ DropsTail]_(Contract!stateVars)
  OBVIOUS
<1>1. CASE Next
  <2>1. Kept /\ (Contract!StateNext \/ DropsTail)
    BY <1>1, FeedStep, RollBackStep, CommitStep, SnapshotStep, CheckpointStep,
       ResetStep, RestoreStep DEF Next
  <2> QED
    BY <2>1 DEF Kept, StateInv
<1>2. CASE UNCHANGED vars
  BY <1>2 DEF vars, StateInv, Good, Held, Marked, Contract!stateVars, Fed
<1> QED
  BY <1>1, <1>2

(* So it always holds.                                                     *)
LEMMA StateInvariance == Spec => []StateInv
<1>1. Init => StateInv
  BY InitGood
<1>2. StateInv /\ [Next]_vars => StateInv'
  BY NextKeeps
<1> QED
  BY <1>1, <1>2, PTL DEF Spec

(* A good state is an exact one.                                           *)
LEMMA GoodIsExact == Good(st) => StateExact
<1> SUFFICES ASSUME Good(st) PROVE Holds(st, Fed) /\ CheckpointWithin(st, Fed)
  BY DEF StateExact
<1> DEFINE held == Held(st)
           rec == st.rec
<1>1. /\ held \in Seq(Token) /\ rec \in Seq(Token) /\ st.pend.tokens \in Seq(Token)
      /\ Len(held) = st.len /\ st.len \in Nat /\ Len(rec) \in Nat /\ Len(rec) <= st.len
      /\ RowsOf(st.kv, held) /\ held = rec \o st.pend.tokens /\ Fed = held
  BY Parts, Mapped DEF Good, Tokens, Held
<1>2. First(held, Len(rec)) = rec
  <2>1. Len(rec) \in 0 .. Len(rec)
    BY <1>1
  <2> QED
    BY <1>1, <2>1, FirstOfConcat, FirstAll
<1>3. HasPending(st) => st.pend.base = Len(rec)
  BY Provisional
<1>4. ~HasPending(st) => held = rec
  BY Plain
<1> HIDE DEF held, rec
<1>5. Holds(st, Fed)
  BY <1>1, <1>2, <1>3, <1>4 DEF Holds, RowsOf, First, rec
<1>6. ASSUME st.ckpt # NoCkpt
      PROVE  /\ st.ckpt.len \in 0 .. Len(rec)
             /\ st.ckpt.rec = First(held, st.ckpt.len)
  <2>1. Marked(st)
    BY <1>6 DEF Good
  <2>2. st.ckpt.len \in 0 .. Len(rec) /\ st.ckpt.rec = First(rec, st.ckpt.len)
    BY <2>1 DEF Marked, rec
  <2>3. First(held, st.ckpt.len) = First(rec, st.ckpt.len)
    BY <1>1, <2>2, FirstOfConcat
  <2> QED
    BY <2>2, <2>3
<1>7. CheckpointWithin(st, Fed)
  BY <1>1, <1>3, <1>6 DEF CheckpointWithin, First
<1> QED
  BY <1>5, <1>7

(* KV rows, recurrent part, length and checkpoint agree on one sequence of *)
(* tokens after any calls of Qwen35State: provisional forwards, partial    *)
(* commits, roll-backs, restores over longer rows.                         *)
THEOREM StateAlwaysExact == Spec => []StateExact
<1>1. StateInv => StateExact
  BY GoodIsExact DEF StateInv
<1> QED
  BY StateInvariance, <1>1, PTL

(* A snapshot is a copy of one prefix, rows and recurrent part alike, and  *)
(* stays so whatever happens to the state it was taken of.                 *)
THEOREM SnapshotsAlwaysExact == Spec => []SnapshotsExact
<1>1. StateInv => SnapshotsExact
  BY DEF StateInv, SnapshotsExact, Copy, SnapshotTrue, RowsOf, First
<1> QED
  BY StateInvariance, <1>1, PTL

(* Every method of Qwen35State keeps the contract of ModelState: it leaves *)
(* the state as if only the tokens of the result had ever been fed, and a  *)
(* refused one leaves it untouched - except that truncate, refusing a      *)
(* length before a provisional tail, drops the tail (DropsTail).           *)
THEOREM ContractKept == Spec => KeepsContract
<1>1. Init => Contract!StateInit
  BY InitGood
<1>2. StateInv /\ [Next]_vars => [Contract!StateNext \/ DropsTail]_(Contract!stateVars)
  BY NextKeeps
<1> QED
  BY <1>1, <1>2, StateInvariance, PTL DEF Spec, KeepsContract

-----------------------------------------------------------------------------
(* A set of naturals has a least member, a bounded one a greatest.         *)
LEMMA Least ==
  ASSUME NEW S \in SUBSET Nat, S # {}
  PROVE  \E m \in S : \A n \in S : m <= n
<1> DEFINE R == OpToRel(<, Nat)
<1>1. \A a, b \in Nat : a < b => <<a, b>> \in R
  <2>1. R = {ss \in Nat \X Nat : ss[1] < ss[2]} BY Zenon DEF OpToRel
  <2> QED BY <2>1
<1>2. IsWellFoundedOn(R, Nat) BY NatLessThanWellFounded
<1> HIDE DEF R
<1>3. PICK m \in S : \A n \in S : <<n, m>> \notin R BY <1>2, WFMin, Zenon
<1>4. ASSUME NEW n \in S PROVE m <= n
  <2>1. n \in Nat /\ m \in Nat OBVIOUS
  <2>2. ~(n < m) BY <1>1, <1>3, <2>1, Zenon
  <2> QED BY <2>1, <2>2
<1> QED BY <1>4

(* Reflected, the least of the differences.                                *)
LEMMA Greatest ==
  ASSUME NEW k \in Nat, NEW S \in SUBSET (0 .. k), S # {}
  PROVE  \E m \in S : \A n \in S : n <= m
<1> DEFINE R == {d \in 0 .. k : k - d \in S}
<1>1. \A n \in S : n \in 0 .. k /\ k - n \in 0 .. k /\ k - (k - n) = n OBVIOUS
<1>2. \A n \in S : k - n \in R BY <1>1
<1>3. R # {} /\ R \in SUBSET Nat
  <2>1. PICK n \in S : TRUE OBVIOUS
  <2>2. k - n \in R BY <1>2
  <2>3. R \in SUBSET Nat OBVIOUS
  <2> HIDE DEF R
  <2> QED BY <2>2, <2>3
<1>4. \A d \in R : d \in 0 .. k /\ k - d \in S OBVIOUS
<1> HIDE DEF R
<1>5. PICK d \in R : \A e \in R : d <= e BY <1>3, Least
<1>6. k - d \in S /\ d \in 0 .. k BY <1>4
<1>7. ASSUME NEW n \in S PROVE n <= k - d
  <2>1. d <= k - n BY <1>2, <1>5
  <2> QED BY <1>1, <1>6, <2>1
<1> QED BY <1>6, <1>7

-----------------------------------------------------------------------------
(* The drafter's context.                                                  *)

Row == [pos : Nat, of : Seq(Token)]
DraftTypeOK == fed \in Seq(Token) /\ seq \in Seq(Token) /\ ctx \in Seq(Row) /\ pend \in Seq(Row)

Ascending(rows) == \A i, j \in 1 .. Len(rows) : i < j => rows[i].pos < rows[j].pos
RowsHold(rows, held) ==
  /\ Ascending(rows)
  /\ \A i \in 1 .. Len(rows) :
       rows[i].pos < Len(held) /\ rows[i].of = First(held, rows[i].pos + 1)
DraftInv == DraftTypeOK /\ RowsHold(ctx \o pend, fed) /\ seq = fed

(* What RowsTrue says of the drafter is what the invariant says. *)
LEMMA DraftRows ==
  ASSUME DraftTypeOK
  PROVE  Drafter!RowsTrue <=> RowsHold(ctx \o pend, fed) /\ seq = fed
<1>1. PICK rows \in Seq(Row) : rows = ctx \o pend BY ConcatProperties DEF DraftTypeOK
<1>2. DOMAIN rows = 1 .. Len(rows) BY LenProperties
<1>3. Drafter!AllRows = rows BY <1>1 DEF Drafter!AllRows
<1>4. \A s, n : Drafter!First(s, n) = First(s, n) BY DEF Drafter!First, First
<1> QED BY <1>1, <1>2, <1>3, <1>4 DEF Drafter!RowsTrue, RowsHold, Ascending

(* The parts of a row. *)
LEMMA RowProps ==
  ASSUME NEW rows \in Seq(Row), NEW i \in 1 .. Len(rows)
  PROVE  rows[i] \in Row /\ rows[i].pos \in Nat /\ rows[i].of \in Seq(Token)
<1>1. rows[i] \in Row BY ElementOfSeq
<1> QED BY <1>1 DEF Row

(* truncate_positions and truncate_pending keep a prefix: of rows in       *)
(* ascending order, all that are before a position.                        *)
LEMMA BeforeIs ==
  ASSUME NEW rows \in Seq(Row), Ascending(rows), NEW len \in Nat
  PROVE  \E k \in 0 .. Len(rows) :
           /\ Drafter!Before(rows, len) = First(rows, k)
           /\ \A i \in 1 .. Len(rows) : rows[i].pos < len <=> i <= k
<1>0. PICK n \in Nat : n = Len(rows) BY LenProperties
<1>1. \A i \in 1 .. n : rows[i].pos \in Nat BY <1>0, RowProps
<1> DEFINE S == {k \in 0 .. n : \A i \in 1 .. n : rows[i].pos < len => i <= k}
<1>2. n \in S /\ S \in SUBSET Nat BY <1>0
<1>3. PICK m \in S : \A k \in S : m <= k
  <2> HIDE DEF S
  <2> QED BY <1>2, Least
<1>4. m \in 0 .. n /\ \A i \in 1 .. n : rows[i].pos < len => i <= m BY <1>3
<1>5. ASSUME NEW i \in 1 .. n, i <= m PROVE rows[i].pos < len
  <2> SUFFICES ASSUME ~(rows[i].pos < len) PROVE FALSE OBVIOUS
  <2>1. ASSUME NEW j \in 1 .. n, rows[j].pos < len PROVE j <= i - 1
    <3>1. ~(i < j)
      <4> SUFFICES ASSUME i < j PROVE FALSE OBVIOUS
      <4>1. rows[i].pos < rows[j].pos BY <1>0 DEF Ascending
      <4> QED BY <1>1, <2>1, <4>1
    <3>2. i # j BY <2>1
    <3> QED BY <3>1, <3>2
  <2>2. i - 1 \in S BY <2>1
  <2>3. m <= i - 1 BY <1>3, <2>2
  <2> QED BY <1>4, <1>5, <2>3
<1>6. {i \in DOMAIN rows : rows[i].pos < len} = 1 .. m
  <2>1. DOMAIN rows = 1 .. n BY <1>0, LenProperties
  <2>2. ASSUME NEW i \in 1 .. m PROVE i \in 1 .. n /\ i <= m BY <1>4
  <2> QED BY <1>4, <1>5, <2>1, <2>2
<1>7. Cardinality(1 .. m) = m BY <1>4, FS_Interval
<1>8. Drafter!Before(rows, len) = First(rows, m)
  <2>1. Drafter!Before(rows, len) = SubSeq(rows, 1, Cardinality({i \in DOMAIN rows : rows[i].pos < len}))
    BY Zenon DEF Drafter!Before, Drafter!First, Drafter!Cardinality, Cardinality
  <2>2. First(rows, m) = SubSeq(rows, 1, m) BY DEF First
  <2> QED BY <1>6, <1>7, <2>1, <2>2, Zenon
<1> QED BY <1>0, <1>4, <1>5, <1>8

(* Cut at one position, the projected and the pending rows stay the first  *)
(* rows of all of them.                                                    *)
LEMMA BeforeBoth ==
  ASSUME NEW a \in Seq(Row), NEW b \in Seq(Row), Ascending(a \o b), NEW len \in Nat
  PROVE  \E k \in 0 .. Len(a \o b) :
           /\ Drafter!Before(a, len) \in Seq(Row) /\ Drafter!Before(b, len) \in Seq(Row)
           /\ Drafter!Before(a, len) \o Drafter!Before(b, len) = First(a \o b, k)
           /\ \A i \in 1 .. Len(a \o b) : (a \o b)[i].pos < len <=> i <= k
<1> DEFINE c == a \o b
<1>0. PICK x \in Nat, y \in Nat : x = Len(a) /\ y = Len(b) BY LenProperties
<1>1. /\ c \in Seq(Row) /\ Len(c) = x + y
      /\ \A i \in 1 .. x + y : c[i] = IF i <= x THEN a[i] ELSE b[i - x]
  BY <1>0, ConcatProperties
<1>2. \A i \in 1 .. x : i \in 1 .. x + y /\ c[i] = a[i] BY <1>1
<1>3. \A i \in 1 .. y : i + x \in 1 .. x + y /\ c[i + x] = b[i]
  <2> SUFFICES ASSUME NEW i \in 1 .. y PROVE i + x \in 1 .. x + y /\ c[i + x] = b[i] OBVIOUS
  <2>1. i + x \in 1 .. x + y /\ ~(i + x <= x) /\ i + x - x = i OBVIOUS
  <2> HIDE DEF c
  <2> QED BY <1>1, <2>1
<1>4. Ascending(c) OBVIOUS
<1>12. /\ \A n \in 0 .. x : First(c, n) = First(a, n)
       /\ \A n \in 0 .. y : First(c, x + n) = a \o First(b, n)
  <2>1. /\ \A n \in 0 .. Len(a) : First(a \o b, n) = First(a, n)
        /\ \A n \in 0 .. Len(b) : First(a \o b, Len(a) + n) = a \o First(b, n)
    BY FirstOfConcat
  <2> QED BY <1>0, <2>1
<1> HIDE DEF c
<1>5. Ascending(a) BY <1>0, <1>1, <1>2, <1>4 DEF Ascending
<1>6. Ascending(b)
  <2> SUFFICES ASSUME NEW i \in 1 .. y, NEW j \in 1 .. y, i < j PROVE b[i].pos < b[j].pos
    BY <1>0 DEF Ascending
  <2>1. i + x < j + x OBVIOUS
  <2> QED BY <1>1, <1>3, <1>4, <2>1 DEF Ascending
<1>13. Len(c) = x + y BY <1>1
<1>7. PICK k \in 0 .. x : Drafter!Before(a, len) = First(a, k) /\ \A i \in 1 .. x : a[i].pos < len <=> i <= k
  BY <1>0, <1>5, BeforeIs
<1>8. PICK m \in 0 .. y : Drafter!Before(b, len) = First(b, m) /\ \A i \in 1 .. y : b[i].pos < len <=> i <= m
  BY <1>0, <1>6, BeforeIs
<1>14. Drafter!Before(a, len) \in Seq(Row) /\ Drafter!Before(b, len) \in Seq(Row)
  BY <1>0, <1>7, <1>8, FirstProps
<1>9. \A i \in 1 .. x + y : c[i].pos \in Nat BY <1>1, RowProps
<1>10. CASE m = 0
  <2>1. First(b, m) = <<>> BY <1>10, FirstAll
  <2>2. First(a, k) \in Seq(Row) BY <1>0, <1>7, FirstProps
  <2>3. First(a, k) \o First(b, m) = First(a, k) BY <2>1, <2>2, ConcatEmptySeq
  <2>4. First(c, k) = First(a, k) BY <1>7, <1>12
  <2>5. ASSUME NEW i \in 1 .. x + y PROVE c[i].pos < len <=> i <= k
    <3>1. CASE i <= x
      <4>1. i \in 1 .. x BY <3>1
      <4> QED BY <1>2, <1>7, <4>1
    <3>2. CASE ~(i <= x)
      <4>1. PICK j \in 1 .. y : i = j + x
        <5>1. i - x \in 1 .. y /\ i = (i - x) + x BY <3>2
        <5> QED BY <5>1
      <4>2. c[i] = b[j] BY <1>3, <4>1
      <4>3. ~(b[j].pos < len) BY <1>8, <1>10
      <4> QED BY <1>7, <3>2, <4>2, <4>3
    <3> QED BY <3>1, <3>2
  <2>6. k \in 0 .. x + y BY <1>7
  <2>7. /\ Drafter!Before(a, len) \o Drafter!Before(b, len) = First(c, k)
        /\ \A i \in 1 .. Len(c) : c[i].pos < len <=> i <= k
    BY <1>13, <1>7, <1>8, <2>3, <2>4, <2>5
  <2> QED BY <1>13, <1>14, <2>6, <2>7 DEF c
<1>11. CASE m # 0
  <2>1. 1 \in 1 .. y /\ b[1].pos < len BY <1>8, <1>11
  <2>2. k = x
    <3> SUFFICES ASSUME k < x PROVE FALSE BY <1>7
    <3>1. x \in 1 .. x /\ x < 1 + x BY <1>7
    <3>2. c[x].pos < c[1 + x].pos BY <1>1, <1>2, <1>3, <1>4, <2>1, <3>1 DEF Ascending
    <3>3. c[x] = a[x] /\ c[1 + x] = b[1] /\ x \in 1 .. x + y /\ 1 + x \in 1 .. x + y
      BY <1>2, <1>3, <2>1, <3>1
    <3>4. a[x].pos < len BY <1>9, <2>1, <3>2, <3>3
    <3> QED BY <1>7, <3>1, <3>4
  <2>3. First(a, k) = a BY <1>0, <2>2, FirstAll
  <2>4. First(c, x + m) = a \o First(b, m) BY <1>8, <1>12
  <2>5. ASSUME NEW i \in 1 .. x + y PROVE c[i].pos < len <=> i <= x + m
    <3>1. CASE i <= x
      <4>1. i \in 1 .. x BY <3>1
      <4>2. a[i].pos < len BY <1>7, <2>2, <4>1
      <4> QED BY <1>2, <1>8, <4>1, <4>2
    <3>2. CASE ~(i <= x)
      <4>1. PICK j \in 1 .. y : i = j + x
        <5>1. i - x \in 1 .. y /\ i = (i - x) + x BY <3>2
        <5> QED BY <5>1
      <4>2. c[i] = b[j] BY <1>3, <4>1
      <4>3. b[j].pos < len <=> j <= m BY <1>8
      <4> QED BY <1>8, <4>1, <4>2, <4>3
    <3> QED BY <3>1, <3>2
  <2>6. x + m \in 0 .. Len(c) BY <1>1, <1>8
  <2> QED BY <1>1, <1>7, <1>8, <1>14, <2>3, <2>4, <2>5, <2>6 DEF c
<1> QED BY <1>10, <1>11

(* How far two sequences of tokens agree. *)
Agree(s, t, n) == n \in 0 .. Len(s) /\ n \in 0 .. Len(t) /\ First(s, n) = First(t, n)

(* The longest common prefix is as long as any on which both agree.        *)
LEMMA CommonIs ==
  ASSUME NEW s \in Seq(Token), NEW t \in Seq(Token)
  PROVE  /\ Agree(s, t, Drafter!Common(s, t))
         /\ \A n : Agree(s, t, n) => n <= Drafter!Common(s, t)
<1> DEFINE C == Drafter!CommonPrefixes({s, t})
           N == {n \in 0 .. Len(s) : Agree(s, t, n)}
<1>0. Len(s) \in Nat /\ Len(t) \in Nat BY LenProperties
<1>1. \A p : p \in C <=>
        /\ p \in UNION {Drafter!Prefixes(u) : u \in {s, t}}
        /\ \A u \in {s, t} : Drafter!IsPrefix(p, u)
  BY Zenon DEF Drafter!CommonPrefixes
<1>2. \A p, u : Drafter!IsPrefix(p, u) <=> Len(p) <= Len(u) /\ SubSeq(p, 1, Len(p)) = First(u, Len(p))
  BY Zenon DEF Drafter!IsPrefix, First
<1>3. \A p, u : p \in Drafter!Prefixes(u) <=> \E n \in 0 .. Len(u) : p = First(u, n)
  BY Zenon DEF Drafter!Prefixes, First
<1>4. ASSUME NEW p \in C PROVE Agree(s, t, Len(p))
  <2>0. PICK u \in {s, t} : p \in Drafter!Prefixes(u) BY <1>1, <1>4
  <2>1. PICK n \in 0 .. Len(u) : p = First(u, n) BY <1>3, <2>0
  <2>2. Len(p) = n /\ p \in Seq(Token) BY <2>1, FirstProps
  <2>3. SubSeq(p, 1, Len(p)) = p BY <2>2, SubSeqFull
  <2>4. /\ Len(p) <= Len(s) /\ SubSeq(p, 1, Len(p)) = First(s, Len(p))
        /\ Len(p) <= Len(t) /\ SubSeq(p, 1, Len(p)) = First(t, Len(p))
    BY <1>1, <1>2, <1>4
  <2>5. n \in Nat BY <1>0, <2>1
  <2> QED BY <1>0, <2>2, <2>4, <2>5 DEF Agree
<1>5. ASSUME NEW n, Agree(s, t, n) PROVE First(s, n) \in C /\ Len(First(s, n)) = n
  <2>1. n \in 0 .. Len(s) /\ n \in 0 .. Len(t) /\ First(s, n) = First(t, n) BY <1>5 DEF Agree
  <2> DEFINE p == First(s, n)
  <2>2. Len(p) = n /\ p \in Seq(Token) BY <2>1, FirstProps
  <2>3. p \in Drafter!Prefixes(s) BY <1>3, <2>1
  <2>4. p = First(t, n) /\ p = First(s, n) BY <2>1
  <2> HIDE DEF p
  <2>5. SubSeq(p, 1, Len(p)) = p BY <2>2, SubSeqFull
  <2>6. Drafter!IsPrefix(p, s) /\ Drafter!IsPrefix(p, t) BY <1>0, <1>2, <2>1, <2>2, <2>4, <2>5
  <2>7. p \in C BY <1>1, <2>3, <2>6
  <2> QED BY <2>2, <2>7 DEF p
<1>6. Agree(s, t, 0) BY <1>0, FirstAll DEF Agree
<1>7. N # {} /\ N \in SUBSET (0 .. Len(s)) BY <1>0, <1>6
<1>8. PICK m \in N : \A n \in N : n <= m
  <2> HIDE DEF N
  <2> QED BY <1>0, <1>7, Greatest
<1>9. \A p \in C : Len(p) <= m BY <1>4, <1>8 DEF Agree
<1>10. \E l \in C : \A o \in C : Len(o) <= Len(l)
  <2>1. First(s, m) \in C /\ Len(First(s, m)) = m BY <1>5, <1>8
  <2> HIDE DEF C
  <2> QED BY <1>9, <2>1
<1> DEFINE L == Drafter!LongestCommonPrefix({s, t})
<1>11. L \in C /\ \A o \in C : Len(o) <= Len(L)
  <2>1. L = CHOOSE l \in C : \A o \in C : Len(o) <= Len(l) BY Zenon DEF Drafter!LongestCommonPrefix
  <2> HIDE DEF C, L
  <2> QED BY <1>10, <2>1
<1>12. Drafter!Common(s, t) = Len(L) BY Zenon DEF Drafter!Common
<1> HIDE DEF C, L, N
<1>13. Agree(s, t, Len(L)) BY <1>4, <1>11
<1>14. ASSUME NEW n, Agree(s, t, n) PROVE n <= Len(L)
  <2>1. First(s, n) \in C /\ Len(First(s, n)) = n BY <1>5, <1>14
  <2> QED BY <1>11, <2>1
<1> QED BY <1>12, <1>13, <1>14

(* Rows that are all before a position stay. *)
LEMMA BeforeAll ==
  ASSUME NEW rows \in Seq(Row), NEW len \in Nat, \A i \in 1 .. Len(rows) : rows[i].pos < len
  PROVE  Drafter!Before(rows, len) = rows
<1>0. Len(rows) \in Nat /\ DOMAIN rows = 1 .. Len(rows) BY LenProperties
<1>1. {i \in DOMAIN rows : rows[i].pos < len} = 1 .. Len(rows) BY <1>0
<1>2. Cardinality(1 .. Len(rows)) = Len(rows) BY <1>0, FS_Interval
<1>3. Drafter!Before(rows, len) = SubSeq(rows, 1, Cardinality({i \in DOMAIN rows : rows[i].pos < len}))
  BY Zenon DEF Drafter!Before, Drafter!First, Drafter!Cardinality, Cardinality
<1>4. SubSeq(rows, 1, Len(rows)) = rows BY SubSeqFull
<1> QED BY <1>1, <1>2, <1>3, <1>4, Zenon

(* What a request starts from are tokens. *)
LEMMA SomeTokens ==
  ASSUME NEW n, NEW s \in Drafter!Sequences(n)
  PROVE  s \in Seq(Token)
<1>1. PICK k \in 0 .. n : s \in [1 .. k -> Token] BY DEF Drafter!Sequences
<1>2. k \in Nat BY <1>1
<1> QED BY <1>1, <1>2

(* What a new request keeps: the rows before the end of the common prefix, *)
(* which are those that still hold.                                        *)
LEMMA RewindStep ==
  ASSUME DraftInv, NEW s \in Seq(Token), Drafter!Rewind(s)
  PROVE  /\ DraftInv'
         /\ \A i \in DOMAIN Drafter!AllRows :
              /\ Drafter!AllRows[i].pos < Len(s)
              /\ Drafter!AllRows[i].of = Drafter!First(s, Drafter!AllRows[i].pos + 1)
              => \E j \in DOMAIN Drafter!AllRows' : Drafter!AllRows'[j] = Drafter!AllRows[i]
<1> DEFINE l == Drafter!Common(seq, s)
           rows == ctx \o pend
           rest == ctx' \o pend'
<1>1. /\ ctx' = Drafter!Before(ctx, l) /\ pend' = Drafter!Before(pend, l)
      /\ seq' = s /\ fed' = s
  BY DEF Drafter!Rewind, Drafter!Agreement
<1>2. fed \in Seq(Token) /\ seq = fed /\ ctx \in Seq(Row) /\ pend \in Seq(Row)
  BY DEF DraftInv, DraftTypeOK
<1>3. Ascending(rows) /\ RowsHold(rows, fed) /\ rows \in Seq(Row)
  BY <1>2, ConcatProperties DEF DraftInv, RowsHold
<1>4. /\ Agree(fed, s, l)
      /\ \A n : Agree(fed, s, n) => n <= l
  BY <1>2, CommonIs
<1> HIDE DEF l
<1>5. /\ Len(fed) \in Nat /\ Len(s) \in Nat /\ Len(rows) \in Nat
      /\ l \in Nat /\ l <= Len(fed) /\ l <= Len(s) /\ First(fed, l) = First(s, l)
  BY <1>2, <1>3, <1>4, LenProperties DEF Agree
<1>6. PICK k \in 0 .. Len(rows) :
        /\ ctx' \in Seq(Row) /\ pend' \in Seq(Row) /\ rest = First(rows, k)
        /\ \A i \in 1 .. Len(rows) : rows[i].pos < l <=> i <= k
  BY <1>1, <1>2, <1>3, <1>5, BeforeBoth
<1>7. rest \in Seq(Row) /\ Len(rest) = k /\ \A i \in 1 .. k : rest[i] = rows[i]
  <2> HIDE DEF rows, rest
  <2> QED BY <1>3, <1>6, FirstProps
<1>8. \A i \in 1 .. Len(rows) : rows[i].pos \in Nat
  <2> HIDE DEF rows
  <2> QED BY <1>3, RowProps
<1>9. Drafter!AllRows = rows /\ Drafter!AllRows' = rest
  BY DEF Drafter!AllRows
<1> HIDE DEF rows, rest
<1>10. ASSUME NEW i \in 1 .. k
       PROVE  rest[i].pos < Len(s) /\ rest[i].of = First(s, rest[i].pos + 1)
  <2>1. i \in 1 .. Len(rows) BY <1>5, <1>6
  <2>2. PICK p \in Nat : p = rows[i].pos BY <1>8, <2>1
  <2>3. p < l /\ rows[i].of = First(fed, p + 1) BY <1>3, <1>6, <2>1, <2>2 DEF RowsHold
  <2>4. p + 1 \in 0 .. l /\ l \in 0 .. Len(fed) /\ l \in 0 .. Len(s) BY <1>5, <2>3
  <2>5. First(fed, p + 1) = First(First(fed, l), p + 1) BY <1>2, <2>4, FirstOfFirst
  <2>6. First(s, p + 1) = First(First(s, l), p + 1) BY <2>4, FirstOfFirst
  <2>7. rows[i].of = First(s, p + 1) BY <1>5, <2>3, <2>5, <2>6
  <2> QED BY <1>5, <1>7, <2>2, <2>3, <2>7
<1>11. RowsHold(rest, s)
  <2>1. ASSUME NEW i \in 1 .. k, NEW j \in 1 .. k, i < j PROVE rest[i].pos < rest[j].pos
    <3>1. i \in 1 .. Len(rows) /\ j \in 1 .. Len(rows) BY <1>5, <1>6
    <3>2. rows[i].pos < rows[j].pos BY <1>3, <2>1, <3>1 DEF Ascending
    <3> QED BY <1>7, <3>2
  <2> QED BY <1>7, <1>10, <2>1 DEF RowsHold, Ascending
<1>12. DraftInv'
  BY <1>1, <1>6, <1>11 DEF DraftInv, DraftTypeOK, RowsHold, Ascending, rest, Row
<1>13. ASSUME NEW i \in 1 .. Len(rows), rows[i].pos < Len(s), rows[i].of = First(s, rows[i].pos + 1)
       PROVE  i \in 1 .. Len(rest) /\ rest[i] = rows[i]
  <2>1. PICK p \in Nat : p = rows[i].pos BY <1>8
  <2>2. p < Len(fed) /\ rows[i].of = First(fed, p + 1) BY <1>3, <2>1 DEF RowsHold
  <2>3. Agree(fed, s, p + 1) BY <1>5, <1>13, <2>1, <2>2 DEF Agree
  <2>4. p < l BY <1>4, <1>5, <2>3
  <2>5. i <= k BY <1>6, <2>1, <2>4
  <2> QED BY <1>7, <2>5
<1>14. DOMAIN rows = 1 .. Len(rows) /\ DOMAIN rest = 1 .. Len(rest)
  BY <1>3, <1>7, LenProperties
<1>15. \A u, n : Drafter!First(u, n) = First(u, n) BY DEF Drafter!First, First
<1> QED BY <1>9, <1>12, <1>13, <1>14, <1>15

(* A new drafter has no rows. *)
LEMMA StartNewStep ==
  ASSUME NEW s \in Seq(Token), Drafter!StartNew(s)
  PROVE  DraftInv'
<1>1. fed' = s /\ seq' = s /\ ctx' = <<>> /\ pend' = <<>> BY DEF Drafter!StartNew
<1>2. <<>> \in Seq(Row) /\ <<>> \o <<>> = <<>> /\ Len(<<>>) = 0 BY ConcatEmptySeq, EmptySeq
<1>3. RowsHold(<<>>, s) BY <1>2 DEF RowsHold, Ascending
<1> QED BY <1>1, <1>2, <1>3 DEF DraftInv, DraftTypeOK, RowsHold, Ascending, Row

(* The rows of a batch after those of the tokens fed before. *)
RowsAfter(held, s, new) ==
  /\ Len(new) = Len(s)
  /\ \A i \in 1 .. Len(s) : new[i].pos = Len(held) + i - 1 /\ new[i].of = held \o First(s, i)

(* Together they are rows of all the tokens. *)
LEMMA RowsAdded ==
  ASSUME NEW held \in Seq(Token), NEW rows \in Seq(Row), RowsHold(rows, held),
         NEW s \in Seq(Token), NEW new \in Seq(Row), RowsAfter(held, s, new)
  PROVE  RowsHold(rows \o new, held \o s)
<1> DEFINE all == rows \o new
           now == held \o s
<1>0. PICK x \in Nat, y \in Nat, z \in Nat : x = Len(rows) /\ y = Len(s) /\ z = Len(held)
  BY LenProperties
<1>1. /\ all \in Seq(Row) /\ Len(all) = x + y
      /\ \A i \in 1 .. x + y : all[i] = IF i <= x THEN rows[i] ELSE new[i - x]
  <2>1. Len(new) = y BY <1>0 DEF RowsAfter
  <2>2. /\ rows \o new \in Seq(Row) /\ Len(rows \o new) = Len(rows) + Len(new)
        /\ \A i \in 1 .. Len(rows) + Len(new) :
             (rows \o new)[i] = IF i <= Len(rows) THEN rows[i] ELSE new[i - Len(rows)]
    BY ConcatProperties
  <2> QED BY <1>0, <2>1, <2>2
<1>2. now \in Seq(Token) /\ Len(now) = z + y BY <1>0, ConcatProperties
<1>3. /\ \A n \in 0 .. Len(held) : First(held \o s, n) = First(held, n)
      /\ \A n \in 0 .. Len(s) : First(held \o s, Len(held) + n) = held \o First(s, n)
  BY FirstOfConcat
<1>4. /\ \A n \in 0 .. z : First(now, n) = First(held, n)
      /\ \A n \in 0 .. y : First(now, z + n) = held \o First(s, n)
  BY <1>0, <1>3
<1> HIDE DEF all, now
<1>5. ASSUME NEW i \in 1 .. x
      PROVE  /\ all[i] = rows[i] /\ all[i].pos \in Nat /\ all[i].pos < z
             /\ all[i].of = First(now, all[i].pos + 1)
  <2>1. i \in 1 .. x + y /\ i <= x OBVIOUS
  <2>2. all[i] = rows[i] BY <1>1, <2>1
  <2>3. PICK p \in Nat : p = rows[i].pos BY <1>0, RowProps
  <2>4. p < z /\ rows[i].of = First(held, p + 1) BY <1>0, <2>3 DEF RowsHold
  <2>5. p + 1 \in 0 .. z BY <2>4
  <2> QED BY <1>4, <2>2, <2>3, <2>4, <2>5
<1>6. ASSUME NEW i \in 1 .. x + y, ~(i <= x)
      PROVE  /\ all[i].pos = z + (i - x) - 1 /\ all[i].of = First(now, all[i].pos + 1)
  <2>1. PICK j \in 1 .. y : j = i - x BY <1>6
  <2>2. all[i] = new[j] BY <1>1, <1>6, <2>1
  <2>3. new[j].pos = z + j - 1 /\ new[j].of = held \o First(s, j) BY <1>0 DEF RowsAfter
  <2>4. z + j - 1 + 1 = z + j /\ j \in 0 .. y OBVIOUS
  <2>5. First(now, z + j) = held \o First(s, j) BY <1>4, <2>4
  <2> QED BY <2>1, <2>2, <2>3, <2>4, <2>5
<1>7. ASSUME NEW i \in 1 .. x + y PROVE all[i].pos < z + y /\ all[i].of = First(now, all[i].pos + 1)
  <2>1. CASE i <= x BY <1>5, <2>1
  <2>2. CASE ~(i <= x) BY <1>6, <2>2
  <2> QED BY <2>1, <2>2
<1>8. ASSUME NEW i \in 1 .. x + y, NEW j \in 1 .. x + y, i < j PROVE all[i].pos < all[j].pos
  <2>1. CASE j <= x
    <3>1. i \in 1 .. x /\ j \in 1 .. x BY <1>8, <2>1
    <3>2. rows[i].pos < rows[j].pos BY <1>0, <1>8, <3>1 DEF RowsHold, Ascending
    <3> QED BY <1>5, <3>1, <3>2
  <2>2. CASE i <= x /\ ~(j <= x)
    <3>1. i \in 1 .. x BY <2>2
    <3>2. PICK p \in Nat : p = all[i].pos /\ p < z BY <1>5, <3>1
    <3>3. all[j].pos = z + (j - x) - 1 BY <1>6, <2>2
    <3> QED BY <2>2, <3>2, <3>3
  <2>3. CASE ~(i <= x) /\ ~(j <= x)
    <3>1. all[i].pos = z + (i - x) - 1 /\ all[j].pos = z + (j - x) - 1 BY <1>6, <2>3
    <3> QED BY <1>8, <3>1
  <2> QED BY <1>8, <2>1, <2>2, <2>3
<1>9. RowsHold(all, now) BY <1>1, <1>2, <1>7, <1>8 DEF RowsHold, Ascending
<1> QED BY <1>9 DEF all, now

(* Observing a batch, whether its rows are projected now or later.         *)
LEMMA ObserveStep ==
  ASSUME DraftInv, NEW batch \in Seq(Token), NEW keep \in Nat, Drafter!Observe(batch, keep)
  PROVE  DraftInv'
<1> DEFINE s == First(batch, keep)
           new == Drafter!Rows(batch, keep)
           seen == pend \o new
<1>1. fed \in Seq(Token) /\ seq = fed /\ ctx \in Seq(Row) /\ pend \in Seq(Row)
  BY DEF DraftInv, DraftTypeOK
<1>2. RowsHold(ctx \o pend, fed) BY DEF DraftInv
<1>3. Len(fed) \in Nat /\ Len(batch) \in Nat /\ keep \in 1 .. Len(batch)
  BY <1>1, LenProperties DEF Drafter!Observe
<1>4. s \in Seq(Token) /\ Len(s) = keep /\ \A i \in 0 .. keep : First(s, i) = First(batch, i)
  <2>1. keep \in 0 .. Len(batch) BY <1>3
  <2> QED BY <2>1, FirstProps, FirstOfFirst
<1>5. new = [i \in 1 .. keep |-> [pos |-> Len(fed) + i - 1, of |-> fed \o First(batch, i)]]
  BY DEF Drafter!Rows, Drafter!First, First
<1>6. ASSUME NEW i \in 1 .. keep
      PROVE  /\ new[i].pos = Len(fed) + i - 1 /\ new[i].of = fed \o First(s, i)
             /\ new[i] \in Row
  <2>1. i \in 0 .. Len(batch) /\ i \in 0 .. keep BY <1>3
  <2>2. First(batch, i) \in Seq(Token) /\ First(s, i) = First(batch, i) BY <1>4, <2>1, FirstProps
  <2>3. fed \o First(batch, i) \in Seq(Token) BY <1>1, <2>2, ConcatProperties
  <2>4. new[i] = [pos |-> Len(fed) + i - 1, of |-> fed \o First(batch, i)] BY <1>5
  <2>5. Len(fed) + i - 1 \in Nat BY <1>3
  <2> HIDE DEF new, s
  <2> QED BY <2>2, <2>3, <2>4, <2>5 DEF Row
<1>7. new \in Seq(Row) /\ Len(new) = keep
  <2>1. new \in [1 .. keep -> Row] BY <1>5, <1>6
  <2> QED BY <2>1
<1> HIDE DEF s, new
<1>8. RowsHold((ctx \o pend) \o new, fed \o s)
  <2>1. ctx \o pend \in Seq(Row) BY <1>1, ConcatProperties
  <2>2. RowsAfter(fed, s, new) BY <1>4, <1>6, <1>7 DEF RowsAfter
  <2> QED BY <1>1, <1>2, <1>4, <1>7, <2>1, <2>2, RowsAdded
<1>9. Drafter!Before(ctx, Len(fed)) = ctx /\ Drafter!Before(pend, Len(fed)) = pend
  <2> DEFINE c == ctx \o pend
  <2>0. PICK x \in Nat, y \in Nat : x = Len(ctx) /\ y = Len(pend) BY <1>1, LenProperties
  <2>1. /\ Len(c) = x + y
        /\ \A i \in 1 .. x + y : c[i] = IF i <= x THEN ctx[i] ELSE pend[i - x]
    BY <1>1, <2>0, ConcatProperties
  <2>2. \A i \in 1 .. x + y : c[i].pos < Len(fed) BY <1>2, <2>1 DEF RowsHold
  <2> HIDE DEF c
  <2>3. ASSUME NEW i \in 1 .. x PROVE ctx[i].pos < Len(fed)
    <3>1. i \in 1 .. x + y /\ i <= x OBVIOUS
    <3> QED BY <2>1, <2>2, <3>1
  <2>4. ASSUME NEW i \in 1 .. y PROVE pend[i].pos < Len(fed)
    <3>1. i + x \in 1 .. x + y /\ ~(i + x <= x) /\ i + x - x = i OBVIOUS
    <3>2. c[i + x] = pend[i] BY <2>1, <3>1
    <3> QED BY <2>2, <3>1, <3>2
  <2> QED BY <1>1, <1>3, <2>0, <2>3, <2>4, BeforeAll
<1>10. seen \in Seq(Row) /\ seen # <<>>
  <2>1. seen \in Seq(Row) /\ Len(seen) = Len(pend) + keep BY <1>1, <1>7, ConcatProperties
  <2>2. Len(pend) \in Nat BY <1>1, LenProperties
  <2>3. Len(seen) # 0 BY <1>3, <2>1, <2>2
  <2> QED BY <2>1, <2>3, EmptySeq
<1>11. /\ fed' = fed \o s
       /\ seq' = First(seq, Drafter!Lesser(Len(fed), Len(seq))) \o s
       /\ pend' = Drafter!Flushed(seen)
       /\ ctx' = ctx \o (IF pend' = <<>> THEN seen ELSE <<>>)
  BY <1>9 DEF Drafter!Observe, Drafter!First, First, s, new
<1>12. seq' = fed'
  <2>1. Drafter!Lesser(Len(fed), Len(seq)) = Len(fed) BY <1>1 DEF Drafter!Lesser
  <2>2. First(seq, Len(fed)) = fed BY <1>1, FirstAll
  <2> QED BY <1>11, <2>1, <2>2
<1>13. /\ ctx' \in Seq(Row) /\ pend' \in Seq(Row)
       /\ ctx' \o pend' = ctx \o seen
  <2> HIDE DEF seen
  <2>0. <<>> \in Seq(Row) /\ ctx \o seen \in Seq(Row) /\ ctx \o <<>> = ctx
        /\ (ctx \o seen) \o <<>> = ctx \o seen
    BY <1>1, <1>10, ConcatProperties, ConcatEmptySeq, EmptySeq
  <2>1. CASE pend' = <<>> BY <1>11, <2>0, <2>1
  <2>2. CASE pend' # <<>>
    <3>1. pend' = seen BY <1>11, <2>2 DEF Drafter!Flushed
    <3> QED BY <1>1, <1>10, <1>11, <2>0, <2>2, <3>1
  <2> QED BY <2>1, <2>2
<1>14. ctx \o seen = (ctx \o pend) \o new
  <2>1. ctx \in Seq(Row) /\ pend \in Seq(Row) /\ new \in Seq(Row) BY <1>1, <1>7
  <2>2. (ctx \o pend) \o new = ctx \o (pend \o new)
    BY ONLY <2>1, ConcatAssociative
  <2> QED BY <2>2
<1>15. fed' \in Seq(Token) BY <1>1, <1>4, <1>11, ConcatProperties
<1>16. RowsHold(ctx' \o pend', fed') BY <1>8, <1>11, <1>13, <1>14
<1> HIDE DEF seen
<1> QED BY <1>12, <1>13, <1>15, <1>16 DEF DraftInv, DraftTypeOK, RowsHold, Ascending, Row

(* Projecting what is pending moves rows, and changes none. *)
LEMMA DraftStep ==
  ASSUME DraftInv, Drafter!Draft
  PROVE  DraftInv'
<1>1. fed \in Seq(Token) /\ seq = fed /\ ctx \in Seq(Row) /\ pend \in Seq(Row)
      /\ RowsHold(ctx \o pend, fed)
  BY DEF DraftInv, DraftTypeOK
<1>2. ctx' = ctx \o pend /\ pend' = <<>> /\ fed' = fed /\ seq' = seq
  BY DEF Drafter!Draft
<1>3. /\ ctx' \in Seq(Row) /\ pend' \in Seq(Row) /\ ctx' \o pend' = ctx \o pend
  BY <1>1, <1>2, ConcatProperties, ConcatEmptySeq, EmptySeq
<1>4. RowsHold(ctx' \o pend', fed') BY <1>1, <1>2, <1>3
<1> QED BY <1>1, <1>2, <1>3, <1>4 DEF DraftInv, DraftTypeOK, RowsHold, Ascending, Row

(* A drafter starts without rows. *)
LEMMA DraftInit == Drafter!Init => DraftInv
<1> SUFFICES ASSUME Drafter!Init PROVE DraftInv OBVIOUS
<1>1. fed = <<>> /\ seq = <<>> /\ ctx = <<>> /\ pend = <<>> BY DEF Drafter!Init
<1>2. <<>> \in Seq(Row) /\ <<>> \in Seq(Token) /\ <<>> \o <<>> = <<>> /\ Len(<<>>) = 0
  BY ConcatEmptySeq, EmptySeq
<1>3. RowsHold(<<>>, <<>>) BY <1>2 DEF RowsHold, Ascending
<1> QED BY <1>1, <1>2, <1>3 DEF DraftInv, DraftTypeOK

(* Every step of a drafter keeps the invariant. *)
LEMMA DraftNext == DraftInv /\ [Drafter!Next]_(Drafter!vars) => DraftInv'
<1> SUFFICES ASSUME DraftInv, [Drafter!Next]_(Drafter!vars) PROVE DraftInv' OBVIOUS
<1>1. ASSUME NEW s \in Drafter!Sequences(DraftLen), Drafter!Rewind(s) \/ Drafter!StartNew(s)
      PROVE  DraftInv'
  BY <1>1, SomeTokens, RewindStep, StartNewStep
<1>2. ASSUME NEW batch \in Drafter!Sequences(MaxBatch), NEW keep \in 1 .. MaxBatch,
             Drafter!Observe(batch, keep)
      PROVE  DraftInv'
  BY <1>2, SomeTokens, ObserveStep
<1>3. CASE UNCHANGED Drafter!vars
  BY <1>3 DEF Drafter!vars, DraftInv, DraftTypeOK, RowsHold, Ascending, Row
<1> QED BY <1>1, <1>2, <1>3, DraftStep DEF Drafter!Next

(* So it always holds. *)
LEMMA DraftInvariance == Drafter!Spec => []DraftInv
BY DraftInit, DraftNext, PTL DEF Drafter!Spec

-----------------------------------------------------------------------------
(* The position caches. *)
(* Row h * c + p is that of head h at position p. *)
LEMMA Index ==
  ASSUME NEW c \in Nat, NEW n \in Nat, NEW h \in 0 .. n - 1, NEW p \in 0 .. c - 1
  PROVE  /\ h * c + p \in 0 .. n * c - 1
         /\ (h * c + p) \div c = h /\ (h * c + p) % c = p
<1>1. PICK a \in Nat : a = h * c OBVIOUS
<1>2. c > 0 /\ h \in Nat /\ p \in Nat /\ p < c OBVIOUS
<1>3. h * c + p < n * c
  <2>1. n = h + (n - h) /\ n - h >= 1 /\ n - h \in Nat OBVIOUS
  <2>2. PICK d \in Nat : d = n - h /\ d >= 1 BY <2>1
  <2>3. n * c = h * c + d * c BY <2>1, <2>2
  <2>4. d * c >= c BY <2>2
  <2>5. PICK e \in Nat : e = d * c BY <2>2
  <2> QED BY <1>1, <1>2, <2>3, <2>4, <2>5
<1>4. n * c \in Nat OBVIOUS
<1>5. h * c + p \in Nat BY <1>1, <1>2
<1>6. h * c + p \in 0 .. n * c - 1
  <2>1. PICK x \in Nat, y \in Nat : x = h * c + p /\ y = n * c BY <1>4, <1>5
  <2>2. x \in 0 .. y - 1 BY <1>3, <2>1
  <2> QED BY <2>1, <2>2
<1>7. PICK x \in Nat : x = h * c + p BY <1>5
<1>8. x \div c = h /\ x % c = p
  <2>1. x \div c \in Int /\ x % c \in 0 .. c - 1 /\ x = c * (x \div c) + (x % c) BY <1>2
  <2>2. PICK q \in Int, r \in 0 .. c - 1 : q = x \div c /\ r = x % c BY <2>1
  <2>3. c * q + r = h * c + p BY <1>7, <2>1, <2>2
  <2>4. ~(q < h)
    <3> SUFFICES ASSUME q < h PROVE FALSE OBVIOUS
    <3>1. PICK d \in Nat : d = h - q /\ d >= 1 /\ h = q + d BY <1>2, <2>2
    <3>2. h * c = c * q + d * c BY <3>1, <2>2
    <3>3. d * c >= c BY <3>1
    <3>4. PICK e \in Int, f \in Nat : e = c * q /\ f = d * c
      <4>1. c * q \in Int /\ d * c \in Nat BY <2>2, <3>1
      <4> QED BY <4>1
    <3> QED BY <1>2, <2>2, <2>3, <3>2, <3>3, <3>4
  <2>5. ~(h < q)
    <3> SUFFICES ASSUME h < q PROVE FALSE OBVIOUS
    <3>1. PICK d \in Nat : d = q - h /\ d >= 1 /\ q = h + d BY <1>2, <2>2
    <3>2. c * q = h * c + d * c BY <3>1
    <3>3. d * c >= c BY <3>1
    <3>4. PICK e \in Nat, f \in Nat : e = h * c /\ f = d * c BY <3>1
    <3> QED BY <1>2, <2>2, <2>3, <3>2, <3>3, <3>4
  <2>6. q = h BY <1>2, <2>2, <2>4, <2>5
  <2>7. r = p
    <3>1. PICK e \in Nat : e = h * c /\ e = c * q BY <2>6, <1>2
    <3> QED BY <2>2, <2>3, <3>1
  <2> QED BY <2>2, <2>6, <2>7
<1> QED BY <1>6, <1>7, <1>8

(* Room is made for every position asked for. *)
LEMMA ReservedIs ==
  ASSUME cap \in Nat, NEW len \in 0 .. CacheLen
  PROVE  Cache!Reserved(len) \in Nat /\ len <= Cache!Reserved(len)
<1> DEFINE three == {len, 2 * cap, Initial}
           most == Cache!Max(three)
           least == Cache!Min({most, CacheLen})
<1>1. \A a, b, d \in Nat : \E m \in {a, b, d} : \A x \in {a, b, d} : x <= m OBVIOUS
<1>2. len \in Nat /\ 2 * cap \in Nat /\ Initial \in Nat /\ CacheLen \in Nat
  BY CacheAssumption
<1>3. most \in three /\ \A x \in three : x <= most
  <2>1. most = CHOOSE m \in three : \A x \in three : x <= m BY DEF Cache!Max
  <2>2. \E m \in three : \A x \in three : x <= m BY <1>1, <1>2
  <2> HIDE DEF three, most
  <2> QED BY <2>1, <2>2
<1>4. most \in Nat /\ len <= most BY <1>2, <1>3
<1> HIDE DEF most
<1>5. least \in {most, CacheLen} /\ \A x \in {most, CacheLen} : least <= x
  <2>1. least = CHOOSE m \in {most, CacheLen} : \A x \in {most, CacheLen} : m <= x BY DEF Cache!Min
  <2>2. \E m \in {most, CacheLen} : \A x \in {most, CacheLen} : m <= x BY <1>2, <1>4
  <2> HIDE DEF least
  <2> QED BY <2>1, <2>2
<1>6. least \in Nat /\ len <= least BY <1>2, <1>4, <1>5
<1>7. Cache!Reserved(len) = IF len <= cap THEN cap ELSE least
  BY DEF Cache!Reserved, most
<1> HIDE DEF least
<1> QED BY <1>6, <1>7

(* Positions kept are where they were, of whichever capacity. *)
LEMMA RegrownAt ==
  ASSUME cap \in Nat, NEW c \in Nat, NEW keep \in 0 .. cap,
         NEW h \in 0 .. Heads - 1, NEW p \in 0 .. c - 1, p < keep
  PROVE  Cache!Regrown(c, keep)[h * c + p] = buf[h * cap + p]
<1>1. CASE c = cap BY <1>1 DEF Cache!Regrown
<1>2. CASE c # cap
  <2> DEFINE kept(q) == q < (IF ring THEN cap ELSE Cache!Min({keep, cap}))
  <2>1. Cache!Min({keep, cap}) = keep
    <3>1. \A x \in {keep, cap} : keep <= x OBVIOUS
    <3>2. \A m \in {keep, cap} : (\A x \in {keep, cap} : m <= x) => m = keep OBVIOUS
    <3> QED BY <3>1, <3>2 DEF Cache!Min
  <2>2. kept(p) BY <2>1
  <2>3. Cache!Regrown(c, keep)
          = [i \in 0 .. Heads * c - 1 |->
               IF kept(i % c) THEN buf[(i \div c) * cap + (i % c)] ELSE Cache!Zero]
    BY <1>2 DEF Cache!Regrown, Cache!Buffer
  <2> HIDE DEF kept
  <2>4. /\ h * c + p \in 0 .. Heads * c - 1
        /\ (h * c + p) \div c = h /\ (h * c + p) % c = p
    BY CacheAssumption, Index
  <2> QED BY <2>2, <2>3, <2>4
<1> QED BY <1>1, <1>2

(* The rows of a sequence of tokens, at stride places between two heads.   *)
Placed(held, rows, stride) ==
  \A h \in 0 .. Heads - 1 : \A p \in 0 .. Len(held) - 1 :
    rows[h * stride + p] = <<h, First(held, p + 1)>>
CopyTrue(copy) ==
  /\ copy.of \in Seq(Token) /\ Len(copy.of) <= CacheLen
  /\ Placed(copy.of, copy.rows, Len(copy.of))
CacheHolds(held, room, rows) ==
  /\ held \in Seq(Token) /\ room \in Nat
  /\ Len(held) <= room /\ Len(held) <= CacheLen
  /\ Placed(held, rows, room)
CacheInv == CacheHolds(cached, cap, buf) /\ \A copy \in copies : CopyTrue(copy)

(* The invariant says what RowsFed says. *)
LEMMA CacheRows == CacheInv => Cache!RowsFed
<1>1. \A held, rows, stride : Cache!RowsOf(held, rows, stride) <=> Placed(held, rows, stride)
  BY DEF Cache!RowsOf, Cache!KvHead, Cache!First, Placed, First
<1> QED BY <1>1 DEF CacheInv, CacheHolds, CopyTrue, Cache!RowsFed

(* A forward, with or without making room, failing or not. *)
LEMMA CacheForward ==
  ASSUME CacheInv, NEW s \in Seq(Token), NEW good \in BOOLEAN, Cache!Forward(s, good)
  PROVE  CacheInv'
<1> DEFINE c == Cache!Reserved(Len(cached) + Len(s))
           old == Cache!Regrown(c, Len(cached))
           all == cached \o s
<1>1. /\ cached \in Seq(Token) /\ cap \in Nat /\ Len(cached) <= cap /\ Len(cached) <= CacheLen
      /\ Placed(cached, buf, cap) /\ Len(cached) \in Nat /\ Len(s) \in Nat
  BY LenProperties DEF CacheInv, CacheHolds
<1>2. /\ Len(cached) + Len(s) <= CacheLen
      /\ cap' = c /\ cached' = IF good THEN all ELSE cached
      /\ copies' = copies
      /\ ~good => buf' = old
      /\ good => buf' = [i \in 0 .. Heads * c - 1 |->
                    IF i % c \in Len(cached) .. Len(cached) + Len(s) - 1
                    THEN <<i \div c, First(cached', (i % c) + 1)>>
                    ELSE old[(i \div c) * c + (i % c)]]
  BY DEF Cache!Forward, Cache!Buffer, Cache!First, First
<1>3. c \in Nat /\ Len(cached) + Len(s) <= c
  <2>1. Len(cached) + Len(s) \in 0 .. CacheLen BY <1>1, <1>2, CacheAssumption
  <2> QED BY <1>1, <2>1, ReservedIs
<1> HIDE DEF c
<1>4. ASSUME NEW h \in 0 .. Heads - 1, NEW p \in 0 .. Len(cached) - 1
      PROVE  old[h * c + p] = <<h, First(cached, p + 1)>>
  <2>1. p \in 0 .. c - 1 /\ p < Len(cached) /\ Len(cached) \in 0 .. cap BY <1>1, <1>3
  <2>2. old[h * c + p] = buf[h * cap + p] BY <1>1, <1>3, <2>1, RegrownAt
  <2> QED BY <1>1, <2>2 DEF Placed
<1> HIDE DEF old
<1>5. all \in Seq(Token) /\ Len(all) = Len(cached) + Len(s)
      /\ \A n \in 0 .. Len(cached) : First(all, n) = First(cached, n)
  BY <1>1, ConcatProperties, FirstOfConcat
<1> HIDE DEF all
<1>6. CacheHolds(cached', c, buf')
  <2>1. CASE ~good
    <3>1. Placed(cached, old, c) BY <1>4 DEF Placed
    <3> QED BY <1>1, <1>2, <1>3, <2>1, <3>1 DEF CacheHolds
  <2>2. CASE good
    <3>1. ASSUME NEW h \in 0 .. Heads - 1, NEW p \in 0 .. Len(all) - 1
          PROVE  buf'[h * c + p] = <<h, First(all, p + 1)>>
      <4>1. p \in 0 .. c - 1 BY <1>1, <1>3, <1>5
      <4>2. /\ h * c + p \in 0 .. Heads * c - 1
            /\ (h * c + p) \div c = h /\ (h * c + p) % c = p
        BY <1>3, <4>1, CacheAssumption, Index
      <4>3. buf'[h * c + p] = IF p \in Len(cached) .. Len(cached) + Len(s) - 1
                              THEN <<h, First(all, p + 1)>> ELSE old[h * c + p]
        BY <1>2, <2>2, <4>2
      <4>4. CASE p \in Len(cached) .. Len(cached) + Len(s) - 1 BY <4>3, <4>4
      <4>5. CASE ~(p \in Len(cached) .. Len(cached) + Len(s) - 1)
        <5>1. p \in 0 .. Len(cached) - 1 BY <1>1, <1>5, <4>5
        <5>2. p + 1 \in 0 .. Len(cached) BY <1>1, <5>1
        <5>3. First(all, p + 1) = First(cached, p + 1) BY <1>5, <5>2
        <5> QED BY <1>4, <4>3, <4>5, <5>1, <5>3
      <4> QED BY <4>4, <4>5
    <3>2. Placed(all, buf', c) BY <3>1 DEF Placed
    <3> QED BY <1>1, <1>2, <1>3, <1>5, <2>2, <3>2 DEF CacheHolds
  <2> QED BY <2>1, <2>2
<1>7. \A copy \in copies : CopyTrue(copy) BY DEF CacheInv
<1> QED BY <1>2, <1>6, <1>7 DEF CacheInv, CacheHolds, CopyTrue, Placed, First

(* Truncating clears nothing: the rows kept are of the tokens kept.        *)
LEMMA CacheTruncate ==
  ASSUME CacheInv, NEW len \in Nat, Cache!Truncate(len)
  PROVE  CacheInv'
<1>1. /\ cached \in Seq(Token) /\ cap \in Nat /\ Len(cached) <= cap /\ Len(cached) <= CacheLen
      /\ Placed(cached, buf, cap) /\ Len(cached) \in Nat
      /\ \A copy \in copies : CopyTrue(copy)
  BY LenProperties DEF CacheInv, CacheHolds
<1>2. /\ len < Len(cached) /\ cached' = First(cached, len)
      /\ cap' = cap /\ buf' = buf /\ copies' = copies
  BY DEF Cache!Truncate, Cache!First, First
<1>3. len \in 0 .. Len(cached) BY <1>1, <1>2
<1>4. First(cached, len) \in Seq(Token) /\ Len(First(cached, len)) = len
  BY <1>1, <1>3, FirstProps
<1>5. Placed(First(cached, len), buf, cap)
  <2>1. ASSUME NEW h \in 0 .. Heads - 1, NEW p \in 0 .. len - 1
        PROVE  buf[h * cap + p] = <<h, First(First(cached, len), p + 1)>>
    <3>1. p + 1 \in 0 .. len /\ p \in 0 .. Len(cached) - 1 BY <1>1, <1>2
    <3>2. First(First(cached, len), p + 1) = First(cached, p + 1) BY <1>1, <1>3, <3>1, FirstOfFirst
    <3> QED BY <1>1, <3>1, <3>2 DEF Placed
  <2> QED BY <1>4, <2>1 DEF Placed
<1>6. CacheHolds(First(cached, len), cap, buf) BY <1>1, <1>2, <1>4, <1>5, CacheAssumption DEF CacheHolds
<1> QED BY <1>1, <1>2, <1>6 DEF CacheInv, CacheHolds, CopyTrue, Placed, First

(* A copy lies at a stride of its own. *)
LEMMA CacheTakeCopy ==
  ASSUME CacheInv, NEW len \in Nat, Cache!TakeCopy(len)
  PROVE  CacheInv'
<1> DEFINE new == [of |-> First(cached, len), rows |-> Cache!Snapshot(len)]
<1>1. /\ cached \in Seq(Token) /\ cap \in Nat /\ Len(cached) <= cap /\ Len(cached) <= CacheLen
      /\ Placed(cached, buf, cap) /\ Len(cached) \in Nat
      /\ \A copy \in copies : CopyTrue(copy) /\ CacheHolds(cached, cap, buf)
  BY LenProperties DEF CacheInv, CacheHolds
<1>2. /\ len <= Len(cached) /\ copies' = copies \cup {new}
      /\ cap' = cap /\ buf' = buf /\ cached' = cached
  BY DEF Cache!TakeCopy, Cache!First, First
<1>3. len \in 0 .. Len(cached) BY <1>1, <1>2
<1>4. First(cached, len) \in Seq(Token) /\ Len(First(cached, len)) = len
  BY <1>1, <1>3, FirstProps
<1>5. ASSUME NEW h \in 0 .. Heads - 1, NEW p \in 0 .. len - 1
      PROVE  Cache!Snapshot(len)[h * len + p] = <<h, First(First(cached, len), p + 1)>>
  <2>1. Cache!Snapshot(len) = [i \in 0 .. Heads * len - 1 |-> buf[(i \div len) * cap + (i % len)]]
    BY DEF Cache!Snapshot, Cache!Buffer
  <2>2. /\ h * len + p \in 0 .. Heads * len - 1
        /\ (h * len + p) \div len = h /\ (h * len + p) % len = p
    BY CacheAssumption, Index
  <2>3. p + 1 \in 0 .. len /\ p \in 0 .. Len(cached) - 1 BY <1>1, <1>2
  <2>4. First(First(cached, len), p + 1) = First(cached, p + 1) BY <1>1, <1>3, <2>3, FirstOfFirst
  <2>5. Cache!Snapshot(len)[h * len + p] = buf[h * cap + p] BY <2>1, <2>2
  <2> QED BY <1>1, <2>3, <2>4, <2>5 DEF Placed
<1>6. CopyTrue(new)
  <2>1. Placed(First(cached, len), Cache!Snapshot(len), len) BY <1>4, <1>5 DEF Placed
  <2> QED BY <1>1, <1>2, <1>4, <2>1, CacheAssumption DEF CopyTrue
<1> HIDE DEF new
<1>7. \A copy \in copies' : CopyTrue(copy) BY <1>1, <1>2, <1>6
<1>8. CacheHolds(cached, cap, buf) BY DEF CacheInv
<1> QED BY <1>2, <1>7, <1>8 DEF CacheInv, CacheHolds, CopyTrue, Placed, First

(* A copy written over rows of other tokens, in room made anew.            *)
LEMMA CacheRestore ==
  ASSUME CacheInv, NEW copy \in copies, Cache!Restore(copy)
  PROVE  CacheInv'
<1> DEFINE len == Len(copy.of)
           c == Cache!Reserved(len)
           old == Cache!Regrown(c, 0)
<1>1. cap \in Nat /\ \A x \in copies : CopyTrue(x) BY DEF CacheInv, CacheHolds
<1>2. /\ copy.of \in Seq(Token) /\ len <= CacheLen /\ len \in Nat
      /\ Placed(copy.of, copy.rows, len)
  BY <1>1, LenProperties DEF CopyTrue
<1>3. /\ cap' = c /\ cached' = copy.of /\ copies' = copies
      /\ buf' = [i \in 0 .. Heads * c - 1 |->
                   IF i % c < len THEN copy.rows[(i \div c) * len + (i % c)]
                   ELSE old[(i \div c) * c + (i % c)]]
  BY DEF Cache!Restore, Cache!Buffer
<1> HIDE DEF len
<1>4. c \in Nat /\ len <= c
  <2>1. len \in 0 .. CacheLen BY <1>2, CacheAssumption
  <2> QED BY <1>1, <2>1, ReservedIs
<1> HIDE DEF c, old
<1>5. ASSUME NEW h \in 0 .. Heads - 1, NEW p \in 0 .. len - 1
      PROVE  buf'[h * c + p] = <<h, First(copy.of, p + 1)>>
  <2>1. p \in 0 .. c - 1 /\ p < len BY <1>2, <1>4
  <2>2. /\ h * c + p \in 0 .. Heads * c - 1
        /\ (h * c + p) \div c = h /\ (h * c + p) % c = p
    BY <1>4, <2>1, CacheAssumption, Index
  <2>3. buf'[h * c + p] = copy.rows[h * len + p] BY <1>3, <2>1, <2>2
  <2> QED BY <1>2, <2>3 DEF Placed, len
<1>6. CacheHolds(copy.of, c, buf')
  <2>1. Placed(copy.of, buf', c) BY <1>5 DEF Placed, len
  <2> QED BY <1>2, <1>4, <2>1 DEF CacheHolds, len
<1> QED BY <1>1, <1>3, <1>6 DEF CacheInv, CacheHolds, CopyTrue, Placed, First

(* Of no tokens any rows are. *)
LEMMA CacheFresh ==
  ASSUME NEW rows, NEW room \in Nat
  PROVE  CacheHolds(<<>>, room, rows)
<1>1. <<>> \in Seq(Token) /\ Len(<<>>) = 0 BY EmptySeq
<1> QED BY <1>1, CacheAssumption DEF CacheHolds, Placed

(* A cache starts empty. *)
LEMMA CacheInit == Cache!Init => CacheInv
BY CacheFresh DEF Cache!Init, CacheInv

(* Every step of a cache keeps the invariant. *)
LEMMA CacheNext == CacheInv /\ [Cache!Next]_(Cache!vars) => CacheInv'
<1> SUFFICES ASSUME CacheInv, [Cache!Next]_(Cache!vars) PROVE CacheInv' OBVIOUS
<1>1. ASSUME NEW n \in 1 .. CacheLen, NEW s \in [1 .. n -> Token], NEW good \in BOOLEAN,
             Cache!Forward(s, good)
      PROVE  CacheInv'
  <2>1. s \in Seq(Token)
    <3>1. n \in Nat OBVIOUS
    <3> QED BY <3>1
  <2> QED BY <1>1, <2>1, CacheForward
<1>2. ASSUME NEW len \in 0 .. CacheLen, Cache!Truncate(len) \/ Cache!TakeCopy(len)
      PROVE  CacheInv'
  <2>1. len \in Nat OBVIOUS
  <2> QED BY <1>2, <2>1, CacheTruncate, CacheTakeCopy
<1>3. ASSUME Cache!NewState PROVE CacheInv'
  <2>1. cached' = <<>> /\ cap' = 0 /\ buf' = <<>> /\ copies' = copies
    BY <1>3 DEF Cache!NewState
  <2>2. CacheHolds(<<>>, 0, <<>>) BY CacheFresh
  <2> QED BY <2>1, <2>2 DEF CacheInv, CacheHolds, CopyTrue, Placed, First
<1>4. CASE UNCHANGED Cache!vars
  BY <1>4 DEF Cache!vars, CacheInv, CacheHolds, CopyTrue, Placed, First
<1> QED BY <1>1, <1>2, <1>3, <1>4, CacheRestore DEF Cache!Next

(* So it always holds. *)
LEMMA CacheInvariance == Cache!Spec => []CacheInv
BY CacheInit, CacheNext, PTL DEF Cache!Spec

-----------------------------------------------------------------------------
(* The composition takes steps of one state at a time.                     *)
LEMMA PartsStep ==
  ASSUME [MCNext]_<<which, vars, draftVars, cacheVars>>
  PROVE  [Drafter!Next]_(Drafter!vars) /\ [Cache!Next]_(Cache!vars)
<1>1. Drafter!vars = draftVars /\ Cache!vars = cacheVars
  BY DEF Drafter!vars, Cache!vars, draftVars, cacheVars
<1>2. UNCHANGED draftVars => UNCHANGED Drafter!vars
  BY DEF Drafter!vars, draftVars
<1>3. UNCHANGED cacheVars => UNCHANGED Cache!vars
  BY DEF Cache!vars, cacheVars
<1> QED BY <1>2, <1>3 DEF MCNext

(* So each state behaves as its own specification says.                    *)
LEMMA PartsSpec == MCSpec => Drafter!Spec /\ Cache!Spec
<1>1. MCInit => Drafter!Init /\ Cache!Init BY DEF MCInit
<1>2. [MCNext]_<<which, vars, draftVars, cacheVars>>
        => [Drafter!Next]_(Drafter!vars) /\ [Cache!Next]_(Cache!vars)
  BY PartsStep
<1> QED BY <1>1, <1>2, PTL DEF MCSpec, Drafter!Spec, Cache!Spec

(* Whatever prefixes of requests are kept, batches partly committed and    *)
(* copies restored: every row the drafter attends to was computed from the *)
(* tokens the target holds, and a position cache's rows, of any capacity   *)
(* and any number of heads, from the tokens it stands for.                 *)
THEOREM RowsAlwaysTrue == MCSpec => []RowsTrue
<1>1. DraftInv => Drafter!RowsTrue BY DraftRows DEF DraftInv
<1>2. DraftInv /\ CacheInv => RowsTrue BY <1>1, CacheRows DEF RowsTrue
<1> QED BY <1>2, PartsSpec, DraftInvariance, CacheInvariance, PTL

(* A request that keeps the drafter drops no row that is still of the      *)
(* tokens it starts from.                                                  *)
THEOREM TrueRowsKept == MCSpec => KeepsTrueRows
<1> DEFINE NoneLost == \A s \in Drafter!Sequences(DraftLen) :
             Drafter!Rewind(s) => \A i \in DOMAIN Drafter!AllRows :
               Drafter!AllRows[i].pos < Len(s)
               /\ Drafter!AllRows[i].of = Drafter!First(s, Drafter!AllRows[i].pos + 1)
               => \E j \in DOMAIN Drafter!AllRows' : Drafter!AllRows'[j] = Drafter!AllRows[i]
<1>1. DraftInv => NoneLost BY SomeTokens, RewindStep
<1>2. KeepsTrueRows <=> [][NoneLost]_(Drafter!vars) BY PTL DEF KeepsTrueRows, Drafter!KeepsTrueRows
<1>3. DraftInv => [NoneLost]_(Drafter!vars)
  BY <1>1
<1> HIDE DEF NoneLost
<1> QED BY <1>2, <1>3, PartsSpec, DraftInvariance, PTL
=============================================================================
