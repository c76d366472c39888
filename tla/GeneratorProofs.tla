---------------------------- MODULE GeneratorProofs ----------------------------
(***************************************************************************)
(* What is generated reaches the caller exact: for any alphabet, tags,     *)
(* stop strings and pieces; streamed tokens give the text of all of them   *)
(* at once, behind any prompt that ends whole.                             *)
(* And what the generator believes of its model state is true, the shared  *)
(* prompt cache holds what it says, and requests are continued from all of *)
(* their tokens: for any prompts, tokens, chunk sizes and context lengths. *)
(*                                                                         *)
(* The lemmas of ModelStatesProofs speak of a state of any origin; State   *)
(* lends those of the hybrid state to a generator's; the other states of   *)
(* that module play no part here.                                          *)
(***************************************************************************)
EXTENDS Generator, MCDecoding, SequenceTheorems, WellFoundedInduction, TLAPS

-----------------------------------------------------------------------------
(* The filters of the generated text.                                      *)
Str == Seq(Char)

(* Min is the least.                                                       *)
LEMMA MinIs ==
  ASSUME NEW S \in SUBSET Nat, S # {}
  PROVE  Min(S) \in S /\ \A n \in S : Min(S) <= n
<1> DEFINE R == OpToRel(<, Nat)
<1>1. \A a, b \in Nat : a < b => <<a, b>> \in R
  <2>1. R = {ss \in Nat \X Nat : ss[1] < ss[2]} BY Zenon DEF OpToRel
  <2> QED BY <2>1
<1>2. IsWellFoundedOn(R, Nat) BY NatLessThanWellFounded
<1> HIDE DEF R
<1>3. PICK m \in S : \A n \in S : <<n, m>> \notin R BY <1>2, WFMin, Zenon
<1>4. ASSUME NEW n \in S PROVE m <= n
  <2>1. n \in Nat /\ m \in Nat OBVIOUS
  <2>2. ~(n < m) BY <1>1, <1>3, <2>1, Zenon
  <2> QED BY <2>1, <2>2
<1> QED BY <1>4, Zenon DEF Min

(* Max is the greatest of what is bounded.                                 *)
LEMMA MaxIs ==
  ASSUME NEW N \in Nat, NEW S \in SUBSET (0 .. N), S # {}
  PROVE  Max(S) \in S /\ \A n \in S : n <= Max(S)
<1> DEFINE D == {d \in Nat : N - d \in S}
<1>1. D # {}
  <2>1. PICK n \in S : TRUE OBVIOUS
  <2>2. N - n \in D BY <2>1
  <2> QED BY <2>2
<1>2. Min(D) \in D /\ \A d \in D : Min(D) <= d BY <1>1, MinIs
<1>3. N - Min(D) \in S BY <1>2
<1>4. \A n \in S : N - n \in D BY DEF D
<1>5. \A n \in S : N - Min(D) >= n
  <2> TAKE n \in S
  <2>1. Min(D) <= N - n /\ Min(D) \in Nat BY <1>2, <1>4
  <2> QED BY <2>1
<1> HIDE DEF D
<1>6. \E x \in S : \A y \in S : x >= y BY <1>3, <1>5
<1>7. Max(S) \in S /\ \A y \in S : Max(S) >= y BY <1>6, Zenon DEF Max
<1> QED BY <1>7

-----------------------------------------------------------------------------
(* Parts of texts.                                                         *)
LEMMA Joined ==
  ASSUME NEW s \in Str, NEW t \in Str
  PROVE  /\ s \o t \in Str /\ Len(s \o t) = Len(s) + Len(t) /\ Len(s) \in Nat /\ Len(t) \in Nat
         /\ \A i \in 1 .. Len(s) : (s \o t)[i] = s[i]
         /\ \A i \in 1 .. Len(t) : (s \o t)[Len(s) + i] = t[i]
<1>1. /\ s \o t \in Str /\ Len(s \o t) = Len(s) + Len(t)
      /\ \A i \in 1 .. Len(s) + Len(t) : (s \o t)[i] = IF i <= Len(s) THEN s[i] ELSE t[i - Len(s)]
  BY ConcatProperties DEF Str
<1>2. Len(s) \in Nat /\ Len(t) \in Nat BY LenProperties DEF Str
<1>3. ASSUME NEW i \in 1 .. Len(t) PROVE (s \o t)[Len(s) + i] = t[i]
  <2>1. Len(s) + i \in 1 .. Len(s) + Len(t) /\ ~(Len(s) + i <= Len(s)) /\ (Len(s) + i) - Len(s) = i BY <1>2
  <2> QED BY <1>1, <2>1
<1> QED BY <1>1, <1>2, <1>3

(* The two parts of a text.                                                *)
LEMMA Parts ==
  ASSUME NEW s \in Str, NEW n \in 0 .. Len(s)
  PROVE  /\ Take(s, n) \in Str /\ Len(Take(s, n)) = n
         /\ \A i \in 1 .. n : Take(s, n)[i] = s[i]
         /\ Drop(s, n) \in Str /\ Len(Drop(s, n)) = Len(s) - n
         /\ \A i \in 1 .. Len(s) - n : Drop(s, n)[i] = s[n + i]
         /\ Take(s, n) \o Drop(s, n) = s
<1>1. Len(s) \in Nat /\ \A i \in 1 .. Len(s) : s[i] \in Char BY ElementOfSeq, LenProperties DEF Str
<1>2. \A i \in 1 .. n : s[i] \in Char BY <1>1
<1>3. \A i \in n + 1 .. Len(s) : s[i] \in Char BY <1>1
<1>4. /\ Take(s, n) \in Str /\ Len(Take(s, n)) = (IF 1 <= n THEN n - 1 + 1 ELSE 0)
      /\ \A i \in 1 .. n - 1 + 1 : Take(s, n)[i] = s[1 + i - 1]
  BY <1>1, <1>2, SubSeqProperties DEF Take, Str
<1>5. /\ Drop(s, n) \in Str /\ Len(Drop(s, n)) = (IF n + 1 <= Len(s) THEN Len(s) - (n + 1) + 1 ELSE 0)
      /\ \A i \in 1 .. Len(s) - (n + 1) + 1 : Drop(s, n)[i] = s[(n + 1) + i - 1]
  BY <1>1, <1>3, SubSeqProperties DEF Drop, Str
<1>6. Len(Take(s, n)) = n /\ \A i \in 1 .. n : Take(s, n)[i] = s[i] BY <1>4
<1>7. Len(Drop(s, n)) = Len(s) - n /\ \A i \in 1 .. Len(s) - n : Drop(s, n)[i] = s[n + i] BY <1>1, <1>5
<1>8. Take(s, n) \o Drop(s, n) = s
  <2> DEFINE a == Take(s, n) b == Drop(s, n)
  <2>1. a \in Str /\ b \in Str BY <1>4, <1>5
  <2>2. /\ a \o b \in Str /\ Len(a \o b) = Len(a) + Len(b)
        /\ \A i \in 1 .. Len(a) : (a \o b)[i] = a[i]
        /\ \A i \in 1 .. Len(b) : (a \o b)[Len(a) + i] = b[i]
    BY <2>1, Joined
  <2>3. /\ Len(a) = n /\ Len(b) = Len(s) - n /\ \A i \in 1 .. n : a[i] = s[i]
        /\ \A i \in 1 .. Len(s) - n : b[i] = s[n + i]
    BY <1>6, <1>7
  <2> HIDE DEF a, b
  <2>4. ASSUME NEW i \in 1 .. Len(s) PROVE (a \o b)[i] = s[i]
    <3>1. CASE i <= n BY <2>2, <2>3, <3>1
    <3>2. CASE ~(i <= n)
      <4> DEFINE j == i - n
      <4>1. j \in 1 .. Len(b) /\ j \in 1 .. Len(s) - n /\ i = n + j BY <1>1, <2>3, <3>2
      <4> HIDE DEF j
      <4>2. (a \o b)[Len(a) + j] = b[j] /\ b[j] = s[n + j] BY <2>2, <2>3, <4>1
      <4> QED BY <2>3, <4>1, <4>2
    <3> QED BY <3>1, <3>2
  <2>5. Len(a \o b) = Len(s) BY <1>1, <2>2, <2>3
  <2>6. a \o b = s BY <2>2, <2>4, <2>5, SeqEqual DEF Str
  <2> QED BY <2>6 DEF a, b
<1> QED BY <1>4, <1>5, <1>6, <1>7, <1>8

(* Only the empty text has no characters.                                  *)
LEMMA TextLen == ASSUME NEW s \in Str PROVE Len(s) \in Nat /\ (s = <<>> <=> Len(s) = 0)
BY EmptySeq, LenProperties DEF Str

(* Texts are equal by their characters.                                    *)
LEMMA SameText ==
  ASSUME NEW s \in Str, NEW t \in Str, Len(s) = Len(t), \A i \in 1 .. Len(s) : s[i] = t[i]
  PROVE  s = t
BY SeqEqual DEF Str

(* Nothing added.                                                          *)
LEMMA EmptyText == <<>> \in Str /\ \A s \in Str : s \o <<>> = s /\ <<>> \o s = s
BY EmptySeq, ConcatEmptySeq DEF Str

(* Joining is associative.                                                 *)
LEMMA Regrouped == ASSUME NEW s \in Str, NEW t \in Str, NEW u \in Str PROVE (s \o t) \o u = s \o (t \o u)
BY ConcatAssociative DEF Str

(* Cutting what was joined.                                                *)
LEMMA CutWithin ==
  ASSUME NEW s \in Str, NEW t \in Str, NEW n \in 0 .. Len(s)
  PROVE  Take(s \o t, n) = Take(s, n) /\ Drop(s \o t, n) = Drop(s, n) \o t
<1>1. /\ s \o t \in Str /\ Len(s \o t) = Len(s) + Len(t) /\ Len(s) \in Nat /\ Len(t) \in Nat
      /\ \A i \in 1 .. Len(s) : (s \o t)[i] = s[i]
      /\ \A i \in 1 .. Len(t) : (s \o t)[Len(s) + i] = t[i]
  BY Joined
<1>2. n \in 0 .. Len(s \o t) BY <1>1
<1> DEFINE a == Take(s \o t, n) b == Take(s, n) c == Drop(s \o t, n) d == Drop(s, n)
<1>3. /\ a \in Str /\ Len(a) = n /\ \A i \in 1 .. n : a[i] = (s \o t)[i]
      /\ c \in Str /\ Len(c) = Len(s \o t) - n /\ \A i \in 1 .. Len(s \o t) - n : c[i] = (s \o t)[n + i]
  BY <1>1, <1>2, Parts
<1>4. /\ b \in Str /\ Len(b) = n /\ \A i \in 1 .. n : b[i] = s[i]
      /\ d \in Str /\ Len(d) = Len(s) - n /\ \A i \in 1 .. Len(s) - n : d[i] = s[n + i]
  BY Parts
<1>5. /\ d \o t \in Str /\ Len(d \o t) = Len(d) + Len(t)
      /\ \A i \in 1 .. Len(d) : (d \o t)[i] = d[i]
      /\ \A i \in 1 .. Len(t) : (d \o t)[Len(d) + i] = t[i]
  BY <1>4, Joined
<1> HIDE DEF a, b, c, d
<1>6. a = b
  <2>1. \A i \in 1 .. n : a[i] = b[i] BY <1>1, <1>3, <1>4
  <2> QED BY <1>3, <1>4, <2>1, SameText
<1>7. c = d \o t
  <2>1. Len(c) = Len(d \o t) BY <1>1, <1>3, <1>4, <1>5
  <2>2. ASSUME NEW i \in 1 .. Len(c) PROVE c[i] = (d \o t)[i]
    <3>1. CASE i <= Len(s) - n
      <4>1. i \in 1 .. Len(d) /\ n + i \in 1 .. Len(s) /\ i \in 1 .. Len(s) - n BY <1>1, <1>4, <3>1
      <4>2. c[i] = (s \o t)[n + i] BY <1>3
      <4> QED BY <1>1, <1>4, <1>5, <4>1, <4>2
    <3>2. CASE ~(i <= Len(s) - n)
      <4> DEFINE j == i - Len(d)
      <4>1. j \in 1 .. Len(t) /\ Len(d) + j = i /\ n + i = Len(s) + j BY <1>1, <1>3, <1>4, <3>2
      <4>2. c[i] = (s \o t)[n + i] BY <1>3
      <4> HIDE DEF j
      <4> QED BY <1>1, <1>5, <4>1, <4>2
    <3> QED BY <3>1, <3>2
  <2> QED BY <1>3, <1>5, <2>1, <2>2, SameText
<1> QED BY <1>6, <1>7 DEF a, b, c, d

(* A cut in the second part.                                               *)
LEMMA CutBeyond ==
  ASSUME NEW s \in Str, NEW t \in Str, NEW n \in 0 .. Len(t)
  PROVE  Take(s \o t, Len(s) + n) = s \o Take(t, n) /\ Drop(s \o t, Len(s) + n) = Drop(t, n)
<1>1. /\ s \o t \in Str /\ Len(s \o t) = Len(s) + Len(t) /\ Len(s) \in Nat /\ Len(t) \in Nat
      /\ \A i \in 1 .. Len(s) : (s \o t)[i] = s[i]
      /\ \A i \in 1 .. Len(t) : (s \o t)[Len(s) + i] = t[i]
  BY Joined
<1> DEFINE m == Len(s) + n
<1>2. m \in 0 .. Len(s \o t) BY <1>1
<1> DEFINE a == Take(s \o t, m) b == Take(t, n) c == Drop(s \o t, m) d == Drop(t, n)
<1>3. /\ a \in Str /\ Len(a) = m /\ \A i \in 1 .. m : a[i] = (s \o t)[i]
      /\ c \in Str /\ Len(c) = Len(s \o t) - m /\ \A i \in 1 .. Len(s \o t) - m : c[i] = (s \o t)[m + i]
  BY <1>1, <1>2, Parts
<1>4. /\ b \in Str /\ Len(b) = n /\ \A i \in 1 .. n : b[i] = t[i]
      /\ d \in Str /\ Len(d) = Len(t) - n /\ \A i \in 1 .. Len(t) - n : d[i] = t[n + i]
  BY Parts
<1>5. /\ s \o b \in Str /\ Len(s \o b) = Len(s) + Len(b)
      /\ \A i \in 1 .. Len(s) : (s \o b)[i] = s[i]
      /\ \A i \in 1 .. Len(b) : (s \o b)[Len(s) + i] = b[i]
  BY <1>4, Joined
<1> HIDE DEF a, b, c, d
<1>6. a = s \o b
  <2>1. Len(a) = Len(s \o b) BY <1>3, <1>4, <1>5
  <2>2. ASSUME NEW i \in 1 .. Len(a) PROVE a[i] = (s \o b)[i]
    <3>1. CASE i <= Len(s) BY <1>1, <1>3, <1>5, <3>1
    <3>2. CASE ~(i <= Len(s))
      <4> DEFINE j == i - Len(s)
      <4>1. j \in 1 .. n /\ j \in 1 .. Len(t) /\ i = Len(s) + j BY <1>1, <1>3, <3>2
      <4>2. a[i] = (s \o t)[i] BY <1>3
      <4> HIDE DEF j
      <4> QED BY <1>1, <1>4, <1>5, <4>1, <4>2
    <3> QED BY <3>1, <3>2
  <2> QED BY <1>3, <1>5, <2>1, <2>2, SameText
<1>7. c = d
  <2>1. Len(c) = Len(d) BY <1>1, <1>3, <1>4
  <2>2. ASSUME NEW i \in 1 .. Len(c) PROVE c[i] = d[i]
    <3>1. n + i \in 1 .. Len(t) /\ m + i = Len(s) + (n + i) /\ i \in 1 .. Len(t) - n BY <1>1, <1>3
    <3>2. c[i] = (s \o t)[m + i] BY <1>3
    <3> HIDE DEF m
    <3> QED BY <1>1, <1>4, <3>1, <3>2
  <2> QED BY <1>3, <1>4, <2>1, <2>2, SameText
<1> QED BY <1>6, <1>7 DEF a, b, c, d

-----------------------------------------------------------------------------
(* Where a tag or a stop string lies in a text, and where it may yet begin. *)
StartsAt(x, tag, i) == \A j \in 1 .. Len(tag) : i + j - 1 <= Len(x) => x[i + j - 1] = tag[j]
Free(x, tag, n) == \A i \in 1 .. n : ~StartsAt(x, tag, i)

(* A slice equals a text by its characters.                                *)
LEMMA SlicesEqual ==
  ASSUME NEW s \in Str, NEW t \in Str, NEW i \in Nat, i >= 1, i + Len(t) - 1 <= Len(s)
  PROVE  SubSeq(s, i, i + Len(t) - 1) = t <=> \A j \in 1 .. Len(t) : s[i + j - 1] = t[j]
<1> DEFINE n == i + Len(t) - 1 u == SubSeq(s, i, n)
<1>1. Len(s) \in Nat /\ Len(t) \in Nat /\ n \in Int BY TextLen
<1>2. \A j \in 1 .. Len(s) : s[j] \in Char BY ElementOfSeq DEF Str
<1>3. \A j \in i .. n : s[j] \in Char BY <1>1, <1>2
<1>4. /\ u \in Str /\ Len(u) = (IF i <= n THEN n - i + 1 ELSE 0)
      /\ \A j \in 1 .. n - i + 1 : u[j] = s[i + j - 1]
  BY <1>1, <1>3, SubSeqProperties DEF Str
<1>5. Len(u) = Len(t) /\ n - i + 1 = Len(t) BY <1>1, <1>4
<1> HIDE DEF u, n
<1>6. \A j \in 1 .. Len(t) : u[j] = s[i + j - 1] BY <1>4, <1>5
<1>7. u = t <=> \A j \in 1 .. Len(t) : u[j] = t[j] BY <1>4, <1>5, SameText
<1>8. u = t <=> \A j \in 1 .. Len(t) : s[i + j - 1] = t[j] BY <1>6, <1>7
<1> QED BY <1>8 DEF u, n

(* Where a text occurs in another, by its characters.                      *)
LEMMA OccurrenceIs ==
  ASSUME NEW s \in Str, NEW t \in Str, t # <<>>
  PROVE  \A i : i \in Occurrences(s, t) <=>
           /\ i \in Nat /\ i >= 1 /\ i + Len(t) - 1 <= Len(s)
           /\ \A j \in 1 .. Len(t) : s[i + j - 1] = t[j]
<1> TAKE i
<1>1. Len(s) \in Nat /\ Len(t) \in Nat BY TextLen
<1>2. i \in 1 .. Len(s) - Len(t) + 1 <=> i \in Nat /\ i >= 1 /\ i + Len(t) - 1 <= Len(s) BY <1>1
<1>3. i \in Occurrences(s, t) <=>
        i \in 1 .. Len(s) - Len(t) + 1 /\ SubSeq(s, i, i + Len(t) - 1) = t
  BY DEF Occurrences
<1> QED BY <1>2, <1>3, SlicesEqual

(* Prefixes by their characters.                                           *)
LEMMA PrefixIs ==
  ASSUME NEW s \in Str, NEW t \in Str
  PROVE  IsPrefix(s, t) <=> Len(s) <= Len(t) /\ \A i \in 1 .. Len(s) : s[i] = t[i]
<1>1. Len(s) \in Nat /\ Len(t) \in Nat BY TextLen
<1>2. SubSeq(s, 1, Len(s)) = s BY SubSeqFull DEF Str
<1>3. IsPrefix(s, t) <=> Len(s) <= Len(t) /\ SubSeq(t, 1, Len(s)) = s BY <1>2 DEF IsPrefix
<1>4. ASSUME Len(s) <= Len(t)
      PROVE  SubSeq(t, 1, Len(s)) = s <=> \A i \in 1 .. Len(s) : t[i] = s[i]
  <2>1. SubSeq(t, 1, 1 + Len(s) - 1) = s <=> \A j \in 1 .. Len(s) : t[1 + j - 1] = s[j]
    BY <1>1, <1>4, SlicesEqual
  <2>2. 1 + Len(s) - 1 = Len(s) /\ \A j \in 1 .. Len(s) : 1 + j - 1 = j BY <1>1
  <2> QED BY <2>1, <2>2
<1> QED BY <1>3, <1>4

(* A text read backwards.                                                  *)
LEMMA Reversed ==
  ASSUME NEW s \in Str
  PROVE  /\ Reverse(s) \in Str /\ Len(Reverse(s)) = Len(s)
         /\ \A i \in 1 .. Len(s) : Reverse(s)[i] = s[Len(s) - i + 1]
<1>1. Len(s) \in Nat /\ \A i \in 1 .. Len(s) : s[i] \in Char BY TextLen, ElementOfSeq DEF Str
<1>2. \A i \in 1 .. Len(s) : Len(s) - i + 1 \in 1 .. Len(s) BY <1>1
<1>3. Reverse(s) = [i \in 1 .. Len(s) |-> s[Len(s) - i + 1]] BY DEF Reverse
<1>4. Reverse(s) \in [1 .. Len(s) -> Char] BY <1>1, <1>2, <1>3
<1> QED BY <1>1, <1>3, <1>4 DEF Str

(* Suffixes by their characters.                                           *)
LEMMA SuffixIs ==
  ASSUME NEW s \in Str, NEW t \in Str
  PROVE  IsSuffix(s, t) <=> Len(s) <= Len(t) /\ \A i \in 1 .. Len(s) : s[i] = t[Len(t) - Len(s) + i]
<1>1. Len(s) \in Nat /\ Len(t) \in Nat BY TextLen
<1> DEFINE a == Reverse(s) b == Reverse(t)
<1>2. /\ a \in Str /\ Len(a) = Len(s) /\ \A i \in 1 .. Len(s) : a[i] = s[Len(s) - i + 1]
      /\ b \in Str /\ Len(b) = Len(t) /\ \A i \in 1 .. Len(t) : b[i] = t[Len(t) - i + 1]
  BY Reversed
<1>3. IsSuffix(s, t) <=> IsPrefix(a, b) BY DEF IsSuffix
<1> HIDE DEF a, b
<1>4. IsPrefix(a, b) <=> Len(s) <= Len(t) /\ \A i \in 1 .. Len(s) : a[i] = b[i] BY <1>2, PrefixIs
<1>5. ASSUME Len(s) <= Len(t), \A i \in 1 .. Len(s) : a[i] = b[i], NEW i \in 1 .. Len(s)
      PROVE  s[i] = t[Len(t) - Len(s) + i]
  <2> DEFINE j == Len(s) - i + 1
  <2>1. j \in 1 .. Len(s) /\ j \in 1 .. Len(t) /\ Len(s) - j + 1 = i /\ Len(t) - j + 1 = Len(t) - Len(s) + i
    BY <1>1, <1>5
  <2> HIDE DEF j
  <2>2. a[j] = s[Len(s) - j + 1] /\ b[j] = t[Len(t) - j + 1] /\ a[j] = b[j] BY <1>2, <1>5, <2>1
  <2> QED BY <2>1, <2>2
<1>6. ASSUME Len(s) <= Len(t), \A i \in 1 .. Len(s) : s[i] = t[Len(t) - Len(s) + i], NEW i \in 1 .. Len(s)
      PROVE  a[i] = b[i]
  <2> DEFINE j == Len(s) - i + 1
  <2>1. j \in 1 .. Len(s) /\ i \in 1 .. Len(t) /\ Len(t) - Len(s) + j = Len(t) - i + 1 BY <1>1, <1>6
  <2>2. a[i] = s[j] /\ b[i] = t[Len(t) - i + 1] BY <1>2, <2>1
  <2>3. s[j] = t[Len(t) - Len(s) + j] BY <1>6, <2>1
  <2> HIDE DEF j
  <2> QED BY <2>1, <2>2, <2>3
<1> QED BY <1>3, <1>4, <1>5, <1>6

(* What was not begun there is not begun there by what comes after.        *)
LEMMA FreeExtended ==
  ASSUME NEW x \in Str, NEW w \in Str, NEW tag \in Str, NEW n \in 0 .. Len(x), Free(x, tag, n)
  PROVE  Free(x \o w, tag, n)
<1>1. /\ Len(x \o w) = Len(x) + Len(w) /\ Len(x) \in Nat /\ Len(w) \in Nat /\ Len(tag) \in Nat
      /\ \A i \in 1 .. Len(x) : (x \o w)[i] = x[i]
  BY Joined, TextLen
<1>2. ASSUME NEW i \in 1 .. n, StartsAt(x \o w, tag, i) PROVE StartsAt(x, tag, i)
  <2>1. ASSUME NEW j \in 1 .. Len(tag), i + j - 1 <= Len(x) PROVE x[i + j - 1] = tag[j]
    <3>1. i + j - 1 \in 1 .. Len(x) /\ i + j - 1 <= Len(x \o w) BY <1>1, <2>1
    <3>2. (x \o w)[i + j - 1] = tag[j] BY <1>2, <3>1 DEF StartsAt
    <3> QED BY <1>1, <3>1, <3>2
  <2> QED BY <2>1 DEF StartsAt
<1> QED BY <1>2 DEF Free

(* Free of a in front of p, and free in p. *)
LEMMA FreeJoined ==
  ASSUME NEW a \in Str, NEW p \in Str, NEW tag \in Str, NEW c \in 0 .. Len(p),
         Free(a \o p, tag, Len(a)), Free(p, tag, c)
  PROVE  Free(a \o p, tag, Len(a) + c)
<1>1. /\ Len(a \o p) = Len(a) + Len(p) /\ Len(a) \in Nat /\ Len(p) \in Nat /\ Len(tag) \in Nat
      /\ \A i \in 1 .. Len(p) : (a \o p)[Len(a) + i] = p[i]
  BY Joined, TextLen
<1>2. ASSUME NEW i \in 1 .. Len(a) + c, i > Len(a), StartsAt(a \o p, tag, i) PROVE StartsAt(p, tag, i - Len(a))
  <2>1. ASSUME NEW j \in 1 .. Len(tag), i - Len(a) + j - 1 <= Len(p) PROVE p[i - Len(a) + j - 1] = tag[j]
    <3> DEFINE k == i - Len(a) + j - 1
    <3>1. k \in 1 .. Len(p) /\ i + j - 1 <= Len(a \o p) /\ i + j - 1 = Len(a) + k BY <1>1, <1>2, <2>1
    <3>2. (a \o p)[i + j - 1] = tag[j] BY <1>2, <3>1 DEF StartsAt
    <3> HIDE DEF k
    <3>3. p[k] = tag[j] BY <1>1, <3>1, <3>2
    <3> QED BY <3>3 DEF k
  <2> QED BY <2>1 DEF StartsAt
<1>3. ASSUME NEW i \in 1 .. Len(a) + c PROVE ~StartsAt(a \o p, tag, i)
  <2>1. CASE i <= Len(a) BY <1>1, <2>1 DEF Free
  <2>2. CASE i > Len(a)
    <3>1. i - Len(a) \in 1 .. c BY <1>1, <2>2
    <3> QED BY <1>2, <2>2, <3>1 DEF Free
  <2> QED BY <1>1, <2>1, <2>2
<1> QED BY <1>3 DEF Free

(* What is held back of p: a tag begins nowhere before it.                 *)
LEMMA BegunIs ==
  ASSUME NEW p \in Str, NEW tag \in Str, tag # <<>>
  PROVE  /\ Begun(p, tag) \in 0 .. Len(p) /\ Begun(p, tag) < Len(tag)
         /\ Occurrences(p, tag) = {} => Free(p, tag, Len(p) - Begun(p, tag))
<1> DEFINE S == {0} \cup {k \in 1 .. Len(tag) - 1 : IsSuffix(Take(tag, k), p)} h == Begun(p, tag)
<1>1. Len(p) \in Nat /\ Len(tag) \in Nat /\ Len(tag) >= 1 BY TextLen
<1>2. ASSUME NEW k \in 1 .. Len(tag) - 1
      PROVE IsSuffix(Take(tag, k), p) <=> k <= Len(p) /\ \A i \in 1 .. k : tag[i] = p[Len(p) - k + i]
  <2>1. k \in 0 .. Len(tag) BY <1>1
  <2>2. Take(tag, k) \in Str /\ Len(Take(tag, k)) = k /\ \A i \in 1 .. k : Take(tag, k)[i] = tag[i]
    BY <2>1, Parts
  <2> DEFINE u == Take(tag, k)
  <2>3. u \in Str /\ Len(u) = k /\ \A i \in 1 .. k : u[i] = tag[i] BY <2>2
  <2> HIDE DEF u
  <2>4. IsSuffix(u, p) <=> k <= Len(p) /\ \A i \in 1 .. k : u[i] = p[Len(p) - k + i] BY <2>3, SuffixIs
  <2>5. IsSuffix(u, p) <=> k <= Len(p) /\ \A i \in 1 .. k : tag[i] = p[Len(p) - k + i] BY <2>3, <2>4
  <2> QED BY <2>5 DEF u
<1>3. S \in SUBSET (0 .. Len(p)) /\ S # {} BY <1>1, <1>2
<1>4. h = Max(S) BY DEF Begun
<1>5. h \in S /\ \A n \in S : n <= h BY <1>1, <1>3, <1>4, MaxIs
<1>6. h \in 0 .. Len(p) /\ h < Len(tag) BY <1>1, <1>3, <1>5
<1>7. ASSUME Occurrences(p, tag) = {}, NEW i \in 1 .. Len(p) - h, StartsAt(p, tag, i) PROVE FALSE
  <2> DEFINE k == Len(p) - i + 1
  <2>1. k \in Nat /\ k > h /\ k <= Len(p) /\ Len(p) - k = i - 1 BY <1>1, <1>6
  <2>2. CASE k >= Len(tag)
    <3>1. i + Len(tag) - 1 <= Len(p) /\ \A j \in 1 .. Len(tag) : i + j - 1 <= Len(p) BY <1>1, <2>2
    <3>2. \A j \in 1 .. Len(tag) : p[i + j - 1] = tag[j] BY <1>7, <3>1 DEF StartsAt
    <3>3. i \in Nat /\ i >= 1 OBVIOUS
    <3>4. i \in Occurrences(p, tag) BY <3>1, <3>2, <3>3, OccurrenceIs
    <3> QED BY <1>7, <3>4
  <2>3. CASE k < Len(tag)
    <3>1. k \in 1 .. Len(tag) - 1 BY <1>1, <1>6, <2>1, <2>3
    <3>2. ASSUME NEW j \in 1 .. k PROVE tag[j] = p[Len(p) - k + j]
      <4>1. j \in 1 .. Len(tag) /\ i + j - 1 <= Len(p) /\ i + j - 1 = Len(p) - k + j BY <1>1, <2>1, <3>1
      <4>2. p[i + j - 1] = tag[j] BY <1>7, <4>1 DEF StartsAt
      <4> QED BY <4>1, <4>2
    <3> HIDE DEF k
    <3>3. IsSuffix(Take(tag, k), p) BY <1>2, <2>1, <3>1, <3>2
    <3>4. k \in S BY <3>1, <3>3
    <3>5. k <= h BY <1>5, <3>4
    <3> HIDE DEF S, h
    <3> QED BY <1>6, <2>1, <3>5
  <2> QED BY <1>1, <2>1, <2>2, <2>3
<1> QED BY <1>6, <1>7 DEF Free

(* In a text that is free as far as p, the tag is where it is in p.        *)
LEMMA OccurrencesBehind ==
  ASSUME NEW a \in Str, NEW p \in Str, NEW tag \in Str, tag # <<>>, Free(a \o p, tag, Len(a))
  PROVE  Occurrences(a \o p, tag) = {Len(a) + i : i \in Occurrences(p, tag)}
<1>1. /\ a \o p \in Str /\ Len(a \o p) = Len(a) + Len(p) /\ Len(a) \in Nat /\ Len(p) \in Nat
      /\ \A i \in 1 .. Len(p) : (a \o p)[Len(a) + i] = p[i]
  BY Joined
<1>2. Len(tag) \in Nat /\ Len(tag) >= 1 BY TextLen
<1>3. ASSUME NEW i \in Occurrences(a \o p, tag) PROVE i - Len(a) \in Occurrences(p, tag)
  <2> DEFINE x == a \o p
  <2>8. x \in Str /\ i \in Occurrences(x, tag) BY <1>1
  <2> HIDE DEF x
  <2>9. /\ i \in Nat /\ i >= 1 /\ i + Len(tag) - 1 <= Len(x)
        /\ \A j \in 1 .. Len(tag) : x[i + j - 1] = tag[j]
    BY <2>8, OccurrenceIs
  <2> USE DEF x
  <2>1. /\ i \in Nat /\ i >= 1 /\ i + Len(tag) - 1 <= Len(a) + Len(p)
        /\ \A j \in 1 .. Len(tag) : (a \o p)[i + j - 1] = tag[j]
    BY <1>1, <2>9
  <2>2. StartsAt(a \o p, tag, i) BY <2>1 DEF StartsAt
  <2>3. i > Len(a) BY <1>1, <2>1, <2>2 DEF Free
  <2> DEFINE k == i - Len(a)
  <2>4. k \in Nat /\ k >= 1 /\ k + Len(tag) - 1 <= Len(p) BY <1>1, <1>2, <2>1, <2>3
  <2>5. ASSUME NEW j \in 1 .. Len(tag) PROVE p[k + j - 1] = tag[j]
    <3>1. k + j - 1 \in 1 .. Len(p) /\ Len(a) + (k + j - 1) = i + j - 1 BY <1>1, <1>2, <2>1, <2>4
    <3>2. (a \o p)[Len(a) + (k + j - 1)] = p[k + j - 1] BY <1>1, <3>1
    <3> QED BY <2>1, <3>1, <3>2
  <2> HIDE DEF k
  <2>6. k \in Occurrences(p, tag) BY <2>4, <2>5, OccurrenceIs
  <2> QED BY <2>6 DEF k
<1>4. ASSUME NEW k \in Occurrences(p, tag) PROVE Len(a) + k \in Occurrences(a \o p, tag)
  <2>1. /\ k \in Nat /\ k >= 1 /\ k + Len(tag) - 1 <= Len(p)
        /\ \A j \in 1 .. Len(tag) : p[k + j - 1] = tag[j]
    BY OccurrenceIs
  <2> DEFINE i == Len(a) + k
  <2>2. i \in Nat /\ i >= 1 /\ i + Len(tag) - 1 <= Len(a \o p) BY <1>1, <1>2, <2>1
  <2>3. ASSUME NEW j \in 1 .. Len(tag) PROVE (a \o p)[i + j - 1] = tag[j]
    <3>1. k + j - 1 \in 1 .. Len(p) /\ Len(a) + (k + j - 1) = i + j - 1 BY <1>1, <1>2, <2>1
    <3>2. (a \o p)[Len(a) + (k + j - 1)] = p[k + j - 1] BY <1>1, <3>1
    <3> QED BY <2>1, <3>1, <3>2
  <2> HIDE DEF i
  <2>4. i \in Occurrences(a \o p, tag) BY <1>1, <2>2, <2>3, OccurrenceIs
  <2> QED BY <2>4 DEF i
<1>5. \A i \in Occurrences(a \o p, tag) : i \in Nat BY <1>1, OccurrenceIs
<1>6. ASSUME NEW i \in Occurrences(a \o p, tag) PROVE \E k \in Occurrences(p, tag) : i = Len(a) + k
  <2>1. i = Len(a) + (i - Len(a)) BY <1>1, <1>5
  <2> QED BY <1>3, <2>1
<1> QED BY <1>4, <1>6

(* The first occurrence lies in the text.                                  *)
LEMMA FirstOccurrence ==
  ASSUME NEW s \in Str, NEW tag \in Str, tag # <<>>, Occurrences(s, tag) # {}
  PROVE  /\ Min(Occurrences(s, tag)) \in Occurrences(s, tag)
         /\ \A i \in Occurrences(s, tag) : Min(Occurrences(s, tag)) <= i
         /\ Min(Occurrences(s, tag)) \in 1 .. Len(s)
         /\ Min(Occurrences(s, tag)) + Len(tag) - 1 \in 1 .. Len(s)
<1>1. Occurrences(s, tag) \in SUBSET Nat BY OccurrenceIs
<1>2. /\ Min(Occurrences(s, tag)) \in Occurrences(s, tag)
      /\ \A i \in Occurrences(s, tag) : Min(Occurrences(s, tag)) <= i
  BY <1>1, MinIs
<1>3. Len(s) \in Nat /\ Len(tag) \in Nat /\ Len(tag) >= 1 BY TextLen
<1>4. LET m == Min(Occurrences(s, tag)) IN m \in Nat /\ m >= 1 /\ m + Len(tag) - 1 <= Len(s)
  BY <1>2, OccurrenceIs
<1> QED BY <1>2, <1>3, <1>4

(* If the tag begins nowhere in a, its first occurrence is that in the rest.*)
LEMMA FirstBehind ==
  ASSUME NEW a \in Str, NEW p \in Str, NEW tag \in Str, tag # <<>>, Free(a \o p, tag, Len(a)),
         Occurrences(p, tag) # {}
  PROVE  Occurrences(a \o p, tag) # {} /\ Min(Occurrences(a \o p, tag)) = Len(a) + Min(Occurrences(p, tag))
<1> DEFINE m == Min(Occurrences(p, tag)) k == Min(Occurrences(a \o p, tag))
<1>1. Occurrences(a \o p, tag) = {Len(a) + i : i \in Occurrences(p, tag)} BY OccurrencesBehind
<1>2. m \in Occurrences(p, tag) /\ (\A i \in Occurrences(p, tag) : m <= i) /\ m \in Nat BY FirstOccurrence
<1>3. a \o p \in Str /\ Len(a) \in Nat BY Joined
<1>4. k \in Occurrences(a \o p, tag) /\ (\A i \in Occurrences(a \o p, tag) : k <= i) /\ k \in Nat
  <2>1. Occurrences(a \o p, tag) # {} BY <1>1, <1>2
  <2> QED BY <1>3, <2>1, FirstOccurrence
<1> HIDE DEF m, k
<1>5. k <= Len(a) + m BY <1>1, <1>2, <1>4
<1>6. Len(a) + m <= k
  <2>1. PICK i \in Occurrences(p, tag) : k = Len(a) + i BY <1>1, <1>4
  <2>2. i \in Nat /\ m <= i BY <1>2, OccurrenceIs
  <2> QED BY <1>2, <1>3, <2>1, <2>2
<1>7. k = Len(a) + m BY <1>2, <1>3, <1>4, <1>5, <1>6
<1> QED BY <1>1, <1>2, <1>7 DEF m, k

(* The first occurrence stays the first.                                   *)
LEMMA FirstStays ==
  ASSUME NEW x \in Str, NEW w \in Str, NEW tag \in Str, tag # <<>>, Occurrences(x, tag) # {}
  PROVE  Occurrences(x \o w, tag) # {} /\ Min(Occurrences(x \o w, tag)) = Min(Occurrences(x, tag))
<1> DEFINE m == Min(Occurrences(x, tag)) k == Min(Occurrences(x \o w, tag))
<1>1. /\ x \o w \in Str /\ Len(x \o w) = Len(x) + Len(w) /\ Len(x) \in Nat /\ Len(w) \in Nat
      /\ \A i \in 1 .. Len(x) : (x \o w)[i] = x[i]
  BY Joined
<1>2. Len(tag) \in Nat /\ Len(tag) >= 1 BY TextLen
<1>3. /\ m \in Nat /\ m >= 1 /\ m + Len(tag) - 1 <= Len(x)
      /\ \A j \in 1 .. Len(tag) : x[m + j - 1] = tag[j]
      /\ \A i \in Occurrences(x, tag) : m <= i
  BY FirstOccurrence, OccurrenceIs
<1> HIDE DEF m
<1>4. \A j \in 1 .. Len(tag) : m + j - 1 \in 1 .. Len(x) BY <1>1, <1>2, <1>3
<1>5. \A j \in 1 .. Len(tag) : (x \o w)[m + j - 1] = tag[j] BY <1>1, <1>3, <1>4
<1>6. m + Len(tag) - 1 <= Len(x \o w) BY <1>1, <1>2, <1>3
<1>7. m \in Occurrences(x \o w, tag) BY <1>1, <1>3, <1>5, <1>6, OccurrenceIs
<1>8. k \in Occurrences(x \o w, tag) /\ k <= m /\ k \in Nat /\ k >= 1
  BY <1>1, <1>7, FirstOccurrence
<1> HIDE DEF k
<1>9. m <= k
  <2>1. \A j \in 1 .. Len(tag) : (x \o w)[k + j - 1] = tag[j] BY <1>1, <1>8, OccurrenceIs
  <2>2. k + Len(tag) - 1 <= Len(x) BY <1>1, <1>2, <1>3, <1>8
  <2>3. \A j \in 1 .. Len(tag) : k + j - 1 \in 1 .. Len(x) BY <1>1, <1>2, <1>8, <2>2
  <2>4. \A j \in 1 .. Len(tag) : x[k + j - 1] = tag[j] BY <1>1, <2>1, <2>3
  <2>5. k \in Occurrences(x, tag) BY <1>8, <2>2, <2>4, OccurrenceIs
  <2> QED BY <1>3, <2>5
<1>10. k = m BY <1>3, <1>8, <1>9
<1> QED BY <1>7, <1>10 DEF k, m

-----------------------------------------------------------------------------
(* Newlines at the start and at the end.                                   *)
LEMMA TrimStartAt ==
  ASSUME NEW s \in Str, NEW n \in 0 .. Len(s), \A i \in 1 .. n : s[i] = Newline,
         n < Len(s) => s[n + 1] # Newline
  PROVE  TrimStart(s) = Drop(s, n) /\ (TrimStart(s) = <<>> <=> n = Len(s))
<1> DEFINE N == {i \in DOMAIN s : s[i] # Newline}
<1>1. Len(s) \in Nat /\ DOMAIN s = 1 .. Len(s) BY LenProperties DEF Str
<1>7. Len(s) \in Nat /\ n \in Int /\ n >= 0 /\ n <= Len(s) BY <1>1
<1>2. TrimStart(s) = IF N = {} THEN <<>> ELSE Drop(s, Min(N) - 1) BY DEF TrimStart
<1>3. Drop(s, n) \in Str /\ Len(Drop(s, n)) = Len(s) - n BY Parts
<1>4. Drop(s, n) = <<>> <=> n = Len(s)
  <2>1. Drop(s, n) = <<>> <=> Len(Drop(s, n)) = 0 BY <1>3, TextLen
  <2> HIDE DEF N
  <2> QED BY <1>3, <1>7, <2>1
<1>5. CASE n = Len(s)
  <2>1. N = {} BY <1>1, <1>5
  <2> QED BY <1>2, <1>4, <1>5, <2>1
<1>6. CASE n # Len(s)
  <2>5. n < Len(s) BY <1>6, <1>7
  <2>1. n + 1 \in N BY <1>1, <1>7, <2>5
  <2>2. \A i \in N : n + 1 <= i
    <3> TAKE i \in N
    <3>1. i \in 1 .. Len(s) /\ i \notin 1 .. n BY <1>1
    <3> QED BY <1>1, <3>1
  <2>3. N \in SUBSET Nat BY <1>1
  <2> HIDE DEF N
  <2>4. Min(N) \in N /\ Min(N) <= n + 1 /\ Min(N) \in Nat BY <2>1, <2>3, MinIs
  <2>7. Min(N) - 1 = n BY <2>2, <2>4
  <2>6. N # {} BY <2>1
  <2> QED BY <1>2, <1>4, <1>6, <2>7, <2>6
<1> QED BY <1>5, <1>6

(* There is a first character that is no newline, or none.                 *)
LEMMA TrimStartCut ==
  ASSUME NEW s \in Str
  PROVE  \E n \in 0 .. Len(s) : (\A i \in 1 .. n : s[i] = Newline) /\ (n < Len(s) => s[n + 1] # Newline)
<1>1. Len(s) \in Nat BY TextLen
<1> DEFINE N == {i \in Nat : i \in 1 .. Len(s) /\ s[i] # Newline}
<1>2. CASE N = {} BY <1>1, <1>2
<1>3. CASE N # {}
  <2>1. N \in SUBSET Nat OBVIOUS
  <2>2. Min(N) \in N /\ \A i \in N : Min(N) <= i BY <1>3, <2>1, MinIs
  <2> DEFINE n == Min(N) - 1
  <2>3. n \in 0 .. Len(s) /\ n < Len(s) /\ s[n + 1] # Newline BY <1>1, <2>2
  <2>4. \A i \in 1 .. n : i \notin N BY <2>2, <2>3
  <2>5. \A i \in 1 .. n : s[i] = Newline BY <1>1, <2>3, <2>4
  <2> HIDE DEF n
  <2> QED BY <2>3, <2>5
<1> QED BY <1>2, <1>3

(* What is trimmed is a text.                                              *)
LEMMA TrimStartType == ASSUME NEW s \in Str PROVE TrimStart(s) \in Str
<1>1. PICK n \in 0 .. Len(s) : (\A i \in 1 .. n : s[i] = Newline) /\ (n < Len(s) => s[n + 1] # Newline)
  BY TrimStartCut
<1>2. TrimStart(s) = Drop(s, n) BY <1>1, TrimStartAt
<1> QED BY <1>2, Parts

(* Leading newlines of a text that comes in parts.                         *)
LEMMA TrimStartJoined ==
  ASSUME NEW s \in Str, NEW t \in Str
  PROVE  TrimStart(s \o t) = IF TrimStart(s) = <<>> THEN TrimStart(t) ELSE TrimStart(s) \o t
<1>1. /\ s \o t \in Str /\ Len(s \o t) = Len(s) + Len(t) /\ Len(s) \in Nat /\ Len(t) \in Nat
      /\ \A i \in 1 .. Len(s) : (s \o t)[i] = s[i]
      /\ \A i \in 1 .. Len(t) : (s \o t)[Len(s) + i] = t[i]
  BY Joined
<1>2. PICK n \in 0 .. Len(s) : (\A i \in 1 .. n : s[i] = Newline) /\ (n < Len(s) => s[n + 1] # Newline)
  BY TrimStartCut
<1>3. PICK k \in 0 .. Len(t) : (\A i \in 1 .. k : t[i] = Newline) /\ (k < Len(t) => t[k + 1] # Newline)
  BY TrimStartCut
<1>4. TrimStart(s) = Drop(s, n) /\ (TrimStart(s) = <<>> <=> n = Len(s)) BY <1>2, TrimStartAt
<1>5. TrimStart(t) = Drop(t, k) BY <1>3, TrimStartAt
<1>6. CASE n = Len(s)
  <2> DEFINE m == Len(s) + k
  <2>1. m \in 0 .. Len(s \o t) BY <1>1
  <2>2. ASSUME NEW i \in 1 .. m PROVE (s \o t)[i] = Newline
    <3>1. CASE i <= Len(s) BY <1>1, <1>2, <1>6, <3>1
    <3>2. CASE i > Len(s)
      <4> DEFINE j == i - Len(s)
      <4>1. j \in 1 .. k /\ j \in 1 .. Len(t) /\ i = Len(s) + j BY <1>1, <3>2
      <4> HIDE DEF j
      <4> QED BY <1>1, <1>3, <4>1
    <3> QED BY <1>1, <3>1, <3>2
  <2>3. m < Len(s \o t) => (s \o t)[m + 1] # Newline
    <3> HAVE m < Len(s \o t)
    <3>1. k + 1 \in 1 .. Len(t) /\ m + 1 = Len(s) + (k + 1) BY <1>1
    <3>2. (s \o t)[Len(s) + (k + 1)] = t[k + 1] BY <1>1, <3>1
    <3>3. k < Len(t) BY <1>1, <3>1
    <3> QED BY <1>3, <3>1, <3>2, <3>3
  <2>4. TrimStart(s \o t) = Drop(s \o t, m) BY <1>1, <2>1, <2>2, <2>3, TrimStartAt
  <2>5. Drop(s \o t, m) = Drop(t, k) BY CutBeyond
  <2> QED BY <1>4, <1>5, <1>6, <2>4, <2>5
<1>7. CASE n # Len(s)
  <2>1. n \in 0 .. Len(s \o t) /\ n < Len(s) /\ n + 1 \in 1 .. Len(s) BY <1>1, <1>7
  <2>2. \A i \in 1 .. n : (s \o t)[i] = Newline BY <1>1, <1>2
  <2>3. (s \o t)[n + 1] # Newline BY <1>1, <1>2, <2>1
  <2>4. TrimStart(s \o t) = Drop(s \o t, n) BY <1>1, <2>1, <2>2, <2>3, TrimStartAt
  <2>5. Drop(s \o t, n) = Drop(s, n) \o t BY CutWithin
  <2> QED BY <1>4, <1>7, <2>4, <2>5
<1> QED BY <1>6, <1>7

(* It does not end in a newline.                                          *)
Tidy(s) == s = <<>> \/ s[Len(s)] # Newline

(* Trimming ends where only newlines follow.                               *)
LEMMA TrimEndAt ==
  ASSUME NEW s \in Str, NEW n \in 0 .. Len(s), \A i \in n + 1 .. Len(s) : s[i] = Newline,
         n > 0 => s[n] # Newline
  PROVE  TrimEnd(s) = Take(s, n)
<1> DEFINE N == {i \in DOMAIN s : s[i] # Newline}
<1>1. Len(s) \in Nat /\ DOMAIN s = 1 .. Len(s) BY LenProperties DEF Str
<1>2. n \in Nat /\ n <= Len(s) BY <1>1
<1>3. TrimEnd(s) = IF N = {} THEN <<>> ELSE Take(s, Max(N)) BY DEF TrimEnd
<1>4. \A i \in N : i \in 0 .. Len(s) /\ i <= n
  <2> TAKE i \in N
  <2>1. i \in 1 .. Len(s) /\ i \notin n + 1 .. Len(s) BY <1>1
  <2> QED BY <1>1, <1>2, <2>1
<1>5. CASE n = 0
  <2>1. N = {}
    <3> SUFFICES ASSUME NEW i \in N PROVE FALSE OBVIOUS
    <3>1. i \in 1 .. Len(s) /\ i <= n BY <1>1, <1>4
    <3> QED BY <1>5, <3>1
  <2>2. Take(s, n) \in Str /\ Len(Take(s, n)) = 0 BY <1>5, Parts
  <2>3. Take(s, n) = <<>> BY <2>2, TextLen
  <2> QED BY <1>3, <2>1, <2>3
<1>6. CASE n > 0
  <2>1. n \in N BY <1>1, <1>2, <1>6
  <2>2. N \in SUBSET (0 .. Len(s)) BY <1>4
  <2> HIDE DEF N
  <2>3. Max(N) \in N /\ \A i \in N : i <= Max(N) BY <1>1, <2>1, <2>2, MaxIs
  <2>6. \A i \in N : i \in Nat /\ i <= n BY <1>4, <1>1
  <2>4. Max(N) <= n /\ n <= Max(N) /\ Max(N) \in Nat BY <2>1, <2>3, <2>6
  <2>5. Max(N) = n BY <1>2, <2>4
  <2> QED BY <1>3, <2>1, <2>5
<1> QED BY <1>2, <1>5, <1>6

(* There is a last character that is no newline, or none.                  *)
LEMMA TrimEndCut ==
  ASSUME NEW s \in Str
  PROVE  \E n \in 0 .. Len(s) : (\A i \in n + 1 .. Len(s) : s[i] = Newline) /\ (n > 0 => s[n] # Newline)
<1>1. Len(s) \in Nat BY TextLen
<1> DEFINE N == {i \in 1 .. Len(s) : s[i] # Newline}
<1>2. CASE N = {}
  <2>1. \A i \in 0 + 1 .. Len(s) : s[i] = Newline BY <1>2
  <2> QED BY <1>1, <2>1
<1>3. CASE N # {}
  <2>1. N \in SUBSET (0 .. Len(s)) OBVIOUS
  <2> DEFINE n == Max(N)
  <2>2. n \in N /\ \A i \in N : i <= n BY <1>1, <1>3, <2>1, MaxIs
  <2> HIDE DEF n
  <2>3. n \in 0 .. Len(s) /\ s[n] # Newline BY <2>2
  <2>4. ASSUME NEW i \in n + 1 .. Len(s) PROVE s[i] = Newline
    <3>1. i \in 1 .. Len(s) /\ ~(i <= n) BY <1>1, <2>3
    <3> QED BY <2>2, <3>1
  <2> QED BY <2>3, <2>4
<1> QED BY <1>2, <1>3

(* What is left is a beginning that does not end in a newline.             *)
LEMMA TrimEndIs ==
  ASSUME NEW s \in Str
  PROVE  /\ TrimEnd(s) \in Str /\ Len(TrimEnd(s)) \in 0 .. Len(s) /\ Tidy(TrimEnd(s))
         /\ TrimEnd(s) = Take(s, Len(TrimEnd(s)))
<1>1. PICK n \in 0 .. Len(s) : (\A i \in n + 1 .. Len(s) : s[i] = Newline) /\ (n > 0 => s[n] # Newline)
  BY TrimEndCut
<1>2. TrimEnd(s) = Take(s, n) BY <1>1, TrimEndAt
<1> DEFINE u == Take(s, n)
<1>3. u \in Str /\ Len(u) = n /\ \A i \in 1 .. n : u[i] = s[i] BY Parts
<1> HIDE DEF u
<1>4. Tidy(u)
  <2>1. CASE n = 0 BY <1>3, <2>1, TextLen DEF Tidy
  <2>2. CASE n > 0
    <3>1. n \in 1 .. n BY <2>2, TextLen
    <3> QED BY <1>1, <1>3, <2>2, <3>1 DEF Tidy
  <2> QED BY <2>1, <2>2, TextLen
<1> QED BY <1>2, <1>3, <1>4 DEF u

(* Nothing to trim.                                                        *)
LEMMA TrimEndEmpty == TrimEnd(<<>>) = <<>>
<1>1. <<>> \in Str /\ Len(<<>>) = 0 BY EmptyText, TextLen
<1>2. TrimEnd(<<>>) \in Str /\ Len(TrimEnd(<<>>)) \in 0 .. 0 BY <1>1, TrimEndIs
<1> QED BY <1>2, TextLen

(* Behind a tidy text only the newlines at the end of the rest go.         *)
LEMMA TrimEndJoined ==
  ASSUME NEW s \in Str, NEW t \in Str, Tidy(s)
  PROVE  TrimEnd(s \o t) = s \o TrimEnd(t) /\ Tidy(s \o TrimEnd(t))
<1>1. /\ s \o t \in Str /\ Len(s \o t) = Len(s) + Len(t) /\ Len(s) \in Nat /\ Len(t) \in Nat
      /\ \A i \in 1 .. Len(s) : (s \o t)[i] = s[i]
      /\ \A i \in 1 .. Len(t) : (s \o t)[Len(s) + i] = t[i]
  BY Joined
<1>2. PICK n \in 0 .. Len(t) : (\A i \in n + 1 .. Len(t) : t[i] = Newline) /\ (n > 0 => t[n] # Newline)
  BY TrimEndCut
<1>3. TrimEnd(t) = Take(t, n) BY <1>2, TrimEndAt
<1> DEFINE m == Len(s) + n
<1>4. m \in 0 .. Len(s \o t) BY <1>1
<1>5. ASSUME NEW i \in m + 1 .. Len(s \o t) PROVE (s \o t)[i] = Newline
  <2> DEFINE j == i - Len(s)
  <2>1. j \in 1 .. Len(t) /\ j \in n + 1 .. Len(t) /\ i = Len(s) + j BY <1>1
  <2> HIDE DEF j
  <2> QED BY <1>1, <1>2, <2>1
<1>6. m > 0 => (s \o t)[m] # Newline
  <2> HAVE m > 0
  <2>1. CASE n > 0
    <3>1. n \in 1 .. Len(t) BY <1>1, <2>1
    <3>2. (s \o t)[Len(s) + n] = t[n] BY <1>1, <3>1
    <3> QED BY <1>2, <2>1, <3>2
  <2>2. CASE n = 0
    <3>1. Len(s) > 0 /\ m = Len(s) /\ m \in 1 .. Len(s) BY <1>1, <2>2
    <3>2. s # <<>> BY <3>1, TextLen
    <3>3. s[Len(s)] # Newline BY <3>2 DEF Tidy
    <3> HIDE DEF m
    <3> QED BY <1>1, <3>1, <3>3
  <2> QED BY <1>1, <2>1, <2>2
<1>7. TrimEnd(s \o t) = Take(s \o t, m) BY <1>1, <1>4, <1>5, <1>6, TrimEndAt
<1>8. Take(s \o t, m) = s \o Take(t, n) BY CutBeyond
<1>9. Tidy(TrimEnd(s \o t)) BY <1>1, TrimEndIs
<1> QED BY <1>3, <1>7, <1>8, <1>9

-----------------------------------------------------------------------------
(* The stop matcher.                                                       *)
LEMMA StopTypes ==
  /\ \A i \in DOMAIN Stops : Stops[i] \in Str /\ Stops[i] # <<>> /\ Len(Stops[i]) \in Nat /\ Len(Stops[i]) >= 1
  /\ \E n \in Nat : DOMAIN Stops = 1 .. n
<1>1. Stops \in Seq(Str) /\ \A i \in DOMAIN Stops : Stops[i] # <<>> BY FilterAssumption DEF Str
<1>2. DOMAIN Stops = 1 .. Len(Stops) /\ Len(Stops) \in Nat BY <1>1, LenProperties
<1>3. \A i \in DOMAIN Stops : Stops[i] \in Str BY <1>1, <1>2, ElementOfSeq
<1>4. \A i \in DOMAIN Stops : Len(Stops[i]) \in Nat /\ Len(Stops[i]) >= 1
  <2> TAKE i \in DOMAIN Stops
  <2> DEFINE u == Stops[i]
  <2>1. u \in Str /\ u # <<>> BY <1>1, <1>3
  <2> HIDE DEF u
  <2>2. Len(u) \in Nat /\ Len(u) >= 1 BY <2>1, TextLen
  <2> QED BY <2>2 DEF u
<1> QED BY <1>1, <1>2, <1>3, <1>4

(* The hits are the occurrences of the stop strings.                       *)
LEMMA HitIs ==
  ASSUME NEW s
  PROVE  /\ \A h : h \in Hits(s) <=> \E i \in DOMAIN Stops : \E k \in Occurrences(s, Stops[i]) : h = <<k, i>>
         /\ Hits(s) = {} <=> \A i \in DOMAIN Stops : Occurrences(s, Stops[i]) = {}
<1>1. \A h : h \in Hits(s) <=> \E i \in DOMAIN Stops : h \in Occurrences(s, Stops[i]) \X {i} BY DEF Hits
<1>2. \A h : h \in Hits(s) <=> \E i \in DOMAIN Stops : \E k \in Occurrences(s, Stops[i]) : h = <<k, i>> BY <1>1
<1> QED BY <1>2

(* The hit taken is one of the earliest.                                   *)
LEMMA FirstHitIs ==
  ASSUME NEW s \in Str, Hits(s) # {}
  PROVE  /\ FirstHit(s) \in Hits(s) /\ FirstHit(s)[1] \in 1 .. Len(s) /\ FirstHit(s)[2] \in DOMAIN Stops
         /\ FirstHit(s)[1] = Min({h[1] : h \in Hits(s)})
         /\ \A h \in Hits(s) : FirstHit(s)[1] <= h[1] /\ h[1] \in Nat
<1>1. Len(s) \in Nat BY TextLen
<1> DEFINE H == Hits(s) F == {h[1] : h \in H}
<1>2. \A h \in H : h[1] \in 1 .. Len(s) /\ h[2] \in DOMAIN Stops /\ h = <<h[1], h[2]>>
  <2> TAKE h \in H
  <2>1. PICK i \in DOMAIN Stops : \E k \in Occurrences(s, Stops[i]) : h = <<k, i>> BY HitIs
  <2>2. PICK k \in Occurrences(s, Stops[i]) : h = <<k, i>> BY <2>1
  <2>3. k \in Nat /\ k >= 1 /\ k + Len(Stops[i]) - 1 <= Len(s) /\ Len(Stops[i]) \in Nat /\ Len(Stops[i]) >= 1
    BY StopTypes, OccurrenceIs
  <2>4. k \in 1 .. Len(s) BY <1>1, <2>3
  <2> QED BY <2>2, <2>4
<1>3. F # {} /\ F \in SUBSET Nat BY <1>2
<1>4. Min(F) \in F /\ \A n \in F : Min(F) <= n BY <1>3, MinIs
<1> DEFINE I == {h[2] : h \in {g \in H : g[1] = Min(F)}}
<1>5. I # {} /\ I \in SUBSET Nat
  <2>1. PICK n \in Nat : DOMAIN Stops = 1 .. n BY StopTypes
  <2>2. \A h \in H : h[2] \in Nat BY <1>2, <2>1
  <2> QED BY <1>4, <2>2
<1>6. Min(I) \in I /\ \A n \in I : Min(I) <= n BY <1>5, MinIs
<1>7. PICK h \in H : h[1] = Min(F) /\ h[2] = Min(I) BY <1>6
<1>8. \A g \in H : Earlier(h, g)
  <2> TAKE g \in H
  <2>1. g[1] \in F BY DEF F
  <2>2. Min(F) <= g[1] /\ g[1] \in Nat /\ Min(F) \in Nat BY <1>2, <1>3, <1>4, <2>1
  <2>3. CASE g[1] = Min(F)
    <3>1. g[2] \in I BY <2>3
    <3>2. Min(I) <= g[2] BY <1>6, <3>1
    <3> QED BY <1>7, <2>3, <3>2 DEF Earlier
  <2>4. CASE g[1] # Min(F)
    <3>1. h[1] < g[1] BY <1>7, <2>2, <2>4
    <3> QED BY <3>1 DEF Earlier
  <2> QED BY <2>3, <2>4
<1> HIDE DEF I
<1>9. FirstHit(s) \in H /\ \A g \in H : Earlier(FirstHit(s), g) BY <1>7, <1>8 DEF FirstHit
<1>10. \A g \in H : FirstHit(s)[1] <= g[1]
  <2> TAKE g \in H
  <2>1. g[1] \in Nat /\ FirstHit(s)[1] \in Nat BY <1>2, <1>9
  <2>2. Earlier(FirstHit(s), g) BY <1>9
  <2> QED BY <2>1, <2>2 DEF Earlier
<1>11. FirstHit(s)[1] <= Min(F) /\ Min(F) <= FirstHit(s)[1]
  <2>1. PICK g \in H : Min(F) = g[1] BY <1>4
  <2>2. FirstHit(s)[1] \in F BY <1>9 DEF F
  <2> QED BY <1>4, <1>10, <2>1, <2>2
<1>12. FirstHit(s)[1] \in Nat /\ Min(F) \in Nat BY <1>2, <1>3, <1>4, <1>9
<1>13. FirstHit(s)[1] = Min(F) BY <1>11, <1>12
<1> QED BY <1>2, <1>9, <1>10, <1>13

(* Free up to n is free up to less.                                        *)
LEMMA FreeLess ==
  ASSUME NEW x, NEW tag, NEW n \in Int, NEW m \in Int, m <= n, Free(x, tag, n)
  PROVE  Free(x, tag, m)
BY DEF Free

(* Where no stop string occurs none begins before what is held back.       *)
LEMMA HeldBackIs ==
  ASSUME NEW s \in Str
  PROVE  /\ HeldBack(s) \in 0 .. Len(s)
         /\ Hits(s) = {} => \A i \in DOMAIN Stops : Free(s, Stops[i], Len(s) - HeldBack(s))
<1> DEFINE S == {0} \cup Beginnings(s) h == HeldBack(s)
<1>1. Len(s) \in Nat BY TextLen
<1>2. S \in SUBSET (0 .. Len(s)) /\ S # {} BY <1>1 DEF Beginnings
<1>3. h \in S /\ \A n \in S : n <= h BY <1>1, <1>2, MaxIs DEF HeldBack
<1>4. h \in 0 .. Len(s) BY <1>2, <1>3
<1>5. ASSUME Hits(s) = {}, NEW i \in DOMAIN Stops PROVE Free(s, Stops[i], Len(s) - h)
  <2> DEFINE tag == Stops[i] b == Begun(s, tag)
  <2>1. tag \in Str /\ tag # <<>> /\ Len(tag) \in Nat /\ Len(tag) >= 1 BY StopTypes
  <2>2. Occurrences(s, tag) = {} BY <1>5, HitIs
  <2>3. b \in 0 .. Len(s) /\ Free(s, tag, Len(s) - b) BY <2>1, <2>2, BegunIs
  <2>4. b \in {0} \cup {k \in 1 .. Len(tag) - 1 : IsSuffix(Take(tag, k), s)}
    <3> DEFINE B == {0} \cup {k \in 1 .. Len(tag) - 1 : IsSuffix(Take(tag, k), s)}
    <3>1. B \in SUBSET (0 .. Len(tag)) /\ B # {} BY <2>1
    <3>2. b = Max(B) BY DEF Begun
    <3> HIDE DEF B
    <3>3. b \in B BY <2>1, <3>1, <3>2, MaxIs
    <3> QED BY <3>3 DEF B
  <2>5. b \in S
    <3>1. CASE b = 0 BY <3>1
    <3>2. CASE b # 0
      <4>1. b \in 1 .. Len(s) /\ b < Len(tag) /\ IsSuffix(Take(tag, b), s) BY <1>1, <2>1, <2>3, <2>4, <3>2
      <4> QED BY <4>1 DEF Beginnings
    <3> QED BY <3>1, <3>2
  <2>6. b <= h BY <1>3, <2>5
  <2>7. Len(s) - b \in Int /\ Len(s) - h \in Int /\ Len(s) - h <= Len(s) - b BY <1>1, <1>4, <2>3, <2>6
  <2> QED BY <2>3, <2>7, FreeLess
<1> QED BY <1>4, <1>5

(* In a text in which none begins before p they are where they are in p.   *)
LEMMA HitsBehind ==
  ASSUME NEW a \in Str, NEW p \in Str, \A i \in DOMAIN Stops : Free(a \o p, Stops[i], Len(a))
  PROVE  /\ Hits(a \o p) = {} <=> Hits(p) = {}
         /\ Hits(p) # {} => Min({h[1] : h \in Hits(a \o p)}) = Len(a) + FirstHit(p)[1]
<1> DEFINE y == a \o p
<1>1. y \in Str /\ Len(a) \in Nat BY Joined
<1>2. \A i \in DOMAIN Stops : Occurrences(y, Stops[i]) = {Len(a) + k : k \in Occurrences(p, Stops[i])}
  BY StopTypes, OccurrencesBehind
<1> HIDE DEF y
<1>3. Hits(y) = {} <=> Hits(p) = {}
  <2>1. \A i \in DOMAIN Stops : Occurrences(y, Stops[i]) = {} <=> Occurrences(p, Stops[i]) = {} BY <1>2
  <2> QED BY <2>1, HitIs
<1>4. ASSUME Hits(p) # {} PROVE Min({h[1] : h \in Hits(y)}) = Len(a) + FirstHit(p)[1]
  <2> DEFINE f == FirstHit(p)[1] e == FirstHit(y)[1]
  <2>1. e = Min({h[1] : h \in Hits(y)}) /\ e \in 1 .. Len(y) /\ FirstHit(y) \in Hits(y)
        /\ \A h \in Hits(y) : e <= h[1]
    BY <1>1, <1>3, <1>4, FirstHitIs
  <2>2. f \in 1 .. Len(p) /\ FirstHit(p) \in Hits(p) /\ \A h \in Hits(p) : f <= h[1] /\ h[1] \in Nat
    BY <1>4, FirstHitIs
  <2>3. e <= Len(a) + f
    <3>1. PICK i \in DOMAIN Stops : \E k \in Occurrences(p, Stops[i]) : FirstHit(p) = <<k, i>> BY <2>2, HitIs
    <3>2. f \in Occurrences(p, Stops[i]) BY <3>1
    <3>3. Len(a) + f \in Occurrences(y, Stops[i]) BY <1>2, <3>2
    <3>4. <<Len(a) + f, i>> \in Hits(y) BY <3>3, HitIs
    <3>5. <<Len(a) + f, i>>[1] = Len(a) + f OBVIOUS
    <3> HIDE DEF e, f
    <3> QED BY <2>1, <3>4, <3>5
  <2>4. Len(a) + f <= e
    <3>1. PICK i \in DOMAIN Stops : \E k \in Occurrences(y, Stops[i]) : FirstHit(y) = <<k, i>> BY <2>1, HitIs
    <3>2. e \in Occurrences(y, Stops[i]) BY <3>1
    <3>3. PICK k \in Occurrences(p, Stops[i]) : e = Len(a) + k BY <1>2, <3>2
    <3>4. <<k, i>> \in Hits(p) BY <3>3, HitIs
    <3>5. <<k, i>>[1] = k OBVIOUS
    <3> HIDE DEF e, f
    <3>6. f <= k /\ k \in Nat BY <2>2, <3>4, <3>5
    <3> QED BY <1>1, <2>2, <3>3, <3>6
  <2>5. e \in Int /\ f \in Int BY <2>1, <2>2
  <2> HIDE DEF e, f
  <2>6. e = Len(a) + f BY <1>1, <2>3, <2>4, <2>5
  <2> QED BY <2>1, <2>6 DEF e, f
<1> QED BY <1>3, <1>4 DEF y

(* What the matcher lets through and keeps of the text it has seen.        *)
LEMMA MatchedStep ==
  ASSUME pending \in Str, NEW a \in Str, NEW piece \in Str,
         \A i \in DOMAIN Stops : Free(a \o pending, Stops[i], Len(a))
  PROVE  LET m == Matched(piece)
             y == (a \o pending) \o piece
         IN  /\ y \in Str /\ m.safe \in Str /\ m.rest \in Str
             /\ m.hit # 0 <=> Hits(y) # {}
             /\ m.hit # 0 => m.rest = <<>> /\ Take(y, Min({h[1] : h \in Hits(y)}) - 1) = a \o m.safe
             /\ m.hit = 0 => /\ y = (a \o m.safe) \o m.rest
                             /\ \A i \in DOMAIN Stops : Free(y, Stops[i], Len(a \o m.safe))
<1> DEFINE s == pending \o piece y == (a \o pending) \o piece m == Matched(piece)
<1>1. s \in Str /\ Len(s) \in Nat /\ Len(a) \in Nat /\ a \o pending \in Str /\ Len(a) <= Len(a \o pending)
  <2>1. s \in Str /\ Len(s) = Len(pending) + Len(piece) /\ Len(pending) \in Nat /\ Len(piece) \in Nat
    BY Joined
  <2>2. a \o pending \in Str /\ Len(a \o pending) = Len(a) + Len(pending) /\ Len(a) \in Nat BY Joined
  <2> HIDE DEF s
  <2> QED BY <2>1, <2>2
<1>2. y \in Str /\ y = a \o s
  <2>1. y \in Str BY <1>1, Joined
  <2>2. y = a \o s BY <1>1, Regrouped
  <2> QED BY <2>1, <2>2
<1>3. \A i \in DOMAIN Stops : Free(a \o s, Stops[i], Len(a))
  <2> TAKE i \in DOMAIN Stops
  <2>1. Len(a) \in 0 .. Len(a \o pending) BY <1>1, TextLen
  <2>2. Stops[i] \in Str BY StopTypes
  <2>3. Free(y, Stops[i], Len(a)) BY <1>1, <2>1, <2>2, FreeExtended
  <2> QED BY <1>2, <2>3
<1> DEFINE f == FirstHit(s)
<1>4. /\ Hits(a \o s) = {} <=> Hits(s) = {}
      /\ Hits(s) # {} => Min({h[1] : h \in Hits(a \o s)}) = Len(a) + f[1]
  BY <1>1, <1>3, HitsBehind
<1>5. m = IF Hits(s) # {}
          THEN [safe |-> Take(s, f[1] - 1), rest |-> <<>>, hit |-> f[2]]
          ELSE [safe |-> Take(s, Len(s) - HeldBack(s)), rest |-> Drop(s, Len(s) - HeldBack(s)), hit |-> 0]
  BY DEF Matched
<1> HIDE DEF s, y, m, f
<1>6. CASE Hits(s) # {}
  <2>1. f[1] \in 1 .. Len(s) /\ f[2] \in DOMAIN Stops BY <1>1, <1>6, FirstHitIs DEF f
  <2>2. f[2] # 0
    <3>1. PICK n \in Nat : DOMAIN Stops = 1 .. n BY StopTypes
    <3> QED BY <2>1, <3>1
  <2>3. m.safe = Take(s, f[1] - 1) /\ m.rest = <<>> /\ m.hit = f[2] BY <1>5, <1>6
  <2> DEFINE k == f[1] - 1
  <2>4. k \in 0 .. Len(s) /\ (Len(a) + f[1]) - 1 = Len(a) + k BY <1>1, <2>1
  <2> HIDE DEF k
  <2>5. Take(s, k) \in Str BY <1>1, <2>4, Parts
  <2>6. Take(a \o s, Len(a) + k) = a \o Take(s, k) BY <1>1, <2>4, CutBeyond
  <2>7. Take(y, Min({h[1] : h \in Hits(y)}) - 1) = a \o Take(s, k) BY <1>2, <1>4, <1>6, <2>4, <2>6
  <2> QED BY <1>2, <1>4, <1>6, <2>2, <2>3, <2>5, <2>7, EmptyText DEF k, y, m
<1>7. CASE Hits(s) = {}
  <2> DEFINE c == Len(s) - HeldBack(s)
  <2>1. m.safe = Take(s, c) /\ m.rest = Drop(s, c) /\ m.hit = 0 BY <1>5, <1>7
  <2>2. HeldBack(s) \in 0 .. Len(s) /\ \A i \in DOMAIN Stops : Free(s, Stops[i], c) BY <1>1, <1>7, HeldBackIs
  <2>3. c \in 0 .. Len(s) BY <1>1, <2>2
  <2> HIDE DEF c
  <2>4. Take(s, c) \in Str /\ Drop(s, c) \in Str /\ Take(s, c) \o Drop(s, c) = s /\ Len(Take(s, c)) = c
    BY <1>1, <2>3, Parts
  <2> DEFINE b == Take(s, c) d == Drop(s, c)
  <2>9. b \in Str /\ d \in Str /\ b \o d = s BY <2>4
  <2> HIDE DEF b, d
  <2>6. Len(a \o m.safe) = Len(a) + c
    <3>1. Len(b) = c BY <2>4 DEF b
    <3>2. Len(a \o b) = Len(a) + Len(b) BY <2>9, Joined
    <3>3. m.safe = b BY <2>1 DEF b
    <3> QED BY <3>1, <3>2, <3>3
  <2>10. (a \o b) \o d = a \o (b \o d) BY <2>9, Regrouped
  <2>5. y = (a \o m.safe) \o m.rest BY <1>2, <2>1, <2>9, <2>10 DEF b, d
  <2>7. \A i \in DOMAIN Stops : Free(a \o s, Stops[i], Len(a) + c)
    <3> TAKE i \in DOMAIN Stops
    <3>1. Free(a \o s, Stops[i], Len(a)) /\ Free(s, Stops[i], c) /\ Stops[i] \in Str BY <1>3, <2>2, StopTypes
    <3> QED BY <1>1, <2>3, <3>1, FreeJoined
  <2>8. \A i \in DOMAIN Stops : Free(y, Stops[i], Len(a \o m.safe)) BY <1>2, <2>6, <2>7
  <2> QED BY <1>2, <1>4, <1>7, <2>1, <2>4, <2>5, <2>8 DEF y, m
<1> QED BY <1>6, <1>7

-----------------------------------------------------------------------------
(* The reasoning splitter.  z is the text it was given so far, t and g the *)
(* text and the reasoning it released.                                     *)
SplitterState == [inside : BOOLEAN, done : BOOLEAN, strip : BOOLEAN, blockStart : BOOLEAN, pend : Str]
Lead(s) == IF s.strip THEN TrimStart(s.pend) ELSE s.pend

(* The body's beginning is known, and the body with its leading newlines.  *)
Opened(z) ==
  IF start THEN IsPrefix(Open, TrimStart(z)) \/ ~IsPrefix(TrimStart(z), Open)
  ELSE Occurrences(z, Open) # {}
Raw(z) ==
  IF ~start THEN Drop(z, Min(Occurrences(z, Open)) + Len(Open) - 1)
  ELSE IF IsPrefix(Open, TrimStart(z)) THEN Drop(TrimStart(z), Len(Open)) ELSE z
Closes(z) == Min(Occurrences(Body(z), Close))
Behind(z) == Drop(Body(z), Closes(z) + Len(Close) - 1)

(* What is between two turns of the loop, by where it is in the text.      *)
AtStart(z, s, t, g) ==
  /\ start /\ s.inside /\ ~s.done /\ s.blockStart /\ t = <<>> /\ g = <<>>
  /\ TrimStart(z) = Lead(s) /\ (~s.strip => s.pend # <<>>)
Outside(z, s, t, g) ==
  /\ ~start /\ ~s.inside /\ ~s.done /\ ~s.blockStart /\ ~s.strip /\ g = <<>>
  /\ z = t \o s.pend /\ Free(z, Open, Len(t))
Inside(z, s, t, g) ==
  /\ s.inside /\ ~s.done /\ ~s.blockStart /\ Opened(z) /\ t = Before(z)
  /\ Body(z) = g \o Lead(s) /\ Tidy(g) /\ Free(Body(z), Close, Len(g))
  /\ IF s.strip THEN g = <<>> ELSE g \o s.pend # <<>>
After(z, s, t, g) ==
  /\ ~s.inside /\ s.done /\ ~s.blockStart /\ Opened(z) /\ Occurrences(Body(z), Close) # {}
  /\ g = TrimEnd(Take(Body(z), Closes(z) - 1))
  /\ \E v \in Str : /\ t = Before(z) \o v /\ TrimStart(Behind(z)) = v \o Lead(s)
                    /\ IF s.strip THEN v = <<>> ELSE v \o s.pend # <<>>
Ready(z, s, t, g) ==
  /\ s \in SplitterState /\ t \in Str /\ g \in Str
  /\ AtStart(z, s, t, g) \/ Outside(z, s, t, g) \/ Inside(z, s, t, g) \/ After(z, s, t, g)

(* And when push has returned.                                            *)
Splits(z, s, t, g) ==
  /\ Ready(z, s, t, g) /\ (s.strip \/ s.done => s.pend = <<>>)
  /\ s.blockStart => IsPrefix(s.pend, Open) /\ ~IsPrefix(Open, s.pend)
  /\ ~s.inside /\ ~s.done => Occurrences(z, Open) = {}
  /\ s.inside /\ ~s.blockStart => Occurrences(Body(z), Close) = {}

(* The tags are texts, and none is empty.                                  *)
LEMMA TagTypes ==
  /\ Open \in Str /\ Open # <<>> /\ Len(Open) \in Nat /\ Len(Open) >= 1
  /\ Close \in Str /\ Close # <<>> /\ Len(Close) \in Nat /\ Len(Close) >= 1
  /\ Occurrences(Open, Close) = {}
<1>1. Open \in Str /\ Open # <<>> /\ Close \in Str /\ Close # <<>> /\ Occurrences(Open, Close) = {}
  BY FilterAssumption DEF Str
<1> QED BY <1>1, TextLen

(* The body is what is behind the opening, trimmed.                        *)
LEMMA BodyIs == ASSUME start \in BOOLEAN, NEW z PROVE Opened(z) => Body(z) = TrimStart(Raw(z))
BY DEF Opened, Body, Raw

(* Prefixes of what grows.                                                 *)
LEMMA PrefixCases ==
  ASSUME NEW s \in Str, NEW t \in Str, NEW w \in Str
  PROVE  /\ IsPrefix(s, t) => IsPrefix(s, t \o w)
         /\ IsPrefix(s, t \o w) => IsPrefix(s, t) \/ IsPrefix(t, s)
         /\ IsPrefix(t \o w, s) => IsPrefix(t, s)
<1>1. /\ t \o w \in Str /\ Len(t \o w) = Len(t) + Len(w) /\ Len(t) \in Nat /\ Len(w) \in Nat /\ Len(s) \in Nat
      /\ \A i \in 1 .. Len(t) : (t \o w)[i] = t[i]
  BY Joined, TextLen
<1> DEFINE y == t \o w
<1>2. /\ IsPrefix(s, t) <=> Len(s) <= Len(t) /\ \A i \in 1 .. Len(s) : s[i] = t[i]
      /\ IsPrefix(t, s) <=> Len(t) <= Len(s) /\ \A i \in 1 .. Len(t) : t[i] = s[i]
      /\ IsPrefix(s, y) <=> Len(s) <= Len(y) /\ \A i \in 1 .. Len(s) : s[i] = y[i]
      /\ IsPrefix(y, s) <=> Len(y) <= Len(s) /\ \A i \in 1 .. Len(y) : y[i] = s[i]
  BY <1>1, PrefixIs
<1>3. Len(y) = Len(t) + Len(w) /\ \A i \in 1 .. Len(t) : y[i] = t[i] BY <1>1
<1> HIDE DEF y
<1>4. IsPrefix(s, t) => IsPrefix(s, y)
  <2> HAVE IsPrefix(s, t)
  <2>1. Len(s) <= Len(t) /\ Len(s) <= Len(y) BY <1>1, <1>2, <1>3
  <2>2. \A i \in 1 .. Len(s) : i \in 1 .. Len(t) BY <1>1, <2>1
  <2> QED BY <1>2, <1>3, <2>1, <2>2
<1>5. IsPrefix(s, y) => IsPrefix(s, t) \/ IsPrefix(t, s)
  <2> HAVE IsPrefix(s, y)
  <2>1. CASE Len(s) <= Len(t)
    <3>1. \A i \in 1 .. Len(s) : i \in 1 .. Len(t) BY <1>1, <2>1
    <3> QED BY <1>2, <1>3, <2>1, <3>1
  <2>2. CASE Len(t) <= Len(s)
    <3>1. \A i \in 1 .. Len(t) : i \in 1 .. Len(s) BY <1>1, <2>2
    <3> QED BY <1>2, <1>3, <2>2, <3>1
  <2> QED BY <1>1, <2>1, <2>2
<1>6. IsPrefix(y, s) => IsPrefix(t, s)
  <2> HAVE IsPrefix(y, s)
  <2>1. Len(t) <= Len(s) /\ \A i \in 1 .. Len(t) : i \in 1 .. Len(y) BY <1>1, <1>2, <1>3
  <2> QED BY <1>2, <1>3, <2>1
<1> QED BY <1>4, <1>5, <1>6 DEF y

(* What follows an opened body is behind it.                               *)
LEMMA OpenedStays ==
  ASSUME start \in BOOLEAN, NEW z \in Str, NEW w \in Str, Opened(z)
  PROVE  /\ Opened(z \o w) /\ Before(z \o w) = Before(z) /\ Raw(z \o w) = Raw(z) \o w
         /\ Before(z) \in Str /\ Raw(z) \in Str /\ Body(z) \in Str
         /\ Body(z \o w) = IF Body(z) = <<>> THEN TrimStart(w) ELSE Body(z) \o w
<1>1. z \o w \in Str /\ Len(z) \in Nat BY Joined
<1>2. /\ Opened(z \o w) /\ Before(z \o w) = Before(z) /\ Raw(z \o w) = Raw(z) \o w
      /\ Before(z) \in Str /\ Raw(z) \in Str
  <2>1. CASE ~start
    <3> DEFINE m == Min(Occurrences(z, Open)) n == m + Len(Open) - 1
    <3>1. Occurrences(z, Open) # {} BY <2>1 DEF Opened
    <3>2. Occurrences(z \o w, Open) # {} /\ Min(Occurrences(z \o w, Open)) = m BY <3>1, TagTypes, FirstStays
    <3>3. m \in 1 .. Len(z) /\ n \in 1 .. Len(z) BY <3>1, TagTypes, FirstOccurrence
    <3>4. m - 1 \in 0 .. Len(z) /\ n \in 0 .. Len(z) BY <1>1, <3>3
    <3>5. Before(z) = Take(z, m - 1) /\ Raw(z) = Drop(z, n) BY <2>1 DEF Before, Raw
    <3>6. Before(z \o w) = Take(z \o w, m - 1) /\ Raw(z \o w) = Drop(z \o w, n) BY <2>1, <3>2 DEF Before, Raw
    <3>7. Opened(z \o w) BY <2>1, <3>2 DEF Opened
    <3> HIDE DEF m, n
    <3>8. Take(z \o w, m - 1) = Take(z, m - 1) /\ Take(z, m - 1) \in Str BY <3>4, CutWithin, Parts
    <3>9. Drop(z \o w, n) = Drop(z, n) \o w /\ Drop(z, n) \in Str BY <3>4, CutWithin, Parts
    <3> QED BY <3>5, <3>6, <3>7, <3>8, <3>9
  <2>2. CASE start
    <3> DEFINE a == TrimStart(z) b == TrimStart(z \o w)
    <3>1. a \in Str /\ b \in Str BY <1>1, TrimStartType
    <3>2. IsPrefix(Open, a) \/ ~IsPrefix(a, Open) BY <2>2 DEF Opened
    <3>3. IsPrefix(<<>>, Open) /\ ~IsPrefix(Open, <<>>)
      <4>1. Len(<<>>) = 0 /\ <<>> \in Str BY EmptyText, TextLen
      <4> QED BY <4>1, TagTypes, PrefixIs
    <3>4. a # <<>> BY <3>2, <3>3
    <3>5. b = a \o w BY <3>4, TrimStartJoined
    <3>6. Before(z) = <<>> /\ Before(z \o w) = <<>> BY <2>2 DEF Before
    <3>7. /\ Opened(z \o w) <=> IsPrefix(Open, b) \/ ~IsPrefix(b, Open)
          /\ Raw(z) = (IF IsPrefix(Open, a) THEN Drop(a, Len(Open)) ELSE z)
          /\ Raw(z \o w) = (IF IsPrefix(Open, b) THEN Drop(b, Len(Open)) ELSE z \o w)
      BY <2>2 DEF Opened, Raw
    <3> HIDE DEF a, b
    <3>8. CASE IsPrefix(Open, a)
      <4>1. IsPrefix(Open, b) BY <3>1, <3>5, <3>8, TagTypes, PrefixCases
      <4>2. Len(Open) \in 0 .. Len(a) BY <3>1, <3>8, TagTypes, PrefixIs, TextLen
      <4>3. Drop(b, Len(Open)) = Drop(a, Len(Open)) \o w /\ Drop(a, Len(Open)) \in Str
        BY <3>1, <3>5, <4>2, CutWithin, Parts
      <4> QED BY <3>6, <3>7, <3>8, <4>1, <4>3, EmptyText
    <3>9. CASE ~IsPrefix(Open, a)
      <4>1. ~IsPrefix(a, Open) BY <3>2, <3>9
      <4>2. ~IsPrefix(Open, b) /\ ~IsPrefix(b, Open) BY <3>1, <3>5, <3>9, <4>1, TagTypes, PrefixCases
      <4> QED BY <3>6, <3>7, <3>9, <4>2, EmptyText
    <3> QED BY <3>8, <3>9
  <2> QED BY <2>1, <2>2
<1>3. Body(z) = TrimStart(Raw(z)) /\ Body(z \o w) = TrimStart(Raw(z) \o w) BY <1>2, BodyIs
<1>4. Body(z) \in Str BY <1>2, <1>3, TrimStartType
<1>5. Body(z \o w) = IF Body(z) = <<>> THEN TrimStart(w) ELSE Body(z) \o w BY <1>2, <1>3, TrimStartJoined
<1> QED BY <1>2, <1>4, <1>5

(* An empty text. *)
LEMMA NothingThere ==
  /\ <<>> \in Str /\ Len(<<>>) = 0 /\ TrimStart(<<>>) = <<>>
  /\ Occurrences(<<>>, Open) = {} /\ Occurrences(<<>>, Close) = {}
  /\ IsPrefix(<<>>, Open) /\ ~IsPrefix(Open, <<>>) /\ Tidy(<<>>) /\ \A x, tag : Free(x, tag, Len(<<>>))
<1>1. <<>> \in Str /\ Len(<<>>) = 0 BY EmptyText, TextLen
<1>2. TrimStart(<<>>) = <<>>
  <2>1. TrimStart(<<>>) = Drop(<<>>, 0) /\ (TrimStart(<<>>) = <<>> <=> 0 = Len(<<>>)) BY <1>1, TrimStartAt
  <2> QED BY <1>1, <2>1
<1>3. ASSUME NEW tag \in Str, tag # <<>> PROVE Occurrences(<<>>, tag) = {}
  <2> SUFFICES ASSUME NEW i \in Occurrences(<<>>, tag) PROVE FALSE OBVIOUS
  <2>1. i \in Nat /\ i >= 1 /\ i + Len(tag) - 1 <= 0 /\ Len(tag) \in Nat /\ Len(tag) # 0
    BY <1>1, <1>3, TextLen, OccurrenceIs
  <2> QED BY <2>1
<1>4. IsPrefix(<<>>, Open) /\ ~IsPrefix(Open, <<>>) BY <1>1, TagTypes, PrefixIs
<1>5. \A x, tag : Free(x, tag, Len(<<>>)) BY <1>1 DEF Free
<1> QED BY <1>1, <1>2, <1>3, <1>4, <1>5, TagTypes DEF Tidy

(* Once the block is closed, more text only comes behind it.               *)
LEMMA BehindStays ==
  ASSUME start \in BOOLEAN, NEW z \in Str, NEW w \in Str, Opened(z), Occurrences(Body(z), Close) # {}
  PROVE  /\ Body(z) # <<>> /\ Occurrences(Body(z \o w), Close) # {} /\ Closes(z \o w) = Closes(z)
         /\ Take(Body(z \o w), Closes(z) - 1) = Take(Body(z), Closes(z) - 1)
         /\ Behind(z \o w) = Behind(z) \o w /\ Behind(z) \in Str
         /\ Closes(z) - 1 \in 0 .. Len(Body(z))
<1> DEFINE b == Body(z) m == Min(Occurrences(b, Close)) n == m + Len(Close) - 1
<1>1. b \in Str /\ Len(b) \in Nat BY OpenedStays, EmptyText, TextLen
<1>2. b # <<>> BY NothingThere
<1>3. Body(z \o w) = b \o w BY <1>2, OpenedStays
<1>4. Occurrences(b, Close) # {} OBVIOUS
<1> HIDE DEF b
<1>5. m \in 1 .. Len(b) /\ n \in 1 .. Len(b) BY <1>1, <1>4, TagTypes, FirstOccurrence
<1>6. Occurrences(b \o w, Close) # {} /\ Min(Occurrences(b \o w, Close)) = m BY <1>1, <1>4, TagTypes, FirstStays
<1>7. Closes(z) = m /\ Closes(z \o w) = m BY <1>3, <1>6 DEF Closes, b
<1>8. Behind(z) = Drop(b, n) /\ Behind(z \o w) = Drop(b \o w, n) BY <1>3, <1>7 DEF Behind, b
<1>9. m - 1 \in 0 .. Len(b) /\ n \in 0 .. Len(b) BY <1>1, <1>5
<1> HIDE DEF m, n
<1>10. Take(b \o w, m - 1) = Take(b, m - 1) /\ Drop(b \o w, n) = Drop(b, n) \o w /\ Drop(b, n) \in Str
  <2>1. Take(b \o w, m - 1) = Take(b, m - 1) BY <1>1, <1>9, CutWithin
  <2>2. Drop(b \o w, n) = Drop(b, n) \o w BY <1>1, <1>9, CutWithin
  <2>3. Drop(b, n) \in Str BY <1>1, <1>9, Parts
  <2> QED BY <2>1, <2>2, <2>3
<1> QED BY <1>2, <1>3, <1>6, <1>7, <1>8, <1>9, <1>10 DEF b

(* More text comes in. *)
LEMMA Fed ==
  ASSUME start \in BOOLEAN, NEW z \in Str, NEW w \in Str, NEW s, NEW t, NEW g, Splits(z, s, t, g)
  PROVE  Ready(z \o w, [s EXCEPT !.pend = @ \o w], t, g)
<1>1. s \in SplitterState /\ t \in Str /\ g \in Str BY DEF Splits, Ready
<1>2. s.pend \in Str /\ (s.strip \/ s.done => s.pend = <<>>) /\ s.strip \in BOOLEAN BY <1>1 DEF Splits, SplitterState
<1> DEFINE q == [s EXCEPT !.pend = @ \o w]
<1> SUFFICES Ready(z \o w, q, t, g) OBVIOUS
<1>3. s.pend \o w \in Str BY <1>2, Joined
<1>4. /\ q \in SplitterState /\ q.pend = s.pend \o w /\ q.inside = s.inside /\ q.done = s.done
      /\ q.strip = s.strip /\ q.blockStart = s.blockStart
  BY <1>1, <1>3 DEF SplitterState
<1> HIDE DEF q
<1>5. z \o w \in Str BY Joined
<1>6. s.strip => Lead(s) = <<>> /\ Lead(q) = TrimStart(w)
  BY <1>2, <1>4, NothingThere, EmptyText DEF Lead
<1>7. ~s.strip => Lead(s) = s.pend /\ Lead(q) = s.pend \o w BY <1>4 DEF Lead
<1>8. ASSUME NEW x \in Str, x # <<>> PROVE x \o w # <<>>
  <2>1. Len(x \o w) = Len(x) + Len(w) /\ Len(w) \in Nat /\ Len(x) \in Nat /\ x \o w \in Str BY Joined
  <2>2. Len(x) # 0 BY <1>8, TextLen
  <2>3. Len(x \o w) # 0 BY <2>1, <2>2
  <2> QED BY <2>1, <2>3, TextLen
<1>9. CASE AtStart(z, s, t, g)
  <2>1. TrimStart(z) = Lead(s) /\ (~s.strip => s.pend # <<>>) BY <1>9 DEF AtStart
  <2>2. TrimStart(z \o w) = IF TrimStart(z) = <<>> THEN TrimStart(w) ELSE TrimStart(z) \o w BY TrimStartJoined
  <2>3. TrimStart(z \o w) = Lead(q) BY <1>6, <1>7, <2>1, <2>2
  <2>4. ~q.strip => q.pend # <<>> BY <1>2, <1>4, <1>8, <2>1
  <2> QED BY <1>1, <1>4, <1>9, <2>3, <2>4 DEF AtStart, Ready
<1>10. CASE Outside(z, s, t, g)
  <2>1. z = t \o s.pend /\ Free(z, Open, Len(t)) BY <1>10 DEF Outside
  <2>2. z \o w = t \o q.pend
    <3>1. (t \o s.pend) \o w = t \o (s.pend \o w) BY <1>1, <1>2, Regrouped
    <3> QED BY <1>4, <2>1, <3>1
  <2>3. Len(t) \in 0 .. Len(z)
    <3>1. Len(t \o s.pend) = Len(t) + Len(s.pend) /\ Len(t) \in Nat /\ Len(s.pend) \in Nat BY <1>1, <1>2, Joined
    <3>2. Len(z) = Len(t) + Len(s.pend) BY <2>1, <3>1
    <3> QED BY <3>1, <3>2
  <2>4. Free(z \o w, Open, Len(t)) BY <2>1, <2>3, TagTypes, FreeExtended
  <2> QED BY <1>1, <1>4, <1>10, <2>2, <2>4 DEF Outside, Ready
<1>11. CASE Inside(z, s, t, g)
  <2>1. /\ Opened(z) /\ t = Before(z) /\ Body(z) = g \o Lead(s) /\ Tidy(g) /\ Free(Body(z), Close, Len(g))
        /\ IF s.strip THEN g = <<>> ELSE g \o s.pend # <<>>
    BY <1>11 DEF Inside
  <2>2. /\ Opened(z \o w) /\ Before(z \o w) = Before(z) /\ Body(z) \in Str
        /\ Body(z \o w) = IF Body(z) = <<>> THEN TrimStart(w) ELSE Body(z) \o w
    BY <2>1, OpenedStays
  <2>3. CASE s.strip
    <3>1. g = <<>> /\ Body(z) = <<>> BY <1>6, <2>1, <2>3, EmptyText
    <3>2. Body(z \o w) = TrimStart(w) /\ TrimStart(w) \in Str BY <2>2, <3>1, TrimStartType
    <3>3. Body(z \o w) = g \o Lead(q) BY <1>6, <2>3, <3>1, <3>2, EmptyText
    <3>4. Free(Body(z \o w), Close, Len(g)) BY <3>1, NothingThere
    <3> QED BY <1>1, <1>4, <1>11, <2>1, <2>2, <2>3, <3>1, <3>3, <3>4 DEF Inside, Ready
  <2>4. CASE ~s.strip
    <3>1. g \o s.pend # <<>> /\ Body(z) = g \o s.pend BY <1>7, <2>1, <2>4
    <3>2. Body(z \o w) = (g \o s.pend) \o w BY <2>2, <3>1
    <3>3. Body(z \o w) = g \o Lead(q) /\ g \o q.pend # <<>>
      <4>1. g \o s.pend \in Str BY <1>1, <1>2, Joined
      <4>2. (g \o s.pend) \o w # <<>> BY <1>8, <3>1, <4>1
      <4>3. (g \o s.pend) \o w = g \o (s.pend \o w) BY <1>1, <1>2, Regrouped
      <4> QED BY <1>4, <1>7, <2>4, <3>2, <4>2, <4>3
    <3>4. Free(Body(z \o w), Close, Len(g))
      <4>1. Len(g \o s.pend) = Len(g) + Len(s.pend) /\ Len(g) \in Nat /\ Len(s.pend) \in Nat BY <1>1, <1>2, Joined
      <4> DEFINE x == g \o s.pend
      <4>2. x \in Str /\ Free(x, Close, Len(g)) BY <1>1, <1>2, <2>1, <3>1, Joined
      <4> HIDE DEF x
      <4>3. Len(g) \in 0 .. Len(x) BY <4>1 DEF x
      <4>4. Free(x \o w, Close, Len(g)) BY <4>2, <4>3, TagTypes, FreeExtended
      <4> QED BY <3>2, <4>4 DEF x
    <3> QED BY <1>1, <1>4, <1>11, <2>1, <2>2, <2>4, <3>3, <3>4 DEF Inside, Ready
  <2> QED BY <1>2, <2>3, <2>4
<1>12. CASE After(z, s, t, g)
  <2>1. Opened(z) /\ Occurrences(Body(z), Close) # {} /\ s.done /\ g = TrimEnd(Take(Body(z), Closes(z) - 1))
    BY <1>12 DEF After
  <2>2. PICK v \in Str : /\ t = Before(z) \o v /\ TrimStart(Behind(z)) = v \o Lead(s)
                         /\ IF s.strip THEN v = <<>> ELSE v \o s.pend # <<>>
    BY <1>12 DEF After
  <2>3. /\ Occurrences(Body(z \o w), Close) # {} /\ Closes(z \o w) = Closes(z)
        /\ Take(Body(z \o w), Closes(z) - 1) = Take(Body(z), Closes(z) - 1)
        /\ Behind(z \o w) = Behind(z) \o w /\ Behind(z) \in Str
    BY <2>1, BehindStays
  <2>4. Opened(z \o w) /\ Before(z \o w) = Before(z) BY <2>1, OpenedStays
  <2>5. s.pend = <<>> /\ q.pend = w BY <1>2, <1>4, <2>1, EmptyText
  <2>6. TrimStart(Behind(z \o w)) = IF TrimStart(Behind(z)) = <<>> THEN TrimStart(w) ELSE TrimStart(Behind(z)) \o w
    BY <2>3, TrimStartJoined
  <2>7. TrimStart(Behind(z \o w)) = v \o Lead(q)
    <3>1. CASE s.strip
      <4>1. v = <<>> /\ TrimStart(Behind(z)) = <<>> BY <1>6, <2>2, <3>1, EmptyText
      <4>2. TrimStart(w) \in Str BY TrimStartType
      <4> QED BY <1>6, <2>6, <3>1, <4>1, <4>2, EmptyText
    <3>2. CASE ~s.strip
      <4>1. v # <<>> /\ TrimStart(Behind(z)) = v BY <1>7, <2>2, <2>5, <3>2, EmptyText
      <4>2. Lead(q) = w BY <1>7, <2>5, <3>2, EmptyText
      <4> QED BY <2>6, <4>1, <4>2
    <3> QED BY <1>2, <3>1, <3>2
  <2>8. IF q.strip THEN v = <<>> ELSE v \o q.pend # <<>>
    <3>1. CASE s.strip BY <1>4, <2>2, <3>1
    <3>2. CASE ~s.strip
      <4>1. v # <<>> BY <2>2, <2>5, <3>2, EmptyText
      <4> QED BY <1>4, <1>8, <2>5, <3>2, <4>1
    <3> QED BY <1>2, <3>1, <3>2
  <2>9. After(z \o w, q, t, g) BY <1>4, <1>12, <2>1, <2>2, <2>3, <2>4, <2>7, <2>8 DEF After
  <2> QED BY <1>1, <1>4, <2>9 DEF Ready
<1> QED BY <1>9, <1>10, <1>11, <1>12 DEF Splits, Ready

(* push strips what it has to before it looks. *)
LEMMA StripKeeps ==
  ASSUME NEW z, NEW s, NEW t, NEW g, Ready(z, s, t, g)
  PROVE  /\ Ready(z, Stripped(s), t, g)
         /\ Stripped(s).inside = s.inside /\ Stripped(s).done = s.done /\ Stripped(s).blockStart = s.blockStart
         /\ Stripped(s).pend = Lead(s) /\ Stripped(s).pend \in Str /\ Stripped(s).strip \in BOOLEAN
         /\ Stripped(s).strip <=> s.strip /\ Lead(s) = <<>>
         /\ Stripped(s).strip => Stripped(s).pend = <<>>
<1> DEFINE q == Stripped(s)
<1> SUFFICES /\ Ready(z, q, t, g) /\ q.inside = s.inside /\ q.done = s.done /\ q.blockStart = s.blockStart
             /\ q.pend = Lead(s) /\ q.pend \in Str /\ q.strip \in BOOLEAN
             /\ q.strip <=> s.strip /\ Lead(s) = <<>>
             /\ q.strip => q.pend = <<>>
  OBVIOUS
<1>1. s \in SplitterState /\ t \in Str /\ g \in Str BY DEF Ready
<1>2. s.pend \in Str /\ s.strip \in BOOLEAN BY <1>1 DEF SplitterState
<1>3. Lead(s) \in Str BY <1>2, TrimStartType DEF Lead
<1>4. /\ q \in SplitterState /\ q.inside = s.inside /\ q.done = s.done /\ q.blockStart = s.blockStart
      /\ q.pend = Lead(s) /\ q.strip \in BOOLEAN
      /\ q.strip <=> s.strip /\ Lead(s) = <<>>
  BY <1>1, <1>2, <1>3 DEF SplitterState, Stripped, Lead
<1> HIDE DEF q
<1>5. Lead(q) = Lead(s)
  <2>1. CASE q.strip
    <3>1. Lead(s) = <<>> /\ q.pend = <<>> BY <1>4, <2>1
    <3> QED BY <2>1, <3>1, NothingThere DEF Lead
  <2>2. CASE ~q.strip BY <1>4, <2>2 DEF Lead
  <2> QED BY <1>4, <2>1, <2>2
<1>6. ~s.strip => Lead(s) = s.pend BY DEF Lead
<1>7. ASSUME NEW v \in Str, IF s.strip THEN v = <<>> ELSE v \o s.pend # <<>>
      PROVE  IF q.strip THEN v = <<>> ELSE v \o q.pend # <<>>
  <2>1. CASE q.strip BY <1>4, <1>7, <2>1
  <2>2. CASE ~q.strip /\ s.strip
    <3>1. v = <<>> /\ Lead(s) # <<>> BY <1>4, <1>7, <2>2
    <3> QED BY <1>3, <1>4, <2>2, <3>1, EmptyText
  <2>3. CASE ~q.strip /\ ~s.strip BY <1>4, <1>6, <1>7, <2>3
  <2> QED BY <1>2, <1>4, <2>1, <2>2, <2>3
<1>8. AtStart(z, s, t, g) => AtStart(z, q, t, g) BY <1>4, <1>5, <1>6 DEF AtStart
<1>9. Outside(z, s, t, g) => Outside(z, q, t, g) BY <1>4, <1>6 DEF Outside
<1>10. Inside(z, s, t, g) => Inside(z, q, t, g) BY <1>1, <1>4, <1>5, <1>7 DEF Inside
<1>11. ASSUME After(z, s, t, g) PROVE After(z, q, t, g)
  <2>1. PICK v \in Str : /\ t = Before(z) \o v /\ TrimStart(Behind(z)) = v \o Lead(s)
                         /\ IF s.strip THEN v = <<>> ELSE v \o s.pend # <<>>
    BY <1>11 DEF After
  <2>2. IF q.strip THEN v = <<>> ELSE v \o q.pend # <<>> BY <1>7, <2>1
  <2> QED BY <1>4, <1>5, <1>11, <2>1, <2>2 DEF After
<1>12. Ready(z, q, t, g) BY <1>1, <1>4, <1>8, <1>9, <1>10, <1>11 DEF Ready
<1> QED BY <1>3, <1>4, <1>12

(* Nothing but newlines to strip.                                          *)
LEMMA NothingBehind ==
  ASSUME NEW z, NEW q, NEW t, NEW g, Ready(z, q, t, g), q.strip, q.pend = <<>>
  PROVE  Splits(z, q, t, g)
<1>1. ~q.inside /\ ~q.done => Occurrences(z, Open) = {}
  BY DEF Ready, AtStart, Outside, Inside, After
<1>2. q.blockStart => IsPrefix(q.pend, Open) /\ ~IsPrefix(Open, q.pend) BY NothingThere
<1>3. ASSUME q.inside, ~q.blockStart PROVE Occurrences(Body(z), Close) = {}
  <2>1. Inside(z, q, t, g) BY <1>3 DEF Ready, AtStart, Outside, After
  <2>2. Body(z) = g \o Lead(q) /\ g = <<>> /\ Lead(q) = <<>> BY <2>1, NothingThere DEF Inside, Lead
  <2>3. Body(z) = <<>> BY <2>2, EmptyText
  <2> QED BY <2>3, NothingThere
<1> QED BY <1>1, <1>2, <1>3 DEF Splits

(* Behind the block everything is text.                                    *)
LEMMA Released ==
  ASSUME start \in BOOLEAN, NEW z \in Str, NEW q, NEW t, NEW g, Ready(z, q, t, g), ~q.strip, q.done
  PROVE  Splits(z, [q EXCEPT !.pend = <<>>], t \o q.pend, g)
<1> DEFINE r == [q EXCEPT !.pend = <<>>]
<1> SUFFICES Splits(z, r, t \o q.pend, g) OBVIOUS
<1>1. q \in SplitterState /\ t \in Str /\ g \in Str BY DEF Ready
<1>2. q.pend \in Str BY <1>1 DEF SplitterState
<1>3. /\ r \in SplitterState /\ r.pend = <<>> /\ r.inside = q.inside /\ r.done = q.done
      /\ r.strip = q.strip /\ r.blockStart = q.blockStart
  BY <1>1, EmptyText DEF SplitterState
<1> HIDE DEF r
<1>4. After(z, q, t, g) BY DEF Ready, AtStart, Outside, Inside
<1>5. ~q.inside /\ ~q.blockStart BY <1>4 DEF After
<1>6. PICK v \in Str : /\ t = Before(z) \o v /\ TrimStart(Behind(z)) = v \o Lead(q) /\ v \o q.pend # <<>>
  BY <1>4 DEF After
<1> DEFINE u == v \o q.pend
<1>7. u \in Str BY <1>2, Joined
<1>8. Lead(q) = q.pend /\ Lead(r) = <<>> BY <1>3 DEF Lead
<1>9. TrimStart(Behind(z)) = u \o Lead(r) /\ u \o r.pend # <<>>
  <2>1. TrimStart(Behind(z)) = u /\ u # <<>> BY <1>6, <1>8
  <2> HIDE DEF u
  <2>2. u \o <<>> = u BY <1>7, EmptyText
  <2> QED BY <1>3, <1>8, <2>1, <2>2
<1>10. t \o q.pend = Before(z) \o u
  <2>1. Opened(z) BY <1>4 DEF After
  <2> DEFINE b == Before(z)
  <2>2. b \in Str BY <2>1, EmptyText, OpenedStays
  <2>3. t = b \o v BY <1>6
  <2> HIDE DEF b
  <2>4. (b \o v) \o q.pend = b \o (v \o q.pend) BY <1>2, <2>2, Regrouped
  <2> QED BY <2>3, <2>4 DEF b
<1> HIDE DEF u
<1>11. After(z, r, t \o q.pend, g) BY <1>3, <1>4, <1>7, <1>9, <1>10 DEF After
<1>12. t \o q.pend \in Str BY <1>1, <1>2, Joined
<1> QED BY <1>1, <1>3, <1>5, <1>11, <1>12 DEF Splits, Ready

(* The prompt opened the block and the model opens it again.               *)
LEMMA OpenedAgain ==
  ASSUME NEW z \in Str, NEW q, NEW t, NEW g, Ready(z, q, t, g), ~q.strip, q.blockStart, IsPrefix(Open, q.pend)
  PROVE  Ready(z, [q EXCEPT !.pend = Drop(q.pend, Len(Open)), !.blockStart = FALSE, !.strip = TRUE], t, g)
<1> DEFINE r == [q EXCEPT !.pend = Drop(q.pend, Len(Open)), !.blockStart = FALSE, !.strip = TRUE]
<1> SUFFICES Ready(z, r, t, g) OBVIOUS
<1>1. q \in SplitterState /\ t \in Str /\ g \in Str BY DEF Ready
<1>2. q.pend \in Str BY <1>1 DEF SplitterState
<1> DEFINE p == q.pend
<1>3. Len(Open) \in 0 .. Len(p) BY <1>2, TagTypes, PrefixIs, TextLen
<1>4. Drop(p, Len(Open)) \in Str BY <1>2, <1>3, Parts
<1>5. /\ r \in SplitterState /\ r.pend = Drop(p, Len(Open)) /\ r.inside = q.inside /\ r.done = q.done
      /\ r.strip /\ ~r.blockStart
  BY <1>1, <1>4 DEF SplitterState
<1> HIDE DEF r
<1>6. AtStart(z, q, t, g) BY DEF Ready, Outside, Inside, After
<1>7. start /\ q.inside /\ ~q.done /\ t = <<>> /\ g = <<>> /\ TrimStart(z) = p BY <1>6 DEF AtStart, Lead
<1>8. Opened(z) /\ Before(z) = <<>> /\ Raw(z) = Drop(p, Len(Open)) /\ Body(z) = TrimStart(Drop(p, Len(Open)))
  BY <1>7 DEF Opened, Before, Raw, Body
<1>9. Lead(r) = TrimStart(Drop(p, Len(Open))) /\ Lead(r) \in Str BY <1>4, <1>5, TrimStartType DEF Lead
<1>10. Body(z) = g \o Lead(r) BY <1>7, <1>8, <1>9, EmptyText
<1>11. Inside(z, r, t, g) BY <1>5, <1>7, <1>8, <1>10, NothingThere DEF Inside
<1> QED BY <1>1, <1>5, <1>11 DEF Ready

(* It does not. *)
LEMMA NotOpenedAgain ==
  ASSUME NEW z \in Str, NEW q, NEW t, NEW g, Ready(z, q, t, g), ~q.strip, q.blockStart,
         ~IsPrefix(Open, q.pend), ~IsPrefix(q.pend, Open)
  PROVE  Ready(z, [q EXCEPT !.blockStart = FALSE], t, g)
<1> DEFINE r == [q EXCEPT !.blockStart = FALSE]
<1> SUFFICES Ready(z, r, t, g) OBVIOUS
<1>1. q \in SplitterState /\ t \in Str /\ g \in Str BY DEF Ready
<1>2. q.pend \in Str BY <1>1 DEF SplitterState
<1>3. /\ r \in SplitterState /\ r.pend = q.pend /\ r.inside = q.inside /\ r.done = q.done
      /\ ~r.strip /\ ~r.blockStart
  BY <1>1 DEF SplitterState
<1> HIDE DEF r
<1>4. AtStart(z, q, t, g) BY DEF Ready, Outside, Inside, After
<1>5. start /\ q.inside /\ ~q.done /\ t = <<>> /\ g = <<>> /\ TrimStart(z) = q.pend /\ q.pend # <<>>
  BY <1>4 DEF AtStart, Lead
<1>6. Opened(z) /\ Before(z) = <<>> /\ Body(z) = q.pend BY <1>5 DEF Opened, Before, Body
<1>7. Lead(r) = q.pend /\ g \o q.pend = q.pend BY <1>2, <1>3, <1>5, EmptyText DEF Lead
<1>8. Inside(z, r, t, g) BY <1>3, <1>5, <1>6, <1>7, NothingThere DEF Inside
<1> QED BY <1>1, <1>3, <1>8 DEF Ready

(* The closing tag is found.                                               *)
LEMMA Closed ==
  ASSUME start \in BOOLEAN, NEW z \in Str, NEW q, NEW t, NEW g, Inside(z, q, t, g), ~q.strip,
         q \in SplitterState, t \in Str, g \in Str, Occurrences(q.pend, Close) # {}
  PROVE  LET at == Min(Occurrences(q.pend, Close)) IN
         Ready(z, [q EXCEPT !.pend = Drop(q.pend, at + Len(Close) - 1), !.done = TRUE, !.inside = FALSE,
                            !.strip = TRUE, !.blockStart = FALSE],
               t, g \o TrimEnd(Take(q.pend, at - 1)))
<1> DEFINE p == q.pend at == Min(Occurrences(p, Close)) n == at + Len(Close) - 1 h == TrimEnd(Take(p, at - 1))
           r == [q EXCEPT !.pend = Drop(p, n), !.done = TRUE, !.inside = FALSE, !.strip = TRUE,
                          !.blockStart = FALSE]
<1> SUFFICES Ready(z, r, t, g \o h) OBVIOUS
<1>1. p \in Str /\ Len(p) \in Nat /\ Len(g) \in Nat BY TextLen DEF SplitterState
<1>2. at \in 1 .. Len(p) /\ n \in 1 .. Len(p) BY <1>1, TagTypes, FirstOccurrence
<1>3. at - 1 \in 0 .. Len(p) /\ n \in 0 .. Len(p) BY <1>1, <1>2
<1>4. Len(g) + at - 1 = Len(g) + (at - 1) /\ Len(g) + at + Len(Close) - 1 = Len(g) + n
  BY <1>1, <1>2, TagTypes
<1>5. /\ Opened(z) /\ t = Before(z) /\ Body(z) = g \o p /\ Tidy(g) /\ Free(g \o p, Close, Len(g))
  BY DEF Inside, Lead
<1>6. Occurrences(g \o p, Close) # {} /\ Min(Occurrences(g \o p, Close)) = Len(g) + at
  BY <1>1, <1>5, TagTypes, FirstBehind
<1>7. Occurrences(Body(z), Close) # {} /\ Closes(z) = Len(g) + at BY <1>5, <1>6 DEF Closes
<1>8. Behind(z) = Drop(g \o p, Len(g) + n) BY <1>4, <1>5, <1>7 DEF Behind
<1>9. Drop(p, n) \in Str /\ Take(p, at - 1) \in Str BY <1>1, <1>3, Parts
<1>10. h \in Str BY <1>9, TrimEndIs
<1>11. /\ r \in SplitterState /\ r.pend = Drop(p, n) /\ ~r.inside /\ r.done /\ r.strip /\ ~r.blockStart
  BY <1>9 DEF SplitterState
<1> HIDE DEF r, n
<1>12. Drop(g \o p, Len(g) + n) = Drop(p, n) BY <1>1, <1>3, CutBeyond
<1>13. TrimStart(Behind(z)) = Lead(r) /\ Lead(r) \in Str BY <1>8, <1>9, <1>11, <1>12, TrimStartType DEF Lead
<1> DEFINE k == at - 1
<1>14. Take(g \o p, Len(g) + k) = g \o Take(p, k) BY <1>1, <1>3, CutBeyond
<1>15. TrimEnd(Take(Body(z), Closes(z) - 1)) = TrimEnd(g \o Take(p, at - 1))
  <2>1. Closes(z) - 1 = Len(g) + k BY <1>1, <1>2, <1>7
  <2>2. Take(Body(z), Closes(z) - 1) = Take(g \o p, Len(g) + k) BY <1>5, <2>1
  <2> QED BY <1>14, <2>2
<1>16. TrimEnd(g \o Take(p, at - 1)) = g \o h BY <1>5, <1>9, TrimEndJoined
<1>17. t = Before(z) \o <<>> /\ TrimStart(Behind(z)) = <<>> \o Lead(r) BY <1>5, <1>13, EmptyText
<1> HIDE DEF h, at, p
<1>18. After(z, r, t, g \o h) BY <1>5, <1>7, <1>11, <1>15, <1>16, <1>17, EmptyText DEF After
<1>19. g \o h \in Str BY <1>10, Joined
<1> QED BY <1>11, <1>18, <1>19 DEF Ready

(* It is not: all but its possible beginning is reasoning.                 *)
LEMMA StillInside ==
  ASSUME start \in BOOLEAN, NEW z \in Str, NEW q, NEW t, NEW g, Inside(z, q, t, g), ~q.strip,
         q \in SplitterState, t \in Str, g \in Str, Occurrences(q.pend, Close) = {}
  PROVE  LET cut == Len(q.pend) - Hold(q.pend, TRUE, Close) IN
         /\ Splits(z, [q EXCEPT !.pend = Drop(q.pend, cut), !.blockStart = FALSE], t, g \o Take(q.pend, cut))
         /\ Take(q.pend, cut) \in Str
<1> DEFINE p == q.pend k == Begun(p, Close) rest == Take(p, Len(p) - k) h == TrimEnd(rest) c == Len(h)
           cut == Len(p) - Hold(p, TRUE, Close)
           r == [q EXCEPT !.pend = Drop(p, cut), !.blockStart = FALSE]
<1> SUFFICES Splits(z, r, t, g \o Take(p, cut)) /\ Take(p, cut) \in Str OBVIOUS
<1>1. p \in Str /\ Len(p) \in Nat /\ Len(g) \in Nat BY TextLen DEF SplitterState
<1>2. k \in 0 .. Len(p) /\ Free(p, Close, Len(p) - k) BY <1>1, TagTypes, BegunIs
<1>3. Len(p) - k \in 0 .. Len(p) BY <1>1, <1>2
<1>4. rest \in Str /\ Len(rest) = Len(p) - k /\ Drop(p, Len(p) - k) \in Str /\ rest \o Drop(p, Len(p) - k) = p
  BY <1>1, <1>3, Parts
<1>5. h \in Str /\ c \in 0 .. Len(rest) /\ h = Take(rest, c) BY <1>4, TrimEndIs
<1>6. Hold(p, TRUE, Close) = k + Len(rest) - c BY DEF Hold
<1>7. cut = c /\ c \in 0 .. Len(p) /\ c <= Len(p) - k /\ c \in Int /\ Len(p) - k \in Int
  <2>1. k \in Int /\ k >= 0 /\ k <= Len(p) BY <1>1, <1>2
  <2>2. c \in Int /\ c >= 0 /\ c <= Len(p) - k BY <1>1, <1>4, <1>5, <2>1
  <2>3. cut = Len(p) - (k + (Len(p) - k) - c) BY <1>4, <1>6
  <2> HIDE DEF k, c, cut
  <2> QED BY <1>1, <2>1, <2>2, <2>3
<1>8. Take(p, c) = h
  <2> DEFINE d == Drop(p, Len(p) - k)
  <2>1. d \in Str /\ rest \o d = p BY <1>4
  <2> HIDE DEF d, p, c, h, r, cut
  <2>3. rest \in Str /\ c \in 0 .. Len(rest) BY <1>4, <1>5
  <2> HIDE DEF rest
  <2>2. Take(rest \o d, c) = Take(rest, c) BY <2>1, <2>3, CutWithin
  <2> QED BY <1>5, <2>1, <2>2
<1> HIDE DEF c, cut
<1>9. Drop(p, c) \in Str /\ h \o Drop(p, c) = p BY <1>1, <1>7, <1>8, Parts
<1>10. Opened(z) /\ t = Before(z) /\ Body(z) = g \o p /\ Tidy(g) /\ Free(g \o p, Close, Len(g)) /\ g \o p # <<>>
  BY DEF Inside, Lead
<1>11. /\ r \in SplitterState /\ r.pend = Drop(p, c) /\ r.inside = q.inside /\ r.done = q.done
       /\ ~r.strip /\ ~r.blockStart
  BY <1>7, <1>9 DEF SplitterState
<1> HIDE DEF r
<1>12. Tidy(g \o h) BY <1>4, <1>10, TrimEndJoined
<1>13. g \o p = (g \o h) \o Drop(p, c)
  <2> DEFINE d == Drop(p, c)
  <2>1. d \in Str /\ h \o d = p BY <1>9
  <2> HIDE DEF d, h, p
  <2>2. (g \o h) \o d = g \o (h \o d) BY <1>5, <2>1, Regrouped
  <2> QED BY <2>1, <2>2 DEF d
<1>14. Lead(r) = Drop(p, c) BY <1>11 DEF Lead
<1>15. Free(g \o p, Close, Len(g \o h))
  <2>1. Free(p, Close, c) BY <1>2, <1>7, FreeLess
  <2>2. Free(g \o p, Close, Len(g) + c) BY <1>1, <1>7, <1>10, <2>1, TagTypes, FreeJoined
  <2>3. Len(g \o h) = Len(g) + c BY <1>5, Joined DEF c
  <2> QED BY <2>2, <2>3
<1>16. Occurrences(g \o p, Close) = {}
  <2>1. Occurrences(g \o p, Close) = {Len(g) + i : i \in Occurrences(p, Close)}
    BY <1>1, <1>10, TagTypes, OccurrencesBehind
  <2> QED BY <2>1
<1>17. q.inside /\ ~q.done BY DEF Inside
<1> HIDE DEF p, h
<1>18. Inside(z, r, t, g \o h) BY <1>10, <1>11, <1>12, <1>13, <1>14, <1>15, <1>17 DEF Inside
<1>19. g \o h \in Str BY <1>5, Joined
<1>20. Splits(z, r, t, g \o h) BY <1>10, <1>11, <1>16, <1>17, <1>18, <1>19 DEF Splits, Ready
<1> QED BY <1>5, <1>7, <1>8, <1>20

(* The opening tag is found.                                               *)
LEMMA OpenedNow ==
  ASSUME start \in BOOLEAN, NEW z \in Str, NEW q, NEW t, NEW g, Outside(z, q, t, g),
         q \in SplitterState, t \in Str, g \in Str, Occurrences(q.pend, Open) # {}
  PROVE  LET at == Min(Occurrences(q.pend, Open)) IN
         /\ Ready(z, [q EXCEPT !.pend = Drop(q.pend, at + Len(Open) - 1), !.done = FALSE, !.inside = TRUE,
                               !.strip = TRUE, !.blockStart = FALSE],
                  t \o Take(q.pend, at - 1), g)
         /\ Take(q.pend, at - 1) \in Str
<1> DEFINE p == q.pend at == Min(Occurrences(p, Open)) n == at + Len(Open) - 1 h == Take(p, at - 1)
           r == [q EXCEPT !.pend = Drop(p, n), !.done = FALSE, !.inside = TRUE, !.strip = TRUE,
                          !.blockStart = FALSE]
<1> SUFFICES Ready(z, r, t \o h, g) /\ h \in Str OBVIOUS
<1>1. p \in Str /\ Len(p) \in Nat /\ Len(t) \in Nat BY TextLen DEF SplitterState
<1>2. at \in 1 .. Len(p) /\ n \in 1 .. Len(p) BY <1>1, TagTypes, FirstOccurrence
<1>3. at - 1 \in 0 .. Len(p) /\ n \in 0 .. Len(p) BY <1>1, <1>2
<1>4. Len(t) + at - 1 = Len(t) + (at - 1) /\ Len(t) + at + Len(Open) - 1 = Len(t) + n
  BY <1>1, <1>2, TagTypes
<1>5. ~start /\ g = <<>> /\ z = t \o p /\ Free(t \o p, Open, Len(t)) BY DEF Outside
<1>6. Occurrences(z, Open) # {} /\ Min(Occurrences(z, Open)) = Len(t) + at
  BY <1>1, <1>5, TagTypes, FirstBehind
<1>7. Drop(p, n) \in Str /\ h \in Str BY <1>1, <1>3, Parts
<1>8. /\ r \in SplitterState /\ r.pend = Drop(p, n) /\ r.inside /\ ~r.done /\ r.strip /\ ~r.blockStart
  BY <1>7 DEF SplitterState
<1> HIDE DEF r, n, p, at
<1>9. Opened(z) /\ Before(z) = Take(z, Len(t) + at - 1) /\ Body(z) = TrimStart(Drop(z, Len(t) + at + Len(Open) - 1))
  <2> DEFINE m == Min(Occurrences(z, Open))
  <2>1. Opened(z) /\ Before(z) = Take(z, m - 1) /\ Body(z) = TrimStart(Drop(z, m + Len(Open) - 1))
    BY <1>5, <1>6 DEF Opened, Before, Body
  <2>3. at \in Nat /\ Len(t) \in Nat /\ Len(Open) \in Nat /\ m = Len(t) + at BY <1>1, <1>2, <1>6, TagTypes
  <2> HIDE DEF m
  <2>2. m - 1 = Len(t) + at - 1 /\ m + Len(Open) - 1 = Len(t) + at + Len(Open) - 1 BY <2>3
  <2> QED BY <2>1, <2>2, Zenon
<1>10. Drop(t \o p, Len(t) + n) = Drop(p, n) BY <1>1, <1>3, CutBeyond
<1> DEFINE k == at - 1
<1>11. Take(t \o p, Len(t) + k) = t \o Take(p, k) BY <1>1, <1>3, CutBeyond
<1>12. Before(z) = t \o h BY <1>4, <1>5, <1>9, <1>11
<1>13. Body(z) = Lead(r) /\ Lead(r) \in Str BY <1>4, <1>5, <1>7, <1>8, <1>9, <1>10, TrimStartType DEF Lead
<1> HIDE DEF h, p, at
<1>14. Body(z) = g \o Lead(r) BY <1>5, <1>13, EmptyText
<1>15. Inside(z, r, t \o h, g) BY <1>5, <1>8, <1>9, <1>12, <1>14, NothingThere DEF Inside
<1>16. t \o h \in Str BY <1>7, Joined
<1> QED BY <1>7, <1>8, <1>15, <1>16 DEF Ready

(* Without the opening tag, all but its possible beginning is released.    *)
LEMMA StillOutside ==
  ASSUME start \in BOOLEAN, NEW z \in Str, NEW q, NEW t, NEW g, Outside(z, q, t, g),
         q \in SplitterState, t \in Str, g \in Str, Occurrences(q.pend, Open) = {}
  PROVE  LET cut == Len(q.pend) - Hold(q.pend, FALSE, Open) IN
         /\ Splits(z, [q EXCEPT !.pend = Drop(q.pend, cut), !.blockStart = FALSE], t \o Take(q.pend, cut), g)
         /\ Take(q.pend, cut) \in Str
<1> DEFINE p == q.pend cut == Len(p) - Hold(p, FALSE, Open) h == Take(p, cut) d == Drop(p, cut)
           r == [q EXCEPT !.pend = Drop(p, cut), !.blockStart = FALSE]
<1> SUFFICES Splits(z, r, t \o h, g) /\ h \in Str OBVIOUS
<1>1. p \in Str /\ Len(p) \in Nat /\ Len(t) \in Nat BY TextLen DEF SplitterState
<1>2. Hold(p, FALSE, Open) = Begun(p, Open) BY DEF Hold
<1>3. Begun(p, Open) \in 0 .. Len(p) /\ Free(p, Open, Len(p) - Begun(p, Open)) BY <1>1, TagTypes, BegunIs
<1>4. cut \in 0 .. Len(p) /\ Free(p, Open, cut)
  <2>1. cut = Len(p) - Begun(p, Open) BY <1>2
  <2>2. Len(p) - Begun(p, Open) \in 0 .. Len(p) BY <1>1, <1>3
  <2> HIDE DEF cut
  <2> QED BY <1>3, <2>1, <2>2
<1>5. h \in Str /\ Len(h) = cut /\ d \in Str /\ h \o d = p BY <1>1, <1>4, Parts
<1>6. /\ r \in SplitterState /\ r.pend = d /\ r.inside = q.inside /\ r.done = q.done
      /\ r.strip = q.strip /\ ~r.blockStart
  BY <1>5 DEF SplitterState
<1>7. /\ ~start /\ g = <<>> /\ z = t \o p /\ Free(t \o p, Open, Len(t))
      /\ ~q.inside /\ ~q.done /\ ~q.blockStart /\ ~q.strip
  BY DEF Outside
<1> HIDE DEF cut, r, h, d
<1>8. z = (t \o h) \o d
  <2>1. (t \o h) \o d = t \o (h \o d) BY <1>5, Regrouped
  <2> QED BY <1>5, <1>7, <2>1
<1>9. Free(z, Open, Len(t \o h))
  <2>1. Free(t \o p, Open, Len(t) + cut) BY <1>1, <1>4, <1>7, TagTypes, FreeJoined
  <2>2. Len(t \o h) = Len(t) + cut BY <1>5, Joined
  <2> QED BY <1>7, <2>1, <2>2
<1>10. Occurrences(z, Open) = {}
  <2>1. Occurrences(t \o p, Open) = {Len(t) + i : i \in Occurrences(p, Open)}
    BY <1>1, <1>7, TagTypes, OccurrencesBehind
  <2> QED BY <1>7, <2>1
<1>11. Outside(z, r, t \o h, g) BY <1>6, <1>7, <1>8, <1>9 DEF Outside
<1>12. t \o h \in Str BY <1>5, Joined
<1> QED BY <1>5, <1>6, <1>7, <1>10, <1>11, <1>12 DEF Splits, Ready

(* A turn of the loop keeps it ready, or returns with it kept; it only     *)
(* goes on into the block or behind it.                                    *)
Got == [text : Str, reasoning : Str]
Turned(z, r, s, t, g) ==
  /\ r.got \in Got /\ r.more \in BOOLEAN
  /\ r.more => /\ Ready(z, r.sp, t \o r.got.text, g \o r.got.reasoning)
               /\ ~s.done /\ (r.sp.done \/ (r.sp.inside /\ ~r.sp.blockStart /\ (s.inside => s.blockStart)))
  /\ ~r.more => Splits(z, r.sp, t \o r.got.text, g \o r.got.reasoning)

(* What the turn does with a stripped text.                                *)
LEMMA LookKeeps ==
  ASSUME start \in BOOLEAN, NEW z \in Str, NEW t \in Str, NEW g \in Str, NEW h \in Got, NEW q,
         Ready(z, q, t \o h.text, g \o h.reasoning), q.strip => q.pend = <<>>
  PROVE  Turned(z, Looked(q, h), q, t, g)
<1> DEFINE p == q.pend a == t \o h.text b == g \o h.reasoning r == Looked(q, h)
<1> SUFFICES Turned(z, r, q, t, g) OBVIOUS
<1>1. q \in SplitterState /\ a \in Str /\ b \in Str /\ Ready(z, q, a, b) BY DEF Ready
<1>2. /\ p \in Str /\ q.strip \in BOOLEAN /\ q.done \in BOOLEAN /\ q.blockStart \in BOOLEAN /\ q.inside \in BOOLEAN
  BY <1>1 DEF SplitterState
<1>8. ASSUME NEW x \in Str
      PROVE  /\ Give(h, TRUE, x) \in Got /\ t \o Give(h, TRUE, x).text = a
             /\ g \o Give(h, TRUE, x).reasoning = b \o x
             /\ Give(h, FALSE, x) \in Got /\ t \o Give(h, FALSE, x).text = a \o x
             /\ g \o Give(h, FALSE, x).reasoning = b
  <2>1. h.text \in Str /\ h.reasoning \in Str BY DEF Got
  <2>2. h.text \o x \in Str /\ h.reasoning \o x \in Str BY <2>1, Joined
  <2>3. t \o (h.text \o x) = a \o x /\ g \o (h.reasoning \o x) = b \o x
    <3> DEFINE u == h.text v == h.reasoning
    <3>1. u \in Str /\ v \in Str BY <2>1
    <3> HIDE DEF u, v
    <3>2. (t \o u) \o x = t \o (u \o x) BY <3>1, Regrouped
    <3>3. (g \o v) \o x = g \o (v \o x) BY <3>1, Regrouped
    <3> QED BY <3>2, <3>3 DEF u, v
  <2>4. /\ Give(h, TRUE, x) = [h EXCEPT !.reasoning = h.reasoning \o x]
        /\ Give(h, FALSE, x) = [h EXCEPT !.text = h.text \o x]
    BY DEF Give
  <2>5. /\ Give(h, TRUE, x) \in Got /\ Give(h, TRUE, x).text = h.text
        /\ Give(h, TRUE, x).reasoning = h.reasoning \o x
    BY <2>2, <2>4 DEF Got
  <2>6. /\ Give(h, FALSE, x) \in Got /\ Give(h, FALSE, x).text = h.text \o x
        /\ Give(h, FALSE, x).reasoning = h.reasoning
    BY <2>2, <2>4 DEF Got
  <2>7. t \o Give(h, TRUE, x).text = a /\ g \o Give(h, TRUE, x).reasoning = b \o x BY <2>3, <2>5
  <2>8. t \o Give(h, FALSE, x).text = a \o x /\ g \o Give(h, FALSE, x).reasoning = b BY <2>3, <2>6
  <2> QED BY <2>5, <2>6, <2>7, <2>8
<1> HIDE DEF a, b, r
<1>3. CASE q.strip
  <2>1. r = [sp |-> q, got |-> h, more |-> FALSE] BY <1>3 DEF r, Looked
  <2>2. Splits(z, q, a, b) BY <1>1, <1>3, NothingBehind
  <2> QED BY <2>1, <2>2 DEF Turned, a, b
<1>4. CASE ~q.strip /\ q.done
  <2> DEFINE e == [q EXCEPT !.pend = <<>>]
  <2>1. r = [sp |-> e, got |-> Give(h, FALSE, p), more |-> FALSE] BY <1>4 DEF r, Looked
  <2>2. Splits(z, e, a \o p, b) BY <1>1, <1>4, Released
  <2>3. Give(h, FALSE, p) \in Got /\ t \o Give(h, FALSE, p).text = a \o p /\ g \o Give(h, FALSE, p).reasoning = b
    BY <1>2, <1>8
  <2> HIDE DEF e, p
  <2> QED BY <2>1, <2>2, <2>3 DEF Turned
<1>5. CASE ~q.strip /\ ~q.done /\ q.blockStart /\ IsPrefix(Open, p)
  <2> DEFINE e == [q EXCEPT !.pend = Drop(p, Len(Open)), !.blockStart = FALSE, !.strip = TRUE]
  <2>1. r = [sp |-> e, got |-> h, more |-> TRUE] BY <1>5 DEF r, Looked
  <2>2. Ready(z, e, a, b) BY <1>1, <1>5, OpenedAgain
  <2>3. e.inside = q.inside /\ ~e.blockStart BY <1>1 DEF SplitterState
  <2>4. q.inside BY <1>1, <1>5 DEF Ready, AtStart, Outside, After, Inside
  <2> HIDE DEF e, p
  <2> QED BY <1>5, <2>1, <2>2, <2>3, <2>4 DEF Turned, a, b
<1>6. CASE ~q.strip /\ ~q.done /\ q.blockStart /\ ~IsPrefix(Open, p) /\ IsPrefix(p, Open)
  <2>1. r = [sp |-> q, got |-> h, more |-> FALSE] BY <1>6 DEF r, Looked
  <2>2. q.inside BY <1>1, <1>6 DEF Ready, AtStart, Outside, After, Inside
  <2>3. Splits(z, q, a, b) BY <1>1, <1>6, <2>2 DEF Splits
  <2> QED BY <2>1, <2>3 DEF Turned, a, b
<1>7. CASE ~q.strip /\ ~q.done /\ ~(q.blockStart /\ (IsPrefix(Open, p) \/ IsPrefix(p, Open)))
  <2>1. r = Sought(q, h) BY <1>7 DEF r, Looked
  <2> DEFINE e == [q EXCEPT !.blockStart = FALSE]
  <2>2. Ready(z, e, a, b)
    <3>1. CASE q.blockStart BY <1>1, <1>7, <3>1, NotOpenedAgain
    <3>2. CASE ~q.blockStart
      <4>1. e = q BY <1>1, <3>2 DEF SplitterState
      <4> QED BY <1>1, <4>1
    <3> QED BY <1>2, <3>1, <3>2
  <2>3. /\ e \in SplitterState /\ e.pend = p /\ ~e.strip /\ ~e.done /\ ~e.blockStart /\ e.inside = q.inside
    BY <1>1, <1>7 DEF SplitterState
  <2>4. CASE q.inside
    <3>1. Inside(z, e, a, b) BY <2>2, <2>3, <2>4 DEF Ready, AtStart, Outside, After
    <3> DEFINE at == Min(Occurrences(p, Close)) before == TrimEnd(Take(p, at - 1))
               cut == Len(p) - Hold(p, TRUE, Close)
    <3>2. CASE Occurrences(p, Close) # {}
      <4> DEFINE f == [e EXCEPT !.pend = Drop(p, at + Len(Close) - 1), !.done = TRUE, !.inside = FALSE,
                                !.strip = TRUE, !.blockStart = FALSE]
                 f2 == [q EXCEPT !.pend = Drop(p, at + Len(Close) - 1), !.done = TRUE, !.inside = FALSE,
                                 !.strip = TRUE, !.blockStart = FALSE]
      <4>1. r = [sp |-> [q EXCEPT !.pend = Drop(p, at + Len(Close) - 1), !.done = q.inside, !.inside = ~q.inside,
                                  !.strip = TRUE, !.blockStart = FALSE],
                 got |-> Give(h, q.inside, before), more |-> TRUE]
        BY <2>1, <2>4, <3>2 DEF Sought
      <4>2. f2 = f /\ f.done BY <1>1 DEF SplitterState
      <4>3. q.inside = TRUE /\ ~q.inside = FALSE BY <1>2, <2>4
      <4>4. r = [sp |-> f, got |-> Give(h, TRUE, before), more |-> TRUE] BY <4>1, <4>2, <4>3
      <4>5. Ready(z, f, a, b \o before) BY <1>1, <2>3, <3>1, <3>2, Closed
      <4>6. before \in Str
        <5>1. at \in 1 .. Len(p) /\ Len(p) \in Nat BY <1>2, <3>2, TagTypes, FirstOccurrence, TextLen
        <5>2. at - 1 \in 0 .. Len(p) BY <5>1
        <5>3. Take(p, at - 1) \in Str BY <1>2, <5>2, Parts
        <5> QED BY <5>3, TrimEndIs
      <4> HIDE DEF f, f2, before, at, p, e
      <4>7. /\ Give(h, TRUE, before) \in Got /\ t \o Give(h, TRUE, before).text = a
            /\ g \o Give(h, TRUE, before).reasoning = b \o before
        BY <4>6, <1>8
      <4> QED BY <1>7, <4>2, <4>4, <4>5, <4>7 DEF Turned
    <3>3. CASE Occurrences(p, Close) = {}
      <4> DEFINE f == [e EXCEPT !.pend = Drop(p, cut), !.blockStart = FALSE]
                 f2 == [q EXCEPT !.pend = Drop(p, cut), !.blockStart = FALSE]
      <4>1. r = [sp |-> [q EXCEPT !.pend = Drop(p, Len(p) - Hold(p, q.inside, Close)), !.blockStart = FALSE],
                 got |-> Give(h, q.inside, Take(p, Len(p) - Hold(p, q.inside, Close))), more |-> FALSE]
        BY <2>1, <2>4, <3>3 DEF Sought
      <4>2. f2 = f BY <1>1 DEF SplitterState
      <4>3. q.inside = TRUE BY <1>2, <2>4
      <4>4. r = [sp |-> f, got |-> Give(h, TRUE, Take(p, cut)), more |-> FALSE] BY <4>1, <4>2, <4>3
      <4>5. Splits(z, f, a, b \o Take(p, cut)) /\ Take(p, cut) \in Str BY <1>1, <2>3, <3>1, <3>3, StillInside
      <4> DEFINE x == Take(p, cut)
      <4>6. x \in Str BY <4>5
      <4> HIDE DEF x
      <4>7. /\ Give(h, TRUE, x) \in Got /\ t \o Give(h, TRUE, x).text = a
            /\ g \o Give(h, TRUE, x).reasoning = b \o x
        BY <4>6, <1>8
      <4> HIDE DEF f, f2, cut, p, e
      <4> QED BY <4>4, <4>5, <4>7 DEF Turned, x
    <3> QED BY <3>2, <3>3
  <2>5. CASE ~q.inside
    <3>1. Outside(z, e, a, b) BY <2>2, <2>3, <2>5 DEF Ready, AtStart, Inside, After
    <3> DEFINE at == Min(Occurrences(p, Open)) before == Take(p, at - 1)
               cut == Len(p) - Hold(p, FALSE, Open)
    <3>2. CASE Occurrences(p, Open) # {}
      <4> DEFINE f == [e EXCEPT !.pend = Drop(p, at + Len(Open) - 1), !.done = FALSE, !.inside = TRUE,
                                !.strip = TRUE, !.blockStart = FALSE]
                 f2 == [q EXCEPT !.pend = Drop(p, at + Len(Open) - 1), !.done = FALSE, !.inside = TRUE,
                                 !.strip = TRUE, !.blockStart = FALSE]
      <4>1. r = [sp |-> [q EXCEPT !.pend = Drop(p, at + Len(Open) - 1), !.done = q.inside, !.inside = ~q.inside,
                                  !.strip = TRUE, !.blockStart = FALSE],
                 got |-> Give(h, q.inside, before), more |-> TRUE]
        BY <2>1, <2>5, <3>2 DEF Sought
      <4>2. f2 = f /\ f.inside /\ ~f.blockStart BY <1>1 DEF SplitterState
      <4>3. q.inside = FALSE /\ ~q.inside = TRUE BY <1>2, <2>5
      <4>4. r = [sp |-> f, got |-> Give(h, FALSE, before), more |-> TRUE] BY <4>1, <4>2, <4>3
      <4>5. Ready(z, f, a \o before, b) /\ before \in Str BY <1>1, <2>3, <3>1, <3>2, OpenedNow
      <4> HIDE DEF f, f2, before, at, p, e
      <4>6. /\ Give(h, FALSE, before) \in Got /\ t \o Give(h, FALSE, before).text = a \o before
            /\ g \o Give(h, FALSE, before).reasoning = b
        BY <4>5, <1>8
      <4> QED BY <1>7, <2>5, <4>2, <4>4, <4>5, <4>6 DEF Turned
    <3>3. CASE Occurrences(p, Open) = {}
      <4> DEFINE f == [e EXCEPT !.pend = Drop(p, cut), !.blockStart = FALSE]
                 f2 == [q EXCEPT !.pend = Drop(p, cut), !.blockStart = FALSE]
      <4>1. r = [sp |-> [q EXCEPT !.pend = Drop(p, Len(p) - Hold(p, q.inside, Open)), !.blockStart = FALSE],
                 got |-> Give(h, q.inside, Take(p, Len(p) - Hold(p, q.inside, Open))), more |-> FALSE]
        BY <2>1, <2>5, <3>3 DEF Sought
      <4>2. f2 = f BY <1>1 DEF SplitterState
      <4>3. q.inside = FALSE BY <1>2, <2>5
      <4>4. r = [sp |-> f, got |-> Give(h, FALSE, Take(p, cut)), more |-> FALSE] BY <4>1, <4>2, <4>3
      <4>5. Splits(z, f, a \o Take(p, cut), b) /\ Take(p, cut) \in Str BY <1>1, <2>3, <3>1, <3>3, StillOutside
      <4> DEFINE x == Take(p, cut)
      <4>6. x \in Str BY <4>5
      <4> HIDE DEF x
      <4>7. /\ Give(h, FALSE, x) \in Got /\ t \o Give(h, FALSE, x).text = a \o x
            /\ g \o Give(h, FALSE, x).reasoning = b
        BY <4>6, <1>8
      <4> HIDE DEF f, f2, cut, p, e
      <4> QED BY <4>4, <4>5, <4>7 DEF Turned, x
    <3> QED BY <3>2, <3>3
  <2> QED BY <1>2, <2>4, <2>5
<1> QED BY <1>2, <1>3, <1>4, <1>5, <1>6, <1>7

(* A turn of the loop.                                                     *)
LEMMA TurnKeeps ==
  ASSUME start \in BOOLEAN, NEW z \in Str, NEW t \in Str, NEW g \in Str, NEW r, r.more = TRUE, r.got \in Got,
         Ready(z, r.sp, t \o r.got.text, g \o r.got.reasoning)
  PROVE  Turned(z, Turn(r), r.sp, t, g)
<1> DEFINE s == r.sp h == r.got q == Stripped(s) e == Turn(r)
<1> SUFFICES Turned(z, e, s, t, g) OBVIOUS
<1>1. e = Looked(q, h) BY DEF Turn
<1>2. h \in Got /\ Ready(z, s, t \o h.text, g \o h.reasoning) OBVIOUS
<1> HIDE DEF s, h, e
<1>3. /\ Ready(z, q, t \o h.text, g \o h.reasoning) /\ q.inside = s.inside /\ q.done = s.done
      /\ q.blockStart = s.blockStart /\ (q.strip => q.pend = <<>>)
  BY <1>2, StripKeeps
<1> HIDE DEF q
<1>4. Turned(z, e, q, t, g) BY <1>1, <1>2, <1>3, LookKeeps
<1> QED BY <1>3, <1>4 DEF Turned

(* Three turns are enough.                                                 *)
LEMMA ScanKeeps ==
  ASSUME start \in BOOLEAN, NEW z \in Str, NEW s, NEW t, NEW g, Ready(z, s, t, g)
  PROVE  LET r == Scan(s) IN
         r.got \in Got /\ Splits(z, r.sp, t \o r.got.text, g \o r.got.reasoning)
<1> DEFINE r0 == [sp |-> s, got |-> Nothing, more |-> TRUE] r1 == Turn(r0) r2 == Turn(r1) r3 == Turn(r2)
<1> SUFFICES r3.got \in Got /\ Splits(z, r3.sp, t \o r3.got.text, g \o r3.got.reasoning) BY DEF Scan
<1>1. t \in Str /\ g \in Str BY DEF Ready
<1>2. t \o <<>> = t /\ g \o <<>> = g /\ Nothing \in Got BY <1>1, EmptyText DEF Got, Nothing
<1>3. r0.more = TRUE /\ r0.got = Nothing /\ r0.sp = s OBVIOUS
<1>4. ~r1.more => r2 = r1 BY DEF Turn
<1>5. ~r2.more => r3 = r2 BY DEF Turn
<1>6. Ready(z, r0.sp, t \o r0.got.text, g \o r0.got.reasoning) /\ r0.got \in Got BY <1>2 DEF Nothing
<1> HIDE DEF r0
<1>7. Turned(z, r1, r0.sp, t, g) BY <1>1, <1>3, <1>6, TurnKeeps
<1> HIDE DEF r1
<1>8. r1.more => Turned(z, r2, r1.sp, t, g)
  <2> HAVE r1.more
  <2>1. r1.more = TRUE /\ r1.got \in Got /\ Ready(z, r1.sp, t \o r1.got.text, g \o r1.got.reasoning)
    BY <1>7 DEF Turned
  <2> QED BY <1>1, <2>1, TurnKeeps
<1>9. r2.more \in BOOLEAN BY <1>4, <1>7, <1>8 DEF Turned
<1> HIDE DEF r2
<1>10. r2.more => Turned(z, r3, r2.sp, t, g)
  <2> HAVE r2.more
  <2>1. r1.more
    <3>1. r1.more \in BOOLEAN BY <1>7 DEF Turned
    <3> QED BY <1>4, <3>1
  <2>2. r2.more = TRUE /\ r2.got \in Got /\ Ready(z, r2.sp, t \o r2.got.text, g \o r2.got.reasoning)
    BY <1>8, <1>9, <2>1 DEF Turned
  <2> QED BY <1>1, <2>2, TurnKeeps
<1> HIDE DEF r3
<1>11. CASE ~r1.more BY <1>4, <1>5, <1>7, <1>11 DEF Turned
<1>12. CASE r1.more /\ ~r2.more BY <1>5, <1>8, <1>12 DEF Turned
<1>13. CASE r1.more /\ r2.more
  <2>1. r2.sp.done BY <1>7, <1>8, <1>13 DEF Turned
  <2>2. ~r3.more BY <1>10, <1>13, <2>1 DEF Turned
  <2> QED BY <1>10, <1>13, <2>2 DEF Turned
<1> QED BY <1>11, <1>12, <1>13

(* A piece of text more.                                                   *)
LEMMA SplitKeeps ==
  ASSUME start \in BOOLEAN, NEW z \in Str, NEW w \in Str, NEW s, NEW t, NEW g, Splits(z, s, t, g)
  PROVE  LET r == Split(s, w) IN
         r.got \in Got /\ Splits(z \o w, r.sp, t \o r.got.text, g \o r.got.reasoning)
<1> DEFINE e == [s EXCEPT !.pend = @ \o w] u == Split(s, w)
<1> SUFFICES u.got \in Got /\ Splits(z \o w, u.sp, t \o u.got.text, g \o u.got.reasoning) OBVIOUS
<1>1. Ready(z \o w, e, t, g) BY Fed
<1>2. s \in SplitterState /\ t \in Str /\ g \in Str BY DEF Splits, Ready
<1>3. z \o w \in Str BY Joined
<1>4. CASE s.done /\ s.pend = <<>> /\ ~s.strip
  <2> DEFINE h == Give(Nothing, FALSE, w)
  <2>1. Split(s, w) = [sp |-> s, got |-> h] BY <1>4 DEF Split
  <2>2. <<>> \o w = w /\ g \o <<>> = g BY <1>2, EmptyText
  <2>3. h = [text |-> <<>> \o w, reasoning |-> <<>>] BY DEF Give, Nothing
  <2>8. h = [text |-> w, reasoning |-> <<>>] BY <2>2, <2>3
  <2> HIDE DEF h
  <2>9. h \in Got /\ h.text = w /\ h.reasoning = <<>> BY <2>8, EmptyText DEF Got
  <2>4. h \in Got /\ h.text = w /\ g \o h.reasoning = g BY <2>2, <2>9
  <2>5. e = [s EXCEPT !.pend = w] BY <1>4, <2>2
  <2>6. e.pend = w /\ ~e.strip /\ e.done /\ [e EXCEPT !.pend = <<>>] = s BY <1>2, <1>4, <2>5 DEF SplitterState
  <2> HIDE DEF e, h
  <2>7. Splits(z \o w, s, t \o w, g)
    <3>1. Splits(z \o w, [e EXCEPT !.pend = <<>>], t \o e.pend, g) BY <1>1, <1>3, <2>6, Released
    <3> QED BY <2>6, <3>1
  <2>10. u.got = h /\ u.sp = s BY <2>1
  <2>11. t \o u.got.text = t \o w /\ g \o u.got.reasoning = g BY <2>4, <2>10
  <2> HIDE DEF u
  <2> QED BY <2>4, <2>7, <2>10, <2>11
<1>5. CASE ~(s.done /\ s.pend = <<>> /\ ~s.strip)
  <2>1. Split(s, w) = Scan(e) BY <1>5 DEF Split
  <2> HIDE DEF e
  <2> QED BY <1>1, <1>3, <2>1, ScanKeeps
<1> QED BY <1>4, <1>5

(* push keeps the splitter at what its text as a whole says.               *)
LEMMA PushedKeeps ==
  ASSUME start \in BOOLEAN, separate, NEW z \in Str, NEW w \in Str, NEW s, NEW t, NEW g, Splits(z, s, t, g)
  PROVE  LET r == Pushed(s, w) IN
         r.got \in Got /\ Splits(z \o w, r.sp, t \o r.got.text, g \o r.got.reasoning)
<1>1. CASE w = <<>>
  <2>1. t \in Str /\ g \in Str BY DEF Splits, Ready
  <2>2. Pushed(s, w) = [sp |-> s, got |-> Nothing] BY <1>1 DEF Pushed
  <2>3. z \o w = z /\ t \o <<>> = t /\ g \o <<>> = g BY <1>1, <2>1, EmptyText
  <2> DEFINE u == Pushed(s, w)
  <2> SUFFICES u.got \in Got /\ Splits(z \o w, u.sp, t \o u.got.text, g \o u.got.reasoning) OBVIOUS
  <2>4. u.sp = s /\ u.got.text = <<>> /\ u.got.reasoning = <<>> BY <2>2 DEF Nothing
  <2>5. u.got \in Got BY <2>2, EmptyText DEF Nothing, Got
  <2> HIDE DEF u
  <2>6. t \o u.got.text = t /\ g \o u.got.reasoning = g BY <2>3, <2>4
  <2> QED BY <2>3, <2>4, <2>5, <2>6
<1>2. CASE w # <<>>
  <2>1. Pushed(s, w) = Split(s, w) BY <1>2 DEF Pushed
  <2> QED BY <2>1, SplitKeeps
<1> QED BY <1>1, <1>2

(* With what a flush adds it is all there.                                 *)
LEMMA FlushIsExact ==
  ASSUME start \in BOOLEAN, separate, NEW z \in Str, NEW s, NEW t, NEW g, Splits(z, s, t, g)
  PROVE  /\ t \o Leftover(s).text = Reference(z).text /\ g \o Leftover(s).reasoning = Reference(z).reasoning
         /\ Leftover(s) \in Got
<1> DEFINE p == s.pend ends == Occurrences(Body(z), Close)
<1>1. s \in SplitterState /\ t \in Str /\ g \in Str BY DEF Splits, Ready
<1>2. p \in Str /\ TrimEnd(p) \in Str BY <1>1, TrimEndIs DEF SplitterState
<1>3. /\ s.inside => Leftover(s) = [text |-> <<>>, reasoning |-> <<>> \o TrimEnd(p)]
      /\ ~s.inside => Leftover(s) = [text |-> <<>> \o p, reasoning |-> <<>>]
  BY DEF Leftover, Give, Nothing
<1> HIDE DEF p
<1>4. /\ s.inside => Leftover(s) = [text |-> <<>>, reasoning |-> TrimEnd(p)]
      /\ ~s.inside => Leftover(s) = [text |-> p, reasoning |-> <<>>]
  BY <1>2, <1>3, EmptyText
<1>5. t \o <<>> = t /\ g \o <<>> = g BY <1>1, EmptyText
<1>6. Leftover(s) \in Got BY <1>2, <1>4, EmptyText DEF Got
<1>7. /\ ~start /\ Occurrences(z, Open) = {} => Reference(z) = [text |-> z, reasoning |-> <<>>]
      /\ (start \/ Occurrences(z, Open) # {}) /\ ends = {} =>
           Reference(z) = [text |-> Before(z), reasoning |-> TrimEnd(Body(z))]
      /\ (start \/ Occurrences(z, Open) # {}) /\ ends # {} =>
           Reference(z) = [text |-> Before(z) \o TrimStart(Behind(z)),
                           reasoning |-> TrimEnd(Take(Body(z), Closes(z) - 1))]
  BY DEF Reference, Behind, Closes
<1>8. (s.strip \/ s.done => p = <<>>) /\ s.strip \in BOOLEAN BY <1>1 DEF Splits, SplitterState, p
<1>9. s.strip => Lead(s) = <<>> BY <1>8, NothingThere DEF Lead, p
<1>10. ~s.strip => Lead(s) = p BY DEF Lead, p
<1>11. CASE AtStart(z, s, t, g)
  <2>1. start /\ s.inside /\ ~s.done /\ s.blockStart /\ t = <<>> /\ g = <<>> /\ TrimStart(z) = Lead(s)
    BY <1>11 DEF AtStart
  <2>2. IsPrefix(p, Open) /\ ~IsPrefix(Open, p) BY <2>1 DEF Splits, p
  <2>3. Lead(s) = p BY <1>8, <1>9, <1>10
  <2>4. Body(z) = p /\ Before(z) = <<>> BY <2>1, <2>2, <2>3 DEF Body, Before
  <2>5. Occurrences(p, Close) = {}
    <3>1. Len(p) \in 0 .. Len(Open) BY <1>2, <2>2, TagTypes, PrefixIs, TextLen
    <3>2. Take(Open, Len(p)) = p
      <4>1. Take(Open, Len(p)) \in Str /\ Len(Take(Open, Len(p))) = Len(p)
            /\ \A i \in 1 .. Len(p) : Take(Open, Len(p))[i] = Open[i]
        BY <3>1, TagTypes, Parts
      <4>2. \A i \in 1 .. Len(p) : p[i] = Open[i] BY <1>2, <2>2, TagTypes, PrefixIs
      <4> DEFINE u == Take(Open, Len(p))
      <4>3. u \in Str /\ Len(u) = Len(p) /\ \A i \in 1 .. Len(p) : u[i] = p[i] BY <4>1, <4>2
      <4> HIDE DEF u
      <4>4. u = p BY <1>2, <4>3, SameText
      <4> QED BY <4>4 DEF u
    <3> DEFINE d == Drop(Open, Len(p))
    <3>3. d \in Str /\ Take(Open, Len(p)) \o d = Open BY <3>1, TagTypes, Parts
    <3>4. p \o d = Open BY <3>2, <3>3
    <3> HIDE DEF d
    <3>5. Occurrences(p, Close) # {} => Occurrences(p \o d, Close) # {} BY <1>2, <3>3, TagTypes, FirstStays
    <3> QED BY <3>4, <3>5, TagTypes
  <2>6. Reference(z) = [text |-> <<>>, reasoning |-> TrimEnd(p)] BY <1>7, <2>1, <2>4, <2>5
  <2>7. <<>> \o <<>> = <<>> /\ <<>> \o TrimEnd(p) = TrimEnd(p) BY <1>2, EmptyText
  <2> QED BY <1>4, <1>6, <2>1, <2>6, <2>7
<1>12. CASE Outside(z, s, t, g)
  <2>1. ~start /\ ~s.inside /\ ~s.done /\ g = <<>> /\ z = t \o p BY <1>12 DEF Outside, p
  <2>2. Occurrences(z, Open) = {} BY <2>1 DEF Splits
  <2>3. Reference(z) = [text |-> z, reasoning |-> <<>>] BY <1>7, <2>1, <2>2
  <2> QED BY <1>4, <1>5, <1>6, <2>1, <2>3
<1>13. CASE Inside(z, s, t, g)
  <2>1. /\ s.inside /\ ~s.blockStart /\ Opened(z) /\ t = Before(z) /\ Body(z) = g \o Lead(s) /\ Tidy(g)
        /\ (s.strip => g = <<>>)
    BY <1>13 DEF Inside
  <2>2. ends = {} BY <2>1 DEF Splits
  <2>3. Reference(z) = [text |-> t, reasoning |-> TrimEnd(Body(z))] BY <1>7, <2>1, <2>2 DEF Opened
  <2>4. Lead(s) = p BY <1>8, <1>9, <1>10
  <2>5. TrimEnd(Body(z)) = g \o TrimEnd(p) BY <1>1, <1>2, <2>1, <2>4, TrimEndJoined
  <2>6. Leftover(s).text = <<>> /\ Leftover(s).reasoning = TrimEnd(p) BY <1>4, <2>1
  <2>7. Reference(z).text = t /\ Reference(z).reasoning = g \o TrimEnd(p) BY <2>3, <2>5
  <2> QED BY <1>5, <1>6, <2>6, <2>7
<1>14. CASE After(z, s, t, g)
  <2>1. /\ ~s.inside /\ s.done /\ Opened(z) /\ ends # {} /\ g = TrimEnd(Take(Body(z), Closes(z) - 1))
    BY <1>14 DEF After
  <2>2. PICK v \in Str : t = Before(z) \o v /\ TrimStart(Behind(z)) = v \o Lead(s) BY <1>14 DEF After
  <2>3. Lead(s) = <<>> /\ p = <<>> BY <1>8, <1>9, <1>10, <2>1
  <2>4. TrimStart(Behind(z)) = v BY <2>2, <2>3, EmptyText
  <2>5. Reference(z) = [text |-> t, reasoning |-> g] BY <1>7, <2>1, <2>2, <2>4 DEF Opened
  <2>6. Leftover(s).text = <<>> /\ Leftover(s).reasoning = <<>> BY <1>4, <2>1, <2>3
  <2>7. Reference(z).text = t /\ Reference(z).reasoning = g BY <2>5
  <2> QED BY <1>5, <1>6, <2>6, <2>7
<1> QED BY <1>11, <1>12, <1>13, <1>14 DEF Splits, Ready

-----------------------------------------------------------------------------
(* The filters together.  a is the text that passed the stop matcher.      *)
Passed(a, s, t, g) == IF separate THEN Splits(a, s, t, g) ELSE t = a /\ g = <<>>
FilterInv ==
  /\ input \in Str /\ pending \in Str /\ text \in Str /\ reasoning \in Str
  /\ separate \in BOOLEAN /\ start \in BOOLEAN
  /\ OutputExact
  /\ finish = "none" =>
       /\ matched = 0
       /\ \E a \in Str : /\ input = a \o pending /\ \A i \in DOMAIN Stops : Free(input, Stops[i], Len(a))
                         /\ Passed(a, sp, text, reasoning)

(* The same, whether or not reasoning is split off.                        *)
LEMMA PassedOn ==
  ASSUME start \in BOOLEAN, separate \in BOOLEAN, NEW a \in Str, NEW w \in Str, NEW s, NEW t \in Str, NEW g \in Str,
         Passed(a, s, t, g)
  PROVE  LET r == Pushed(s, w) IN
         r.got \in Got /\ Passed(a \o w, r.sp, t \o r.got.text, g \o r.got.reasoning)
<1>1. CASE separate BY <1>1, PushedKeeps DEF Passed
<1>2. CASE ~separate
  <2> DEFINE u == Pushed(s, w)
  <2> SUFFICES u.got \in Got /\ Passed(a \o w, u.sp, t \o u.got.text, g \o u.got.reasoning) OBVIOUS
  <2>1. t = a /\ g = <<>> BY <1>2 DEF Passed
  <2>2. <<>> \o w = w /\ g \o <<>> = g /\ t \o <<>> = t BY EmptyText
  <2>3. u.got = [text |-> w, reasoning |-> <<>>]
    <3>1. w = <<>> => u = [sp |-> s, got |-> Nothing] BY DEF Pushed
    <3>2. w # <<>> => u = [sp |-> s, got |-> [text |-> <<>> \o w, reasoning |-> <<>>]]
      BY <1>2 DEF Pushed, Give, Nothing
    <3> QED BY <2>2, <3>1, <3>2 DEF Nothing
  <2> HIDE DEF u
  <2>4. u.got \in Got /\ u.got.text = w /\ u.got.reasoning = <<>> BY <2>3, EmptyText DEF Got
  <2>5. t \o u.got.text = a \o w /\ g \o u.got.reasoning = <<>> BY <2>1, <2>2, <2>4
  <2> QED BY <1>2, <2>4, <2>5 DEF Passed
<1> QED BY <1>1, <1>2

(* What was released and what a flush adds are the reference's.            *)
LEMMA PassedIsExact ==
  ASSUME start \in BOOLEAN, separate \in BOOLEAN, NEW a \in Str, NEW s, NEW t \in Str, NEW g \in Str,
         Passed(a, s, t, g)
  PROVE  /\ t \o Finished(s).text = Reference(a).text /\ g \o Finished(s).reasoning = Reference(a).reasoning
         /\ Finished(s) \in Got
         /\ separate => Finished([s EXCEPT !.pend = <<>>]) = Nothing
<1>1. CASE separate
  <2>1. Splits(a, s, t, g) /\ Finished(s) = Leftover(s) BY <1>1 DEF Passed, Finished
  <2>2. /\ t \o Leftover(s).text = Reference(a).text /\ g \o Leftover(s).reasoning = Reference(a).reasoning
        /\ Leftover(s) \in Got
    BY <1>1, <2>1, FlushIsExact
  <2> DEFINE e == [s EXCEPT !.pend = <<>>]
  <2>3. s \in SplitterState BY <2>1 DEF Splits, Ready
  <2>4. e.pend = <<>> BY <2>3 DEF SplitterState
  <2> HIDE DEF e
  <2>5. Leftover(e) = Nothing
    <3>1. (IF e.inside THEN TrimEnd(e.pend) ELSE e.pend) = <<>> BY <2>4, TrimEndEmpty
    <3>2. <<>> \o <<>> = <<>> BY EmptyText
    <3>3. Leftover(e) = Give(Nothing, e.inside, <<>>) BY <3>1 DEF Leftover
    <3> QED BY <3>2, <3>3 DEF Give, Nothing
  <2>6. Finished(e) = Nothing BY <1>1, <2>5 DEF Finished
  <2> QED BY <2>1, <2>2, <2>6 DEF e
<1>2. CASE ~separate
  <2>1. Finished(s) = Nothing /\ Reference(a) = [text |-> a, reasoning |-> <<>>] BY <1>2 DEF Finished, Reference
  <2>2. t = a /\ g = <<>> /\ t \o <<>> = t /\ g \o <<>> = g BY <1>2, EmptyText DEF Passed
  <2>3. Finished(s).text = <<>> /\ Finished(s).reasoning = <<>> BY <2>1 DEF Nothing
  <2>4. Finished(s) \in Got BY <2>1, EmptyText DEF Nothing, Got
  <2>5. Reference(a).text = a /\ Reference(a).reasoning = <<>> BY <2>1
  <2> QED BY <1>2, <2>2, <2>3, <2>4, <2>5
<1> QED BY <1>1, <1>2

(* Cutting at the end of the first part.                                   *)
LEMMA WholeCut == ASSUME NEW s \in Str, NEW t \in Str PROVE Take(s \o t, Len(s)) = s /\ Take(s, Len(s)) = s
<1>1. Len(s) \in 0 .. Len(s) BY TextLen
<1>2. Take(s, Len(s)) = s BY SubSeqFull DEF Take, Str
<1> QED BY <1>1, <1>2, CutWithin

(* A piece of text that is received, as the matcher lets it through.       *)
Through(b, piece) ==
  LET m == Matched(piece)
      x == input \o piece
      p == Pushed(sp, m.safe)
  IN
  /\ x \in Str /\ m.rest \in Str
  /\ m.hit # 0 <=> Hits(x) # {}
  /\ m.hit # 0 => m.rest = <<>> /\ Take(x, Min({h[1] : h \in Hits(x)}) - 1) = b
  /\ m.hit = 0 => x = b \o m.rest /\ \A i \in DOMAIN Stops : Free(x, Stops[i], Len(b))
  /\ Hits(Take(x, Len(input))) = {}
  /\ p.got \in Got /\ Passed(b, p.sp, text \o p.got.text, reasoning \o p.got.reasoning)

(* While the completion runs, every piece meets the matcher so.            *)
LEMMA PieceIsThrough ==
  ASSUME FilterInv, finish = "none", NEW piece \in Str
  PROVE  \E b \in Str : Through(b, piece)
<1>1. /\ input \in Str /\ pending \in Str /\ text \in Str /\ reasoning \in Str
      /\ separate \in BOOLEAN /\ start \in BOOLEAN /\ matched = 0 /\ StopsCaught
  BY DEF FilterInv, OutputExact
<1>2. PICK a \in Str : /\ input = a \o pending /\ \A i \in DOMAIN Stops : Free(input, Stops[i], Len(a))
                       /\ Passed(a, sp, text, reasoning)
  BY DEF FilterInv
<1> DEFINE m == Matched(piece) x == (a \o pending) \o piece p == Pushed(sp, m.safe) b == a \o m.safe
<1>3. /\ x \in Str /\ m.safe \in Str /\ m.rest \in Str
      /\ m.hit # 0 <=> Hits(x) # {}
      /\ m.hit # 0 => m.rest = <<>> /\ Take(x, Min({h[1] : h \in Hits(x)}) - 1) = b
      /\ m.hit = 0 => x = b \o m.rest /\ \A i \in DOMAIN Stops : Free(x, Stops[i], Len(b))
  BY <1>1, <1>2, MatchedStep
<1>4. Take(input \o piece, Len(input)) = input BY <1>1, WholeCut
<1>5. Hits(input) = {} BY <1>1 DEF StopsCaught, Stopped
<1>6. input \o piece = x BY <1>2
<1> HIDE DEF m, x
<1>7. p.got \in Got /\ Passed(b, p.sp, text \o p.got.text, reasoning \o p.got.reasoning)
  BY <1>1, <1>2, <1>3, PassedOn
<1>8. b \in Str BY <1>3, Joined
<1> HIDE DEF p, b
<1>9. Through(b, piece) BY <1>3, <1>4, <1>5, <1>6, <1>7 DEF Through, m, p
<1> QED BY <1>8, <1>9

(* Initially nothing passed.                                               *)
LEMMA FilterInitHas == FilterInit => FilterInv
<1> SUFFICES ASSUME FilterInit PROVE FilterInv OBVIOUS
<1>1. /\ input = <<>> /\ last = 0 /\ pending = <<>> /\ matched = 0 /\ separate \in BOOLEAN /\ start \in BOOLEAN
      /\ sp = Splitter(start) /\ text = <<>> /\ reasoning = <<>>
  BY DEF FilterInit
<1>2. <<>> \in Str /\ <<>> \o <<>> = <<>> /\ Len(<<>>) = 0 /\ Take(<<>>, 0) = <<>>
  <2>1. Take(<<>>, Len(<<>>)) = <<>> BY EmptyText, WholeCut
  <2> QED BY <2>1, EmptyText, TextLen
<1>3. Splits(<<>>, sp, <<>>, <<>>)
  <2>1. sp \in SplitterState /\ sp.pend = <<>> /\ ~sp.done /\ (sp.inside <=> start) /\ (sp.strip <=> start)
        /\ (sp.blockStart <=> start) /\ Lead(sp) = <<>>
    BY <1>1, NothingThere DEF Splitter, SplitterState, Lead
  <2>2. CASE start
    <3>1. AtStart(<<>>, sp, <<>>, <<>>) BY <2>1, <2>2, NothingThere DEF AtStart
    <3> QED BY <2>1, <2>2, <3>1, NothingThere DEF Splits, Ready
  <2>3. CASE ~start
    <3>1. Outside(<<>>, sp, <<>>, <<>>) BY <1>2, <2>1, <2>3, NothingThere DEF Outside
    <3> QED BY <2>1, <2>3, <3>1, NothingThere DEF Splits, Ready
  <2> QED BY <1>1, <2>2, <2>3
<1>4. Passed(<<>>, sp, text, reasoning) BY <1>1, <1>3 DEF Passed
<1>5. Hits(<<>>) = {}
  <2>1. \A i \in DOMAIN Stops : Occurrences(<<>>, Stops[i]) = {}
    <3> SUFFICES ASSUME NEW i \in DOMAIN Stops, NEW k \in Occurrences(<<>>, Stops[i]) PROVE FALSE OBVIOUS
    <3>1. k \in Nat /\ k >= 1 /\ k + Len(Stops[i]) - 1 <= 0 /\ Len(Stops[i]) \in Nat /\ Len(Stops[i]) >= 1
      BY <1>2, StopTypes, OccurrenceIs
    <3> QED BY <3>1
  <2> QED BY <2>1, HitIs
<1>6. StopsCaught BY <1>1, <1>2, <1>5 DEF StopsCaught, Stopped
<1>7. Shown = <<>> BY <1>1, <1>2 DEF Shown, Stopped
<1>8. SplitExact BY <1>1, <1>2, <1>4, <1>7, PassedIsExact DEF SplitExact
<1>9. \A i \in DOMAIN Stops : Free(input, Stops[i], Len(<<>>)) BY NothingThere
<1> QED BY <1>1, <1>2, <1>4, <1>6, <1>8, <1>9 DEF FilterInv, OutputExact

(* What is shown after a piece.                                            *)
LEMMA ShownIs ==
  ASSUME NEW piece \in Str, NEW b \in Str, Through(b, piece), Receive(piece), matched' = Matched(piece).hit,
         pending' \in {Matched(piece).rest, <<>>}, NEW c \in Str,
         c = IF pending' = Matched(piece).rest THEN b ELSE b \o Matched(piece).rest
  PROVE  StopsCaught' /\ Shown' = c /\ input' \in Str
<1> DEFINE m == Matched(piece) x == input \o piece
<1>1. input' = x /\ last' = Len(input) BY DEF Receive
<1>2. /\ x \in Str /\ m.rest \in Str
      /\ m.hit # 0 <=> Hits(x) # {}
      /\ m.hit # 0 => m.rest = <<>> /\ Take(x, Min({h[1] : h \in Hits(x)}) - 1) = b
      /\ m.hit = 0 => x = b \o m.rest
      /\ Hits(Take(x, Len(input))) = {}
  BY DEF Through
<1>3. matched' = m.hit /\ (pending' = m.rest \/ pending' = <<>>) OBVIOUS
<1>4. c = IF pending' = m.rest THEN b ELSE b \o m.rest OBVIOUS
<1> HIDE DEF m, x
<1>5. StopsCaught' BY <1>1, <1>2, <1>3 DEF StopsCaught, Stopped
<1>6. Shown' = IF matched' # 0 THEN Take(x, Min({h[1] : h \in Hits(x)}) - 1) ELSE Take(x, Len(x) - Len(pending'))
  BY <1>1 DEF Shown, Stopped
<1>7. CASE m.hit # 0
  <2>1. m.rest = <<>> /\ Shown' = b /\ pending' = m.rest BY <1>2, <1>3, <1>6, <1>7
  <2> QED BY <1>1, <1>2, <1>4, <1>5, <2>1
<1>8. CASE m.hit = 0
  <2> DEFINE d == m.rest
  <2>1. d \in Str /\ x = b \o d /\ Len(b) \in Nat /\ Len(d) \in Nat /\ Len(x) = Len(b) + Len(d)
    <3>1. d \in Str /\ x = b \o d BY <1>2, <1>8
    <3> HIDE DEF d
    <3>2. Len(b \o d) = Len(b) + Len(d) /\ Len(b) \in Nat /\ Len(d) \in Nat BY <3>1, Joined
    <3> QED BY <3>1, <3>2
  <2>2. CASE pending' = d
    <3>1. Len(x) - Len(d) = Len(b) BY <2>1
    <3> HIDE DEF d
    <3>2. Take(b \o d, Len(b)) = b BY <2>1, WholeCut
    <3>3. Shown' = b BY <1>3, <1>6, <1>8, <2>1, <2>2, <3>1, <3>2
    <3> QED BY <1>1, <1>2, <1>4, <1>5, <2>2, <3>3 DEF d
  <2>3. CASE pending' # d
    <3>1. pending' = <<>> /\ Len(pending') = 0 BY <1>3, <2>3, EmptyText, TextLen
    <3>2. Len(x) - Len(pending') = Len(x) BY <2>1, <3>1
    <3>3. Take(x, Len(x)) = x BY <1>2, WholeCut
    <3>4. Shown' = x BY <1>3, <1>6, <1>8, <3>2, <3>3
    <3> QED BY <1>1, <1>2, <1>4, <1>5, <2>1, <2>3, <3>4
  <2> QED BY <2>2, <2>3
<1> QED BY <1>7, <1>8

(* What is collected of what was passed on and finished.                   *)
LEMMA CollectIs ==
  ASSUME text \in Str, reasoning \in Str, NEW a \in Got, NEW b \in Got, Collect(a, b)
  PROVE  /\ text' = (text \o a.text) \o b.text /\ reasoning' = (reasoning \o a.reasoning) \o b.reasoning
         /\ text' \in Str /\ reasoning' \in Str
         /\ text \o a.text \in Str /\ reasoning \o a.reasoning \in Str
<1>1. a.text \in Str /\ a.reasoning \in Str /\ b.text \in Str /\ b.reasoning \in Str BY DEF Got
<1>2. text' = (text \o a.text) \o b.text /\ reasoning' = (reasoning \o a.reasoning) \o b.reasoning
  BY DEF Collect
<1>3. text \o a.text \in Str /\ reasoning \o a.reasoning \in Str BY <1>1, Joined
<1>4. (text \o a.text) \o b.text \in Str /\ (reasoning \o a.reasoning) \o b.reasoning \in Str
  BY <1>1, <1>3, Joined
<1> QED BY <1>2, <1>3, <1>4

(* Nothing is nothing.                                                     *)
LEMMA NothingMore ==
  /\ Nothing \in Got /\ Nothing.text = <<>> /\ Nothing.reasoning = <<>>
BY EmptyText DEF Nothing, Got

(* A piece of text, with or without a stop string, or an abort on it.      *)
LEMMA DeltaKeeps == FilterInv /\ (\E piece \in Str : Delta(piece)) => FilterInv'
<1> SUFFICES ASSUME FilterInv, NEW piece \in Str, Delta(piece) PROVE FilterInv' OBVIOUS
<1>1. finish = "none" /\ separate' = separate /\ start' = start BY DEF Delta
<1>2. PICK b \in Str : Through(b, piece) BY <1>1, PieceIsThrough
<1> DEFINE m == Matched(piece) p == Pushed(sp, m.safe) x == input \o piece ends == m.hit # 0
           t == text \o p.got.text g == reasoning \o p.got.reasoning
<1>3. /\ text \in Str /\ reasoning \in Str /\ separate \in BOOLEAN /\ start \in BOOLEAN
  BY DEF FilterInv
<1>4. Receive(piece) /\ pending' = m.rest /\ matched' = m.hit BY DEF Delta
<1>5. p.got \in Got /\ Passed(b, p.sp, t, g) /\ m.rest \in Str
      /\ (m.hit = 0 => x = b \o m.rest /\ \A i \in DOMAIN Stops : Free(x, Stops[i], Len(b)))
  BY <1>2 DEF Through
<1>6. StopsCaught' /\ Shown' = b /\ input' \in Str BY <1>2, <1>4, ShownIs
<1>7. input' = x BY <1>4 DEF Receive
<1>8. t \in Str /\ g \in Str
  <2>1. p.got.text \in Str /\ p.got.reasoning \in Str BY <1>5 DEF Got
  <2> QED BY <1>3, <2>1, Joined
<1>9. \/ /\ finish' = IF ends THEN "stop_string" ELSE "none"
         /\ sp' = IF ends /\ separate THEN [p.sp EXCEPT !.pend = <<>>] ELSE p.sp
         /\ Collect(p.got, IF ends THEN Finished(p.sp) ELSE Nothing)
      \/ finish' = "aborted" /\ sp' = p.sp /\ Collect(p.got, Nothing)
  BY DEF Delta
<1> DEFINE e == p.sp h == p.got
<1> HIDE DEF m, p, x, e, h
<1>10. Finished(e) \in Got /\ t \o Finished(e).text = Reference(b).text
       /\ g \o Finished(e).reasoning = Reference(b).reasoning
       /\ (separate => Finished([e EXCEPT !.pend = <<>>]) = Nothing)
  <2>1. Passed(b, e, t, g) BY <1>5 DEF e
  <2> HIDE DEF t, g
  <2> QED BY <1>3, <1>8, <2>1, PassedIsExact
<1>11. Reference(Shown)' = Reference(b) BY <1>1, <1>6 DEF Reference, Body, Before
<1>12. Finished(sp)' = Finished(sp') BY <1>1 DEF Finished
<1>13. CASE ends /\ finish' # "aborted"
  <2>1. /\ finish' = "stop_string" /\ Collect(h, Finished(e))
        /\ sp' = IF separate THEN [e EXCEPT !.pend = <<>>] ELSE e
    BY <1>9, <1>13 DEF e, h
  <2>2. /\ text' = t \o Finished(e).text /\ reasoning' = g \o Finished(e).reasoning
        /\ text' \in Str /\ reasoning' \in Str
    BY <1>3, <1>5, <1>10, <2>1, CollectIs DEF h
  <2>3. Finished(sp') = Nothing
    <3>1. CASE separate BY <1>10, <2>1, <3>1
    <3>2. CASE ~separate BY <3>2 DEF Finished
    <3> QED BY <3>1, <3>2
  <2>4. text' \o <<>> = text' /\ reasoning' \o <<>> = reasoning' BY <2>2, EmptyText
  <2>5. text' \o Finished(sp)'.text = text' /\ reasoning' \o Finished(sp)'.reasoning = reasoning'
    BY <1>12, <2>3, <2>4, NothingMore
  <2>6. SplitExact' BY <1>10, <1>11, <2>2, <2>5 DEF SplitExact
  <2> QED BY <1>1, <1>3, <1>4, <1>5, <1>6, <2>1, <2>2, <2>6 DEF FilterInv, OutputExact
<1>14. CASE ~ends \/ finish' = "aborted"
  <2>1. sp' = e /\ Collect(h, Nothing) /\ (finish' = "none" => ~ends) BY <1>9, <1>14 DEF e, h
  <2>2. /\ text' = t \o <<>> /\ reasoning' = g \o <<>> /\ text' \in Str /\ reasoning' \in Str
    BY <1>3, <1>5, <2>1, NothingMore, CollectIs DEF h
  <2>3. text' = t /\ reasoning' = g BY <1>8, <2>2, EmptyText
  <2>4. SplitExact' BY <1>10, <1>11, <1>12, <2>1, <2>3 DEF SplitExact
  <2>5. ASSUME finish' = "none"
        PROVE  /\ matched' = 0 /\ input' = b \o pending' /\ Passed(b, sp, text, reasoning)'
               /\ \A i \in DOMAIN Stops : Free(input', Stops[i], Len(b))
    <3>1. m.hit = 0 BY <2>1, <2>5
    <3>2. matched' = 0 /\ input' = b \o pending' /\ \A i \in DOMAIN Stops : Free(input', Stops[i], Len(b))
      BY <1>4, <1>5, <1>7, <3>1
    <3>3. Passed(b, sp', text', reasoning') BY <1>5, <2>1, <2>3 DEF e
    <3>4. Passed(b, sp, text, reasoning)' <=> Passed(b, sp', text', reasoning')
      BY <1>1 DEF Passed, Splits, Ready, AtStart, Outside, Inside, After, Opened, Closes, Behind, Body, Before
    <3> QED BY <3>2, <3>3, <3>4
  <2> QED BY <1>1, <1>3, <1>4, <1>5, <1>6, <2>2, <2>4, <2>5 DEF FilterInv, OutputExact
<1> QED BY <1>13, <1>14

(* Joining in steps; its name keeps the sequence axioms of the solver out. *)
Glue(a, b) == a \o b

(* Glue is associative.                                                    *)
LEMMA GlueTwice == \A x, y, z \in Str : Glue(Glue(x, y), z) = Glue(x, Glue(y, z))
BY Regrouped DEF Glue

(* The end: what is held back is released or stops the completion.         *)
LEMMA EndKeeps == FilterInv /\ (\E piece \in Str : End(piece)) => FilterInv'
<1> SUFFICES ASSUME FilterInv, NEW piece \in Str, End(piece) PROVE FilterInv' OBVIOUS
<1>1. finish = "none" /\ separate' = separate /\ start' = start /\ finish' # "none" BY DEF End
<1>2. PICK b \in Str : Through(b, piece) BY <1>1, PieceIsThrough
<1> DEFINE m == Matched(piece) p == Pushed(sp, m.safe) r == Pushed(p.sp, m.rest) c == b \o m.rest
           t == text \o p.got.text g == reasoning \o p.got.reasoning
           both == [text |-> p.got.text \o r.got.text, reasoning |-> p.got.reasoning \o r.got.reasoning]
<1>3. /\ text \in Str /\ reasoning \in Str /\ separate \in BOOLEAN /\ start \in BOOLEAN
  BY DEF FilterInv
<1>4. /\ Receive(piece) /\ pending' = <<>> /\ matched' = m.hit
      /\ sp' = IF separate THEN [r.sp EXCEPT !.pend = <<>>] ELSE r.sp
      /\ Collect(both, Finished(r.sp))
  BY DEF End
<1>5. p.got \in Got /\ Passed(b, p.sp, t, g) /\ m.rest \in Str BY <1>2 DEF Through
<1>6. c \in Str BY <1>5, Joined
<1>7. StopsCaught' /\ Shown' = c /\ input' \in Str
  <2>1. c = IF pending' = m.rest THEN b ELSE b \o m.rest
    <3>1. b \o <<>> = b BY EmptyText
    <3> QED BY <1>4, <3>1
  <2> HIDE DEF c
  <2>2. pending' \in {Matched(piece).rest, <<>>} BY <1>4
  <2> QED BY <1>2, <1>4, <1>6, <2>1, <2>2, ShownIs
<1> DEFINE e == r.sp h == p.got k == r.got d == m.rest
<1>8. h \in Got /\ h.text \in Str /\ h.reasoning \in Str BY <1>5 DEF Got
<1>9. t \in Str /\ g \in Str BY <1>3, <1>8, Joined
<1>10. k \in Got /\ Passed(c, e, t \o k.text, g \o k.reasoning)
  <2>1. d \in Str /\ Passed(b, p.sp, t, g) BY <1>5
  <2> HIDE DEF d, t, g
  <2>2. LET u == Pushed(p.sp, d) IN u.got \in Got /\ Passed(b \o d, u.sp, t \o u.got.text, g \o u.got.reasoning)
    BY <1>3, <1>9, <2>1, PassedOn
  <2> QED BY <2>2 DEF d
<1>11. k.text \in Str /\ k.reasoning \in Str BY <1>10 DEF Got
<1>12. /\ both = [text |-> h.text \o k.text, reasoning |-> h.reasoning \o k.reasoning]
       /\ Collect(both, Finished(e)) /\ sp' = IF separate THEN [e EXCEPT !.pend = <<>>] ELSE e
  BY <1>4
<1> HIDE DEF m, p, r, e, h, k, both, c
<1>13. h.text \o k.text \in Str /\ h.reasoning \o k.reasoning \in Str BY <1>8, <1>11, Joined
<1>14. both \in Got /\ both.text = h.text \o k.text /\ both.reasoning = h.reasoning \o k.reasoning
  BY <1>12, <1>13 DEF Got
<1>15. text \o both.text = t \o k.text /\ reasoning \o both.reasoning = g \o k.reasoning
  <2>1. t = Glue(text, h.text) /\ g = Glue(reasoning, h.reasoning) BY DEF h, Glue
  <2> HIDE DEF t, g
  <2>2. Glue(Glue(text, h.text), k.text) = Glue(text, Glue(h.text, k.text)) BY <1>3, <1>8, <1>11, GlueTwice
  <2>3. Glue(Glue(reasoning, h.reasoning), k.reasoning) = Glue(reasoning, Glue(h.reasoning, k.reasoning))
    BY <1>3, <1>8, <1>11, GlueTwice
  <2>4. Glue(text, both.text) = Glue(t, k.text) /\ Glue(reasoning, both.reasoning) = Glue(g, k.reasoning)
    <3>1. both.text = Glue(h.text, k.text) /\ both.reasoning = Glue(h.reasoning, k.reasoning) BY <1>14 DEF Glue
    <3> QED BY <2>1, <2>2, <2>3, <3>1
  <2> QED BY <2>4 DEF Glue
<1>16. t \o k.text \in Str /\ g \o k.reasoning \in Str BY <1>9, <1>11, Joined
<1>17. /\ Finished(e) \in Got /\ (t \o k.text) \o Finished(e).text = Reference(c).text
       /\ (g \o k.reasoning) \o Finished(e).reasoning = Reference(c).reasoning
       /\ (separate => Finished([e EXCEPT !.pend = <<>>]) = Nothing)
  <2> HIDE DEF t, g
  <2> QED BY <1>3, <1>6, <1>10, <1>16, PassedIsExact
<1>18. /\ text' = (text \o both.text) \o Finished(e).text /\ text' \in Str
       /\ reasoning' = (reasoning \o both.reasoning) \o Finished(e).reasoning /\ reasoning' \in Str
  BY <1>3, <1>12, <1>14, <1>17, CollectIs
<1>19. text' = Reference(c).text /\ reasoning' = Reference(c).reasoning BY <1>15, <1>17, <1>18
<1>20. Reference(Shown)' = Reference(c) BY <1>1, <1>7 DEF Reference, Body, Before
<1>21. Finished(sp)' = Finished(sp') BY <1>1 DEF Finished
<1>22. Finished(sp') = Nothing
  <2>1. CASE separate BY <1>12, <1>17, <2>1
  <2>2. CASE ~separate BY <2>2 DEF Finished
  <2> QED BY <2>1, <2>2
<1>23. text' \o <<>> = text' /\ reasoning' \o <<>> = reasoning' BY <1>18, EmptyText
<1>24. text' \o Finished(sp)'.text = text' /\ reasoning' \o Finished(sp)'.reasoning = reasoning'
  BY <1>21, <1>22, <1>23, NothingMore
<1>25. SplitExact' BY <1>19, <1>20, <1>24 DEF SplitExact
<1> QED BY <1>1, <1>3, <1>4, <1>7, <1>18, <1>25, EmptyText DEF FilterInv, OutputExact

(* Nothing happens.                                                        *)
LEMMA FilterUnchanged == FilterInv /\ UNCHANGED filterVars => FilterInv'
<1> SUFFICES ASSUME FilterInv, UNCHANGED filterVars PROVE FilterInv' OBVIOUS
<1>1. /\ input' = input /\ last' = last /\ pending' = pending /\ matched' = matched /\ separate' = separate
      /\ start' = start /\ sp' = sp /\ text' = text /\ reasoning' = reasoning /\ finish' = finish
  BY DEF filterVars
<1>2. OutputExact' <=> OutputExact
  BY <1>1 DEF OutputExact, StopsCaught, SplitExact, Stopped, Shown, Reference, Body, Before, Finished
<1>3. \A a : Passed(a, sp, text, reasoning)' <=> Passed(a, sp, text, reasoning)
  BY <1>1 DEF Passed, Splits, Ready, AtStart, Outside, Inside, After, Opened, Closes, Behind, Body, Before
<1> QED BY <1>1, <1>2, <1>3 DEF FilterInv

(* Every step keeps the invariant.                                         *)
LEMMA FilterNextKeeps == FilterInv /\ [FilterNext]_filterVars => FilterInv'
<1>1. \A piece \in Pieces : piece \in Str
  <2> TAKE piece \in Pieces
  <2>1. MaxPiece \in Nat BY FilterAssumption
  <2>2. PICK n \in 1 .. MaxPiece : piece \in [1 .. n -> Char] BY DEF Pieces
  <2>3. n \in Nat BY <2>1
  <2> QED BY <2>2, <2>3 DEF Str
<1>2. <<>> \in Str /\ \A c \in Char : <<c>> \in Str BY EmptyText DEF Str
<1>3. FilterNext => (\E piece \in Str : Delta(piece)) \/ (\E piece \in Str : End(piece)) \/ UNCHANGED filterVars
  BY <1>1, <1>2 DEF FilterNext, Ended
<1> QED BY <1>3, DeltaKeeps, EndKeeps, FilterUnchanged

(* For any alphabet, tags, stop strings and pieces: the caller gets the    *)
(* text before the earliest stop string, with the first thinking block     *)
(* split off, as if it had been there as a whole (StopMatcher,             *)
(* ReasoningSplitter and OutputSink of generation.rs).                     *)
THEOREM OutputAlwaysExact == FilterSpec => []OutputExact
<1>1. FilterInv => OutputExact BY DEF FilterInv
<1> QED BY <1>1, FilterInitHas, FilterNextKeeps, PTL DEF FilterSpec

-----------------------------------------------------------------------------
(* The incremental detokenizer.                                            *)

(* Induction up to a number.                                               *)
LEMMA Counting ==
  ASSUME NEW n \in Nat, NEW G, 0 \in G, \A i \in 1 .. n : i - 1 \in G => i \in G
  PROVE  \A i \in 0 .. n : i \in G
<1> SUFFICES ASSUME NEW k \in 0 .. n, k \notin G PROVE FALSE OBVIOUS
<1> DEFINE Bad == {i \in Nat : i <= n /\ i \notin G}
           m == Min(Bad)
<1>1. m \in Bad /\ \A i \in Bad : m <= i
  <2>1. Bad \in SUBSET Nat /\ k \in Bad OBVIOUS
  <2> HIDE DEF Bad
  <2> QED BY <2>1, MinIs
<1> HIDE DEF m
<1>2. m \in Nat /\ m <= n /\ m \notin G /\ m # 0 BY <1>1
<1>3. m - 1 \in Nat /\ m - 1 <= n /\ ~(m <= m - 1) /\ m \in 1 .. n BY <1>2
<1>4. m - 1 \in G BY <1>1, <1>3
<1> QED BY <1>2, <1>3, <1>4

(* A recursion over 0 .. n has a value.                                    *)
Recurs(f, n, base, step) == f[0] = base /\ \A i \in 1 .. n : f[i] = step[<<i, f[i - 1]>>]

(* It can be computed from the base up.                                    *)
LEMMA Recursion ==
  ASSUME NEW n \in Nat, NEW X, NEW base \in X, NEW step,
         \A i \in 1 .. n, x \in X : step[<<i, x>>] \in X
  PROVE  \E f \in [0 .. n -> X] : Recurs(f, n, base, step)
<1> DEFINE Some(k) == \E f \in [0 .. k -> X] : Recurs(f, k, base, step)
           G == {k \in 0 .. n : Some(k)}
<1>1. Some(0)
  <2> DEFINE f == [i \in 0 .. 0 |-> base]
  <2>1. f \in [0 .. 0 -> X] /\ f[0] = base /\ 1 .. 0 = {} OBVIOUS
  <2> QED BY <2>1 DEF Recurs
<1>2. ASSUME NEW k \in 1 .. n, Some(k - 1) PROVE Some(k)
  <2>1. PICK f \in [0 .. k - 1 -> X] : Recurs(f, k - 1, base, step) BY <1>2
  <2> DEFINE g == [i \in 0 .. k |-> IF i = k THEN step[<<k, f[k - 1]>>] ELSE f[i]]
  <2>2. f[k - 1] \in X BY <2>1
  <2>3. step[<<k, f[k - 1]>>] \in X BY <2>2
  <2>4. g \in [0 .. k -> X]
    <3>1. \A i \in 0 .. k : i # k => i \in 0 .. k - 1 OBVIOUS
    <3> QED BY <2>3, <3>1
  <2>5. \A i \in 0 .. k - 1 : g[i] = f[i] /\ i \in 0 .. k OBVIOUS
  <2>6. g[k] = step[<<k, f[k - 1]>>] OBVIOUS
  <2> HIDE DEF g
  <2>7. g[0] = base BY <2>1, <2>5 DEF Recurs
  <2>8. ASSUME NEW i \in 1 .. k PROVE g[i] = step[<<i, g[i - 1]>>]
    <3>1. i - 1 \in 0 .. k - 1 OBVIOUS
    <3>2. CASE i = k BY <2>5, <2>6, <3>1, <3>2
    <3>3. CASE i # k
      <4>1. i \in 1 .. k - 1 /\ i \in 0 .. k - 1 BY <3>3
      <4>2. f[i] = step[<<i, f[i - 1]>>] BY <2>1, <4>1 DEF Recurs
      <4> QED BY <2>5, <3>1, <4>1, <4>2
    <3> QED BY <3>2, <3>3
  <2> QED BY <2>4, <2>7, <2>8 DEF Recurs
<1> HIDE DEF Some
<1>3. 0 \in G BY <1>1
<1>4. \A i \in 1 .. n : i - 1 \in G => i \in G BY <1>2
<1> HIDE DEF G
<1>5. \A i \in 0 .. n : i \in G BY <1>3, <1>4, Counting
<1>6. n \in 0 .. n OBVIOUS
<1> QED BY <1>5, <1>6 DEF G, Some

(* A sequence of texts is joined one after another.                        *)
Joins(flat, s) ==
  /\ flat[0] = << >> /\ \A i \in 1 .. Len(s) : flat[i] = flat[i - 1] \o s[i]
  /\ FlattenSeq(s) = flat[Len(s)]

(* FlattenSeq does that.                                                   *)
LEMMA Flattened ==
  ASSUME NEW X, NEW s \in Seq(Seq(X))
  PROVE  \E flat \in [0 .. Len(s) -> Seq(X)] : Joins(flat, s)
<1> DEFINE n == Len(s)
           value(fl) == [i \in 1 .. n |-> IF i = 1 THEN s[i] ELSE fl[i - 1] \o s[i]]
           fl == CHOOSE fl : fl = value(fl)
           step == [p \in (1 .. n) \X Seq(X) |-> p[2] \o s[p[1]]]
<1>0. n \in Nat /\ \A i \in 1 .. n : s[i] \in Seq(X) OBVIOUS
<1>1. FlattenSeq(s) = IF n = 0 THEN s ELSE fl[n] BY DEF FlattenSeq
<1>2. PICK flat \in [0 .. n -> Seq(X)] : Recurs(flat, n, << >>, step)
  <2>1. \A i \in 1 .. n, x \in Seq(X) : step[<<i, x>>] \in Seq(X) BY <1>0, ConcatProperties
  <2>2. << >> \in Seq(X) BY EmptySeq
  <2> HIDE DEF step
  <2> QED BY <1>0, <2>1, <2>2, Recursion
<1>3. flat[0] = << >> /\ \A i \in 1 .. n : flat[i] = flat[i - 1] \o s[i]
  <2>1. \A i \in 1 .. n : flat[i - 1] \in Seq(X)
    <3>1. \A i \in 1 .. n : i - 1 \in 0 .. n BY <1>0
    <3> QED BY <1>2, <3>1
  <2>2. \A i \in 1 .. n : step[<<i, flat[i - 1]>>] = flat[i - 1] \o s[i] BY <2>1
  <2> HIDE DEF step
  <2> QED BY <1>2, <2>2 DEF Recurs
<1>4. FlattenSeq(s) = flat[n]
  <2>1. CASE n = 0
    <3>1. s = << >> BY <2>1, EmptySeq
    <3> QED BY <1>1, <1>3, <2>1, <3>1
  <2>2. CASE n # 0
    <3> DEFINE h == [i \in 1 .. n |-> flat[i]]
    <3>1. h = value(h)
      <4>1. ASSUME NEW i \in 1 .. n PROVE h[i] = IF i = 1 THEN s[i] ELSE h[i - 1] \o s[i]
        <5>1. CASE i = 1
          <6>1. flat[i] = flat[i - 1] \o s[i] BY <1>3
          <6>2. << >> \o s[i] = s[i] BY <1>0, ConcatEmptySeq
          <6>3. i - 1 = 0 BY <5>1
          <6>5. flat[i] = << >> \o s[i] BY <1>3, <6>1, <6>3
          <6>4. h[i] = flat[i] OBVIOUS
          <6> QED BY <5>1, <6>2, <6>4, <6>5
        <5>2. CASE i # 1
          <6>1. i - 1 \in 1 .. n BY <1>0, <5>2
          <6> QED BY <1>3, <5>2, <6>1
        <5> QED BY <5>1, <5>2
      <4> QED BY <4>1
    <3>2. fl = value(fl) BY <3>1
    <3> HIDE DEF fl, h
    <3> DEFINE G == {i \in 0 .. n : i = 0 \/ fl[i] = flat[i]}
    <3>3. \A i \in 1 .. n : fl[i] = IF i = 1 THEN s[i] ELSE fl[i - 1] \o s[i] BY <3>2
    <3>4. 0 \in G BY <1>0
    <3>5. ASSUME NEW i \in 1 .. n, i - 1 \in G PROVE i \in G
      <4>1. CASE i = 1
        <5>1. fl[i] = s[i] BY <3>3, <4>1
        <5>4. flat[i] = flat[i - 1] \o s[i] BY <1>3
        <5>5. i - 1 = 0 BY <4>1
        <5>2. flat[i] = << >> \o s[i] BY <1>3, <5>4, <5>5
        <5>3. << >> \o s[i] = s[i] BY <1>0, ConcatEmptySeq
        <5> QED BY <5>1, <5>2, <5>3
      <4>2. CASE i # 1
        <5>1. fl[i] = fl[i - 1] \o s[i] BY <3>3, <4>2
        <5>2. fl[i - 1] = flat[i - 1] BY <3>5, <4>2
        <5>3. flat[i] = flat[i - 1] \o s[i] BY <1>3
        <5>4. i \in 0 .. n BY <1>0
        <5> QED BY <5>1, <5>2, <5>3, <5>4
      <4> QED BY <4>1, <4>2
    <3> HIDE DEF G
    <3>6. \A i \in 0 .. n : i \in G BY <1>0, <3>4, <3>5, Counting
    <3>7. n \in G /\ n # 0 BY <1>0, <2>2, <3>6
    <3> QED BY <1>1, <2>2, <3>7 DEF G
  <2> QED BY <2>1, <2>2
<1> QED BY <1>2, <1>3, <1>4 DEF Joins

(* The elements of two sequences joined.                                   *)
Both(s, t) ==
  /\ Len(s \o t) = Len(s) + Len(t) /\ Len(s) \in Nat /\ Len(t) \in Nat
  /\ \A i \in 1 .. Len(s) : (s \o t)[i] = s[i]
  /\ \A i \in 1 .. Len(t) : (s \o t)[Len(s) + i] = t[i]

(* A joined sequence has the elements of both, in order.                   *)
LEMMA Concatenated ==
  ASSUME NEW X, NEW s \in Seq(X), NEW t \in Seq(X)
  PROVE  s \o t \in Seq(X) /\ Both(s, t)
<1>1. /\ s \o t \in Seq(X) /\ Len(s \o t) = Len(s) + Len(t)
      /\ \A i \in 1 .. Len(s) + Len(t) : (s \o t)[i] = IF i <= Len(s) THEN s[i] ELSE t[i - Len(s)]
  BY ConcatProperties
<1>2. Len(s) \in Nat /\ Len(t) \in Nat BY LenProperties
<1>3. \A i \in 1 .. Len(s) : (s \o t)[i] = s[i] BY <1>1, <1>2
<1>4. ASSUME NEW i \in 1 .. Len(t) PROVE (s \o t)[Len(s) + i] = t[i]
  <2>1. Len(s) + i \in 1 .. Len(s) + Len(t) /\ ~(Len(s) + i <= Len(s)) /\ (Len(s) + i) - Len(s) = i BY <1>2
  <2> QED BY <1>1, <2>1
<1> QED BY <1>1, <1>2, <1>3, <1>4 DEF Both

(* In which order three texts are joined makes no difference.              *)
LEMMA JoinedThrice ==
  ASSUME NEW X
  PROVE  \A u, v, w \in Seq(X) : (u \o v) \o w = u \o (v \o w)
BY ConcatAssociative

(* Joining what was joined.                                                *)
LEMMA FlattenJoin ==
  ASSUME NEW X, NEW s \in Seq(Seq(X)), NEW t \in Seq(Seq(X))
  PROVE  /\ FlattenSeq(s \o t) = FlattenSeq(s) \o FlattenSeq(t)
         /\ FlattenSeq(s) \in Seq(X) /\ FlattenSeq(t) \in Seq(X)
<1> DEFINE m == Len(s)
           n == Len(t)
           both == s \o t
<1>0. \A u, v, w \in Seq(X) : (u \o v) \o w = u \o (v \o w) BY JoinedThrice
<1>1. both \in Seq(Seq(X)) /\ Both(s, t) BY Concatenated
<1>2. /\ m \in Nat /\ n \in Nat /\ Len(both) = m + n
      /\ \A i \in 1 .. m : both[i] = s[i]
      /\ \A i \in 1 .. n : both[m + i] = t[i]
  BY <1>1 DEF Both
<1>3. PICK a \in [0 .. m -> Seq(X)] : Joins(a, s) BY Flattened
<1>4. PICK b \in [0 .. n -> Seq(X)] : Joins(b, t) BY Flattened
<1>5. PICK c \in [0 .. Len(both) -> Seq(X)] : Joins(c, both) BY <1>1, Flattened
<1>6. \A i \in 1 .. n : t[i] \in Seq(X) OBVIOUS
<1> HIDE DEF m, n, both
<1>7. /\ a[0] = << >> /\ \A i \in 1 .. m : a[i] = a[i - 1] \o s[i]
      /\ FlattenSeq(s) = a[m]
  BY <1>3 DEF Joins, m
<1>8. /\ b[0] = << >> /\ \A i \in 1 .. n : b[i] = b[i - 1] \o t[i]
      /\ FlattenSeq(t) = b[n]
  BY <1>4 DEF Joins, n
<1>9. /\ c[0] = << >> /\ \A i \in 1 .. m + n : c[i] = c[i - 1] \o both[i]
      /\ FlattenSeq(both) = c[m + n]
  BY <1>2, <1>5 DEF Joins
<1>10. \A i \in 0 .. m : c[i] = a[i]
  <2> DEFINE G == {i \in 0 .. m : c[i] = a[i]}
  <2>1. 0 \in G BY <1>2, <1>7, <1>9
  <2>2. ASSUME NEW i \in 1 .. m, i - 1 \in G PROVE i \in G
    <3>1. i \in 1 .. m + n /\ i \in 0 .. m BY <1>2
    <3>2. c[i] = c[i - 1] \o both[i] BY <1>9, <3>1
    <3>3. a[i] = a[i - 1] \o s[i] BY <1>7
    <3>4. both[i] = s[i] /\ c[i - 1] = a[i - 1] BY <1>2, <2>2
    <3> QED BY <3>1, <3>2, <3>3, <3>4
  <2> HIDE DEF G
  <2>3. \A i \in 0 .. m : i \in G BY <1>2, <2>1, <2>2, Counting
  <2> QED BY <2>3 DEF G
<1>11. a[m] \in Seq(X) /\ \A i \in 0 .. n : b[i] \in Seq(X)
  <2>1. a \in [0 .. m -> Seq(X)] BY <1>3 DEF m
  <2>2. b \in [0 .. n -> Seq(X)] BY <1>4 DEF n
  <2>3. m \in 0 .. m BY <1>2
  <2> QED BY <2>1, <2>2, <2>3
<1>12. \A i \in 0 .. n : c[m + i] = a[m] \o b[i]
  <2> DEFINE G == {i \in 0 .. n : c[m + i] = a[m] \o b[i]}
  <2>1. 0 \in G
    <3>1. c[m] = a[m] /\ m + 0 = m /\ 0 \in 0 .. n BY <1>2, <1>10
    <3>2. a[m] \o << >> = a[m] BY <1>11, ConcatEmptySeq
    <3> QED BY <1>8, <3>1, <3>2
  <2>2. ASSUME NEW i \in 1 .. n, i - 1 \in G PROVE i \in G
    <3>1. m + i \in 1 .. m + n /\ (m + i) - 1 = m + (i - 1) /\ i \in 0 .. n /\ i - 1 \in 0 .. n BY <1>2
    <3>2. c[m + i] = c[m + (i - 1)] \o both[m + i]
      <4>1. c[m + i] = c[(m + i) - 1] \o both[m + i] BY <1>9, <3>1
      <4> QED BY <3>1, <4>1
    <3>3. c[m + (i - 1)] = a[m] \o b[i - 1] BY <2>2
    <3>4. both[m + i] = t[i] BY <1>2
    <3>5. c[m + i] = (a[m] \o b[i - 1]) \o t[i] BY <3>2, <3>3, <3>4
    <3>6. b[i] = b[i - 1] \o t[i] BY <1>8
    <3>7. b[i - 1] \in Seq(X) /\ t[i] \in Seq(X)
      <4>1. t[i] \in Seq(X) BY <1>6 DEF n
      <4> QED BY <1>11, <3>1, <4>1
    <3>8. (a[m] \o b[i - 1]) \o t[i] = a[m] \o (b[i - 1] \o t[i])
      <4>1. a[m] \in Seq(X) BY <1>11
      <4> QED BY <1>0, <3>7, <4>1
    <3> QED BY <3>1, <3>5, <3>6, <3>8
  <2> HIDE DEF G
  <2>3. \A i \in 0 .. n : i \in G BY <1>2, <2>1, <2>2, Counting
  <2> QED BY <2>3 DEF G
<1>13. n \in 0 .. n BY <1>2
<1>14. c[m + n] = a[m] \o b[n] /\ b[n] \in Seq(X) BY <1>11, <1>12, <1>13
<1> QED BY <1>7, <1>8, <1>9, <1>11, <1>14 DEF both

(* Empty texts join to an empty one, and nothing follows the last text     *)
(* that is not empty.                                                      *)
LEMMA FlattenEnds ==
  ASSUME NEW X, NEW s \in Seq(Seq(X)), NEW q \in 0 .. Len(s), \A i \in q + 1 .. Len(s) : s[i] = << >>
  PROVE  /\ q = 0 => FlattenSeq(s) = << >>
         /\ \A x \in X : q > 0 /\ s[q] = <<x>> => FlattenSeq(s) # << >> /\ Last(FlattenSeq(s)) = x
<1> DEFINE n == Len(s)
<1>1. n \in Nat /\ q \in Nat OBVIOUS
<1>2. PICK f \in [0 .. n -> Seq(X)] : Joins(f, s) BY Flattened
<1>3. /\ f[0] = << >> /\ \A i \in 1 .. n : f[i] = f[i - 1] \o s[i]
      /\ FlattenSeq(s) = f[n]
  BY <1>2 DEF Joins
<1>4. f[n] = f[q]
  <2> DEFINE G == {i \in 0 .. n : q <= i => f[i] = f[q]}
  <2>1. 0 \in G
    <3>1. q <= 0 => q = 0 BY <1>1
    <3> QED BY <1>1, <3>1
  <2>2. ASSUME NEW i \in 1 .. n, i - 1 \in G PROVE i \in G
    <3>1. i \in 0 .. n BY <1>1
    <3>2. CASE q <= i - 1
      <4>1. f[i - 1] = f[q] BY <2>2, <3>2
      <4>2. i \in q + 1 .. n BY <1>1, <3>2
      <4>3. f[i] = f[i - 1] \o << >> BY <1>3, <4>2
      <4>4. f[q] \in Seq(X) BY <1>2
      <4>5. f[q] \o << >> = f[q] BY <4>4, ConcatEmptySeq
      <4> QED BY <3>1, <4>1, <4>3, <4>5
    <3>3. CASE ~(q <= i - 1)
      <4>1. q <= i => q = i BY <1>1, <3>3
      <4> QED BY <3>1, <4>1
    <3> QED BY <3>2, <3>3
  <2> HIDE DEF G
  <2>3. \A i \in 0 .. n : i \in G BY <1>1, <2>1, <2>2, Counting
  <2>4. n \in G /\ q <= n BY <1>1, <2>3
  <2> QED BY <2>4 DEF G
<1>5. ASSUME NEW x \in X, q > 0, s[q] = <<x>> PROVE FlattenSeq(s) # << >> /\ Last(FlattenSeq(s)) = x
  <2>1. q \in 1 .. n /\ q - 1 \in 0 .. n BY <1>1, <1>5
  <2>2. f[q] = f[q - 1] \o <<x>> BY <1>3, <1>5, <2>1
  <2>3. f[q - 1] \in Seq(X) /\ <<x>> \in Seq(X) /\ Len(<<x>>) = 1 BY <1>2, <2>1
  <2>4. Both(f[q - 1], <<x>>) BY <2>3, Concatenated
  <2>5. Len(f[q]) = Len(f[q - 1]) + 1 /\ Len(f[q - 1]) \in Nat /\ f[q][Len(f[q - 1]) + 1] = x
    <3>1. 1 \in 1 .. Len(<<x>>) /\ <<x>>[1] = x BY <2>3
    <3> QED BY <2>2, <2>3, <2>4, <3>1 DEF Both
  <2>6. Len(f[q]) # 0 /\ Len(<< >>) = 0 BY <2>5, EmptySeq
  <2> QED BY <1>3, <1>4, <2>5, <2>6 DEF Last
<1> QED BY <1>3, <1>4, <1>5

(* Joined texts are not empty when the first is not.                       *)
LEMMA FlattenBegins ==
  ASSUME NEW X, NEW s \in Seq(Seq(X)), Len(s) > 0, s[1] # << >>
  PROVE  Len(FlattenSeq(s)) \in Nat /\ Len(FlattenSeq(s)) > 0
<1> DEFINE n == Len(s)
<1>1. n \in Nat /\ n > 0 /\ \A i \in 1 .. n : s[i] \in Seq(X) OBVIOUS
<1>2. PICK f \in [0 .. n -> Seq(X)] : Joins(f, s) BY Flattened
<1>3. /\ f[0] = << >> /\ \A i \in 1 .. n : f[i] = f[i - 1] \o s[i]
      /\ FlattenSeq(s) = f[n]
  BY <1>2 DEF Joins
<1> DEFINE G == {i \in 0 .. n : i > 0 => Len(f[i]) > 0}
<1>4. 0 \in G BY <1>1
<1>5. ASSUME NEW i \in 1 .. n, i - 1 \in G PROVE i \in G
  <2>1. i \in 0 .. n /\ i - 1 \in 0 .. n BY <1>1
  <2>2. f[i] = f[i - 1] \o s[i] BY <1>3
  <2>3. f[i - 1] \in Seq(X) /\ s[i] \in Seq(X) BY <1>1, <1>2, <2>1
  <2>4. Both(f[i - 1], s[i]) BY <2>3, Concatenated
  <2>5. Len(f[i]) = Len(f[i - 1]) + Len(s[i]) /\ Len(f[i - 1]) \in Nat /\ Len(s[i]) \in Nat
    BY <2>2, <2>4 DEF Both
  <2>8. Len(f[i - 1]) > 0 \/ Len(s[i]) > 0 => Len(f[i]) > 0
    <3> DEFINE x == Len(f[i - 1])
               y == Len(s[i])
    <3>1. x \in Nat /\ y \in Nat /\ Len(f[i]) = x + y BY <2>5
    <3> HIDE DEF x, y
    <3>2. x > 0 \/ y > 0 => Len(f[i]) > 0 BY <3>1
    <3> QED BY <3>2 DEF x, y
  <2>6. CASE i = 1
    <3>1. s[i] # << >> BY <2>6
    <3>2. Len(s[i]) > 0 BY <2>3, <3>1, EmptySeq
    <3> QED BY <2>1, <2>8, <3>2
  <2>7. CASE i # 1
    <3>1. i - 1 > 0 BY <2>7
    <3>2. Len(f[i - 1]) > 0 BY <1>5, <3>1
    <3> QED BY <2>1, <2>8, <3>2
  <2> QED BY <2>6, <2>7
<1> HIDE DEF G
<1>6. \A i \in 0 .. n : i \in G BY <1>1, <1>4, <1>5, Counting
<1>7. n \in 0 .. n BY <1>1
<1>8. Len(f[n]) > 0 BY <1>1, <1>6, <1>7 DEF G
<1>9. f[n] \in Seq(X) BY <1>2, <1>7
<1> QED BY <1>3, <1>8, <1>9, LenProperties

(* More text has more bytes.                                               *)
LEMMA MoreBytes ==
  ASSUME NEW X, NEW s \in Seq(X), NEW t \in Seq(X)
  PROVE  /\ ByteLen(s) \in Nat /\ ByteLen(s \o t) \in Nat
         /\ t = << >> => ByteLen(s \o t) = ByteLen(s)
         /\ t # << >> => ByteLen(s \o t) > ByteLen(s)
<1> DEFINE u(v) == [i \in DOMAIN v |-> Utf8(v[i])]
<1>1. ASSUME NEW v \in Seq(X) PROVE u(v) \in Seq(Seq(X)) /\ Len(u(v)) = Len(v)
  <2>1. \A i \in 1 .. Len(v) : Utf8(v[i]) \in Seq(X)
    <3> SUFFICES ASSUME NEW i \in 1 .. Len(v) PROVE Utf8(v[i]) \in Seq(X) OBVIOUS
    <3>1. v[i] \in X OBVIOUS
    <3> DEFINE k == IF v[i] = "?" THEN 3 ELSE IF v[i] = "e" THEN 2 ELSE 1
    <3>2. k \in Nat OBVIOUS
    <3> HIDE DEF k
    <3>3. [j \in 1 .. k |-> v[i]] \in Seq(X) BY <3>1, <3>2
    <3> QED BY <3>3 DEF Utf8, k
  <2>2. Len(v) \in Nat /\ DOMAIN v = 1 .. Len(v) OBVIOUS
  <2>3. u(v) = [i \in 1 .. Len(v) |-> Utf8(v[i])] BY <2>2
  <2> HIDE DEF u
  <2>4. u(v) \in [1 .. Len(v) -> Seq(X)] BY <2>1, <2>3
  <2> QED BY <2>2, <2>4
<1>2. \A v : ByteLen(v) = Len(FlattenSeq(u(v))) BY DEF ByteLen
<1>3. s \o t \in Seq(X) /\ Both(s, t) BY Concatenated
<1>4. u(s \o t) = u(s) \o u(t)
  <2>1. /\ Len(s \o t) = Len(s) + Len(t) /\ Len(s) \in Nat /\ Len(t) \in Nat
        /\ \A i \in 1 .. Len(s) : (s \o t)[i] = s[i]
        /\ \A i \in 1 .. Len(t) : (s \o t)[Len(s) + i] = t[i]
    BY <1>3 DEF Both
  <2>2. u(s) \in Seq(Seq(X)) /\ u(t) \in Seq(Seq(X)) /\ u(s \o t) \in Seq(Seq(X))
        /\ Len(u(s)) = Len(s) /\ Len(u(t)) = Len(t) /\ Len(u(s \o t)) = Len(s \o t)
    BY <1>1, <1>3
  <2>3. u(s) \o u(t) \in Seq(Seq(X)) /\ Both(u(s), u(t)) BY <2>2, Concatenated
  <2>4. /\ \A i \in 1 .. Len(s) : u(s)[i] = Utf8(s[i])
        /\ \A i \in 1 .. Len(t) : u(t)[i] = Utf8(t[i])
        /\ \A i \in 1 .. Len(s \o t) : u(s \o t)[i] = Utf8((s \o t)[i])
    BY <1>3
  <2> HIDE DEF u
  <2>5. ASSUME NEW i \in 1 .. Len(s) + Len(t) PROVE u(s \o t)[i] = (u(s) \o u(t))[i]
    <3>1. CASE i <= Len(s)
      <4>1. i \in 1 .. Len(s) /\ i \in 1 .. Len(s \o t) BY <2>1, <3>1
      <4>2. (u(s) \o u(t))[i] = u(s)[i] BY <2>2, <2>3, <4>1 DEF Both
      <4> QED BY <2>1, <2>4, <4>1, <4>2
    <3>2. CASE ~(i <= Len(s))
      <4> DEFINE j == i - Len(s)
      <4>1. j \in 1 .. Len(t) /\ i = Len(s) + j /\ i \in 1 .. Len(s \o t) BY <2>1, <3>2
      <4> HIDE DEF j
      <4>2. (u(s) \o u(t))[i] = u(t)[j] BY <2>2, <2>3, <4>1 DEF Both
      <4>3. (s \o t)[i] = t[j] BY <2>1, <4>1
      <4> QED BY <2>4, <4>1, <4>2, <4>3
    <3> QED BY <3>1, <3>2
  <2>6. Len(u(s \o t)) = Len(s) + Len(t) /\ Len(u(s) \o u(t)) = Len(s) + Len(t) BY <2>1, <2>2, <2>3 DEF Both
  <2> QED BY <2>2, <2>3, <2>5, <2>6, SeqEqual
<1>5. u(s) \in Seq(Seq(X)) /\ u(t) \in Seq(Seq(X)) /\ Len(u(t)) = Len(t) BY <1>1
<1>6. t # << >> => Len(u(t)) > 0 /\ u(t)[1] # << >>
  <2> SUFFICES ASSUME t # << >> PROVE Len(u(t)) > 0 /\ u(t)[1] # << >> OBVIOUS
  <2>1. Len(t) \in Nat \ {0} BY EmptySeq
  <2>2. u(t)[1] = Utf8(t[1]) BY <2>1
  <2>3. Utf8(t[1]) # << >>
    <3> DEFINE k == IF t[1] = "?" THEN 3 ELSE IF t[1] = "e" THEN 2 ELSE 1
    <3>1. k \in Nat /\ 1 \in 1 .. k OBVIOUS
    <3> HIDE DEF k
    <3>2. DOMAIN [i \in 1 .. k |-> t[1]] # {} BY <3>1
    <3>3. DOMAIN << >> = {} OBVIOUS
    <3>4. Utf8(t[1]) = [i \in 1 .. k |-> t[1]] BY DEF Utf8, k
    <3> QED BY <3>2, <3>3, <3>4
  <2> QED BY <1>5, <2>1, <2>2, <2>3
<1> HIDE DEF u
<1>7. /\ FlattenSeq(u(s) \o u(t)) = FlattenSeq(u(s)) \o FlattenSeq(u(t))
      /\ FlattenSeq(u(s)) \in Seq(X) /\ FlattenSeq(u(t)) \in Seq(X)
  BY <1>5, FlattenJoin
<1>8. Both(FlattenSeq(u(s)), FlattenSeq(u(t))) BY <1>7, Concatenated
<1>9. ByteLen(s \o t) = ByteLen(s) + ByteLen(t) /\ ByteLen(s) \in Nat /\ ByteLen(t) \in Nat
  BY <1>2, <1>4, <1>7, <1>8 DEF Both
<1>10. t # << >> => ByteLen(t) > 0 BY <1>2, <1>5, <1>6, FlattenBegins
<1>11. t = << >> => s \o t = s BY ConcatEmptySeq
<1> DEFINE x == ByteLen(s)
           y == ByteLen(t)
           z == ByteLen(s \o t)
<1>12. x \in Nat /\ y \in Nat /\ z = x + y /\ (t # << >> => y > 0) /\ (t = << >> => z = x) BY <1>9, <1>10, <1>11
<1> HIDE DEF x, y, z
<1>13. x \in Nat /\ z \in Nat /\ (t = << >> => z = x) /\ (t # << >> => z > x) BY <1>12
<1> QED BY <1>13 DEF x, z

(* What follows a text is what it was followed by.                         *)
LEMMA DiffIs ==
  ASSUME NEW X, NEW s \in Seq(X), NEW t \in Seq(X)
  PROVE  DiffSuffix(s, s \o t) = t
<1> DEFINE both == s \o t
           m == Len(s)
           fits(n) == /\ IsPrefix(SubSeq(s, 1, n), both)
                      /\ n < m => ~IsPrefix(SubSeq(s, 1, n + 1), both)
<1>1. both \in Seq(X) /\ Len(both) = m + Len(t) /\ m \in Nat /\ Len(t) \in Nat
      /\ (\A i \in 1 .. m : both[i] = s[i]) /\ (\A i \in 1 .. Len(t) : both[m + i] = t[i])
  BY Concatenated DEF Both
<1>2. ASSUME NEW n \in 0 .. m PROVE IsPrefix(SubSeq(s, 1, n), both)
  <2>1. SubSeq(s, 1, n) \in Seq(X) /\ Len(SubSeq(s, 1, n)) = n /\ \A i \in 1 .. n : SubSeq(s, 1, n)[i] = s[i]
    BY <1>1
  <2> DEFINE p == SubSeq(s, 1, n)
  <2>2. Len(p) <= Len(both) BY <1>1, <2>1
  <2>3. SubSeq(p, 1, n) = p BY <2>1
  <2>4. SubSeq(both, 1, n) = p
    <3>1. SubSeq(both, 1, n) \in Seq(X) /\ Len(SubSeq(both, 1, n)) = n /\ \A i \in 1 .. n : SubSeq(both, 1, n)[i] = both[i]
      BY <1>1
    <3>2. \A i \in 1 .. n : SubSeq(both, 1, n)[i] = p[i] BY <1>1, <2>1, <3>1
    <3> HIDE DEF p
    <3> DEFINE r == SubSeq(both, 1, n)
    <3>3. r \in Seq(X) /\ Len(r) = n /\ \A i \in 1 .. n : r[i] = p[i] BY <3>1, <3>2
    <3>4. p \in Seq(X) /\ Len(p) = n BY <2>1 DEF p
    <3> HIDE DEF r
    <3>5. r = p BY <3>3, <3>4, SeqEqual
    <3> QED BY <3>5 DEF r
  <2> HIDE DEF p
  <2>5. Len(p) = n BY <2>1 DEF p
  <2> QED BY <2>2, <2>3, <2>4, <2>5 DEF IsPrefix, p
<1>3. Common(s, both) = CHOOSE n \in 0 .. m : fits(n) BY DEF Common
<1> HIDE DEF both
<1>4. m \in 0 .. m /\ fits(m) BY <1>1, <1>2
<1>5. \A n \in 0 .. m : fits(n) => n = m
  <2> SUFFICES ASSUME NEW n \in 0 .. m, fits(n), n # m PROVE FALSE OBVIOUS
  <2>1. n < m /\ n + 1 \in 0 .. m BY <1>1
  <2> QED BY <1>2, <2>1
<1> HIDE DEF fits
<1>6. Common(s, both) = m BY <1>3, <1>4, <1>5
<1>7. SubSeq(both, m + 1, Len(both)) = t
  <2> DEFINE r == SubSeq(both, m + 1, Len(both))
  <2>1. r \in Seq(X) /\ Len(r) = Len(t) /\ \A i \in 1 .. Len(t) : r[i] = both[m + i] BY <1>1
  <2> HIDE DEF r
  <2>2. r = t BY <1>1, <2>1, SeqEqual
  <2> QED BY <2>2 DEF r
<1> QED BY <1>6, <1>7 DEF DiffSuffix, both

(* The text of tokens behind others, of which x says whether any is shown. *)
Letters == {"w", " ", "e", "?"}
Priors(ids, i) == {j \in Visible(ids) : j < i}
Laters(ids, i) == {j \in Visible(ids) : i < j}
TextFrom(ids, i, x) == IF x /\ ids[i] = "word" THEN <<" ", "w">> ELSE TextAt(ids, i)
Texts(ids, x) == [i \in DOMAIN ids |-> TextFrom(ids, i, x)]
From(ids, x) == FlattenSeq(Texts(ids, x))

(* Tokens after which no byte of a character is waited for.                *)
Shows(ids) == Visible(ids) # {}
Whole(ids) == Shows(ids) => ids[Max(Visible(ids))] # "b1"

(* What each kind of token shows.                                          *)
LEMMA TextIs ==
  ASSUME NEW ids \in Seq(Kinds), NEW i \in 1 .. Len(ids)
  PROVE  /\ ids[i] \in Kinds
         /\ ids[i] = "special" => TextAt(ids, i) = << >>
         /\ ids[i] = "word" => TextAt(ids, i) = IF Priors(ids, i) = {} THEN <<"w">> ELSE <<" ", "w">>
         /\ ids[i] = "b1" =>
              TextAt(ids, i) = IF Laters(ids, i) # {} /\ ids[Min(Laters(ids, i))] = "b2" THEN <<"e">> ELSE <<"?">>
         /\ ids[i] = "b2" =>
              TextAt(ids, i) = IF Priors(ids, i) # {} /\ ids[Max(Priors(ids, i))] = "b1" THEN << >> ELSE <<"?">>
         /\ TextAt(ids, i) \in Seq(Letters)
<1>1. ids[i] \in Kinds OBVIOUS
<1>2. ids[i] = "special" => TextAt(ids, i) = << >> BY DEF TextAt
<1>3. ids[i] = "word" => TextAt(ids, i) = IF Priors(ids, i) = {} THEN <<"w">> ELSE <<" ", "w">>
  BY DEF TextAt, Priors
<1>4. ids[i] = "b1" =>
        TextAt(ids, i) = IF Laters(ids, i) # {} /\ ids[Min(Laters(ids, i))] = "b2" THEN <<"e">> ELSE <<"?">>
  BY DEF TextAt, Laters
<1>5. ids[i] = "b2" =>
        TextAt(ids, i) = IF Priors(ids, i) # {} /\ ids[Max(Priors(ids, i))] = "b1" THEN << >> ELSE <<"?">>
  BY DEF TextAt, Priors
<1>6. << >> \in Seq(Letters) /\ <<"w">> \in Seq(Letters) /\ <<" ", "w">> \in Seq(Letters)
      /\ <<"e">> \in Seq(Letters) /\ <<"?">> \in Seq(Letters)
  BY DEF Letters
<1>7. ids[i] \in {"word", "b1", "b2", "special"} BY <1>1 DEF Kinds
<1>8. TextAt(ids, i) \in Seq(Letters) BY <1>2, <1>3, <1>4, <1>5, <1>6, <1>7
<1> QED BY <1>1, <1>2, <1>3, <1>4, <1>5, <1>8

(* Each token gives a text, and all of them give one.                      *)
LEMMA TextsAre ==
  ASSUME NEW ids \in Seq(Kinds), NEW x \in BOOLEAN
  PROVE  Texts(ids, x) \in Seq(Seq(Letters)) /\ Len(Texts(ids, x)) = Len(ids)
         /\ (\A i \in 1 .. Len(ids) : Texts(ids, x)[i] = TextFrom(ids, i, x))
         /\ From(ids, x) \in Seq(Letters)
<1>1. Len(ids) \in Nat /\ DOMAIN ids = 1 .. Len(ids) OBVIOUS
<1>2. \A i \in 1 .. Len(ids) : TextFrom(ids, i, x) \in Seq(Letters)
  <2>1. <<" ", "w">> \in Seq(Letters) BY DEF Letters
  <2> QED BY <2>1, TextIs DEF TextFrom
<1>3. Texts(ids, x) \in [1 .. Len(ids) -> Seq(Letters)] BY <1>1, <1>2 DEF Texts
<1>4. \A i \in 1 .. Len(ids) : Texts(ids, x)[i] = TextFrom(ids, i, x) BY <1>1 DEF Texts
<1>5. Texts(ids, x) \in Seq(Seq(Letters)) /\ Len(Texts(ids, x)) = Len(ids) BY <1>1, <1>3
<1>6. From(ids, x) \in Seq(Letters) BY <1>5, FlattenJoin DEF From
<1> QED BY <1>4, <1>5, <1>6

(* The greatest and the least are unique.                                  *)
LEMMA Extremes ==
  ASSUME NEW n \in Nat, NEW S \in SUBSET (1 .. n), NEW k \in S
  PROVE  /\ Min(S) \in S /\ Max(S) \in S
         /\ \A i \in S : Min(S) <= i /\ i <= Max(S)
         /\ (\A i \in S : k <= i) => Min(S) = k
         /\ (\A i \in S : i <= k) => Max(S) = k
<1>1. S \in SUBSET Nat /\ S \in SUBSET (0 .. n) /\ S # {} OBVIOUS
<1>2. Min(S) \in S /\ \A i \in S : Min(S) <= i BY <1>1, MinIs
<1>3. Max(S) \in S /\ \A i \in S : i <= Max(S) BY <1>1, MaxIs
<1> DEFINE lo == Min(S)
           hi == Max(S)
<1>4. lo \in S /\ hi \in S /\ \A i \in S : lo <= i /\ i <= hi BY <1>2, <1>3
<1> HIDE DEF lo, hi
<1>5. (\A i \in S : k <= i) => lo = k
  <2>1. lo \in Nat /\ k \in Nat BY <1>1, <1>4
  <2> QED BY <1>4, <2>1
<1>6. (\A i \in S : i <= k) => hi = k
  <2>1. hi \in Nat /\ k \in Nat BY <1>1, <1>4
  <2> QED BY <1>4, <2>1
<1> QED BY <1>4, <1>5, <1>6 DEF lo, hi

(* What is shown of joined tokens.                                         *)
LEMMA VisibleJoined ==
  ASSUME NEW a \in Seq(Kinds), NEW b \in Seq(Kinds)
  PROVE  /\ a \o b \in Seq(Kinds) /\ Both(a, b)
         /\ Visible(a) \in SUBSET (1 .. Len(a)) /\ Visible(b) \in SUBSET (1 .. Len(b))
         /\ Visible(a \o b) \in SUBSET (1 .. Len(a) + Len(b))
         /\ \A i \in 1 .. Len(a) : i \in Visible(a \o b) <=> i \in Visible(a)
         /\ \A i \in 1 .. Len(b) : Len(a) + i \in Visible(a \o b) <=> i \in Visible(b)
<1>1. a \o b \in Seq(Kinds) /\ Both(a, b) BY Concatenated
<1>2. /\ Len(a \o b) = Len(a) + Len(b) /\ Len(a) \in Nat /\ Len(b) \in Nat
      /\ \A i \in 1 .. Len(a) : (a \o b)[i] = a[i]
      /\ \A i \in 1 .. Len(b) : (a \o b)[Len(a) + i] = b[i]
  BY <1>1 DEF Both
<1> DEFINE c == a \o b
<1>3. c \in Seq(Kinds) BY <1>1
<1>4. DOMAIN a = 1 .. Len(a) /\ DOMAIN b = 1 .. Len(b) OBVIOUS
<1>5. Len(c) = Len(a) + Len(b) BY <1>2
<1> HIDE DEF c
<1>6. DOMAIN c = 1 .. Len(a) + Len(b) BY <1>3, <1>5
<1>7. /\ Visible(a) \in SUBSET (1 .. Len(a)) /\ Visible(b) \in SUBSET (1 .. Len(b))
      /\ Visible(c) \in SUBSET (1 .. Len(a) + Len(b))
  BY <1>4, <1>6 DEF Visible
<1>8. ASSUME NEW i \in 1 .. Len(a) PROVE i \in Visible(c) <=> i \in Visible(a)
  <2>1. i \in DOMAIN c /\ i \in DOMAIN a /\ c[i] = a[i] BY <1>2, <1>4, <1>6 DEF c
  <2> QED BY <2>1 DEF Visible
<1>9. ASSUME NEW i \in 1 .. Len(b) PROVE Len(a) + i \in Visible(c) <=> i \in Visible(b)
  <2>1. Len(a) + i \in DOMAIN c /\ i \in DOMAIN b BY <1>2, <1>4, <1>6
  <2>2. c[Len(a) + i] = b[i] BY <1>2 DEF c
  <2> QED BY <2>1, <2>2 DEF Visible
<1> QED BY <1>1, <1>7, <1>8, <1>9 DEF c

(* What stands before others keeps its text, when no byte is waited for.   *)
LEMMA TextBefore ==
  ASSUME NEW a \in Seq(Kinds), NEW b \in Seq(Kinds), Whole(a), NEW i \in 1 .. Len(a)
  PROVE  TextAt(a \o b, i) = TextAt(a, i)
<1> DEFINE c == a \o b
           m == Len(a)
<1>1. /\ c \in Seq(Kinds) /\ Both(a, b)
      /\ Visible(a) \in SUBSET (1 .. m) /\ Visible(c) \in SUBSET (1 .. m + Len(b))
      /\ \A j \in 1 .. m : j \in Visible(c) <=> j \in Visible(a)
  BY VisibleJoined
<1>2. m \in Nat /\ Len(b) \in Nat /\ Len(c) = m + Len(b) /\ \A j \in 1 .. m : c[j] = a[j] BY <1>1 DEF Both
<1> HIDE DEF c, m
<1>3. i \in 1 .. m /\ i \in 1 .. Len(c) /\ i \in Nat /\ c[i] = a[i] BY <1>2 DEF m
<1>4. Priors(c, i) = Priors(a, i)
  <2>1. \A j \in Nat : j < i /\ j > 0 => (j \in Visible(c) <=> j \in Visible(a)) BY <1>1, <1>2, <1>3
  <2>2. \A j \in Visible(c) : j \in Nat /\ j > 0 BY <1>1
  <2>3. \A j \in Visible(a) : j \in Nat /\ j > 0 BY <1>1
  <2> QED BY <2>1, <2>2, <2>3 DEF Priors
<1>5. Priors(a, i) # {} => a[Max(Priors(a, i))] = c[Max(Priors(a, i))]
  <2> SUFFICES ASSUME Priors(a, i) # {} PROVE a[Max(Priors(a, i))] = c[Max(Priors(a, i))] OBVIOUS
  <2>1. Priors(a, i) \in SUBSET (1 .. m) BY <1>1 DEF Priors
  <2>2. Max(Priors(a, i)) \in Priors(a, i) BY <1>2, <2>1, Extremes
  <2> QED BY <1>2, <2>1, <2>2
<1>6. a[i] = "b1" => /\ Laters(a, i) # {} /\ Laters(c, i) # {}
                     /\ Min(Laters(c, i)) = Min(Laters(a, i))
                     /\ c[Min(Laters(a, i))] = a[Min(Laters(a, i))]
  <2> SUFFICES ASSUME a[i] = "b1"
               PROVE  /\ Laters(a, i) # {} /\ Laters(c, i) # {}
                      /\ Min(Laters(c, i)) = Min(Laters(a, i))
                      /\ c[Min(Laters(a, i))] = a[Min(Laters(a, i))]
    OBVIOUS
  <2>1. i \in Visible(a)
    <3>1. i \in DOMAIN a BY DEF m
    <3> QED BY <3>1 DEF Visible
  <2>2. Laters(a, i) # {}
    <3> SUFFICES ASSUME Laters(a, i) = {} PROVE FALSE OBVIOUS
    <3>1. \A j \in Visible(a) : j <= i
      <4>1. \A j \in Visible(a) : ~(i < j) /\ j \in Nat BY <1>1 DEF Laters
      <4> QED BY <1>3, <4>1
    <3>2. Max(Visible(a)) = i BY <1>1, <1>2, <2>1, <3>1, Extremes
    <3> QED BY <2>1, <3>2 DEF Whole, Shows
  <2>3. Laters(a, i) \in SUBSET (1 .. m) /\ Laters(c, i) \in SUBSET (1 .. m + Len(b)) BY <1>1 DEF Laters
  <2> DEFINE k == Min(Laters(a, i))
  <2>4. k \in Laters(a, i) /\ \A j \in Laters(a, i) : k <= j BY <1>2, <2>2, <2>3, Extremes
  <2> HIDE DEF k
  <2>5. k \in 1 .. m /\ k \in Laters(c, i) BY <1>1, <2>3, <2>4 DEF Laters
  <2>6. \A j \in Laters(c, i) : k <= j
    <3> SUFFICES ASSUME NEW j \in Laters(c, i), ~(k <= j) PROVE FALSE OBVIOUS
    <3>1. j \in 1 .. m /\ i < j /\ j \in Visible(c) BY <1>2, <2>3, <2>5 DEF Laters
    <3>2. j \in Laters(a, i) BY <1>1, <3>1 DEF Laters
    <3> QED BY <2>4, <3>2
  <2>7. m + Len(b) \in Nat BY <1>2
  <2>8. Min(Laters(c, i)) = k BY <2>3, <2>5, <2>6, <2>7, Extremes
  <2>9. c[k] = a[k] BY <1>2, <2>5
  <2> QED BY <2>2, <2>5, <2>8, <2>9 DEF k
<1>7. /\ a[i] \in Kinds
      /\ a[i] = "special" => TextAt(a, i) = << >>
      /\ a[i] = "word" => TextAt(a, i) = IF Priors(a, i) = {} THEN <<"w">> ELSE <<" ", "w">>
      /\ a[i] = "b1" =>
           TextAt(a, i) = IF Laters(a, i) # {} /\ a[Min(Laters(a, i))] = "b2" THEN <<"e">> ELSE <<"?">>
      /\ a[i] = "b2" =>
           TextAt(a, i) = IF Priors(a, i) # {} /\ a[Max(Priors(a, i))] = "b1" THEN << >> ELSE <<"?">>
  BY TextIs
<1>8. /\ c[i] = "special" => TextAt(c, i) = << >>
      /\ c[i] = "word" => TextAt(c, i) = IF Priors(c, i) = {} THEN <<"w">> ELSE <<" ", "w">>
      /\ c[i] = "b1" =>
           TextAt(c, i) = IF Laters(c, i) # {} /\ c[Min(Laters(c, i))] = "b2" THEN <<"e">> ELSE <<"?">>
      /\ c[i] = "b2" =>
           TextAt(c, i) = IF Priors(c, i) # {} /\ c[Max(Priors(c, i))] = "b1" THEN << >> ELSE <<"?">>
  BY <1>1, <1>3, TextIs
<1>9. a[i] \in {"word", "b1", "b2", "special"} BY <1>7 DEF Kinds
<1>10. TextAt(c, i) = TextAt(a, i)
  <2>1. CASE a[i] = "special" BY <1>3, <1>7, <1>8, <2>1
  <2>2. CASE a[i] = "word"
    <3>1. TextAt(a, i) = IF Priors(a, i) = {} THEN <<"w">> ELSE <<" ", "w">> BY <1>7, <2>2
    <3>2. TextAt(c, i) = IF Priors(c, i) = {} THEN <<"w">> ELSE <<" ", "w">> BY <1>3, <1>8, <2>2
    <3>3. Priors(a, i) = {} <=> Priors(c, i) = {} BY <1>4
    <3>4. CASE Priors(a, i) = {} BY <3>1, <3>2, <3>3, <3>4
    <3>5. CASE Priors(a, i) # {} BY <3>1, <3>2, <3>3, <3>5
    <3> QED BY <3>4, <3>5
  <2>3. CASE a[i] = "b1"
    <3> DEFINE k == Min(Laters(a, i))
    <3>1. Laters(a, i) # {} /\ Laters(c, i) # {} /\ Min(Laters(c, i)) = k /\ c[k] = a[k] BY <1>6, <2>3
    <3>2. TextAt(a, i) = IF a[k] = "b2" THEN <<"e">> ELSE <<"?">> BY <1>7, <2>3, <3>1
    <3>3. TextAt(c, i) = IF c[Min(Laters(c, i))] = "b2" THEN <<"e">> ELSE <<"?">> BY <1>3, <1>8, <2>3, <3>1
    <3> HIDE DEF k
    <3>4. TextAt(c, i) = IF c[k] = "b2" THEN <<"e">> ELSE <<"?">> BY <3>1, <3>3
    <3> QED BY <3>1, <3>2, <3>4
  <2>4. CASE a[i] = "b2" BY <1>3, <1>4, <1>5, <1>7, <1>8, <2>4
  <2> QED BY <1>9, <2>1, <2>2, <2>3, <2>4
<1> QED BY <1>10 DEF c

(* What stands behind others has the text it has behind any.               *)
LEMMA TextBehind ==
  ASSUME NEW a \in Seq(Kinds), NEW b \in Seq(Kinds), Whole(a), NEW x \in BOOLEAN, NEW i \in 1 .. Len(b)
  PROVE  TextFrom(a \o b, Len(a) + i, x) = TextFrom(b, i, x \/ Shows(a))
<1> DEFINE c == a \o b
           m == Len(a)
           k == m + i
<1>1. /\ c \in Seq(Kinds) /\ Both(a, b)
      /\ Visible(a) \in SUBSET (1 .. m) /\ Visible(b) \in SUBSET (1 .. Len(b))
      /\ Visible(c) \in SUBSET (1 .. m + Len(b))
      /\ \A j \in 1 .. m : j \in Visible(c) <=> j \in Visible(a)
      /\ \A j \in 1 .. Len(b) : m + j \in Visible(c) <=> j \in Visible(b)
  BY VisibleJoined
<1>2. /\ m \in Nat /\ Len(b) \in Nat /\ Len(c) = m + Len(b)
      /\ \A j \in 1 .. m : c[j] = a[j]
      /\ \A j \in 1 .. Len(b) : c[m + j] = b[j]
  BY <1>1 DEF Both
<1> HIDE DEF c, m
<1>3. k \in 1 .. Len(c) /\ i \in Nat /\ k \in Nat /\ c[k] = b[i] BY <1>2
<1>4. \A j \in Visible(c) : j \in 1 .. m \/ j - m \in 1 .. Len(b) BY <1>1, <1>2
<1>5. /\ \A j \in Priors(b, i) : m + j \in Priors(c, k)
      /\ \A j \in Visible(a) : j \in Priors(c, k)
      /\ \A j \in Priors(c, k) : j \in Visible(a) \/ (j - m \in Priors(b, i) /\ j = m + (j - m))
  <2>1. ASSUME NEW j \in Priors(b, i) PROVE m + j \in Priors(c, k)
    <3>1. j \in 1 .. Len(b) /\ j < i /\ j \in Visible(b) BY <1>1 DEF Priors
    <3>2. m + j < k BY <1>2, <1>3, <3>1
    <3> QED BY <1>1, <3>1, <3>2 DEF Priors
  <2>2. ASSUME NEW j \in Visible(a) PROVE j \in Priors(c, k)
    <3>1. j \in 1 .. m /\ j < k BY <1>1, <1>2, <1>3
    <3> QED BY <1>1, <3>1 DEF Priors
  <2>3. ASSUME NEW j \in Priors(c, k) PROVE j \in Visible(a) \/ (j - m \in Priors(b, i) /\ j = m + (j - m))
    <3>1. j \in Visible(c) /\ j < k BY DEF Priors
    <3>2. CASE j \in 1 .. m BY <1>1, <3>1, <3>2
    <3>3. CASE j - m \in 1 .. Len(b)
      <4>1. j \in 1 .. m + Len(b) BY <1>1, <3>1
      <4>2. j = m + (j - m) /\ j - m < i BY <1>2, <1>3, <3>1, <4>1
      <4>3. m + (j - m) \in Visible(c) BY <3>1, <4>2
      <4> QED BY <1>1, <3>3, <4>2, <4>3 DEF Priors
    <3> QED BY <1>4, <3>1, <3>2, <3>3
  <2> QED BY <2>1, <2>2, <2>3
<1>6. /\ \A j \in Laters(b, i) : m + j \in Laters(c, k)
      /\ \A j \in Laters(c, k) : j - m \in Laters(b, i) /\ j = m + (j - m)
  <2>1. ASSUME NEW j \in Laters(b, i) PROVE m + j \in Laters(c, k)
    <3>1. j \in 1 .. Len(b) /\ i < j /\ j \in Visible(b) BY <1>1 DEF Laters
    <3>2. k < m + j BY <1>2, <1>3, <3>1
    <3> QED BY <1>1, <3>1, <3>2 DEF Laters
  <2>2. ASSUME NEW j \in Laters(c, k) PROVE j - m \in Laters(b, i) /\ j = m + (j - m)
    <3>1. j \in Visible(c) /\ k < j BY DEF Laters
    <3>2. j \in 1 .. m + Len(b) BY <1>1, <3>1
    <3>3. j - m \in 1 .. Len(b) /\ j = m + (j - m) /\ i < j - m BY <1>2, <1>3, <3>1, <3>2
    <3>4. m + (j - m) \in Visible(c) BY <3>1, <3>3
    <3> QED BY <1>1, <3>3, <3>4 DEF Laters
  <2> QED BY <2>1, <2>2
<1>7. /\ Priors(b, i) \in SUBSET (1 .. Len(b)) /\ Laters(b, i) \in SUBSET (1 .. Len(b))
      /\ Priors(c, k) \in SUBSET (1 .. m + Len(b)) /\ Laters(c, k) \in SUBSET (1 .. m + Len(b))
      /\ m + Len(b) \in Nat
  BY <1>1, <1>2 DEF Priors, Laters
<1> HIDE DEF k
<1>8. /\ b[i] \in Kinds
      /\ b[i] = "special" => TextAt(b, i) = << >>
      /\ b[i] = "word" => TextAt(b, i) = IF Priors(b, i) = {} THEN <<"w">> ELSE <<" ", "w">>
      /\ b[i] = "b1" =>
           TextAt(b, i) = IF Laters(b, i) # {} /\ b[Min(Laters(b, i))] = "b2" THEN <<"e">> ELSE <<"?">>
      /\ b[i] = "b2" =>
           TextAt(b, i) = IF Priors(b, i) # {} /\ b[Max(Priors(b, i))] = "b1" THEN << >> ELSE <<"?">>
  BY TextIs
<1>9. /\ c[k] = "special" => TextAt(c, k) = << >>
      /\ c[k] = "word" => TextAt(c, k) = IF Priors(c, k) = {} THEN <<"w">> ELSE <<" ", "w">>
      /\ c[k] = "b1" =>
           TextAt(c, k) = IF Laters(c, k) # {} /\ c[Min(Laters(c, k))] = "b2" THEN <<"e">> ELSE <<"?">>
      /\ c[k] = "b2" =>
           TextAt(c, k) = IF Priors(c, k) # {} /\ c[Max(Priors(c, k))] = "b1" THEN << >> ELSE <<"?">>
  BY <1>1, <1>3, TextIs
<1>10. b[i] \in {"word", "b1", "b2", "special"} BY <1>8 DEF Kinds
<1>11. CASE b[i] = "special"
  <2>1. TextAt(b, i) = << >> /\ TextAt(c, k) = << >> BY <1>3, <1>8, <1>9, <1>11
  <2> QED BY <1>3, <1>11, <2>1 DEF TextFrom, c, k, m
<1>12. CASE b[i] = "word"
  <2>1. Priors(c, k) = {} <=> ~Shows(a) /\ Priors(b, i) = {} BY <1>5 DEF Shows
  <2>2. TextAt(c, k) = IF Priors(c, k) = {} THEN <<"w">> ELSE <<" ", "w">> BY <1>3, <1>9, <1>12
  <2>3. TextAt(b, i) = IF Priors(b, i) = {} THEN <<"w">> ELSE <<" ", "w">> BY <1>8, <1>12
  <2>4. TextFrom(c, k, x) = TextFrom(b, i, x \/ Shows(a)) BY <1>3, <1>12, <2>1, <2>2, <2>3 DEF TextFrom
  <2> QED BY <2>4 DEF c, k, m
<1>13. CASE b[i] = "b1"
  <2>1. TextAt(c, k) = TextAt(b, i)
    <3>1. CASE Laters(b, i) = {}
      <4>1. Laters(c, k) = {} BY <1>6, <3>1
      <4> QED BY <1>3, <1>8, <1>9, <1>13, <3>1, <4>1
    <3>2. CASE Laters(b, i) # {}
      <4> DEFINE n == Min(Laters(b, i))
      <4>1. n \in Laters(b, i) /\ \A j \in Laters(b, i) : n <= j BY <1>2, <1>7, <3>2, Extremes
      <4> HIDE DEF n
      <4>2. m + n \in Laters(c, k) BY <1>6, <4>1
      <4>3. \A j \in Laters(c, k) : m + n <= j
        <5> SUFFICES ASSUME NEW j \in Laters(c, k) PROVE m + n <= j OBVIOUS
        <5>1. j - m \in Laters(b, i) /\ j = m + (j - m) BY <1>6
        <5>2. n <= j - m BY <4>1, <5>1
        <5>3. j \in Nat /\ n \in Nat BY <1>7, <4>1
        <5> QED BY <1>2, <5>2, <5>3
      <4>4. Min(Laters(c, k)) = m + n BY <1>7, <4>2, <4>3, Extremes
      <4>5. c[m + n] = b[n] BY <1>2, <1>7, <4>1
      <4>6. Laters(c, k) # {} BY <4>2
      <4> QED BY <1>3, <1>8, <1>9, <1>13, <3>2, <4>4, <4>5, <4>6 DEF n
    <3> QED BY <3>1, <3>2
  <2> QED BY <1>3, <1>13, <2>1 DEF TextFrom, c, k, m
<1>14. CASE b[i] = "b2"
  <2>1. TextAt(c, k) = TextAt(b, i)
    <3>1. CASE Priors(b, i) # {}
      <4> DEFINE n == Max(Priors(b, i))
      <4>1. n \in Priors(b, i) /\ \A j \in Priors(b, i) : j <= n BY <1>2, <1>7, <3>1, Extremes
      <4> HIDE DEF n
      <4>2. m + n \in Priors(c, k) BY <1>5, <4>1
      <4>3. \A j \in Priors(c, k) : j <= m + n
        <5> SUFFICES ASSUME NEW j \in Priors(c, k) PROVE j <= m + n OBVIOUS
        <5>1. j \in Nat /\ n \in Nat BY <1>7, <4>1
        <5>2. CASE j \in Visible(a)
          <6>1. j <= m BY <1>1, <5>2
          <6> QED BY <1>2, <5>1, <6>1
        <5>3. CASE j - m \in Priors(b, i) /\ j = m + (j - m)
          <6>1. j - m <= n BY <4>1, <5>3
          <6> QED BY <1>2, <5>1, <6>1
        <5> QED BY <1>5, <5>2, <5>3
      <4>4. Max(Priors(c, k)) = m + n BY <1>7, <4>2, <4>3, Extremes
      <4>5. c[m + n] = b[n] BY <1>2, <1>7, <4>1
      <4>6. Priors(c, k) # {} BY <4>2
      <4> QED BY <1>3, <1>8, <1>9, <1>14, <3>1, <4>4, <4>5, <4>6 DEF n
    <3>2. CASE Priors(b, i) = {} /\ ~Shows(a)
      <4>1. Priors(c, k) = {} BY <1>5, <3>2 DEF Shows
      <4> QED BY <1>3, <1>8, <1>9, <1>14, <3>2, <4>1
    <3>3. CASE Priors(b, i) = {} /\ Shows(a)
      <4>1. Priors(c, k) = Visible(a) BY <1>5, <3>3
      <4>2. Max(Visible(a)) \in Visible(a) BY <1>1, <1>2, <3>3, Extremes DEF Shows
      <4>3. c[Max(Visible(a))] = a[Max(Visible(a))] BY <1>1, <1>2, <4>2
      <4>4. a[Max(Visible(a))] # "b1" BY <3>3 DEF Whole
      <4> QED BY <1>3, <1>8, <1>9, <1>14, <3>3, <4>1, <4>3, <4>4
    <3> QED BY <3>1, <3>2, <3>3
  <2> QED BY <1>3, <1>14, <2>1 DEF TextFrom, c, k, m
<1> QED BY <1>10, <1>11, <1>12, <1>13, <1>14

(* Text splits where no byte is waited for.                                *)
LEMMA FromSplits ==
  ASSUME NEW a \in Seq(Kinds), NEW b \in Seq(Kinds), Whole(a), NEW x \in BOOLEAN
  PROVE  From(a \o b, x) = From(a, x) \o From(b, x \/ Shows(a))
<1> DEFINE c == a \o b
           y == x \/ Shows(a)
           m == Len(a)
           n == Len(b)
<1>1. c \in Seq(Kinds) /\ Both(a, b) BY Concatenated
<1>2. m \in Nat /\ n \in Nat /\ Len(c) = m + n /\ (\A j \in 1 .. m : c[j] = a[j]) BY <1>1 DEF Both
<1>0. y \in BOOLEAN OBVIOUS
<1>3. /\ Texts(a, x) \in Seq(Seq(Letters)) /\ Len(Texts(a, x)) = m
      /\ \A i \in 1 .. m : Texts(a, x)[i] = TextFrom(a, i, x)
  BY TextsAre
<1>4. /\ Texts(b, y) \in Seq(Seq(Letters)) /\ Len(Texts(b, y)) = n
      /\ \A i \in 1 .. n : Texts(b, y)[i] = TextFrom(b, i, y)
  BY <1>0, TextsAre
<1> HIDE DEF c
<1>5. /\ Texts(c, x) \in Seq(Seq(Letters)) /\ Len(Texts(c, x)) = m + n
      /\ \A i \in 1 .. m + n : Texts(c, x)[i] = TextFrom(c, i, x)
  BY <1>1, <1>2, TextsAre
<1> HIDE DEF y
<1> DEFINE s == Texts(a, x)
           t == Texts(b, y)
           u == Texts(c, x)
<1>6. s \o t \in Seq(Seq(Letters)) /\ Both(s, t) BY <1>3, <1>4, Concatenated
<1>7. /\ Len(s \o t) = m + n
      /\ \A i \in 1 .. m : (s \o t)[i] = s[i]
      /\ \A i \in 1 .. n : (s \o t)[m + i] = t[i]
  BY <1>3, <1>4, <1>6 DEF Both
<1>8. \A i \in 1 .. m : u[i] = s[i]
  <2> SUFFICES ASSUME NEW i \in 1 .. m PROVE u[i] = s[i] OBVIOUS
  <2>1. i \in 1 .. m + n BY <1>2
  <2>2. TextAt(c, i) = TextAt(a, i) BY TextBefore DEF c
  <2>3. TextFrom(c, i, x) = TextFrom(a, i, x) BY <1>2, <2>2 DEF TextFrom
  <2> QED BY <1>3, <1>5, <2>1, <2>3
<1>9. \A i \in 1 .. n : u[m + i] = t[i]
  <2> SUFFICES ASSUME NEW i \in 1 .. n PROVE u[m + i] = t[i] OBVIOUS
  <2>1. m + i \in 1 .. m + n BY <1>2
  <2>2. TextFrom(c, m + i, x) = TextFrom(b, i, y) BY TextBehind DEF c, y
  <2> QED BY <1>4, <1>5, <2>1, <2>2
<1> HIDE DEF s, t, u, m, n
<1>10. u = s \o t
  <2>1. ASSUME NEW i \in 1 .. m + n PROVE u[i] = (s \o t)[i]
    <3>1. CASE i <= m
      <4>1. i \in 1 .. m BY <1>2, <3>1
      <4> QED BY <1>7, <1>8, <4>1
    <3>2. CASE ~(i <= m)
      <4> DEFINE j == i - m
      <4>1. j \in 1 .. n /\ i = m + j BY <1>2, <3>2
      <4> HIDE DEF j
      <4> QED BY <1>7, <1>9, <4>1
    <3> QED BY <3>1, <3>2
  <2>2. u \in Seq(Seq(Letters)) /\ Len(u) = m + n BY <1>5 DEF u
  <2> QED BY <1>6, <1>7, <2>1, <2>2, SeqEqual
<1>11. s \in Seq(Seq(Letters)) /\ t \in Seq(Seq(Letters)) BY <1>3, <1>4 DEF s, t
<1>12. FlattenSeq(u) = FlattenSeq(s) \o FlattenSeq(t) BY <1>10, <1>11, FlattenJoin
<1> QED BY <1>12 DEF From, c, s, t, u, y

(* Tokens are shown by their texts, and only those.                        *)
LEMMA Hidden ==
  ASSUME NEW a \in Seq(Kinds), NEW x \in BOOLEAN
  PROVE  /\ From(a, x) # << >> => Shows(a)
         /\ ~Whole(a) => From(a, x) # << >> /\ Last(From(a, x)) = "?"
<1> DEFINE s == Texts(a, x)
           n == Len(a)
<1>1. /\ s \in Seq(Seq(Letters)) /\ Len(s) = n
      /\ \A i \in 1 .. n : s[i] = TextFrom(a, i, x)
  BY TextsAre
<1>2. n \in Nat /\ DOMAIN a = 1 .. n OBVIOUS
<1>3. \A i \in 1 .. n : i \notin Visible(a) => s[i] = << >>
  <2> SUFFICES ASSUME NEW i \in 1 .. n, i \notin Visible(a) PROVE s[i] = << >> OBVIOUS
  <2>1. a[i] = "special" BY <1>2 DEF Visible
  <2>2. TextAt(a, i) = << >> BY <2>1, TextIs
  <2> QED BY <1>1, <2>1, <2>2 DEF TextFrom
<1> HIDE DEF s
<1>4. From(a, x) # << >> => Shows(a)
  <2> SUFFICES ASSUME Visible(a) = {} PROVE From(a, x) = << >> BY DEF Shows
  <2>1. \A i \in 0 + 1 .. Len(s) : s[i] = << >> BY <1>1, <1>2, <1>3
  <2>2. 0 \in 0 .. Len(s) BY <1>1, <1>2
  <2>3. FlattenSeq(s) = << >> BY <1>1, <2>1, <2>2, FlattenEnds
  <2> QED BY <2>3 DEF From, s
<1>5. ASSUME ~Whole(a) PROVE From(a, x) # << >> /\ Last(From(a, x)) = "?"
  <2> DEFINE q == Max(Visible(a))
  <2>1. Visible(a) # {} /\ a[q] = "b1" BY <1>5 DEF Whole, Shows
  <2>2. Visible(a) \in SUBSET (1 .. n) BY <1>2 DEF Visible
  <2>3. q \in Visible(a) /\ \A i \in Visible(a) : i <= q BY <1>2, <2>1, <2>2, Extremes
  <2> HIDE DEF q
  <2>4. q \in 1 .. n BY <2>2, <2>3
  <2>5. Laters(a, q) = {}
    <3> SUFFICES ASSUME NEW j \in Laters(a, q) PROVE FALSE OBVIOUS
    <3>1. j \in Visible(a) /\ q < j BY DEF Laters
    <3>2. j \in Nat /\ q \in Nat /\ j <= q BY <2>2, <2>3, <2>4, <3>1
    <3> QED BY <3>1, <3>2
  <2>6. s[q] = <<"?">>
    <3>1. TextAt(a, q) = <<"?">> BY <2>1, <2>4, <2>5, TextIs DEF q
    <3> QED BY <1>1, <2>1, <2>4, <3>1 DEF TextFrom, q
  <2>7. \A i \in q + 1 .. Len(s) : s[i] = << >>
    <3> SUFFICES ASSUME NEW i \in q + 1 .. Len(s) PROVE s[i] = << >> OBVIOUS
    <3>1. i \in 1 .. n /\ ~(i <= q) BY <1>1, <1>2, <2>4
    <3> QED BY <1>3, <2>3, <3>1
  <2>8. q \in 0 .. Len(s) /\ q > 0 BY <1>1, <1>2, <2>4
  <2>9. "?" \in Letters BY DEF Letters
  <2>10. FlattenSeq(s) # << >> /\ Last(FlattenSeq(s)) = "?" BY <1>1, <2>6, <2>7, <2>8, <2>9, FlattenEnds
  <2> QED BY <2>10 DEF From, s
<1> QED BY <1>4, <1>5

(* What ends whole ends whole behind anything, and the other way.          *)
LEMMA WholeJoined ==
  ASSUME NEW a \in Seq(Kinds), NEW b \in Seq(Kinds)
  PROVE  /\ Shows(a \o b) <=> Shows(a) \/ Shows(b)
         /\ Shows(b) => (Whole(a \o b) <=> Whole(b))
<1> DEFINE c == a \o b
           m == Len(a)
<1>1. /\ c \in Seq(Kinds) /\ Both(a, b)
      /\ Visible(a) \in SUBSET (1 .. m) /\ Visible(b) \in SUBSET (1 .. Len(b))
      /\ Visible(c) \in SUBSET (1 .. m + Len(b))
      /\ \A i \in 1 .. m : i \in Visible(c) <=> i \in Visible(a)
      /\ \A i \in 1 .. Len(b) : m + i \in Visible(c) <=> i \in Visible(b)
  BY VisibleJoined
<1>2. /\ m \in Nat /\ Len(b) \in Nat
      /\ \A i \in 1 .. Len(b) : c[m + i] = b[i]
  BY <1>1 DEF Both
<1> HIDE DEF c, m
<1>3. \A j \in Visible(c) : j \in 1 .. m \/ (j - m \in 1 .. Len(b) /\ j = m + (j - m)) BY <1>1, <1>2
<1>4. Shows(c) <=> Shows(a) \/ Shows(b)
  <2>1. ASSUME Shows(c) PROVE Shows(a) \/ Shows(b)
    <3>1. PICK j \in Visible(c) : TRUE BY <2>1 DEF Shows
    <3>2. CASE j \in 1 .. m BY <1>1, <3>2 DEF Shows
    <3>3. CASE j - m \in 1 .. Len(b) /\ j = m + (j - m)
      <4>1. m + (j - m) \in Visible(c) BY <3>3
      <4>2. j - m \in Visible(b) BY <1>1, <3>3, <4>1
      <4> QED BY <4>2 DEF Shows
    <3> QED BY <1>3, <3>2, <3>3
  <2>2. ASSUME Shows(a) PROVE Shows(c) BY <1>1, <2>2 DEF Shows
  <2>3. ASSUME Shows(b) PROVE Shows(c)
    <3>1. PICK j \in Visible(b) : TRUE BY <2>3 DEF Shows
    <3>2. m + j \in Visible(c) BY <1>1
    <3> QED BY <3>2 DEF Shows
  <2> QED BY <2>1, <2>2, <2>3
<1>5. ASSUME Shows(b) PROVE Whole(c) <=> Whole(b)
  <2> DEFINE q == Max(Visible(b))
  <2>1. q \in Visible(b) /\ \A i \in Visible(b) : i <= q BY <1>1, <1>2, <1>5, Extremes DEF Shows
  <2> HIDE DEF q
  <2>2. q \in 1 .. Len(b) /\ m + q \in Visible(c) BY <1>1, <2>1
  <2>3. \A j \in Visible(c) : j <= m + q
    <3> SUFFICES ASSUME NEW j \in Visible(c) PROVE j <= m + q OBVIOUS
    <3>1. CASE j \in 1 .. m BY <1>2, <2>2, <3>1
    <3>2. CASE j - m \in 1 .. Len(b) /\ j = m + (j - m)
      <4>1. m + (j - m) \in Visible(c) BY <3>2
      <4>2. j - m \in Visible(b) BY <1>1, <3>2, <4>1
      <4>3. j - m <= q /\ j \in Int BY <1>1, <2>1, <4>2
      <4> QED BY <1>2, <2>2, <4>3
    <3> QED BY <1>3, <3>1, <3>2
  <2>4. m + Len(b) \in Nat BY <1>2
  <2>5. Max(Visible(c)) = m + q BY <1>1, <2>2, <2>3, <2>4, Extremes
  <2>6. c[m + q] = b[q] BY <1>2, <2>2
  <2>7. Shows(c) BY <1>4, <1>5
  <2>8. Whole(c) <=> c[m + q] # "b1" BY <2>5, <2>7 DEF Whole
  <2>9. Whole(b) <=> b[q] # "b1" BY <1>5 DEF Whole, q
  <2> QED BY <2>6, <2>8, <2>9
<1> QED BY <1>4, <1>5 DEF c

(* The whole of the tokens has nothing before it.                          *)
LEMMA DecodeIs ==
  ASSUME NEW a \in Seq(Kinds)
  PROVE  Decode(a) = From(a, FALSE)
<1>1. \A i \in DOMAIN a : TextFrom(a, i, FALSE) = TextAt(a, i) BY DEF TextFrom
<1>2. Texts(a, FALSE) = [i \in DOMAIN a |-> TextAt(a, i)] BY <1>1 DEF Texts
<1> QED BY <1>2 DEF Decode, From

(* The decoder's window: what it has done with, the tokens already given   *)
(* out and the tokens that wait.                                           *)
Decoder(tokens, prefix, read) == [tokens |-> tokens, prefix |-> prefix, read |-> read]
Window(g, p, r) == Decoder((g \o p) \o r, Len(g), Len(g) + Len(p))
Taking(d, id) == [d EXCEPT !.tokens = Append(@, id)]

(* Joining nothing.                                                        *)
LEMMA JoinedNone ==
  ASSUME NEW s \in Seq(Kinds)
  PROVE  s \o << >> = s /\ << >> \o s = s /\ << >> \in Seq(Kinds) /\ Len(<< >>) = 0
BY ConcatEmptySeq, EmptySeq

(* The window, taken from the tokens.                                      *)
LEMMA Slice ==
  ASSUME NEW g \in Seq(Kinds), NEW p \in Seq(Kinds), NEW r \in Seq(Kinds)
  PROVE  /\ SubSeq((g \o p) \o r, Len(g) + 1, Len(g) + Len(p)) = p
         /\ (g \o p) \o r = g \o (p \o r) /\ (g \o p) \o r \in Seq(Kinds)
<1> DEFINE k == Len(g)
           m == Len(p)
           s == (g \o p) \o r
<1>1. g \o p \in Seq(Kinds) /\ Both(g, p) BY Concatenated
<1>2. s \in Seq(Kinds) /\ Both(g \o p, r) BY <1>1, Concatenated
<1>3. s = g \o (p \o r) BY JoinedThrice
<1>4. /\ k \in Nat /\ m \in Nat /\ Len(g \o p) = k + m /\ Len(r) \in Nat /\ Len(s) = (k + m) + Len(r)
      /\ \A i \in 1 .. k + m : s[i] = (g \o p)[i]
      /\ \A i \in 1 .. m : (g \o p)[k + i] = p[i]
  BY <1>1, <1>2 DEF Both
<1> HIDE DEF s, k, m
<1>5. SubSeq(s, k + 1, k + m) = p
  <2> DEFINE t == SubSeq(s, k + 1, k + m)
  <2>1. t \in Seq(Kinds) /\ Len(t) = m /\ \A i \in 1 .. m : t[i] = s[k + i]
    <3>1. \A i \in k + 1 .. k + m : i \in 1 .. Len(s) BY <1>4
    <3>2. \A i \in k + 1 .. k + m : s[i] \in Kinds
      <4>1. \A i \in 1 .. Len(s) : s[i] \in Kinds BY <1>2, ElementOfSeq
      <4> QED BY <3>1, <4>1
    <3>3. k + 1 \in Int /\ k + m \in Int BY <1>4
    <3>4. Len(t) = IF k + 1 <= k + m THEN (k + m) - (k + 1) + 1 ELSE 0 BY <1>2, <3>1, <3>3, SubSeqProperties
    <3>5. \A i \in 1 .. (k + m) - (k + 1) + 1 : t[i] = s[(k + 1) + i - 1] BY <1>2, <3>1, <3>3, SubSeqProperties
    <3>6. t \in Seq(Kinds) BY <1>2, <3>1, <3>3, SubSeqProperties
    <3>7. Len(t) = m BY <1>4, <3>4
    <3>8. \A i \in 1 .. m : (k + 1) + i - 1 = k + i /\ i \in 1 .. (k + m) - (k + 1) + 1 BY <1>4
    <3> QED BY <3>5, <3>6, <3>7, <3>8
  <2> HIDE DEF t
  <2>2. \A i \in 1 .. m : t[i] = p[i]
    <3>1. \A i \in 1 .. m : k + i \in 1 .. k + m BY <1>4
    <3> QED BY <1>4, <2>1, <3>1
  <2>3. t = p BY <2>1, <2>2, SeqEqual DEF m
  <2> QED BY <2>3 DEF t
<1> QED BY <1>2, <1>3, <1>5 DEF s, k, m

(* Its texts: what was given out, and that with what waits.                *)
LEMMA WindowIs ==
  ASSUME NEW g \in Seq(Kinds), NEW p \in Seq(Kinds), NEW r \in Seq(Kinds), Whole(p)
  PROVE  /\ Prefix(Window(g, p, r)) = From(p, FALSE)
         /\ Full(Window(g, p, r)) = From(p, FALSE) \o From(r, Shows(p))
         /\ From(p, FALSE) \in Seq(Letters) /\ From(r, Shows(p)) \in Seq(Letters)
         /\ p \o r \in Seq(Kinds) /\ From(p \o r, FALSE) = From(p, FALSE) \o From(r, Shows(p))
<1> DEFINE d == Window(g, p, r)
<1>1. /\ d.tokens = (g \o p) \o r /\ d.prefix = Len(g) /\ d.read = Len(g) + Len(p)
  BY DEF Window, Decoder
<1>2. SubSeq(d.tokens, d.prefix + 1, d.read) = p BY <1>1, Slice
<1>3. p \o r \in Seq(Kinds) /\ Both(p, r) BY Concatenated
<1>4. SubSeq(d.tokens, d.prefix + 1, Len(d.tokens)) = p \o r
  <2>1. (g \o p) \o r = (g \o (p \o r)) \o << >>
    <3>1. g \o (p \o r) \in Seq(Kinds) BY <1>3, Concatenated
    <3> QED BY <3>1, JoinedNone, Slice
  <2>2. << >> \in Seq(Kinds) BY EmptySeq
  <2>3. SubSeq((g \o (p \o r)) \o << >>, Len(g) + 1, Len(g) + Len(p \o r)) = p \o r
    <3> DEFINE q == p \o r
               e == << >>
    <3>1. q \in Seq(Kinds) /\ e \in Seq(Kinds) BY <1>3, <2>2
    <3> HIDE DEF q, e
    <3>2. SubSeq((g \o q) \o e, Len(g) + 1, Len(g) + Len(q)) = q BY <3>1, Slice, Zenon
    <3> QED BY <3>2 DEF q, e
  <2>4. Len((g \o p) \o r) = Len(g) + Len(p \o r)
    <3>1. Both(g, p \o r) BY <1>3, Concatenated
    <3>2. (g \o p) \o r = g \o (p \o r) BY Slice
    <3> QED BY <3>1, <3>2 DEF Both
  <2> QED BY <1>1, <2>1, <2>3, <2>4
<1> HIDE DEF d
<1>5. Prefix(d) = From(p, FALSE) BY <1>2, DecodeIs DEF Prefix
<1>6. Full(d) = From(p \o r, FALSE) BY <1>3, <1>4, DecodeIs DEF Full
<1>7. Shows(p) \in BOOLEAN BY DEF Shows
<1>8. From(p \o r, FALSE) = From(p, FALSE) \o From(r, Shows(p))
  <2>1. From(p \o r, FALSE) = From(p, FALSE) \o From(r, FALSE \/ Shows(p)) BY FromSplits
  <2>2. (FALSE \/ Shows(p)) = Shows(p) BY <1>7
  <2> QED BY <2>1, <2>2
<1>9. From(p, FALSE) \in Seq(Letters) /\ From(r, Shows(p)) \in Seq(Letters) BY <1>7, TextsAre
<1> QED BY <1>3, <1>5, <1>6, <1>8, <1>9 DEF d

(* A decoder moves on, drops what it has done with, takes a token.         *)
LEMMA MovedIs ==
  ASSUME NEW t, NEW i, NEW j
  PROVE  Moved(Decoder(t, i, j)) = Decoder(t, j, Len(t))
<1> DEFINE d == [tokens |-> t, prefix |-> i, read |-> j]
           w == [d EXCEPT !.prefix = d.read, !.read = Len(d.tokens)]
<1>1. d.tokens = t /\ d.read = j OBVIOUS
<1>2. w = [k \in {"tokens", "prefix", "read"} |-> w[k]] OBVIOUS
<1>3. w.tokens = t /\ w.prefix = j /\ w.read = Len(t) OBVIOUS
<1>4. w = [tokens |-> t, prefix |-> j, read |-> Len(t)]
  <2> HIDE DEF w
  <2> QED BY <1>2, <1>3
<1> QED BY <1>4 DEF Moved, Decoder

(* It takes a token.                                                       *)
LEMMA TakenIs ==
  ASSUME NEW t, NEW i, NEW j, NEW id
  PROVE  Taking(Decoder(t, i, j), id) = Decoder(Append(t, id), i, j)
<1> DEFINE d == [tokens |-> t, prefix |-> i, read |-> j]
<1>1. d.tokens = t OBVIOUS
<1>2. \A u : [d EXCEPT !.tokens = u] = [tokens |-> u, prefix |-> i, read |-> j] OBVIOUS
<1> QED BY <1>1, <1>2 DEF Taking, Decoder

(* It drops what lies before its window, when that is long.                *)
LEMMA DrainedIs ==
  ASSUME NEW t, NEW i, NEW j
  PROVE  /\ i > DrainAt => Drained(Decoder(t, i, j)) = Decoder(SubSeq(t, i + 1, Len(t)), 0, j - i)
         /\ ~(i > DrainAt) => Drained(Decoder(t, i, j)) = Decoder(t, i, j)
<1> DEFINE d == Decoder(t, i, j)
<1>1. d.tokens = t /\ d.prefix = i /\ d.read = j BY DEF Decoder
<1> HIDE DEF d
<1>2. Drained(d) = IF d.prefix > DrainAt
                   THEN [tokens |-> SubSeq(d.tokens, d.prefix + 1, Len(d.tokens)), prefix |-> 0, read |-> d.read - d.prefix]
                   ELSE d
  BY DEF Drained
<1>3. Drained(d) = IF i > DrainAt
                   THEN [tokens |-> SubSeq(t, i + 1, Len(t)), prefix |-> 0, read |-> j - i]
                   ELSE d
  BY <1>1, <1>2
<1>4. Drained(d) = IF i > DrainAt THEN Decoder(SubSeq(t, i + 1, Len(t)), 0, j - i) ELSE d
  BY <1>3 DEF Decoder
<1> QED BY <1>4 DEF d

(* What waits goes out, whole, and the decoder's window moves behind it.   *)
Passes(r, p, e, id) ==
  /\ Whole(r) /\ Shows(r)
  /\ \E h \in Seq(Kinds) : Push(e, id) = <<From(r, Shows(p)), Window(h, r, << >>)>>

(* A token leaves the window as it is, or that happens.                    *)
LEMMA PassesOn ==
  ASSUME NEW g \in Seq(Kinds), NEW p \in Seq(Kinds), NEW q \in Seq(Kinds), NEW id,
         Whole(p), NEW e, Taking(e, id) = Window(g, p, q)
  PROVE  Push(e, id) = << << >>, Window(g, p, q)>> \/ Passes(q, p, e, id)
<1> DEFINE d == Window(g, p, q)
           x == From(p, FALSE)
           y == From(q, Shows(p))
<1>0. /\ Len(g) \in Nat /\ Len(p) \in Nat /\ Len(g) + Len(p) \in Nat
      /\ g \o p \in Seq(Kinds) /\ (g \o p) \o q \in Seq(Kinds) /\ Len((g \o p) \o q) \in Nat
  <2>1. g \o p \in Seq(Kinds) BY Concatenated
  <2>2. (g \o p) \o q \in Seq(Kinds) BY <2>1, Concatenated
  <2> QED BY <2>1, <2>2
<1>1. /\ Prefix(d) = x /\ Full(d) = x \o y /\ x \in Seq(Letters) /\ y \in Seq(Letters)
      /\ p \o q \in Seq(Kinds) /\ From(p \o q, FALSE) = x \o y
  BY WindowIs
<1>2. Moved(d) = Decoder((g \o p) \o q, Len(g) + Len(p), Len((g \o p) \o q)) BY MovedIs DEF Window
<1>3. Taking(e, id) = d OBVIOUS
<1> HIDE DEF d
<1>4. Push(e, id) = IF Waits(d) THEN << << >>, d>> ELSE <<DiffSuffix(Prefix(d), Full(d)), Drained(Moved(d))>>
  BY <1>3 DEF Push, Taking
<1> HIDE DEF x
<1>5. ASSUME ~Waits(d)
      PROVE  /\ Whole(q) /\ Shows(q)
             /\ \E h \in Seq(Kinds) : Push(e, id) = <<y, Window(h, q, << >>)>>
  <2>1. ~(ByteLen(x \o y) <= ByteLen(x)) /\ ~(x \o y # << >> /\ Last(x \o y) = "?")
    BY <1>1, <1>5 DEF Waits
  <2>2. y # << >>
    <3> SUFFICES ASSUME y = << >> PROVE FALSE OBVIOUS
    <3>1. ByteLen(x) \in Nat /\ ByteLen(x \o y) = ByteLen(x) BY <1>1, MoreBytes
    <3> QED BY <2>1, <3>1
  <2>3. Shows(p) \in BOOLEAN BY DEF Shows
  <2>4. Shows(q) BY <2>2, <2>3, Hidden
  <2>5. Whole(p \o q) BY <1>1, <2>1, Hidden
  <2>6. Whole(q) BY <2>4, <2>5, WholeJoined
  <2>7. DiffSuffix(Prefix(d), Full(d)) = y BY <1>1, DiffIs
  <2>8. \E h \in Seq(Kinds) : Drained(Moved(d)) = Window(h, q, << >>)
    <3> DEFINE k == Len(g) + Len(p)
               s == (g \o p) \o q
    <3>1. g \o p \in Seq(Kinds) /\ Both(g, p) BY Concatenated
    <3>2. s \in Seq(Kinds) /\ Both(g \o p, q) BY <3>1, Concatenated
    <3>3. k \in Nat /\ Len(g \o p) = k /\ Len(s) = k + Len(q) /\ Len(q) \in Nat BY <3>1, <3>2 DEF Both
    <3>4. Moved(d) = Decoder(s, k, Len(s)) BY <1>2
    <3>5. SubSeq(s, k + 1, Len(s)) = q
      <4>1. s \o << >> = s /\ << >> \in Seq(Kinds) BY <3>2, JoinedNone
      <4>2. SubSeq(((g \o p) \o q) \o << >>, Len(g \o p) + 1, Len(g \o p) + Len(q)) = q
        BY <3>1, <4>1, Slice
      <4> QED BY <3>3, <4>1, <4>2
    <3>6. CASE k > DrainAt
      <4>1. Drained(Moved(d)) = Decoder(q, 0, Len(s) - k)
        <5> HIDE DEF s, k
        <5>1. Drained(Decoder(s, k, Len(s))) = Decoder(SubSeq(s, k + 1, Len(s)), 0, Len(s) - k) BY <3>6, DrainedIs
        <5> QED BY <3>4, <3>5, <5>1
      <4>2. Len(s) - k = Len(<< >>) + Len(q)
        <5> HIDE DEF s, k
        <5>1. Len(s) - k = 0 + Len(q) BY <3>3
        <5> QED BY <5>1, JoinedNone
      <4>3. (<< >> \o q) \o << >> = q /\ << >> \in Seq(Kinds) /\ Len(<< >>) = 0 BY JoinedNone
      <4>4. Drained(Moved(d)) = Window(<< >>, q, << >>) BY <4>1, <4>2, <4>3 DEF Window
      <4> QED BY <4>3, <4>4
    <3>7. CASE ~(k > DrainAt)
      <4>1. Drained(Moved(d)) = Decoder(s, k, Len(s))
        <5> HIDE DEF s, k
        <5> QED BY <3>4, <3>7, DrainedIs
      <4>2. s \o << >> = s BY <3>2, JoinedNone
      <4>3. Window(g \o p, q, << >>) = Decoder(s, Len(g \o p), Len(g \o p) + Len(q))
        BY <4>2 DEF Window
      <4>4. Drained(Moved(d)) = Window(g \o p, q, << >>)
        <5> HIDE DEF s, k
        <5> QED BY <3>3, <4>1, <4>3
      <4> QED BY <3>1, <4>4
    <3> QED BY <3>6, <3>7
  <2> QED BY <1>4, <1>5, <2>4, <2>6, <2>7, <2>8
<1>6. Waits(d) => Push(e, id) = << << >>, d>> BY <1>4
<1> HIDE DEF y
<1>7. ~Waits(d) => Passes(q, p, e, id) BY <1>5 DEF Passes, y
<1> QED BY <1>6, <1>7 DEF d

(* Such a step is push.                                                    *)
LEMMA PushIs ==
  ASSUME NEW g \in Seq(Kinds), NEW p \in Seq(Kinds), NEW r \in Seq(Kinds), NEW id \in Kinds, Whole(p)
  PROVE  /\ Append(r, id) \in Seq(Kinds)
         /\ \/ Push(Window(g, p, r), id) = << << >>, Window(g, p, Append(r, id))>>
            \/ Passes(Append(r, id), p, Window(g, p, r), id)
<1> DEFINE q == Append(r, id)
           e == Window(g, p, r)
<1>1. q \in Seq(Kinds) /\ q = r \o <<id>> /\ <<id>> \in Seq(Kinds) BY AppendProperties, AppendIsConcat
<1>2. Append((g \o p) \o r, id) = (g \o p) \o q
  <2>1. g \o p \in Seq(Kinds) BY Concatenated
  <2>2. (g \o p) \o r \in Seq(Kinds) BY <2>1, Concatenated
  <2>3. Append((g \o p) \o r, id) = ((g \o p) \o r) \o <<id>> BY <2>2, AppendIsConcat
  <2> HIDE DEF q
  <2> QED BY <1>1, <2>1, <2>3, JoinedThrice
<1>3. Taking(e, id) = Window(g, p, q)
  <2>1. Taking(e, id) = Decoder(Append((g \o p) \o r, id), Len(g), Len(g) + Len(p)) BY TakenIs DEF Window
  <2> HIDE DEF e, q
  <2> QED BY <1>2, <2>1 DEF Window
<1> HIDE DEF q, e
<1>4. Push(e, id) = << << >>, Window(g, p, q)>> \/ Passes(q, p, e, id) BY <1>1, <1>3, PassesOn
<1> QED BY <1>1, <1>4 DEF q, e

(* The flush gives out what waits.                                         *)
LEMMA FlushIs ==
  ASSUME NEW g \in Seq(Kinds), NEW p \in Seq(Kinds), NEW r \in Seq(Kinds), Whole(p)
  PROVE  Flush(Window(g, p, r)) = From(r, Shows(p))
<1> DEFINE d == Window(g, p, r)
           x == From(p, FALSE)
           y == From(r, Shows(p))
<1>1. /\ Prefix(d) = x /\ Full(d) = x \o y /\ x \in Seq(Letters) /\ y \in Seq(Letters)
  BY WindowIs
<1>2. d.tokens = (g \o p) \o r /\ d.read = Len(g) + Len(p) BY DEF Window, Decoder
<1>3. Len(d.tokens) = (Len(g) + Len(p)) + Len(r) /\ Len(g) + Len(p) \in Nat /\ Len(r) \in Nat
  <2>1. g \o p \in Seq(Kinds) /\ Both(g, p) BY Concatenated
  <2>2. Both(g \o p, r) BY <2>1, Concatenated
  <2> QED BY <1>2, <2>1, <2>2 DEF Both
<1>4. Shows(p) \in BOOLEAN BY DEF Shows
<1>5. d.read = Len(d.tokens) => y = << >>
  <2> SUFFICES ASSUME d.read = Len(d.tokens) PROVE y = << >> OBVIOUS
  <2>1. Len(r) = 0 BY <1>2, <1>3
  <2>2. Visible(r) = {} BY <2>1 DEF Visible
  <2> QED BY <1>4, <2>2, Hidden DEF Shows
<1> HIDE DEF d, x, y
<1>6. /\ ByteLen(x) \in Nat /\ ByteLen(x \o y) \in Nat
      /\ y = << >> => ByteLen(x \o y) = ByteLen(x)
      /\ y # << >> => ByteLen(x \o y) > ByteLen(x)
  BY <1>1, MoreBytes
<1>7. DiffSuffix(x, x \o y) = y BY <1>1, DiffIs
<1>8. ByteLen(Full(d)) <= ByteLen(Prefix(d)) <=> y = << >> BY <1>1, <1>6
<1>9. Flush(d) = y
  <2>1. CASE y = << >> BY <1>8, <2>1 DEF Flush
  <2>2. CASE y # << >> BY <1>1, <1>5, <1>7, <1>8, <2>2 DEF Flush
  <2> QED BY <2>1, <2>2
<1> QED BY <1>9 DEF d, y

(* After its first tokens have been pushed: what went out is the text of   *)
(* those before the ones that wait.                                        *)
Follows(state, done, x) ==
  \E g, p, r, a \in Seq(Kinds) :
    /\ state = <<From(a, x), Window(g, p, r)>>
    /\ Whole(p) /\ Whole(a) /\ done = a \o r
    /\ Shows(p) <=> x \/ Shows(a)

(* A pushed token keeps that.                                              *)
LEMMA FollowsOn ==
  ASSUME NEW state, NEW done \in Seq(Kinds), NEW id \in Kinds, NEW x \in BOOLEAN, Follows(state, done, x)
  PROVE  LET p == Push(state[2], id) IN Follows(<<state[1] \o p[1], p[2]>>, Append(done, id), x)
<1>1. PICK g \in Seq(Kinds), p \in Seq(Kinds), r \in Seq(Kinds), a \in Seq(Kinds) :
        /\ state = <<From(a, x), Window(g, p, r)>>
        /\ Whole(p) /\ Whole(a) /\ done = a \o r
        /\ Shows(p) <=> x \/ Shows(a)
  BY DEF Follows
<1> DEFINE w == Window(g, p, r)
           u == Push(w, id)
           q == Append(r, id)
           y == From(a, x)
<1>2. state[1] = y /\ state[2] = w BY <1>1
<1>3. q \in Seq(Kinds) /\ Append(done, id) = a \o q
  <2>1. q = r \o <<id>> /\ <<id>> \in Seq(Kinds) /\ q \in Seq(Kinds) BY AppendProperties, AppendIsConcat
  <2>2. Append(done, id) = done \o <<id>> BY AppendIsConcat
  <2> HIDE DEF q
  <2>3. (a \o r) \o <<id>> = a \o (r \o <<id>>) BY <2>1, JoinedThrice
  <2> QED BY <1>1, <2>1, <2>2, <2>3
<1>4. u = << << >>, Window(g, p, q)>> \/ Passes(q, p, w, id) BY <1>1, PushIs
<1>5. y \in Seq(Letters) BY TextsAre
<1> HIDE DEF u, q, w
<1>6. CASE u = << << >>, Window(g, p, q)>>
  <2>1. y \o u[1] = y /\ u[2] = Window(g, p, q) BY <1>5, <1>6, ConcatEmptySeq
  <2>2. <<y \o u[1], u[2]>> = <<From(a, x), Window(g, p, q)>> BY <2>1
  <2> HIDE DEF y
  <2>3. Follows(<<y \o u[1], u[2]>>, Append(done, id), x) BY <1>1, <1>3, <2>2 DEF Follows
  <2> QED BY <1>2, <2>3 DEF u
<1>7. CASE Passes(q, p, w, id)
  <2>1. Whole(q) /\ Shows(q) BY <1>7 DEF Passes
  <2>2. PICK h \in Seq(Kinds) : u = <<From(q, Shows(p)), Window(h, q, << >>)>> BY <1>7 DEF Passes, u
  <2>3. u[1] = From(q, Shows(p)) /\ u[2] = Window(h, q, << >>) BY <2>2
  <2>4. From(a \o q, x) = y \o From(q, x \/ Shows(a)) BY <1>1, <1>3, FromSplits
  <2>5. Shows(p) = (x \/ Shows(a)) BY <1>1 DEF Shows
  <2>6. y \o u[1] = From(a \o q, x) BY <2>3, <2>4, <2>5
  <2>7. a \o q \in Seq(Kinds) BY <1>3, Concatenated
  <2>8. Whole(a \o q) /\ Shows(a \o q) BY <1>3, <2>1, WholeJoined
  <2>9. << >> \in Seq(Kinds) /\ (a \o q) \o << >> = a \o q BY <2>7, JoinedNone
  <2> DEFINE b == a \o q
  <2>10. <<y \o u[1], u[2]>> = <<From(b, x), Window(h, q, << >>)>> BY <2>3, <2>6
  <2>11. b \in Seq(Kinds) /\ Whole(b) /\ Shows(b) /\ Append(done, id) = b \o << >>
    BY <1>3, <2>7, <2>8, <2>9
  <2> HIDE DEF b, y
  <2>12. Shows(q) <=> x \/ Shows(b) BY <2>1, <2>11
  <2>13. Follows(<<y \o u[1], u[2]>>, Append(done, id), x) BY <1>3, <2>1, <2>9, <2>10, <2>11, <2>12 DEF Follows
  <2> QED BY <1>2, <2>13 DEF u
<1> QED BY <1>4, <1>6, <1>7

(* What is kept of a prompt serves as well as all of it.                   *)
Serves(context) ==
  /\ NewDecoder(context).tokens \in Seq(Kinds)
  /\ Whole(NewDecoder(context).tokens)
  /\ Shows(NewDecoder(context).tokens) <=> Shows(context)

(* It holds of a new decoder.                                              *)
LEMMA FollowsFirst ==
  ASSUME NEW context \in Seq(Kinds), Serves(context), Shows(context) \in BOOLEAN
  PROVE  Follows(<< << >>, NewDecoder(context)>>, << >>, Shows(context))
<1> DEFINE t == NewDecoder(context).tokens
           z == << >>
<1>1. t \in Seq(Kinds) /\ Whole(t) /\ (Shows(t) <=> Shows(context)) BY DEF Serves
<1>2. NewDecoder(context) = Decoder(t, 0, Len(t)) BY DEF NewDecoder, Decoder
<1> HIDE DEF t
<1>3. z \in Seq(Kinds) /\ Len(z) = 0 /\ z \o z = z /\ (z \o t) \o z = t
  <2>1. z \in Seq(Kinds) BY EmptySeq
  <2>2. z \o t = t /\ t \o z = t /\ z \o z = z /\ Len(z) = 0 BY <1>1, <2>1, JoinedNone
  <2> QED BY <2>1, <2>2
<1>4. Visible(z) = {} BY DEF Visible
<1>5. ~Shows(z) /\ Whole(z) BY <1>4 DEF Shows, Whole
<1>6. From(z, Shows(context)) = z BY <1>3, <1>5, Hidden
<1>7. Window(z, t, z) = Decoder(t, 0, Len(t))
  <2>1. 0 + Len(t) = Len(t) BY <1>1
  <2>2. Window(z, t, z) = Decoder((z \o t) \o z, Len(z), Len(z) + Len(t)) BY DEF Window
  <2> HIDE DEF z
  <2> QED BY <1>3, <2>1, <2>2
<1>8. << z, NewDecoder(context)>> = <<From(z, Shows(context)), Window(z, t, z)>> BY <1>2, <1>6, <1>7
<1> HIDE DEF z
<1>9. Follows(<<z, NewDecoder(context)>>, z, Shows(context)) BY <1>1, <1>3, <1>5, <1>8 DEF Follows
<1> QED BY <1>9 DEF z

(* The states of a stream, and a token's step.                             *)
Flowing(s, x) == \E done \in Seq(Kinds) : Follows(s, done, x)
Flows(x) ==
  {s \in {<<From(t[1], x), Window(t[2], t[3], t[4])>> :
            t \in Seq(Kinds) \X Seq(Kinds) \X Seq(Kinds) \X Seq(Kinds)} : Flowing(s, x)}
Pushing(s, id) == <<s[1] \o Push(s[2], id)[1], Push(s[2], id)[2]>>
Runs(f, context, ids) ==
  /\ f[0] = << << >>, NewDecoder(context)>>
  /\ \A n \in 1 .. Len(ids) : f[n] = Pushing(f[n - 1], ids[n])

(* These are the states that follow some tokens.                           *)
LEMMA FlowsIs ==
  ASSUME NEW x, NEW s
  PROVE  s \in Flows(x) <=> Flowing(s, x)
<1>1. ASSUME Flowing(s, x) PROVE s \in Flows(x)
  <2>1. PICK g \in Seq(Kinds), p \in Seq(Kinds), r \in Seq(Kinds), a \in Seq(Kinds) :
          s = <<From(a, x), Window(g, p, r)>>
    BY <1>1 DEF Flowing, Follows
  <2> DEFINE t == <<a, g, p, r>>
  <2>2. t \in Seq(Kinds) \X Seq(Kinds) \X Seq(Kinds) \X Seq(Kinds) OBVIOUS
  <2>3. t[1] = a /\ t[2] = g /\ t[3] = p /\ t[4] = r OBVIOUS
  <2> HIDE DEF t
  <2>4. s = <<From(t[1], x), Window(t[2], t[3], t[4])>> BY <2>1, <2>3
  <2> QED BY <1>1, <2>2, <2>4 DEF Flows
<1>2. s \in Flows(x) => Flowing(s, x) BY DEF Flows
<1> QED BY <1>1, <1>2

(* A step follows the token.                                               *)
LEMMA PushingFollows ==
  ASSUME NEW s, NEW done \in Seq(Kinds), NEW id \in Kinds, NEW x \in BOOLEAN, Follows(s, done, x)
  PROVE  Follows(Pushing(s, id), Append(done, id), x)
<1>1. LET p == Push(s[2], id) IN Follows(<<s[1] \o p[1], p[2]>>, Append(done, id), x) BY FollowsOn
<1> QED BY <1>1 DEF Pushing

(* The run of Streamed has a value, and what it gives follows the tokens.  *)
LEMMA StreamedRuns ==
  ASSUME NEW context \in Seq(Kinds), NEW ids \in Seq(Kinds), Serves(context)
  PROVE  \E f : /\ Runs(f, context, ids)
                /\ Streamed(context, ids) = f[Len(ids)][1] \o Flush(f[Len(ids)][2])
<1> DEFINE m == Len(ids)
           x == Shows(context)
           base == << << >>, NewDecoder(context)>>
           X == Flows(x)
           step == [p \in (1 .. m) \X X |-> Pushing(p[2], ids[p[1]])]
           value(run) == [n \in 0 .. m |-> IF n = 0 THEN << << >>, NewDecoder(context)>>
                            ELSE LET p == Push(run[n - 1][2], ids[n]) IN <<run[n - 1][1] \o p[1], p[2]>>]
           run == CHOOSE run : run = value(run)
<1>0. m \in Nat /\ (\A i \in 1 .. m : ids[i] \in Kinds) OBVIOUS
<1>1. Streamed(context, ids) = run[m][1] \o Flush(run[m][2]) BY DEF Streamed
<1>2. x \in BOOLEAN BY DEF Shows
<1>3. base \in X
  <2>1. << >> \in Seq(Kinds) BY EmptySeq
  <2>2. Flowing(base, x) BY <1>2, <2>1, FollowsFirst DEF Flowing
  <2> QED BY <2>2, FlowsIs
<1>4. ASSUME NEW i \in 1 .. m, NEW s \in X PROVE step[<<i, s>>] \in X /\ step[<<i, s>>] = Pushing(s, ids[i])
  <2>1. <<i, s>> \in (1 .. m) \X X OBVIOUS
  <2>2. step[<<i, s>>] = Pushing(s, ids[i]) BY <2>1
  <2>3. PICK done \in Seq(Kinds) : Follows(s, done, x) BY FlowsIs DEF Flowing
  <2>4. Follows(Pushing(s, ids[i]), Append(done, ids[i]), x) BY <1>0, <1>2, <2>3, PushingFollows
  <2>5. Append(done, ids[i]) \in Seq(Kinds) BY <1>0, AppendProperties
  <2>6. Flowing(Pushing(s, ids[i]), x) BY <2>4, <2>5 DEF Flowing
  <2> HIDE DEF step, x
  <2> QED BY <2>2, <2>6, FlowsIs
<1> HIDE DEF step, X, x, run
<1>5. PICK f \in [0 .. m -> X] : Recurs(f, m, base, step) BY <1>0, <1>3, <1>4, Recursion
<1>6. /\ f[0] = base
      /\ \A i \in 1 .. m : f[i] = Pushing(f[i - 1], ids[i])
  <2>1. \A i \in 1 .. m : f[i] = step[<<i, f[i - 1]>>] BY <1>5 DEF Recurs
  <2>2. \A i \in 1 .. m : f[i - 1] \in X
    <3>1. \A i \in 1 .. m : i - 1 \in 0 .. m BY <1>0
    <3> QED BY <1>5, <3>1
  <2>3. f[0] = base BY <1>5 DEF Recurs
  <2> QED BY <1>4, <2>1, <2>2, <2>3
<1>7. run = f
  <2>1. f = value(f)
    <3>1. ASSUME NEW n \in 0 .. m
          PROVE  f[n] = IF n = 0 THEN << << >>, NewDecoder(context)>>
                        ELSE LET p == Push(f[n - 1][2], ids[n]) IN <<f[n - 1][1] \o p[1], p[2]>>
      <4>1. CASE n = 0 BY <1>6, <4>1
      <4>2. CASE n # 0
        <5>1. n \in 1 .. m BY <1>0, <4>2
        <5>2. f[n] = Pushing(f[n - 1], ids[n]) BY <1>6, <5>1
        <5> QED BY <4>2, <5>2 DEF Pushing
      <4> QED BY <4>1, <4>2
    <3> QED BY <1>5, <3>1
  <2>2. run = value(run) BY <2>1 DEF run
  <2>3. run[0] = base /\ \A n \in 1 .. m : run[n] = Pushing(run[n - 1], ids[n])
    <3>1. 0 \in 0 .. m /\ \A n \in 1 .. m : n \in 0 .. m /\ n # 0 BY <1>0
    <3>2. ASSUME NEW n \in 0 .. m
          PROVE  run[n] = IF n = 0 THEN << << >>, NewDecoder(context)>>
                          ELSE LET p == Push(run[n - 1][2], ids[n]) IN <<run[n - 1][1] \o p[1], p[2]>>
      BY <2>2
    <3>3. run[0] = base BY <3>1, <3>2
    <3>4. ASSUME NEW n \in 1 .. m PROVE run[n] = Pushing(run[n - 1], ids[n])
      <4>1. n \in 0 .. m /\ n # 0 BY <3>1
      <4> QED BY <3>2, <4>1 DEF Pushing
    <3> QED BY <3>3, <3>4
  <2>4. run = [n \in 0 .. m |-> run[n]] BY <2>2
  <2> DEFINE G == {i \in 0 .. m : run[i] = f[i]}
  <2>5. 0 \in G
    <3>1. 0 \in 0 .. m BY <1>0
    <3>2. run[0] = f[0] BY <1>6, <2>3
    <3> QED BY <3>1, <3>2
  <2>6. \A i \in 1 .. m : i - 1 \in G => i \in G
    <3> SUFFICES ASSUME NEW i \in 1 .. m, run[i - 1] = f[i - 1] PROVE run[i] = f[i] /\ i \in 0 .. m OBVIOUS
    <3>1. run[i] = Pushing(run[i - 1], ids[i]) BY <2>3
    <3>2. f[i] = Pushing(f[i - 1], ids[i]) BY <1>6
    <3> QED BY <1>0, <3>1, <3>2
  <2> HIDE DEF G
  <2>7. \A i \in 0 .. m : i \in G BY <1>0, <2>5, <2>6, Counting
  <2>8. \A i \in 0 .. m : run[i] = f[i] BY <2>7 DEF G
  <2> QED BY <1>5, <2>4, <2>8
<1>8. Runs(f, context, ids) BY <1>6 DEF Runs
<1> QED BY <1>1, <1>7, <1>8

(* So the last state of a run follows all of the tokens.                   *)
LEMMA RunsFollow ==
  ASSUME NEW context \in Seq(Kinds), NEW ids \in Seq(Kinds), Serves(context), NEW f, Runs(f, context, ids)
  PROVE  Follows(f[Len(ids)], ids, Shows(context))
<1> DEFINE m == Len(ids)
           x == Shows(context)
           done(n) == SubSeq(ids, 1, n)
           G == {n \in 0 .. m : Follows(f[n], done(n), x)}
<1>0. m \in Nat /\ (\A i \in 1 .. m : ids[i] \in Kinds) /\ x \in BOOLEAN BY DEF Shows
<1>1. \A n \in 0 .. m : done(n) \in Seq(Kinds)
  <2> SUFFICES ASSUME NEW n \in 0 .. m PROVE done(n) \in Seq(Kinds) OBVIOUS
  <2>1. \A i \in 1 .. n : ids[i] \in Kinds BY <1>0
  <2> QED BY <2>1, SubSeqProperties
<1>2. 0 \in G
  <2>1. done(0) = << >> BY SubSeqEmpty
  <2>2. f[0] = << << >>, NewDecoder(context)>> BY DEF Runs
  <2>3. Follows(f[0], << >>, x) BY <1>0, <2>2, FollowsFirst
  <2>4. 0 \in 0 .. m BY <1>0
  <2>5. Follows(f[0], done(0), x) BY <2>1, <2>3
  <2> QED BY <2>4, <2>5
<1>3. ASSUME NEW n \in 1 .. m, n - 1 \in G PROVE n \in G
  <2>1. n - 1 \in 0 .. m /\ n \in 0 .. m BY <1>0
  <2>2. Follows(f[n - 1], done(n - 1), x) BY <1>3
  <2>3. f[n] = Pushing(f[n - 1], ids[n]) BY DEF Runs
  <2>4. done(n) = Append(done(n - 1), ids[n])
    <3>1. 1 \in 1 .. m /\ n \in 1 .. m BY <1>0
    <3>2. done(n) = done(n - 1) \o <<ids[n]>> BY <3>1, SubSeqRecursiveSecond
    <3>3. done(n - 1) \in Seq(Kinds) BY <1>1, <2>1
    <3> HIDE DEF done
    <3> QED BY <1>0, <3>2, <3>3, AppendIsConcat
  <2>5. done(n - 1) \in Seq(Kinds) BY <1>1, <2>1
  <2> HIDE DEF done, x
  <2>6. Follows(f[n], Append(done(n - 1), ids[n]), x) BY <1>0, <2>2, <2>3, <2>5, PushingFollows
  <2> QED BY <2>1, <2>4, <2>6
<1> HIDE DEF G
<1>4. m \in G
  <2>1. \A n \in 0 .. m : n \in G BY <1>0, <1>2, <1>3, Counting
  <2>2. m \in 0 .. m BY <1>0
  <2> QED BY <2>1, <2>2
<1>5. done(m) = ids BY SubSeqFull
<1> QED BY <1>4, <1>5 DEF G

(* The text of a stream, however its tokens wait, is that of its tokens.   *)
LEMMA StreamedIs ==
  ASSUME NEW context \in Seq(Kinds), NEW ids \in Seq(Kinds), Serves(context)
  PROVE  Streamed(context, ids) = From(ids, Shows(context))
<1> DEFINE x == Shows(context)
<1>0. x \in BOOLEAN BY DEF Shows
<1>1. PICK f : /\ Runs(f, context, ids)
               /\ Streamed(context, ids) = f[Len(ids)][1] \o Flush(f[Len(ids)][2])
  BY StreamedRuns
<1>2. Follows(f[Len(ids)], ids, x) BY <1>1, RunsFollow
<1>3. PICK g \in Seq(Kinds), p \in Seq(Kinds), r \in Seq(Kinds), a \in Seq(Kinds) :
        /\ f[Len(ids)] = <<From(a, x), Window(g, p, r)>>
        /\ Whole(p) /\ Whole(a) /\ ids = a \o r
        /\ Shows(p) <=> x \/ Shows(a)
  BY <1>2 DEF Follows
<1>4. Flush(Window(g, p, r)) = From(r, Shows(p)) BY <1>3, FlushIs
<1>5. Streamed(context, ids) = From(a, x) \o From(r, Shows(p))
  <2>1. f[Len(ids)][1] = From(a, x) /\ f[Len(ids)][2] = Window(g, p, r) BY <1>3
  <2> QED BY <1>1, <1>4, <2>1
<1>6. Shows(p) = (x \/ Shows(a)) BY <1>3 DEF Shows
<1>7. From(a \o r, x) = From(a, x) \o From(r, x \/ Shows(a)) BY <1>0, <1>3, FromSplits
<1> QED BY <1>3, <1>5, <1>6, <1>7

(* The end of a prompt that is kept.                                       *)
LEMMA KeptIs ==
  ASSUME NEW context \in Seq(Kinds), Ctx \in Nat
  PROVE  \E k \in 0 .. Len(context) :
           /\ NewDecoder(context).tokens = SubSeq(context, k + 1, Len(context))
           /\ k = IF Len(context) - Ctx < 0 THEN 0 ELSE Len(context) - Ctx
           /\ SubSeq(context, 1, k) \in Seq(Kinds) /\ SubSeq(context, k + 1, Len(context)) \in Seq(Kinds)
           /\ context = SubSeq(context, 1, k) \o SubSeq(context, k + 1, Len(context))
<1> DEFINE n == Len(context)
           k == IF n - Ctx < 0 THEN 0 ELSE n - Ctx
           from == n - Ctx + 1
<1>1. n \in Nat /\ k \in 0 .. n /\ k + 1 = IF from < 1 THEN 1 ELSE from OBVIOUS
<1>2. NewDecoder(context).tokens = SubSeq(context, k + 1, n)
  <2>1. NewDecoder(context).tokens = SubSeq(context, IF from < 1 THEN 1 ELSE from, n) BY DEF NewDecoder
  <2> HIDE DEF k, n, from
  <2> QED BY <1>1, <2>1
<1>3. \A i \in 1 .. n : context[i] \in Kinds OBVIOUS
<1> HIDE DEF k
<1>4. SubSeq(context, 1, k) \in Seq(Kinds)
  <2>1. \A i \in 1 .. k : context[i] \in Kinds BY <1>1, <1>3
  <2>2. k \in Int /\ 1 \in Int BY <1>1
  <2> QED BY <2>1, <2>2, SubSeqProperties
<1>5. SubSeq(context, k + 1, n) \in Seq(Kinds)
  <2>1. \A i \in k + 1 .. n : context[i] \in Kinds BY <1>1, <1>3
  <2>2. k + 1 \in Int /\ n \in Int BY <1>1
  <2> QED BY <2>1, <2>2, SubSeqProperties
<1>6. context = SubSeq(context, 1, k) \o SubSeq(context, k + 1, n)
  <2>1. 1 \in 1 .. n + 1 /\ k \in (1 - 1) .. n /\ n \in k .. n BY <1>1
  <2>2. SubSeq(context, 1, k) \o SubSeq(context, k + 1, n) = SubSeq(context, 1, n) BY <2>1, ConcatAdjacentSubSeq
  <2>3. SubSeq(context, 1, n) = context BY SubSeqFull
  <2> QED BY <2>2, <2>3
<1> QED BY <1>1, <1>2, <1>4, <1>5, <1>6 DEF k

(* It serves when it ends whole and shows what the prompt shows.           *)
LEMMA KeptServes ==
  ASSUME NEW context \in Seq(Kinds), Ctx \in Nat, Whole(context),
         Shows(context) => Shows(NewDecoder(context).tokens)
  PROVE  Serves(context)
<1> DEFINE n == Len(context)
           t == NewDecoder(context).tokens
<1>1. PICK k \in 0 .. n :
           /\ t = SubSeq(context, k + 1, n)
           /\ SubSeq(context, 1, k) \in Seq(Kinds) /\ SubSeq(context, k + 1, n) \in Seq(Kinds)
           /\ context = SubSeq(context, 1, k) \o SubSeq(context, k + 1, n)
  BY KeptIs
<1> DEFINE b == SubSeq(context, 1, k)
<1>2. b \in Seq(Kinds) /\ t \in Seq(Kinds) /\ context = b \o t BY <1>1
<1>3. Shows(context) => Shows(t) OBVIOUS
<1> HIDE DEF b, t
<1>4. Shows(b \o t) <=> Shows(b) \/ Shows(t) BY <1>2, WholeJoined
<1>5. Shows(t) => (Whole(b \o t) <=> Whole(t)) BY <1>2, WholeJoined
<1>6. Shows(t) <=> Shows(context) BY <1>2, <1>3, <1>4
<1>7. Whole(t)
  <2>1. CASE Shows(t)
    <3>1. Whole(b \o t) <=> Whole(t) BY <1>5, <2>1
    <3>2. Whole(b \o t) BY <1>2
    <3> QED BY <3>1, <3>2
  <2>2. CASE ~Shows(t) BY <2>2 DEF Whole
  <2> QED BY <2>1, <2>2
<1> QED BY <1>2, <1>6, <1>7 DEF Serves, t

(* Whatever tokens follow a prompt, and whatever waits in the decoder's    *)
(* window on the way: the pieces StreamDecoder's push gives out, with what *)
(* flush adds, are the text of all of the tokens decoded at once behind    *)
(* the prompt.  The prompt ends with a whole character, and what new keeps *)
(* of it shows text if any of it does.                                     *)
THEOREM StreamedWhole ==
  ASSUME NEW context \in Seq(Kinds), NEW ids \in Seq(Kinds), Ctx \in Nat, Whole(context),
         Shows(context) => Shows(NewDecoder(context).tokens)
  PROVE  Streamed(context, ids) = DiffSuffix(Decode(context), Decode(context \o ids))
<1> DEFINE x == Shows(context)
           s == From(context, FALSE)
           t == From(ids, x)
<1>1. Streamed(context, ids) = t BY KeptServes, StreamedIs
<1>2. x \in BOOLEAN BY DEF Shows
<1>3. From(context \o ids, FALSE) = s \o t
  <2>1. From(context \o ids, FALSE) = s \o From(ids, FALSE \/ x) BY FromSplits
  <2>2. (FALSE \/ x) = x BY <1>2
  <2> QED BY <2>1, <2>2
<1>4. context \o ids \in Seq(Kinds) BY Concatenated
<1>5. Decode(context) = s /\ Decode(context \o ids) = s \o t BY <1>3, <1>4, DecodeIs
<1>6. s \in Seq(Letters) /\ t \in Seq(Letters) BY <1>2, TextsAre
<1>7. DiffSuffix(s, s \o t) = t BY <1>6, DiffIs
<1> QED BY <1>1, <1>5, <1>7

(* A prompt that ends, but for special tokens, with a whole character that *)
(* is kept.                                                                *)
LEMMA EndsWhole ==
  ASSUME NEW context \in Seq(Kinds), Ctx \in Nat, NEW q \in 1 .. Len(context),
         context[q] \in {"word", "b2"}, \A i \in q + 1 .. Len(context) : context[i] = "special",
         Len(context) - q < Ctx
  PROVE  Whole(context) /\ Shows(NewDecoder(context).tokens)
<1> DEFINE n == Len(context)
           t == NewDecoder(context).tokens
<1>1. n \in Nat /\ Visible(context) \in SUBSET (1 .. n) /\ q \in Visible(context) BY DEF Visible
<1>2. \A i \in Visible(context) : i <= q
  <2> SUFFICES ASSUME NEW i \in Visible(context), ~(i <= q) PROVE FALSE OBVIOUS
  <2>1. i \in 1 .. n BY <1>1
  <2>2. i \in q + 1 .. n BY <1>1, <2>1
  <2> QED BY <2>2 DEF Visible
<1>3. Max(Visible(context)) = q BY <1>1, <1>2, Extremes
<1>4. Whole(context) BY <1>3 DEF Whole
<1>5. PICK k \in 0 .. n :
           /\ t = SubSeq(context, k + 1, n)
           /\ k = IF n - Ctx < 0 THEN 0 ELSE n - Ctx
           /\ SubSeq(context, 1, k) \in Seq(Kinds) /\ SubSeq(context, k + 1, n) \in Seq(Kinds)
           /\ context = SubSeq(context, 1, k) \o SubSeq(context, k + 1, n)
  BY KeptIs
<1>6. k < q BY <1>1, <1>5
<1>7. t \in Seq(Kinds) /\ Len(t) = n - k /\ t[q - k] = context[q]
  <2>1. \A i \in k + 1 .. n : context[i] \in Kinds
    <3>1. \A i \in k + 1 .. n : i \in 1 .. n BY <1>1
    <3>2. \A i \in 1 .. n : context[i] \in Kinds OBVIOUS
    <3> QED BY <3>1, <3>2
  <2>2. k + 1 \in Int /\ n \in Int BY <1>1
  <2>0. t = SubSeq(context, k + 1, n) BY <1>5
  <2> HIDE DEF t, n
  <2>3. Len(SubSeq(context, k + 1, n)) = IF k + 1 <= n THEN n - (k + 1) + 1 ELSE 0 BY <2>1, <2>2, SubSeqProperties
  <2>4. \A i \in 1 .. n - (k + 1) + 1 : SubSeq(context, k + 1, n)[i] = context[(k + 1) + i - 1]
    BY <2>1, <2>2, SubSeqProperties
  <2>5. q - k \in 1 .. n - (k + 1) + 1 /\ (k + 1) + (q - k) - 1 = q BY <1>1, <1>6 DEF n
  <2>6. Len(t) = n - k BY <1>1, <2>0, <2>3
  <2> QED BY <1>5, <2>0, <2>4, <2>5, <2>6
<1> HIDE DEF t
<1>8. q - k \in 1 .. Len(t) BY <1>1, <1>6, <1>7
<1>9. q - k \in Visible(t) BY <1>7, <1>8 DEF Visible
<1> QED BY <1>4, <1>9 DEF Shows, t

(* The prompts of the streamed jobs end whole, and what is kept shows it.  *)
LEMMA PromptsEnd ==
  ASSUME Ctx \in Nat, Ctx >= 2, NEW context \in Prompts
  PROVE  /\ context \in Seq(Kinds) /\ Whole(context)
         /\ Shows(context) => Shows(NewDecoder(context).tokens)
<1>1. {"word", "special", "b1", "b2"} \in SUBSET Kinds BY DEF Kinds
<1>2. CASE context = << >>
  <2>1. Visible(context) = {} BY <1>2 DEF Visible
  <2>2. context \in Seq(Kinds) BY <1>2, EmptySeq
  <2> QED BY <2>1, <2>2 DEF Shows, Whole
<1>3. CASE context = <<"special">>
  <2>1. context \in Seq(Kinds) BY <1>1, <1>3
  <2>2. Visible(context) = {} BY <1>3 DEF Visible
  <2> QED BY <2>1, <2>2 DEF Shows, Whole
<1>4. CASE context = <<"word">>
  <2>1. context \in Seq(Kinds) BY <1>1, <1>4
  <2>2. Len(context) = 1 /\ context[1] = "word" BY <1>4
  <2>3. 1 \in 1 .. Len(context) /\ 1 + 1 .. Len(context) = {} /\ Len(context) - 1 < Ctx BY <2>2
  <2> QED BY <2>1, <2>2, <2>3, EndsWhole
<1>5. CASE context = <<"word", "special">>
  <2>1. context \in Seq(Kinds) BY <1>1, <1>5
  <2>2. Len(context) = 2 /\ context[1] = "word" /\ context[2] = "special" BY <1>5
  <2>3. 1 \in 1 .. Len(context) /\ 1 + 1 .. Len(context) = {2} /\ Len(context) - 1 < Ctx BY <2>2
  <2>4. \A i \in 1 + 1 .. Len(context) : context[i] = "special" BY <2>2, <2>3
  <2> QED BY <2>1, <2>2, <2>3, <2>4, EndsWhole
<1>6. CASE context = <<"word", "b1", "b2">>
  <2>1. context \in Seq(Kinds) BY <1>1, <1>6
  <2>2. Len(context) = 3 /\ context[3] = "b2" BY <1>6
  <2>3. 3 \in 1 .. Len(context) /\ 3 + 1 .. Len(context) = {} /\ Len(context) - 3 < Ctx BY <2>2
  <2> QED BY <2>1, <2>2, <2>3, EndsWhole
<1>7. CASE context = <<"word", "word", "special">>
  <2>1. context \in Seq(Kinds) BY <1>1, <1>7
  <2>2. Len(context) = 3 /\ context[2] = "word" /\ context[3] = "special" BY <1>7
  <2>3. 2 \in 1 .. Len(context) /\ 2 + 1 .. Len(context) = {3} /\ Len(context) - 2 < Ctx BY <2>2
  <2>4. \A i \in 2 + 1 .. Len(context) : context[i] = "special" BY <2>2, <2>3
  <2> QED BY <2>1, <2>2, <2>3, <2>4, EndsWhole
<1> QED BY <1>2, <1>3, <1>4, <1>5, <1>6, <1>7 DEF Prompts

(* A job of the decoding specification that streams has a prompt and tokens. *)
StreamsKnown == job.kind = "stream" => job.prompt \in Prompts /\ job.ids \in Seq(Kinds)

(* In every state of the decoding specification the streamed text, with    *)
(* the flush, is that of all of the tokens decoded at once, for every      *)
(* context of two tokens or more and every limit the window is drained at. *)
THEOREM DecodedAlwaysWhole ==
  ASSUME Ctx \in Nat, Ctx >= 2
  PROVE  MCSpec => []DecodedWhole
<1> DEFINE v == <<which, filterVars, job>>
<1>1. MCInit => StreamsKnown BY DEF MCInit, NoJob, StreamsKnown
<1>2. StreamsKnown /\ [MCNext]_v => StreamsKnown'
  <2> SUFFICES ASSUME StreamsKnown, [MCNext]_v PROVE StreamsKnown' OBVIOUS
  <2>1. CASE UNCHANGED job BY <2>1 DEF StreamsKnown
  <2>2. CASE Draws
    <3>1. job'.kind = "draw" BY <2>2 DEF Draws
    <3> QED BY <3>1 DEF StreamsKnown
  <2>3. CASE PenaltyCalls
    <3>1. job'.kind = "penalties" BY <2>3 DEF PenaltyCalls
    <3> QED BY <3>1 DEF StreamsKnown
  <2>4. CASE Streams
    <3>1. job'.prompt \in Prompts /\ job'.ids \in UNION {[1 .. n -> Kinds] : n \in 1 .. 5} BY <2>4 DEF Streams
    <3>2. PICK n \in 1 .. 5 : job'.ids \in [1 .. n -> Kinds] BY <3>1
    <3>3. job'.ids \in Seq(Kinds) BY <3>2
    <3> QED BY <3>1, <3>3 DEF StreamsKnown
  <2> QED BY <2>1, <2>2, <2>3, <2>4 DEF MCNext, Job
<1>3. StreamsKnown => DecodedWhole
  <2> SUFFICES ASSUME StreamsKnown, job.kind = "stream"
               PROVE  Streamed(job.prompt, job.ids) = DiffSuffix(Decode(job.prompt), Decode(job.prompt \o job.ids))
    BY DEF DecodedWhole
  <2>1. job.prompt \in Prompts /\ job.ids \in Seq(Kinds) BY DEF StreamsKnown
  <2> QED BY <2>1, PromptsEnd, StreamedWhole
<1> QED BY <1>1, <1>2, <1>3, PTL DEF MCSpec

-----------------------------------------------------------------------------
(* The generator.                                                          *)

State == INSTANCE ModelStatesProofs
           WITH MaxLen <- MaxSeq, MaxSnaps <- 0, snaps <- {}, ret <- TRUE,
                DraftLen <- 0, MaxBatch <- 0, FlushRows <- 0,
                CacheLen <- 0, Heads <- 0, Initial <- 0, MaxCopies <- 0,
                which <- "recurrent", fed <- <<>>, seq <- <<>>, ctx <- <<>>, pend <- <<>>,
                ring <- FALSE, cached <- <<>>, cap <- 0, buf <- <<>>, copies <- {}

Tokens == Seq(Token)
Good(s) == State!Good(s)
Held(s) == State!Held(s)
Copy(snap) == State!Copy(snap)

-----------------------------------------------------------------------------
(* The methods of the instance are those of the generator's state.         *)
LEMMA SameMethods ==
  /\ State!NewState = NewState
  /\ \A s : State!HasPending(s) <=> HasPending(s)
  /\ \A s : State!Reset(s) = Reset(s) /\ State!Checkpoint(s) = Checkpoint(s)
  /\ \A s, x : State!Forward(s, x) = Forward(s, x)
  /\ \A s, x : State!ForwardProvisional(s, x) = ForwardProvisional(s, x)
  /\ \A s, len : State!CommitPending(s, len) = CommitPending(s, len)
  /\ \A s, len : State!RollBack(s, len) = RollBack(s, len)
  /\ \A s, len : State!Truncate(s, len) = Truncate(s, len)
  /\ \A s, len : State!CanSnapshot(s, len) <=> CanSnapshot(s, len)
  /\ \A s, len : State!Snapshot(s, len) = Snapshot(s, len)
  /\ \A s, snap : State!Restore(s, snap) = Restore(s, snap)
  /\ \A s, n : State!First(s, n) = First(s, n)
<1>1. State!NoCkpt = NoCkpt /\ State!NoPend = NoPend
  BY DEF State!NoCkpt, NoCkpt, State!NoPend, NoPend
<1>2. \A s : State!HasPending(s) <=> HasPending(s)
  BY DEF State!HasPending, HasPending
<1>3. \A s : State!Reset(s) = Reset(s)
  BY <1>1 DEF State!Reset, Reset
<1>4. \A s : State!Refuse(s) = Refuse(s) /\ State!Ok(s) = Ok(s)
  BY DEF State!Refuse, Refuse, State!Ok, Ok
<1>5. \A s : State!Discarded(s) = Discarded(s)
  BY <1>1, <1>2 DEF State!Discarded, Discarded
<1>6. \A kv, rows : State!Overlaid(kv, rows) = Overlaid(kv, rows)
  BY DEF State!Overlaid, Overlaid
<1>7. \A kv, pos, rec, x : State!RowsFor(kv, pos, rec, x) = RowsFor(kv, pos, rec, x)
  BY DEF State!RowsFor, RowsFor
<1>8. \A s, x : State!Forward(s, x) = Forward(s, x)
  BY <1>6, <1>7 DEF State!Forward, Forward
<1>9. \A s, x : State!ForwardProvisional(s, x) = ForwardProvisional(s, x)
  BY <1>6, <1>7 DEF State!ForwardProvisional, ForwardProvisional
<1>10. \A s, len : State!CommitPending(s, len) = CommitPending(s, len)
  BY <1>1, <1>4, <1>5 DEF State!CommitPending, CommitPending, State!Replayed, Replayed
<1>11. \A s, len : State!RollBack(s, len) = RollBack(s, len)
  BY <1>3, <1>4 DEF State!RollBack, RollBack
<1>12. \A s, len : State!Truncate(s, len) = Truncate(s, len)
  BY <1>2, <1>5, <1>10, <1>11 DEF State!Truncate, Truncate
<1>13. \A s : State!Checkpoint(s) = Checkpoint(s)
  BY <1>2, <1>10 DEF State!Checkpoint, Checkpoint, State!Settled, Settled
<1>14. \A s, len : State!CanSnapshot(s, len) <=> CanSnapshot(s, len)
  BY <1>2 DEF State!CanSnapshot, CanSnapshot
<1>15. \A s, len : State!Snapshot(s, len) = Snapshot(s, len)
  BY DEF State!Snapshot, Snapshot
<1>16. \A s, snap : State!Restore(s, snap) = Restore(s, snap)
  BY <1>1, <1>6 DEF State!Restore, Restore
<1>17. State!NewState = NewState
  BY <1>1 DEF State!NewState, NewState
<1>18. \A s, n : State!First(s, n) = First(s, n)
  BY DEF State!First, First
<1> QED
  BY <1>2, <1>3, <1>8, <1>9, <1>10, <1>11, <1>12, <1>13, <1>14, <1>15, <1>16, <1>17, <1>18

(* What State assumes of its constants holds here.                         *)
LEMMA Lent == State!StateAssumption /\ State!CacheAssumption
BY GeneratorAssumption DEF State!StateAssumption, State!CacheAssumption

(* A good state has a pending forward if its base says so.                 *)
LEMMA Pending ==
  ASSUME NEW s, Good(s)
  PROVE  /\ HasPending(s) <=> s.pend.base >= 0
         /\ Held(s) \in Tokens /\ s.len = Len(Held(s)) /\ s.len \in Nat
         /\ s.ckpt.len = -1 \/ s.ckpt.len \in 0 .. s.len
<1>1. State!Good(s)
  BY DEF Good
<1>2. /\ State!Held(s) \in State!Tokens /\ Len(State!Held(s)) = s.len /\ s.len \in Nat
      /\ Len(s.rec) \in Nat /\ Len(s.rec) <= s.len
      /\ s.ckpt.len = -1 \/ State!Marked(s)
  BY <1>1, Lent, State!Parts
<1>3. State!Marked(s) => s.ckpt.len \in 0 .. Len(s.rec)
  BY DEF State!Marked
<1> QED
  BY <1>2, <1>3 DEF HasPending, Held, Tokens, State!Tokens

(* A new state is good and holds nothing.                                  *)
LEMMA NewIsGood == Good(NewState) /\ Held(NewState) = <<>>
BY Lent, SameMethods, State!Fresh DEF Good, Held

(* A forward adds its tokens, a provisional one to be committed.           *)
LEMMA Feeds ==
  ASSUME NEW s, Good(s), ~HasPending(s), NEW tokens \in Tokens
  PROVE  /\ Good(Forward(s, tokens)) /\ Held(Forward(s, tokens)) = Held(s) \o tokens
         /\ Forward(s, tokens).pend.base = -1
         /\ Good(ForwardProvisional(s, tokens))
         /\ Held(ForwardProvisional(s, tokens)) = Held(s) \o tokens
         /\ ForwardProvisional(s, tokens).pend.base = Len(Held(s))
<1>1. State!Good(s) /\ ~State!HasPending(s) /\ tokens \in State!Tokens
  BY SameMethods DEF Good, Tokens, State!Tokens
<1>2. LET t == State!Forward(s, tokens)
      IN  State!Good(t) /\ State!Held(t) = State!Held(s) \o tokens /\ t.pend.base = -1
  BY <1>1, Lent, State!Forwarded
<1>3. LET t == State!ForwardProvisional(s, tokens)
      IN  /\ State!Good(t) /\ State!Held(t) = State!Held(s) \o tokens
          /\ t.pend.base = Len(State!Held(s))
  BY <1>1, Lent, State!ForwardedProvisionally
<1> QED
  BY <1>2, <1>3, SameMethods DEF Good, Held

(* A commit keeps the tokens up to a length, or refuses and keeps a good   *)
(* state.                                                                  *)
LEMMA Commits ==
  ASSUME NEW s, Good(s), HasPending(s), NEW len \in Nat
  PROVE  /\ Good(Commit(s, len).st) /\ Commit(s, len).st.pend.base = -1
         /\ Commit(s, len).ok => Held(Commit(s, len).st) = First(Held(s), len)
<1>1. State!Good(s) /\ State!HasPending(s) /\ Commit(s, len) = State!CommitPending(s, len)
  BY SameMethods DEF Good, Commit
<1>2. LET r == State!CommitPending(s, len)
      IN  /\ State!Good(r.st) /\ r.st.pend.base = -1
          /\ r.ok => State!Held(r.st) = State!First(State!Held(s), len)
  BY <1>1, Lent, State!Committed
<1> QED
  BY <1>1, <1>2, SameMethods DEF Good, Held

(* Without a pending forward a state is cut to its length, to its          *)
(* checkpoint or to nothing, and is as it was when it is refused.          *)
LEMMA Cuts ==
  ASSUME NEW s, Good(s), ~HasPending(s), NEW len \in Nat, len <= s.len
  PROVE  LET r == Truncate(s, len)
         IN  /\ Good(r.st) /\ r.st.pend.base = -1 /\ r.ok \in BOOLEAN
             /\ r.ok <=> len \in {Len(Held(s)), 0, s.ckpt.len}
             /\ r.ok => Held(r.st) = First(Held(s), len)
             /\ ~r.ok => r.st = s
<1>1. State!Good(s) /\ ~State!HasPending(s)
  BY SameMethods DEF Good
<1>2. Truncate(s, len) = State!RollBack(s, len)
  BY SameMethods DEF Truncate, Discarded
<1>3. LET r == State!RollBack(s, len)
      IN  /\ State!Good(r.st) /\ r.st.pend.base = -1 /\ r.ok \in BOOLEAN
          /\ r.ok <=> len \in {Len(State!Held(s)), 0, s.ckpt.len}
          /\ r.ok => State!Held(r.st) = State!First(State!Held(s), len)
          /\ ~r.ok => r.st = s
  BY <1>1, Lent, State!RolledBack
<1> QED
  BY <1>2, <1>3, SameMethods DEF Good, Held

(* A reset state holds nothing.                                            *)
LEMMA Resets ==
  ASSUME NEW s, Good(s)
  PROVE  Good(Reset(s)) /\ Held(Reset(s)) = <<>> /\ Reset(s).pend.base = -1
BY Lent, SameMethods, State!Cleared DEF Good, Held

(* A restored state holds what the snapshot is of.                         *)
LEMMA Restores ==
  ASSUME NEW s, Good(s), NEW snap, Copy(snap)
  PROVE  /\ Good(Restore(s, snap)) /\ Held(Restore(s, snap)) = snap.rec
         /\ Restore(s, snap).pend.base = -1
<1>1. State!Good(s) /\ State!Copy(snap)
  BY DEF Good, Copy
<1>2. LET t == State!Restore(s, snap)
      IN  State!Good(t) /\ State!Held(t) = snap.rec /\ t.pend.base = -1
  BY <1>1, Lent, State!Restored
<1> QED
  BY <1>2, SameMethods DEF Good, Held

(* A checkpoint changes nothing of what is held.                           *)
LEMMA Marks ==
  ASSUME NEW s, Good(s)
  PROVE  /\ Good(Checkpoint(s)) /\ Held(Checkpoint(s)) = Held(s)
         /\ Checkpoint(s).pend.base = -1
<1>1. LET t == State!Checkpoint(s)
      IN  State!Good(t) /\ State!Held(t) = State!Held(s) /\ t.pend.base = -1
  BY Lent, State!Checkpointed DEF Good
<1> QED
  BY <1>1, SameMethods DEF Good, Held

(* A snapshot is a copy of the tokens up to its length.                    *)
LEMMA Snaps ==
  ASSUME NEW s, Good(s), NEW len \in Nat, CanSnapshot(s, len)
  PROVE  Copy(Snapshot(s, len)) /\ Snapshot(s, len).rec = First(Held(s), len)
<1>1. State!Good(s) /\ State!CanSnapshot(s, len)
  BY SameMethods DEF Good
<1>2. /\ State!Copy(State!Snapshot(s, len))
      /\ State!Snapshot(s, len).rec = State!First(State!Held(s), len)
  BY <1>1, Lent, State!Snapped
<1> QED
  BY <1>2, SameMethods DEF Copy, Held

-----------------------------------------------------------------------------
(* Prefixes and extremes.                                                  *)
LEMMA FirstIs ==
  ASSUME NEW s \in Tokens, NEW n \in 0 .. Len(s)
  PROVE  /\ First(s, n) \in Tokens /\ Len(First(s, n)) = n
         /\ First(s, Len(s)) = s /\ First(s, 0) = <<>>
         /\ \A m \in 0 .. n : First(First(s, n), m) = First(s, m)
<1>1. s \in Seq(Token)
  BY DEF Tokens
<1>2. State!First(s, n) \in Seq(Token) /\ Len(State!First(s, n)) = n
  BY <1>1, Lent, State!FirstProps
<1>3. State!First(s, Len(s)) = s /\ State!First(s, 0) = <<>>
  BY <1>1, Lent, State!FirstAll
<1>4. \A m \in 0 .. n : State!First(State!First(s, n), m) = State!First(s, m)
  BY <1>1, Lent, State!FirstOfFirst
<1> QED
  BY <1>2, <1>3, <1>4, SameMethods DEF Tokens

(* Prefixes of a concatenation.                                            *)
LEMMA FirstOfBoth ==
  ASSUME NEW a \in Tokens, NEW b \in Tokens
  PROVE  /\ a \o b \in Tokens /\ Len(a \o b) = Len(a) + Len(b) /\ a \o <<>> = a
         /\ \A n \in 0 .. Len(a) : First(a \o b, n) = First(a, n)
         /\ \A n \in 0 .. Len(b) : First(a \o b, Len(a) + n) = a \o First(b, n)
<1>1. a \in Seq(Token) /\ b \in Seq(Token)
  BY DEF Tokens
<1>2. /\ \A n \in 0 .. Len(a) : State!First(a \o b, n) = State!First(a, n)
      /\ \A n \in 0 .. Len(b) : State!First(a \o b, Len(a) + n) = a \o State!First(b, n)
  BY <1>1, Lent, State!FirstOfConcat
<1>3. a \o b \in Seq(Token) /\ Len(a \o b) = Len(a) + Len(b) /\ a \o <<>> = a
  BY <1>1, ConcatProperties, ConcatEmptySeq
<1> QED
  BY <1>2, <1>3, SameMethods DEF Tokens

(* A prefix and the tokens after it.                                       *)
LEMMA Prolonged ==
  ASSUME NEW s \in Tokens, NEW a \in 0 .. Len(s), NEW b \in a .. Len(s)
  PROVE  /\ SubSeq(s, a + 1, b) \in Tokens /\ Len(SubSeq(s, a + 1, b)) = b - a
         /\ First(s, a) \o SubSeq(s, a + 1, b) = First(s, b)
<1> DEFINE f == First(s, a)
           g == SubSeq(s, a + 1, b)
           h == f \o g
           k == First(s, b)
<1>1. s \in Seq(Token) /\ Len(s) \in Nat /\ \A i \in 1 .. Len(s) : s[i] \in Token
  BY LenProperties, ElementOfSeq DEF Tokens
<1>2. \A i \in a + 1 .. b : s[i] \in Token
  BY <1>1
<1>3. a + 1 \in Int /\ b \in Int /\ a \in Nat /\ b \in Nat /\ a <= b /\ b <= Len(s)
  BY <1>1
<1>4. /\ g \in Seq(Token) /\ Len(g) = (IF a + 1 <= b THEN b - (a + 1) + 1 ELSE 0)
      /\ \A i \in 1 .. b - (a + 1) + 1 : g[i] = s[a + 1 + i - 1]
  BY <1>1, <1>2, <1>3, SubSeqProperties
<1> HIDE DEF g
<1>5. /\ g \in Seq(Token) /\ Len(g) = b - a
      /\ \A i \in 1 .. b - a : g[i] = s[a + i]
  BY <1>3, <1>4
<1>6. /\ f \in Seq(Token) /\ Len(f) = a /\ \A i \in 1 .. a : f[i] = s[i]
  BY <1>1, Lent, State!FirstProps, SameMethods
<1>7. /\ k \in Seq(Token) /\ Len(k) = b /\ \A i \in 1 .. b : k[i] = s[i]
  <2>1. b \in 0 .. Len(s)
    BY <1>3
  <2>2. /\ State!First(s, b) \in Seq(Token) /\ Len(State!First(s, b)) = b
        /\ \A i \in 1 .. b : State!First(s, b)[i] = s[i]
    BY <1>1, <2>1, Lent, State!FirstProps
  <2> QED
    BY <2>2, SameMethods
<1> HIDE DEF f, k
<1>8. /\ h \in Seq(Token) /\ Len(h) = a + (b - a)
      /\ \A i \in 1 .. a + (b - a) : h[i] = IF i <= a THEN f[i] ELSE g[i - a]
  <2>1. /\ h \in Seq(Token) /\ Len(h) = Len(f) + Len(g)
        /\ \A i \in 1 .. Len(f) + Len(g) : h[i] = IF i <= Len(f) THEN f[i] ELSE g[i - Len(f)]
    BY <1>5, <1>6, ConcatProperties
  <2> HIDE DEF h
  <2> QED
    BY <1>5, <1>6, <2>1
<1> HIDE DEF h
<1>9. ASSUME NEW i \in 1 .. Len(k) PROVE k[i] = h[i]
  <2>1. i \in 1 .. b /\ i \in 1 .. a + (b - a) /\ i \in Int
    BY <1>3, <1>7
  <2>2. h[i] = IF i <= a THEN f[i] ELSE g[i - a]
    BY <1>8, <2>1
  <2>3. CASE i <= a
    BY <1>6, <1>7, <2>1, <2>2, <2>3
  <2>4. CASE ~(i <= a)
    <3>1. i - a \in 1 .. b - a /\ a + (i - a) = i
      BY <1>3, <2>1, <2>4
    <3> QED
      BY <1>5, <1>7, <2>1, <2>2, <2>4, <3>1
  <2> QED
    BY <2>3, <2>4
<1>10. k = h
  <2>1. Len(k) = Len(h)
    BY <1>3, <1>7, <1>8
  <2> QED
    BY <1>7, <1>8, <1>9, <2>1, SeqEqual
<1> QED
  BY <1>5, <1>10 DEF Tokens, g, h, f, k

(* A set of numbers that is not empty has a least one.                     *)
LEMMA LeastIs ==
  ASSUME NEW S \in SUBSET Nat, S # {}
  PROVE  Least(S) \in S /\ \A n \in S : Least(S) <= n
<1> DEFINE R == OpToRel(<, Nat)
<1>1. \A a, b \in Nat : a < b => <<a, b>> \in R
  <2>1. R = {ss \in Nat \X Nat : ss[1] < ss[2]}
    BY Zenon DEF OpToRel
  <2> QED
    BY <2>1
<1>2. IsWellFoundedOn(R, Nat)
  BY NatLessThanWellFounded
<1> HIDE DEF R
<1>3. PICK m \in S : \A n \in S : <<n, m>> \notin R
  BY <1>2, WFMin, Zenon
<1>4. ASSUME NEW n \in S PROVE m <= n
  <2>1. n \in Nat /\ m \in Nat
    OBVIOUS
  <2>2. ~(n < m)
    BY <1>1, <1>3, <2>1, Zenon
  <2> QED
    BY <2>1, <2>2
<1> QED
  BY <1>4 DEF Least

(* The greatest is as far from the bound as can be.                        *)
LEMMA GreatestIs ==
  ASSUME NEW top \in Nat, NEW S \in SUBSET (0 .. top), S # {}
  PROVE  Greatest(S) \in S /\ \A n \in S : n <= Greatest(S)
<1> DEFINE gaps == {top - n : n \in S}
<1>1. gaps \in SUBSET Nat /\ gaps # {}
  <2>1. \A n \in S : top - n \in Nat
    OBVIOUS
  <2> QED
    BY <2>1
<1>2. Least(gaps) \in gaps /\ \A g \in gaps : Least(gaps) <= g
  <2> HIDE DEF gaps
  <2> QED
    BY <1>1, LeastIs
<1>3. PICK m \in S : top - m = Least(gaps)
  BY <1>2
<1>4. \A n \in S : n <= m
  <2>1. \A n \in S : top - m <= top - n
    BY <1>2, <1>3
  <2> QED
    BY <2>1
<1> QED
  BY <1>4 DEF Greatest

(* The common prefix is common, and the longest such.                      *)
LEMMA CommonIs ==
  ASSUME NEW s \in Tokens, NEW t \in Tokens
  PROVE  LET c == CommonPrefix(s, t)
         IN  /\ c \in 0 .. Len(s) /\ c <= Len(t) /\ First(s, c) = First(t, c)
             /\ \A n \in 0 .. Len(s) : n <= Len(t) /\ First(s, n) = First(t, n) => n <= c
<1> DEFINE top == Lesser(Len(s), Len(t))
           S == {n \in 0 .. top : First(s, n) = First(t, n)}
<1>1. Len(s) \in Nat /\ Len(t) \in Nat
  BY LenProperties DEF Tokens
<1>2. /\ top \in Nat /\ top <= Len(s) /\ top <= Len(t)
      /\ \A n \in Nat : n <= Len(s) /\ n <= Len(t) => n <= top
  BY <1>1 DEF Lesser
<1>3. 0 \in S
  <2>1. First(s, 0) = <<>> /\ First(t, 0) = <<>>
    BY <1>1, FirstIs
  <2> QED
    BY <1>2, <2>1
<1>4. CommonPrefix(s, t) = Greatest(S)
  BY DEF CommonPrefix
<1>5. \A n : n \in S <=> n \in 0 .. top /\ First(s, n) = First(t, n)
  OBVIOUS
<1> HIDE DEF S, top
<1>6. S \in SUBSET (0 .. top) /\ S # {}
  BY <1>3, <1>5
<1>7. Greatest(S) \in S /\ \A n \in S : n <= Greatest(S)
  BY <1>2, <1>6, GreatestIs
<1> QED
  BY <1>1, <1>2, <1>4, <1>5, <1>7

-----------------------------------------------------------------------------
(* What is believed is so; what is not believed is at least consistent.    *)
Believed ==
  phase # "idle" \/ fed # <<>> =>
    /\ Held(st) = fed \o batch
    /\ st.pend.base = IF phase = "verify" THEN Len(fed) ELSE -1

(* An entry of the cache is a copy of the tokens it is filed under.        *)
Filing == \A e \in cache : e \in Entry /\ Copy(e.snap) /\ e.snap.rec = e.tokens

(* Prefill stops last at the prompt's end, and not before something is     *)
(* fed.                                                                    *)
Prefilling ==
  phase = "prefill" =>
    /\ prompt \in Prompt /\ left \in Nat \ {0}
    /\ StartsWith(prompt, fed)
    /\ stops \subseteq Len(fed) .. Len(prompt) /\ Len(prompt) \in stops
    /\ logits = fed \/ (logits = <<>> /\ Len(fed) < Len(prompt))

(* Decoding continues from all tokens, and never past the budget.          *)
Decoding ==
  phase \in {"decode", "verify"} =>
    /\ left \in Nat \ {0} /\ Len(batch) <= left
    /\ logits = fed /\ StartsWith(fed, prompt)

GeneratorInv ==
  /\ phase \in {"idle", "prefill", "decode", "verify"}
  /\ fed \in Tokens /\ batch \in Tokens /\ prompt \in Tokens
  /\ phase # "verify" => batch = <<>>
  /\ Good(st)
  /\ Believed /\ Filing /\ Prefilling /\ Decoding

(* A prompt has a token, and room is left after it.                        *)
LEMMA PromptIs ==
  ASSUME NEW p \in Prompt
  PROVE  p \in Tokens /\ Len(p) \in Nat \ {0} /\ Len(p) < MaxSeq /\ MaxSeq \in Nat
BY GeneratorAssumption DEF Tokens

(* Between requests the state holds what is believed, if anything is.      *)
LEMMA AtRest ==
  ASSUME GeneratorInv, phase = "idle", fed # <<>>
  PROVE  Held(st) = fed /\ st.pend.base = -1 /\ ~HasPending(st) /\ st.len = Len(fed)
<1>1. Held(st) = fed \o batch /\ batch = <<>> /\ st.pend.base = -1
  BY DEF GeneratorInv, Believed
<1>2. Held(st) = fed
  BY <1>1, FirstOfBoth DEF GeneratorInv
<1> QED
  BY <1>1, <1>2, Pending DEF GeneratorInv

-----------------------------------------------------------------------------
(* reusable_prefix keeps tokens that the prompt shares, and holds them;    *)
(* and it keeps as much as the checkpoint has.                             *)
KeptOf(k, p) ==
  /\ k.keep \in Nat
  /\ Good(k.st)
  /\ k.keep > 0 =>
       /\ k.keep <= Len(fed) /\ k.keep < Len(p)
       /\ First(fed, k.keep) = First(p, k.keep)
       /\ Held(k.st) = First(fed, k.keep) /\ k.st.pend.base = -1

(* What reusable_prefix keeps is at most the common prefix, and at least   *)
(* a checkpoint within it.                                                 *)
LEMMA ReusableIs ==
  ASSUME GeneratorInv, phase = "idle", NEW p \in Prompt
  PROVE  LET k == Reusable(p)
             target == Lesser(CommonPrefix(fed, p), Len(p) - 1)
         IN  /\ KeptOf(k, p) /\ k.keep <= target
             /\ fed # <<>> /\ st.ckpt.len \in 1 .. target => k.keep >= st.ckpt.len
<1> DEFINE c == CommonPrefix(fed, p)
           target == Lesser(c, Len(p) - 1)
           back == Truncate(st, target)
           cp == st.ckpt.len
           again == Truncate(st, cp)
<1>1. /\ p \in Tokens /\ fed \in Tokens /\ Len(p) \in Nat /\ Len(p) >= 1 /\ Len(fed) \in Nat
      /\ Good(st)
  BY PromptIs, LenProperties DEF GeneratorInv, Tokens
<1>2. c \in 0 .. Len(fed) /\ First(fed, c) = First(p, c)
  BY <1>1, CommonIs
<1> HIDE DEF c
<1>3. target \in Nat /\ target <= c /\ target <= Len(fed) /\ target < Len(p) /\ target \in 0 .. c
  BY <1>1, <1>2 DEF Lesser
<1> HIDE DEF target
<1>4. \A n \in 0 .. target : First(fed, n) = First(p, n)
  <2> SUFFICES ASSUME NEW n \in 0 .. target PROVE First(fed, n) = First(p, n)
    OBVIOUS
  <2>1. n \in 0 .. c /\ c \in 0 .. Len(p)
    BY <1>1, <1>2, <1>3, CommonIs DEF c
  <2>2. First(First(fed, c), n) = First(fed, n) /\ First(First(p, c), n) = First(p, n)
    BY <1>1, <1>2, <2>1, FirstIs
  <2> QED
    BY <1>2, <2>2
<1>5. Reusable(p) =
        IF target = 0 THEN [st |-> st, keep |-> 0]
        ELSE IF target = Len(fed) THEN [st |-> st, keep |-> target]
        ELSE IF back.ok THEN [st |-> back.st, keep |-> target]
        ELSE FromCheckpoint(back.st, target)
  BY DEF Reusable, target, c
<1>6. CASE target = 0
  <2>1. Reusable(p) = [st |-> st, keep |-> 0]
    BY <1>5, <1>6
  <2> QED
    BY <1>1, <1>6, <2>1 DEF KeptOf, target, c
<1>7. CASE target # 0
  <2>1. fed # <<>>
    BY <1>3, <1>7
  <2>2. Held(st) = fed /\ st.pend.base = -1 /\ ~HasPending(st) /\ st.len = Len(fed)
    BY <2>1, AtRest
  <2>3. CASE target = Len(fed)
    <3>1. Reusable(p) = [st |-> st, keep |-> target]
      BY <1>5, <1>7, <2>3
    <3>2. First(fed, target) = fed
      BY <1>1, <2>3, FirstIs
    <3>3. KeptOf([st |-> st, keep |-> target], p)
      BY <1>1, <1>3, <1>4, <2>2, <3>2 DEF KeptOf
    <3> QED
      BY <1>3, <3>1, <3>3 DEF target, c
  <2>4. /\ Good(back.st) /\ back.st.pend.base = -1 /\ back.ok \in BOOLEAN
        /\ back.ok => Held(back.st) = First(fed, target)
        /\ ~back.ok => back.st = st
    BY <1>1, <1>3, <2>2, Cuts
  <2> HIDE DEF back
  <2>5. CASE target # Len(fed) /\ back.ok
    <3>1. Reusable(p) = [st |-> back.st, keep |-> target]
      BY <1>5, <1>7, <2>5
    <3>2. KeptOf([st |-> back.st, keep |-> target], p)
      BY <1>3, <1>4, <2>4, <2>5 DEF KeptOf
    <3> QED
      BY <1>3, <3>1, <3>2 DEF target, c
  <2>6. CASE target # Len(fed) /\ ~back.ok
    <3>1. Reusable(p) = FromCheckpoint(st, target)
      BY <1>5, <1>7, <2>4, <2>6
    <3>2. CASE ~Within(cp, target)
      <4>1. FromCheckpoint(st, target) = [st |-> st, keep |-> 0]
        BY <3>2 DEF FromCheckpoint
      <4>2. ~(cp \in 1 .. target)
        BY <3>2 DEF Within
      <4>3. KeptOf([st |-> st, keep |-> 0], p)
        BY <1>1 DEF KeptOf
      <4> QED
        BY <1>3, <3>1, <4>1, <4>2, <4>3 DEF target, c, cp
    <3>3. CASE Within(cp, target)
      <4>1. cp \in Nat /\ cp > 0 /\ cp <= target /\ cp <= Len(fed)
        <5>1. st.ckpt.len = -1 \/ st.ckpt.len \in 0 .. st.len
          BY <1>1, Pending
        <5> QED
          BY <1>1, <1>3, <2>2, <3>3, <5>1 DEF Within, cp
      <4>2. Good(again.st) /\ again.st.pend.base = -1 /\ again.ok /\ Held(again.st) = First(fed, cp)
        BY <1>1, <2>2, <4>1, Cuts
      <4>3. FromCheckpoint(st, target) = [st |-> again.st, keep |-> cp]
        BY <3>3, <4>1, <4>2 DEF FromCheckpoint
      <4> HIDE DEF again
      <4>4. First(fed, cp) = First(p, cp)
        BY <1>3, <1>4, <4>1
      <4>5. KeptOf([st |-> again.st, keep |-> cp], p)
        BY <1>1, <1>3, <4>1, <4>2, <4>4 DEF KeptOf
      <4> QED
        BY <1>3, <3>1, <4>1, <4>3, <4>5 DEF target, c, cp
    <3> QED
      BY <3>2, <3>3
  <2> QED
    BY <2>3, <2>5, <2>6
<1> QED
  BY <1>6, <1>7

(* An entry that is found is one of the longest proper prefixes.           *)
LEMMA FoundIs ==
  ASSUME GeneratorInv, NEW p \in Prompt, NEW e \in Found(p)
  PROVE  /\ e # NoEntry => /\ e \in cache /\ e.tokens \in Tokens
                           /\ Copy(e.snap) /\ e.snap.rec = e.tokens
                           /\ Len(e.tokens) < Len(p) /\ StartsWith(p, e.tokens)
         /\ Usable(p) # {} => e # NoEntry /\ \A f \in Usable(p) : Len(f.tokens) <= Len(e.tokens)
<1>1. \A f \in cache : f # NoEntry /\ f.tokens \in Tokens
  BY GeneratorAssumption DEF GeneratorInv, Filing, Entry, Tokens
<1>2. CASE Usable(p) = {}
  BY <1>2 DEF Found
<1>3. CASE Usable(p) # {}
  BY <1>1, <1>3 DEF Found, Usable, GeneratorInv, Filing
<1> QED
  BY <1>2, <1>3

(* The request starts from a proper prefix of its prompt, which the state  *)
(* holds, and from no less than could be kept or was found.                *)
LEMMA PreparedIs ==
  ASSUME GeneratorInv, phase = "idle", NEW p \in Prompt, NEW e \in Found(p)
  PROVE  LET r == Prepared(p, e)
         IN  /\ Good(r.st) /\ Held(r.st) = r.fed /\ r.st.pend.base = -1
             /\ r.fed \in Tokens /\ Len(r.fed) < Len(p) /\ StartsWith(p, r.fed)
             /\ Len(r.fed) >= Kept(p).keep
             /\ \A f \in Usable(p) : Len(r.fed) >= Len(f.tokens)
<1> DEFINE k == Kept(p)
           r == Prepared(p, e)
<1>1. p \in Tokens /\ Len(p) \in Nat /\ Len(p) >= 1 /\ fed \in Tokens /\ Len(fed) \in Nat /\ Good(st)
  BY PromptIs, LenProperties DEF GeneratorInv, Tokens
<1>2. KeptOf(k, p) /\ k.keep <= OwnMax(p)
  <2>1. CASE PrefixCaching
    BY <2>1, ReusableIs DEF Kept, OwnMax
  <2>2. CASE ~PrefixCaching
    BY <1>1, <2>2 DEF Kept, OwnMax, KeptOf
  <2> QED
    BY <2>1, <2>2
<1>3. OwnMax(p) \in Nat
  <2>1. CommonPrefix(fed, p) \in Nat
    BY <1>1, CommonIs
  <2> QED
    BY <1>1, <2>1 DEF OwnMax, Lesser
<1> HIDE DEF k
<1>4. r = IF e # NoEntry /\ Len(e.tokens) > OwnMax(p)
          THEN [st |-> Restore(st, e.snap), fed |-> e.tokens]
          ELSE IF e # NoEntry /\ Len(e.tokens) > k.keep
          THEN [st |-> Restore(k.st, e.snap), fed |-> e.tokens]
          ELSE IF k.keep = 0
          THEN [st |-> Reset(k.st), fed |-> <<>>]
          ELSE [st |-> k.st, fed |-> First(fed, k.keep)]
  BY DEF Prepared, k
<1>5. ASSUME NEW s, Good(s), e # NoEntry, Len(e.tokens) > k.keep,
             r = [st |-> Restore(s, e.snap), fed |-> e.tokens]
      PROVE  /\ Good(r.st) /\ Held(r.st) = r.fed /\ r.st.pend.base = -1
             /\ r.fed \in Tokens /\ Len(r.fed) < Len(p) /\ StartsWith(p, r.fed)
             /\ Len(r.fed) >= k.keep
             /\ \A f \in Usable(p) : Len(r.fed) >= Len(f.tokens)
  <2>1. /\ e.tokens \in Tokens /\ Copy(e.snap) /\ e.snap.rec = e.tokens
        /\ Len(e.tokens) < Len(p) /\ StartsWith(p, e.tokens) /\ Len(e.tokens) \in Nat
        /\ \A f \in Usable(p) : Len(f.tokens) <= Len(e.tokens)
    BY <1>5, FoundIs, LenProperties DEF Tokens
  <2>2. \A f \in Usable(p) : Len(f.tokens) \in Nat
    BY LenProperties DEF Usable, GeneratorInv, Filing, Entry
  <2>3. /\ Good(Restore(s, e.snap)) /\ Held(Restore(s, e.snap)) = e.tokens
        /\ Restore(s, e.snap).pend.base = -1
    BY <1>5, <2>1, Restores
  <2> QED
    BY <1>2, <1>5, <2>1, <2>2, <2>3 DEF KeptOf
<1>6. ASSUME e = NoEntry \/ ~(Len(e.tokens) > k.keep)
      PROVE  \A f \in Usable(p) : k.keep >= Len(f.tokens)
  <2> SUFFICES ASSUME NEW f \in Usable(p) PROVE k.keep >= Len(f.tokens)
    OBVIOUS
  <2>1. e # NoEntry /\ e.tokens \in Tokens /\ Len(f.tokens) <= Len(e.tokens)
    BY FoundIs
  <2>2. Len(e.tokens) \in Nat /\ Len(f.tokens) \in Nat /\ k.keep \in Nat
    BY <1>2, <2>1, LenProperties DEF Usable, GeneratorInv, Filing, Entry, Tokens, KeptOf
  <2> QED
    BY <1>6, <2>1, <2>2
<1>7. CASE e # NoEntry /\ Len(e.tokens) > OwnMax(p)
  <2>1. Len(e.tokens) > k.keep
    <3>1. Len(e.tokens) \in Nat
      BY <1>7, FoundIs, LenProperties DEF Tokens
    <3> QED
      BY <1>2, <1>3, <1>7, <3>1 DEF KeptOf
  <2>2. r = [st |-> Restore(st, e.snap), fed |-> e.tokens]
    BY <1>4, <1>7
  <2> QED
    BY <1>1, <1>5, <1>7, <2>1, <2>2 DEF k
<1>8. CASE ~(e # NoEntry /\ Len(e.tokens) > OwnMax(p)) /\ e # NoEntry /\ Len(e.tokens) > k.keep
  <2>1. r = [st |-> Restore(k.st, e.snap), fed |-> e.tokens]
    BY <1>4, <1>8
  <2>2. Good(k.st)
    BY <1>2 DEF KeptOf
  <2> QED
    BY <1>5, <1>8, <2>1, <2>2 DEF k
<1>9. CASE /\ e = NoEntry \/ ~(Len(e.tokens) > k.keep)
           /\ ~(e # NoEntry /\ Len(e.tokens) > OwnMax(p)) /\ k.keep = 0
  <2>1. r = [st |-> Reset(k.st), fed |-> <<>>]
    BY <1>4, <1>9
  <2>2. Good(Reset(k.st)) /\ Held(Reset(k.st)) = <<>> /\ Reset(k.st).pend.base = -1
    BY <1>2, Resets DEF KeptOf
  <2>3. <<>> \in Tokens /\ Len(<<>>) = 0 /\ First(p, 0) = <<>>
    BY <1>1, EmptySeq, FirstIs DEF Tokens
  <2>4. \A f \in Usable(p) : 0 >= Len(f.tokens)
    BY <1>6, <1>9
  <2> QED
    BY <1>1, <1>9, <2>1, <2>2, <2>3, <2>4 DEF StartsWith, k
<1>10. CASE /\ e = NoEntry \/ ~(Len(e.tokens) > k.keep)
            /\ ~(e # NoEntry /\ Len(e.tokens) > OwnMax(p)) /\ k.keep # 0
  <2>1. r = [st |-> k.st, fed |-> First(fed, k.keep)]
    BY <1>4, <1>10
  <2>2. /\ k.keep > 0 /\ k.keep \in 0 .. Len(fed) /\ k.keep < Len(p)
        /\ First(fed, k.keep) = First(p, k.keep)
        /\ Held(k.st) = First(fed, k.keep) /\ k.st.pend.base = -1 /\ Good(k.st)
    BY <1>1, <1>2, <1>10 DEF KeptOf
  <2>3. First(fed, k.keep) \in Tokens /\ Len(First(fed, k.keep)) = k.keep
    BY <1>1, <2>2, FirstIs
  <2>4. \A f \in Usable(p) : k.keep >= Len(f.tokens)
    BY <1>6, <1>10
  <2> QED
    BY <1>1, <2>1, <2>2, <2>3, <2>4 DEF StartsWith, k
<1> QED
  BY <1>7, <1>8, <1>9, <1>10

-----------------------------------------------------------------------------
(* A request starts from what was prepared; its stops lie between that and *)
(* the end of the prompt.                                                  *)
LEMMA StartKeeps ==
  ASSUME GeneratorInv, NEW p \in Prompt, NEW max \in 1 .. MaxSeq - Len(p),
         NEW boundaries \in SUBSET (1 .. Len(p)), Start(p, max, boundaries)
  PROVE  /\ GeneratorInv'
         /\ Len(fed') >= Kept(p).keep
         /\ \A f \in Usable(p) : Len(fed') >= Len(f.tokens)
<1>1. PICK e \in Found(p) :
        /\ st' = Prepared(p, e).st /\ fed' = Prepared(p, e).fed
        /\ ckptAt' = CheckpointAt(p, Len(fed'), boundaries)
        /\ snapAt' = SnapAt(p, Len(fed'), boundaries)
        /\ stops' = ({Len(p)} \cup snapAt' \cup {ckptAt'}) \ {-1}
  BY DEF Start
<1>2. /\ phase = "idle" /\ phase' = "prefill" /\ prompt' = p /\ left' = max
      /\ logits' = <<>> /\ batch' = <<>> /\ cache' = cache
  BY DEF Start
<1>3. /\ Good(st') /\ Held(st') = fed' /\ st'.pend.base = -1
      /\ fed' \in Tokens /\ Len(fed') < Len(p) /\ StartsWith(p, fed')
      /\ Len(fed') >= Kept(p).keep
      /\ \A f \in Usable(p) : Len(fed') >= Len(f.tokens)
  BY <1>1, <1>2, PreparedIs
<1>4. /\ p \in Tokens /\ Len(p) \in Nat /\ Len(fed') \in Nat /\ left' \in Nat \ {0}
      /\ <<>> \in Tokens /\ fed' \o <<>> = fed'
  BY <1>2, <1>3, PromptIs, LenProperties, EmptySeq, ConcatEmptySeq DEF Tokens
<1>5. PICK from \in Nat : from = Len(fed')
  BY <1>4
<1>6. SnapAt(p, from, boundaries) \subseteq from .. Len(p)
  <2>1. \A b \in boundaries : b \in 1 .. Len(p)
    OBVIOUS
  <2> SUFFICES ASSUME NEW b \in boundaries, b >= from PROVE b \in from .. Len(p)
    BY DEF SnapAt
  <2> QED
    BY <1>4, <2>1
<1>7. CheckpointAt(p, from, boundaries) \in (from .. Len(p)) \cup {-1}
  <2> DEFINE inside == {b \in boundaries : b >= from /\ b < Len(p)}
  <2>1. CASE inside # {}
    <3>1. \A b \in inside : b \in 0 .. Len(p) /\ b \in from .. Len(p)
      <4> SUFFICES ASSUME NEW b \in boundaries, b >= from
                   PROVE  b \in 0 .. Len(p) /\ b \in from .. Len(p)
        OBVIOUS
      <4>1. b \in 1 .. Len(p)
        OBVIOUS
      <4> QED
        BY <1>4, <4>1
    <3>2. Greatest(inside) \in inside
      <4> HIDE DEF inside
      <4> QED
        BY <1>4, <2>1, <3>1, GreatestIs
    <3>3. Greatest(inside) \in from .. Len(p)
      <4> HIDE DEF inside
      <4> QED
        BY <3>1, <3>2
    <3>4. CheckpointAt(p, from, boundaries) \in {-1, Greatest(inside)}
      BY <2>1 DEF CheckpointAt
    <3> QED
      BY <3>3, <3>4
  <2>2. CASE inside = {}
    <3>1. CheckpointAt(p, from, boundaries) \in {-1, Len(p)}
      BY <2>2 DEF CheckpointAt
    <3> QED
      BY <1>3, <1>4, <1>5, <3>1
  <2> QED
    BY <2>1, <2>2
<1>8. stops' \subseteq Len(fed') .. Len(prompt') /\ Len(prompt') \in stops'
  BY <1>1, <1>2, <1>3, <1>4, <1>5, <1>6, <1>7
<1>9. Believed' /\ Filing' /\ Prefilling' /\ Decoding'
  <2>1. Believed'
    BY <1>2, <1>3, <1>4 DEF Believed
  <2>2. Filing'
    BY <1>2 DEF GeneratorInv, Filing
  <2>3. Prefilling'
    BY <1>2, <1>3, <1>4, <1>8 DEF Prefilling
  <2>4. Decoding'
    BY <1>2 DEF Decoding
  <2> QED
    BY <2>1, <2>2, <2>3, <2>4
<1> QED
  BY <1>2, <1>3, <1>4, <1>9 DEF GeneratorInv

(* A piece of the prompt ends at the next stop at the latest.              *)
LEMMA PieceIs ==
  ASSUME GeneratorInv, phase = "prefill", Len(fed) < Least(stops)
  PROVE  /\ Piece \in Tokens /\ Piece # <<>>
         /\ PieceEnd \in Nat /\ Len(fed) < PieceEnd /\ PieceEnd <= Len(prompt)
         /\ PieceEnd = Len(fed) + Len(Piece) /\ \A n \in stops : PieceEnd <= n
         /\ fed \o Piece = First(prompt, PieceEnd)
         /\ CanForward(st, Len(fed), Piece, MaxSeq)
<1>1. /\ prompt \in Prompt /\ prompt \in Tokens /\ Len(prompt) \in Nat /\ Len(prompt) < MaxSeq
      /\ fed \in Tokens /\ Len(fed) \in Nat /\ MaxSeq \in Nat
      /\ StartsWith(prompt, fed) /\ stops \subseteq Len(fed) .. Len(prompt) /\ stops # {}
      /\ PrefillChunk \in Nat \ {0}
  BY GeneratorAssumption, PromptIs, LenProperties DEF GeneratorInv, Prefilling, Tokens
<1>2. Least(stops) \in stops /\ \A n \in stops : Least(stops) <= n
  <2>1. stops \in SUBSET Nat
    BY <1>1
  <2> QED
    BY <1>1, <2>1, LeastIs
<1>3. PICK low \in Nat : low = Least(stops) /\ low \in Len(fed) .. Len(prompt)
  <2>1. Least(stops) \in Len(fed) .. Len(prompt)
    BY <1>1, <1>2
  <2> QED
    BY <1>1, <2>1
<1>4. PICK top \in Nat : /\ top = PieceEnd /\ Len(fed) < top /\ top <= low /\ top <= Len(prompt)
  <2>1. PieceEnd = Lesser(Len(fed) + PrefillChunk, low)
    BY <1>3 DEF PieceEnd
  <2>2. PieceEnd = Len(fed) + PrefillChunk \/ PieceEnd = low
    BY <2>1 DEF Lesser
  <2>3. PieceEnd <= low
    BY <1>1, <1>3, <2>1 DEF Lesser
  <2> QED
    BY <1>1, <1>3, <2>2, <2>3
<1>5. Len(fed) \in 0 .. Len(prompt) /\ top \in Len(fed) .. Len(prompt)
  BY <1>1, <1>4, <1>3
<1>6. /\ Piece \in Tokens /\ Len(Piece) = top - Len(fed)
      /\ First(prompt, Len(fed)) \o Piece = First(prompt, top)
  <2>1. Piece = SubSeq(prompt, Len(fed) + 1, top)
    BY <1>4 DEF Piece
  <2> QED
    BY <1>1, <1>5, <2>1, Prolonged
<1>7. First(prompt, Len(fed)) = fed
  BY <1>1 DEF StartsWith
<1>8. \A n \in stops : top <= n
  BY <1>1, <1>2, <1>3, <1>4
<1>9. Piece # <<>> /\ Len(fed) + Len(Piece) = top
  <2>1. Len(Piece) > 0
    BY <1>1, <1>4, <1>6
  <2>2. Len(fed) + Len(Piece) = top
    BY <1>1, <1>4, <1>6
  <2> QED
    BY <2>1, <2>2, EmptySeq
<1>10. ~HasPending(st) /\ st.len = Len(fed)
  <2>1. Held(st) = fed /\ st.pend.base = -1
    BY <1>1, FirstOfBoth DEF GeneratorInv, Believed
  <2> QED
    BY <2>1, Pending DEF GeneratorInv
<1>11. CanForward(st, Len(fed), Piece, MaxSeq)
  BY <1>1, <1>4, <1>9, <1>10 DEF CanForward
<1> QED
  BY <1>4, <1>6, <1>7, <1>8, <1>9, <1>11

(* A prefill forward adds the next piece of the prompt.                    *)
LEMMA PrefillKeeps ==
  ASSUME GeneratorInv, Prefill
  PROVE  GeneratorInv'
<1>1. /\ phase = "prefill" /\ Len(fed) < Least(stops) /\ phase' = "prefill"
      /\ st' = Forward(st, Piece) /\ fed' = fed \o Piece /\ logits' = fed'
      /\ cache' = cache /\ prompt' = prompt /\ left' = left /\ stops' = stops /\ batch' = batch
  BY DEF Prefill
<1>2. /\ Piece \in Tokens /\ PieceEnd \in Nat /\ PieceEnd <= Len(prompt)
      /\ PieceEnd = Len(fed) + Len(Piece) /\ \A n \in stops : PieceEnd <= n
      /\ fed' = First(prompt, PieceEnd) /\ ~HasPending(st)
  BY <1>1, PieceIs DEF CanForward
<1>3. /\ prompt \in Prompt /\ prompt \in Tokens /\ Len(prompt) \in Nat /\ fed \in Tokens
      /\ batch = <<>> /\ Good(st) /\ Held(st) = fed /\ left \in Nat \ {0}
      /\ stops \subseteq Len(fed) .. Len(prompt) /\ Len(prompt) \in stops
  <2>1. Held(st) = fed \o <<>> /\ batch = <<>>
    BY <1>1 DEF GeneratorInv, Believed
  <2>2. fed \o <<>> = fed
    BY FirstOfBoth DEF GeneratorInv
  <2> QED
    BY <1>1, <2>1, <2>2, LenProperties DEF GeneratorInv, Prefilling, Tokens
<1>4. Good(st') /\ Held(st') = fed' /\ st'.pend.base = -1
  BY <1>1, <1>2, <1>3, Feeds
<1>5. fed' \in Tokens /\ Len(fed') = PieceEnd /\ fed' \o <<>> = fed' /\ StartsWith(prompt, fed')
  <2>1. PieceEnd \in 0 .. Len(prompt)
    BY <1>2, <1>3
  <2>2. fed' \in Tokens /\ Len(fed') = PieceEnd
    BY <1>2, <1>3, <2>1, FirstIs
  <2> QED
    BY <1>2, <2>2, ConcatEmptySeq DEF StartsWith, Tokens
<1>6. stops' \subseteq Len(fed') .. Len(prompt')
  <2> SUFFICES ASSUME NEW n \in stops PROVE n \in PieceEnd .. Len(prompt)
    BY <1>1, <1>5
  <2>1. n \in Len(fed) .. Len(prompt) /\ PieceEnd <= n
    BY <1>2, <1>3
  <2> QED
    BY <1>2, <2>1
<1>7. Believed' /\ Filing' /\ Prefilling' /\ Decoding'
  <2>1. Believed'
    BY <1>1, <1>3, <1>4, <1>5 DEF Believed
  <2>2. Filing'
    BY <1>1 DEF GeneratorInv, Filing
  <2>3. Prefilling'
    BY <1>1, <1>3, <1>5, <1>6 DEF Prefilling
  <2>4. Decoding'
    BY <1>1 DEF Decoding
  <2> QED
    BY <2>1, <2>2, <2>3, <2>4
<1> QED
  BY <1>1, <1>3, <1>4, <1>5, <1>7 DEF GeneratorInv

(* An inserted entry is a copy of what was fed up to the stop.             *)
LEMMA AtStopKeeps ==
  ASSUME GeneratorInv, AtStop
  PROVE  GeneratorInv'
<1> DEFINE at == Least(stops)
           saved == IF ckptAt = at THEN Checkpoint(st) ELSE st
           e == [tokens |-> Filed(at), snap |-> Snapshot(saved, at)]
<1>1. /\ phase = "prefill" /\ Len(fed) = at /\ st' = saved /\ stops' = stops \ {at}
      /\ phase' = IF stops' = {} THEN "decode" ELSE "prefill"
      /\ fed' = fed /\ prompt' = prompt /\ left' = left /\ logits' = logits /\ batch' = batch
      /\ IF at \in snapAt /\ CanSnapshot(saved, at) /\ MaxCache > 0
         THEN cache' \in InsertInto(cache, e)
         ELSE UNCHANGED cache
  BY DEF AtStop
<1>2. /\ prompt \in Prompt /\ prompt \in Tokens /\ Len(prompt) \in Nat /\ fed \in Tokens
      /\ Len(fed) \in Nat /\ batch = <<>> /\ Good(st) /\ left \in Nat \ {0}
      /\ Held(st) = fed /\ st.pend.base = -1 /\ fed \o <<>> = fed
      /\ StartsWith(prompt, fed) /\ stops \subseteq Len(fed) .. Len(prompt)
      /\ Len(prompt) \in stops
      /\ logits = fed \/ (logits = <<>> /\ Len(fed) < Len(prompt))
  <2>1. Held(st) = fed \o <<>> /\ batch = <<>> /\ st.pend.base = -1
    BY <1>1 DEF GeneratorInv, Believed
  <2>2. fed \o <<>> = fed
    BY FirstOfBoth DEF GeneratorInv
  <2> QED
    BY <1>1, <2>1, <2>2, LenProperties DEF GeneratorInv, Prefilling, Tokens
<1>3. Good(saved) /\ Held(saved) = fed /\ saved.pend.base = -1
  BY <1>2, Marks
<1> HIDE DEF saved
<1>4. at = Len(fed) /\ at \in Nat /\ First(fed, at) = fed /\ Filed(at) = fed
  BY <1>1, <1>2, FirstIs DEF Filed, StartsWith
<1>5. CanSnapshot(saved, at) => Copy(Snapshot(saved, at)) /\ Snapshot(saved, at).rec = fed
  BY <1>3, <1>4, Snaps
<1>6. ASSUME CanSnapshot(saved, at) PROVE e \in Entry /\ Copy(e.snap) /\ e.snap.rec = e.tokens
  <2>1. Copy(Snapshot(saved, at)) /\ Snapshot(saved, at).rec = fed
    BY <1>5, <1>6
  <2>2. Snapshot(saved, at) \in [len : Nat, kv : Seq(Seq(Token)), rec : Seq(Token)]
    BY <2>1 DEF Copy, State!Copy, State!Tokens
  <2> QED
    BY <1>2, <1>4, <2>1, <2>2 DEF Entry, Tokens
<1>7. Filing'
  <2>1. CASE at \in snapAt /\ CanSnapshot(saved, at) /\ MaxCache > 0
    <3>1. cache' \subseteq cache \cup {e}
      <4> HIDE DEF e
      <4>1. cache' \in InsertInto(cache, e)
        BY <1>1, <2>1
      <4> QED
        BY <4>1 DEF InsertInto
    <3> HIDE DEF e
    <3> QED
      BY <1>6, <2>1, <3>1 DEF GeneratorInv, Filing
  <2>2. CASE ~(at \in snapAt /\ CanSnapshot(saved, at) /\ MaxCache > 0)
    <3>1. cache' = cache
      BY <1>1, <2>2
    <3> QED
      BY <3>1 DEF GeneratorInv, Filing
  <2> QED
    BY <2>1, <2>2
<1> HIDE DEF at
<1>8. Believed' /\ Good(st') /\ batch' = <<>> /\ phase' \in {"prefill", "decode"}
  BY <1>1, <1>2, <1>3 DEF Believed
<1>9. Prefilling' /\ Decoding'
  <2>1. CASE stops' = {}
    <3>1. Len(prompt) = Len(fed)
      BY <1>1, <1>2, <1>4, <2>1
    <3>2. fed = prompt /\ StartsWith(fed, prompt) /\ logits = fed
      <4>1. First(prompt, Len(fed)) = fed
        BY <1>2 DEF StartsWith
      <4>2. First(prompt, Len(prompt)) = prompt
        BY <1>2, FirstIs
      <4>3. fed = prompt
        BY <3>1, <4>1, <4>2
      <4> QED
        BY <1>2, <3>1, <4>2, <4>3 DEF StartsWith
    <3>3. Len(batch') = 0 /\ phase' = "decode"
      BY <1>1, <1>2, <2>1, EmptySeq
    <3> QED
      BY <1>1, <1>2, <3>2, <3>3 DEF Prefilling, Decoding
  <2>2. CASE stops' # {}
    <3>1. phase' = "prefill"
      BY <1>1, <2>2
    <3>2. Len(prompt) \in stops'
      <4>1. PICK n \in stops : n # Len(fed)
        BY <1>1, <1>4, <2>2
      <4>2. n \in Len(fed) .. Len(prompt)
        BY <1>2
      <4>3. Len(prompt) # Len(fed)
        BY <1>2, <4>1, <4>2
      <4> QED
        BY <1>1, <1>2, <1>4, <4>3
    <3>3. stops' \subseteq Len(fed') .. Len(prompt')
      BY <1>1, <1>2
    <3> QED
      BY <1>1, <1>2, <3>1, <3>2, <3>3 DEF Prefilling, Decoding
  <2> QED
    BY <2>1, <2>2
<1> QED
  BY <1>1, <1>2, <1>7, <1>8, <1>9 DEF GeneratorInv

-----------------------------------------------------------------------------
(* Between requests only the state, what is believed of it and the cache   *)
(* count.                                                                  *)
LEMMA ToIdle ==
  ASSUME GeneratorInv, Idle, cache' = cache, fed' \in Tokens, Good(st'),
         fed' # <<>> => Held(st') = fed' /\ st'.pend.base = -1
  PROVE  GeneratorInv'
<1>1. phase' = "idle" /\ batch' = <<>> /\ prompt' = <<>>
  BY DEF Idle
<1>2. <<>> \in Tokens /\ fed' \o <<>> = fed'
  BY EmptySeq, ConcatEmptySeq DEF Tokens
<1>3. Believed'
  BY <1>1, <1>2 DEF Believed
<1>4. Filing' /\ Prefilling' /\ Decoding'
  BY <1>1 DEF GeneratorInv, Filing, Prefilling, Decoding
<1> QED
  BY <1>1, <1>2, <1>3, <1>4 DEF GeneratorInv

(* Between two forwards of decode the state holds all tokens.              *)
LEMMA WhileDecoding ==
  ASSUME GeneratorInv, phase = "decode"
  PROVE  /\ batch = <<>> /\ Held(st) = fed /\ st.pend.base = -1 /\ ~HasPending(st)
         /\ fed \in Tokens /\ Len(fed) \in Nat /\ prompt \in Tokens /\ Good(st)
         /\ left \in Nat \ {0} /\ logits = fed /\ StartsWith(fed, prompt)
<1>1. Held(st) = fed \o <<>> /\ batch = <<>> /\ st.pend.base = -1
  BY DEF GeneratorInv, Believed
<1>2. fed \o <<>> = fed
  BY FirstOfBoth DEF GeneratorInv
<1> QED
  BY <1>1, <1>2, Pending, LenProperties DEF GeneratorInv, Decoding, Tokens

(* A sequence that begins with the prompt still does when it grows.        *)
LEMMA StillStarts ==
  ASSUME NEW a \in Tokens, NEW b \in Tokens, NEW p \in Tokens, StartsWith(a, p)
  PROVE  StartsWith(a \o b, p)
<1>1. Len(p) \in Nat /\ Len(a) \in Nat /\ Len(b) \in Nat
  BY LenProperties DEF Tokens
<1>2. Len(p) \in 0 .. Len(a) /\ First(a, Len(p)) = p
  BY <1>1 DEF StartsWith
<1>3. Len(a \o b) = Len(a) + Len(b) /\ First(a \o b, Len(p)) = First(a, Len(p))
  BY <1>2, FirstOfBoth
<1>4. Len(p) <= Len(a \o b)
  BY <1>1, <1>2, <1>3
<1> QED
  BY <1>2, <1>3, <1>4 DEF StartsWith

(* The end of a request leaves the state to the next one.                  *)
LEMMA FinishKeeps ==
  ASSUME GeneratorInv, Finish
  PROVE  GeneratorInv'
<1>1. phase = "decode" /\ Idle /\ st' = st /\ fed' = fed /\ cache' = cache
  BY DEF Finish
<1> QED
  BY <1>1, WhileDecoding, ToIdle

(* A sampled token is fed and spends one of the budget.                    *)
LEMMA DecodeOneKeeps ==
  ASSUME GeneratorInv, NEW tok \in Token, DecodeOne(tok)
  PROVE  GeneratorInv'
<1>1. /\ phase = "decode" /\ left > 1 /\ st' = Forward(st, <<tok>>) /\ fed' = Append(fed, tok)
      /\ logits' = fed' /\ left' = left - 1 /\ cache' = cache /\ phase' = "decode"
      /\ prompt' = prompt /\ batch' = batch
  BY DEF DecodeOne
<1>2. /\ batch = <<>> /\ Held(st) = fed /\ ~HasPending(st) /\ fed \in Tokens
      /\ prompt \in Tokens /\ Good(st) /\ left \in Nat \ {0} /\ StartsWith(fed, prompt)
  BY <1>1, WhileDecoding
<1>3. <<tok>> \in Tokens /\ fed' = fed \o <<tok>>
  BY <1>1, <1>2, AppendIsConcat DEF Tokens
<1>4. Good(st') /\ Held(st') = fed' /\ st'.pend.base = -1
  BY <1>1, <1>2, <1>3, Feeds
<1>5. fed' \in Tokens /\ fed' \o <<>> = fed' /\ StartsWith(fed', prompt)
  <2>1. fed' \in Tokens
    BY <1>2, <1>3, FirstOfBoth
  <2>2. fed' \o <<>> = fed'
    BY <2>1, ConcatEmptySeq DEF Tokens
  <2> QED
    BY <1>2, <1>3, <2>1, <2>2, StillStarts
<1>6. left' \in Nat \ {0} /\ Len(batch') = 0
  BY <1>1, <1>2, EmptySeq
<1>7. Believed' /\ Filing' /\ Prefilling' /\ Decoding'
  <2>1. Believed'
    BY <1>1, <1>2, <1>4, <1>5 DEF Believed
  <2>2. Filing'
    BY <1>1 DEF GeneratorInv, Filing
  <2>3. Prefilling' /\ Decoding'
    BY <1>1, <1>5, <1>6 DEF Prefilling, Decoding
  <2> QED
    BY <2>1, <2>2, <2>3
<1> QED
  BY <1>1, <1>2, <1>4, <1>5, <1>7 DEF GeneratorInv

(* A verification is no longer than the budget that is left.               *)
LEMMA DraftKeeps ==
  ASSUME GeneratorInv, NEW tok \in Token, NEW drafts \in Drafts, Draft(tok, drafts)
  PROVE  GeneratorInv'
<1>1. /\ phase = "decode" /\ left > 1 /\ Len(drafts) \in 1 .. Room
      /\ batch' = <<tok>> \o drafts /\ st' = ForwardProvisional(st, batch')
      /\ left' = left - 1 /\ cache' = cache /\ phase' = "verify"
      /\ fed' = fed /\ prompt' = prompt /\ logits' = logits
  BY DEF Draft
<1>2. /\ Held(st) = fed /\ ~HasPending(st) /\ fed \in Tokens /\ Len(fed) \in Nat
      /\ prompt \in Tokens /\ Good(st) /\ left \in Nat \ {0} /\ logits = fed
      /\ StartsWith(fed, prompt)
  BY <1>1, WhileDecoding
<1>3. drafts \in Tokens /\ <<tok>> \in Tokens
  <2>1. PICK n \in 1 .. MaxDraft : drafts \in [1 .. n -> Token]
    BY DEF Drafts
  <2>2. n \in Nat
    BY GeneratorAssumption
  <2> QED
    BY <2>1, <2>2 DEF Tokens
<1>4. batch' \in Tokens /\ Len(batch') = 1 + Len(drafts) /\ Len(drafts) \in Nat
  <2>1. Len(<<tok>>) = 1
    OBVIOUS
  <2> QED
    BY <1>1, <1>3, <2>1, FirstOfBoth, LenProperties DEF Tokens
<1>5. Good(st') /\ Held(st') = fed \o batch' /\ st'.pend.base = Len(fed)
  BY <1>1, <1>2, <1>4, Feeds
<1>6. left' \in Nat \ {0} /\ Len(batch') <= left'
  <2>1. Room <= left - 2
    BY <1>2, GeneratorAssumption DEF Room, Lesser
  <2>2. PICK n \in Nat : n = Len(drafts) /\ n <= Room
    BY <1>1, <1>4
  <2>3. Room \in Int
    BY <1>2, GeneratorAssumption DEF Room, Lesser
  <2> QED
    BY <1>1, <1>2, <1>4, <2>1, <2>2, <2>3
<1>7. Believed' /\ Filing' /\ Prefilling' /\ Decoding'
  <2>1. Believed'
    BY <1>1, <1>5 DEF Believed
  <2>2. Filing'
    BY <1>1 DEF GeneratorInv, Filing
  <2>3. Prefilling' /\ Decoding'
    BY <1>1, <1>2, <1>6 DEF Prefilling, Decoding
  <2> QED
    BY <2>1, <2>2, <2>3
<1> QED
  BY <1>1, <1>2, <1>4, <1>5, <1>7 DEF GeneratorInv

(* Of a verification the state keeps what fed keeps.                       *)
LEMMA VerifyKeeps ==
  ASSUME GeneratorInv, NEW keep \in 1 .. MaxDraft + 1, NEW ends \in BOOLEAN, Verify(keep, ends)
  PROVE  GeneratorInv'
<1>1. /\ phase = "verify" /\ keep \in 1 .. Len(batch)
      /\ Commit(st, Committed(keep)).ok /\ st' = Commit(st, Committed(keep)).st
      /\ fed' = fed \o First(batch, keep) /\ cache' = cache
  BY DEF Verify
<1>2. /\ fed \in Tokens /\ Len(fed) \in Nat /\ batch \in Tokens /\ Len(batch) \in Nat
      /\ prompt \in Tokens /\ Good(st) /\ Held(st) = fed \o batch /\ st.pend.base = Len(fed)
      /\ left \in Nat \ {0} /\ Len(batch) <= left /\ StartsWith(fed, prompt)
  BY <1>1, LenProperties DEF GeneratorInv, Believed, Decoding, Tokens
<1>3. HasPending(st) /\ keep \in 0 .. Len(batch) /\ keep \in Nat /\ Committed(keep) = Len(fed) + keep
  BY <1>1, <1>2, Pending DEF Committed
<1>4. First(batch, keep) \in Tokens /\ First(fed \o batch, Len(fed) + keep) = fed'
  <2>1. First(batch, keep) \in Tokens
    BY <1>2, <1>3, FirstIs
  <2>2. \A n \in 0 .. Len(batch) : First(fed \o batch, Len(fed) + n) = fed \o First(batch, n)
    BY <1>2, FirstOfBoth
  <2> QED
    BY <1>1, <1>3, <2>1, <2>2
<1>5. Good(st') /\ Held(st') = fed' /\ st'.pend.base = -1
  <2>1. Committed(keep) \in Nat
    BY <1>2, <1>3
  <2> QED
    BY <1>1, <1>2, <1>3, <1>4, <2>1, Commits
<1>6. fed' \in Tokens /\ fed' \o <<>> = fed' /\ StartsWith(fed', prompt)
  <2>1. fed' \in Tokens
    BY <1>1, <1>2, <1>4, FirstOfBoth
  <2>2. fed' \o <<>> = fed'
    BY <2>1, ConcatEmptySeq DEF Tokens
  <2> QED
    BY <1>1, <1>2, <1>4, <2>1, <2>2, StillStarts
<1>7. CASE ends
  <2>1. Idle
    BY <1>7 DEF Verify
  <2> QED
    BY <1>1, <1>5, <1>6, <2>1, ToIdle
<1>8. CASE ~ends
  <2>1. /\ phase' = "decode" /\ batch' = <<>> /\ logits' = fed' /\ left' = left - (keep - 1)
        /\ prompt' = prompt
    BY <1>8 DEF Verify
  <2>2. left' \in Nat \ {0} /\ Len(batch') = 0
    BY <1>1, <1>2, <1>3, <2>1, EmptySeq
  <2>3. Believed'
    BY <1>5, <1>6, <2>1 DEF Believed
  <2>4. Filing'
    BY <1>1 DEF GeneratorInv, Filing
  <2>5. Prefilling' /\ Decoding'
    BY <1>6, <2>1, <2>2 DEF Prefilling, Decoding
  <2>6. <<>> \in Tokens
    BY EmptySeq DEF Tokens
  <2> QED
    BY <1>2, <1>5, <1>6, <2>1, <2>3, <2>4, <2>5, <2>6 DEF GeneratorInv
<1> QED
  BY <1>7, <1>8

(* What a failure leaves is consistent, though nothing is believed of it.  *)
LEMMA FailKeeps ==
  ASSUME GeneratorInv, Fail
  PROVE  GeneratorInv'
<1>1. Idle /\ fed' = <<>> /\ cache' = cache /\ fed' \in Tokens
  BY EmptySeq DEF Fail, Tokens
<1>2. CASE st' = st
  BY <1>1, <1>2, ToIdle DEF GeneratorInv
<1>3. CASE phase = "prefill" /\ Len(fed) < Least(stops) /\ st' = Forward(st, Piece)
  <2>1. Piece \in Tokens /\ ~HasPending(st)
    BY <1>3, PieceIs DEF CanForward
  <2>2. Good(st')
    BY <1>3, <2>1, Feeds DEF GeneratorInv
  <2> QED
    BY <1>1, <2>2, ToIdle
<1>4. ASSUME phase = "verify", NEW keep \in 1 .. Len(batch), st' = Commit(st, Committed(keep)).st
      PROVE  GeneratorInv'
  <2>1. /\ Good(st) /\ st.pend.base = Len(fed) /\ Len(fed) \in Nat /\ Len(batch) \in Nat
    BY <1>4, LenProperties DEF GeneratorInv, Believed, Tokens
  <2>2. HasPending(st) /\ Committed(keep) \in Nat
    BY <2>1, Pending DEF Committed
  <2>3. Good(st')
    BY <1>4, <2>1, <2>2, Commits
  <2> QED
    BY <1>1, <2>3, ToIdle
<1> QED
  BY <1>2, <1>3, <1>4 DEF Fail

(* A state that is given up is replaced by a new one.                      *)
LEMMA ReleaseStateKeeps ==
  ASSUME GeneratorInv, ReleaseState
  PROVE  GeneratorInv'
<1>1. /\ phase = "idle" /\ phase' = "idle" /\ st' = NewState /\ fed' = <<>> /\ cache' = cache
      /\ batch' = batch /\ prompt' = prompt
  BY DEF ReleaseState, requestVars
<1>2. Good(st') /\ fed' \in Tokens
  BY <1>1, NewIsGood, EmptySeq DEF Tokens
<1>3. Believed' /\ Filing' /\ Prefilling' /\ Decoding'
  BY <1>1 DEF GeneratorInv, Believed, Filing, Prefilling, Decoding
<1> QED
  BY <1>1, <1>2, <1>3 DEF GeneratorInv

(* A change of the cache alone.                                            *)
LEMMA CacheKeeps ==
  ASSUME GeneratorInv, st' = st, fed' = fed, UNCHANGED requestVars, Filing'
  PROVE  GeneratorInv'
<1>1. Believed' /\ Prefilling' /\ Decoding'
  BY DEF GeneratorInv, Believed, Prefilling, Decoding, requestVars
<1> QED
  BY <1>1 DEF GeneratorInv, requestVars

(* What the cache forgets was no concern of the rest.                      *)
LEMMA ForgetKeeps ==
  ASSUME GeneratorInv, Forget
  PROVE  GeneratorInv'
BY CacheKeeps DEF GeneratorInv, Forget, Filing

(* The state of some tokens, snapped when it holds just them, is a copy.   *)
LEMMA TrueIsCopy ==
  ASSUME NEW s \in Tokens
  PROVE  LET e == [tokens |-> s, snap |-> TrueSnapshot(s)]
         IN  e \in Entry /\ Copy(e.snap) /\ e.snap.rec = e.tokens
<1> DEFINE snap == TrueSnapshot(s)
           kv == [i \in 1 .. Len(s) |-> First(s, i)]
<1>1. Len(s) \in Nat /\ \A i \in 1 .. Len(s) : First(s, i) \in Tokens
  <2>1. Len(s) \in Nat
    BY LenProperties DEF Tokens
  <2> QED
    BY <2>1, FirstIs
<1>2. kv \in [1 .. Len(s) -> Tokens]
  BY <1>1
<1>3. /\ kv \in Seq(Tokens) /\ Len(kv) = Len(s)
      /\ \A i \in 1 .. Len(s) : kv[i] = State!First(s, i)
  BY <1>1, <1>2, SameMethods
<1>4. snap = [len |-> Len(s), kv |-> kv, rec |-> s]
  BY DEF TrueSnapshot
<1> HIDE DEF kv, snap
<1>5. Copy(snap) /\ snap.rec = s
  <2>1. State!RowsOf(kv, s)
    BY <1>1, <1>3 DEF State!RowsOf
  <2> QED
    BY <1>1, <1>3, <1>4, <2>1 DEF Copy, State!Copy, State!Tokens, Tokens
<1>6. snap \in [len : Nat, kv : Seq(Seq(Token)), rec : Seq(Token)]
  BY <1>1, <1>3, <1>4 DEF Tokens
<1> QED
  BY <1>5, <1>6 DEF Entry, snap, Tokens

(* What another generator inserts is a copy as well.                       *)
LEMMA PeerInsertKeeps ==
  ASSUME GeneratorInv, PeerInsert
  PROVE  GeneratorInv'
<1>1. PICK p \in Prompt : \E n \in 1 .. Len(p) :
        /\ cache' = cache \cup {[tokens |-> First(p, n), snap |-> TrueSnapshot(First(p, n))]}
        /\ UNCHANGED <<st, fed, requestVars>>
  BY DEF PeerInsert
<1>2. PICK n \in 1 .. Len(p) :
        /\ cache' = cache \cup {[tokens |-> First(p, n), snap |-> TrueSnapshot(First(p, n))]}
        /\ UNCHANGED <<st, fed, requestVars>>
  BY <1>1
<1> DEFINE e == [tokens |-> First(p, n), snap |-> TrueSnapshot(First(p, n))]
<1>3. First(p, n) \in Tokens
  <2>1. n \in 0 .. Len(p)
    BY PromptIs
  <2> QED
    BY <2>1, PromptIs, FirstIs
<1>4. e \in Entry /\ Copy(e.snap) /\ e.snap.rec = e.tokens
  BY <1>3, TrueIsCopy
<1> HIDE DEF e
<1>5. cache' = cache \cup {e}
  BY <1>2 DEF e
<1>6. Filing'
  BY <1>4, <1>5 DEF GeneratorInv, Filing
<1> QED
  BY <1>2, <1>6, CacheKeeps

-----------------------------------------------------------------------------
(* The invariant holds at first,                                           *)
LEMMA InitHas == Init => GeneratorInv
<1> SUFFICES ASSUME Init PROVE GeneratorInv
  OBVIOUS
<1>1. <<>> \in Tokens /\ Good(st)
  BY NewIsGood, EmptySeq DEF Init, Tokens
<1>2. Believed /\ Filing /\ Prefilling /\ Decoding
  BY DEF Init, Believed, Filing, Prefilling, Decoding
<1> QED
  BY <1>1, <1>2 DEF Init, GeneratorInv

(* and every step keeps it.                                                *)
LEMMA NextKeeps == GeneratorInv /\ [Next]_vars => GeneratorInv'
<1> SUFFICES ASSUME GeneratorInv, [Next]_vars PROVE GeneratorInv'
  OBVIOUS
<1>1. ASSUME NEW p \in Prompt, NEW max \in 1 .. MaxSeq - Len(p),
             NEW boundaries \in SUBSET (1 .. Len(p)), Start(p, max, boundaries)
      PROVE  GeneratorInv'
  BY <1>1, StartKeeps
<1>2. Prefill => GeneratorInv'
  BY PrefillKeeps
<1>3. AtStop => GeneratorInv'
  BY AtStopKeeps
<1>4. Finish => GeneratorInv'
  BY FinishKeeps
<1>5. ASSUME NEW tok \in Token, DecodeOne(tok) PROVE GeneratorInv'
  BY <1>5, DecodeOneKeeps
<1>6. ASSUME NEW tok \in Token, NEW drafts \in Drafts, Draft(tok, drafts) PROVE GeneratorInv'
  BY <1>6, DraftKeeps
<1>7. ASSUME NEW keep \in 1 .. MaxDraft + 1, NEW ends \in BOOLEAN, Verify(keep, ends)
      PROVE  GeneratorInv'
  BY <1>7, VerifyKeeps
<1>8. Fail => GeneratorInv'
  BY FailKeeps
<1>9. ReleaseState => GeneratorInv'
  BY ReleaseStateKeeps
<1>10. Forget => GeneratorInv'
  BY ForgetKeeps
<1>11. PeerInsert => GeneratorInv'
  BY PeerInsertKeeps
<1>12. CASE UNCHANGED vars
  <2>1. Filing'
    BY <1>12 DEF GeneratorInv, Filing, vars
  <2> QED
    BY <1>12, <2>1, CacheKeeps DEF vars, requestVars
<1> QED
  BY <1>1, <1>2, <1>3, <1>4, <1>5, <1>6, <1>7, <1>8, <1>9, <1>10, <1>11, <1>12 DEF Next

(* So it always holds.                                                     *)
LEMMA GeneratorInvariance == Spec => []GeneratorInv
BY InitHas, NextKeeps, PTL DEF Spec

-----------------------------------------------------------------------------
(* A good state is exact: rows, recurrent part, length and checkpoint.     *)
LEMMA HeldIsExact ==
  ASSUME Good(st)
  PROVE  Holds(st, Held(st)) /\ CheckpointWithin(st, Held(st))
<1>1. State!Holds(st, Held(st)) /\ State!CheckpointWithin(st, Held(st))
  <2>1. State!StateExact
    BY Lent, State!GoodIsExact DEF Good
  <2> QED
    BY <2>1 DEF State!StateExact, State!Fed, Held, State!Held
<1>2. Holds(st, Held(st))
  BY <1>1, SameMethods DEF State!Holds, Holds
<1>3. CheckpointWithin(st, Held(st))
  BY <1>1, SameMethods DEF State!CheckpointWithin, CheckpointWithin, State!NoCkpt, NoCkpt
<1> QED
  BY <1>2, <1>3

(* The state holds exactly the tokens the generator believes it holds, a   *)
(* verification in flight as its provisional tail, and accepts every       *)
(* forward of a prefill: whatever was kept, restored, rolled back, aborted *)
(* or failed before.                                                       *)
THEOREM BeliefIsTrue == Spec => []StateInStep
<1>1. GeneratorInv => StateInStep
  <2> SUFFICES ASSUME GeneratorInv PROVE StateInStep
    OBVIOUS
  <2>1. ForwardAccepted
    BY PieceIs DEF ForwardAccepted
  <2>2. ASSUME phase # "idle" \/ fed # <<>>
        PROVE  /\ Holds(st, fed \o batch) /\ CheckpointWithin(st, fed \o batch)
               /\ HasPending(st) <=> phase = "verify"
    <3>1. /\ Held(st) = fed \o batch /\ Good(st) /\ Len(fed) \in Nat
          /\ st.pend.base = IF phase = "verify" THEN Len(fed) ELSE -1
      BY <2>2, LenProperties DEF GeneratorInv, Believed, Tokens
    <3>2. HasPending(st) <=> phase = "verify"
      BY <3>1, Pending
    <3>3. Holds(st, Held(st)) /\ CheckpointWithin(st, Held(st))
      BY <3>1, HeldIsExact
    <3> QED
      BY <3>1, <3>2, <3>3
  <2> QED
    BY <2>1, <2>2 DEF StateInStep, StateMatchesFed
<1> QED
  BY <1>1, GeneratorInvariance, PTL

(* Every entry of the shared prompt cache is the state of exactly the      *)
(* tokens it is filed under, rows and recurrent part alike.                *)
THEOREM CacheIsTrue == Spec => []CacheTrue
<1>1. GeneratorInv => CacheTrue
  <2> SUFFICES ASSUME GeneratorInv, NEW e \in cache
               PROVE  e.snap.rec = e.tokens /\ SnapshotTrue(e.snap)
    BY DEF CacheTrue
  <2>1. Copy(e.snap) /\ e.snap.rec = e.tokens
    BY DEF GeneratorInv, Filing
  <2> QED
    BY <2>1 DEF Copy, State!Copy, State!RowsOf, State!First, SnapshotTrue
<1> QED
  BY <1>1, GeneratorInvariance, PTL

(* Requests are continued from the logits of all their tokens, and never   *)
(* past their budget.                                                      *)
THEOREM AllIsSampledFrom == Spec => []SampledFromAll
<1>1. GeneratorInv => SampledFromAll
  BY DEF GeneratorInv, Prefilling, Decoding, SampledFromAll
<1> QED
  BY <1>1, GeneratorInvariance, PTL

(* A request that extends what was checkpointed, or what the cache holds,  *)
(* starts no earlier than there.                                           *)
THEOREM CheckpointIsReused == Spec => ReusesCheckpoint
<1>1. ASSUME GeneratorInv, Next, phase = "idle", phase' = "prefill"
      PROVE  /\ PrefixCaching /\ fed # <<>> /\ st.ckpt.len \in 1 .. Len(prompt') - 1
                  /\ StartsWith(prompt', First(fed, st.ckpt.len))
                => Len(fed') >= st.ckpt.len
             /\ \A e \in cache : StartsWith(prompt', e.tokens) /\ Len(e.tokens) < Len(prompt')
                  => Len(fed') >= Len(e.tokens)
  <2>1. PICK p \in Prompt : \E max \in 1 .. MaxSeq - Len(p), boundaries \in SUBSET (1 .. Len(p)) :
          Start(p, max, boundaries)
    BY <1>1 DEF Next, Prefill, AtStop, Finish, DecodeOne, Draft, Verify, Fail, ReleaseState,
                Forget, PeerInsert, requestVars
  <2>2. /\ Len(fed') >= Kept(p).keep
        /\ \A f \in Usable(p) : Len(fed') >= Len(f.tokens)
        /\ GeneratorInv'
    BY <1>1, <2>1, StartKeeps
  <2>3. prompt' = p
    BY <2>1 DEF Start
  <2>4. \A e \in cache : StartsWith(p, e.tokens) /\ Len(e.tokens) < Len(p)
          => Len(fed') >= Len(e.tokens)
    BY <2>2 DEF Usable
  <2>5. ASSUME PrefixCaching, fed # <<>>, st.ckpt.len \in 1 .. Len(p) - 1,
               StartsWith(p, First(fed, st.ckpt.len))
        PROVE  Len(fed') >= st.ckpt.len
    <3> DEFINE c == CommonPrefix(fed, p)
               target == Lesser(c, Len(p) - 1)
    <3>1. /\ p \in Tokens /\ fed \in Tokens /\ Len(p) \in Nat /\ Len(fed) \in Nat
          /\ Len(fed') \in Nat
      BY <1>1, <2>2, PromptIs, LenProperties DEF GeneratorInv, Tokens
    <3>2. PICK n \in Nat : n = st.ckpt.len /\ n >= 1 /\ n <= Len(p) - 1
      BY <2>5, <3>1
    <3>3. n <= Len(fed)
      <4>1. st.len = Len(fed) /\ (st.ckpt.len = -1 \/ st.ckpt.len \in 0 .. st.len)
        BY <1>1, <2>5, AtRest, Pending DEF GeneratorInv
      <4> QED
        BY <3>1, <3>2, <4>1
    <3>4. Len(First(fed, n)) = n /\ First(p, n) = First(fed, n)
      <4>1. n \in 0 .. Len(fed)
        BY <3>1, <3>3
      <4>2. Len(First(fed, n)) = n
        BY <3>1, <4>1, FirstIs
      <4> QED
        BY <2>5, <3>2, <4>2 DEF StartsWith
    <3>5. n <= c /\ c \in Nat
      <4>1. n \in 0 .. Len(fed) /\ n <= Len(p)
        BY <3>1, <3>2, <3>3
      <4> QED
        BY <3>1, <3>4, <4>1, CommonIs
    <3> HIDE DEF c
    <3>6. st.ckpt.len \in 1 .. target /\ target \in Nat
      BY <3>1, <3>2, <3>5 DEF Lesser
    <3> HIDE DEF target
    <3>7. Kept(p).keep >= st.ckpt.len /\ Kept(p).keep \in Nat
      <4>1. Kept(p) = Reusable(p)
        BY <2>5 DEF Kept
      <4> QED
        BY <1>1, <2>5, <3>6, <4>1, ReusableIs DEF KeptOf, target, c
    <3> QED
      BY <2>2, <3>1, <3>2, <3>7
  <2> QED
    BY <2>3, <2>4, <2>5
<1>2. GeneratorInv /\ [Next]_vars =>
        [phase = "idle" /\ phase' = "prefill" =>
           /\ PrefixCaching /\ fed # <<>> /\ st.ckpt.len \in 1 .. Len(prompt') - 1
                /\ StartsWith(prompt', First(fed, st.ckpt.len))
              => Len(fed') >= st.ckpt.len
           /\ \A e \in cache : StartsWith(prompt', e.tokens) /\ Len(e.tokens) < Len(prompt')
                => Len(fed') >= Len(e.tokens)]_vars
  BY <1>1 DEF vars
<1> QED
  BY <1>2, GeneratorInvariance, PTL DEF Spec, ReusesCheckpoint
================================================================================
