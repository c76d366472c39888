---------------------------- MODULE SpecDecodeProofs ----------------------------
(***************************************************************************)
(* Speculative decoding is lossless, for every vocabulary, target, drafter, *)
(* draft length, budget and context: SpecDecode implements PlainDecode, and *)
(* a token that RejectionSampling emits has the target's distribution.      *)
(* Lookups propose what they should, and an adaptive length never stays at  *)
(* zero.  The sampler that both share penalizes what the window of a call   *)
(* holds and draws in proportion to the weights.                            *)
(***************************************************************************)
EXTENDS MCSpecDecode, SequenceTheorems, FiniteSetTheorems, WellFoundedInduction, TLAPS

-----------------------------------------------------------------------------
(* Prefixes. *)
LEMMA FirstProps ==
  ASSUME NEW S, NEW s \in Seq(S), NEW n \in 0 .. Len(s)
  PROVE  /\ First(s, n) \in Seq(S)
         /\ Len(First(s, n)) = n
         /\ \A i \in 1 .. n : First(s, n)[i] = s[i]
<1>1. Len(s) \in Nat /\ \A i \in 1 .. n : s[i] \in S
  BY LenProperties, ElementOfSeq
<1>2. /\ SubSeq(s, 1, n) \in Seq(S)
      /\ Len(SubSeq(s, 1, n)) = IF 1 <= n THEN n - 1 + 1 ELSE 0
      /\ \A i \in 1 .. n - 1 + 1 : SubSeq(s, 1, n)[i] = s[1 + i - 1]
  BY <1>1, SubSeqProperties
<1> QED
  BY <1>1, <1>2 DEF First

LEMMA NoneOf ==
  ASSUME NEW S, NEW b \in Seq(S), NEW s
  PROVE  First(s, 0) = <<>> /\ b \o First(s, 0) = b
BY SubSeqEmpty, ConcatEmptySeq DEF First

(* A prefix grows by the next element. *)
LEMMA Grows ==
  ASSUME NEW S, NEW b \in Seq(S), NEW d \in Seq(S), NEW n \in 1 .. Len(d)
  PROVE  Append(b \o First(d, n - 1), d[n]) = b \o First(d, n)
<1> DEFINE g == First(d, n - 1)
           h == First(d, n)
<1>1. Len(d) \in Nat /\ d[n] \in S /\ n - 1 \in 0 .. Len(d)
  BY LenProperties, ElementOfSeq
<1>2. g \in Seq(S) /\ <<d[n]>> \in Seq(S)
  BY <1>1, FirstProps
<1>3. h = g \o <<d[n]>>
  BY <1>1, SubSeqRecursiveSecond DEF First
<1> HIDE DEF g, h
<1>4. b \o g \in Seq(S)
  BY <1>2, ConcatProperties
<1>5. Append(b \o g, d[n]) = (b \o g) \o <<d[n]>>
  BY <1>1, <1>4, AppendIsConcat
<1>6. (b \o g) \o <<d[n]>> = b \o (g \o <<d[n]>>)
  BY <1>2, ConcatAssociative
<1> QED
  BY <1>3, <1>5, <1>6 DEF g, h

(* All but the last element. *)
LEMMA Undone ==
  ASSUME NEW S, NEW s \in Seq(S), NEW t \in S
  PROVE  /\ Append(s, t) # <<>> /\ Len(Append(s, t)) = Len(s) + 1
         /\ First(Append(s, t), Len(Append(s, t)) - 1) = s
<1> DEFINE a == Append(s, t)
<1>1. /\ Len(s) \in Nat /\ a \in Seq(S) /\ Len(a) = Len(s) + 1 /\ a # <<>>
      /\ \A i \in 1 .. Len(s) : a[i] = s[i]
  BY LenProperties, AppendProperties
<1> HIDE DEF a
<1>3. Len(s) \in 0 .. Len(a)
  BY <1>1
<1>4. /\ First(a, Len(s)) \in Seq(S) /\ Len(First(a, Len(s))) = Len(s)
      /\ \A i \in 1 .. Len(s) : First(a, Len(s))[i] = a[i]
  BY <1>1, <1>3, FirstProps
<1>5. First(a, Len(s)) = s
  BY <1>1, <1>4, SeqEqual
<1> QED
  BY <1>1, <1>5 DEF a

(* The smallest of three. *)
LEMMA LeastOfThree ==
  ASSUME NEW a \in Int, NEW b \in Int, NEW c \in Int
  PROVE  Least({a, b, c}) <= a /\ Least({a, b, c}) <= b /\ Least({a, b, c}) <= c
         /\ Least({a, b, c}) \in Int
<1>1. \E m \in {a, b, c} : \A n \in {a, b, c} : m <= n
  <2>1. CASE a <= b /\ a <= c
    BY <2>1
  <2>2. CASE b <= a /\ b <= c
    BY <2>2
  <2>3. CASE c <= a /\ c <= b
    BY <2>3
  <2> QED
    BY <2>1, <2>2, <2>3
<1>2. /\ Least({a, b, c}) \in {a, b, c}
      /\ \A n \in {a, b, c} : Least({a, b, c}) <= n
  BY <1>1 DEF Least
<1> QED
  BY <1>2

-----------------------------------------------------------------------------
(* What is known of the target: after the tokens s it chooses t. *)
Knows(o, s, t) == <<s, s>> \in DOMAIN o /\ o[<<s, s>>] = t

LEMMA Chosen ==
  ASSUME NEW s, NEW t, Chooses(s, s, t)
  PROVE  Extends(oracle', oracle) /\ Knows(oracle', s, t)
BY DEF Chooses, Extends, Knows

LEMMA StillKnown ==
  ASSUME NEW s, NEW t, Knows(oracle, s, t), Extends(oracle', oracle)
  PROVE  Knows(oracle', s, t)
BY DEF Extends, Knows

(* The tokens at a verification: fed, and the sampled one. *)
Base == Append(fed, tok)
After(n) == Base \o First(drafts, n)

(* Every accepted draft is the token the target chooses there. *)
Agreed == \A i \in 1 .. accepted : Knows(oracle, After(i - 1), drafts[i])

Types ==
  /\ out \in Seq(Vocab) /\ fed \in Seq(Vocab) /\ drafts \in Seq(Vocab)
  /\ count \in Nat /\ accepted \in Nat /\ keep \in Nat
  /\ phase \in {"sample", "emit", "draft", "verify", "keep", "done", "failed"}

(* Feeding the head of the batch and n drafts. *)
LEMMA BatchPrefix ==
  ASSUME Types, tok \in Vocab, NEW n \in 0 .. Len(drafts)
  PROVE  fed \o First(Batch, n + 1) = After(n)
<1> DEFINE t == tok
           d == drafts
           f == fed
           s == <<t>> \o d
           g == First(d, n)
<1> f \in Seq(Vocab) /\ d \in Seq(Vocab) /\ t \in Vocab /\ n \in 0 .. Len(d)
  BY DEF Types
<1> HIDE DEF t, d, f
<1>1. Len(d) \in Nat /\ <<t>> \in Seq(Vocab) /\ Len(<<t>>) = 1 /\ <<t>>[1] = t
  BY LenProperties
<1>2. s \in Seq(Vocab) /\ Len(s) = 1 + Len(d) /\ s[1] = t
  BY <1>1, ConcatProperties
<1>3. g \in Seq(Vocab)
  BY FirstProps
<1>4. SubSeq(s, 1, n + 1) = <<s[1]>> \o SubSeq(s, 2, n + 1)
  <2> HIDE DEF s
  <2>1. 1 \in 1 .. Len(s) /\ n + 1 \in 1 .. Len(s)
    BY <1>1, <1>2
  <2> QED
    BY <1>2, <2>1, SubSeqRecursiveFirst
<1>5. SubSeq(s, 2, n + 1) = g
  <2>1. CASE n = 0
    BY <2>1, SubSeqEmpty DEF First
  <2>2. CASE n > 0
    <3>1. /\ 2 \in Len(<<t>>) + 1 .. Len(<<t>>) + Len(d)
          /\ n + 1 \in Len(<<t>>) + 1 .. Len(<<t>>) + Len(d)
          /\ 2 - Len(<<t>>) = 1 /\ n + 1 - Len(<<t>>) = n
      BY <1>1, <2>2
    <3>2. SubSeq(s, 2, n + 1) = SubSeq(d, 2 - Len(<<t>>), n + 1 - Len(<<t>>))
      BY <1>1, <3>1, SubSeqOfConcat2
    <3> QED
      BY <3>1, <3>2 DEF First
  <2> QED
    BY <2>1, <2>2
<1>6. First(s, n + 1) = <<t>> \o g
  BY <1>2, <1>4, <1>5 DEF First
<1> DEFINE u == <<t>>
<1>7. Append(f, t) = f \o u
  BY AppendIsConcat
<1>8. First(s, n + 1) = u \o g
  BY <1>6
<1>9. u \in Seq(Vocab)
  BY <1>1
<1> HIDE DEF s, g, u
<1>10. f \o (u \o g) = (f \o u) \o g
  <2>1. \A x, y, z \in Seq(Vocab) : (x \o y) \o z = x \o (y \o z)
    BY ConcatAssociative
  <2> QED
    BY <1>3, <1>9, <2>1
<1> QED
  BY <1>7, <1>8, <1>10 DEF s, g, t, d, f, Batch, After, Base

(* Every token is counted, an ending id too, and the budget is kept. *)
Counted ==
  /\ count = Len(out) + (IF finish = "stop" THEN 1 ELSE 0)
  /\ count <= MaxTokens
  /\ finish = "none" => count < MaxTokens

Sampling == phase = "sample" => finish = "none" /\ fed = out
Emitting == phase = "emit" => finish = "none" /\ fed = out /\ tok \in Vocab /\ Knows(oracle, out, tok)
Drafting == phase = "draft" => finish = "none" /\ tok \in Vocab /\ out = Base
Verifying ==
  phase = "verify" =>
    /\ finish = "none" /\ tok \in Vocab /\ out = Base
    /\ keep = 1 /\ accepted <= Len(drafts) /\ Agreed
    /\ count + Len(drafts) + 1 <= MaxTokens
    /\ Len(fed) + Len(drafts) + 1 <= Room

(* While accepted drafts are emitted the output is the base and the drafts *)
(* kept, and after the last of them the target's own token is known.       *)
Keeping ==
  phase = "keep" =>
    /\ tok \in Vocab /\ next \in Vocab
    /\ accepted <= Len(drafts) /\ keep \in 1 .. accepted + 1 /\ Agreed
    /\ Knows(oracle, After(accepted), next)
    /\ finish = "none" =>
         out = After(keep - 1) /\ count + (accepted - keep) + 2 <= MaxTokens
    /\ finish # "none" =>
         /\ finish # "error" /\ keep <= accepted
         /\ out = After(IF finish = "stop" THEN keep - 1 ELSE keep)

Ending ==
  phase = "done" =>
    /\ finish # "none"
    /\ finish = "stop" => fed = out
    /\ finish \notin {"stop", "error"} => out # <<>> /\ fed = First(out, Len(out) - 1)

Inv == Types /\ Counted /\ Sampling /\ Emitting /\ Drafting /\ Verifying /\ Keeping /\ Ending

-----------------------------------------------------------------------------
(* Emitter::token on the token the target chose is a step of PlainDecode.  *)
LEMMA EmitIsPlain ==
  ASSUME NEW t \in Vocab, Types, Counted, finish = "none", Knows(oracle, out, t),
         Emit(t), UNCHANGED oracle
  PROVE  /\ EmitNext
         /\ out' \in Seq(Vocab) /\ count' = count + 1 /\ count' \in Nat
         /\ Counted' /\ finish' # "error"
         /\ finish' = "stop" => out' = out
         /\ finish' # "stop" => out' = Append(out, t)
<1> USE SpecAssumption DEF Types, Counted
<1>1. Len(out) \in Nat /\ count = Len(out)
  BY LenProperties
<1>2. Append(out, t) \in Seq(Vocab) /\ Len(Append(out, t)) = Len(out) + 1
  BY AppendProperties
<1>3. Extends(oracle', oracle) /\ <<out, out>> \in DOMAIN oracle' /\ oracle'[<<out, out>>] = t
  BY DEF Extends, Knows
<1>4. CASE t \in StopId
  BY <1>1, <1>3, <1>4 DEF Emit, EmitNext
<1>5. CASE t \notin StopId
  <2>1. out' = Append(out, t) /\ count' = count + 1 /\ count' = Len(out')
    BY <1>1, <1>2, <1>5 DEF Emit
  <2>2. finish' \in {"aborted", "stop_string", "length", "none"}
    BY <1>5 DEF Emit
  <2>3. finish' = "none" => count' < MaxTokens
    BY <1>1, <1>5, <2>1 DEF Emit
  <2>4. EmitNext
    BY <1>3, <1>5, <2>1 DEF Emit, EmitNext
  <2> QED
    BY <1>1, <1>2, <2>1, <2>2, <2>3, <2>4
<1> QED
  BY <1>4, <1>5

(* Inv holds initially. *)
LEMMA InvInit == Init => Inv
<1> USE SpecAssumption
<1>1. <<>> \in Seq(Vocab) /\ Len(<<>>) = 0
  BY EmptySeq
<1> QED
  BY <1>1 DEF Init, PlainInit, Inv, Types, Counted, Sampling, Emitting, Drafting,
              Verifying, Keeping, Ending

(* SampleFirst and DecodePlain: the target's choice becomes known. *)
LEMMA SamplingStep ==
  ASSUME Inv, SampleFirst \/ DecodePlain
  PROVE  Inv' /\ Reveal
<1> USE DEF Inv
<1>1. CASE SampleFirst
  <2>1. PICK t \in Vocab : Chooses(fed, out, t) /\ tok' = t
    BY <1>1 DEF SampleFirst
  <2>2. fed = out /\ finish = "none"
    BY <1>1 DEF SampleFirst, Sampling
  <2>3. Extends(oracle', oracle) /\ Knows(oracle', out, t)
    BY <2>1, <2>2, Chosen
  <2>4. Emitting'
    BY <1>1, <2>1, <2>2, <2>3 DEF SampleFirst, Emitting
  <2> QED
    BY <1>1, <2>3, <2>4 DEF SampleFirst, Reveal, Types, Counted, Sampling, Drafting,
                           Verifying, Keeping, Ending
<1>2. CASE DecodePlain
  <2>1. PICK t \in Vocab : Chooses(fed', out, t) /\ tok' = t
    BY <1>2 DEF DecodePlain
  <2>2. fed' = out /\ finish = "none" /\ fed' \in Seq(Vocab)
    BY <1>2 DEF DecodePlain, Drafting, Base, Types
  <2>3. Extends(oracle', oracle) /\ Knows(oracle', out, t)
    BY <2>1, <2>2, Chosen
  <2>4. Emitting'
    BY <1>2, <2>1, <2>2, <2>3 DEF DecodePlain, Emitting
  <2> QED
    BY <1>2, <2>2, <2>3, <2>4 DEF DecodePlain, Reveal, Types, Counted, Sampling, Drafting,
                                Verifying, Keeping, Ending
<1> QED
  BY <1>1, <1>2

(* EmitSampled emits the known token. *)
LEMMA EmitSampledStep ==
  ASSUME Inv, EmitSampled
  PROVE  Inv' /\ EmitNext
<1> USE DEF Inv
<1>1. /\ finish = "none" /\ fed = out /\ tok \in Vocab
      /\ Knows(oracle, out, tok) /\ Emit(tok) /\ UNCHANGED oracle
  BY DEF EmitSampled, Emitting
<1>2. /\ EmitNext
      /\ out' \in Seq(Vocab) /\ count' = count + 1 /\ count' \in Nat
      /\ Counted' /\ finish' # "error"
      /\ finish' = "stop" => out' = out
      /\ finish' # "stop" => out' = Append(out, tok)
  BY <1>1, EmitIsPlain
<1>3. Types'
  BY <1>2 DEF EmitSampled, Types
<1>4. Drafting'
  BY <1>1, <1>2 DEF EmitSampled, Drafting, Base
<1>5. Ending'
  <2>1. /\ Append(out, tok) # <<>>
        /\ First(Append(out, tok), Len(Append(out, tok)) - 1) = out
    BY <1>1, Undone DEF Types
  <2> QED
    BY <1>1, <1>2, <2>1 DEF EmitSampled, Ending
<1>6. Sampling' /\ Emitting' /\ Verifying' /\ Keeping'
  BY DEF EmitSampled, Sampling, Emitting, Verifying, Keeping
<1> QED
  BY <1>2, <1>3, <1>4, <1>5, <1>6

(* Propose stays within the budget and the context. *)
LEMMA ProposeStep ==
  ASSUME Inv, Propose
  PROVE  Inv' /\ UNCHANGED plainVars
<1> USE SpecAssumption DEF Inv
<1>0. PICK k \in Ks : \E n \in 1 .. MaxDraft(k) : drafts' \in [1 .. n -> Vocab]
  BY DEF Propose
<1>1. PICK n \in 1 .. MaxDraft(k) : drafts' \in [1 .. n -> Vocab]
  BY <1>0
<1>2. Len(fed) \in Nat /\ k \in Int /\ count \in Nat /\ count < MaxTokens
  <2>1. Len(fed) \in Nat
    BY LenProperties DEF Types
  <2> QED
    BY <2>1 DEF Ks, Types, Counted, Propose, Drafting
<1>3. /\ MaxDraft(k) \in Int
      /\ MaxDraft(k) <= Minus(Minus(MaxTokens, count), 1)
      /\ MaxDraft(k) <= Minus(Room, Len(fed) + 1)
  <2>1. /\ Minus(Minus(MaxTokens, count), 1) \in Int
        /\ Minus(Room, Len(fed) + 1) \in Int
    BY <1>2 DEF Minus
  <2> QED
    BY <1>2, <2>1, LeastOfThree DEF MaxDraft
<1>4. n \in Nat /\ n >= 1 /\ count + n + 1 <= MaxTokens /\ Len(fed) + n + 1 <= Room
  <2>1. n \in Nat /\ n >= 1 /\ n <= MaxDraft(k)
    BY <1>1, <1>3
  <2>2. n <= Minus(Minus(MaxTokens, count), 1) /\ n <= Minus(Room, Len(fed) + 1)
    BY <1>2, <1>3, <2>1 DEF Minus
  <2> QED
    BY <1>2, <2>1, <2>2 DEF Minus
<1>5. drafts' \in Seq(Vocab) /\ Len(drafts') = n
  <2>1. drafts' \in Seq(Vocab)
    BY <1>1, <1>4, SeqDef
  <2> QED
    BY <1>1, <1>4, <2>1, LenProperties
<1>6. Verifying'
  <2>1. finish = "none" /\ tok \in Vocab /\ out = Base
    BY DEF Propose, Drafting
  <2>2. accepted' = 0 /\ keep' = 1 /\ UNCHANGED <<fed, tok, out, finish, count, oracle>>
    BY DEF Propose
  <2>3. Agreed' /\ accepted' <= Len(drafts')
    BY <1>4, <1>5, <2>2 DEF Agreed
  <2> QED
    BY <1>4, <1>5, <2>1, <2>2, <2>3 DEF Verifying, Base
<1> QED
  BY <1>5, <1>6 DEF Propose, plainVars, Types, Counted, Sampling, Emitting, Drafting,
                    Keeping, Ending

(* A row of the verification: the model saw, and penalties see, the tokens *)
(* after which plain decoding would choose.                                *)
LEMMA VerifyRowStep ==
  ASSUME Inv, VerifyRow
  PROVE  Inv' /\ Reveal
<1> USE DEF Inv
<1>1. PICK t \in Vocab :
        /\ Chooses(fed \o First(Batch, accepted + 1), Ext, t)
        /\ IF Agrees(t)
           THEN accepted' = accepted + 1 /\ UNCHANGED <<next, phase>>
           ELSE next' = t /\ phase' = "keep" /\ UNCHANGED accepted
  BY DEF VerifyRow
<1>2. /\ phase = "verify" /\ finish = "none" /\ tok \in Vocab /\ out = Base /\ keep = 1
      /\ accepted <= Len(drafts) /\ Agreed
      /\ count + Len(drafts) + 1 <= MaxTokens /\ Len(fed) + Len(drafts) + 1 <= Room
      /\ UNCHANGED <<out, finish, count, fed, tok, drafts, keep>>
  BY DEF VerifyRow, Verifying
<1>3. accepted \in Nat /\ count \in Nat /\ Len(drafts) \in Nat /\ MaxTokens \in Nat
  BY LenProperties, SpecAssumption DEF Types
<1>4. fed \o First(Batch, accepted + 1) = After(accepted) /\ Ext = After(accepted)
  <2>1. accepted \in 0 .. Len(drafts)
    BY <1>2, <1>3
  <2> QED
    BY <1>2, <2>1, BatchPrefix DEF Ext, After, Base
<1>5. Extends(oracle', oracle) /\ Knows(oracle', After(accepted), t)
  BY <1>1, <1>4, Chosen
<1>6. \A n : After(n)' = After(n)
  BY <1>2 DEF After, Base
<1>7. \A i \in 1 .. accepted : Knows(oracle', After(i - 1), drafts[i])
  BY <1>2, <1>5, StillKnown DEF Agreed
<1>8. Types'
  BY <1>1, <1>2, <1>3 DEF Types
<1>9. CASE Agrees(t)
  <2>1. accepted' = accepted + 1 /\ phase' = "verify" /\ accepted < Len(drafts)
        /\ t = drafts[accepted + 1]
    BY <1>1, <1>2, <1>9 DEF Agrees
  <2>2. ASSUME NEW i \in 1 .. accepted' PROVE Knows(oracle', After(i - 1)', drafts'[i])
    <3>1. CASE i \in 1 .. accepted
      BY <1>2, <1>6, <1>7, <3>1
    <3>2. CASE i = accepted + 1
      BY <1>2, <1>3, <1>5, <1>6, <2>1, <3>2
    <3> QED
      BY <1>3, <2>1, <3>1, <3>2
  <2>3. Agreed'
    BY <2>2 DEF Agreed
  <2>4. Verifying'
    BY <1>2, <1>3, <2>1, <2>3 DEF Verifying, Base
  <2> QED
    BY <1>2, <1>5, <1>8, <2>1, <2>4 DEF Reveal, Counted, Sampling, Emitting, Drafting,
                                        Keeping, Ending
<1>10. CASE ~Agrees(t)
  <2>1. next' = t /\ phase' = "keep" /\ accepted' = accepted
    BY <1>1, <1>10
  <2>2. Agreed'
    BY <1>2, <1>6, <1>7, <2>1 DEF Agreed
  <2>3. out' = After(0)
    <3>1. drafts \in Seq(Vocab)
      BY DEF Types
    <3>2. Base \o First(drafts, 0) = Base
      BY <1>2, <3>1, NoneOf, Zenon DEF Types
    <3> QED
      BY <1>2, <3>2 DEF After
  <2>4. finish' = "none" /\ keep' = 1 /\ keep' - 1 = 0 /\ count' + (accepted' - keep') + 2 <= MaxTokens
    BY <1>2, <1>3, <2>1
  <2>5. Keeping'
    <3>1. out' = After(keep' - 1)
      BY <2>3, <2>4
    <3>2. Knows(oracle', After(accepted'), next')
      BY <1>5, <2>1
    <3> QED
      BY <1>2, <1>3, <1>6, <2>1, <2>2, <2>4, <3>1, <3>2 DEF Keeping
  <2> QED
    BY <1>2, <1>5, <1>8, <2>1, <2>5 DEF Reveal, Counted, Sampling, Emitting, Drafting,
                                        Verifying, Ending
<1> QED
  BY <1>9, <1>10

(* Emitting an accepted draft emits the token the target chose. *)
LEMMA EmitDraftStep ==
  ASSUME Inv, EmitDraft
  PROVE  Inv' /\ EmitNext
<1> USE DEF Inv
<1>1. /\ phase = "keep" /\ finish = "none" /\ keep <= accepted /\ Emit(drafts[keep])
      /\ keep' = (IF finish' # "none" THEN keep ELSE keep + 1)
      /\ UNCHANGED <<oracle, fed, phase, tok, drafts, accepted, next>>
  BY DEF EmitDraft, Kept
<1>2. /\ tok \in Vocab /\ next \in Vocab /\ accepted <= Len(drafts)
      /\ keep \in 1 .. accepted + 1 /\ Agreed /\ Knows(oracle, After(accepted), next)
      /\ out = After(keep - 1) /\ count + (accepted - keep) + 2 <= MaxTokens
  BY <1>1 DEF Keeping
<1>3. /\ accepted \in Nat /\ count \in Nat /\ Len(drafts) \in Nat /\ keep \in 1 .. Len(drafts)
      /\ MaxTokens \in Nat
  BY <1>1, <1>2, LenProperties, SpecAssumption DEF Types
<1>4. drafts[keep] \in Vocab /\ Knows(oracle, out, drafts[keep])
  <2>1. drafts[keep] \in Vocab
    BY <1>3, ElementOfSeq DEF Types
  <2> QED
    BY <1>1, <1>2, <1>3, <2>1 DEF Agreed
<1>5. /\ EmitNext
      /\ out' \in Seq(Vocab) /\ count' = count + 1 /\ count' \in Nat
      /\ Counted' /\ finish' # "error"
      /\ finish' = "stop" => out' = out
      /\ finish' # "stop" => out' = Append(out, drafts[keep])
  BY <1>1, <1>4, EmitIsPlain
<1>6. Append(out, drafts[keep]) = After(keep)
  <2>1. Base \in Seq(Vocab)
    BY <1>2, AppendProperties DEF Base, Types
  <2> QED
    BY <1>2, <1>3, <2>1, Grows DEF After, Types
<1>7. (\A n : After(n)' = After(n)) /\ Agreed'
  BY <1>1, <1>2 DEF After, Base, Agreed
<1>8. Keeping'
  <2>1. CASE finish' = "none"
    <3>1. keep' = keep + 1 /\ out' = After(keep' - 1)
      BY <1>1, <1>3, <1>5, <1>6, <2>1
    <3>2. keep' \in 1 .. accepted + 1 /\ count' + (accepted - keep') + 2 <= MaxTokens
      BY <1>1, <1>2, <1>3, <1>5, <3>1
    <3> QED
      BY <1>1, <1>2, <1>7, <2>1, <3>1, <3>2 DEF Keeping
  <2>2. CASE finish' # "none"
    <3>1. keep' = keep /\ out' = After(IF finish' = "stop" THEN keep' - 1 ELSE keep')
      BY <1>1, <1>2, <1>5, <1>6, <2>2
    <3> QED
      BY <1>1, <1>2, <1>5, <1>7, <2>2, <3>1 DEF Keeping
  <2> QED
    BY <2>1, <2>2
<1>9. Types'
  BY <1>1, <1>3, <1>5 DEF Types
<1> QED
  BY <1>1, <1>5, <1>8, <1>9 DEF Sampling, Emitting, Drafting, Verifying, Ending

(* Commit feeds the batch up to the drafts kept: the state then holds the  *)
(* output without the token that is handled next, or that ended it.        *)
LEMMA CommitStep ==
  ASSUME Inv, Commit
  PROVE  Inv' /\ UNCHANGED plainVars
<1> USE DEF Inv
<1>1. /\ phase = "keep" /\ (finish # "none" \/ keep > accepted)
      /\ fed' = fed \o First(Batch, keep) /\ tok' = next
      /\ phase' = (IF finish = "none" THEN "emit" ELSE "done")
      /\ drafts' = <<>> /\ accepted' = 0 /\ keep' = 0
      /\ UNCHANGED <<oracle, out, finish, count>>
  BY DEF Commit
<1>2. /\ tok \in Vocab /\ next \in Vocab /\ accepted <= Len(drafts)
      /\ keep \in 1 .. accepted + 1 /\ Knows(oracle, After(accepted), next)
      /\ finish = "none" => out = After(keep - 1)
      /\ finish # "none" =>
           /\ finish # "error" /\ keep <= accepted
           /\ out = After(IF finish = "stop" THEN keep - 1 ELSE keep)
  BY <1>1 DEF Keeping
<1>3. /\ accepted \in Nat /\ Len(drafts) \in Nat /\ keep \in Nat /\ keep >= 1
      /\ keep - 1 \in 0 .. Len(drafts) /\ (keep - 1) + 1 = keep
  BY <1>2, LenProperties DEF Types
<1>4. fed' = After(keep - 1)
  <2>1. fed \o First(Batch, (keep - 1) + 1) = After(keep - 1)
    BY <1>2, <1>3, BatchPrefix
  <2> QED
    BY <1>1, <1>3, <2>1
<1>5. After(keep - 1) \in Seq(Vocab)
  <2>1. Base \in Seq(Vocab) /\ First(drafts, keep - 1) \in Seq(Vocab)
    BY <1>2, <1>3, AppendProperties, FirstProps DEF Base, Types
  <2> QED
    BY <2>1, ConcatProperties DEF After
<1>6. Types'
  <2>1. <<>> \in Seq(Vocab)
    BY EmptySeq
  <2> QED
    BY <1>1, <1>4, <1>5, <2>1 DEF Types
<1>7. Emitting'
  <2>1. CASE finish = "none"
    <3>1. keep - 1 = accepted
      BY <1>1, <1>2, <1>3, <2>1
    <3> QED
      BY <1>1, <1>2, <1>4, <2>1, <3>1 DEF Emitting
  <2>2. CASE finish # "none"
    BY <1>1, <2>2 DEF Emitting
  <2> QED
    BY <2>1, <2>2
<1>8. Ending'
  <2>1. CASE finish = "none"
    BY <1>1, <2>1 DEF Ending
  <2>2. CASE finish = "stop"
    BY <1>1, <1>2, <1>4, <2>2 DEF Ending
  <2>3. CASE finish \notin {"none", "stop"}
    <3>1. keep \in 1 .. Len(drafts) /\ out = After(keep)
      BY <1>2, <1>3, <2>3
    <3>2. Base \in Seq(Vocab) /\ drafts \in Seq(Vocab) /\ drafts[keep] \in Vocab
      BY <1>2, <3>1, AppendProperties, ElementOfSeq DEF Base, Types
    <3>3. out = Append(After(keep - 1), drafts[keep])
      BY <3>1, <3>2, Grows DEF After
    <3>4. out # <<>> /\ First(out, Len(out) - 1) = After(keep - 1)
      <4> HIDE DEF After
      <4> DEFINE a == After(keep - 1)
                 t == drafts[keep]
      <4>1. a \in Seq(Vocab) /\ t \in Vocab /\ out = Append(a, t)
        BY <1>5, <3>2, <3>3
      <4> HIDE DEF a, t
      <4>2. out # <<>> /\ First(out, Len(out) - 1) = a
        BY <4>1, Undone
      <4> QED
        BY <4>2 DEF a
    <3> QED
      BY <1>1, <1>4, <2>3, <3>4 DEF Ending
  <2> QED
    BY <2>1, <2>2, <2>3
<1> QED
  BY <1>1, <1>6, <1>7, <1>8 DEF plainVars, Counted, Sampling, Drafting, Verifying, Keeping

(* A failure ends the request with what it has emitted. *)
LEMMA FailStep ==
  ASSUME Inv, Fail
  PROVE  Inv' /\ GiveUp
BY DEF Inv, Fail, GiveUp, Types, Counted, Sampling, Emitting, Drafting, Verifying,
       Keeping, Ending

(* After the last token a failure changes nothing that was emitted.        *)
LEMMA FailAfterEndStep ==
  ASSUME Inv, FailAfterEnd
  PROVE  Inv' /\ UNCHANGED plainVars
<1>1. /\ tok \in Vocab /\ keep \in 1 .. accepted + 1 /\ accepted <= Len(drafts)
      /\ keep <= accepted
  BY DEF Inv, FailAfterEnd, Keeping
<1>2. keep - 1 \in 0 .. Len(drafts) /\ (keep - 1) + 1 = keep
  BY <1>1, LenProperties DEF Inv, Types
<1>3. fed \o First(Batch, (keep - 1) + 1) = After(keep - 1)
  BY <1>1, <1>2, BatchPrefix DEF Inv
<1>4. After(keep - 1) \in Seq(Vocab)
  <2>1. Base \in Seq(Vocab) /\ First(drafts, keep - 1) \in Seq(Vocab)
    BY <1>1, <1>2, AppendProperties, FirstProps DEF Base, Inv, Types
  <2> QED
    BY <2>1, ConcatProperties DEF After
<1>5. fed' \in Seq(Vocab)
  BY <1>2, <1>3, <1>4 DEF FailAfterEnd, Inv, Types
<1>6. Types'
  BY <1>5 DEF FailAfterEnd, Inv, Types
<1> QED
  BY <1>6 DEF Inv, FailAfterEnd, plainVars, Counted, Sampling, Emitting, Drafting,
              Verifying, Keeping, Ending

LEMMA StutterStep ==
  ASSUME Inv, UNCHANGED vars
  PROVE  Inv' /\ UNCHANGED plainVars
BY DEF Inv, vars, plainVars, Types, Counted, Sampling, Emitting, Drafting, Verifying,
       Keeping, Ending, Agreed, Knows, After, Base

(* Every step keeps Inv, and is a step of plain decoding or a stutter. *)
LEMMA Step == Inv /\ [Next]_vars => Inv' /\ [PlainNext]_plainVars
<1> SUFFICES ASSUME Inv, [Next]_vars PROVE Inv' /\ [PlainNext]_plainVars
  OBVIOUS
<1> USE DEF PlainNext
<1>1. CASE SampleFirst
  BY <1>1, SamplingStep
<1>2. CASE EmitSampled
  BY <1>2, EmitSampledStep
<1>3. CASE DecodePlain
  BY <1>3, SamplingStep
<1>4. CASE Propose
  BY <1>4, ProposeStep
<1>5. CASE VerifyRow
  BY <1>5, VerifyRowStep
<1>6. CASE EmitDraft
  BY <1>6, EmitDraftStep
<1>7. CASE Commit
  BY <1>7, CommitStep
<1>8. CASE Fail
  BY <1>8, FailStep
<1>9. CASE Ended
  BY <1>9, StutterStep DEF Ended
<1>10. CASE UNCHANGED vars
  BY <1>10, StutterStep
<1>11. CASE FailAfterEnd
  BY <1>11, FailAfterEndStep
<1> QED
  BY <1>1, <1>2, <1>3, <1>4, <1>5, <1>6, <1>7, <1>8, <1>9, <1>10, <1>11 DEF Next

LEMMA Invariance == Spec => []Inv
<1>1. Inv /\ [Next]_vars => Inv'
  BY Step
<1> QED
  BY InvInit, <1>1, PTL DEF Spec

-----------------------------------------------------------------------------
(* Lossless: whatever the drafter proposes and the controller asks for,    *)
(* SpecDecode::decode emits the tokens plain decoding would, and stops for *)
(* the same reason at the same token.                                      *)
THEOREM Lossless == Spec => ImplementsPlain
<1>1. Init => PlainInit
  BY DEF Init
<1>2. Inv /\ [Next]_vars => [PlainNext]_plainVars
  BY Step
<1> QED
  BY Invariance, <1>1, <1>2, PTL DEF Spec, ImplementsPlain, PlainSpec

(* max_tokens bounds the completion, speculation or not, every completion  *)
(* token is counted once, and a verification never feeds the model past    *)
(* its context.                                                            *)
THEOREM BudgetKept == Spec => []WithinBudget
<1>1. Inv => WithinBudget
  <2> SUFFICES ASSUME Inv PROVE WithinBudget
    OBVIOUS
  <2>1. ASSUME phase = "verify"
        PROVE  /\ count + Len(drafts) + 1 <= MaxTokens
               /\ Len(fed) + Len(Batch) <= Room
    <3>1. /\ count + Len(drafts) + 1 <= MaxTokens
          /\ Len(fed) + Len(drafts) + 1 <= Room /\ tok \in Vocab
      BY <2>1 DEF Inv, Verifying
    <3> DEFINE b == <<tok>>
    <3>2. b \in Seq(Vocab) /\ Len(b) = 1
      BY <3>1
    <3>3. Len(fed) \in Nat /\ Len(drafts) \in Nat /\ drafts \in Seq(Vocab)
      BY LenProperties DEF Inv, Types
    <3>4. Batch = b \o drafts
      BY DEF Batch
    <3> HIDE DEF b
    <3>5. Len(Batch) = 1 + Len(drafts)
      BY <3>2, <3>3, <3>4, ConcatProperties
    <3> QED
      BY <3>1, <3>3, <3>5, SpecAssumption
  <2> QED
    BY <2>1 DEF Inv, Counted, WithinBudget
<1> QED
  BY Invariance, <1>1, PTL

(* The state holds exactly the output but for the token being handled or   *)
(* the one that finished it: nothing of a rejected draft is ever left.     *)
THEOREM StateFollows == Spec => []StateFollowsOutput
<1>1. Inv => StateFollowsOutput
  BY DEF Inv, Sampling, Emitting, Drafting, Verifying, Ending, Base, StateFollowsOutput
<1> QED
  BY Invariance, <1>1, PTL

-----------------------------------------------------------------------------
(* Rejection sampling.  First, what Total computes: an induction over the   *)
(* subsets of the vocabulary. *)
(* A natural number of a set that none of the set is below. *)
LEMMA LeastNat ==
  ASSUME NEW S \in SUBSET Nat, S # {}
  PROVE  \E m \in S : \A n \in S : m <= n
<1> DEFINE R == OpToRel(<, Nat)
<1>1. \A a, b \in Nat : a < b => <<a, b>> \in R
  <2>1. R = {ss \in Nat \X Nat : ss[1] < ss[2]} BY Zenon DEF OpToRel
  <2> QED BY <2>1
<1>2. IsWellFoundedOn(R, Nat) BY NatLessThanWellFounded
<1> HIDE DEF R
<1>3. PICK m \in S : \A n \in S : <<n, m>> \notin R BY <1>2, WFMin, Zenon
<1>4. ASSUME NEW n \in S PROVE m <= n
  <2>1. ~(n < m) BY <1>1, <1>3, Zenon
  <2> QED BY <2>1
<1> QED BY <1>4

(* Subsets of a finite set are reached from the empty one, by one element *)
(* at a time.                                                             *)
LEMMA Subsets ==
  ASSUME NEW S, IsFiniteSet(S), NEW G \in SUBSET (SUBSET S), {} \in G,
         \A T \in SUBSET S : (\A x \in T : T \ {x} \in G) => T \in G
  PROVE  \A T \in SUBSET S : T \in G
<1> SUFFICES ASSUME \E T \in SUBSET S : T \notin G PROVE FALSE OBVIOUS
<1> DEFINE sizes == {Cardinality(T) : T \in {T \in SUBSET S : T \notin G}}
<1>1. \A T \in SUBSET S : IsFiniteSet(T) /\ Cardinality(T) \in Nat
  BY FS_Subset, FS_CardinalityType
<1>2. PICK m \in sizes : \A n \in sizes : m <= n
  <2>1. sizes \in SUBSET Nat /\ sizes # {} BY <1>1
  <2> HIDE DEF sizes
  <2> QED BY <2>1, LeastNat
<1>3. PICK T \in SUBSET S : T \notin G /\ Cardinality(T) = m BY <1>2
<1>4. PICK x \in T : T \ {x} \notin G BY <1>3
<1>5. T \ {x} \in SUBSET S BY <1>3
<1>6. Cardinality(T \ {x}) = Cardinality(T) - 1 BY <1>1, <1>4, FS_RemoveElement
<1>7. Cardinality(T \ {x}) \in sizes BY <1>4, <1>5
<1> HIDE DEF sizes
<1> QED BY <1>1, <1>2, <1>3, <1>5, <1>6, <1>7

Pick(T) == CHOOSE x \in T : TRUE
(* The sums over the subsets of a function's domain. *)
Sums(f, sum) ==
  /\ sum[{}] = 0 /\ \A T \in SUBSET DOMAIN f : sum[T] \in Nat
  /\ \A T \in SUBSET DOMAIN f : T # {} => sum[T] = f[Pick(T)] + sum[T \ {Pick(T)}]

LEMMA SumsExist ==
  ASSUME NEW f, \A x \in DOMAIN f : f[x] \in Nat, IsFiniteSet(DOMAIN f)
  PROVE  \E sum \in [SUBSET DOMAIN f -> Nat] :
           \A T \in SUBSET DOMAIN f :
             sum[T] = IF T = {} THEN 0 ELSE f[Pick(T)] + sum[T \ {Pick(T)}]
<1> DEFINE S == DOMAIN f
           Upto(n) == {T \in SUBSET S : Cardinality(T) <= n}
           Right(sum, T) == sum[T] = IF T = {} THEN 0 ELSE f[Pick(T)] + sum[T \ {Pick(T)}]
           Summed(n) == \E sum \in [Upto(n) -> Nat] : \A T \in Upto(n) : Right(sum, T)
<1>1. \A T \in SUBSET S : IsFiniteSet(T) /\ Cardinality(T) \in Nat
  BY FS_Subset, FS_CardinalityType
<1>2. \A T \in SUBSET S : T # {} =>
        /\ Pick(T) \in T /\ f[Pick(T)] \in Nat
        /\ T \ {Pick(T)} \in SUBSET S
        /\ Cardinality(T \ {Pick(T)}) = Cardinality(T) - 1 /\ Cardinality(T) > 0
  <2> SUFFICES ASSUME NEW T \in SUBSET S, T # {}
               PROVE  /\ Pick(T) \in T /\ f[Pick(T)] \in Nat
                      /\ T \ {Pick(T)} \in SUBSET S
                      /\ Cardinality(T \ {Pick(T)}) = Cardinality(T) - 1 /\ Cardinality(T) > 0
    OBVIOUS
  <2>1. Pick(T) \in T BY DEF Pick
  <2>2. IsFiniteSet(T) /\ Cardinality(T) \in Nat BY <1>1
  <2>3. Cardinality(T \ {Pick(T)}) = Cardinality(T) - 1 BY <2>1, <2>2, FS_RemoveElement
  <2>4. Cardinality(T \ {Pick(T)}) \in Nat BY <1>1
  <2> QED BY <2>1, <2>2, <2>3, <2>4
<1>3. \A T \in SUBSET S : T = {} => Cardinality(T) = 0 BY FS_EmptySet
<1>4. Summed(0)
  <2> DEFINE sum == [T \in Upto(0) |-> 0]
  <2>1. \A T \in Upto(0) : T = {}
    <3> SUFFICES ASSUME NEW T \in Upto(0), T # {} PROVE FALSE OBVIOUS
    <3>1. Cardinality(T) > 0 /\ Cardinality(T) \in Nat /\ Cardinality(T) <= 0 BY <1>1, <1>2
    <3> QED BY <3>1
  <2>2. \A T \in Upto(0) : Right(sum, T) BY <2>1
  <2> QED BY <2>2
<1>5. ASSUME NEW n \in Nat, Summed(n) PROVE Summed(n + 1)
  <2>1. PICK sum \in [Upto(n) -> Nat] : \A T \in Upto(n) : Right(sum, T) BY <1>5
  <2> DEFINE more == [T \in Upto(n + 1) |->
                        IF T = {} THEN 0 ELSE f[Pick(T)] + sum[T \ {Pick(T)}]]
  <2>2. ASSUME NEW T \in Upto(n + 1), T # {}
        PROVE  /\ T \ {Pick(T)} \in Upto(n) /\ T \ {Pick(T)} \in Upto(n + 1)
               /\ more[T] = f[Pick(T)] + sum[T \ {Pick(T)}] /\ more[T] \in Nat
    <3>1. T \ {Pick(T)} \in SUBSET S /\ Cardinality(T \ {Pick(T)}) <= n BY <1>1, <1>2, <2>2
    <3>2. T \ {Pick(T)} \in Upto(n) /\ T \ {Pick(T)} \in Upto(n + 1) BY <3>1, <1>1
    <3>3. sum[T \ {Pick(T)}] \in Nat BY <2>1, <3>2
    <3>4. f[Pick(T)] \in Nat BY <1>2, <2>2
    <3>5. more[T] = f[Pick(T)] + sum[T \ {Pick(T)}] BY <2>2
    <3> QED BY <3>2, <3>3, <3>4, <3>5
  <2>3. ASSUME NEW T \in Upto(n) PROVE T \in Upto(n + 1) /\ more[T] = sum[T]
    <3>1. T \in Upto(n + 1) BY <1>1
    <3>2. Right(sum, T) BY <2>1
    <3> QED BY <3>1, <3>2
  <2>4. more \in [Upto(n + 1) -> Nat]
    <3>1. \A T \in Upto(n + 1) : more[T] \in Nat BY <2>2
    <3> QED BY <3>1
  <2>5. ASSUME NEW T \in Upto(n + 1) PROVE Right(more, T)
    <3>1. CASE T = {} BY <3>1
    <3>2. CASE T # {}
      <4>1. more[T \ {Pick(T)}] = sum[T \ {Pick(T)}] BY <2>2, <2>3, <3>2
      <4> QED BY <2>2, <3>2, <4>1
    <3> QED BY <3>1, <3>2
  <2> HIDE DEF more, Upto
  <2> QED BY <2>4, <2>5
<1>6. \A n \in Nat : Summed(n)
  <2> SUFFICES ASSUME \E n \in Nat : ~Summed(n) PROVE FALSE OBVIOUS
  <2> HIDE DEF Summed
  <2>1. PICK m \in {n \in Nat : ~Summed(n)} : \A k \in {n \in Nat : ~Summed(n)} : m <= k
    BY LeastNat
  <2>2. m \in Nat /\ m # 0 BY <1>4, <2>1
  <2>3. PICK k \in Nat : m = k + 1 BY <2>2
  <2>4. Summed(k) BY <2>1, <2>3
  <2> QED BY <1>5, <2>1, <2>3, <2>4
<1>7. \A T \in SUBSET S : Cardinality(T) <= Cardinality(S) BY FS_Subset
<1>8. Upto(Cardinality(S)) = SUBSET S BY <1>7
<1>9. Summed(Cardinality(S)) BY <1>1, <1>6
<1> HIDE DEF Upto
<1> QED BY <1>8, <1>9

LEMMA TotalIs ==
  ASSUME NEW f, \A x \in DOMAIN f : f[x] \in Nat, IsFiniteSet(DOMAIN f)
  PROVE  \E sum : Sums(f, sum) /\ Decision!Total(f) = sum[DOMAIN f]
<1> DEFINE S == DOMAIN f
           value(sum) == [T \in SUBSET S |->
                            IF T = {} THEN 0 ELSE f[Pick(T)] + sum[T \ {Pick(T)}]]
           sum == CHOOSE sum : sum = value(sum)
<1>1. Decision!Total(f) = sum[S]
  BY DEF Decision!Total, Decision!FoldFunction, Decision!FoldFunctionOnSet, Decision!MapThenFoldSet, Pick
<1>2. PICK s \in [SUBSET S -> Nat] :
        \A T \in SUBSET S : s[T] = IF T = {} THEN 0 ELSE f[Pick(T)] + s[T \ {Pick(T)}]
  BY SumsExist
<1>3. s = value(s)
  <2> DEFINE v == value(s)
  <2>1. \A T \in SUBSET S : v[T] = s[T] BY <1>2
  <2>2. s = [T \in SUBSET S |-> s[T]] /\ v = [T \in SUBSET S |-> v[T]] OBVIOUS
  <2> HIDE DEF v
  <2>3. s = v BY <2>1, <2>2
  <2> QED BY <2>3 DEF v
<1> HIDE DEF value
<1>4. sum = value(sum) BY <1>3
<1> HIDE DEF sum
<1> DEFINE G == {T \in SUBSET S : sum[T] = s[T]}
<1>5. \A T \in SUBSET S : sum[T] = IF T = {} THEN 0 ELSE f[Pick(T)] + sum[T \ {Pick(T)}]
  BY <1>4 DEF value
<1>6. \A T \in SUBSET S : T # {} => Pick(T) \in T BY DEF Pick
<1>7. {} \in G BY <1>2, <1>5
<1>8. ASSUME NEW T \in SUBSET S, \A x \in T : T \ {x} \in G PROVE T \in G
  <2>1. CASE T = {} BY <1>7, <2>1
  <2>2. CASE T # {}
    <3>1. sum[T \ {Pick(T)}] = s[T \ {Pick(T)}] BY <1>6, <1>8, <2>2
    <3> QED BY <1>2, <1>5, <2>2, <3>1
  <2> QED BY <2>1, <2>2
<1>9. \A T \in SUBSET S : sum[T] = s[T]
  <2> HIDE DEF G
  <2>1. G \in SUBSET SUBSET S BY DEF G
  <2>2. \A T \in SUBSET S : T \in G BY <1>7, <1>8, <2>1, Subsets
  <2> QED BY <2>2 DEF G
<1>10. Sums(f, sum) BY <1>2, <1>5, <1>9 DEF Sums
<1> QED BY <1>1, <1>10

(* A total is reached by adding one token's part after another. *)
Adds(f, sum, T) ==
  /\ Pick(T) \in T /\ Pick(T) \in Vocab /\ f[Pick(T)] \in Nat
  /\ sum[T] \in Nat /\ sum[T \ {Pick(T)}] \in Nat
  /\ sum[T] = f[Pick(T)] + sum[T \ {Pick(T)}]
Adding(f, sum) ==
  /\ Decision!Total(f) = sum[Vocab] /\ sum[{}] = 0
  /\ \A T \in SUBSET Vocab : sum[T] \in Nat /\ (T # {} => Adds(f, sum, T))

LEMMA TotalSteps ==
  ASSUME NEW f \in [Vocab -> Nat]
  PROVE  \E sum : Adding(f, sum)
<1>1. DOMAIN f = Vocab OBVIOUS
<1>2. PICK sum : Sums(f, sum) /\ Decision!Total(f) = sum[Vocab] BY <1>1, TotalIs, GridAssumption
<1>3. ASSUME NEW T \in SUBSET Vocab, T # {} PROVE Adds(f, sum, T)
  <2>1. Pick(T) \in T BY <1>3 DEF Pick
  <2>2. T \ {Pick(T)} \in SUBSET Vocab OBVIOUS
  <2>3. sum[T] \in Nat /\ sum[T \ {Pick(T)}] \in Nat BY <1>1, <1>2, <2>2 DEF Sums
  <2>4. sum[T] = f[Pick(T)] + sum[T \ {Pick(T)}] BY <1>1, <1>2, <1>3 DEF Sums
  <2> QED BY <2>1, <2>3, <2>4 DEF Adds
<1>4. sum[{}] = 0 /\ \A T \in SUBSET Vocab : sum[T] \in Nat BY <1>1, <1>2 DEF Sums
<1> QED BY <1>2, <1>3, <1>4 DEF Adding

LEMMA TotalNat ==
  ASSUME NEW f \in [Vocab -> Nat]
  PROVE  Decision!Total(f) \in Nat /\ \A x \in Vocab : f[x] <= Decision!Total(f)
<1>1. PICK sum : Adding(f, sum) BY TotalSteps
<1> DEFINE G == {T \in SUBSET Vocab : \A x \in T : f[x] <= sum[T]}
<1>2. {} \in G OBVIOUS
<1>3. ASSUME NEW T \in SUBSET Vocab, \A x \in T : T \ {x} \in G PROVE T \in G
  <2>1. CASE T = {} BY <1>2, <2>1
  <2>2. CASE T # {}
    <3>1. /\ Pick(T) \in T /\ f[Pick(T)] \in Nat /\ sum[T \ {Pick(T)}] \in Nat
          /\ sum[T] = f[Pick(T)] + sum[T \ {Pick(T)}]
      BY <1>1, <2>2 DEF Adding, Adds
    <3>2. \A x \in T \ {Pick(T)} : f[x] <= sum[T \ {Pick(T)}] BY <1>3, <3>1
    <3>3. ASSUME NEW x \in T PROVE f[x] <= sum[T]
      <4>1. f[x] \in Nat OBVIOUS
      <4>2. CASE x = Pick(T) BY <3>1, <4>2
      <4>3. CASE x # Pick(T)
        <5>1. f[x] <= sum[T \ {Pick(T)}] BY <3>2, <4>3
        <5> QED BY <3>1, <4>1, <5>1
      <4> QED BY <4>2, <4>3
    <3> QED BY <3>3
  <2> QED BY <2>1, <2>2
<1>4. Vocab \in G
  <2> HIDE DEF G
  <2>1. G \in SUBSET SUBSET Vocab BY DEF G
  <2> QED BY <1>2, <1>3, <2>1, Subsets, GridAssumption
<1>5. sum[Vocab] \in Nat BY <1>1 DEF Adding
<1> QED BY <1>1, <1>4, <1>5 DEF Adding

(* Totals add up, and are scaled. *)
LEMMA TotalAdd ==
  ASSUME NEW f \in [Vocab -> Nat], NEW g \in [Vocab -> Nat], NEW h \in [Vocab -> Nat],
         \A x \in Vocab : h[x] = f[x] + g[x]
  PROVE  Decision!Total(h) = Decision!Total(f) + Decision!Total(g)
<1>1. PICK sf : Adding(f, sf) BY TotalSteps
<1>2. PICK sg : Adding(g, sg) BY TotalSteps
<1>3. PICK sh : Adding(h, sh) BY TotalSteps
<1> DEFINE G == {T \in SUBSET Vocab : sh[T] = sf[T] + sg[T]}
<1>4. {} \in G BY <1>1, <1>2, <1>3 DEF Adding
<1>5. ASSUME NEW T \in SUBSET Vocab, \A x \in T : T \ {x} \in G PROVE T \in G
  <2>1. CASE T = {} BY <1>4, <2>1
  <2>2. CASE T # {}
    <3>1. /\ Pick(T) \in T /\ Pick(T) \in Vocab
          /\ f[Pick(T)] \in Nat /\ sf[T \ {Pick(T)}] \in Nat
          /\ sf[T] = f[Pick(T)] + sf[T \ {Pick(T)}]
      BY <1>1, <2>2 DEF Adding, Adds
    <3>2. /\ g[Pick(T)] \in Nat /\ sg[T \ {Pick(T)}] \in Nat
          /\ sg[T] = g[Pick(T)] + sg[T \ {Pick(T)}]
      BY <1>2, <2>2 DEF Adding, Adds
    <3>3. sh[T] = h[Pick(T)] + sh[T \ {Pick(T)}] BY <1>3, <2>2 DEF Adding, Adds
    <3>4. sh[T \ {Pick(T)}] = sf[T \ {Pick(T)}] + sg[T \ {Pick(T)}] BY <1>5, <3>1
    <3>5. h[Pick(T)] = f[Pick(T)] + g[Pick(T)] BY <3>1
    <3> QED BY <3>1, <3>2, <3>3, <3>4, <3>5
  <2> QED BY <2>1, <2>2
<1>6. Vocab \in G
  <2> HIDE DEF G
  <2>1. G \in SUBSET SUBSET Vocab BY DEF G
  <2> QED BY <1>4, <1>5, <2>1, Subsets, GridAssumption
<1> QED BY <1>1, <1>2, <1>3, <1>6 DEF Adding

LEMMA TotalScaled ==
  ASSUME NEW k \in Nat, NEW f \in [Vocab -> Nat], NEW h \in [Vocab -> Nat],
         \A x \in Vocab : h[x] = k * f[x]
  PROVE  Decision!Total(h) = k * Decision!Total(f)
<1>1. PICK sf : Adding(f, sf) BY TotalSteps
<1>2. PICK sh : Adding(h, sh) BY TotalSteps
<1> DEFINE G == {T \in SUBSET Vocab : sh[T] = k * sf[T]}
<1>3. {} \in G BY <1>1, <1>2 DEF Adding
<1>4. ASSUME NEW T \in SUBSET Vocab, \A x \in T : T \ {x} \in G PROVE T \in G
  <2>1. CASE T = {} BY <1>3, <2>1
  <2>2. CASE T # {}
    <3>1. /\ Pick(T) \in T /\ Pick(T) \in Vocab
          /\ f[Pick(T)] \in Nat /\ sf[T \ {Pick(T)}] \in Nat
          /\ sf[T] = f[Pick(T)] + sf[T \ {Pick(T)}]
      BY <1>1, <2>2 DEF Adding, Adds
    <3>2. sh[T] = h[Pick(T)] + sh[T \ {Pick(T)}] BY <1>2, <2>2 DEF Adding, Adds
    <3>3. sh[T \ {Pick(T)}] = k * sf[T \ {Pick(T)}] BY <1>4, <3>1
    <3>4. h[Pick(T)] = k * f[Pick(T)] BY <3>1
    <3>5. PICK a \in Nat, b \in Nat : a = f[Pick(T)] /\ b = sf[T \ {Pick(T)}] BY <3>1
    <3>6. k * (a + b) = (k * a) + (k * b) OBVIOUS
    <3>7. sh[T] = (k * a) + (k * b) BY <3>2, <3>3, <3>4, <3>5
    <3>8. sf[T] = a + b BY <3>1, <3>5
    <3> QED BY <3>6, <3>7, <3>8
  <2> QED BY <2>1, <2>2
<1>5. Vocab \in G
  <2> HIDE DEF G
  <2>1. G \in SUBSET SUBSET Vocab BY DEF G
  <2> QED BY <1>3, <1>4, <2>1, Subsets, GridAssumption
<1> QED BY <1>1, <1>2, <1>5 DEF Adding

(* What only one token has is the total. *)
LEMMA TotalOne ==
  ASSUME NEW f \in [Vocab -> Nat], NEW d \in Vocab, NEW a \in Nat,
         \A x \in Vocab : f[x] = IF x = d THEN a ELSE 0
  PROVE  Decision!Total(f) = a
<1>1. PICK sum : Adding(f, sum) BY TotalSteps
<1> DEFINE G == {T \in SUBSET Vocab : sum[T] = IF d \in T THEN a ELSE 0}
<1>2. {} \in G BY <1>1 DEF Adding
<1>3. ASSUME NEW T \in SUBSET Vocab, \A x \in T : T \ {x} \in G PROVE T \in G
  <2>1. CASE T = {} BY <1>2, <2>1
  <2>2. CASE T # {}
    <3>1. /\ Pick(T) \in T /\ Pick(T) \in Vocab
          /\ sum[T] = f[Pick(T)] + sum[T \ {Pick(T)}]
      BY <1>1, <2>2 DEF Adding, Adds
    <3>2. sum[T \ {Pick(T)}] = IF d \in T \ {Pick(T)} THEN a ELSE 0 BY <1>3, <3>1
    <3>3. f[Pick(T)] = IF Pick(T) = d THEN a ELSE 0 BY <3>1
    <3>4. CASE Pick(T) = d BY <3>1, <3>2, <3>3, <3>4
    <3>5. CASE Pick(T) # d
      <4>1. d \in T \ {Pick(T)} <=> d \in T BY <3>5
      <4> QED BY <3>1, <3>2, <3>3, <3>5, <4>1
    <3> QED BY <3>4, <3>5
  <2> QED BY <2>1, <2>2
<1>4. Vocab \in G
  <2> HIDE DEF G
  <2>1. G \in SUBSET SUBSET Vocab BY DEF G
  <2> QED BY <1>2, <1>3, <2>1, Subsets, GridAssumption
<1> QED BY <1>1, <1>4 DEF Adding

-----------------------------------------------------------------------------
(* One draft. *)
(* A step of u of each Grid \div n belongs to one of n equal parts. *)
LEMMA Parts ==
  ASSUME NEW n \in 1 .. Unit
  PROVE  \E m \in Nat : m > 0 /\ Grid = n * m /\ Grid \div n = m
<1>1. Unit \in Nat /\ Grid \in Nat /\ Grid > 0 /\ Grid % n = 0 BY GridAssumption
<1>2. n \in Nat /\ n > 0 BY <1>1
<1>3. Grid \div n \in Int /\ Grid = n * (Grid \div n) + (Grid % n) BY <1>1, <1>2
<1>4. PICK m \in Int : m = Grid \div n BY <1>3
<1>5. Grid = n * m
  <2>1. Grid = n * m + 0 BY <1>1, <1>3, <1>4
  <2>2. n * m \in Int BY <1>2
  <2> QED BY <2>1, <2>2
<1>6. m > 0
  <2> SUFFICES ASSUME m <= 0 PROVE FALSE BY <1>4
  <2>1. n * m <= 0 BY <1>2
  <2> QED BY <1>1, <1>5, <2>1
<1> QED BY <1>4, <1>5, <1>6

(* Of Grid steps of u, those that reject a draft with q = b and p = a are *)
(* the share of b that exceeds a.                                         *)
LEMMA Rejected ==
  ASSUME NEW b \in 1 .. Unit, NEW a \in 0 .. Unit
  PROVE  LET r == Cardinality({u \in 0 .. Grid - 1 : ~(u * b < a * Grid)}) IN
         /\ r \in Nat /\ r <= Grid
         /\ b * r = Minus(b, a) * Grid
         /\ b * (Grid - r) = (IF a < b THEN a ELSE b) * Grid
<1> DEFINE R == {u \in 0 .. Grid - 1 : ~(u * b < a * Grid)}
           r == Cardinality(R)
<1>1. Unit \in Nat /\ Grid \in Nat /\ Grid > 0 /\ a \in Nat /\ b \in Nat /\ b > 0
  BY GridAssumption
<1>2. PICK m \in Nat : m > 0 /\ Grid = b * m BY Parts
<1>3. ASSUME NEW u \in Nat PROVE u * b < a * Grid <=> u < a * m
  <2>1. PICK e \in Nat : e = a * m BY <1>1
  <2>2. a * Grid = e * b BY <1>1, <1>2, <2>1
  <2>3. ASSUME u < e PROVE u * b < e * b
    <3>1. PICK d \in Nat : e = u + d /\ d >= 1 BY <2>3
    <3>2. e * b = u * b + d * b BY <1>1, <3>1
    <3>3. d * b >= b BY <1>1, <3>1
    <3>4. PICK x \in Nat, y \in Nat : x = u * b /\ y = d * b BY <1>1, <3>1
    <3> QED BY <1>1, <3>2, <3>3, <3>4
  <2>4. ASSUME e <= u PROVE ~(u * b < e * b)
    <3>1. PICK d \in Nat : u = e + d BY <2>4
    <3>2. u * b = e * b + d * b BY <1>1, <3>1
    <3>3. PICK x \in Nat, y \in Nat : x = e * b /\ y = d * b BY <1>1, <3>1
    <3> QED BY <3>2, <3>3
  <2> QED BY <2>1, <2>2, <2>3, <2>4
<1>4. CASE a >= b
  <2>1. a * m >= Grid
    <3>1. PICK d \in Nat : a = b + d BY <1>1, <1>4
    <3>2. a * m = b * m + d * m BY <1>1, <3>1
    <3>3. PICK x \in Nat, y \in Nat : x = b * m /\ y = d * m BY <1>1, <3>1
    <3> QED BY <1>2, <3>2, <3>3
  <2>2. R = {}
    <3> SUFFICES ASSUME NEW u \in R PROVE FALSE OBVIOUS
    <3>1. u \in Nat /\ u < Grid /\ ~(u * b < a * Grid) BY <1>1
    <3>2. PICK e \in Nat : e = a * m BY <1>1
    <3> QED BY <1>1, <1>3, <2>1, <3>1, <3>2
  <2>3. r = 0 BY <2>2, FS_EmptySet
  <2>4. b * r = 0 /\ b * (Grid - r) = b * Grid /\ Minus(b, a) = 0 /\ 0 * Grid = 0
    BY <1>1, <1>4, <2>3 DEF Minus
  <2> QED BY <1>1, <1>4, <2>3, <2>4
<1>5. CASE a < b
  <2>1. PICK e \in Nat : e = a * m BY <1>1
  <2>2. PICK d \in Nat : b = a + d /\ d > 0 BY <1>1, <1>5
  <2>3. Grid = e + d * m BY <1>1, <1>2, <2>1, <2>2
  <2>4. PICK f \in Nat : f = d * m BY <2>2
  <2>5. R = e .. Grid - 1
    <3>1. ASSUME NEW u \in R PROVE u \in e .. Grid - 1
      <4>1. u \in Nat /\ u <= Grid - 1 /\ ~(u * b < a * Grid) BY <1>1
      <4> QED BY <1>1, <1>3, <2>1, <4>1
    <3>2. ASSUME NEW u \in e .. Grid - 1 PROVE u \in R
      <4>1. u \in Nat /\ u \in 0 .. Grid - 1 /\ ~(u < e) BY <1>1, <2>1
      <4> QED BY <1>3, <2>1, <4>1
    <3> QED BY <3>1, <3>2
  <2>6. r = f
    <3>1. e \in Int /\ Grid - 1 \in Int /\ e <= Grid BY <1>1, <2>1, <2>3, <2>4
    <3>2. Cardinality(e .. Grid - 1) = IF e > Grid - 1 THEN 0 ELSE Grid - 1 - e + 1
      BY <3>1, FS_Interval
    <3> HIDE DEF R
    <3> QED BY <1>1, <2>1, <2>3, <2>4, <2>5, <3>1, <3>2
  <2>7. b * r = d * Grid
    <3>1. b * (d * m) = d * (b * m) BY <1>1, <2>2
    <3> QED BY <1>2, <2>4, <2>6, <3>1
  <2>8. Minus(b, a) = d BY <1>1, <1>5, <2>2 DEF Minus
  <2>9. b * (Grid - r) = a * Grid
    <3>1. Grid - r = e BY <2>1, <2>3, <2>4, <2>6
    <3>2. b * (a * m) = a * (b * m) BY <1>1
    <3> QED BY <1>2, <2>1, <3>1, <3>2
  <2> HIDE DEF r
  <2> QED BY <1>1, <1>5, <2>1, <2>3, <2>4, <2>6, <2>7, <2>8, <2>9 DEF r
<1> QED BY <1>1, <1>4, <1>5

(* What is known of the inputs of a decision. *)
DecisionTypes ==
  /\ p \in Decision!Distributions
  /\ q \in Decision!Distributions \cup {Decision!OneHot}
  /\ draft \in Vocab

LEMMA DistributionProps ==
  ASSUME NEW f \in Decision!Distributions
  PROVE  /\ f \in [Vocab -> Nat] /\ \A x \in Vocab : f[x] \in 0 .. Unit
         /\ Decision!Total(f) = Unit /\ f # Decision!OneHot
<1>1. f \in [Vocab -> 0 .. Unit] /\ Decision!Total(f) = Unit BY DEF Decision!Distributions
<1>2. Unit \in Nat /\ Unit > 0 BY GridAssumption
<1>3. f \in [Vocab -> Nat] BY <1>1, <1>2
<1>4. f # Decision!OneHot
  <2> SUFFICES ASSUME f = Decision!OneHot PROVE FALSE OBVIOUS
  <2>1. \A x \in Vocab : f[x] = 0 BY DEF Decision!OneHot
  <2>2. PICK sum : Adding(f, sum) BY <1>3, TotalSteps
  <2>3. \A x \in Vocab : f[x] = 0 * f[x]
    <3> SUFFICES ASSUME NEW x \in Vocab PROVE f[x] = 0 * f[x] OBVIOUS
    <3>1. 0 * 0 = 0 OBVIOUS
    <3> QED BY <2>1, <3>1
  <2>4. Decision!Total(f) = 0 * Decision!Total(f) BY <1>3, <2>3, TotalScaled
  <2>5. Decision!Total(f) \in Nat BY <1>3, TotalNat
  <2> QED BY <1>1, <1>2, <2>4, <2>5
<1> QED BY <1>1, <1>2, <1>3, <1>4

(* The steps of u that reject draft d, when q gives it b of the Unit parts. *)
LEMMA RejectionsAre ==
  ASSUME DecisionTypes, NEW d \in Vocab, NEW b \in 0 .. Unit,
         b = Decision!DraftProb(q, d)[d]
  PROVE  /\ Decision!Rejections(d) \in Nat /\ Decision!Rejections(d) <= Grid
         /\ b * Decision!Rejections(d) = Minus(b, p[d]) * Grid
         /\ b * (Grid - Decision!Rejections(d)) = (IF p[d] < b THEN p[d] ELSE b) * Grid
<1> DEFINE R == {u \in 0 .. Grid - 1 : ~Decision!Accepts(p, b, d, u)}
           r == Decision!Rejections(d)
<1>1. r = Cardinality(R) BY DEF Decision!Rejections, Decision!Cardinality, Cardinality
<1>2. p[d] \in 0 .. Unit BY DistributionProps DEF DecisionTypes
<1>3. Unit \in Nat /\ Grid \in Nat /\ Grid > 0 BY GridAssumption
<1>4. CASE b = 0
  <2>1. 0 \in Int /\ Grid - 1 \in Int /\ Grid - 1 >= 0 BY <1>3
  <2>2. IsFiniteSet(0 .. Grid - 1) /\ Cardinality(0 .. Grid - 1) = Grid
    <3>1. /\ IsFiniteSet(0 .. Grid - 1)
          /\ Cardinality(0 .. Grid - 1) = IF 0 > Grid - 1 THEN 0 ELSE Grid - 1 - 0 + 1
      BY <2>1, FS_Interval
    <3> QED BY <1>3, <2>1, <3>1
  <2>3. R \in SUBSET (0 .. Grid - 1) OBVIOUS
  <2> HIDE DEF R, r
  <2>4. r \in Nat /\ r <= Grid BY <1>1, <2>2, <2>3, FS_Subset, FS_CardinalityType
  <2>5. b * r = 0 /\ b * (Grid - r) = 0 /\ Minus(b, p[d]) = 0 BY <1>2, <1>3, <1>4, <2>4 DEF Minus
  <2>6. (IF p[d] < b THEN p[d] ELSE b) = 0 BY <1>2, <1>4
  <2> QED BY <1>3, <2>4, <2>5, <2>6 DEF r
<1>5. CASE b # 0
  <2>1. R = {u \in 0 .. Grid - 1 : ~(u * b < p[d] * Grid)} BY <1>5 DEF Decision!Accepts
  <2>2. b \in 1 .. Unit BY <1>3, <1>5
  <2> HIDE DEF R, r
  <2> QED BY <1>1, <1>2, <2>1, <2>2, Rejected DEF r
<1> QED BY <1>4, <1>5

(* What of the target exceeds the drafter adds up to what of the drafter  *)
(* exceeds the target.                                                    *)
LEMMA Excess ==
  ASSUME NEW a \in Decision!Distributions, NEW b \in Decision!Distributions,
         NEW over \in [Vocab -> Nat], NEW under \in [Vocab -> Nat],
         \A x \in Vocab : over[x] = Minus(a[x], b[x]) /\ under[x] = Minus(b[x], a[x])
  PROVE  Decision!Total(over) = Decision!Total(under) /\ Decision!Total(over) \in 0 .. Unit
<1> DEFINE both == [x \in Vocab |-> IF a[x] < b[x] THEN a[x] ELSE b[x]]
<1>1. /\ a \in [Vocab -> Nat] /\ Decision!Total(a) = Unit
      /\ b \in [Vocab -> Nat] /\ Decision!Total(b) = Unit
  BY DistributionProps
<1>2. both \in [Vocab -> Nat] BY <1>1
<1>3. \A x \in Vocab : a[x] \in Nat /\ b[x] \in Nat /\ both[x] = IF a[x] < b[x] THEN a[x] ELSE b[x]
  BY <1>1
<1> HIDE DEF both
<1>4. ASSUME NEW x \in Vocab PROVE a[x] = over[x] + both[x] /\ b[x] = under[x] + both[x]
  <2>1. PICK n \in Nat, m \in Nat : n = a[x] /\ m = b[x] BY <1>3
  <2>2. over[x] = Minus(n, m) /\ under[x] = Minus(m, n) BY <2>1
  <2>3. both[x] = IF n < m THEN n ELSE m BY <1>3, <2>1
  <2> QED BY <2>1, <2>2, <2>3 DEF Minus
<1>6. Unit = Decision!Total(over) + Decision!Total(both) BY <1>1, <1>2, <1>4, TotalAdd
<1>7. Unit = Decision!Total(under) + Decision!Total(both) BY <1>1, <1>2, <1>4, TotalAdd
<1>8. /\ Decision!Total(over) \in Nat /\ Decision!Total(under) \in Nat
      /\ Decision!Total(both) \in Nat
  BY <1>2, TotalNat
<1>9. Unit \in Nat BY GridAssumption
<1> QED BY <1>6, <1>7, <1>8, <1>9

(* A replacement's share: the weights are scaled to Grid, or all of the   *)
(* drafter's probability is the target's and there is none.               *)
Share(d, t) ==
  Decision!Weights(p, q, d)[t] * (Grid \div Decision!Total(Decision!Weights(p, q, d)))

LEMMA OutcomeIs ==
  ASSUME NEW d, NEW t, Decision!Rejections(d) \in Nat,
         Decision!Weights(p, q, d)[t] \in Nat,
         Grid \div Decision!Total(Decision!Weights(p, q, d)) \in Nat
  PROVE  Decision!Outcome(d, t)
           = (IF t = d THEN (Grid - Decision!Rejections(d)) * Grid ELSE 0)
               + Decision!Rejections(d) * Share(d, t)
<1>1. PICK r \in Nat, w \in Nat, k \in Nat :
        /\ r = Decision!Rejections(d) /\ w = Decision!Weights(p, q, d)[t]
        /\ k = Grid \div Decision!Total(Decision!Weights(p, q, d))
  OBVIOUS
<1>2. (r * w) * k = r * (w * k) OBVIOUS
<1> QED BY <1>1, <1>2 DEF Decision!Outcome, Share

(* A drafter that samples: over its drafts, what is accepted and what is  *)
(* replaced make up the target's probability.                             *)
Averaged(t) == [d \in Vocab |-> q[d] * Decision!Outcome(d, t)]

LEMMA SampledDrafter ==
  ASSUME DecisionTypes, q # Decision!OneHot, NEW t \in Vocab
  PROVE  Decision!Total(Averaged(t)) = (p[t] * Grid) * Grid
<1>1. Unit \in Nat /\ Unit > 0 /\ Grid \in Nat /\ Grid > 0 BY GridAssumption
<1>2. p \in Decision!Distributions /\ q \in Decision!Distributions BY DEF DecisionTypes
<1>3. \A x \in Vocab : p[x] \in 0 .. Unit /\ q[x] \in 0 .. Unit /\ p[x] \in Nat /\ q[x] \in Nat
  BY <1>1, <1>2, DistributionProps
<1> DEFINE over == [x \in Vocab |-> Minus(p[x], q[x])]
           under == [x \in Vocab |-> Minus(q[x], p[x])]
           z == Decision!Total(over)
           r(d) == Decision!Rejections(d)
<1>4. over \in [Vocab -> Nat] /\ under \in [Vocab -> Nat] BY <1>3 DEF Minus
<1>5. \A x \in Vocab : over[x] = Minus(p[x], q[x]) /\ under[x] = Minus(q[x], p[x]) OBVIOUS
<1> HIDE DEF over, under
<1>6. z = Decision!Total(under) /\ z \in 0 .. Unit BY <1>2, <1>4, <1>5, Excess
<1>7. \A d : Decision!Residual(p, q, d) = over
  <2>1. \A d : Decision!Residual(p, q, d) = [x \in Vocab |-> IF p[x] > q[x] THEN p[x] - q[x] ELSE 0]
    BY DEF DecisionTypes, Decision!Residual
  <2> QED BY <2>1 DEF over, Minus
<1> DEFINE w == IF z = 0 THEN p ELSE over
           share == w[t] * (Grid \div Decision!Total(w))
<1>8. \A d : Decision!Weights(p, q, d) = w BY <1>7 DEF Decision!Weights
<1>9. \A d \in Vocab : /\ r(d) \in Nat /\ r(d) <= Grid
                       /\ q[d] * r(d) = under[d] * Grid
                       /\ q[d] * (Grid - r(d)) = (IF p[d] < q[d] THEN p[d] ELSE q[d]) * Grid
  <2> SUFFICES ASSUME NEW d \in Vocab
               PROVE  /\ r(d) \in Nat /\ r(d) <= Grid
                      /\ q[d] * r(d) = under[d] * Grid
                      /\ q[d] * (Grid - r(d)) = (IF p[d] < q[d] THEN p[d] ELSE q[d]) * Grid
    OBVIOUS
  <2>1. q[d] = Decision!DraftProb(q, d)[d] BY DEF Decision!DraftProb
  <2> QED BY <1>3, <1>5, <2>1, RejectionsAre
\* The share of a replacement.
<1> DEFINE least == IF p[t] < q[t] THEN p[t] ELSE q[t]
<1>10. /\ w \in [Vocab -> Nat] /\ Decision!Total(w) \in 1 .. Unit
       /\ z # 0 => Decision!Total(w) = z
  BY <1>1, <1>2, <1>4, <1>6, DistributionProps
<1>11. PICK k \in Nat : k > 0 /\ Grid = Decision!Total(w) * k /\ Grid \div Decision!Total(w) = k
  BY <1>10, Parts
<1>12. w[t] \in Nat /\ share \in Nat /\ share = w[t] * k BY <1>10, <1>11
<1>13. least \in Nat /\ over[t] \in Nat /\ p[t] = least + over[t]
  BY <1>3, <1>5 DEF Minus
<1>14. least * Grid + share * z = p[t] * Grid
  <2>1. CASE z = 0
    <3>1. over[t] = 0 BY <1>4, <1>13, <2>1, TotalNat
    <3>2. share * z = 0 BY <1>12, <2>1
    <3> QED BY <1>1, <1>13, <3>1, <3>2
  <2>2. CASE z # 0
    <3>1. w[t] = over[t] BY <2>2
    <3>2. PICK o \in Nat, y \in Nat, l \in Nat : o = over[t] /\ y = z /\ l = least
      BY <1>6, <1>13
    <3>3. share = o * k BY <1>12, <3>1, <3>2
    <3>4. Grid = y * k BY <1>10, <1>11, <2>2, <3>2
    <3>5. (o * k) * y = o * (y * k) OBVIOUS
    <3>6. (l + o) * Grid = l * Grid + o * Grid BY <1>1
    <3> QED BY <1>13, <3>2, <3>3, <3>4, <3>5, <3>6
  <2> QED BY <2>1, <2>2
<1>15. PICK s \in Nat : s = share BY <1>12
<1> HIDE DEF w, share, least, r, z
\* The average, in two parts.
<1>16. \A d \in Vocab : Decision!Outcome(d, t)
                         = (IF t = d THEN (Grid - r(d)) * Grid ELSE 0) + r(d) * s
  <2> SUFFICES ASSUME NEW d \in Vocab
               PROVE  Decision!Outcome(d, t) = (IF t = d THEN (Grid - r(d)) * Grid ELSE 0) + r(d) * s
    OBVIOUS
  <2>1. Decision!Weights(p, q, d) = w BY <1>8
  <2>2. Decision!Rejections(d) \in Nat BY <1>9 DEF r
  <2>3. /\ Decision!Weights(p, q, d)[t] \in Nat
        /\ Grid \div Decision!Total(Decision!Weights(p, q, d)) \in Nat
    BY <1>11, <1>12, <2>1
  <2>4. Share(d, t) = s BY <1>15, <2>1 DEF Share, share
  <2> QED BY <2>2, <2>3, <2>4, OutcomeIs DEF r
<1> DEFINE taken == [d \in Vocab |-> IF d = t THEN (least * Grid) * Grid ELSE 0]
           replaced == [d \in Vocab |-> (s * Grid) * under[d]]
<1>17. (least * Grid) * Grid \in Nat /\ s * Grid \in Nat BY <1>1, <1>13
<1>18. taken \in [Vocab -> Nat] BY <1>17
<1>19. replaced \in [Vocab -> Nat]
  <2>1. \A n, m \in Nat : n * m \in Nat OBVIOUS
  <2>2. \A d \in Vocab : under[d] \in Nat BY <1>4
  <2> QED BY <1>17, <2>1, <2>2
<1>20. ASSUME NEW d \in Vocab
       PROVE  /\ Averaged(t)[d] = taken[d] + replaced[d]
              /\ taken[d] \in Nat /\ replaced[d] \in Nat
  <2>1. PICK a \in Nat, n \in Nat, g \in Nat, u \in Nat :
          a = q[d] /\ n = r(d) /\ g = Grid - r(d) /\ u = under[d]
    BY <1>1, <1>3, <1>4, <1>9
  <2>2. a * n = u * Grid BY <1>9, <2>1
  <2>3. taken[d] = IF d = t THEN (least * Grid) * Grid ELSE 0 OBVIOUS
  <2>4. replaced[d] = (s * Grid) * u BY <2>1
  <2>5. a * (n * s) = (s * Grid) * u
    <3>1. a * (n * s) = (a * n) * s OBVIOUS
    <3>2. (u * Grid) * s = (s * Grid) * u BY <1>1
    <3> QED BY <2>2, <3>1, <3>2
  <2>6. Averaged(t)[d] = a * Decision!Outcome(d, t) BY <2>1 DEF Averaged
  <2>7. CASE d = t
    <3>1. a * g = least * Grid BY <1>9, <2>1, <2>7 DEF least
    <3>2. Decision!Outcome(d, t) = g * Grid + n * s BY <1>16, <2>1, <2>7
    <3>3. a * (g * Grid + n * s) = (a * g) * Grid + a * (n * s)
      <4>1. PICK x \in Nat, y \in Nat : x = g * Grid /\ y = n * s BY <1>1
      <4>2. a * (x + y) = a * x + a * y OBVIOUS
      <4>3. a * (g * Grid) = (a * g) * Grid BY <1>1
      <4> QED BY <4>1, <4>2, <4>3
    <3>4. taken[d] = (least * Grid) * Grid BY <2>3, <2>7
    <3>5. Averaged(t)[d] = taken[d] + replaced[d] BY <2>4, <2>5, <2>6, <3>1, <3>2, <3>3, <3>4
    <3> QED BY <1>18, <1>19, <3>5
  <2>8. CASE d # t
    <3>1. Decision!Outcome(d, t) = 0 + n * s BY <1>16, <2>1, <2>8
    <3>2. n * s \in Nat /\ Decision!Outcome(d, t) = n * s BY <3>1
    <3>3. taken[d] = 0 BY <2>3, <2>8
    <3>4. replaced[d] \in Nat BY <1>19
    <3>5. Averaged(t)[d] = replaced[d] BY <2>4, <2>5, <2>6, <3>2
    <3> QED BY <3>3, <3>4, <3>5
  <2> QED BY <2>7, <2>8
<1> HIDE DEF taken, replaced
<1>21. Averaged(t) \in [Vocab -> Nat]
  <2>1. ASSUME NEW d \in Vocab PROVE Averaged(t)[d] \in Nat
    <3>1. PICK x \in Nat, y \in Nat : x = taken[d] /\ y = replaced[d] BY <1>20
    <3>2. Averaged(t)[d] = x + y BY <1>20, <3>1
    <3> QED BY <3>2
  <2>2. Averaged(t) = [d \in Vocab |-> Averaged(t)[d]] BY DEF Averaged
  <2> QED BY <2>1, <2>2
<1>22. Decision!Total(Averaged(t)) = Decision!Total(taken) + Decision!Total(replaced)
  BY <1>18, <1>19, <1>20, <1>21, TotalAdd
<1>23. Decision!Total(taken) = (least * Grid) * Grid BY <1>17, <1>18, TotalOne DEF taken
<1>24. Decision!Total(replaced) = (s * Grid) * z
  BY <1>4, <1>6, <1>17, <1>19, TotalScaled DEF replaced
<1>25. (least * Grid) * Grid + (s * Grid) * z = (p[t] * Grid) * Grid
  <2>1. PICK x \in Nat, y \in Nat, l \in Nat : x = least * Grid /\ y = z /\ l = p[t]
    BY <1>1, <1>3, <1>6, <1>13
  <2>2. x + s * y = l * Grid BY <1>14, <1>15, <2>1
  <2>3. (s * Grid) * y = (s * y) * Grid BY <1>1
  <2>4. PICK v \in Nat : v = s * y OBVIOUS
  <2>5. x * Grid + v * Grid = (x + v) * Grid BY <1>1
  <2> QED BY <2>1, <2>2, <2>3, <2>4, <2>5
<1> QED BY <1>22, <1>23, <1>24, <1>25

(* A drafter that does not: each of its drafts ends in the target's        *)
(* distribution.                                                           *)
LEMMA CertainDrafter ==
  ASSUME DecisionTypes, q = Decision!OneHot, NEW t \in Vocab
  PROVE  Decision!Outcome(draft, t) * Unit = (p[t] * Grid) * Grid
<1>1. Unit \in Nat /\ Unit > 0 /\ Grid \in Nat /\ Grid > 0 BY GridAssumption
<1>2. draft \in Vocab /\ p \in Decision!Distributions BY DEF DecisionTypes
<1>3. /\ p \in [Vocab -> Nat] /\ Decision!Total(p) = Unit
      /\ \A x \in Vocab : p[x] \in 0 .. Unit /\ p[x] \in Nat
  BY <1>1, <1>2, DistributionProps
<1> DEFINE rest == [p EXCEPT ![draft] = 0]
           alone == [x \in Vocab |-> IF x = draft THEN p[draft] ELSE 0]
           z == Decision!Total(rest)
           r == Decision!Rejections(draft)
<1>4. rest \in [Vocab -> Nat] /\ alone \in [Vocab -> Nat] BY <1>2, <1>3
<1>5. \A x \in Vocab : rest[x] = IF x = draft THEN 0 ELSE p[x] BY <1>2, <1>3
<1>6. \A x \in Vocab : p[x] = rest[x] + alone[x]
  <2> SUFFICES ASSUME NEW x \in Vocab PROVE p[x] = rest[x] + alone[x] OBVIOUS
  <2>1. alone[x] = IF x = draft THEN p[draft] ELSE 0 OBVIOUS
  <2> HIDE DEF rest, alone
  <2> QED BY <1>2, <1>3, <1>5, <2>1
<1>7. Decision!Total(alone) = p[draft] BY <1>2, <1>3, <1>4, TotalOne
<1>8. Decision!Residual(p, q, draft) = rest BY DEF Decision!Residual
<1>9. Decision!Weights(p, q, draft) = IF z = 0 THEN p ELSE rest BY <1>8 DEF Decision!Weights
<1> HIDE DEF rest, alone
<1>10. z \in Nat /\ Unit = z + p[draft]
  <2>1. z \in Nat BY <1>4, TotalNat
  <2>2. Decision!Total(p) = z + Decision!Total(alone) BY <1>3, <1>4, <1>6, TotalAdd
  <2> QED BY <1>3, <1>7, <2>1, <2>2
<1>11. /\ r \in Nat /\ r <= Grid /\ Unit * r = z * Grid /\ Unit * (Grid - r) = p[draft] * Grid
  <2>1. Unit = Decision!DraftProb(q, draft)[draft] BY <1>2 DEF Decision!DraftProb
  <2>2. Unit \in 0 .. Unit BY <1>1
  <2>3. /\ r \in Nat /\ r <= Grid
        /\ Unit * r = Minus(Unit, p[draft]) * Grid
        /\ Unit * (Grid - r) = (IF p[draft] < Unit THEN p[draft] ELSE Unit) * Grid
    BY <1>2, <2>1, <2>2, RejectionsAre
  <2>4. p[draft] \in Nat /\ p[draft] <= Unit BY <1>1, <1>2, <1>3
  <2>5. Minus(Unit, p[draft]) = z BY <1>1, <1>10, <2>4 DEF Minus
  <2>6. (IF p[draft] < Unit THEN p[draft] ELSE Unit) = p[draft] BY <1>1, <2>4
  <2> QED BY <2>3, <2>5, <2>6
<1> DEFINE w == Decision!Weights(p, q, draft)
<1>12. w \in [Vocab -> Nat] /\ Decision!Total(w) \in 1 .. Unit
  <2>1. p[draft] \in Nat BY <1>2, <1>3
  <2> QED BY <1>1, <1>3, <1>4, <1>9, <1>10, <2>1
<1>13. PICK k \in Nat : k > 0 /\ Grid = Decision!Total(w) * k /\ Grid \div Decision!Total(w) = k
  BY <1>12, Parts
<1>14. w[t] \in Nat BY <1>12
<1> HIDE DEF w, z, r
<1>15. PICK g \in Nat, n \in Nat, a \in Nat, b \in Nat, y \in Nat :
         g = Grid - r /\ n = r /\ a = p[draft] /\ b = w[t] /\ y = z
  <2>1. Grid - r \in Nat BY <1>1, <1>11
  <2>2. p[draft] \in Nat BY <1>2, <1>3
  <2> QED BY <1>10, <1>11, <1>14, <2>1, <2>2
<1>16. Decision!Outcome(draft, t) = (IF t = draft THEN g * Grid ELSE 0) + n * (b * k)
  <2>1. Share(draft, t) = b * k BY <1>13, <1>15 DEF Share, w
  <2>2. Decision!Rejections(draft) = n /\ Grid - Decision!Rejections(draft) = g
    BY <1>15 DEF r
  <2>3. Decision!Weights(p, q, draft)[t] \in Nat BY <1>14 DEF w
  <2>4. Grid \div Decision!Total(Decision!Weights(p, q, draft)) \in Nat BY <1>13 DEF w
  <2> QED BY <2>1, <2>2, <2>3, <2>4, OutcomeIs
<1>17. CASE t = draft
  <2>1. n * (b * k) = 0
    <3>1. CASE y = 0
      <4>1. Unit * n = 0 BY <1>1, <1>11, <1>15, <3>1
      <4>2. n = 0
        <5> SUFFICES ASSUME n >= 1 PROVE FALSE OBVIOUS
        <5>1. Unit * n >= Unit BY <1>1
        <5> QED BY <1>1, <4>1, <5>1
      <4> QED BY <4>2
    <3>2. CASE y # 0
      <4>1. b = 0 BY <1>2, <1>5, <1>9, <1>15, <1>17, <3>2 DEF w
      <4> QED BY <4>1
    <3> QED BY <3>1, <3>2
  <2>2. Decision!Outcome(draft, t) = g * Grid BY <1>1, <1>16, <1>17, <2>1
  <2>3. (g * Grid) * Unit = (Unit * g) * Grid BY <1>1
  <2>4. Unit * g = p[t] * Grid BY <1>11, <1>15, <1>17
  <2> QED BY <2>2, <2>3, <2>4
<1>18. CASE t # draft
  <2>1. Decision!Outcome(draft, t) = n * (b * k) BY <1>16, <1>18
  <2>2. Unit * n = y * Grid BY <1>11, <1>15
  <2>3. CASE y = 0
    <3>1. p[t] = 0
      <4>1. rest[t] \in Nat /\ rest[t] <= z BY <1>4, TotalNat DEF z
      <4> QED BY <1>5, <1>15, <1>18, <2>3, <4>1
    <3>2. b = p[t] BY <1>9, <1>15, <2>3 DEF w
    <3>3. n * (b * k) = 0 BY <3>1, <3>2
    <3> QED BY <1>1, <2>1, <3>1, <3>3
  <2>4. CASE y # 0
    <3>1. w = rest /\ z # 0 BY <1>9, <1>15, <2>4 DEF w
    <3>2. b = p[t] BY <1>5, <1>15, <1>18, <3>1
    <3>3. Grid = y * k BY <1>13, <1>15, <3>1 DEF z
    <3>4. (n * (b * k)) * Unit = (Unit * n) * (b * k) BY <1>1
    <3>5. (y * Grid) * (b * k) = (b * (y * k)) * Grid
      <4>1. PICK h \in Nat : h = Grid BY <1>1
      <4>2. (y * h) * (b * k) = (b * (y * k)) * h OBVIOUS
      <4> QED BY <4>1, <4>2
    <3> QED BY <2>1, <2>2, <3>2, <3>3, <3>4, <3>5
  <2> QED BY <2>3, <2>4
<1> QED BY <1>17, <1>18

(* The inputs of a decision do not change. *)
LEMMA DecisionKeeps == MCSpec => [](which = "sampled" => DecisionTypes)
<1> DEFINE I == which = "sampled" => DecisionTypes
<1>1. MCInit => I BY DEF MCInit, Decision!Init, DecisionTypes
<1>2. I /\ [MCNext]_<<which, vars, decisionVars, asked, lengthVars>> => I'
  <2> SUFFICES ASSUME I, [MCNext]_<<which, vars, decisionVars, asked, lengthVars>> PROVE I' OBVIOUS
  <2>1. UNCHANGED <<which, p, q, draft>>
    BY DEF MCNext, Seen, decisionVars, Decision!Next, Decision!Decide, Decision!vars
  <2> QED BY <2>1 DEF DecisionTypes, Decision!Distributions, Decision!OneHot
<1> QED BY <1>1, <1>2, PTL DEF MCSpec

(* FollowsTarget: for any vocabulary, distributions, drafter and draft, a  *)
(* speculative token has exactly the target's distribution.                *)
THEOREM TargetFollowed == MCSpec => []FollowsTarget
<1>1. (which = "sampled" => DecisionTypes) => FollowsTarget
  <2> SUFFICES ASSUME DecisionTypes, NEW t \in Vocab
               PROVE  IF q = Decision!OneHot
                      THEN Decision!Outcome(draft, t) * Unit = (p[t] * Grid) * Grid
                      ELSE Decision!FoldFunction(+, 0, [d \in Vocab |-> q[d] * Decision!Outcome(d, t)])
                             = (p[t] * Grid) * Grid
    BY DEF FollowsTarget, Decision!FollowsTarget
  <2>1. CASE q = Decision!OneHot BY <2>1, CertainDrafter
  <2>2. CASE q # Decision!OneHot
    <3>1. Decision!Total(Averaged(t)) = (p[t] * Grid) * Grid BY <2>2, SampledDrafter
    <3> QED BY <2>2, <3>1 DEF Decision!Total, Averaged
  <2> QED BY <2>1, <2>2
<1> QED BY <1>1, DecisionKeeps, PTL

-----------------------------------------------------------------------------
(* Prompt lookup.                                                          *)

(* Two parts of a sequence are equal if their elements are. *)
LEMMA PartsEqual ==
  ASSUME NEW T, NEW s \in Seq(T), NEW n \in Nat, NEW i \in Nat, NEW k \in Nat,
         i + n <= Len(s), k + n <= Len(s)
  PROVE  SubSeq(s, i + 1, i + n) = SubSeq(s, k + 1, k + n) <=> SamePart(s, i, k, n)
<1>1. Len(s) \in Nat /\ \A m \in 1 .. Len(s) : s[m] \in T BY LenProperties, ElementOfSeq
<1> DEFINE a == SubSeq(s, i + 1, i + n)  b == SubSeq(s, k + 1, k + n)
<1>2. /\ a \in Seq(T) /\ Len(a) = n /\ \A m \in 1 .. n : a[m] = s[i + m]
      /\ b \in Seq(T) /\ Len(b) = n /\ \A m \in 1 .. n : b[m] = s[k + m]
  <2>1. ASSUME NEW h \in Nat, h + n <= Len(s)
        PROVE  LET c == SubSeq(s, h + 1, h + n) IN c \in Seq(T) /\ Len(c) = n /\ \A m \in 1 .. n : c[m] = s[h + m]
    <3> DEFINE c == SubSeq(s, h + 1, h + n)
    <3>1. h + 1 \in 1 .. Len(s) + 1 /\ h + n \in 0 .. Len(s) BY <1>1, <2>1
    <3>2. \A m \in h + 1 .. h + n : s[m] \in T BY <1>1, <2>1
    <3>3. /\ c \in Seq(T)
          /\ Len(c) = IF h + 1 <= h + n THEN (h + n) - (h + 1) + 1 ELSE 0
          /\ \A m \in 1 .. (h + n) - (h + 1) + 1 : c[m] = s[(h + 1) + m - 1]
      <4> DEFINE lo == h + 1  hi == h + n
      <4>1. lo \in Int /\ hi \in Int /\ \A m \in lo .. hi : s[m] \in T BY <3>2
      <4> HIDE DEF lo, hi
      <4>2. /\ SubSeq(s, lo, hi) \in Seq(T)
            /\ Len(SubSeq(s, lo, hi)) = IF lo <= hi THEN hi - lo + 1 ELSE 0
            /\ \A m \in 1 .. hi - lo + 1 : SubSeq(s, lo, hi)[m] = s[lo + m - 1]
        BY <4>1, SubSeqProperties
      <4> QED BY Zenon, <4>2 DEF lo, hi
    <3>4. Len(c) = n /\ (h + n) - (h + 1) + 1 = n BY <3>3
    <3>5. \A m \in 1 .. n : (h + 1) + m - 1 = h + m OBVIOUS
    <3> HIDE DEF c
    <3>6. \A m \in 1 .. n : c[m] = s[h + m] BY <3>3, <3>4, <3>5
    <3> QED BY <3>3, <3>4, <3>6 DEF c
  <2> QED BY <2>1
<1> HIDE DEF a, b
<1>3. (\A m \in 1 .. n : a[m] = b[m]) => a = b BY <1>2, SeqEqual
<1> QED BY <1>2, <1>3 DEF a, b, SamePart

(* A set of numbers of an interval has a largest one. *)
LEMMA LargestOf ==
  ASSUME NEW a \in Int, NEW b \in Int, NEW S \in SUBSET (a .. b), S # {}
  PROVE  \E m \in S : \A n \in S : n <= m
<1> DEFINE D == {d \in Nat : b - d \in S}
<1>1. \A n \in S : n \in Int /\ b - n \in Nat /\ b - (b - n) = n OBVIOUS
<1>2. D \in SUBSET Nat /\ D # {} BY <1>1
<1>3. PICK d \in D : \A e \in D : d <= e
  <2> HIDE DEF D
  <2> QED BY <1>2, LeastNat
<1>4. b - d \in S /\ \A n \in S : n <= b - d BY <1>1, <1>3
<1> QED BY <1>4

(* What Occurs finds. *)
LEMMA OccursIs ==
  ASSUME NEW T, NEW context \in Seq(T), NEW cfg, cfg.window \in Nat, NEW n \in Nat \ {0}
  PROVE  /\ Dft!Occurs(cfg, context, n) \in SUBSET (0 .. Len(context))
         /\ \A i \in Int : i \in Dft!Occurs(cfg, context, n)
                             <=> i + n \in 1 .. Len(context) - 1 /\ Repeats(context, cfg.window, i + n, n)
<1> DEFINE len == Len(context)
           lo == IF cfg.window > 0 THEN Dft!Greater(len - cfg.window, 0) ELSE 0
<1>1. len \in Nat BY LenProperties
<1>2. lo \in Nat /\ \A i \in Int : i >= lo <=> i >= 0 /\ (cfg.window > 0 => i >= len - cfg.window)
  BY <1>1 DEF Dft!Greater
<1>3. \A i : i \in Dft!Occurs(cfg, context, n)
               <=> i \in lo .. len - n - 1 /\ SubSeq(context, i + 1, i + n) = SubSeq(context, len - n + 1, len)
  BY DEF Dft!Occurs
<1> HIDE DEF lo
<1>4. ASSUME NEW i \in Int, i \in lo .. len - n - 1
      PROVE  SubSeq(context, i + 1, i + n) = SubSeq(context, len - n + 1, len)
               <=> SamePart(context, i, len - n, n)
  <2>1. i \in Nat /\ len - n \in Nat /\ i + n <= len /\ (len - n) + n = len BY <1>1, <1>2, <1>4
  <2> DEFINE k == len - n
  <2> HIDE DEF k
  <2>2. k \in Nat /\ k + n = len /\ k + n <= Len(context) BY <2>1 DEF k
  <2>3. SubSeq(context, i + 1, i + n) = SubSeq(context, k + 1, k + n)
<=> SamePart(context, i, k, n)
    BY <2>1, <2>2, PartsEqual
  <2> QED BY <2>2, <2>3 DEF k
<1>5. ASSUME NEW i \in Int
      PROVE  i \in Dft!Occurs(cfg, context, n)
               <=> i + n \in 1 .. len - 1 /\ Repeats(context, cfg.window, i + n, n)
  <2>1. (i + n) - n = i OBVIOUS
  <2>2. i \in lo .. len - n - 1
          <=> i + n \in 1 .. len - 1 /\ (i + n) - n >= 0 /\ (cfg.window > 0 => (i + n) - n >= len - cfg.window)
    BY <1>1, <1>2
  <2>3. Repeats(context, cfg.window, i + n, n)
          <=> /\ (i + n) - n >= 0 /\ (cfg.window > 0 => (i + n) - n >= len - cfg.window)
              /\ SamePart(context, i, len - n, n)
    BY <2>1 DEF Repeats
  <2> HIDE DEF len
  <2>5. CASE i \in lo .. len - n - 1 BY <1>3, <1>4, <2>2, <2>3, <2>5
  <2>6. CASE i \notin lo .. len - n - 1 BY <1>3, <2>2, <2>3, <2>6
  <2> QED BY <2>5, <2>6 DEF len
<1>6. Dft!Occurs(cfg, context, n) \in SUBSET (0 .. len)
  <2> SUFFICES ASSUME NEW i \in Dft!Occurs(cfg, context, n) PROVE i \in 0 .. len OBVIOUS
  <2>1. i \in lo .. len - n - 1 BY <1>3
  <2> QED BY <1>1, <1>2, <2>1
<1> QED BY <1>5, <1>6

(* PromptLookup drafts what followed the latest of the longest repetitions *)
(* of the context's end, and drafts nothing only where nothing repeats, in *)
(* any context and with any settings.                                      *)
LEMMA ProposalFollows ==
  ASSUME NEW T, NEW context \in Seq(T), NEW least \in Nat, NEW most \in Nat, NEW size \in Nat,
         NEW window \in Nat, NEW max \in Nat, NEW cfg, cfg = Dft!Lookup(least, most, size, window),
         NEW found, found = Dft!Proposal(cfg, context, max)
  PROVE  IF max = 0 \/ NothingRepeats(context, cfg) THEN found = <<>>
         ELSE \E j \in 1 .. Len(context) - 1, n \in cfg.min .. cfg.max :
                Follows(found, context, cfg, max, j, n)
<1> DEFINE len == Len(context)
           m == Dft!Lesser(max, cfg.draft)
           fits == {n \in cfg.min .. cfg.max : n < len /\ Dft!Occurs(cfg, context, n) # {}}
<1>1. /\ cfg.min \in Nat \ {0} /\ cfg.max \in Nat /\ cfg.min <= cfg.max
      /\ cfg.draft \in Nat \ {0} /\ cfg.window \in Nat
  BY DEF Dft!Lookup, Dft!Greater
<1>2. len \in Nat /\ m \in Nat /\ (m = 0 <=> max = 0) /\ m <= max BY <1>1, LenProperties DEF Dft!Lesser
<1>3. ASSUME NEW n \in cfg.min .. cfg.max
      PROVE  /\ n \in Nat \ {0} /\ Dft!Occurs(cfg, context, n) \in SUBSET (0 .. len)
             /\ \A i \in Int : i \in Dft!Occurs(cfg, context, n)
                                 <=> i + n \in 1 .. len - 1 /\ Repeats(context, cfg.window, i + n, n)
  <2>1. n \in Nat \ {0} BY <1>1
  <2> QED BY <1>1, <2>1, OccursIs
<1>4. ASSUME NEW j \in 1 .. len - 1, NEW n \in cfg.min .. cfg.max, Repeats(context, cfg.window, j, n)
      PROVE  n \in fits /\ j - n \in Dft!Occurs(cfg, context, n)
  <2>1. n \in Nat \ {0} /\ j - n \in Int /\ (j - n) + n = j BY <1>2, <1>3
  <2>2. j - n \in Dft!Occurs(cfg, context, n) BY <1>3, <1>4, <2>1
  <2>3. j - n >= 0 BY <1>4 DEF Repeats
  <2>4. n < len BY <1>2, <2>1, <2>3
  <2> QED BY <2>2, <2>4
<1>5. CASE m <= 0 \/ fits = {}
  <2>1. found = <<>> BY <1>5 DEF Dft!Proposal
  <2>2. fits = {} => NothingRepeats(context, cfg)
    <3> HIDE DEF fits
    <3> QED BY <1>4 DEF NothingRepeats
  <2>3. max = 0 \/ NothingRepeats(context, cfg)
    <3> HIDE DEF fits, m
    <3> QED BY <1>2, <1>5, <2>2
  <2> QED BY <2>1, <2>3
<1>6. CASE ~(m <= 0 \/ fits = {})
  <2> DEFINE n == CHOOSE x \in fits : \A y \in fits : y <= x
             i == CHOOSE x \in Dft!Occurs(cfg, context, n) : Dft!OccursLast(x, Dft!Occurs(cfg, context, n))
  <2>1. found = SubSeq(context, i + n + 1, Dft!Lesser(i + n + m, len)) BY <1>6 DEF Dft!Proposal
  <2>2. n \in fits /\ \A y \in fits : y <= n
    <3>1. fits \in SUBSET (cfg.min .. cfg.max) /\ cfg.min \in Int /\ cfg.max \in Int /\ fits # {} BY <1>1, <1>6
    <3> HIDE DEF fits
    <3>2. \E x \in fits : \A y \in fits : y <= x BY <3>1, LargestOf
    <3> QED BY <3>2
  <2>3. n \in cfg.min .. cfg.max /\ n < len /\ Dft!Occurs(cfg, context, n) # {} BY <2>2
  <2> DEFINE S == Dft!Occurs(cfg, context, n)
  <2>4. i \in S /\ \A x \in S : x <= i
    <3> HIDE DEF n
    <3>1. S \in SUBSET (0 .. len) /\ S # {} /\ 0 \in Int /\ len \in Int BY <1>2, <1>3, <2>3
    <3> HIDE DEF S
    <3>2. \E x \in S : \A y \in S : y <= x BY <3>1, LargestOf
    <3>3. \E x \in S : Dft!OccursLast(x, S) BY <3>2 DEF Dft!OccursLast
    <3>4. i = CHOOSE x \in S : Dft!OccursLast(x, S) BY DEF S
    <3> HIDE DEF i
    <3>5. i \in S /\ Dft!OccursLast(i, S) BY <3>3, <3>4
    <3> QED BY <3>5 DEF Dft!OccursLast
  <2> HIDE DEF n, i
  <2> DEFINE j == i + n
  <2>5. n \in Nat \ {0} /\ i \in 0 .. len /\ i \in Int BY <1>2, <1>3, <2>3, <2>4
  <2>6. j \in 1 .. len - 1 /\ Repeats(context, cfg.window, j, n) BY <1>3, <2>3, <2>4, <2>5
  <2>7. ASSUME NEW k \in 1 .. len - 1, NEW l \in cfg.min .. cfg.max, Repeats(context, cfg.window, k, l)
        PROVE  l < n \/ (l = n /\ k <= j)
    <3>1. l \in fits /\ k - l \in Dft!Occurs(cfg, context, l) BY <1>4, <2>7
    <3>2. l \in Nat /\ l <= n BY <1>3, <2>2, <3>1
    <3>3. l = n => k - l <= i BY <2>4, <3>1
    <3>4. k \in Int BY <1>2
    <3> QED BY <2>5, <3>2, <3>3, <3>4
  <2>8. found = SubSeq(context, j + 1, Dft!Lesser(j + m, len)) BY <2>1
  <2>9. Len(found) \in 1 .. max
    <3> DEFINE e == Dft!Lesser(j + m, len)
    <3>1. m \in Nat /\ m > 0 /\ m <= max BY <1>2, <1>6
    <3> HIDE DEF m
    <3>2. j \in Nat /\ e \in Nat /\ j + 1 <= e /\ e <= len /\ e <= j + m BY <1>2, <2>5, <2>6, <3>1 DEF Dft!Lesser
    <3> HIDE DEF e, j
    <3>3. \A x \in 1 .. len : context[x] \in T BY ElementOfSeq
    <3>4. \A x \in j + 1 .. e : context[x] \in T BY <1>2, <3>2, <3>3
    <3>5. Len(SubSeq(context, j + 1, e)) = e - (j + 1) + 1
      BY <1>2, <3>2, <3>4, SubSeqProperties
    <3>6. found = SubSeq(context, j + 1, e) BY <2>8 DEF e, m
    <3> QED BY <3>1, <3>2, <3>5, <3>6
  <2>10. Follows(found, context, cfg, max, j, n)
    <3> HIDE DEF j
    <3> QED BY <2>6, <2>7, <2>8, <2>9 DEF Follows
  <2>11. ~(max = 0 \/ NothingRepeats(context, cfg))
    <3>1. max # 0
      <4> HIDE DEF m, fits
      <4> QED BY <1>2, <1>6
    <3> HIDE DEF j
    <3> QED BY <2>3, <2>6, <3>1 DEF NothingRepeats
  <2> HIDE DEF j
  <2> QED BY <2>3, <2>6, <2>10, <2>11
<1> QED BY <1>5, <1>6

-----------------------------------------------------------------------------
(* The adaptive length.                                                    *)

(* The sums over the subsets of S, each reached by one element after       *)
(* another.                                                                *)
Part(f, S, sum) ==
  /\ sum[{}] = 0 /\ \A T \in SUBSET S : sum[T] \in Nat
  /\ \A T \in SUBSET S : T # {} => Pick(T) \in T /\ f[Pick(T)] \in Nat /\ sum[T] = f[Pick(T)] + sum[T \ {Pick(T)}]

(* SumOver computes them. *)
LEMMA SumOverIs ==
  ASSUME NEW S, IsFiniteSet(S), NEW f, \A x \in S : f[x] \in Nat
  PROVE  \E sum : Part(f, S, sum) /\ Dft!SumOver(S, f) = sum[S]
<1> DEFINE g == [x \in S |-> f[x]]
           value(sum) == [T \in SUBSET S |->
                            IF T = {} THEN 0 ELSE f[Pick(T)] + sum[T \ {Pick(T)}]]
           sum == CHOOSE sum : sum = value(sum)
<1>1. Dft!SumOver(S, f) = sum[S]
  BY DEF Dft!SumOver, Dft!FoldFunctionOnSet, Dft!MapThenFoldSet, Pick
<1>2. \A T \in SUBSET S : T # {} => Pick(T) \in T /\ f[Pick(T)] \in Nat BY DEF Pick
<1>3. PICK s \in [SUBSET S -> Nat] :
        \A T \in SUBSET S : s[T] = IF T = {} THEN 0 ELSE f[Pick(T)] + s[T \ {Pick(T)}]
  <2> HIDE DEF value, sum
  <2>1. DOMAIN g = S /\ \A x \in S : g[x] = f[x] /\ g[x] \in Nat OBVIOUS
  <2> HIDE DEF g
  <2>2. (\A x \in DOMAIN g : g[x] \in Nat) /\ IsFiniteSet(DOMAIN g) BY <2>1
  <2>3. PICK s \in [SUBSET DOMAIN g -> Nat] :
          \A T \in SUBSET DOMAIN g : s[T] = IF T = {} THEN 0 ELSE g[Pick(T)] + s[T \ {Pick(T)}]
    BY <2>2, SumsExist
  <2>4. ASSUME NEW T \in SUBSET S PROVE s[T] = IF T = {} THEN 0 ELSE f[Pick(T)] + s[T \ {Pick(T)}]
    <3>1. T # {} => g[Pick(T)] = f[Pick(T)] BY <1>2, <2>1
    <3> QED BY <2>1, <2>3, <3>1
  <2> QED BY <2>1, <2>3, <2>4
<1>4. s = value(s)
  <2> DEFINE v == value(s)
  <2>1. \A T \in SUBSET S : v[T] = s[T] BY <1>3
  <2>2. s = [T \in SUBSET S |-> s[T]] /\ v = [T \in SUBSET S |-> v[T]] OBVIOUS
  <2> HIDE DEF v
  <2>3. s = v BY <2>1, <2>2
  <2> QED BY <2>3 DEF v
<1> HIDE DEF value
<1>5. sum = value(sum) BY <1>4
<1> HIDE DEF sum, g
<1> DEFINE G == {T \in SUBSET S : sum[T] = s[T]}
<1>6. \A T \in SUBSET S : sum[T] = IF T = {} THEN 0 ELSE f[Pick(T)] + sum[T \ {Pick(T)}]
  BY <1>5 DEF value
<1>7. {} \in G BY <1>3, <1>6
<1>8. ASSUME NEW T \in SUBSET S, \A x \in T : T \ {x} \in G PROVE T \in G
  <2>1. CASE T = {} BY <1>7, <2>1
  <2>2. CASE T # {}
    <3>1. sum[T \ {Pick(T)}] = s[T \ {Pick(T)}] BY <1>2, <1>8, <2>2
    <3> QED BY <1>3, <1>6, <2>2, <3>1
  <2> QED BY <2>1, <2>2
<1>9. \A T \in SUBSET S : sum[T] = s[T]
  <2> HIDE DEF G
  <2>1. G \in SUBSET SUBSET S BY DEF G
  <2>2. \A T \in SUBSET S : T \in G BY <1>7, <1>8, <2>1, Subsets
  <2> QED BY <2>2 DEF G
<1>10. Part(f, S, sum) BY <1>2, <1>3, <1>6, <1>9 DEF Part
<1> QED BY <1>1, <1>10

(* Such a sum is a natural number. *)
LEMMA SumOverNat ==
  ASSUME NEW S, IsFiniteSet(S), NEW f, \A x \in S : f[x] \in Nat
  PROVE  Dft!SumOver(S, f) \in Nat
<1>1. PICK sum : Part(f, S, sum) /\ Dft!SumOver(S, f) = sum[S] BY SumOverIs
<1>2. S \in SUBSET S OBVIOUS
<1> QED BY <1>1, <1>2 DEF Part

(* The squared distances of T's numbers from a add up to at least zero,    *)
(* and to more if one of them is not a.                                    *)
Distance(n, s, sq, a) == (sq + n * (a * a)) - (2 * a) * s
(* A square. *)
LEMMA Squares ==
  ASSUME NEW x \in Int
  PROVE  x * x \in Nat /\ (x # 0 => x * x > 0)
OBVIOUS

(* Numbers and their squares, added over the same sets. *)
Both(S, s, q2) == Part([m \in S |-> m], S, s) /\ Part([m \in S |-> m * m], S, q2)

Apart(T, s, sq, a) ==
  /\ Distance(Cardinality(T), s[T], sq[T], a) >= 0
  /\ (\E x \in T : x # a) => Distance(Cardinality(T), s[T], sq[T], a) > 0
LEMMA DistanceIs ==
  ASSUME NEW S \in SUBSET Nat, IsFiniteSet(S), NEW s, NEW sq, Both(S, s, sq), NEW a \in Nat
  PROVE  \A T \in SUBSET S : Apart(T, s, sq, a)
<1> DEFINE D(T) == Distance(Cardinality(T), s[T], sq[T], a)
           G == {T \in SUBSET S : D(T) \in Int /\ D(T) >= 0 /\ ((\E x \in T : x # a) => D(T) > 0)}
<1>1. {} \in G
  <2>1. Cardinality({}) = 0 /\ s[{}] = 0 /\ sq[{}] = 0 BY FS_EmptySet DEF Both, Part
  <2>2. D({}) = 0 BY <2>1 DEF Distance
  <2> QED BY <2>2
<1>2. ASSUME NEW T \in SUBSET S, T # {}, \A x \in T : T \ {x} \in G PROVE T \in G
  <2> DEFINE x == Pick(T)  U == T \ {x}
  <2>1. x \in T /\ x \in Nat /\ U \in SUBSET S BY <1>2 DEF Pick
  <2>2. s[T] = x + s[U] /\ sq[T] = (x * x) + sq[U] /\ s[U] \in Nat /\ sq[U] \in Nat
    <3>1. x \in S BY <2>1
    <3> QED BY <1>2, <2>1, <3>1 DEF Both, Part
  <2>3. IsFiniteSet(T) /\ IsFiniteSet(U) BY <2>1, FS_Subset
  <2>4. Cardinality(T) = Cardinality(U) + 1 /\ Cardinality(U) \in Nat
    <3> HIDE DEF x
    <3>1. Cardinality(U) = Cardinality(T) - 1 BY <2>1, <2>3, FS_RemoveElement
    <3>2. Cardinality(T) \in Nat /\ Cardinality(U) \in Nat
      <4> HIDE DEF U
      <4> QED BY <2>3, FS_CardinalityType
    <3> HIDE DEF U
    <3> QED BY <3>1, <3>2
  <2>5. U \in G BY <1>2, <2>1
  <2> HIDE DEF x
  <2> DEFINE n == Cardinality(U)
  <2>6. Distance(n + 1, x + s[U], (x * x) + sq[U], a) = Distance(n, s[U], sq[U], a) + (x - a) * (x - a)
    <3>1. n \in Int /\ s[U] \in Int /\ sq[U] \in Int /\ x \in Int BY <2>1, <2>2, <2>4
    <3> HIDE DEF n, U
    <3> DEFINE v == s[U]  w == sq[U]
    <3> HIDE DEF v, w
    <3>2. v \in Int /\ w \in Int BY <3>1 DEF v, w
    <3>3. Distance(n + 1, x + v, (x * x) + w, a) = Distance(n, v, w, a) + (x - a) * (x - a)
      <4> DEFINE y == x
      <4> HIDE DEF y
      <4>1. y \in Int /\ a \in Int BY <3>1 DEF y
      <4>2. Distance(n + 1, y + v, (y * y) + w, a) = Distance(n, v, w, a) + (y - a) * (y - a)
        BY <3>1, <3>2, <4>1 DEF Distance
      <4> QED BY <4>2 DEF y
    <3> QED BY <3>3 DEF v, w
  <2>7. D(T) = D(U) + (x - a) * (x - a) BY <2>2, <2>4, <2>6
  <2>8. (x - a) * (x - a) \in Nat /\ (x # a => (x - a) * (x - a) > 0)
    <3> DEFINE d == x - a
    <3>1. d \in Int /\ (x # a => d # 0) BY <2>1
    <3> HIDE DEF d
    <3>2. d * d \in Nat /\ (d # 0 => d * d > 0) BY <3>1, Squares
    <3> QED BY <3>1, <3>2 DEF d
  <2>9. (\E y \in T : y # a) => x # a \/ \E y \in U : y # a BY <2>1
  <2>10. D(U) \in Int /\ D(U) >= 0 /\ ((\E y \in U : y # a) => D(U) > 0) BY <2>5
  <2> DEFINE e == (x - a) * (x - a)
  <2> HIDE DEF D, U, e
  <2>11. D(T) = D(U) + e /\ e \in Nat /\ (x # a => e > 0) BY <2>7, <2>8 DEF e
  <2>12. D(T) \in Int /\ D(T) >= 0 /\ ((\E y \in T : y # a) => D(T) > 0) BY <2>9, <2>10, <2>11
  <2> QED BY <2>12
<1>3. \A T \in SUBSET S : (\A x \in T : T \ {x} \in G) => T \in G
  <2> HIDE DEF G
  <2> QED BY <1>1, <1>2
<1>4. \A T \in SUBSET S : T \in G
  <2> HIDE DEF D
  <2>1. G \in SUBSET SUBSET S OBVIOUS
  <2> HIDE DEF G
  <2> QED BY <1>1, <1>3, <2>1, Subsets
<1> QED BY <1>4 DEF Apart

(* The sizes of a fit of two or more points have a spread, by which the    *)
(* fit divides.                                                            *)
LEMMA SpreadIs ==
  ASSUME NEW S \in SUBSET Nat, IsFiniteSet(S), NEW s, NEW sq, Both(S, s, sq),
         NEW a \in S, NEW b \in S, a # b
  PROVE  Cardinality(S) * sq[S] - s[S] * s[S] > 0
<1> DEFINE W(T) == Cardinality(T) * sq[T] - s[T] * s[T]
           Two(T) == \E x, y \in T : x # y
           G == {T \in SUBSET S : W(T) \in Int /\ W(T) >= 0 /\ (Two(T) => W(T) > 0)}
<1>1. {} \in G
  <2>1. Cardinality({}) = 0 /\ s[{}] = 0 /\ sq[{}] = 0 BY FS_EmptySet DEF Both, Part
  <2>2. W({}) = 0 BY <2>1
  <2> QED BY <2>2
<1>2. ASSUME NEW T \in SUBSET S, T # {}, \A x \in T : T \ {x} \in G PROVE T \in G
  <2> DEFINE x == Pick(T)  U == T \ {x}
  <2>1. x \in T /\ x \in Nat /\ U \in SUBSET S /\ x \notin U BY <1>2 DEF Pick
  <2>2. s[T] = x + s[U] /\ sq[T] = (x * x) + sq[U] /\ s[U] \in Nat /\ sq[U] \in Nat
    <3>1. x \in S BY <2>1
    <3> QED BY <1>2, <2>1, <3>1 DEF Both, Part
  <2>3. IsFiniteSet(T) /\ IsFiniteSet(U) BY <2>1, FS_Subset
  <2>4. Cardinality(T) = Cardinality(U) + 1 /\ Cardinality(U) \in Nat
    <3> HIDE DEF x
    <3>1. Cardinality(U) = Cardinality(T) - 1 BY <2>1, <2>3, FS_RemoveElement
    <3>2. Cardinality(T) \in Nat /\ Cardinality(U) \in Nat
      <4> HIDE DEF U
      <4> QED BY <2>3, FS_CardinalityType
    <3> HIDE DEF U
    <3> QED BY <3>1, <3>2
  <2>5. U \in G BY <1>2, <2>1
  <2> HIDE DEF x
  <2> DEFINE n == Cardinality(U)  v == s[U]  w == sq[U]  d == Distance(n, v, w, x)
  <2>6. d >= 0 /\ ((\E y \in U : y # x) => d > 0)
    <3> HIDE DEF U
    <3>1. \A R \in SUBSET S : Apart(R, s, sq, x) BY <2>1, DistanceIs
    <3>2. Apart(U, s, sq, x) BY <2>1, <3>1
    <3> QED BY <3>2 DEF Apart
  <2>7. W(T) = (n + 1) * ((x * x) + w) - (x + v) * (x + v) BY <2>2, <2>4
  <2>8. W(U) = n * w - v * v OBVIOUS
  <2>9. n \in Int /\ v \in Int /\ w \in Int /\ x \in Int BY <2>1, <2>2, <2>4
  <2>10. d \in Int /\ (n + 1) * ((x * x) + w) - (x + v) * (x + v) = (n * w - v * v) + d
    <3> HIDE DEF n, v, w, U
    <3> QED BY <2>9 DEF Distance
  <2>11. Two(T) => \E y \in U : y # x BY <2>1
  <2>12. W(U) \in Int /\ W(U) >= 0 BY <2>5
  <2> HIDE DEF W, U, d, n, v, w, Two
  <2>13. W(T) = W(U) + d BY <2>7, <2>8, <2>10
  <2>14. W(T) \in Int /\ W(T) >= 0 /\ (Two(T) => W(T) > 0) BY <2>6, <2>10, <2>11, <2>12, <2>13
  <2> QED BY <2>14
<1>3. \A T \in SUBSET S : (\A x \in T : T \ {x} \in G) => T \in G
  <2> HIDE DEF G
  <2> QED BY <1>1, <1>2
<1>4. \A T \in SUBSET S : T \in G
  <2> HIDE DEF W, Two
  <2>1. G \in SUBSET SUBSET S OBVIOUS
  <2> HIDE DEF G
  <2> QED BY <1>1, <1>3, <2>1, Subsets
<1>5. S \in G BY <1>4
<1>6. Two(S) OBVIOUS
<1> QED BY <1>5, <1>6

(* The time of a forward that was not measured, by the fit through those   *)
(* that were, is a natural number.                                         *)
LEMMA FittedNat ==
  ASSUME NEW k, NEW seen \in SUBSET Nat, IsFiniteSet(seen), \A m \in seen : k.fwd[m] \in Nat,
         NEW a \in seen, NEW b \in seen, a # b, NEW n \in Nat
  PROVE  Dft!Fitted(k, seen, n) \in Nat
<1> DEFINE size == Cardinality(seen)
           fx == [m \in seen |-> m]  fq == [m \in seen |-> m * m]  fxy == [m \in seen |-> m * k.fwd[m]]
           sx == Dft!SumOver(seen, fx)  sq == Dft!SumOver(seen, fq)
           sy == Dft!SumOver(seen, k.fwd)  sxy == Dft!SumOver(seen, fxy)
           spread == (size * sq) - (sx * sx)
           slope == Dft!Greater(0, (size * sxy) - (sx * sy))
<1>8. Dft!Fitted(k, seen, n) = Dft!Greater(0, ((sy * spread) + (slope * ((n * size) - sx))) \div (size * spread))
  BY Zenon DEF Dft!Fitted, Dft!Cardinality, Cardinality
<1>1. size \in Nat /\ size # 0 BY FS_CardinalityType, FS_EmptySet
<1>2. (\A m \in seen : fx[m] \in Nat) /\ (\A m \in seen : fq[m] \in Nat) /\ (\A m \in seen : fxy[m] \in Nat) OBVIOUS
<1> HIDE DEF fx, fq, fxy
<1>3. PICK s : Part(fx, seen, s) /\ sx = s[seen] BY <1>2, SumOverIs
<1>4. PICK q2 : Part(fq, seen, q2) /\ sq = q2[seen] BY <1>2, SumOverIs
<1>5. sx \in Nat /\ sq \in Nat /\ sy \in Nat /\ sxy \in Nat BY <1>2, SumOverNat
<1>6. Both(seen, s, q2) BY <1>3, <1>4 DEF Both, fx, fq
<1>7. Cardinality(seen) * q2[seen] - s[seen] * s[seen] > 0 BY <1>6, SpreadIs
<1> HIDE DEF sx, sq, sy, sxy, size
<1>9. spread > 0 /\ spread \in Int BY <1>1, <1>3, <1>4, <1>5, <1>7 DEF size
<1>10. slope \in Int BY <1>1, <1>5 DEF Dft!Greater
<1> HIDE DEF spread, slope
<1>11. size * spread \in Int /\ size * spread > 0 BY <1>1, <1>9
<1> DEFINE top == (sy * spread) + (slope * ((n * size) - sx))  d == size * spread
<1>12. top \in Int BY <1>1, <1>5, <1>9, <1>10
<1> HIDE DEF top
<1>13. d \in Int /\ d > 0 BY <1>11
<1> HIDE DEF d
<1>14. top \div d \in Int BY <1>12, <1>13
<1>15. Dft!Greater(0, top \div d) \in Nat BY <1>14 DEF Dft!Greater
<1> QED BY <1>8, <1>15 DEF top, d

(* A quotient of natural numbers. *)
LEMMA DivNat ==
  ASSUME NEW a \in Nat, NEW b \in Nat, b > 0
  PROVE  a \div b \in Nat
OBVIOUS

(* What an AdaptiveK holds. *)
Fields(k) ==
  k = [max |-> k.max, on |-> k.on, reached |-> k.reached, accepted |-> k.accepted,
       draft |-> k.draft, fwd |-> k.fwd, idle |-> k.idle]
Controller(k) ==
  /\ Fields(k)
  /\ k.max \in Nat \ {0} /\ k.on \in BOOLEAN /\ k.draft \in Nat /\ k.idle \in 0 .. ProbeEvery - 1
  /\ k.reached \in [1 .. k.max -> Nat] /\ k.accepted \in [1 .. k.max -> Nat]
  /\ k.fwd \in [1 .. k.max + 1 -> Nat]
  /\ \A i \in 1 .. k.max : k.accepted[i] <= k.reached[i] /\ k.reached[i] <= 10000

(* So is any time of a forward. *)
LEMMA FwdNat ==
  ASSUME NEW k, Controller(k), NEW n \in Nat
  PROVE  Dft!Fwd(k, n) \in Nat
<1> DEFINE seen == {m \in DOMAIN k.fwd : k.fwd[m] > 0}
           one == CHOOSE m \in seen : TRUE
<1>0. k.max \in Nat /\ k.fwd \in [1 .. k.max + 1 -> Nat] BY DEF Controller
<1>1. seen \in SUBSET Nat /\ IsFiniteSet(seen) /\ \A m \in seen : k.fwd[m] \in Nat
  <2>1. seen \in SUBSET (1 .. k.max + 1) /\ 1 \in Int /\ k.max + 1 \in Int BY <1>0
  <2>2. IsFiniteSet(1 .. k.max + 1) BY <2>1, FS_Interval
  <2>3. IsFiniteSet(seen)
    <3> HIDE DEF seen
    <3> QED BY <2>1, <2>2, FS_Subset
  <2> QED BY <1>0, <2>1, <2>3
<1>2. Dft!Fwd(k, n) = IF n \in seen THEN k.fwd[n]
                      ELSE IF seen = {} THEN 0
                      ELSE IF seen = {one} THEN (k.fwd[one] * (85 + (15 * n))) \div (85 + (15 * one))
                      ELSE Dft!Fitted(k, seen, n)
  BY DEF Dft!Fwd
<1>3. seen # {} => one \in seen OBVIOUS
<1> HIDE DEF seen, one
<1>4. CASE n \in seen \/ seen = {} BY <1>1, <1>2, <1>4
<1>5. CASE n \notin seen /\ seen # {} /\ seen = {one}
  <2>1. one \in Nat /\ k.fwd[one] \in Nat BY <1>1, <1>3, <1>5
  <2>2. 85 + (15 * one) \in Nat /\ 85 + (15 * one) > 0 BY <2>1
  <2>3. k.fwd[one] * (85 + (15 * n)) \in Nat BY <2>1
  <2>4. (k.fwd[one] * (85 + (15 * n))) \div (85 + (15 * one)) \in Nat BY <2>2, <2>3
  <2> QED BY <1>2, <1>5, <2>4
<1>6. CASE n \notin seen /\ seen # {} /\ seen # {one}
  <2>1. PICK b \in seen : b # one BY <1>3, <1>6
  <2>2. one \in seen BY <1>3, <1>6
  <2>3. Dft!Fitted(k, seen, n) \in Nat BY <1>1, <2>1, <2>2, FittedNat
  <2> QED BY <1>2, <1>6, <2>3
<1> QED BY <1>4, <1>5, <1>6

(* Induction on a set of numbers. *)
LEMMA Naturals ==
  ASSUME NEW G, 0 \in G, \A n \in Nat : n \in G => n + 1 \in G
  PROVE  \A n \in Nat : n \in G
<1> SUFFICES ASSUME NEW n \in Nat, n \notin G PROVE FALSE OBVIOUS
<1>1. PICK m \in {k \in Nat : k \notin G} : \A k \in {k \in Nat : k \notin G} : m <= k
  BY LeastNat
<1>2. m \in Nat /\ m # 0 /\ m \notin G BY <1>1
<1>3. m - 1 \in Nat /\ m = (m - 1) + 1 BY <1>2
<1>4. m - 1 \in G BY <1>1, <1>3
<1> QED BY <1>2, <1>3, <1>4

(* The rate of an offset is a natural number. *)
LEMMA RateNat ==
  ASSUME NEW k, Controller(k), NEW i \in 1 .. k.max
  PROVE  Dft!Rate(k, i) \in Nat
<1> DEFINE A == k.accepted
           R == k.reached
           M == k.max
           up == A[i] + 1000
           down == R[i] + 2000
<1>1. A \in [1 .. M -> Nat] /\ R \in [1 .. M -> Nat] BY DEF Controller
<1>2. Dft!Rate(k, i) = (up * 1000) \div down BY DEF Dft!Rate
<1>3. i \in 1 .. M OBVIOUS
<1> HIDE DEF A, R, M
<1>4. A[i] \in Nat /\ R[i] \in Nat BY <1>1, <1>3
<1>5. up \in Nat /\ down \in Nat /\ down > 0 BY <1>4
<1> HIDE DEF up, down
<1>6. up * 1000 \in Nat BY <1>5
<1>7. (up * 1000) \div down \in Nat BY <1>5, <1>6, DivNat
<1> QED BY <1>2, <1>7

(* What a round is expected to commit is a natural number: each of its     *)
(* terms comes from the one before.                                        *)
LEMMA ExpectNat ==
  ASSUME NEW k, Controller(k), NEW n \in 0 .. k.max
  PROVE  Dft!Expect(k, n) \in Nat
<1> DEFINE next1(a, i) == (a * Dft!Rate(k, i)) \div 1000
           rec(f) == [i \in 0 .. n |-> IF i = 0 THEN 1000 ELSE next1(f[i - 1], i)]
           all == CHOOSE f : f = rec(f)
<1>1. Dft!Expect(k, n) = Dft!SumOver(0 .. n, all) BY DEF Dft!Expect
<1>0. k.max \in Nat /\ n \in Nat BY DEF Controller
<1>2. ASSUME NEW i \in 1 .. n, NEW a \in Nat PROVE next1(a, i) \in Nat
  <2> DEFINE r == Dft!Rate(k, i)
  <2> HIDE DEF rec, all
  <2>1. i \in 1 .. k.max BY <1>0
  <2>2. r \in Nat BY <2>1, RateNat
  <2> HIDE DEF r
  <2>3. a * r \in Nat BY <2>2
  <2>4. (a * r) \div 1000 \in Nat BY <2>3, DivNat
  <2> QED BY <2>4 DEF r
<1> DEFINE Good(f, m) == f[0] = 1000 /\ \A i \in 1 .. m : f[i] = next1(f[i - 1], i)
           Some(m) == \E f \in [0 .. m -> Nat] : Good(f, m)
           G == {m \in Nat : m <= n => Some(m)}
<1>3. 0 \in G
  <2> DEFINE f == [i \in 0 .. 0 |-> 1000]
  <2>1. f \in [0 .. 0 -> Nat] /\ f[0] = 1000 /\ 1 .. 0 = {} OBVIOUS
  <2> HIDE DEF f, next1
  <2>2. Good(f, 0) BY <2>1
  <2> QED BY <2>1, <2>2
<1>4. ASSUME NEW m \in Nat, m \in G PROVE m + 1 \in G
  <2> SUFFICES ASSUME m + 1 <= n PROVE Some(m + 1)
    <3> HIDE DEF Some
    <3> QED OBVIOUS
  <2>0. Some(m)
    <3> HIDE DEF Some
    <3> QED BY <1>0, <1>4
  <2>1. PICK f \in [0 .. m -> Nat] : Good(f, m)
    <3> HIDE DEF Good
    <3> QED BY <2>0
  <2> DEFINE g == [i \in 0 .. m + 1 |-> IF i = m + 1 THEN next1(f[m], m + 1) ELSE f[i]]
  <2>2. m + 1 \in 1 .. n /\ f[m] \in Nat BY <1>0
  <2>3. next1(f[m], m + 1) \in Nat BY <1>2, <2>2
  <2> HIDE DEF next1
  <2>4. g \in [0 .. m + 1 -> Nat] BY <2>3
  <2>5. g[0] = 1000 BY <2>1
  <2>6. ASSUME NEW i \in 1 .. m + 1 PROVE g[i] = next1(g[i - 1], i)
    <3>1. i \in 0 .. m + 1 /\ i - 1 \in 0 .. m /\ i - 1 \in 0 .. m + 1 /\ i - 1 # m + 1 OBVIOUS
    <3>2. g[i - 1] = f[i - 1] BY <3>1
    <3>3. CASE i = m + 1
      <4>1. i - 1 = m BY <3>3
      <4> QED BY <3>1, <3>2, <3>3, <4>1
    <3>4. CASE i # m + 1
      <4>1. i \in 1 .. m BY <3>4
      <4> QED BY <2>1, <3>1, <3>2, <3>4, <4>1
    <3> QED BY <3>3, <3>4
  <2>7. Good(g, m + 1)
    <3> HIDE DEF g
    <3> QED BY <2>5, <2>6
  <2> HIDE DEF g, Good
  <2> QED BY <2>4, <2>7
<1>5. \A m \in Nat : m \in G
  <2> HIDE DEF G
  <2> QED BY <1>3, <1>4, Naturals
<1>6. PICK f \in [0 .. n -> Nat] : Good(f, n)
  <2>1. n <= n BY <1>0
  <2>2. Some(n)
    <3> HIDE DEF Some
    <3> QED BY <1>0, <1>5, <2>1
  <2> HIDE DEF Good
  <2> QED BY <2>2
<1> HIDE DEF next1
<1>7. f = rec(f)
  <2>1. ASSUME NEW i \in 0 .. n PROVE f[i] = rec(f)[i]
    <3>1. i = 0 \/ i \in 1 .. n OBVIOUS
    <3> QED BY <1>6, <3>1
  <2>2. rec(f) = [i \in 0 .. n |-> rec(f)[i]] /\ f = [i \in 0 .. n |-> f[i]] OBVIOUS
  <2> HIDE DEF rec
  <2> QED BY <2>1, <2>2
<1> HIDE DEF rec
<1>8. all = rec(all) BY <1>7
<1> HIDE DEF all
<1>9. all[0] = 1000 /\ \A i \in 1 .. n : all[i] = next1(all[i - 1], i) BY <1>0, <1>8 DEF rec
<1> DEFINE H == {m \in Nat : m <= n => all[m] \in Nat}
<1>10. 0 \in H BY <1>9
<1>11. ASSUME NEW m \in Nat, m \in H PROVE m + 1 \in H
  <2> SUFFICES ASSUME m + 1 <= n PROVE all[m + 1] \in Nat OBVIOUS
  <2>1. m + 1 \in 1 .. n /\ (m + 1) - 1 = m /\ all[m] \in Nat BY <1>0, <1>11
  <2>2. next1(all[m], m + 1) \in Nat BY <1>2, <2>1
  <2> QED BY <1>9, <2>1, <2>2
<1>12. \A m \in Nat : m \in H
  <2> HIDE DEF H
  <2> QED BY <1>10, <1>11, Naturals
<1>13. \A i \in 0 .. n : all[i] \in Nat BY <1>0, <1>12
<1>14. IsFiniteSet(0 .. n) BY <1>0, FS_Interval
<1>15. Dft!SumOver(0 .. n, all) \in Nat BY <1>13, <1>14, SumOverNat
<1> QED BY <1>1, <1>15

(* Being better is passed on: ratios are compared by multiplying them out. *)
LEMMA Passed ==
  ASSUME NEW e0 \in Nat, NEW e1 \in Nat, NEW e2 \in Nat,
         NEW t0 \in Nat \ {0}, NEW t1 \in Nat \ {0}, NEW t2 \in Nat \ {0},
         e0 * t1 <= e1 * t0, e2 * t1 > e1 * t2
  PROVE  e2 * t0 > e0 * t2
<1>1. (e2 * t1) * t0 > (e1 * t2) * t0
  <2> DEFINE x == e2 * t1  y == e1 * t2
  <2>1. x \in Nat /\ y \in Nat /\ x >= y + 1 OBVIOUS
  <2> HIDE DEF x, y
  <2>2. (x - (y + 1)) * t0 >= 0 BY <2>1
  <2>3. x * t0 >= y * t0 + t0 BY <2>1, <2>2
  <2>4. x * t0 \in Nat /\ y * t0 \in Nat BY <2>1
  <2>5. x * t0 > y * t0 BY <2>3, <2>4
  <2> QED BY <2>5 DEF x, y
<1>2. (e1 * t0) * t2 >= (e0 * t1) * t2
  <2> DEFINE x == e1 * t0  y == e0 * t1
  <2>1. x \in Nat /\ y \in Nat /\ x >= y OBVIOUS
  <2> HIDE DEF x, y
  <2>2. (x - y) * t2 >= 0 BY <2>1
  <2>3. x * t2 >= y * t2 BY <2>1, <2>2
  <2> QED BY <2>3 DEF x, y
<1>3. /\ (e2 * t1) * t0 = (e2 * t0) * t1 /\ (e1 * t2) * t0 = (e1 * t0) * t2
      /\ (e0 * t1) * t2 = (e0 * t2) * t1
  OBVIOUS
<1>4. (e2 * t0) * t1 > (e0 * t2) * t1
  <2> DEFINE a == (e2 * t1) * t0  b == (e1 * t2) * t0  c == (e0 * t1) * t2
  <2>1. a \in Nat /\ b \in Nat /\ c \in Nat OBVIOUS
  <2>2. a > b /\ b >= c BY <1>1, <1>2, <1>3
  <2> HIDE DEF a, b, c
  <2>3. a > c BY <2>1, <2>2
  <2> QED BY <1>3, <2>3 DEF a, c
<1> DEFINE u == e2 * t0  v == e0 * t2
<1>5. u \in Nat /\ v \in Nat OBVIOUS
<1>6. u * t1 > v * t1 BY <1>4
<1> HIDE DEF u, v
<1>7. u > v
  <2> SUFFICES ASSUME u <= v PROVE FALSE BY <1>5
  <2>1. (v - u) * t1 >= 0 BY <1>5
  <2>2. u * t1 \in Nat /\ v * t1 \in Nat /\ v * t1 >= u * t1 BY <1>5, <2>1
  <2> QED BY <1>6, <2>2
<1> QED BY <1>7 DEF u, v

(* Of finitely many ratios there is a first that none exceeds. *)
Leading(e, t, b, n) ==
  /\ \A m \in 0 .. b - 1 : e[b] * t[m] > e[m] * t[b]
  /\ \A m \in b + 1 .. n : ~(e[m] * t[b] > e[b] * t[m])
Led(e, t, n) == \E b \in 0 .. n : Leading(e, t, b, n)

LEMMA Leads ==
  ASSUME NEW most \in Nat, NEW e \in [0 .. most -> Nat], NEW t \in [0 .. most -> Nat \ {0}]
  PROVE  Led(e, t, most)
<1> DEFINE G == {n \in Nat : n <= most => Led(e, t, n)}
<1>1. 0 \in G
  <2>1. Leading(e, t, 0, 0) BY DEF Leading
  <2>2. 0 \in 0 .. 0 OBVIOUS
  <2>3. Led(e, t, 0) BY <2>1, <2>2 DEF Led
  <2> QED BY <2>3
<1>2. ASSUME NEW n \in Nat, n \in G PROVE n + 1 \in G
  <2> SUFFICES ASSUME n + 1 <= most PROVE Led(e, t, n + 1) OBVIOUS
  <2>1. Led(e, t, n) BY <1>2
  <2>2. PICK b \in 0 .. n : Leading(e, t, b, n) BY <2>1 DEF Led
  <2>3. \A m \in 0 .. n + 1 : e[m] \in Nat /\ t[m] \in Nat \ {0} OBVIOUS
  <2>4. b \in 0 .. n + 1 /\ n + 1 \in 0 .. n + 1 OBVIOUS
  <2> DEFINE over(i, m) == e[i] * t[m] > e[m] * t[i]
  <2>5. \A i \in 0 .. n + 1 : \A m \in 0 .. n + 1 : e[i] * t[m] \in Nat BY <2>3
  <2>6. CASE over(n + 1, b)
    <3>1. ASSUME NEW m \in 0 .. n PROVE over(n + 1, m)
      <4>1. m \in 0 .. n + 1 OBVIOUS
      <4>2. e[m] * t[b] <= e[b] * t[m]
        <5>1. e[m] * t[b] \in Nat /\ e[b] * t[m] \in Nat BY <2>4, <2>5, <4>1
        <5>2. CASE m \in 0 .. b - 1
          <6>1. e[b] * t[m] > e[m] * t[b] BY <2>2, <5>2 DEF Leading
          <6> QED BY <5>1, <6>1
        <5>3. CASE m = b BY <5>1, <5>3
        <5>4. CASE m \in b + 1 .. n
          <6>1. ~(e[m] * t[b] > e[b] * t[m]) BY <2>2, <5>4 DEF Leading
          <6> QED BY <5>1, <6>1
        <5>5. m \in 0 .. b - 1 \/ m = b \/ m \in b + 1 .. n OBVIOUS
        <5> QED BY <5>2, <5>3, <5>4, <5>5
      <4>3. /\ e[m] \in Nat /\ e[b] \in Nat /\ e[n + 1] \in Nat
            /\ t[m] \in Nat \ {0} /\ t[b] \in Nat \ {0} /\ t[n + 1] \in Nat \ {0}
        BY <2>3, <2>4, <4>1
      <4> QED BY <2>6, <4>2, <4>3, Passed
    <3>2. (n + 1) - 1 = n /\ (n + 1) + 1 .. n + 1 = {} OBVIOUS
    <3>3. Leading(e, t, n + 1, n + 1) BY <3>1, <3>2 DEF Leading
    <3> QED BY <2>4, <3>3 DEF Led
  <2>7. CASE ~over(n + 1, b)
    <3>1. ASSUME NEW m \in b + 1 .. n + 1 PROVE ~over(m, b)
      <4>1. m \in b + 1 .. n \/ m = n + 1 OBVIOUS
      <4>2. CASE m \in b + 1 .. n BY <2>2, <4>2 DEF Leading
      <4>3. CASE m = n + 1 BY <2>7, <4>3
      <4> QED BY <4>1, <4>2, <4>3
    <3>2. \A m \in 0 .. b - 1 : over(b, m) BY <2>2 DEF Leading
    <3>3. Leading(e, t, b, n + 1) BY <3>1, <3>2 DEF Leading
    <3> QED BY <2>4, <3>3 DEF Led
  <2> QED BY <2>6, <2>7
<1>3. \A n \in Nat : n \in G
  <2> HIDE DEF G
  <2> QED BY <1>1, <1>2, Naturals
<1>4. most <= most OBVIOUS
<1> QED BY <1>3, <1>4

(* The controller's best length is one of its lengths: where a round       *)
(* without drafts costs nothing, none is better, elsewhere one leads.      *)
LEMMA BestWhereFree ==
  ASSUME NEW k, Controller(k), k.draft # 0, Dft!Fwd(k, 1) = 0
  PROVE  Dft!Best(k) \in 0 .. k.max
<1> DEFINE M == k.max
           Fits(n) == /\ \A m \in 0 .. n - 1 : Dft!Better(k, n, m)
                      /\ \A m \in n + 1 .. M : ~Dft!Better(k, m, n)
<1>1. M \in Nat /\ k.draft \in Nat BY DEF Controller
<1>2. Dft!Best(k) = CHOOSE n \in 0 .. M : Fits(n) BY DEF Dft!Best
<1>3. ASSUME NEW m \in 1 .. M PROVE ~Dft!Better(k, m, 0)
  <2>1. m \in 0 .. k.max /\ 0 \in 0 .. k.max /\ m + 1 \in Nat /\ m # 0 BY <1>1
  <2>2. Dft!Expect(k, m) \in Nat /\ Dft!Expect(k, 0) \in Nat BY <2>1, ExpectNat
  <2>3. Dft!Fwd(k, m + 1) \in Nat BY <2>1, FwdNat
  <2>4. Dft!Time(k, 0) = 0 /\ Dft!Time(k, m) \in Nat BY <1>1, <2>1, <2>3 DEF Dft!Time
  <2> DEFINE a == Dft!Expect(k, m)  b == Dft!Expect(k, 0)  t == Dft!Time(k, m)
  <2>5. Dft!Better(k, m, 0) <=> a * 0 > b * t BY <2>4 DEF Dft!Better
  <2>6. a \in Nat /\ b \in Nat /\ t \in Nat BY <2>2, <2>4
  <2> HIDE DEF a, b, t
  <2>7. b * t \in Nat /\ a * 0 = 0 BY <2>6
  <2> QED BY <2>5, <2>7
<1>4. 0 .. 0 - 1 = {} /\ 0 + 1 .. M = 1 .. M /\ 0 \in 0 .. M BY <1>1
<1> HIDE DEF M
<1>5. Fits(0) BY <1>3, <1>4
<1> HIDE DEF Fits
<1> QED BY <1>2, <1>4, <1>5 DEF M

LEMMA BestIn ==
  ASSUME NEW k, Controller(k), k.draft # 0, Dft!Fwd(k, 1) # 0
  PROVE  Dft!Best(k) \in 0 .. k.max
<1> DEFINE M == k.max
           e == [n \in 0 .. M |-> Dft!Expect(k, n)]
           t == [n \in 0 .. M |-> Dft!Time(k, n)]
<1>1. M \in Nat /\ k.draft \in Nat BY DEF Controller
<1>2. ASSUME NEW n \in 0 .. M PROVE e[n] \in Nat
  <2>1. Dft!Expect(k, n) \in Nat BY ExpectNat
  <2> QED BY <2>1
<1>3. ASSUME NEW n \in 0 .. M PROVE t[n] \in Nat \ {0}
  <2>1. n + 1 \in Nat BY <1>1
  <2>2. Dft!Fwd(k, 1) \in Nat /\ Dft!Fwd(k, n + 1) \in Nat BY <2>1, FwdNat
  <2>3. Dft!Time(k, n) \in Nat \ {0} BY <1>1, <2>2 DEF Dft!Time
  <2> QED BY <2>3
<1>4. e \in [0 .. M -> Nat] /\ t \in [0 .. M -> Nat \ {0}]
  <2>1. e = [n \in 0 .. M |-> e[n]] /\ t = [n \in 0 .. M |-> t[n]] OBVIOUS
  <2> HIDE DEF e, t
  <2> QED BY <1>2, <1>3, <2>1
<1>5. \A n \in 0 .. M : e[n] = Dft!Expect(k, n) /\ t[n] = Dft!Time(k, n) OBVIOUS
<1> HIDE DEF e, t
<1>6. Led(e, t, M) BY <1>1, <1>4, Leads
<1>7. PICK b \in 0 .. M : Leading(e, t, b, M) BY <1>6 DEF Led
<1> DEFINE Fits(n) == /\ \A m \in 0 .. n - 1 : Dft!Better(k, n, m)
                      /\ \A m \in n + 1 .. M : ~Dft!Better(k, m, n)
<1>8. Fits(b)
  <2>1. ASSUME NEW m \in 0 .. b - 1 PROVE Dft!Better(k, b, m)
    <3>1. m \in 0 .. M BY <1>1
    <3>2. e[b] * t[m] > e[m] * t[b] BY <1>7 DEF Leading
    <3> QED BY <1>5, <3>1, <3>2 DEF Dft!Better
  <2>2. ASSUME NEW m \in b + 1 .. M PROVE ~Dft!Better(k, m, b)
    <3>1. m \in 0 .. M BY <1>1
    <3>2. ~(e[m] * t[b] > e[b] * t[m]) BY <1>7 DEF Leading
    <3> QED BY <1>5, <3>1, <3>2 DEF Dft!Better
  <2> QED BY <2>1, <2>2
<1>9. Dft!Best(k) = CHOOSE n \in 0 .. M : Fits(n) BY DEF Dft!Best
<1> HIDE DEF Fits, M
<1> QED BY <1>8, <1>9 DEF M

(* A controller after one step, of the same greatest length. *)
SameLimits(k, l) == Controller(l) /\ l.max = k.max /\ l.on = k.on

Made(max, on, reached, acc, time, fwd, idle) ==
  [max |-> max, on |-> on, reached |-> reached, accepted |-> acc, draft |-> time, fwd |-> fwd, idle |-> idle]

(* A controller is its fields. *)
LEMMA IsMade ==
  ASSUME NEW k, Fields(k)
  PROVE  \E m, o, r, a, t, f, i :
           /\ k = Made(m, o, r, a, t, f, i)
           /\ k.max = m /\ k.on = o /\ k.reached = r /\ k.accepted = a /\ k.draft = t /\ k.fwd = f /\ k.idle = i
<1>1. k = Made(k.max, k.on, k.reached, k.accepted, k.draft, k.fwd, k.idle) BY Zenon DEF Fields, Made
<1> QED BY Zenon, <1>1

(* Asking for a length: one up to the greatest, zero only when adapting    *)
(* and then after one more round without drafts.                           *)
LEMMA GetKeeps ==
  ASSUME NEW k, Controller(k)
  PROVE  /\ SameLimits(k, Dft!Get(k)[2])
         /\ Dft!Get(k)[1] \in 0 .. k.max
         /\ ~k.on => Dft!Get(k)[1] = k.max
         /\ Dft!Get(k)[1] = 0 => Dft!Get(k)[2].idle = k.idle + 1
<1> DEFINE g == Dft!Get(k)
           with(i) == [k EXCEPT !.idle = i]
<1>1. /\ k.max \in Nat \ {0} /\ k.on \in BOOLEAN /\ k.draft \in Nat /\ k.idle \in 0 .. ProbeEvery - 1
      /\ ProbeEvery \in Nat \ {0}
  BY DraftingAssumption DEF Controller
<1>2. ASSUME NEW i \in 0 .. ProbeEvery - 1
      PROVE  SameLimits(k, with(i)) /\ with(i).idle = i
  <2> DEFINE w == with(i)
  <2>0. PICK m, o, r, a, t, f, j :
          /\ k = Made(m, o, r, a, t, f, j)
          /\ k.max = m /\ k.on = o /\ k.reached = r /\ k.accepted = a /\ k.draft = t /\ k.fwd = f /\ k.idle = j
    BY IsMade DEF Controller
  <2>8. [Made(m, o, r, a, t, f, j) EXCEPT !.idle = i] = Made(m, o, r, a, t, f, i) BY DEF Made
  <2>9. w = Made(m, o, r, a, t, f, i) BY Zenon, <2>0, <2>8
  <2> HIDE DEF w
  <2>1. w = [max |-> k.max, on |-> k.on, reached |-> k.reached, accepted |-> k.accepted,
             draft |-> k.draft, fwd |-> k.fwd, idle |-> i]
    BY Zenon, <2>0, <2>9 DEF Made
  <2>2. /\ w.max = k.max /\ w.on = k.on /\ w.reached = k.reached /\ w.accepted = k.accepted
        /\ w.draft = k.draft /\ w.fwd = k.fwd /\ w.idle = i
    BY <2>1
  <2> HIDE DEF w
  <2>3. Fields(w) BY <2>1, <2>2 DEF Fields
  <2>4. Controller(w) BY <2>2, <2>3 DEF Controller
  <2>5. SameLimits(k, w) /\ w.idle = i BY <2>2, <2>4 DEF SameLimits
  <2> QED BY <2>5 DEF w
<1>3. SameLimits(k, k) BY DEF SameLimits
<1>4. g = IF ~k.on \/ Dft!Unmeasured(k) THEN <<k.max, k>>
          ELSE IF Dft!Best(k) > 0 THEN <<Dft!Best(k), with(0)>>
          ELSE IF k.idle + 1 >= ProbeEvery THEN <<k.max, with(0)>>
          ELSE <<0, with(k.idle + 1)>>
  BY DEF Dft!Get, Dft!Probes
<1> HIDE DEF g, with
<1>5. CASE ~k.on \/ Dft!Unmeasured(k)
  <2>1. g[1] = k.max /\ g[2] = k BY <1>4, <1>5
  <2>2. g[1] \in 0 .. k.max /\ g[1] # 0 BY <1>1, <2>1
  <2> QED BY <1>3, <2>1, <2>2 DEF g
<1>6. CASE k.on /\ ~Dft!Unmeasured(k)
  <2>1. Dft!Best(k) \in 0 .. k.max
    <3>1. k.draft # 0 BY <1>6 DEF Dft!Unmeasured
    <3> QED BY <3>1, BestIn, BestWhereFree
  <2>2. 0 \in 0 .. ProbeEvery - 1 BY <1>1
  <2>3. CASE Dft!Best(k) > 0
    <3>1. g[1] = Dft!Best(k) /\ g[2] = with(0) BY <1>4, <1>6, <2>3
    <3>2. g[1] \in 0 .. k.max /\ g[1] # 0 BY <2>1, <2>3, <3>1
    <3>3. SameLimits(k, g[2]) BY <1>2, <2>2, <3>1
    <3> QED BY <1>6, <3>2, <3>3 DEF g
  <2>4. CASE ~(Dft!Best(k) > 0) /\ k.idle + 1 >= ProbeEvery
    <3>1. g[1] = k.max /\ g[2] = with(0) BY <1>4, <1>6, <2>4
    <3>2. g[1] \in 0 .. k.max /\ g[1] # 0 BY <1>1, <3>1
    <3>3. SameLimits(k, g[2]) BY <1>2, <2>2, <3>1
    <3> QED BY <1>6, <3>2, <3>3 DEF g
  <2>5. CASE ~(Dft!Best(k) > 0) /\ ~(k.idle + 1 >= ProbeEvery)
    <3>1. g[1] = 0 /\ g[2] = with(k.idle + 1) BY <1>4, <1>6, <2>5
    <3>2. k.idle + 1 \in 0 .. ProbeEvery - 1 BY <1>1, <2>5
    <3>3. SameLimits(k, g[2]) /\ g[2].idle = k.idle + 1 BY <1>2, <3>1, <3>2
    <3>4. 0 \in 0 .. k.max BY <1>1
    <3> QED BY <1>6, <3>1, <3>3, <3>4 DEF g
  <2> QED BY <2>3, <2>4, <2>5
<1> QED BY <1>1, <1>5, <1>6

(* A moving average of natural numbers is one. *)
LEMMA EmaNat ==
  ASSUME NEW old \in Nat, NEW x \in Nat
  PROVE  Dft!Ema(old, x) \in Nat
<1>1. old + ((x - old) \div 5) \in Nat OBVIOUS
<1> QED BY <1>1 DEF Dft!Ema

(* Recording a round. *)
LEMMA UpdateKeeps ==
  ASSUME NEW k, Controller(k), NEW drafted \in 0 .. k.max, NEW kept \in 0 .. drafted,
         NEW draftTime \in Nat, NEW fwdTime \in Nat
  PROVE  LET l == Dft!Update(k, drafted, kept, draftTime, fwdTime)
         IN SameLimits(k, l) /\ l.idle = k.idle
<1> DEFINE M == k.max
           F == k.fwd
           d == IF draftTime = 0 THEN k.draft ELSE Dft!Ema(k.draft, draftTime)
           f == [n \in 1 .. M + 1 |-> IF n = drafted + 1 THEN Dft!Ema(F[n], fwdTime) ELSE F[n]]
           timed == [k EXCEPT !.draft = IF draftTime = 0 THEN @ ELSE Dft!Ema(@, draftTime),
                              !.fwd = [n \in DOMAIN @ |-> IF n = drafted + 1 THEN Dft!Ema(@[n], fwdTime) ELSE @[n]]]
<1>1. /\ M \in Nat \ {0} /\ k.on \in BOOLEAN /\ k.draft \in Nat /\ k.idle \in 0 .. ProbeEvery - 1
      /\ k.reached \in [1 .. M -> Nat] /\ k.accepted \in [1 .. M -> Nat]
      /\ F \in [1 .. M + 1 -> Nat]
      /\ \A i \in 1 .. M : k.accepted[i] <= k.reached[i] /\ k.reached[i] <= 10000
  BY DEF Controller
<1>2. d \in Nat
  <2> DEFINE old == k.draft
  <2>1. old \in Nat BY <1>1
  <2> HIDE DEF old
  <2>2. Dft!Ema(old, draftTime) \in Nat BY <2>1, EmaNat
  <2> QED BY <2>1, <2>2 DEF old
<1>3. f \in [1 .. M + 1 -> Nat]
  <2>1. ASSUME NEW n \in 1 .. M + 1 PROVE f[n] \in Nat
    <3>1. F[n] \in Nat BY <1>1
    <3>2. Dft!Ema(F[n], fwdTime) \in Nat BY <3>1, EmaNat
    <3> QED BY <3>1, <3>2
  <2>2. f = [n \in 1 .. M + 1 |-> f[n]] OBVIOUS
  <2> HIDE DEF f
  <2> QED BY <2>1, <2>2
<1>4. timed = [max |-> M, on |-> k.on, reached |-> k.reached, accepted |-> k.accepted,
               draft |-> d, fwd |-> f, idle |-> k.idle]
  <2>1. DOMAIN k.fwd = 1 .. M + 1 BY <1>1
  <2>2. f = [n \in DOMAIN k.fwd |-> IF n = drafted + 1 THEN Dft!Ema(k.fwd[n], fwdTime) ELSE k.fwd[n]]
    BY <2>1
  <2>3. timed = [k EXCEPT !.draft = d, !.fwd = f] BY <2>2
  <2>4. PICK m, o, r, a, t, g, j :
          /\ k = Made(m, o, r, a, t, g, j)
          /\ k.max = m /\ k.on = o /\ k.reached = r /\ k.accepted = a /\ k.draft = t /\ k.fwd = g /\ k.idle = j
    BY IsMade DEF Controller
  <2> HIDE DEF d, f, timed
  <2>6. [Made(m, o, r, a, t, g, j) EXCEPT !.draft = d, !.fwd = f] = Made(m, o, r, a, d, f, j)
    <3>1. [Made(m, o, r, a, t, g, j) EXCEPT !.draft = d] = Made(m, o, r, a, d, g, j) BY DEF Made
    <3>2. [Made(m, o, r, a, d, g, j) EXCEPT !.fwd = f] = Made(m, o, r, a, d, f, j) BY DEF Made
    <3>3. [Made(m, o, r, a, t, g, j) EXCEPT !.draft = d, !.fwd = f]
            = [[Made(m, o, r, a, t, g, j) EXCEPT !.draft = d] EXCEPT !.fwd = f]
      OBVIOUS
    <3> QED BY <3>1, <3>2, <3>3
  <2>5. timed = Made(m, o, r, a, d, f, j) BY Zenon, <2>3, <2>4, <2>6
  <2> QED BY Zenon, <2>4, <2>5 DEF Made
<1> HIDE DEF d, f, timed
<1>5. Controller(timed) /\ timed.max = M /\ timed.on = k.on /\ timed.idle = k.idle
  <2>1. /\ timed.max = M /\ timed.on = k.on /\ timed.reached = k.reached /\ timed.accepted = k.accepted
        /\ timed.draft = d /\ timed.fwd = f /\ timed.idle = k.idle
    BY <1>4
  <2>2. Fields(timed) BY <1>4, <2>1 DEF Fields
  <2> QED BY <1>1, <1>2, <1>3, <2>1, <2>2 DEF Controller
<1> DEFINE O == Dft!Observed(timed, drafted, kept)
           l == Dft!Update(k, drafted, kept, draftTime, fwdTime)
<1>6. l = IF drafted = 0 THEN timed ELSE O BY DEF Dft!Update, timed
<1>7. Controller(O) /\ O.max = M /\ O.on = k.on /\ O.idle = k.idle
  <2> DEFINE R == timed.reached
             A == timed.accepted
             r == [i \in 1 .. M |-> ((R[i] * 9) \div 10) + IF i <= drafted /\ i <= kept + 1 THEN 1000 ELSE 0]
             a == [i \in 1 .. M |-> ((A[i] * 9) \div 10) + IF i <= drafted /\ i <= kept THEN 1000 ELSE 0]
  <2>1. /\ R \in [1 .. M -> Nat] /\ A \in [1 .. M -> Nat]
        /\ \A i \in 1 .. M : A[i] <= R[i] /\ R[i] <= 10000
    BY <1>5 DEF Controller
  <2>2. O = [timed EXCEPT !.reached = r, !.accepted = a]
    <3>1. DOMAIN timed.reached = 1 .. M /\ DOMAIN timed.accepted = 1 .. M BY <2>1
    <3> DEFINE r0 == [i \in DOMAIN timed.reached |->
                        [j \in DOMAIN timed.reached |-> (timed.reached[j] * 9) \div 10][i]
                        + IF i <= drafted /\ i <= kept + 1 THEN 1000 ELSE 0]
               a0 == [i \in DOMAIN timed.accepted |->
                        [j \in DOMAIN timed.accepted |-> (timed.accepted[j] * 9) \div 10][i]
                        + IF i <= drafted /\ i <= kept THEN 1000 ELSE 0]
    <3>2. O = [timed EXCEPT !.reached = r0, !.accepted = a0] BY DEF Dft!Observed
    <3>3. r0 = r
      <4> DEFINE s == [j \in 1 .. M |-> (R[j] * 9) \div 10]
      <4>1. \A i \in 1 .. M : s[i] = (R[i] * 9) \div 10 OBVIOUS
      <4>2. r0 = [i \in 1 .. M |-> s[i] + IF i <= drafted /\ i <= kept + 1 THEN 1000 ELSE 0] BY <3>1
      <4> HIDE DEF s, r0
      <4> QED BY <4>1, <4>2
    <3>4. a0 = a
      <4> DEFINE s == [j \in 1 .. M |-> (A[j] * 9) \div 10]
      <4>1. \A i \in 1 .. M : s[i] = (A[i] * 9) \div 10 OBVIOUS
      <4>2. a0 = [i \in 1 .. M |-> s[i] + IF i <= drafted /\ i <= kept THEN 1000 ELSE 0] BY <3>1
      <4> HIDE DEF s, a0
      <4> QED BY <4>1, <4>2
    <3> HIDE DEF r0, a0, r, a, O
    <3> QED BY <3>2, <3>3, <3>4
  <2>3. ASSUME NEW i \in 1 .. M
        PROVE  r[i] \in Nat /\ a[i] \in Nat /\ a[i] <= r[i] /\ r[i] <= 10000
    <3> DEFINE x == R[i]  y == A[i]
               up == IF i <= drafted /\ i <= kept + 1 THEN 1000 ELSE 0
               ok == IF i <= drafted /\ i <= kept THEN 1000 ELSE 0
    <3>1. x \in Nat /\ y \in Nat /\ y <= x /\ x <= 10000
      <4> HIDE DEF R, A, M
      <4> QED BY <2>1
    <3>2. up \in Nat /\ ok \in Nat /\ ok <= up /\ up <= 1000 OBVIOUS
    <3>3. r[i] = ((x * 9) \div 10) + up /\ a[i] = ((y * 9) \div 10) + ok OBVIOUS
    <3> HIDE DEF x, y, up, ok, r, a
    <3>4. /\ (x * 9) \div 10 \in Nat /\ (y * 9) \div 10 \in Nat
          /\ (y * 9) \div 10 <= (x * 9) \div 10 /\ (x * 9) \div 10 <= 9000
      BY <3>1
    <3> QED BY <3>2, <3>3, <3>4
  <2>4. r = [i \in 1 .. M |-> r[i]] /\ a = [i \in 1 .. M |-> a[i]] OBVIOUS
  <2> HIDE DEF r, a, O, R, A
  <2>5. r \in [1 .. M -> Nat] /\ a \in [1 .. M -> Nat]
    <3> HIDE DEF M
    <3>1. r \in [1 .. M -> Nat] BY <2>3, <2>4
    <3>2. a \in [1 .. M -> Nat] BY <2>3, <2>4
    <3> QED BY <3>1, <3>2
  <2>6. O = [max |-> M, on |-> k.on, reached |-> r, accepted |-> a,
             draft |-> d, fwd |-> f, idle |-> k.idle]
    BY <1>4, <2>2
  <2>7. /\ O.max = M /\ O.on = k.on /\ O.reached = r /\ O.accepted = a
        /\ O.draft = d /\ O.fwd = f /\ O.idle = k.idle
    BY <2>6
  <2>8. Fields(O) BY <2>6, <2>7 DEF Fields
  <2> QED BY <1>1, <1>2, <1>3, <2>3, <2>5, <2>7, <2>8 DEF Controller
<1> HIDE DEF O
<1>8. SameLimits(k, l) /\ l.idle = k.idle BY <1>5, <1>6, <1>7 DEF SameLimits
<1> QED BY <1>8

(* A new controller. *)
LEMMA NewKeeps ==
  ASSUME NEW max \in Nat, NEW on \in BOOLEAN
  PROVE  LET k == Dft!NewK(max, on) IN Controller(k) /\ k.max = Dft!Greater(max, 1) /\ k.on = on
<1> DEFINE M == Dft!Greater(max, 1)
           k == Dft!NewK(max, on)
           z == [i \in 1 .. M |-> 0]
           f == [n \in 1 .. M + 1 |-> 0]
<1>1. M \in Nat \ {0} BY DEF Dft!Greater
<1>2. k = [max |-> M, on |-> on, reached |-> z, accepted |-> z, draft |-> 0, fwd |-> f, idle |-> 0]
  BY DEF Dft!NewK
<1>3. z \in [1 .. M -> Nat] /\ f \in [1 .. M + 1 -> Nat] /\ \A i \in 1 .. M : z[i] <= z[i] /\ z[i] <= 10000
  OBVIOUS
<1>4. 0 \in 0 .. ProbeEvery - 1 BY DraftingAssumption
<1> HIDE DEF z, f, k, M
<1>5. /\ k.max = M /\ k.on = on /\ k.reached = z /\ k.accepted = z /\ k.draft = 0 /\ k.fwd = f /\ k.idle = 0
  BY <1>2
<1>6. Fields(k) BY <1>2, <1>5 DEF Fields
<1>7. Controller(k) BY <1>1, <1>3, <1>4, <1>5, <1>6 DEF Controller
<1> QED BY <1>5, <1>7 DEF k, M

(* No rate is above one. *)
LEMMA RateAtMostOne ==
  ASSUME NEW k, Controller(k), NEW i \in 1 .. k.max
  PROVE  Dft!Rate(k, i) <= 1000
<1> DEFINE A == k.accepted
           R == k.reached
           M == k.max
           a == A[i]
           r == R[i]
<1>1. A \in [1 .. M -> Nat] /\ R \in [1 .. M -> Nat] /\ \A j \in 1 .. M : A[j] <= R[j] BY DEF Controller
<1>2. Dft!Rate(k, i) = ((a + 1000) * 1000) \div (r + 2000) BY DEF Dft!Rate
<1>3. i \in 1 .. M OBVIOUS
<1> HIDE DEF A, R, M
<1>4. a \in Nat /\ r \in Nat /\ a <= r BY <1>1, <1>3
<1> HIDE DEF a, r
<1> DEFINE up == (a + 1000) * 1000
           d == r + 2000
<1>5. up \in Nat /\ d \in Nat /\ d > 0 /\ up <= 1000 * d BY <1>4
<1> HIDE DEF up, d
<1> DEFINE w == up \div d
<1>6. w \in Nat /\ d * w <= up BY <1>5, DivNat
<1>7. w <= 1000
  <2> HIDE DEF w
  <2> SUFFICES ASSUME w >= 1001 PROVE FALSE BY <1>6
  <2>1. (w - 1001) * d >= 0 BY <1>5, <1>6
  <2>2. (w - 1001) * d = d * w - 1001 * d BY <1>5, <1>6
  <2>3. d * w \in Nat BY <1>5, <1>6
  <2> QED BY <1>5, <1>6, <2>1, <2>2, <2>3
<1> QED BY <1>2, <1>7 DEF w, up, d

-----------------------------------------------------------------------------
(* Their behaviours.                                                       *)

(* A lookup draft is what followed the latest of the longest repetitions   *)
(* of the context's end, and there is one where anything repeats, in any   *)
(* context and with any settings (PromptLookup::lookup).                   *)
THEOREM LookupsAlwaysFollow == MCSpec => []LookupsFollow
<1>1. MCInit => LookupsFollow BY DEF MCInit, LookupsFollow
<1>2. LookupsFollow /\ [MCNext]_<<which, vars, decisionVars, asked, lengthVars>> => LookupsFollow'
  <2> SUFFICES ASSUME LookupsFollow, [MCNext]_<<which, vars, decisionVars, asked, lengthVars>>
               PROVE  LookupsFollow'
    OBVIOUS
  <2>1. CASE Ask
    <3>1. PICK context \in Contexts, s \in Settings, max \in 0 .. K :
            asked' = {[context |-> context, cfg |-> Dft!Lookup(s.least, s.most, s.size, s.window), max |-> max,
                       found |-> Dft!Proposal(Dft!Lookup(s.least, s.most, s.size, s.window), context, max)]}
      BY <2>1 DEF Ask
    <3> DEFINE cfg == Dft!Lookup(s.least, s.most, s.size, s.window)
               found == Dft!Proposal(cfg, context, max)
               a == [context |-> context, cfg |-> cfg, max |-> max, found |-> found]
    <3>2. context \in Seq(Vocab) /\ s.least \in Nat /\ s.most \in Nat /\ s.size \in Nat /\ s.window \in Nat
      BY DraftingAssumption
    <3>3. max \in Nat BY SpecAssumption
    <3>4. IF max = 0 \/ NothingRepeats(context, cfg) THEN found = <<>>
          ELSE \E j \in 1 .. Len(context) - 1, n \in cfg.min .. cfg.max :
                 Follows(found, context, cfg, max, j, n)
      BY <3>2, <3>3, ProposalFollows
    <3> HIDE DEF cfg, found
    <3>5. a.context = context /\ a.cfg = cfg /\ a.max = max /\ a.found = found OBVIOUS
    <3>6. asked' = {a} BY <3>1 DEF cfg, found
    <3> HIDE DEF a
    <3> QED BY <3>4, <3>5, <3>6 DEF LookupsFollow
  <2>2. CASE UNCHANGED asked BY <2>2 DEF LookupsFollow
  <2> QED BY <2>1, <2>2 DEF MCNext, Seen
<1> QED BY <1>1, <1>2, PTL DEF MCSpec

(* Zeros in a row are at most the controller's idle rounds. *)
LengthsInv ==
  /\ Controller(ctl)
  /\ pick \in 0 .. ctl.max
  /\ ~ctl.on => pick = ctl.max
  /\ dry \in 0 .. ctl.idle

(* A round keeps this. *)
LEMMA AdaptKeeps ==
  ASSUME LengthsInv, Adapt
  PROVE  LengthsInv'
<1> DEFINE h == Dft!Get(ctl)[2]
<1>1. pick' = Dft!Get(ctl)[1] /\ dry' = IF pick' = 0 THEN dry + 1 ELSE 0 BY DEF Adapt
<1>2. Controller(ctl) /\ dry \in 0 .. ctl.idle BY DEF LengthsInv
<1>3. /\ SameLimits(ctl, h) /\ pick' \in 0 .. ctl.max
      /\ ~ctl.on => pick' = ctl.max
      /\ pick' = 0 => h.idle = ctl.idle + 1
  BY <1>1, <1>2, GetKeeps
<1> DEFINE Recorded(allowed) ==
             \E drafted \in 0 .. allowed : \E kept \in 0 .. drafted :
               \E draftTime \in IF allowed = 0 THEN {0} ELSE Times : \E fwdTime \in Times :
                 ctl' = Dft!Update(h, drafted, kept, draftTime, fwdTime)
<1>4. PICK allowed \in 0 .. pick' : Recorded(allowed) BY <1>1 DEF Adapt
<1> HIDE DEF h
<1>5. PICK drafted \in 0 .. allowed :
        \E kept \in 0 .. drafted : \E draftTime \in IF allowed = 0 THEN {0} ELSE Times :
          \E fwdTime \in Times : ctl' = Dft!Update(h, drafted, kept, draftTime, fwdTime)
  BY <1>4
<1>6. PICK kept \in 0 .. drafted, draftTime \in IF allowed = 0 THEN {0} ELSE Times, fwdTime \in Times :
        ctl' = Dft!Update(h, drafted, kept, draftTime, fwdTime)
  BY <1>5
<1>7. draftTime \in Nat /\ fwdTime \in Nat BY DraftingAssumption
<1>8. Controller(h) /\ h.max = ctl.max /\ h.on = ctl.on BY <1>3 DEF SameLimits
<1>9. ctl.max \in Nat /\ ctl.idle \in Nat /\ h.idle \in Nat
  BY <1>2, <1>8, DraftingAssumption DEF Controller
<1>10. drafted \in 0 .. h.max BY <1>3, <1>8, <1>9
<1>11. SameLimits(h, ctl') /\ ctl'.idle = h.idle BY <1>6, <1>7, <1>8, <1>10, UpdateKeeps
<1>12. Controller(ctl') /\ ctl'.max = ctl.max /\ ctl'.on = ctl.on BY <1>8, <1>11 DEF SameLimits
<1>13. dry' \in 0 .. ctl'.idle
  <2>1. CASE pick' = 0 BY <1>1, <1>2, <1>3, <1>9, <1>11, <2>1
  <2>2. CASE pick' # 0 BY <1>1, <1>9, <1>11, <2>2
  <2> QED BY <2>1, <2>2
<1> QED BY <1>3, <1>12, <1>13 DEF LengthsInv, Controller, Fields

(* Whatever was accepted and however long it took, an adaptive length      *)
(* stays within its bounds and drafts are tried again within ProbeEvery    *)
(* rounds; no depth's rate is above one (AdaptiveK).                       *)
THEOREM LengthsAlwaysPaced == MCSpec => []LengthsPaced
<1>1. MCInit => LengthsInv
  <2> SUFFICES ASSUME MCInit PROVE LengthsInv OBVIOUS
  <2>1. PICK max \in 0 .. K, on \in BOOLEAN : ctl = Dft!NewK(max, on) BY DEF MCInit
  <2>2. max \in Nat BY SpecAssumption
  <2>3. Controller(ctl) BY <2>1, <2>2, NewKeeps
  <2>4. ctl.max \in Nat /\ ctl.idle \in Nat BY <2>3, DraftingAssumption DEF Controller
  <2>5. pick = ctl.max /\ dry = 0 BY DEF MCInit
  <2> QED BY <2>3, <2>4, <2>5 DEF LengthsInv
<1>2. LengthsInv /\ [MCNext]_<<which, vars, decisionVars, asked, lengthVars>> => LengthsInv'
  <2> SUFFICES ASSUME LengthsInv, [MCNext]_<<which, vars, decisionVars, asked, lengthVars>>
               PROVE  LengthsInv'
    OBVIOUS
  <2>1. CASE Adapt BY <2>1, AdaptKeeps
  <2>2. CASE UNCHANGED lengthVars BY <2>2 DEF LengthsInv, lengthVars, Controller, Fields
  <2> QED BY <2>1, <2>2 DEF MCNext, Seen
<1>3. LengthsInv => LengthsPaced
  <2> SUFFICES ASSUME LengthsInv PROVE LengthsPaced OBVIOUS
  <2>1. /\ Controller(ctl) /\ pick \in 0 .. ctl.max /\ dry \in 0 .. ctl.idle
        /\ ~ctl.on => pick = ctl.max
    BY DEF LengthsInv
  <2>2. dry < ProbeEvery
    <3>1. ctl.idle \in 0 .. ProbeEvery - 1 BY <2>1 DEF Controller
    <3> QED BY <2>1, <3>1, DraftingAssumption
  <2>3. \A i \in 1 .. ctl.max : Dft!Rate(ctl, i) <= 1000 BY <2>1, RateAtMostOne
  <2> QED BY <2>1, <2>2, <2>3 DEF LengthsPaced
<1> QED BY <1>1, <1>2, <1>3, PTL DEF MCSpec

(* What the run checks of drafting, for all of its inputs. *)
THEOREM DraftsAlwaysTrue == MCSpec => []DraftsTrue
<1>1. LookupsFollow /\ LengthsPaced => DraftsTrue BY DEF DraftsTrue
<1> QED BY <1>1, LookupsAlwaysFollow, LengthsAlwaysPaced, PTL

-----------------------------------------------------------------------------
(* The sampler.                                                            *)
CONSTANTS NaN, Inf, NegInf, Peak, Steps, TopBlock, SmallK, DrawBlock, Band, Stamps   \* of Sampler
Smp == INSTANCE Sampler

(* Every fold over a finite set has a value.                               *)
Folds(it, S, base, step) ==
  \A T \in SUBSET S : it[T] = IF T = {} THEN base ELSE step[<<Pick(T), it[T \ {Pick(T)}]>>]

(* Such a fold exists, one part of S at a time.                            *)
LEMMA FoldsExist ==
  ASSUME NEW S, IsFiniteSet(S), NEW X, NEW base \in X, NEW step,
         \A x \in S, a \in X : step[<<x, a>>] \in X
  PROVE  \E it \in [SUBSET S -> X] : Folds(it, S, base, step)
<1> DEFINE Upto(n) == {T \in SUBSET S : Cardinality(T) <= n}
           Right(it, T) == it[T] = IF T = {} THEN base ELSE step[<<Pick(T), it[T \ {Pick(T)}]>>]
           Folded(n) == \E it \in [Upto(n) -> X] : \A T \in Upto(n) : Right(it, T)
<1>1. \A T \in SUBSET S : IsFiniteSet(T) /\ Cardinality(T) \in Nat
  BY FS_Subset, FS_CardinalityType
<1>2. \A T \in SUBSET S : T # {} =>
        /\ Pick(T) \in T /\ Pick(T) \in S
        /\ T \ {Pick(T)} \in SUBSET S
        /\ Cardinality(T \ {Pick(T)}) = Cardinality(T) - 1 /\ Cardinality(T) > 0
  <2> SUFFICES ASSUME NEW T \in SUBSET S, T # {}
               PROVE  /\ Pick(T) \in T /\ Pick(T) \in S
                      /\ T \ {Pick(T)} \in SUBSET S
                      /\ Cardinality(T \ {Pick(T)}) = Cardinality(T) - 1 /\ Cardinality(T) > 0
    OBVIOUS
  <2>1. Pick(T) \in T BY DEF Pick
  <2>2. IsFiniteSet(T) /\ Cardinality(T) \in Nat BY <1>1
  <2>3. Cardinality(T \ {Pick(T)}) = Cardinality(T) - 1 BY <2>1, <2>2, FS_RemoveElement
  <2>4. Cardinality(T \ {Pick(T)}) \in Nat BY <1>1
  <2> QED BY <2>1, <2>2, <2>3, <2>4
<1>3. Folded(0)
  <2> DEFINE it == [T \in Upto(0) |-> base]
  <2>1. \A T \in Upto(0) : T = {}
    <3> SUFFICES ASSUME NEW T \in Upto(0), T # {} PROVE FALSE OBVIOUS
    <3>1. Cardinality(T) > 0 /\ Cardinality(T) \in Nat /\ Cardinality(T) <= 0 BY <1>1, <1>2
    <3> QED BY <3>1
  <2>2. \A T \in Upto(0) : Right(it, T) BY <2>1
  <2> QED BY <2>2
<1>4. ASSUME NEW n \in Nat, Folded(n) PROVE Folded(n + 1)
  <2>1. PICK it \in [Upto(n) -> X] : \A T \in Upto(n) : Right(it, T) BY <1>4
  <2> DEFINE more == [T \in Upto(n + 1) |-> IF T = {} THEN base ELSE step[<<Pick(T), it[T \ {Pick(T)}]>>]]
  <2>2. ASSUME NEW T \in Upto(n + 1), T # {}
        PROVE  /\ T \ {Pick(T)} \in Upto(n) /\ T \ {Pick(T)} \in Upto(n + 1)
               /\ more[T] = step[<<Pick(T), it[T \ {Pick(T)}]>>] /\ more[T] \in X
    <3>1. T \ {Pick(T)} \in SUBSET S /\ Cardinality(T \ {Pick(T)}) <= n BY <1>1, <1>2, <2>2
    <3>2. T \ {Pick(T)} \in Upto(n) /\ T \ {Pick(T)} \in Upto(n + 1) BY <3>1, <1>1
    <3>3. it[T \ {Pick(T)}] \in X BY <2>1, <3>2
    <3>4. Pick(T) \in S BY <1>2, <2>2
    <3>5. more[T] = step[<<Pick(T), it[T \ {Pick(T)}]>>] BY <2>2
    <3> QED BY <3>2, <3>3, <3>4, <3>5
  <2>3. ASSUME NEW T \in Upto(n) PROVE T \in Upto(n + 1) /\ more[T] = it[T]
    <3>1. T \in Upto(n + 1) BY <1>1
    <3>2. Right(it, T) BY <2>1
    <3> QED BY <3>1, <3>2
  <2>4. more \in [Upto(n + 1) -> X]
    <3>1. \A T \in Upto(n + 1) : more[T] \in X BY <2>2
    <3> QED BY <3>1
  <2>5. ASSUME NEW T \in Upto(n + 1) PROVE Right(more, T)
    <3>1. CASE T = {} BY <3>1
    <3>2. CASE T # {}
      <4>1. more[T \ {Pick(T)}] = it[T \ {Pick(T)}] BY <2>2, <2>3, <3>2
      <4> QED BY <2>2, <3>2, <4>1
    <3> QED BY <3>1, <3>2
  <2> HIDE DEF more, Upto
  <2> QED BY <2>4, <2>5
<1>5. \A n \in Nat : Folded(n)
  <2> SUFFICES ASSUME \E n \in Nat : ~Folded(n) PROVE FALSE OBVIOUS
  <2> HIDE DEF Folded
  <2>1. PICK m \in {n \in Nat : ~Folded(n)} : \A k \in {n \in Nat : ~Folded(n)} : m <= k
    BY LeastNat
  <2>2. m \in Nat /\ m # 0 BY <1>3, <2>1
  <2>3. PICK k \in Nat : m = k + 1 BY <2>2
  <2>4. Folded(k) BY <2>1, <2>3
  <2> QED BY <1>4, <2>1, <2>3, <2>4
<1>6. \A T \in SUBSET S : Cardinality(T) <= Cardinality(S) BY FS_Subset
<1>7. Upto(Cardinality(S)) = SUBSET S BY <1>6
<1>8. Folded(Cardinality(S)) BY <1>1, <1>5
<1>9. PICK it \in [SUBSET S -> X] : \A T \in SUBSET S : Right(it, T)
  <2> HIDE DEF Upto
  <2> QED BY <1>7, <1>8
<1> QED BY <1>9 DEF Folds

(* Two folds of the same steps agree.                                      *)
LEMMA FoldsAgree ==
  ASSUME NEW S, IsFiniteSet(S), NEW base, NEW step, NEW f, NEW g,
         Folds(f, S, base, step), Folds(g, S, base, step)
  PROVE  \A T \in SUBSET S : f[T] = g[T]
<1> DEFINE G == {T \in SUBSET S : f[T] = g[T]}
<1>1. {} \in G BY DEF Folds
<1>2. ASSUME NEW T \in SUBSET S, \A x \in T : T \ {x} \in G PROVE T \in G
  <2>1. CASE T = {} BY <1>1, <2>1
  <2>2. CASE T # {}
    <3>1. Pick(T) \in T BY <2>2 DEF Pick
    <3>2. f[T \ {Pick(T)}] = g[T \ {Pick(T)}] BY <1>2, <3>1
    <3> QED BY <2>2, <3>2 DEF Folds
  <2> QED BY <2>1, <2>2
<1> HIDE DEF G
<1>3. G \in SUBSET SUBSET S BY DEF G
<1>4. \A T \in SUBSET S : T \in G BY <1>1, <1>2, <1>3, Subsets
<1> QED BY <1>4 DEF G

-----------------------------------------------------------------------------
(* The penalties' memory: stamps of earlier calls are older than this      *)
(* call's, or zero.                                                        *)
Mem == [stamp : Seq(Nat), count : Seq(Nat), gen : Nat]
Sound(m) ==
  /\ m \in Mem /\ Len(m.stamp) = Len(m.count)
  /\ \A t \in DOMAIN m.stamp : m.stamp[t] <= m.gen
  /\ m.gen < Stamps \/ m.gen = 1

(* m and after it have seen the tokens at the positions T of part.         *)
Uses(part, T, t) == Cardinality({i \in T : part[i] = t})
Took(m, vocab, part, T, counted, r) ==
  /\ r \in Mem /\ r.gen = m.gen /\ Len(r.stamp) = Len(m.stamp) /\ Len(r.count) = Len(m.count)
  /\ \A t \in 1 .. Len(m.stamp) :
       IF t > vocab \/ Uses(part, T, t) = 0 THEN r.stamp[t] = m.stamp[t] /\ r.count[t] = m.count[t]
       ELSE /\ r.stamp[t] = m.gen
            /\ r.count[t] = (IF m.stamp[t] = m.gen THEN m.count[t] ELSE 0)
                              + (IF counted = 1 THEN Uses(part, T, t) ELSE 0)

(* Uses are counted one position at a time.                                *)
LEMMA UsesMore ==
  ASSUME NEW part, NEW T, IsFiniteSet(T), NEW t
  PROVE  /\ Uses(part, T, t) \in Nat /\ Uses(part, {}, t) = 0
         /\ \A at \in T : Uses(part, T, t) = Uses(part, T \ {at}, t) + IF part[at] = t THEN 1 ELSE 0
<1> DEFINE U == {i \in T : part[i] = t}
<1>1. IsFiniteSet(U) BY FS_Subset
<1>2. Cardinality(U) \in Nat BY <1>1, FS_CardinalityType
<1>3. {i \in {} : part[i] = t} = {} OBVIOUS
<1>4. Uses(part, {}, t) = 0 BY <1>3, FS_EmptySet DEF Uses
<1>5. ASSUME NEW at \in T PROVE Uses(part, T, t) = Uses(part, T \ {at}, t) + IF part[at] = t THEN 1 ELSE 0
  <2> DEFINE V == {i \in T \ {at} : part[i] = t}
  <2>1. CASE part[at] = t
    <3>1. at \in U /\ V = U \ {at} BY <2>1
    <3> HIDE DEF U, V
    <3>2. Cardinality(V) = Cardinality(U) - 1 BY <1>1, <3>1, FS_RemoveElement
    <3> QED BY <1>2, <2>1, <3>2 DEF U, V, Uses
  <2>2. CASE part[at] # t
    <3>1. V = U BY <2>2
    <3> HIDE DEF U, V
    <3> QED BY <1>2, <2>2, <3>1 DEF U, V, Uses
  <2> QED BY <2>1, <2>2
<1> QED BY <1>2, <1>4, <1>5 DEF Uses

(* A function on 1 .. n is a sequence of n.                                *)
LEMMA SequenceIs ==
  ASSUME NEW n \in Nat, NEW s \in [1 .. n -> Nat]
  PROVE  s \in Seq(Nat) /\ Len(s) = n
OBVIOUS

(* What one token does to the memory.                                      *)
Marked(vocab, counted, t, r) ==
  IF t > vocab THEN r
  ELSE LET old == IF r.stamp[t] = r.gen THEN r.count[t] ELSE 0 IN
       [r EXCEPT !.stamp[t] = r.gen, !.count[t] = old + counted]
(* Memories of one size and generation.                                    *)
Like(m) == {r \in Mem : r.gen = m.gen /\ Len(r.stamp) = Len(m.stamp) /\ Len(r.count) = Len(m.stamp)}

(* Token t has been marked in r, and only it.                              *)
OneMarked(m, vocab, counted, t, r, after) ==
  /\ after \in Like(m)
  /\ \A s \in 1 .. Len(m.stamp) :
       /\ after.stamp[s] = IF s = t /\ t <= vocab THEN m.gen ELSE r.stamp[s]
       /\ after.count[s] = IF s = t /\ t <= vocab
                           THEN (IF r.stamp[s] = m.gen THEN r.count[s] ELSE 0) + counted ELSE r.count[s]

(* One step of Seen does that.                                             *)
LEMMA MarkedIs ==
  ASSUME NEW m \in Mem, NEW r \in Like(m), NEW vocab \in Nat, vocab <= Len(m.stamp),
         NEW counted \in {0, 1}, NEW t \in Nat \ {0}
  PROVE  OneMarked(m, vocab, counted, t, r, Marked(vocab, counted, t, r))
<1> DEFINE done == Marked(vocab, counted, t, r)
           n == Len(m.stamp)
           old == IF r.stamp[t] = r.gen THEN r.count[t] ELSE 0
<1>1. r \in Mem /\ r.gen = m.gen /\ r.stamp \in [1 .. n -> Nat] /\ r.count \in [1 .. n -> Nat] /\ n \in Nat
      /\ r.gen \in Nat /\ r = [stamp |-> r.stamp, count |-> r.count, gen |-> r.gen]
  BY DEF Like, Mem
<1>2. CASE t > vocab
  <2>1. done = r BY <1>2 DEF Marked
  <2>2. \A s \in 1 .. n : s = t /\ t <= vocab => FALSE BY <1>2
  <2> QED BY <2>1, <2>2 DEF OneMarked
<1>3. CASE ~(t > vocab)
  <2>1. t \in 1 .. n /\ t <= vocab BY <1>1, <1>3
  <2>2. done = [r EXCEPT !.stamp[t] = r.gen, !.count[t] = old + counted] BY <1>3 DEF Marked
  <2>3. old \in Nat BY <1>1, <2>1
  <2>4. /\ done.stamp = [r.stamp EXCEPT ![t] = r.gen] /\ done.count = [r.count EXCEPT ![t] = old + counted]
        /\ done.gen = r.gen /\ done = [stamp |-> done.stamp, count |-> done.count, gen |-> done.gen]
    <3> HIDE DEF done, old, n
    <3> QED BY <1>1, <2>2
  <2> HIDE DEF done
  <2>5. old + counted \in Nat BY <2>3
  <2>6. done.stamp \in [1 .. n -> Nat] /\ done.count \in [1 .. n -> Nat]
    <3> HIDE DEF old, n
    <3> QED BY <1>1, <2>4, <2>5
  <2>7. done.stamp \in Seq(Nat) /\ done.count \in Seq(Nat) /\ Len(done.stamp) = n /\ Len(done.count) = n
    <3> HIDE DEF n
    <3>1. n \in Nat BY <1>1
    <3> QED BY <2>6, <3>1, SequenceIs
  <2>8. done \in Like(m)
    <3> HIDE DEF n
    <3>1. done \in Mem BY <1>1, <2>4, <2>7 DEF Mem
    <3> QED BY <1>1, <2>4, <2>7, <3>1 DEF Like, n
  <2>9. ASSUME NEW s \in 1 .. n
        PROVE  /\ done.stamp[s] = IF s = t /\ t <= vocab THEN m.gen ELSE r.stamp[s]
               /\ done.count[s] = IF s = t /\ t <= vocab
                               THEN (IF r.stamp[s] = m.gen THEN r.count[s] ELSE 0) + counted ELSE r.count[s]
    <3>1. CASE s = t
      <4>1. done.stamp[s] = m.gen /\ done.count[s] = old + counted
        <5> HIDE DEF old, n
        <5> QED BY <1>1, <2>1, <2>4, <3>1
      <4> QED BY <1>1, <2>1, <3>1, <4>1
    <3>2. CASE s # t
      <4> HIDE DEF old, n
      <4> QED BY <1>1, <2>1, <2>4, <3>2
    <3> QED BY <3>1, <3>2
  <2> QED BY <2>8, <2>9 DEF done, OneMarked
<1> QED BY <1>2, <1>3

(* Seen marks the tokens of its part, in whatever order.                   *)
LEMMA SeenIs ==
  ASSUME NEW m \in Mem, Len(m.count) = Len(m.stamp), NEW vocab \in Nat, vocab <= Len(m.stamp),
         NEW part \in Seq(Nat \ {0}), NEW counted \in {0, 1}
  PROVE  Took(m, vocab, part, DOMAIN part, counted, Smp!Seen(m, vocab, part, counted))
<1> DEFINE S == DOMAIN part
           X == Like(m)
           step == [z \in S \X X |-> Marked(vocab, counted, part[z[1]], z[2])]
           value(it) == [T \in SUBSET S |->
                           IF T = {} THEN m ELSE Marked(vocab, counted, part[Pick(T)], it[T \ {Pick(T)}])]
           run == CHOOSE it : it = value(it)
<1>1. Smp!Seen(m, vocab, part, counted) = run[S]
  BY DEF Smp!Seen, Smp!FoldSeq, Smp!FoldFunction, Smp!FoldFunctionOnSet, Smp!MapThenFoldSet, Pick, Marked
<1>2. IsFiniteSet(S)
  <2>1. S = 1 .. Len(part) /\ Len(part) \in Nat OBVIOUS
  <2> HIDE DEF S
  <2> QED BY <2>1, FS_Interval
<1>3. m \in X BY DEF Like
<1>4. ASSUME NEW x \in S, NEW a \in X
      PROVE  step[<<x, a>>] = Marked(vocab, counted, part[x], a) /\ step[<<x, a>>] \in X /\ part[x] \in Nat \ {0}
  <2>1. part[x] \in Nat \ {0} OBVIOUS
  <2>2. <<x, a>> \in S \X X OBVIOUS
  <2>3. step[<<x, a>>] = Marked(vocab, counted, part[x], a) BY <2>2
  <2> HIDE DEF S, X, step
  <2>4. OneMarked(m, vocab, counted, part[x], a, Marked(vocab, counted, part[x], a)) BY <2>1, MarkedIs DEF X
  <2>5. Marked(vocab, counted, part[x], a) \in Like(m) BY <2>4 DEF OneMarked
  <2> QED BY <2>1, <2>3, <2>5 DEF X
<1> HIDE DEF step, value, run
<1>5. PICK it \in [SUBSET S -> X] : Folds(it, S, m, step)
  <2> HIDE DEF S, X
  <2> QED BY <1>2, <1>3, <1>4, FoldsExist
<1>6. \A T \in SUBSET S : T # {} => Pick(T) \in T /\ Pick(T) \in S /\ T \ {Pick(T)} \in SUBSET S BY DEF Pick
<1>7. it = value(it)
  <2> DEFINE v == value(it)
  <2>1. ASSUME NEW T \in SUBSET S PROVE v[T] = it[T]
    <3>1. CASE T = {} BY <1>5, <3>1 DEF Folds, value
    <3>2. CASE T # {}
      <4>1. Pick(T) \in S /\ T \ {Pick(T)} \in SUBSET S BY <1>6, <3>2
      <4>2. it[T \ {Pick(T)}] \in X
        <5> HIDE DEF X, S
        <5> QED BY <1>5, <4>1
      <4>3. it[T] = step[<<Pick(T), it[T \ {Pick(T)}]>>] BY <1>5, <3>2 DEF Folds
      <4>4. v[T] = Marked(vocab, counted, part[Pick(T)], it[T \ {Pick(T)}]) BY <3>2 DEF value
      <4> HIDE DEF v, X, S
      <4> QED BY <1>4, <4>1, <4>2, <4>3, <4>4
    <3> QED BY <3>1, <3>2
  <2>2. it = [T \in SUBSET S |-> it[T]] /\ v = [T \in SUBSET S |-> v[T]] BY <1>5 DEF value
  <2> HIDE DEF v, S, X
  <2>3. it = v BY <2>1, <2>2
  <2> QED BY <2>3 DEF v
<1>8. run = value(run) BY <1>7 DEF run
<1>9. ASSUME NEW T \in SUBSET S
      PROVE  run[T] = IF T = {} THEN m ELSE Marked(vocab, counted, part[Pick(T)], run[T \ {Pick(T)}])
  BY <1>8 DEF value
<1> DEFINE G == {T \in SUBSET S : run[T] \in X /\ Took(m, vocab, part, T, counted, run[T])}
<1>10. {} \in G
  <2>1. run[{}] = m BY <1>9
  <2>2. \A t : Uses(part, {}, t) = 0 BY UsesMore, FS_EmptySet
  <2> HIDE DEF run
  <2> QED BY <1>3, <2>1, <2>2 DEF Took
<1>11. ASSUME NEW T \in SUBSET S, \A x \in T : T \ {x} \in G PROVE T \in G
  <2>1. CASE T = {} BY <1>10, <2>1
  <2>2. CASE T # {}
    <3> DEFINE at == Pick(T)
               U == T \ {at}
               r == run[U]
               done == run[T]
               t0 == part[at]
    <3>1. at \in T /\ at \in S /\ U \in SUBSET S BY <1>6, <2>2
    <3>2. r \in X /\ Took(m, vocab, part, U, counted, r) BY <1>11, <3>1
    <3>3. done = Marked(vocab, counted, t0, r) BY <1>9, <2>2
    <3>4. t0 \in Nat \ {0}
      <4> HIDE DEF S, at, X
      <4> QED BY <1>3, <1>4, <3>1
    <3>5. IsFiniteSet(T) BY <1>2, FS_Subset
    <3>6. ASSUME NEW t PROVE /\ Uses(part, T, t) = Uses(part, U, t) + (IF t0 = t THEN 1 ELSE 0)
                             /\ Uses(part, U, t) \in Nat
      <4>1. IsFiniteSet(U) BY <3>5, FS_Subset
      <4> HIDE DEF U
      <4>2. Uses(part, U, t) \in Nat BY <4>1, UsesMore
      <4>3. at \in T BY <3>1
      <4>4. \A x \in T : Uses(part, T, t) = Uses(part, T \ {x}, t) + IF part[x] = t THEN 1 ELSE 0
        BY <3>5, UsesMore
      <4> HIDE DEF at
      <4> QED BY <4>2, <4>3, <4>4 DEF U
    <3> HIDE DEF at, U, done, r, t0
    <3>7. r \in Like(m) BY <3>2
    <3>8. /\ done \in Like(m)
          /\ \A s \in 1 .. Len(m.stamp) :
               /\ done.stamp[s] = IF s = t0 /\ t0 <= vocab THEN m.gen ELSE r.stamp[s]
               /\ done.count[s] = IF s = t0 /\ t0 <= vocab
                               THEN (IF r.stamp[s] = m.gen THEN r.count[s] ELSE 0) + counted ELSE r.count[s]
      <4>1. OneMarked(m, vocab, counted, t0, r, Marked(vocab, counted, t0, r))
        <5> HIDE DEF X
        <5> QED BY <3>4, <3>7, MarkedIs
      <4>2. done = Marked(vocab, counted, t0, r) BY <3>3
      <4>3. OneMarked(m, vocab, counted, t0, r, done) BY <4>1, <4>2
      <4> QED BY <4>3 DEF OneMarked
    <3>9. done \in Mem /\ done.gen = m.gen /\ Len(done.stamp) = Len(m.stamp) /\ Len(done.count) = Len(m.count)
      BY <3>8 DEF Like
    <3>10. ASSUME NEW t \in 1 .. Len(m.stamp)
           PROVE  IF t > vocab \/ Uses(part, T, t) = 0 THEN done.stamp[t] = m.stamp[t] /\ done.count[t] = m.count[t]
                  ELSE /\ done.stamp[t] = m.gen
                       /\ done.count[t] = (IF m.stamp[t] = m.gen THEN m.count[t] ELSE 0)
                                         + (IF counted = 1 THEN Uses(part, T, t) ELSE 0)
      <4>1. IF t > vocab \/ Uses(part, U, t) = 0 THEN r.stamp[t] = m.stamp[t] /\ r.count[t] = m.count[t]
            ELSE /\ r.stamp[t] = m.gen
                 /\ r.count[t] = (IF m.stamp[t] = m.gen THEN m.count[t] ELSE 0)
                                   + (IF counted = 1 THEN Uses(part, U, t) ELSE 0)
        BY <3>2 DEF Took
      <4>2. PICK u \in Nat : u = Uses(part, U, t) BY <3>6
      <4>3. Uses(part, T, t) = u + (IF t0 = t THEN 1 ELSE 0) BY <3>6, <4>2
      <4>4. m.count[t] \in Nat BY DEF Mem
      <4> DEFINE old == IF m.stamp[t] = m.gen THEN m.count[t] ELSE 0
      <4>5. old \in Nat BY <4>4
      <4>6. t \in Nat OBVIOUS
      <4>7. CASE t > vocab
        <5>1. ~(t = t0 /\ t0 <= vocab) BY <4>6, <4>7
        <5> QED BY <3>8, <4>1, <4>7, <5>1
      <4>8. CASE ~(t > vocab) /\ t # t0 BY <3>8, <4>1, <4>2, <4>3, <4>8
      <4>9. CASE ~(t > vocab) /\ t = t0
        <5>1. t0 <= vocab BY <4>6, <4>9
        <5>2. done.stamp[t] = m.gen /\ done.count[t] = (IF r.stamp[t] = m.gen THEN r.count[t] ELSE 0) + counted
          BY <3>8, <4>9, <5>1
        <5>3. Uses(part, T, t) = u + 1 /\ Uses(part, T, t) # 0 BY <4>2, <4>3, <4>9
        <5>4. CASE u = 0
          <6>1. (IF r.stamp[t] = m.gen THEN r.count[t] ELSE 0) = old BY <4>1, <4>2, <5>4
          <6>2. counted = IF counted = 1 THEN u + 1 ELSE 0 BY <5>4
          <6> HIDE DEF old
          <6>3. done.count[t] = old + IF counted = 1 THEN Uses(part, T, t) ELSE 0 BY <5>2, <5>3, <6>1, <6>2
          <6> QED BY <4>9, <5>2, <5>3, <6>3 DEF old
        <5>5. CASE u # 0
          <6>1. r.stamp[t] = m.gen /\ r.count[t] = old + (IF counted = 1 THEN u ELSE 0) BY <4>1, <4>2, <4>9, <5>5
          <6> HIDE DEF old
          <6>2. done.count[t] = (old + (IF counted = 1 THEN u ELSE 0)) + counted BY <5>2, <6>1
          <6>3. (old + (IF counted = 1 THEN u ELSE 0)) + counted = old + IF counted = 1 THEN u + 1 ELSE 0
            BY <4>5
          <6>4. done.count[t] = old + IF counted = 1 THEN Uses(part, T, t) ELSE 0 BY <5>3, <6>2, <6>3
          <6> QED BY <4>9, <5>2, <5>3, <6>4 DEF old
        <5> QED BY <5>4, <5>5
      <4> QED BY <4>7, <4>8, <4>9
    <3>11. Took(m, vocab, part, T, counted, done) BY <3>9, <3>10 DEF Took
    <3> QED BY <3>8, <3>11 DEF done
  <2> QED BY <2>1, <2>2
<1> HIDE DEF G, S
<1>12. G \in SUBSET SUBSET S BY DEF G
<1>13. S \in G BY <1>2, <1>10, <1>11, <1>12, Subsets
<1> QED BY <1>1, <1>13 DEF G, S

(* A sequence extended by zeros.                                           *)
LEMMA ZerosAppended ==
  ASSUME NEW s \in Seq(Nat), NEW n \in Nat, n > Len(s)
  PROVE  LET w == s \o [i \in 1 .. n - Len(s) |-> 0] IN
         /\ w \in Seq(Nat) /\ Len(w) = n
         /\ \A t \in 1 .. n : w[t] = IF t <= Len(s) THEN s[t] ELSE 0
<1> DEFINE z == [i \in 1 .. n - Len(s) |-> 0]
<1>1. Len(s) \in Nat /\ n - Len(s) \in Nat OBVIOUS
<1>2. z \in [1 .. n - Len(s) -> Nat] OBVIOUS
<1>3. z \in Seq(Nat) /\ Len(z) = n - Len(s)
  <2> HIDE DEF z
  <2> QED BY <1>1, <1>2, SequenceIs
<1>4. \A i \in 1 .. n - Len(s) : z[i] = 0 OBVIOUS
<1> HIDE DEF z
<1>5. s \o z \in Seq(Nat) /\ Len(s \o z) = n BY <1>1, <1>3
<1>6. \A t \in 1 .. n : (s \o z)[t] = IF t <= Len(s) THEN s[t] ELSE 0 BY <1>1, <1>3, <1>4
<1> QED BY <1>5, <1>6 DEF z

(* A memory is grown to the vocabulary.                                    *)
LEMMA GrownIs ==
  ASSUME NEW m, Sound(m), NEW vocab \in Nat
  PROVE  Sound(Smp!Grown(m, vocab)) /\ vocab <= Len(Smp!Grown(m, vocab).stamp)
<1> DEFINE g == Smp!Grown(m, vocab)
           pad(s) == s \o [i \in 1 .. vocab - Len(s) |-> 0]
<1>1. /\ m \in Mem /\ m.stamp \in Seq(Nat) /\ m.count \in Seq(Nat) /\ m.gen \in Nat
      /\ Len(m.stamp) = Len(m.count) /\ Len(m.stamp) \in Nat
  BY DEF Sound, Mem
<1>2. CASE Len(m.stamp) < vocab
  <2>1. g = [m EXCEPT !.stamp = pad(m.stamp), !.count = pad(m.count)] BY <1>2 DEF Smp!Grown
  <2>2. /\ pad(m.stamp) \in Seq(Nat) /\ Len(pad(m.stamp)) = vocab
        /\ \A t \in 1 .. vocab : pad(m.stamp)[t] = IF t <= Len(m.stamp) THEN m.stamp[t] ELSE 0
    BY <1>1, <1>2, ZerosAppended
  <2>3. pad(m.count) \in Seq(Nat) /\ Len(pad(m.count)) = vocab BY <1>1, <1>2, ZerosAppended
  <2> HIDE DEF g, pad
  <2>4. g \in Mem /\ g.stamp = pad(m.stamp) /\ g.count = pad(m.count) /\ g.gen = m.gen
    BY <1>1, <2>1, <2>2, <2>3 DEF Mem
  <2>5. ASSUME NEW t \in DOMAIN g.stamp PROVE g.stamp[t] <= g.gen
    <3>1. t \in 1 .. vocab BY <2>2, <2>4
    <3>2. CASE t <= Len(m.stamp)
      <4>1. t \in DOMAIN m.stamp BY <1>1, <3>1, <3>2
      <4> QED BY <2>2, <2>4, <3>1, <3>2, <4>1 DEF Sound
    <3>3. CASE ~(t <= Len(m.stamp))
      <4>1. g.stamp[t] = 0 BY <2>2, <2>4, <3>1, <3>3
      <4> QED BY <1>1, <2>4, <4>1
    <3> QED BY <3>2, <3>3
  <2> QED BY <2>2, <2>3, <2>4, <2>5 DEF Sound, g
<1>3. CASE ~(Len(m.stamp) < vocab)
  <2>1. g = m BY <1>3 DEF Smp!Grown
  <2> QED BY <1>1, <1>3, <2>1
<1> QED BY <1>2, <1>3

(* Remainders.                                                             *)
LEMMA ModIs ==
  ASSUME NEW a \in Nat, NEW b \in Nat \ {0}
  PROVE  a % b \in Nat /\ a % b < b /\ (a < b => a % b = a) /\ (a = b => a % b = 0)
OBVIOUS

(* No stamp is that of the next generation, after a wrap either.           *)
AllOld(m) == Sound(m) /\ \A t \in DOMAIN m.stamp : m.stamp[t] # m.gen

(* However the stamp wraps, a new generation starts with no token seen.    *)
LEMMA NextGenIs ==
  ASSUME Stamps \in Nat \ {0}, NEW m, Sound(m)
  PROVE  AllOld(Smp!NextGen(m)) /\ Len(Smp!NextGen(m).stamp) = Len(m.stamp)
<1> DEFINE g == (m.gen + 1) % Stamps
           r == Smp!NextGen(m)
<1>1. /\ m \in Mem /\ m.stamp \in Seq(Nat) /\ m.count \in Seq(Nat) /\ m.gen \in Nat
      /\ Len(m.stamp) = Len(m.count) /\ Len(m.stamp) \in Nat
      /\ \A t \in DOMAIN m.stamp : m.stamp[t] \in Nat /\ m.stamp[t] <= m.gen
  BY DEF Sound, Mem
<1>2. CASE g = 0
  <2> DEFINE z == [t \in DOMAIN m.stamp |-> 0]
  <2>1. r = [m EXCEPT !.gen = 1, !.stamp = z] BY <1>2 DEF Smp!NextGen
  <2>2. z \in Seq(Nat) /\ Len(z) = Len(m.stamp)
    <3>1. DOMAIN m.stamp = 1 .. Len(m.stamp) BY <1>1
    <3>2. z \in [1 .. Len(m.stamp) -> Nat] BY <3>1
    <3> HIDE DEF z
    <3> QED BY <1>1, <3>2, SequenceIs
  <2>3. \A t \in DOMAIN z : z[t] = 0 OBVIOUS
  <2> HIDE DEF r, z
  <2>4. r \in Mem /\ r.gen = 1 /\ r.stamp = z /\ r.count = m.count BY <1>1, <2>1, <2>2 DEF Mem
  <2>5. Sound(r) BY <1>1, <2>2, <2>3, <2>4 DEF Sound
  <2>6. AllOld(r) BY <2>3, <2>4, <2>5 DEF AllOld
  <2> QED BY <2>2, <2>4, <2>6 DEF r
<1>3. CASE g # 0
  <2>1. m.gen + 1 <= Stamps \/ m.gen = 1 BY <1>1 DEF Sound
  <2>2. /\ g \in Nat /\ g < Stamps /\ (m.gen + 1 < Stamps => g = m.gen + 1)
        /\ (m.gen + 1 = Stamps => g = 0)
    <3>1. m.gen + 1 \in Nat BY <1>1
    <3> QED BY <3>1, ModIs
  <2>3. m.gen < g
    <3> HIDE DEF g
    <3>1. CASE m.gen + 1 < Stamps BY <1>1, <2>2, <3>1
    <3>2. CASE m.gen + 1 = Stamps BY <1>3, <2>2, <3>2
    <3>3. CASE m.gen = 1 /\ Stamps <= 1 BY <1>3, <2>2, <3>3
    <3> QED BY <1>1, <2>1, <3>1, <3>2, <3>3
  <2>4. r = [m EXCEPT !.gen = g] BY <1>3 DEF Smp!NextGen
  <2> HIDE DEF r, g
  <2>5. r \in Mem /\ r.gen = g /\ r.stamp = m.stamp /\ r.count = m.count BY <1>1, <2>2, <2>4 DEF Mem
  <2>6. ASSUME NEW t \in DOMAIN r.stamp PROVE r.stamp[t] <= r.gen /\ r.stamp[t] # r.gen
    <3>1. m.stamp[t] \in Nat /\ m.stamp[t] <= m.gen BY <1>1, <2>5
    <3>2. m.stamp[t] < g BY <1>1, <2>2, <2>3, <3>1
    <3> QED BY <2>2, <2>5, <3>1, <3>2
  <2>7. AllOld(r) BY <1>1, <2>2, <2>5, <2>6 DEF AllOld, Sound
  <2> QED BY <2>5, <2>7 DEF r
<1> QED BY <1>2, <1>3

(* What is left of a sequence behind its first k elements.                 *)
LEMMA RestIs ==
  ASSUME NEW X, NEW s \in Seq(X), NEW k \in Nat
  PROVE  LET r == SubSeq(s, k + 1, Len(s)) IN
         /\ r \in Seq(X) /\ Len(r) = IF k < Len(s) THEN Len(s) - k ELSE 0
         /\ \A i \in 1 .. Len(s) - k : r[i] = s[k + i]
<1> DEFINE r == SubSeq(s, k + 1, Len(s))
<1>0. Len(s) \in Nat OBVIOUS
<1>1. CASE k < Len(s)
  <2>1. k + 1 \in 1 .. Len(s) + 1 /\ Len(s) \in (k + 1) - 1 .. Len(s) BY <1>0, <1>1
  <2>2. /\ r \in Seq(X) /\ Len(r) = IF k + 1 <= Len(s) THEN Len(s) - (k + 1) + 1 ELSE 0
        /\ \A i \in 1 .. Len(s) - (k + 1) + 1 : r[i] = s[(k + 1) + i - 1]
    BY <2>1, SubSeqProperties
  <2> HIDE DEF r
  <2>3. Len(r) = Len(s) - k BY <1>0, <1>1, <2>2
  <2>4. Len(s) - (k + 1) + 1 = Len(s) - k BY <1>0
  <2>5. \A i \in 1 .. Len(s) - k : (k + 1) + i - 1 = k + i BY <1>0
  <2>6. \A i \in 1 .. Len(s) - k : r[i] = s[k + i] BY <2>2, <2>4, <2>5
  <2> QED BY <1>1, <2>2, <2>3, <2>6 DEF r
<1>2. CASE ~(k < Len(s))
  <2>1. k + 1 > Len(s) BY <1>0, <1>2
  <2>2. r = << >> BY <1>0, <2>1, SubSeqEmpty
  <2>3. 1 .. Len(s) - k = {} BY <1>0, <1>2
  <2> HIDE DEF r
  <2>4. r \in Seq(X) /\ Len(r) = 0 BY <2>2
  <2> QED BY <1>2, <2>3, <2>4 DEF r
<1> QED BY <1>1, <1>2

(* Its uses are those behind k, wherever the sequence stands.              *)
Behind(s, d, k, t) == {i \in Nat : i > k + d /\ i <= Len(s) + d /\ s[i - d] = t}

(* Uses of the rest are those behind k in the whole.                       *)
LEMMA RestUses ==
  ASSUME NEW X, NEW s \in Seq(X), NEW k \in Nat, NEW d \in Nat, NEW t
  PROVE  Uses(SubSeq(s, k + 1, Len(s)), DOMAIN SubSeq(s, k + 1, Len(s)), t) = Cardinality(Behind(s, d, k, t))
<1> DEFINE r == SubSeq(s, k + 1, Len(s))
           A == {i \in DOMAIN r : r[i] = t}
           B == Behind(s, d, k, t)
           f == [i \in A |-> i + k + d]
<1>0. Len(s) \in Nat OBVIOUS
<1>1. /\ r \in Seq(X) /\ Len(r) = IF k < Len(s) THEN Len(s) - k ELSE 0
      /\ \A i \in 1 .. Len(s) - k : r[i] = s[k + i]
  BY RestIs
<1> HIDE DEF r
<1>2. DOMAIN r = 1 .. Len(s) - k BY <1>0, <1>1
<1>3. IsFiniteSet(A)
  <2>1. IsFiniteSet(1 .. Len(s) - k)
    <3>1. 1 \in Int /\ Len(s) - k \in Int BY <1>0
    <3> QED BY <3>1, FS_Interval
  <2> QED BY <1>2, <2>1, FS_Subset
<1>4. ASSUME NEW i \in A PROVE i \in Nat /\ i + k + d \in B
  <2>1. i \in 1 .. Len(s) - k /\ r[i] = t BY <1>2
  <2>2. i + k + d \in Nat /\ i + k + d > k + d /\ i + k + d <= Len(s) + d /\ (i + k + d) - d = k + i
    BY <1>0, <2>1
  <2>3. s[(i + k + d) - d] = t BY <1>1, <2>1, <2>2
  <2> HIDE DEF A
  <2> QED BY <2>1, <2>2, <2>3 DEF Behind
<1>5. ASSUME NEW j \in B PROVE \E i \in A : i + k + d = j
  <2>1. j \in Nat /\ j > k + d /\ j <= Len(s) + d /\ s[j - d] = t BY DEF Behind
  <2> DEFINE i == j - d - k
  <2>2. i \in 1 .. Len(s) - k /\ k + i = j - d /\ i + k + d = j BY <1>0, <2>1
  <2> HIDE DEF i, B
  <2>3. r[i] = t BY <1>1, <2>1, <2>2
  <2>4. i \in A BY <1>2, <2>2, <2>3
  <2> QED BY <2>2, <2>4
<1>6. f \in Surjection(A, B) /\ f \in Injection(A, B)
  <2>1. \A i, j \in A : i + k + d = j + k + d => i = j
    <3> TAKE i, j \in A
    <3>1. i \in Nat /\ j \in Nat BY <1>4
    <3> QED BY <3>1
  <2>2. \A i \in A : f[i] = i + k + d OBVIOUS
  <2>3. f \in [A -> B]
    <3> HIDE DEF A, B
    <3> QED BY <1>4
  <2> HIDE DEF A, B, f
  <2>4. \A i, j \in A : i # j => f[i] # f[j] BY <2>1, <2>2
  <2>5. \A j \in B : \E i \in A : f[i] = j BY <1>5, <2>2
  <2> QED BY <2>3, <2>4, <2>5 DEF Surjection, Injection, IsInjective
<1> HIDE DEF A, B, f
<1>7. ExistsBijection(A, B) BY <1>6 DEF ExistsBijection, Bijection
<1>8. Cardinality(B) = Cardinality(A) BY <1>3, <1>7, FS_Bijection
<1> QED BY <1>8 DEF A, B, Uses, r

(* How often t is used among the last `window` of all, behind the first    *)
(* `from`.                                                                 *)
UsesIn(all, window, from, t) ==
  Cardinality({k \in DOMAIN all : k > Len(all) - window /\ k > from /\ all[k] = t})

(* Both parts of the tail: the prompt's part and the output's.             *)
LEMMA TailUses ==
  ASSUME NEW prompt \in Seq(Nat \ {0}), NEW output \in Seq(Nat \ {0}), NEW window \in Nat, NEW t
  PROVE  LET parts == Smp!Tail2(prompt, output, window)
             all == prompt \o output
         IN /\ parts[1] \in Seq(Nat \ {0}) /\ parts[2] \in Seq(Nat \ {0})
            /\ Uses(parts[2], DOMAIN parts[2], t) = UsesIn(all, window, Len(prompt), t)
            /\ (Uses(parts[1], DOMAIN parts[1], t) = 0 /\ Uses(parts[2], DOMAIN parts[2], t) = 0)
                 <=> UsesIn(all, window, 0, t) = 0
<1> DEFINE X == Nat \ {0}
           P == Len(prompt)
           O == Len(output)
           all == prompt \o output
           total == P + O
           start == total - IF window < total THEN window ELSE total
           past == IF start > P THEN start - P ELSE 0
           in(from) == {k \in DOMAIN all : k > Len(all) - window /\ k > from /\ all[k] = t}
           A == Behind(prompt, 0, start, t)
           B == Behind(output, P, past, t)
<1>1. P \in Nat /\ O \in Nat OBVIOUS
<1>2. /\ Len(all) = P + O /\ DOMAIN all = 1 .. P + O
      /\ \A k \in 1 .. P + O : all[k] = IF k <= P THEN prompt[k] ELSE output[k - P]
  OBVIOUS
<1>3. Smp!Tail2(prompt, output, window) = <<SubSeq(prompt, start + 1, P), SubSeq(output, past + 1, O)>>
  BY DEF Smp!Tail2
<1> HIDE DEF P, O, all
<1>4. start \in Nat /\ past \in Nat /\ \A k \in Nat : k > 0 => (k > start <=> k > (P + O) - window)
  BY <1>1
<1>5. \A k \in Nat : k > P => (k > past + P <=> k > (P + O) - window) BY <1>1
<1> HIDE DEF start, past
<1>6. in(P) = B
  <2>1. ASSUME NEW k \in in(P) PROVE k \in B
    <3>1. k \in 1 .. P + O /\ k > P /\ all[k] = t /\ k > (P + O) - window BY <1>2
    <3>2. k \in Nat /\ ~(k <= P) /\ k <= O + P /\ k > past + P BY <1>1, <1>5, <3>1
    <3>3. output[k - P] = t BY <1>2, <3>1, <3>2
    <3> QED BY <3>2, <3>3 DEF Behind, O
  <2>2. ASSUME NEW k \in B PROVE k \in in(P)
    <3>1. k \in Nat /\ k > past + P /\ k <= O + P /\ output[k - P] = t BY DEF Behind, O
    <3>2. k > P /\ k \in 1 .. P + O /\ ~(k <= P) BY <1>1, <1>4, <3>1
    <3>3. k > (P + O) - window BY <1>5, <3>1, <3>2
    <3>4. all[k] = t BY <1>2, <3>1, <3>2
    <3> QED BY <1>2, <3>2, <3>3, <3>4
  <2> HIDE DEF in, B
  <2> QED BY <2>1, <2>2
<1>7. in(0) = A \cup B
  <2>1. ASSUME NEW k \in in(0) PROVE k \in A \cup B
    <3>1. k \in 1 .. P + O /\ all[k] = t /\ k > (P + O) - window BY <1>2
    <3>2. k \in Nat /\ k > 0 /\ k > start
      <4>1. k \in Nat /\ k > 0 BY <1>1, <3>1
      <4>2. k > (P + O) - window BY <3>1
      <4> HIDE DEF in, A, B
      <4> QED BY <1>4, <4>1, <4>2
    <3>3. CASE k <= P
      <4>1. prompt[k] = t BY <1>2, <3>1, <3>3
      <4>2. k - 0 = k /\ k > start + 0 /\ k <= P + 0 BY <1>1, <1>4, <3>2, <3>3
      <4>3. k \in A BY <3>2, <4>1, <4>2 DEF Behind, P
      <4> QED BY <4>3
    <3>4. CASE ~(k <= P)
      <4>1. k > P BY <1>1, <3>2, <3>4
      <4>2. k \in in(P) BY <1>2, <3>1, <4>1
      <4> QED BY <1>6, <4>2
    <3> QED BY <3>3, <3>4
  <2>2. ASSUME NEW k \in A PROVE k \in in(0)
    <3>1. k \in Nat /\ k > start + 0 /\ k <= P + 0 /\ prompt[k - 0] = t BY DEF Behind, P
    <3>2. k > start /\ k > 0 /\ k <= P /\ k \in 1 .. P + O /\ k - 0 = k BY <1>1, <1>4, <3>1
    <3>3. all[k] = t BY <1>2, <3>1, <3>2
    <3>4. k > (P + O) - window BY <1>4, <3>1, <3>2
    <3> QED BY <1>2, <3>2, <3>3, <3>4
  <2>3. ASSUME NEW k \in B PROVE k \in in(0)
    <3>1. k \in in(P) BY <1>6
    <3>2. k \in 1 .. P + O BY <1>2, <3>1
    <3>3. k > 0 BY <1>1, <3>2
    <3> QED BY <3>1, <3>3
  <2> HIDE DEF in, A, B
  <2> QED BY <2>1, <2>2, <2>3
<1>8. IsFiniteSet(in(0))
  <2>1. IsFiniteSet(1 .. P + O) BY <1>1, FS_Interval
  <2>2. in(0) \subseteq 1 .. P + O BY <1>2
  <2> HIDE DEF in
  <2> QED BY <2>1, <2>2, FS_Subset
<1>9. SubSeq(prompt, start + 1, P) \in Seq(X) /\ SubSeq(output, past + 1, O) \in Seq(X)
  BY <1>4, RestIs DEF P, O
<1>10. Uses(SubSeq(prompt, start + 1, P), DOMAIN SubSeq(prompt, start + 1, P), t) = Cardinality(A)
  BY <1>4, RestUses DEF P
<1>11. Uses(SubSeq(output, past + 1, O), DOMAIN SubSeq(output, past + 1, O), t) = Cardinality(B)
  BY <1>1, <1>4, RestUses DEF O
<1>12. IsFiniteSet(A) /\ IsFiniteSet(B)
  <2> HIDE DEF in, A, B
  <2> QED BY <1>7, <1>8, FS_Subset
<1>13. (Cardinality(A) = 0 /\ Cardinality(B) = 0) <=> Cardinality(in(0)) = 0
  <2> HIDE DEF in, A, B
  <2>1. (Cardinality(A) = 0 <=> A = {}) /\ (Cardinality(B) = 0 <=> B = {})
        /\ (Cardinality(in(0)) = 0 <=> in(0) = {})
    BY <1>8, <1>12, FS_EmptySet
  <2> QED BY <1>7, <2>1
<1>14. UsesIn(all, window, P, t) = Cardinality(B)
  <2>1. UsesIn(all, window, P, t) = Cardinality(in(P)) BY DEF UsesIn
  <2> HIDE DEF in, B
  <2> QED BY <1>6, <2>1
<1>15. UsesIn(all, window, 0, t) = Cardinality(in(0)) BY DEF UsesIn
<1> HIDE DEF A, B, in
<1> QED BY <1>3, <1>9, <1>10, <1>11, <1>13, <1>14, <1>15 DEF P, all, O

(* What apply_penalties leaves in the memory: a token is stamped if the    *)
(* window holds it, with its uses in the output.                           *)
Remembered(r, vocab, prompt, output, window) ==
  LET all == prompt \o output IN
  /\ Sound(r) /\ vocab <= Len(r.stamp)
  /\ \A t \in 1 .. vocab :
       /\ r.stamp[t] = r.gen <=> UsesIn(all, window, 0, t) # 0
       /\ r.stamp[t] = r.gen => r.count[t] = UsesIn(all, window, Len(prompt), t)

(* One call keeps the memory sound, whatever was in it.                    *)
LEMMA CountedKeeps ==
  ASSUME Stamps \in Nat \ {0}, NEW m, Sound(m), NEW vocab \in Nat,
         NEW prompt \in Seq(Nat \ {0}), NEW output \in Seq(Nat \ {0}), NEW window \in Nat
  PROVE  Remembered(Smp!Counted(m, vocab, prompt, output, window), vocab, prompt, output, window)
<1> DEFINE g == Smp!Grown(m, vocab)
           b == Smp!NextGen(g)
           parts == Smp!Tail2(prompt, output, window)
           c == Smp!Seen(b, vocab, parts[1], 0)
           r == Smp!Seen(c, vocab, parts[2], 1)
           all == prompt \o output
<1>1. Smp!Counted(m, vocab, prompt, output, window) = r BY DEF Smp!Counted
<1>2. AllOld(b) /\ vocab <= Len(b.stamp)
  <2>1. Sound(g) /\ vocab <= Len(g.stamp) BY GrownIs
  <2> HIDE DEF g
  <2> QED BY <2>1, NextGenIs
<1>3. parts[1] \in Seq(Nat \ {0}) /\ parts[2] \in Seq(Nat \ {0}) BY TailUses
<1>4. ASSUME NEW t
      PROVE  /\ Uses(parts[2], DOMAIN parts[2], t) = UsesIn(all, window, Len(prompt), t)
             /\ (Uses(parts[1], DOMAIN parts[1], t) = 0 /\ Uses(parts[2], DOMAIN parts[2], t) = 0)
                  <=> UsesIn(all, window, 0, t) = 0
  BY TailUses
<1> HIDE DEF g, b, parts, c, r, all
<1>5. b \in Mem /\ Len(b.stamp) = Len(b.count) /\ (b.gen < Stamps \/ b.gen = 1)
      /\ b.stamp \in Seq(Nat) /\ b.gen \in Nat /\ Len(b.stamp) \in Nat
      /\ \A t \in 1 .. Len(b.stamp) : b.stamp[t] <= b.gen /\ b.stamp[t] # b.gen
  <2>1. b \in Mem /\ b.stamp \in Seq(Nat) /\ b.gen \in Nat BY <1>2 DEF AllOld, Sound, Mem
  <2>2. DOMAIN b.stamp = 1 .. Len(b.stamp) /\ Len(b.stamp) \in Nat BY <2>1
  <2> QED BY <1>2, <2>1, <2>2 DEF AllOld, Sound
<1>6. Took(b, vocab, parts[1], DOMAIN parts[1], 0, c)
  <2>1. Took(b, vocab, parts[1], DOMAIN parts[1], 0, Smp!Seen(b, vocab, parts[1], 0)) BY <1>2, <1>3, <1>5, SeenIs
  <2> QED BY <2>1 DEF c
<1>7. c \in Mem /\ c.gen = b.gen /\ Len(c.stamp) = Len(b.stamp) /\ Len(c.count) = Len(b.stamp)
  BY <1>5, <1>6 DEF Took
<1>8. Took(c, vocab, parts[2], DOMAIN parts[2], 1, r)
  <2>1. Took(c, vocab, parts[2], DOMAIN parts[2], 1, Smp!Seen(c, vocab, parts[2], 1)) BY <1>2, <1>3, <1>7, SeenIs
  <2> QED BY <2>1 DEF r
<1>9. r \in Mem /\ r.gen = b.gen /\ Len(r.stamp) = Len(b.stamp) /\ Len(r.count) = Len(b.stamp)
      /\ DOMAIN r.stamp = 1 .. Len(b.stamp)
  <2>1. r \in Mem /\ r.gen = b.gen /\ Len(r.stamp) = Len(b.stamp) /\ Len(r.count) = Len(b.stamp)
    BY <1>7, <1>8 DEF Took
  <2>2. r.stamp \in Seq(Nat) BY <2>1 DEF Mem
  <2> QED BY <2>1, <2>2
<1>10. ASSUME NEW t \in 1 .. Len(b.stamp)
       PROVE  /\ r.stamp[t] <= r.gen
              /\ t <= vocab => /\ r.stamp[t] = r.gen <=> UsesIn(all, window, 0, t) # 0
                               /\ r.stamp[t] = r.gen => r.count[t] = UsesIn(all, window, Len(prompt), t)
  <2> DEFINE u == Uses(parts[1], DOMAIN parts[1], t)
             v == Uses(parts[2], DOMAIN parts[2], t)
  <2>1. IF t > vocab \/ u = 0 THEN c.stamp[t] = b.stamp[t] /\ c.count[t] = b.count[t]
        ELSE c.stamp[t] = b.gen /\ c.count[t] = (IF b.stamp[t] = b.gen THEN b.count[t] ELSE 0) + 0
    BY <1>6 DEF Took
  <2>2. IF t > vocab \/ v = 0 THEN r.stamp[t] = c.stamp[t] /\ r.count[t] = c.count[t]
        ELSE r.stamp[t] = c.gen /\ r.count[t] = (IF c.stamp[t] = c.gen THEN c.count[t] ELSE 0) + v
    BY <1>7, <1>8 DEF Took
  <2>3. b.stamp[t] <= b.gen /\ b.stamp[t] # b.gen BY <1>5
  <2>4. v = UsesIn(all, window, Len(prompt), t) /\ (u = 0 /\ v = 0 <=> UsesIn(all, window, 0, t) = 0) BY <1>4
  <2>5. v \in Nat
    <3>1. DOMAIN parts[2] = 1 .. Len(parts[2]) /\ Len(parts[2]) \in Nat BY <1>3
    <3>2. IsFiniteSet(1 .. Len(parts[2]))
      <4>1. 1 \in Int /\ Len(parts[2]) \in Int BY <3>1
      <4> QED BY <4>1, FS_Interval
    <3>3. IsFiniteSet(DOMAIN parts[2]) BY <3>1, <3>2
    <3> QED BY <3>3, UsesMore
  <2>6. t \in Nat BY <1>5
  <2> HIDE DEF u, v
  <2>7. CASE t > vocab
    <3>1. r.stamp[t] = b.stamp[t] BY <2>1, <2>2, <2>7
    <3>2. ~(t <= vocab) BY <2>6, <2>7
    <3> QED BY <1>9, <2>3, <3>1, <3>2
  <2>8. CASE ~(t > vocab) /\ u = 0 /\ v = 0
    <3>1. r.stamp[t] = b.stamp[t] BY <2>1, <2>2, <2>8
    <3> QED BY <1>9, <2>3, <2>4, <2>8, <3>1
  <2>9. CASE ~(t > vocab) /\ u # 0 /\ v = 0
    <3>1. c.stamp[t] = b.gen /\ c.count[t] = 0 BY <2>1, <2>3, <2>9
    <3> QED BY <1>5, <1>7, <1>9, <2>2, <2>4, <2>9, <3>1
  <2>10. CASE ~(t > vocab) /\ v # 0
    <3>1. (IF c.stamp[t] = c.gen THEN c.count[t] ELSE 0) = 0
      <4>1. CASE u = 0 BY <1>7, <2>1, <2>3, <4>1
      <4>2. CASE u # 0 BY <2>1, <2>3, <2>10, <4>2
      <4> QED BY <4>1, <4>2
    <3>2. r.stamp[t] = r.gen /\ r.count[t] = v BY <1>7, <1>9, <2>2, <2>5, <2>10, <3>1
    <3> QED BY <1>5, <1>9, <2>4, <2>10, <3>2
  <2> QED BY <2>7, <2>8, <2>9, <2>10
<1>11. Sound(r) BY <1>5, <1>9, <1>10 DEF Sound
<1>12. ASSUME NEW t \in 1 .. vocab
       PROVE  /\ r.stamp[t] = r.gen <=> UsesIn(all, window, 0, t) # 0
              /\ r.stamp[t] = r.gen => r.count[t] = UsesIn(all, window, Len(prompt), t)
  <2>1. t \in 1 .. Len(b.stamp) /\ t <= vocab BY <1>2, <1>5
  <2> QED BY <1>10, <2>1
<1>13. vocab <= Len(r.stamp) BY <1>2, <1>9
<1> QED BY <1>1, <1>11, <1>12, <1>13 DEF Remembered, all

(* Penalties are those of this call's window, whatever was asked before    *)
(* and however often the generation wrapped.                               *)
Call == [vocab : Nat, prompt : Seq(Nat \ {0}), output : Seq(Nat \ {0}), window : Nat]
Called(calls, mems) ==
  /\ mems[0] = Smp!Fresh
  /\ \A i \in 1 .. Len(calls) :
       mems[i] = Smp!Counted(mems[i - 1], calls[i].vocab, calls[i].prompt, calls[i].output, calls[i].window)

(* So does every call of a sequence.                                       *)
LEMMA CallsKeep ==
  ASSUME Stamps \in Nat \ {0}, NEW calls \in Seq(Call), NEW mems, Called(calls, mems)
  PROVE  \A i \in 1 .. Len(calls) :
           Remembered(mems[i], calls[i].vocab, calls[i].prompt, calls[i].output, calls[i].window)
<1> DEFINE n == Len(calls)
           Bad == {i \in Nat : i <= n /\ ~Sound(mems[i])}
<1>0. n \in Nat OBVIOUS
<1>1. Sound(mems[0])
  <2>1. mems[0] = [stamp |-> <<>>, count |-> <<>>, gen |-> 0] BY DEF Called, Smp!Fresh
  <2>2. << >> \in Seq(Nat) /\ DOMAIN << >> = {} /\ Len(<< >>) = 0 OBVIOUS
  <2>3. mems[0] \in Mem BY <2>1, <2>2 DEF Mem
  <2>4. 0 < Stamps OBVIOUS
  <2> QED BY <2>1, <2>2, <2>3, <2>4 DEF Sound
<1>2. ASSUME NEW i \in 1 .. n, Sound(mems[i - 1])
      PROVE  Remembered(mems[i], calls[i].vocab, calls[i].prompt, calls[i].output, calls[i].window)
  <2>1. calls[i] \in Call OBVIOUS
  <2>2. /\ calls[i].vocab \in Nat /\ calls[i].window \in Nat
        /\ calls[i].prompt \in Seq(Nat \ {0}) /\ calls[i].output \in Seq(Nat \ {0})
    BY <2>1 DEF Call
  <2>3. mems[i] = Smp!Counted(mems[i - 1], calls[i].vocab, calls[i].prompt, calls[i].output, calls[i].window)
    BY DEF Called
  <2>4. Remembered(Smp!Counted(mems[i - 1], calls[i].vocab, calls[i].prompt, calls[i].output, calls[i].window),
             calls[i].vocab, calls[i].prompt, calls[i].output, calls[i].window)
    BY <1>2, <2>2, CountedKeeps
  <2> QED BY <2>3, <2>4
<1>3. \A i \in 0 .. n : Sound(mems[i])
  <2> SUFFICES ASSUME Bad # {} PROVE FALSE BY <1>0
  <2>1. PICK i \in Bad : \A j \in Bad : i <= j
    <3>1. Bad \in SUBSET Nat OBVIOUS
    <3> HIDE DEF Bad
    <3> QED BY <3>1, LeastNat
  <2>2. i \in Nat /\ i <= n /\ i # 0 BY <1>1
  <2>3. i - 1 \in Nat /\ i - 1 <= n /\ ~(i <= i - 1) /\ i \in 1 .. n BY <1>0, <2>2
  <2>4. Sound(mems[i - 1]) BY <2>1, <2>3
  <2>5. Sound(mems[i]) BY <1>2, <2>3, <2>4 DEF Remembered
  <2> QED BY <2>5
<1>4. \A i \in 1 .. n : i - 1 \in 0 .. n BY <1>0
<1> QED BY <1>2, <1>3, <1>4

(* After any calls, of any sizes of vocabulary, the penalties of each call *)
(* are those of the tokens in its own window: a token is penalized when    *)
(* the window holds it, by its occurrences in the output, and nothing      *)
(* counted by an earlier call is taken for this one's, however often the   *)
(* generation wrapped.                                                     *)
THEOREM PenaltiesExact ==
  Stamps \in Nat \ {0} =>
    \A calls \in Seq(Call) : \A mems : Called(calls, mems) =>
      \A i \in 1 .. Len(calls) : \A logits, par :
        LET c == calls[i]
            all == c.prompt \o c.output
        IN DOMAIN logits = 1 .. c.vocab =>
             \A t \in DOMAIN logits :
               Smp!Penalties(mems[i], logits, par)[t]
                 = Smp!Penalized(logits[t], par, UsesIn(all, c.window, 0, t) # 0,
                                 UsesIn(all, c.window, Len(c.prompt), t))
<1> SUFFICES ASSUME Stamps \in Nat \ {0}, NEW calls \in Seq(Call), NEW mems, Called(calls, mems),
                    NEW i \in 1 .. Len(calls), NEW logits, NEW par,
                    DOMAIN logits = 1 .. calls[i].vocab, NEW t \in DOMAIN logits
             PROVE  LET c == calls[i]
                        all == c.prompt \o c.output
                    IN Smp!Penalties(mems[i], logits, par)[t]
                         = Smp!Penalized(logits[t], par, UsesIn(all, c.window, 0, t) # 0,
                                         UsesIn(all, c.window, Len(c.prompt), t))
  OBVIOUS
<1> DEFINE c == calls[i]
           all == c.prompt \o c.output
           m == mems[i]
           u == UsesIn(all, c.window, 0, t)
           v == UsesIn(all, c.window, Len(c.prompt), t)
<1>1. Remembered(m, c.vocab, c.prompt, c.output, c.window) BY CallsKeep
<1>2. (m.stamp[t] = m.gen <=> u # 0) /\ (m.stamp[t] = m.gen => m.count[t] = v) BY <1>1 DEF Remembered
<1>3. Smp!Penalties(m, logits, par)[t] = Smp!Penalized(logits[t], par, m.stamp[t] = m.gen, m.count[t])
  BY DEF Smp!Penalties
<1> HIDE DEF u, v, m
<1>4. Smp!Penalized(logits[t], par, m.stamp[t] = m.gen, m.count[t]) = Smp!Penalized(logits[t], par, u # 0, v)
  <2>1. CASE u # 0 BY <1>2, <2>1 DEF Smp!Penalized
  <2>2. CASE u = 0 BY <1>2, <2>2 DEF Smp!Penalized
  <2> QED BY <2>1, <2>2
<1> QED BY <1>3, <1>4 DEF u, v, m

-----------------------------------------------------------------------------
(* A sum may take any element first.                                       *)
InAnyOrder(f, sum) == \A T \in SUBSET DOMAIN f : \A x \in T : sum[T] = f[x] + sum[T \ {x}]

(* Sums do not depend on the order.                                        *)
LEMMA AnyFirst ==
  ASSUME NEW f, \A x \in DOMAIN f : f[x] \in Nat, IsFiniteSet(DOMAIN f), NEW sum, Sums(f, sum)
  PROVE  InAnyOrder(f, sum)
<1> DEFINE S == DOMAIN f
           G == {T \in SUBSET S : \A x \in T : sum[T] = f[x] + sum[T \ {x}]}
<1>1. {} \in G OBVIOUS
<1>2. ASSUME NEW T \in SUBSET S, \A x \in T : T \ {x} \in G PROVE T \in G
  <2>1. ASSUME NEW x \in T PROVE sum[T] = f[x] + sum[T \ {x}]
    <3> DEFINE y == Pick(T)
    <3>1. y \in T BY <2>1 DEF Pick
    <3>2. sum[T] = f[y] + sum[T \ {y}] BY <2>1 DEF Sums
    <3> HIDE DEF y
    <3>3. CASE x = y BY <3>2, <3>3
    <3>4. CASE x # y
      <4>1. x \in T \ {y} /\ y \in T \ {x} BY <3>1, <3>4
      <4>2. sum[T \ {y}] = f[x] + sum[(T \ {y}) \ {x}] BY <1>2, <3>1, <4>1
      <4>3. sum[T \ {x}] = f[y] + sum[(T \ {x}) \ {y}] BY <1>2, <4>1
      <4>4. (T \ {y}) \ {x} = (T \ {x}) \ {y} OBVIOUS
      <4> DEFINE U == (T \ {x}) \ {y}
      <4>5. U \in SUBSET S OBVIOUS
      <4>6. sum[U] \in Nat
        <5> HIDE DEF U
        <5> QED BY <4>5 DEF Sums
      <4>7. f[x] \in Nat /\ f[y] \in Nat BY <3>1
      <4>8. sum[T \ {y}] = f[x] + sum[U] /\ sum[T \ {x}] = f[y] + sum[U] BY <4>2, <4>3, <4>4
      <4> HIDE DEF U
      <4> QED BY <3>2, <4>6, <4>7, <4>8
    <3> QED BY <3>3, <3>4
  <2> QED BY <2>1
<1> HIDE DEF G
<1>3. G \in SUBSET SUBSET S BY DEF G
<1>4. \A T \in SUBSET S : T \in G BY <1>1, <1>2, <1>3, Subsets
<1> QED BY <1>4 DEF G, InAnyOrder

(* The total of a part of a function is the sum of that part.              *)
LEMMA PartTotal ==
  ASSUME NEW f, \A x \in DOMAIN f : f[x] \in Nat, IsFiniteSet(DOMAIN f), NEW sum, Sums(f, sum),
         NEW g, DOMAIN g \in SUBSET DOMAIN f, \A x \in DOMAIN g : g[x] = f[x]
  PROVE  Smp!Total(g) = sum[DOMAIN g]
<1> DEFINE S == DOMAIN g
<1>1. Smp!Total(g) = Decision!Total(g)
  BY DEF Smp!Total, Smp!FoldSeq, Smp!FoldFunction, Smp!FoldFunctionOnSet, Smp!MapThenFoldSet,
         Decision!Total, Decision!FoldFunction, Decision!FoldFunctionOnSet, Decision!MapThenFoldSet
<1>2. IsFiniteSet(S) BY FS_Subset
<1>3. \A x \in DOMAIN g : g[x] \in Nat OBVIOUS
<1>4. PICK s : Sums(g, s) /\ Decision!Total(g) = s[S] BY <1>2, <1>3, TotalIs
<1> DEFINE G == {T \in SUBSET S : s[T] = sum[T]}
<1>5. {} \in G BY <1>4 DEF Sums
<1>6. ASSUME NEW T \in SUBSET S, \A x \in T : T \ {x} \in G PROVE T \in G
  <2>1. CASE T = {} BY <1>5, <2>1
  <2>2. CASE T # {}
    <3>1. Pick(T) \in T BY <2>2 DEF Pick
    <3>2. s[T \ {Pick(T)}] = sum[T \ {Pick(T)}] BY <1>6, <3>1
    <3>3. s[T] = g[Pick(T)] + s[T \ {Pick(T)}] BY <1>4, <2>2 DEF Sums
    <3>4. T \in SUBSET DOMAIN f OBVIOUS
    <3>5. sum[T] = f[Pick(T)] + sum[T \ {Pick(T)}] BY <2>2, <3>4 DEF Sums
    <3>6. g[Pick(T)] = f[Pick(T)] BY <3>1
    <3> QED BY <3>2, <3>3, <3>5, <3>6
  <2> QED BY <2>1, <2>2
<1> HIDE DEF G
<1>7. G \in SUBSET SUBSET S BY DEF G
<1>8. \A T \in SUBSET S : T \in G BY <1>2, <1>5, <1>6, <1>7, Subsets
<1>9. S \in G BY <1>8
<1> QED BY <1>1, <1>4, <1>9 DEF G

(* The sums of the beginnings of f, which has n values.                    *)
Cumulates(f, n, c) ==
  /\ c \in [0 .. n -> Nat] /\ c[0] = 0
  /\ \A k \in 0 .. n - 1 : c[k + 1] = c[k] + f[k + 1]
  /\ \A k \in 0 .. n : Smp!Total([i \in 1 .. k |-> f[i]]) = c[k]

(* Such sums exist.                                                        *)
LEMMA SumsUp ==
  ASSUME NEW n \in Nat, NEW f \in [1 .. n -> Nat]
  PROVE  \E c : Cumulates(f, n, c)
<1>1. DOMAIN f = 1 .. n /\ \A x \in 1 .. n : f[x] \in Nat OBVIOUS
<1>2. IsFiniteSet(DOMAIN f)
  <2>1. 1 \in Int /\ n \in Int OBVIOUS
  <2>2. IsFiniteSet(1 .. n) BY <2>1, FS_Interval
  <2> QED BY <1>1, <2>2
<1>3. PICK sum : Sums(f, sum)
  <2>1. \A x \in DOMAIN f : f[x] \in Nat BY <1>1
  <2> QED BY <1>2, <2>1, TotalIs
<1> DEFINE c == [k \in 0 .. n |-> sum[1 .. k]]
<1>4. \A k \in 0 .. n : 1 .. k \in SUBSET DOMAIN f /\ c[k] = sum[1 .. k]
  <2>1. \A k \in 0 .. n : 1 .. k \in SUBSET (1 .. n)
    <3> SUFFICES ASSUME NEW k \in 0 .. n, NEW x \in 1 .. k PROVE x \in 1 .. n OBVIOUS
    <3> QED OBVIOUS
  <2>2. \A k \in 0 .. n : c[k] = sum[1 .. k] OBVIOUS
  <2> QED BY <1>1, <2>1, <2>2
<1>5. c \in [0 .. n -> Nat]
  <2>1. \A k \in 0 .. n : sum[1 .. k] \in Nat BY <1>3, <1>4 DEF Sums
  <2> QED BY <2>1
<1> HIDE DEF c
<1>6. c[0] = 0
  <2>1. 1 .. 0 = {} /\ 0 \in 0 .. n OBVIOUS
  <2> QED BY <1>3, <1>4, <2>1 DEF Sums
<1>7. ASSUME NEW k \in 0 .. n - 1 PROVE c[k + 1] = c[k] + f[k + 1]
  <2>1. k \in 0 .. n /\ k + 1 \in 0 .. n /\ k + 1 \in 1 .. k + 1 OBVIOUS
  <2>2. (1 .. k + 1) \ {k + 1} = 1 .. k OBVIOUS
  <2>3. sum[1 .. k + 1] = f[k + 1] + sum[(1 .. k + 1) \ {k + 1}]
    <3>1. 1 .. k + 1 \in SUBSET DOMAIN f BY <1>4, <2>1
    <3>2. \A x \in DOMAIN f : f[x] \in Nat BY <1>1
    <3>3. InAnyOrder(f, sum) BY <1>2, <1>3, <3>2, AnyFirst
    <3> QED BY <2>1, <3>1, <3>3 DEF InAnyOrder
  <2>4. c[k + 1] = f[k + 1] + c[k] BY <1>4, <2>1, <2>2, <2>3
  <2>5. c[k] \in Nat /\ f[k + 1] \in Nat BY <1>1, <1>5, <2>1
  <2> QED BY <2>4, <2>5
<1>8. ASSUME NEW k \in 0 .. n PROVE Smp!Total([i \in 1 .. k |-> f[i]]) = c[k]
  <2> DEFINE g == [i \in 1 .. k |-> f[i]]
  <2>1. DOMAIN g = 1 .. k /\ DOMAIN g \in SUBSET DOMAIN f /\ \A x \in DOMAIN g : g[x] = f[x] BY <1>4
  <2> HIDE DEF g
  <2>2. \A x \in DOMAIN f : f[x] \in Nat BY <1>1
  <2>3. Smp!Total(g) = sum[DOMAIN g] BY <1>2, <1>3, <2>1, <2>2, PartTotal
  <2> QED BY <1>4, <2>1, <2>3 DEF g
<1> QED BY <1>5, <1>6, <1>7, <1>8 DEF Cumulates

(* Sums of beginnings only grow.                                           *)
LEMMA Ordered ==
  ASSUME NEW n \in Nat, NEW f \in [1 .. n -> Nat], NEW c, Cumulates(f, n, c)
  PROVE  \A i \in 0 .. n : \A j \in 0 .. n : i <= j => c[i] <= c[j]
<1> SUFFICES ASSUME NEW i \in 0 .. n PROVE \A j \in 0 .. n : i <= j => c[i] <= c[j]
  OBVIOUS
<1> DEFINE Bad == {j \in Nat : j <= n /\ i <= j /\ ~(c[i] <= c[j])}
<1>0. c \in [0 .. n -> Nat] BY DEF Cumulates
<1> SUFFICES ASSUME Bad # {} PROVE FALSE OBVIOUS
<1>1. PICK j \in Bad : \A k \in Bad : j <= k
  <2>1. Bad \in SUBSET Nat OBVIOUS
  <2> HIDE DEF Bad
  <2> QED BY <2>1, LeastNat
<1>2. j \in Nat /\ j <= n /\ i <= j /\ ~(c[i] <= c[j]) /\ i \in Nat /\ c[i] \in Nat BY <1>0
<1>3. j # i BY <1>2
<1>4. j - 1 \in Nat /\ j - 1 <= n /\ i <= j - 1 /\ j - 1 \in 0 .. n - 1 /\ ~(j <= j - 1) /\ (j - 1) + 1 = j
  BY <1>2, <1>3
<1>5. c[i] <= c[j - 1] BY <1>1, <1>4
<1>6. c[j] = c[j - 1] + f[j] BY <1>4 DEF Cumulates
<1>7. c[j - 1] \in Nat /\ f[j] \in Nat /\ c[j] \in Nat BY <1>0, <1>2, <1>4
<1> QED BY <1>2, <1>5, <1>6, <1>7

(* Products of natural numbers keep their order.                           *)
LEMMA Multiples ==
  ASSUME NEW a \in Nat, NEW b \in Nat, NEW m \in Nat
  PROVE  /\ a * m \in Nat
         /\ a <= b => a * m <= b * m
         /\ a < b /\ m > 0 => a * m < b * m
         /\ (a + 1) * m = a * m + m
         /\ m > 0 => a <= a * m
<1>1. a * m \in Nat OBVIOUS
<1>2. (a + 1) * m = a * m + m OBVIOUS
<1>3. ASSUME a <= b PROVE a * m <= b * m
  <2>1. PICK d \in Nat : b = a + d
    <3>1. b - a \in Nat /\ b = a + (b - a) BY <1>3
    <3> QED BY <3>1
  <2>2. b * m = a * m + d * m BY <2>1
  <2>3. d * m \in Nat OBVIOUS
  <2> QED BY <1>1, <2>2, <2>3
<1>4. ASSUME a < b, m > 0 PROVE a * m < b * m
  <2>1. PICK d \in Nat : b = a + 1 + d
    <3>1. b - a - 1 \in Nat /\ b = a + 1 + (b - a - 1) BY <1>4
    <3> QED BY <3>1
  <2>2. b * m = a * m + m + d * m BY <2>1
  <2>3. d * m \in Nat OBVIOUS
  <2> QED BY <1>1, <1>4, <2>2, <2>3
<1>5. ASSUME m > 0 PROVE a <= a * m
  <2>1. PICK d \in Nat : m = 1 + d
    <3>1. m - 1 \in Nat /\ m = 1 + (m - 1) BY <1>5
    <3> QED BY <3>1
  <2>2. a * m = a + a * d BY <2>1
  <2>3. a * d \in Nat OBVIOUS
  <2> QED BY <2>2, <2>3
<1> QED BY <1>1, <1>2, <1>3, <1>4, <1>5

(* The first of n entries past a draw u, by the sums c.                    *)
PastAt(c, n, u, t) == \A k \in 0 .. n : c[k] * Steps > u * c[n] <=> t <= k

(* There is such an entry, and it has weight.                              *)
LEMMA PastExists ==
  ASSUME NEW n \in Nat, NEW f \in [1 .. n -> Nat], NEW c, Cumulates(f, n, c), c[n] > 0,
         Steps \in Nat \ {0}, NEW u \in 0 .. Steps - 1
  PROVE  \E t \in 1 .. n : PastAt(c, n, u, t) /\ f[t] > 0
<1> DEFINE Past(k) == c[k] * Steps > u * c[n]
           P == {k \in Nat : k <= n /\ Past(k)}
<1>0. c \in [0 .. n -> Nat] /\ c[0] = 0 /\ u \in Nat /\ u < Steps /\ Steps \in Nat BY DEF Cumulates
<1>1. c[n] \in Nat /\ \A k \in 0 .. n : c[k] \in Nat BY <1>0
<1>2. Past(n)
  <2>1. u * c[n] < Steps * c[n] BY <1>0, <1>1, Multiples
  <2>2. Steps * c[n] = c[n] * Steps BY <1>0, <1>1
  <2> QED BY <1>0, <1>1, <2>1, <2>2
<1>3. ~Past(0)
  <2>1. c[0] * Steps = 0 BY <1>0
  <2>2. u * c[n] \in Nat BY <1>0, <1>1, Multiples
  <2> QED BY <2>1, <2>2
<1>4. \A i \in 0 .. n : \A j \in 0 .. n : i <= j /\ Past(i) => Past(j)
  <2> SUFFICES ASSUME NEW i \in 0 .. n, NEW j \in 0 .. n, i <= j, Past(i) PROVE Past(j) OBVIOUS
  <2>1. c[i] <= c[j] BY Ordered
  <2>2. c[i] \in Nat /\ c[j] \in Nat BY <1>1
  <2>3. c[i] * Steps <= c[j] * Steps /\ c[i] * Steps \in Nat /\ c[j] * Steps \in Nat BY <1>0, <2>1, <2>2, Multiples
  <2>4. u * c[n] \in Nat BY <1>0, <1>1, Multiples
  <2> QED BY <2>3, <2>4
<1> HIDE DEF Past
<1>5. PICK t \in P : \A k \in P : t <= k
  <2>1. P \in SUBSET Nat /\ P # {} BY <1>2
  <2> HIDE DEF P
  <2> QED BY <2>1, LeastNat
<1>6. t \in Nat /\ t <= n /\ Past(t) /\ t # 0 BY <1>3
<1>7. t \in 1 .. n /\ t - 1 \in 0 .. n - 1 /\ t - 1 \in 0 .. n /\ t \in 0 .. n /\ (t - 1) + 1 = t BY <1>6
<1>8. PastAt(c, n, u, t)
  <2> SUFFICES ASSUME NEW k \in 0 .. n PROVE Past(k) <=> t <= k BY DEF PastAt, Past
  <2>1. Past(k) => t <= k BY <1>5
  <2>2. t <= k => Past(k) BY <1>4, <1>6, <1>7
  <2> QED BY <2>1, <2>2
<1>9. f[t] > 0
  <2>1. ~Past(t - 1)
    <3>1. ~(t <= t - 1) BY <1>6
    <3> QED BY <1>5, <1>7, <3>1
  <2>2. c[t] = c[t - 1] + f[t] BY <1>7 DEF Cumulates
  <2>3. c[t] # c[t - 1] BY <1>6, <2>1 DEF Past
  <2>4. f[t] \in Nat /\ c[t - 1] \in Nat BY <1>1, <1>7
  <2> QED BY <2>2, <2>3, <2>4
<1> QED BY <1>7, <1>8, <1>9

(* The least multiple of m that is at least a.                             *)
LEMMA Ceiling ==
  ASSUME NEW a \in Nat, NEW m \in Nat \ {0}
  PROVE  \E x \in Nat : x * m >= a /\ x * m < a + m /\ \A u \in Nat : u * m >= a <=> x <= u
<1> DEFINE S == {x \in Nat : x * m >= a}
<1>0. m > 0 /\ m \in Nat OBVIOUS
<1>1. a \in S BY <1>0, Multiples
<1>2. PICK x \in S : \A y \in S : x <= y
  <2>1. S \in SUBSET Nat OBVIOUS
  <2> HIDE DEF S
  <2> QED BY <1>1, <2>1, LeastNat
<1>3. x \in Nat /\ x * m >= a OBVIOUS
<1>4. x * m < a + m
  <2>1. CASE x = 0
    <3>1. x * m = 0 BY <1>0, <2>1
    <3> QED BY <1>0, <3>1
  <2>2. CASE x # 0
    <3>1. x - 1 \in Nat /\ ~(x <= x - 1) /\ (x - 1) + 1 = x BY <1>3, <2>2
    <3>2. ~((x - 1) * m >= a) BY <1>2, <3>1
    <3>3. x * m = (x - 1) * m + m /\ (x - 1) * m \in Nat BY <1>0, <3>1, Multiples
    <3> QED BY <1>0, <3>2, <3>3
  <2> QED BY <2>1, <2>2
<1>5. ASSUME NEW u \in Nat PROVE u * m >= a <=> x <= u
  <2>1. u * m >= a => x <= u BY <1>2
  <2>2. x <= u => x * m <= u * m BY <1>0, <1>3, Multiples
  <2>3. x * m \in Nat /\ u * m \in Nat BY <1>0, <1>3, Multiples
  <2> QED BY <1>3, <2>1, <2>2, <2>3
<1> QED BY <1>3, <1>4, <1>5

(* Each entry is drawn as often as its weight says, give or take one draw, *)
(* and never with no weight; picked(u) is the entry that u takes.          *)
InProportion(f, mass, picked) ==
  /\ \A u \in 0 .. Steps - 1 : picked[u] \in DOMAIN f /\ f[picked[u]] > 0
  /\ \A t \in DOMAIN f :
       (Cardinality({u \in 0 .. Steps - 1 : picked[u] = t}) * mass) - (f[t] * Steps) \in -mass .. mass

(* A walk that takes the first entry past the draw does that.              *)
LEMMA InverseCdf ==
  ASSUME NEW n \in Nat, NEW f \in [1 .. n -> Nat], NEW c, Cumulates(f, n, c), c[n] > 0,
         Steps \in Nat \ {0}, NEW picked,
         \A u \in 0 .. Steps - 1 : \A t \in 1 .. n : PastAt(c, n, u, t) => picked[u] = t
  PROVE  InProportion(f, c[n], picked)
<1> DEFINE m == c[n]
<1>0. /\ c \in [0 .. n -> Nat] /\ c[0] = 0 /\ m \in Nat \ {0} /\ Steps \in Nat /\ Steps > 0
      /\ \A k \in 0 .. n : c[k] \in Nat
  BY DEF Cumulates
<1>1. DOMAIN f = 1 .. n OBVIOUS
<1>2. ASSUME NEW u \in 0 .. Steps - 1
      PROVE  picked[u] \in 1 .. n /\ PastAt(c, n, u, picked[u]) /\ f[picked[u]] > 0
  <2>1. PICK t \in 1 .. n : PastAt(c, n, u, t) /\ f[t] > 0 BY PastExists
  <2>2. picked[u] = t BY <2>1
  <2> QED BY <2>1, <2>2
<1>3. ASSUME NEW t \in 1 .. n
      PROVE  (Cardinality({u \in 0 .. Steps - 1 : picked[u] = t}) * m) - (f[t] * Steps) \in -m .. m
  <2>1. t - 1 \in 0 .. n - 1 /\ t - 1 \in 0 .. n /\ t \in 0 .. n /\ (t - 1) + 1 = t /\ t \in Nat OBVIOUS
  <2> DEFINE a == c[t - 1] * Steps
             b == c[t] * Steps
             D == {u \in 0 .. Steps - 1 : picked[u] = t}
  <2>2. c[t - 1] \in Nat /\ c[t] \in Nat /\ f[t] \in Nat /\ c[t] = c[t - 1] + f[t] BY <1>0, <2>1 DEF Cumulates
  <2>3. a \in Nat /\ b \in Nat /\ b - a = f[t] * Steps /\ a <= b /\ f[t] * Steps \in Nat
    <3>1. a \in Nat /\ b \in Nat /\ f[t] * Steps \in Nat BY <1>0, <2>2, Multiples
    <3>2. c[t] * Steps = c[t - 1] * Steps + f[t] * Steps BY <1>0, <2>2
    <3> QED BY <3>1, <3>2
  <2>4. b <= Steps * m
    <3>1. c[t] <= c[n] BY <2>1, Ordered
    <3>2. c[t] * Steps <= c[n] * Steps BY <1>0, <2>2, <3>1, Multiples
    <3>3. c[n] * Steps = Steps * m BY <1>0
    <3> QED BY <3>2, <3>3
  <2> HIDE DEF a, b
  <2>5. PICK lo \in Nat : lo * m >= a /\ lo * m < a + m /\ \A u \in Nat : u * m >= a <=> lo <= u
    BY <1>0, <2>3, Ceiling
  <2>6. PICK hi \in Nat : hi * m >= b /\ hi * m < b + m /\ \A u \in Nat : u * m >= b <=> hi <= u
    BY <1>0, <2>3, Ceiling
  <2>7. hi <= Steps BY <1>0, <2>4, <2>6
  <2>8. lo <= hi
    <3>1. hi * m \in Nat BY <1>0, Multiples
    <3>2. hi * m >= a BY <2>3, <2>6, <3>1
    <3> QED BY <2>5, <3>2
  <2>9. D = lo .. hi - 1
    <3>1. ASSUME NEW u \in 0 .. Steps - 1 PROVE picked[u] = t <=> lo <= u /\ u < hi
      <4>1. u \in Nat /\ u * m \in Nat BY <1>0, Multiples
      <4>2. PastAt(c, n, u, picked[u]) /\ picked[u] \in 1 .. n BY <1>2
      <4>3. (b > u * m <=> picked[u] <= t) /\ (a > u * m <=> picked[u] <= t - 1)
        BY <2>1, <4>2 DEF PastAt, a, b
      <4>4. u * m >= a <=> lo <= u BY <2>5, <4>1
      <4>5. u * m >= b <=> hi <= u BY <2>6, <4>1
      <4>6. picked[u] = t <=> picked[u] <= t /\ ~(picked[u] <= t - 1) BY <2>1, <4>2
      <4> QED BY <2>3, <4>1, <4>3, <4>4, <4>5, <4>6
    <3>2. ASSUME NEW u \in lo .. hi - 1 PROVE u \in 0 .. Steps - 1 /\ lo <= u /\ u < hi BY <1>0, <2>7
    <3>3. ASSUME NEW u \in 0 .. Steps - 1, lo <= u, u < hi PROVE u \in lo .. hi - 1 BY <3>3
    <3> QED BY <3>1, <3>2, <3>3
  <2>10. Cardinality(D) = hi - lo
    <3>1. lo \in Int /\ hi - 1 \in Int BY <1>0
    <3>2. Cardinality(lo .. hi - 1) = IF lo > hi - 1 THEN 0 ELSE (hi - 1) - lo + 1 BY <3>1, FS_Interval
    <3>3. Cardinality(D) = Cardinality(lo .. hi - 1) BY <2>9
    <3> HIDE DEF D
    <3>4. CASE lo = hi BY <3>2, <3>3, <3>4
    <3>5. CASE lo < hi BY <3>2, <3>3, <3>5
    <3> QED BY <2>8, <3>4, <3>5
  <2>11. (hi - lo) * m = hi * m - lo * m /\ hi * m \in Nat /\ lo * m \in Nat BY <1>0, Multiples
  <2>12. (hi - lo) * m - (b - a) \in -m .. m
    <3> DEFINE A == lo * m
               B == hi * m
    <3>1. A \in Nat /\ B \in Nat /\ a <= A /\ A < a + m /\ b <= B /\ B < b + m /\ m \in Nat
      BY <1>0, <2>3, <2>5, <2>6, <2>11
    <3>2. (hi - lo) * m = B - A BY <2>11
    <3> HIDE DEF A, B, m
    <3>3. (B - A) - (b - a) \in -m .. m BY <2>3, <3>1
    <3> QED BY <3>2, <3>3
  <2> QED BY <2>3, <2>10, <2>12
<1> QED BY <1>1, <1>2, <1>3 DEF InProportion

(* scan_dense finds the entry of a plain walk, whatever blocks it skips.   *)
Eligible(w, thr) == [t \in DOMAIN w |-> IF w[t] >= thr THEN w[t] ELSE 0]

(* Its first block that passes the draw holds the first entry past it.     *)
LEMMA DensePicks ==
  ASSUME DrawBlock \in Nat \ {0}, Steps \in Nat \ {0}, NEW w \in Seq(Nat), NEW thr \in Int, NEW c,
         Cumulates(Eligible(w, thr), Len(w), c), NEW u \in 0 .. Steps - 1,
         NEW t \in 1 .. Len(w), PastAt(c, Len(w), u, t)
  PROVE  Smp!ScanDense(w, thr, u) = t
<1> DEFINE n == Len(w)
           e == Eligible(w, thr)
           mass == Smp!Total(e)
           upTo(k) == Smp!Total(SubSeq(e, 1, IF k < n THEN k ELSE n))
           passes(k) == upTo(k) * Steps > u * mass
           size == DrawBlock
           first(b) == /\ passes((b + 1) * size)
                       /\ \A d \in 0 .. b - 1 : ~passes((d + 1) * size)
           block == CHOOSE b \in 0 .. n : first(b)
           found(i) == passes(i) /\ \A s \in block * size + 1 .. i - 1 : ~passes(s)
<1>0. n \in Nat /\ DOMAIN w = 1 .. n /\ DOMAIN e = 1 .. n /\ e \in [1 .. n -> Nat] /\ e \in Seq(Nat) /\ Len(e) = n
  <2>1. n \in Nat /\ DOMAIN w = 1 .. n /\ \A i \in 1 .. n : w[i] \in Nat OBVIOUS
  <2>2. e \in [1 .. n -> Nat] BY <2>1 DEF Eligible
  <2> HIDE DEF e
  <2>3. DOMAIN e = 1 .. n /\ e \in Seq(Nat) BY <2>1, <2>2
  <2>4. Len(e) = n BY <2>1, <2>3
  <2> QED BY <2>1, <2>2, <2>3, <2>4
<1>1. Smp!ScanDense(w, thr, u) = CHOOSE i \in block * size + 1 .. n : found(i)
  BY DEF Smp!ScanDense, Eligible
<1> HIDE DEF e
<1>2. \A k \in 0 .. n : SubSeq(e, 1, k) = [i \in 1 .. k |-> e[i]]
  <2> SUFFICES ASSUME NEW k \in 0 .. n PROVE SubSeq(e, 1, k) = [i \in 1 .. k |-> e[i]] OBVIOUS
  <2> QED BY <1>0
<1>3. \A k \in 0 .. n : Smp!Total([i \in 1 .. k |-> e[i]]) = c[k] BY DEF Cumulates, e
<1>4. mass = c[n]
  <2>1. [i \in 1 .. n |-> e[i]] = e BY <1>0
  <2>2. n \in 0 .. n BY <1>0
  <2> QED BY <1>3, <2>1, <2>2
<1>5. ASSUME NEW k \in Nat PROVE passes(k) <=> t <= k
  <2> DEFINE j == IF k < n THEN k ELSE n
  <2>1. j \in 0 .. n /\ (t <= j <=> t <= k) BY <1>0
  <2>2. upTo(k) = c[j] BY <1>2, <1>3, <2>1
  <2>3. c[j] * Steps > u * c[n] <=> t <= j BY <2>1 DEF PastAt
  <2> QED BY <1>4, <2>1, <2>2, <2>3
<1> HIDE DEF passes
<1>6. size \in Nat /\ size > 0 /\ t \in Nat /\ t > 0 /\ t <= n BY <1>0
<1>7. \A b \in Nat : (b + 1) * size \in Nat /\ b * size \in Nat /\ (b + 1) * size = b * size + size
  BY <1>6, Multiples
<1>8. \E b \in 0 .. n : first(b)
  <2> DEFINE B == {b \in Nat : passes((b + 1) * size)}
  <2>1. t - 1 \in B
    <3>1. t - 1 \in Nat /\ (t - 1) + 1 = t BY <1>6
    <3>2. t <= t * size BY <1>6, Multiples
    <3>3. t * size \in Nat BY <1>6, Multiples
    <3> QED BY <1>5, <3>1, <3>2, <3>3
  <2>2. PICK b \in B : \A d \in B : b <= d
    <3>1. B \in SUBSET Nat OBVIOUS
    <3> HIDE DEF B
    <3> QED BY <2>1, <3>1, LeastNat
  <2>3. b \in 0 .. n
    <3>1. b \in Nat /\ b <= t - 1 BY <2>1, <2>2
    <3> QED BY <1>0, <1>6, <3>1
  <2>4. \A d \in 0 .. b - 1 : ~passes((d + 1) * size)
    <3> SUFFICES ASSUME NEW d \in 0 .. b - 1, passes((d + 1) * size) PROVE FALSE OBVIOUS
    <3>1. d \in Nat /\ ~(b <= d) BY <2>3
    <3> QED BY <2>2, <3>1
  <2> QED BY <2>2, <2>3, <2>4
<1>9. block \in 0 .. n /\ first(block) BY <1>8
<1> HIDE DEF block
<1>10. block * size < t /\ block * size \in Nat /\ block \in Nat
  <2>1. block \in Nat BY <1>9
  <2>2. block * size \in Nat BY <1>7, <2>1
  <2>3. CASE block = 0
    <3>1. block * size = 0 BY <1>6, <2>3
    <3> QED BY <1>6, <2>1, <3>1
  <2>4. CASE block # 0
    <3>1. block - 1 \in 0 .. block - 1 /\ (block - 1) + 1 = block BY <2>1, <2>4
    <3>2. ~passes(block * size) BY <1>9, <3>1
    <3> QED BY <1>5, <1>6, <2>1, <2>2, <3>2
  <2> QED BY <2>3, <2>4
<1>11. t \in block * size + 1 .. n BY <1>0, <1>6, <1>10
<1>12. found(t)
  <2>1. passes(t) BY <1>5, <1>6
  <2>2. \A s \in block * size + 1 .. t - 1 : s \in Nat /\ ~(t <= s) BY <1>6, <1>10
  <2> QED BY <1>5, <2>1, <2>2
<1>13. \A i \in block * size + 1 .. n : found(i) => i = t
  <2> SUFFICES ASSUME NEW i \in block * size + 1 .. n, found(i) PROVE i = t OBVIOUS
  <2>1. i \in Nat BY <1>10
  <2>2. t <= i BY <1>5, <2>1
  <2>3. ~(t < i)
    <3> SUFFICES ASSUME t < i PROVE FALSE OBVIOUS
    <3>1. t \in block * size + 1 .. i - 1 BY <1>6, <1>10, <2>1
    <3> QED BY <1>12, <3>1
  <2> QED BY <1>6, <2>1, <2>2, <2>3
<1> HIDE DEF found
<1> QED BY <1>1, <1>11, <1>12, <1>13

(* The top-k list is walked entry by entry.                                *)
KeptWeight(kept) == [i \in DOMAIN kept |-> kept[i][1]]
KeptEntry(kept, u) ==
  CHOOSE n \in DOMAIN kept :
    LET passes(k) == Smp!Total([i \in 1 .. k |-> kept[i][1]]) * Steps > u * Smp!Total(KeptWeight(kept))
    IN passes(n) /\ \A m \in 1 .. n - 1 : ~passes(m)

(* That entry is the first past the draw.                                  *)
LEMMA KeptPicks ==
  ASSUME Steps \in Nat \ {0}, NEW kept, NEW n \in Nat, DOMAIN kept = 1 .. n,
         \A i \in 1 .. n : kept[i][1] \in Nat,
         NEW c, Cumulates(KeptWeight(kept), n, c), NEW u \in 0 .. Steps - 1,
         NEW t \in 1 .. n, PastAt(c, n, u, t)
  PROVE  KeptEntry(kept, u) = t
<1> DEFINE f == KeptWeight(kept)
           mass == Smp!Total(f)
           passes(k) == Smp!Total([i \in 1 .. k |-> kept[i][1]]) * Steps > u * mass
           found(i) == passes(i) /\ \A s \in 1 .. i - 1 : ~passes(s)
<1>1. f \in [1 .. n -> Nat] /\ \A k \in 0 .. n : [i \in 1 .. k |-> f[i]] = [i \in 1 .. k |-> kept[i][1]]
  <2>1. f = [i \in 1 .. n |-> kept[i][1]] BY DEF KeptWeight
  <2>2. \A k \in 0 .. n : \A i \in 1 .. k : i \in 1 .. n OBVIOUS
  <2> QED BY <2>1, <2>2
<1>2. KeptEntry(kept, u) = CHOOSE i \in 1 .. n : found(i) BY DEF KeptEntry
<1> HIDE DEF f
<1>3. \A k \in 0 .. n : Smp!Total([i \in 1 .. k |-> f[i]]) = c[k] BY DEF Cumulates, f
<1>4. mass = c[n]
  <2>1. [i \in 1 .. n |-> f[i]] = f /\ n \in 0 .. n BY <1>1
  <2> QED BY <1>3, <2>1
<1>5. ASSUME NEW k \in 0 .. n PROVE passes(k) <=> t <= k BY <1>1, <1>3, <1>4 DEF PastAt
<1> HIDE DEF passes
<1>6. found(t)
  <2>1. \A s \in 1 .. t - 1 : s \in 0 .. n /\ ~(t <= s) OBVIOUS
  <2> QED BY <1>5, <2>1
<1>7. ASSUME NEW i \in 1 .. n, found(i) PROVE i = t
  <2>1. t <= i BY <1>5, <1>7
  <2>2. ~(t < i)
    <3> SUFFICES ASSUME t < i PROVE FALSE OBVIOUS
    <3>1. t \in 1 .. i - 1 OBVIOUS
    <3>2. passes(t) BY <1>6
    <3> QED BY <1>7, <3>1, <3>2
  <2> QED BY <2>1, <2>2
<1> HIDE DEF found
<1> QED BY <1>2, <1>6, <1>7

(* A dense draw is in proportion to the eligible weights.                  *)
LEMMA DenseInProportion ==
  ASSUME Steps \in Nat \ {0}, DrawBlock \in Nat \ {0}, NEW w \in Seq(Nat), NEW thr \in Int,
         Smp!Total(Eligible(w, thr)) > 0
  PROVE  InProportion(Eligible(w, thr), Smp!Total(Eligible(w, thr)),
                      [u \in 0 .. Steps - 1 |-> Smp!ScanDense(w, thr, u)])
<1> DEFINE n == Len(w)
           e == Eligible(w, thr)
           picked == [u \in 0 .. Steps - 1 |-> Smp!ScanDense(w, thr, u)]
<1>1. n \in Nat /\ e \in [1 .. n -> Nat]
  <2>1. n \in Nat /\ DOMAIN w = 1 .. n /\ \A i \in 1 .. n : w[i] \in Nat OBVIOUS
  <2> QED BY <2>1 DEF Eligible
<1> HIDE DEF e
<1>2. PICK c : Cumulates(e, n, c) BY <1>1, SumsUp
<1>3. Smp!Total(e) = c[n]
  <2>1. [i \in 1 .. n |-> e[i]] = e /\ n \in 0 .. n BY <1>1
  <2> QED BY <1>2, <2>1 DEF Cumulates
<1>4. c[n] > 0 BY <1>3 DEF e
<1>5. ASSUME NEW u \in 0 .. Steps - 1, NEW t \in 1 .. n, PastAt(c, n, u, t) PROVE picked[u] = t
  <2>1. Cumulates(Eligible(w, thr), Len(w), c) BY <1>2 DEF e
  <2>2. Smp!ScanDense(w, thr, u) = t BY <1>5, <2>1, DensePicks
  <2> QED BY <2>2
<1> HIDE DEF picked, n
<1>6. InProportion(e, c[n], picked) BY <1>1, <1>2, <1>4, <1>5, InverseCdf
<1> QED BY <1>3, <1>6 DEF e, picked

(* However the walk is cut into blocks, and for any weights, threshold and *)
(* resolution of the draw, an entry of the whole vocabulary or of a top-k  *)
(* list is drawn as often as its weight says, give or take one draw, and   *)
(* never with no weight; and without top-k that is what `distribution`     *)
(* promises, where it promises anything.                                   *)
THEOREM DrawsInProportion ==
  Steps \in Nat \ {0} /\ DrawBlock \in Nat \ {0} =>
    /\ \A w \in Seq(Nat) : \A thr \in Int :
         LET e == Eligible(w, thr) IN
         Smp!Total(e) > 0 =>
           InProportion(e, Smp!Total(e), [u \in 0 .. Steps - 1 |-> Smp!ScanDense(w, thr, u)])
    /\ \A n \in Nat : \A kept :
         LET f == KeptWeight(kept) IN
         DOMAIN kept = 1 .. n /\ (\A i \in 1 .. n : kept[i][1] \in Nat) /\ Smp!Total(f) > 0 =>
           /\ InProportion(f, Smp!Total(f), [u \in 0 .. Steps - 1 |-> KeptEntry(kept, u)])
           /\ \A u : Smp!DrawKept(kept, u) = kept[KeptEntry(kept, u)][2]
    /\ \A v, par :
         LET d == Smp!Distribution(v, par)
             w == Smp!Weights(Smp!Sanitized(v))
         IN ~par.greedy /\ Smp!TopKOf(par, Len(v)) = 0 /\ w \in Seq(Nat) /\ Smp!Cutoff(w, par) \in Int
              /\ Smp!TopLogit(Smp!Sanitized(v)) # NegInf /\ Smp!Total(d) > 0 =>
            InProportion(d, Smp!Total(d), [u \in 0 .. Steps - 1 |-> Smp!SampleSplit(v, par, u)])
<1> SUFFICES ASSUME Steps \in Nat \ {0}, DrawBlock \in Nat \ {0}
             PROVE  /\ \A w \in Seq(Nat) : \A thr \in Int :
                         LET e == Eligible(w, thr) IN
                         Smp!Total(e) > 0 =>
                           InProportion(e, Smp!Total(e), [u \in 0 .. Steps - 1 |-> Smp!ScanDense(w, thr, u)])
                    /\ \A n \in Nat : \A kept :
                         LET f == KeptWeight(kept) IN
                         DOMAIN kept = 1 .. n /\ (\A i \in 1 .. n : kept[i][1] \in Nat) /\ Smp!Total(f) > 0 =>
                           /\ InProportion(f, Smp!Total(f), [u \in 0 .. Steps - 1 |-> KeptEntry(kept, u)])
                           /\ \A u : Smp!DrawKept(kept, u) = kept[KeptEntry(kept, u)][2]
                    /\ \A v, par :
                         LET d == Smp!Distribution(v, par)
                             w == Smp!Weights(Smp!Sanitized(v))
                         IN ~par.greedy /\ Smp!TopKOf(par, Len(v)) = 0 /\ w \in Seq(Nat) /\ Smp!Cutoff(w, par) \in Int
                              /\ Smp!TopLogit(Smp!Sanitized(v)) # NegInf /\ Smp!Total(d) > 0 =>
                            InProportion(d, Smp!Total(d), [u \in 0 .. Steps - 1 |-> Smp!SampleSplit(v, par, u)])
  OBVIOUS
<1>1. ASSUME NEW w \in Seq(Nat), NEW thr \in Int, Smp!Total(Eligible(w, thr)) > 0
      PROVE  InProportion(Eligible(w, thr), Smp!Total(Eligible(w, thr)),
                          [u \in 0 .. Steps - 1 |-> Smp!ScanDense(w, thr, u)])
  BY <1>1, DenseInProportion
<1>2. ASSUME NEW n \in Nat, NEW kept, DOMAIN kept = 1 .. n, \A i \in 1 .. n : kept[i][1] \in Nat,
             Smp!Total(KeptWeight(kept)) > 0
      PROVE  /\ InProportion(KeptWeight(kept), Smp!Total(KeptWeight(kept)),
                             [u \in 0 .. Steps - 1 |-> KeptEntry(kept, u)])
             /\ \A u : Smp!DrawKept(kept, u) = kept[KeptEntry(kept, u)][2]
  <2> DEFINE f == KeptWeight(kept)
             picked == [u \in 0 .. Steps - 1 |-> KeptEntry(kept, u)]
  <2>1. f \in [1 .. n -> Nat] BY <1>2 DEF KeptWeight
  <2>2. \A u : Smp!DrawKept(kept, u) = kept[KeptEntry(kept, u)][2]
    BY DEF Smp!DrawKept, KeptEntry, KeptWeight
  <2> HIDE DEF f
  <2>3. PICK c : Cumulates(f, n, c) BY <2>1, SumsUp
  <2>4. Smp!Total(f) = c[n]
    <3>1. [i \in 1 .. n |-> f[i]] = f /\ n \in 0 .. n BY <2>1
    <3> QED BY <2>3, <3>1 DEF Cumulates
  <2>5. c[n] > 0 BY <1>2, <2>4 DEF f
  <2>6. ASSUME NEW u \in 0 .. Steps - 1, NEW t \in 1 .. n, PastAt(c, n, u, t) PROVE picked[u] = t
    <3>1. Cumulates(KeptWeight(kept), n, c) BY <2>3 DEF f
    <3>2. KeptEntry(kept, u) = t BY <1>2, <2>6, <3>1, KeptPicks
    <3> QED BY <3>2
  <2> HIDE DEF picked
  <2>7. InProportion(f, c[n], picked) BY <2>1, <2>3, <2>5, <2>6, InverseCdf
  <2> QED BY <2>2, <2>4, <2>7 DEF f, picked
<1>3. ASSUME NEW v, NEW par, ~par.greedy, Smp!TopKOf(par, Len(v)) = 0,
             Smp!Weights(Smp!Sanitized(v)) \in Seq(Nat),
             Smp!Cutoff(Smp!Weights(Smp!Sanitized(v)), par) \in Int,
             Smp!TopLogit(Smp!Sanitized(v)) # NegInf, Smp!Total(Smp!Distribution(v, par)) > 0
      PROVE  InProportion(Smp!Distribution(v, par), Smp!Total(Smp!Distribution(v, par)),
                          [u \in 0 .. Steps - 1 |-> Smp!SampleSplit(v, par, u)])
  <2> DEFINE w == Smp!Weights(Smp!Sanitized(v))
             thr == Smp!Cutoff(w, par)
  <2>1. ~(Smp!TopKOf(par, Len(v)) > 0) BY <1>3
  <2>2. Smp!Distribution(v, par) = Eligible(w, thr) BY <1>3, <2>1 DEF Smp!Distribution, Eligible
  <2>3. \A u : Smp!SampleSplit(v, par, u) = Smp!ScanDense(w, thr, u) BY <1>3, <2>1 DEF Smp!SampleSplit
  <2>4. [u \in 0 .. Steps - 1 |-> Smp!SampleSplit(v, par, u)] = [u \in 0 .. Steps - 1 |-> Smp!ScanDense(w, thr, u)]
    BY <2>3
  <2>5. w \in Seq(Nat) /\ thr \in Int BY <1>3
  <2> HIDE DEF w, thr
  <2>6. Smp!Total(Eligible(w, thr)) > 0 BY <1>3, <2>2
  <2>7. InProportion(Eligible(w, thr), Smp!Total(Eligible(w, thr)),
                     [u \in 0 .. Steps - 1 |-> Smp!ScanDense(w, thr, u)]) BY <2>5, <2>6, DenseInProportion
  <2> QED BY <2>2, <2>4, <2>7
<1> QED BY <1>1, <1>2, <1>3
=============================================================================
