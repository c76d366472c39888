--------------------------------- MODULE Sampler ---------------------------------
(***************************************************************************)
(* Sampler (sampler.rs): penalties, the two ways a token is drawn, and the *)
(* distribution that speculative sampling asks for.  Logits are integers   *)
(* or one of NaN, Inf and NegInf; exp of the distance to the largest logit *)
(* is halved per step, as a whole number of parts of Head; temperature is  *)
(* one; top_p, min_p and the uniform draw are fractions of Head, Head and  *)
(* Steps.  Rounding is left out.                                           *)
(***************************************************************************)
EXTENDS Integers, Sequences, FiniteSets, SequencesExt, Functions

CONSTANTS
  NaN, Inf, NegInf,
  Peak,         \* the weight of the largest logit, a power of two; 1.0
  Steps,        \* values of the uniform draw
  TopBlock,     \* entries of a block that select_top_k may skip; 64 there
  SmallK,       \* the largest k of the bounded buffer; 256 there
  DrawBlock,    \* entries of a block of scan_dense; 512 there
  Band,         \* undecided weights at which the bisection stops; 512 there
  Stamps        \* values of the generation stamp; 2^32 there

Largest(S) == CHOOSE m \in S : \A n \in S : n <= m
Total(s) == FoldSeq(LAMBDA x, y : x + y, 0, s)

(* argmax: the first of the largest logits, NaN and -inf aside, or 0.      *)
Argmax(v) ==
  LET real == {i \in DOMAIN v : v[i] \notin {NaN, NegInf}} IN
  IF real = {} THEN 0 ELSE CHOOSE i \in real : \A j \in real : v[j] < v[i] \/ (v[j] = v[i] /\ i <= j)

-----------------------------------------------------------------------------
(* apply_penalties: counts are kept over calls and are those of this call  *)
(* only where the stamp says so.  mem = [stamp, count, gen].               *)
Fresh == [stamp |-> <<>>, count |-> <<>>, gen |-> 0]
Grown(mem, vocab) ==
  LET pad(s) == s \o [i \in 1 .. vocab - Len(s) |-> 0] IN
  IF Len(mem.stamp) < vocab THEN [mem EXCEPT !.stamp = pad(@), !.count = pad(@)] ELSE mem
NextGen(mem) ==
  LET g == (mem.gen + 1) % Stamps IN
  IF g = 0 THEN [mem EXCEPT !.gen = 1, !.stamp = [t \in DOMAIN @ |-> 0]] ELSE [mem EXCEPT !.gen = g]

Seen(mem, vocab, part, counted) ==
  FoldSeq(LAMBDA t, m :
            IF t > vocab THEN m
            ELSE LET old == IF m.stamp[t] = m.gen THEN m.count[t] ELSE 0 IN
                 [m EXCEPT !.stamp[t] = m.gen, !.count[t] = old + counted],
          mem, part)

(* The last penalty_last_n tokens of prompt and output, each in its part.  *)
Tail2(prompt, output, window) ==
  LET total == Len(prompt) + Len(output)
      start == total - IF window < total THEN window ELSE total
  IN <<SubSeq(prompt, start + 1, Len(prompt)),
       SubSeq(output, (IF start > Len(prompt) THEN start - Len(prompt) ELSE 0) + 1, Len(output))>>

Counted(mem, vocab, prompt, output, window) ==
  LET parts == Tail2(prompt, output, window) IN
  Seen(Seen(NextGen(Grown(mem, vocab)), vocab, parts[1], 0), vocab, parts[2], 1)

(* repetition is a divisor, frequency is per occurrence in the output.     *)
Penalized(v, p, seen, count) ==
  IF ~seen \/ v \in {NaN, Inf, NegInf} THEN v
  ELSE (IF v > 0 THEN v \div p.repetition ELSE v * p.repetition)
         - (IF count > 0 THEN count * p.frequency + p.presence ELSE 0)
Penalties(mem, logits, p) ==
  [t \in DOMAIN logits |-> Penalized(logits[t], p, mem.stamp[t] = mem.gen, mem.count[t])]

-----------------------------------------------------------------------------
(* scale_sanitize_max, exp_inplace. *)
Sanitized(v) == [t \in DOMAIN v |-> IF v[t] = NaN THEN NegInf ELSE v[t]]
TopLogit(v) == Largest({v[t] : t \in DOMAIN v})
Weight(x, max) ==
  IF x = max THEN Peak ELSE IF {x, max} \cap {Inf, NegInf} # {} THEN 0
  ELSE Peak \div (2 ^ (IF max - x < 8 THEN max - x ELSE 8))
Weights(v) == [t \in DOMAIN v |-> Weight(v[t], TopLogit(v))]

(* select_top_k: the buffer holds the k largest seen, least first; a block *)
(* whose largest entry is no better than the least is passed over.         *)
Insert(buf, v, tok, k) ==
  LET less == Cardinality({i \in DOMAIN buf : buf[i][1] < v})
      in(b, n) == SubSeq(b, 1, n) \o <<<<v, tok>>>> \o SubSeq(b, n + 1, Len(b))
  IN IF Len(buf) < k THEN in(buf, less)
     ELSE IF v > buf[1][1] THEN in(SubSeq(buf, 2, k), less - 1)
     ELSE buf
SkippedM(buf, block, k) == Len(buf) = k /\ \A e \in ToSet(block) : e[1] <= Last(buf)[1]
Skipped(buf, block, k) == Len(buf) = k /\ \A e \in ToSet(block) : e[1] <= buf[1][1]
BufferTopK(v, k) ==
  LET entries == [t \in DOMAIN v |-> <<v[t], t>>]
      blocks == [b \in 1 .. (Len(v) + TopBlock - 1) \div TopBlock |->
                   SubSeq(entries, (b - 1) * TopBlock + 1,
                          IF b * TopBlock < Len(v) THEN b * TopBlock ELSE Len(v))]
  IN FoldLeft(LAMBDA buf, block :
                IF Skipped(buf, block, k) THEN buf
                ELSE FoldLeft(LAMBDA b, e : Insert(b, e[1], e[2], k), buf, block),
              <<>>, blocks)
Descending(s) == SortSeq(s, LAMBDA a, b : a[1] > b[1])
SelectTopK(v, k) ==
  Descending(IF k <= SmallK THEN BufferTopK(v, k)
             ELSE SubSeq(Descending([t \in DOMAIN v |-> <<v[t], t>>]), 1, k))

(* The first entries that reach top_p of the mass, at least a positive     *)
(* one, then without those under min_p.                                    *)
Reaches(sum, topP, z) == sum > 0 /\ sum * Peak >= topP * z
Nucleus(ws, topP) ==
  LET n == {i \in DOMAIN ws : Reaches(Total(SubSeq(ws, 1, i)), topP, Total(ws))} IN
  IF topP >= Peak \/ n = {} THEN Len(ws) ELSE CHOOSE i \in n : \A j \in n : i <= j
TrimMin(ws, n, minP) == Largest({1} \cup {i \in 1 .. n : ws[i] >= minP})
KeptTopK(v, p) ==
  LET list == SelectTopK(v, p.topK)
      ws == [i \in DOMAIN list |-> Weight(list[i][1], TopLogit(v))]
      n == TrimMin(ws, Nucleus(ws, p.topP), p.minP)
  IN [i \in 1 .. n |-> <<ws[i], list[i][2]>>]

(* top_p_threshold: bisection over the values until few enough weights lie *)
(* in [lo, hi), which are then walked from the largest down.               *)
MassFrom(w, thr) == Total(SelectSeq(w, LAMBDA x : x >= thr))
CountFrom(w, thr) == Len(SelectSeq(w, LAMBDA x : x >= thr))
Bisected(w, topP, lo0) ==
  LET z == Total(w)
      run[r \in (0 .. Peak) \X (0 .. Peak + 1)] ==
        LET lo == r[1] hi == r[2] mid == lo + ((hi - lo) \div 2) IN
        IF CountFrom(w, lo) - CountFrom(w, hi) <= Band \/ hi - lo <= 1 THEN r
        ELSE IF Reaches(MassFrom(w, mid), topP, z) THEN run[<<mid, hi>>] ELSE run[<<lo, mid>>]
  IN run[<<lo0, Peak + 1>>]
Threshold(w, topP) ==
  LET z == Total(w)
      hint == ((Peak - topP) * z) \div (Peak * Len(w))
      lo0 == IF Reaches(MassFrom(w, hint), topP, z) THEN hint ELSE 0
      b == Bisected(w, topP, lo0)
      band == SortSeq(SelectSeq(w, LAMBDA x : x >= b[1] /\ x < b[2]), LAMBDA x, y : x > y)
      at == {i \in DOMAIN band : Reaches(MassFrom(w, b[2]) + Total(SubSeq(band, 1, i)), topP, z)}
  IN IF CountFrom(w, b[1]) - CountFrom(w, b[2]) > Band \/ at = {} THEN b[1]
     ELSE band[CHOOSE i \in at : \A j \in at : i <= j]
Cutoff(w, p) == Largest({IF p.topP < Peak THEN Threshold(w, p.topP) ELSE 0, p.minP})

(* scan_dense: whole blocks are passed over by their sums; u is the draw.  *)
(* A draw past the total, by rounding, would take the last entry.          *)
ScanDense(w, thr, u) ==
  LET elig == [t \in DOMAIN w |-> IF w[t] >= thr THEN w[t] ELSE 0]
      mass == Total(elig)
      upTo(n) == Total(SubSeq(elig, 1, IF n < Len(w) THEN n ELSE Len(w)))
      passes(n) == upTo(n) * Steps > u * mass
      block == CHOOSE b \in 0 .. Len(w) : passes((b + 1) * DrawBlock)
                 /\ \A c \in 0 .. b - 1 : ~passes((c + 1) * DrawBlock)
  IN CHOOSE t \in block * DrawBlock + 1 .. Len(w) :
       passes(t) /\ \A s \in block * DrawBlock + 1 .. t - 1 : ~passes(s)
DrawKept(kept, u) ==
  LET mass == Total([i \in DOMAIN kept |-> kept[i][1]])
      passes(n) == Total([i \in 1 .. n |-> kept[i][1]]) * Steps > u * mass
  IN kept[CHOOSE n \in DOMAIN kept : passes(n) /\ \A m \in 1 .. n - 1 : ~passes(m)][2]

-----------------------------------------------------------------------------
(* sample_split and distribution, after the penalties; 0 is an error.      *)
(* Probabilities are weights over their sum.                               *)
TopKOf(p, vocab) == IF p.topK >= vocab THEN 0 ELSE p.topK
SampleSplit(v, p, u) ==
  IF p.greedy THEN Argmax(v)
  ELSE LET s == Sanitized(v) IN
       IF TopLogit(s) = NegInf THEN 0
       ELSE IF TopKOf(p, Len(v)) > 0 THEN DrawKept(KeptTopK(s, p), u)
       ELSE ScanDense(Weights(s), Cutoff(Weights(s), p), u)
Distribution(v, p) ==
  LET s == Sanitized(v) none == [t \in DOMAIN v |-> 0] IN
  IF p.greedy THEN IF Argmax(v) = 0 THEN none ELSE [none EXCEPT ![Argmax(v)] = 1]
  ELSE IF TopLogit(s) = NegInf THEN none
  ELSE IF TopKOf(p, Len(v)) > 0
       THEN LET kept == KeptTopK(s, p) IN
            [t \in DOMAIN v |-> Total(SelectSeq([i \in DOMAIN kept |-> IF kept[i][2] = t THEN kept[i][1] ELSE 0],
                                                LAMBDA x : x > 0))]
       ELSE LET w == Weights(s) IN [t \in DOMAIN w |-> IF w[t] >= Cutoff(w, p) THEN w[t] ELSE 0]
=============================================================================
