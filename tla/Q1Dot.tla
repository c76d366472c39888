--------------------------------- MODULE Q1Dot ---------------------------------
(***************************************************************************)
(* The integer part of the 1-bit kernels (bit1/q1_0.rs): the dot product   *)
(* of a sub-block of 32 sign bits with 32 int8 activations, as each kernel *)
(* computes it with its own layout and its own vector instructions; and    *)
(* the binary layers of bit1/, whose activations are signs too.            *)
(*                                                                         *)
(* bit and q are functions on 0 .. 31; a sign word is the function of its  *)
(* bits, a vector a function of its bytes.                                 *)
(***************************************************************************)
EXTENDS Simd, Sequences, SequencesExt

Elem == 0 .. 31

(* dot_rows_scalar: the sum of q where the bit is set and of -q elsewhere. *)
Dot(bit, q) == Total([e \in Elem |-> IF bit[e] = 1 THEN q[e] ELSE -q[e]])

-----------------------------------------------------------------------------
(* The copies of the activations the vector kernels read.                  *)

(* quantize_blocks: byte 4j + p holds element 8p + j. *)
Permuted(q) == [o \in Elem |-> q[8 * (o % 4) + (o \div 4)]]
NegSum(q) == -Total(q)

(* A permutation of the eight words, and a shuffle of each 16-byte half. *)
PermWords(v, order) == [o \in Elem |-> v[4 * order[(o \div 4) + 1] + (o % 4)]]
ShuffleHalves(v, tr) == [o \in Elem |-> v[16 * (o \div 16) + tr[(o % 16) + 1]]]
Order == <<0, 4, 1, 5, 2, 6, 3, 7>>
Pairs == <<0, 2, 4, 6, 1, 3, 5, 7>>
Transpose4 == <<0, 4, 8, 12, 1, 5, 9, 13, 2, 6, 10, 14, 3, 7, 11, 15>>

(* What packing four vectors of eight 32-bit values to bytes leaves: the   *)
(* packs work within 128-bit halves.                                       *)
Packs(q) == [o \in Elem |->
               q[8 * ((o % 16) \div 4) + 4 * (o \div 16) + (o % 4)]]

(* quantize_blocks_avx2: q, its permuted copy, and the negated sum from    *)
(* the bytes biased to be unsigned.                                        *)
StoredAvx2(q) == PermWords(Packs(q), Order)
PermutedAvx2(q) == ShuffleHalves(PermWords(StoredAvx2(q), Pairs), Transpose4)
NegSumAvx2(q) == 32 * 128 - Total([e \in Elem |-> StoredAvx2(q)[e] + 128])

-----------------------------------------------------------------------------
(* Sign bits expanded to bytes.                                            *)

(* A word shifted by n, right when n > 0, and then the bits at position m  *)
(* of every byte, as the value of the byte.                                *)
Expand(bit, n, m) ==
  [p \in 0 .. 3 |->
     LET b == 8 * p + m + n
     IN IF b \in Elem /\ bit[b] = 1 THEN 2 ^ m ELSE 0]

(* Group g, as bytes of 0 and 1 (the row kernels), and of 0 and 2 (the     *)
(* small-batch kernels, for_groups02, and the slabs of the tiled one,      *)
(* where e + e doubles the byte).                                          *)
Group01(bit, g) == Expand(bit, g, 0)
Group02M(bit, g) == Expand(bit, IF g = 0 THEN 0 ELSE g - 1, 1)
Group02(bit, g) == Expand(bit, g - 1, 1)
SlabGroup(bit, g) == [p \in 0 .. 3 |-> 2 * Group01(bit, g)[p]]

(* The four activations broadcast for group g. *)
Bcast(qp, g) == [p \in 0 .. 3 |-> qp[4 * g + p]]

-----------------------------------------------------------------------------
(* One sub-block in one 32-bit lane, group after group.                    *)

(* Sum over the groups with vpdpbusd, from acc; and with vpmaddubsw in     *)
(* 16-bit sums widened at the end.                                         *)
AllGroups == <<0, 1, 2, 3, 4, 5, 6, 7>>
SumDp(bytes, qp, groups, acc) ==
  FoldLeft(LAMBDA a, g : DpBusd(a, bytes[g], Bcast(qp, g)), [l \in {0} |-> acc], groups)[0]
SumMadd(bytes, qp) ==
  MaddOnes(FoldLeft(LAMBDA a, g : Add16(a, MaddUbs(bytes[g], Bcast(qp, g))),
                    [h \in 0 .. 1 |-> 0], AllGroups))[0]

(* The AVX-512 row kernels: S from bytes of 0 and 1, then 2 S - sum q. *)
DotAvx512Vnni(bit, q) ==
  LET S(groups) == SumDp([g \in 0 .. 7 |-> Group01(bit, g)], Permuted(q), groups, 0)
  IN 2 * (S(<<0, 2, 4, 6>>) + S(<<1, 3, 5, 7>>)) + NegSum(q)
DotAvx512Bw(bit, q) ==
  2 * SumMadd([g \in 0 .. 7 |-> Group01(bit, g)], Permuted(q)) + NegSum(q)

(* The small-batch and the tiled kernels start at -sum q and add bytes of  *)
(* 0 and 2.                                                                *)
DotMultiVnni(bit, q) == SumDp([g \in 0 .. 7 |-> Group02(bit, g)], Permuted(q), AllGroups, NegSum(q))
DotMulti(bit, q) == NegSum(q) + SumMadd([g \in 0 .. 7 |-> Group02(bit, g)], Permuted(q))
DotTileVnni(bit, q) == SumDp([g \in 0 .. 7 |-> SlabGroup(bit, g)], Permuted(q), AllGroups, NegSum(q))
DotTile(bit, q) == NegSum(q) + SumMadd([g \in 0 .. 7 |-> SlabGroup(bit, g)], Permuted(q))

-----------------------------------------------------------------------------
(* The AVX2 row kernel: eight sub-blocks of one row at a time.             *)

(* Lane j of the broadcast word is shifted by j: byte p of it is bit 8p+j. *)
PairSums(bit, q) ==
  MaddUbs([o \in Elem |-> Group01(bit, o \div 4)[o % 4]], Permuted(q))

(* The vphaddw tree over the pair sums p[0 .. 7]: element s of each half   *)
(* sums half of the elements of sub-block s.                               *)
HaddTree(p) ==
  HAdd16(HAdd16(HAdd16(p[0], p[1]), HAdd16(p[2], p[3])),
         HAdd16(HAdd16(p[4], p[5]), HAdd16(p[6], p[7])))

DotsAvx2(bits, qs) ==
  LET h == HaddTree([s \in 0 .. 7 |-> PairSums(bits[s], qs[s])])
  IN [s \in 0 .. 7 |-> 2 * Wrap16(h[s] + h[s + 8]) + NegSum(qs[s])]

(* Its scalar tail widens the pair sums at once. *)
DotAvx2Tail(bit, q) == 2 * Total(MaddOnes(PairSums(bit, q))) + NegSum(q)

-----------------------------------------------------------------------------
(* The transposes that bring one row to each lane.                         *)

(* 8 by 8, of the block sums of dot_rows_avx2 and the words of load_words8. *)
Transpose8(v) ==
  LET u == [i \in 0 .. 7 |-> IF i % 2 = 0 THEN UnpackLo(v[i], v[i + 1], 1)
                                         ELSE UnpackHi(v[i - 1], v[i], 1)]
      w == [i \in 0 .. 7 |->
              LET q == 4 * (i \div 4) + ((i % 4) \div 2)
              IN IF i % 2 = 0 THEN UnpackLo(u[q], u[q + 2], 2)
                             ELSE UnpackHi(u[q], u[q + 2], 2)]
  IN [s \in 0 .. 7 |-> Halves(w[s % 4], w[(s % 4) + 4], s \div 4)]

(* transpose16_epi32. *)
Transpose16(v) ==
  LET a == [i \in 0 .. 15 |-> LET q == 2 * (i \div 2) IN
              IF i % 2 = 0 THEN UnpackLo(v[q], v[q + 1], 1) ELSE UnpackHi(v[q], v[q + 1], 1)]
      b == [i \in 0 .. 15 |-> LET q == 4 * (i \div 4) + ((i % 4) \div 2) IN
              IF i % 2 = 0 THEN UnpackLo(a[q], a[q + 2], 2) ELSE UnpackHi(a[q], a[q + 2], 2)]
      c == [i \in 0 .. 15 |-> LET q == 8 * (i \div 8) + (i % 4) IN
              Lanes4(b[q], b[q + 4], (i \div 4) % 2)]
  IN [s \in 0 .. 15 |-> LET q == 4 * ((s \div 4) % 2) + (s % 4) IN
        Lanes4(c[q], c[q + 8], s \div 8)]

(* load_words8 and load_words16 leave zero for sub-blocks past cnt. *)
Words(v, cnt) ==
  LET kept == [r \in DOMAIN v |-> [s \in DOMAIN v |-> IF s < cnt THEN v[r][s] ELSE 0]]
  IN IF Width(v) = 8 THEN Transpose8(kept) ELSE Transpose16(kept)

-----------------------------------------------------------------------------
(* The binary layers of bit1/: vectors of +1 and -1 packed eight to a      *)
(* byte, their XNOR-popcount dot product, and the layers that cut its rows *)
(* into parallel chunks.  A packed vector is the function of its bits; it  *)
(* has whole bytes, so bits past the vector's length may hold anything.    *)
Bytes(n) == (n + 7) \div 8

(* pack_1bit: bit i of the vector is set for a weight that is not below 0. *)
Pack1(w) == [i \in 0 .. 8 * Bytes(Len(w)) - 1 |-> IF i < Len(w) /\ w[i + 1] >= 0 THEN 1 ELSE 0]

(* Equal bits of the bytes [from, to), what popcount(!(a ^ b)) counts.     *)
Matches(a, b, from, to) == Cardinality({i \in 8 * from .. 8 * to - 1 : a[i] = b[i]})

(* One 32-byte step of the AVX2 kernel: each byte's count looked up by     *)
(* nibbles, the bytes added up.                                            *)
NibbleCount == <<0, 1, 1, 2, 1, 2, 2, 3, 1, 2, 2, 3, 2, 3, 3, 4>>
Nibble(a, b, i) ==
  Total([j \in 0 .. 3 |-> IF a[i + j] = b[i + j] THEN 2 ^ j ELSE 0])
LookedUp(a, b, step) ==
  Total([x \in 0 .. 63 |-> NibbleCount[Nibble(a, b, 256 * step + 4 * x) + 1]])

(* finish: without the matches in the bits past the length, twice the      *)
(* matches less the length.                                                *)
PaddingMatchesM(a, b, n) == 0
PaddingMatches(a, b, n) ==
  IF n % 8 = 0 THEN 0 ELSE Cardinality({i \in n .. 8 * Bytes(n) - 1 : a[i] = b[i]})
Signed(matches, a, b, n) == 2 * (matches - PaddingMatches(a, b, n)) - n

XnorScalar(a, b, n) ==
  LET words == Bytes(n) \div 8
  IN Signed(Total([w \in 0 .. words - 1 |-> Matches(a, b, 8 * w, 8 * w + 8)])
              + Matches(a, b, 8 * words, Bytes(n)), a, b, n)
XnorAvx2(a, b, n) ==
  LET chunks == Bytes(n) \div 32
  IN Signed(Total([c \in 0 .. chunks - 1 |-> LookedUp(a, b, c)])
              + Matches(a, b, 32 * chunks, Bytes(n)), a, b, n)

-----------------------------------------------------------------------------
(* BitLinear::new concatenates the packed rows; row o is read back from    *)
(* bytes [o * bpr, (o + 1) * bpr).                                         *)
PackRows(rows) ==
  LET bpr == Bytes(Len(rows[1]))
  IN [x \in 0 .. 8 * bpr * Len(rows) - 1 |-> Pack1(rows[(x \div (8 * bpr)) + 1])[x % (8 * bpr)]]
PackedRow(packed, o, n) == [i \in 0 .. 8 * Bytes(n) - 1 |-> packed[8 * o * Bytes(n) + i]]

(* BitLinear::forward and BitMatMulOp::cpu_fwd: <<token, first row, rows>> *)
(* of each task.  One token is cut by the threads, more are a task each.   *)
ForwardTasks(tokens, outs, threads) ==
  LET chunk == Max({(outs + threads - 1) \div threads, 128}) IN
  IF tokens = 1
  THEN {<<0, c * chunk, Min({chunk, outs - c * chunk})>> : c \in 0 .. ((outs + chunk - 1) \div chunk) - 1}
  ELSE {<<t, 0, outs>> : t \in 0 .. tokens - 1}
OpTasks(tokens, outs) ==
  {<<t, 64 * c, Min({64, outs - 64 * c})>> : t \in 0 .. tokens - 1, c \in 0 .. ((outs + 63) \div 64) - 1}

=============================================================================
