-------------------------------- MODULE Ternary --------------------------------
(***************************************************************************)
(* The 1.58-bit weights of bit1_58/: ternary rows packed four or five to a *)
(* byte, or kept as the signs of their non-zero lanes, and every kernel's  *)
(* dot product with a row of int8 activations.  Rows, packed rows and      *)
(* activations are sequences; a block is 64 elements, here Block, a        *)
(* multiple of 8, and a vector of the narrower kernels half of one.        *)
(***************************************************************************)
EXTENDS Simd, Sequences, SequencesExt

CONSTANT Block

DivCeil(n, d) == (n + d - 1) \div d
Byte(v) == ((v + 128) % 256) - 128

-----------------------------------------------------------------------------
(* Packing.  w / s rounds away from zero at one half; a scale that is not  *)
(* positive leaves zeros.                                                  *)
Ternarized(w, s) ==
  IF s <= 0 THEN 0 ELSE IF 2 * w >= s THEN 1 ELSE IF 2 * w <= -s THEN -1 ELSE 0

(* Codes 0, 1, 2 for -1, 0, +1, `per` digits of `base` to a byte; the last *)
(* byte of a row is short.                                                 *)
Packed(row, s, per, base) ==
  [k \in 1 .. DivCeil(Len(row), per) |->
     Total([i \in 0 .. Min({per, Len(row) - per * (k - 1)}) - 1 |->
              (Ternarized(row[per * (k - 1) + i + 1], s) + 1) * base ^ i])]
Pack4(row, s) == Packed(row, s, 4, 4)
Pack5(row, s) == Packed(row, s, 5, 3)
PackAs(row, s, per) == IF per = 4 THEN Pack4(row, s) ELSE Pack5(row, s)

Digit(b, base, i) == (b \div base ^ i) % base
Decoded(code) == IF code = 3 THEN 0 ELSE code - 1
Unpack4(packed, len) ==
  [k \in 1 .. Min({len, 4 * Len(packed)}) |-> Decoded(Digit(packed[((k - 1) \div 4) + 1], 4, (k - 1) % 4))]
Unpack5(packed, len) ==
  [k \in 1 .. Min({len, 5 * Len(packed)}) |-> Decoded(Digit(packed[((k - 1) \div 5) + 1], 3, (k - 1) % 5))]
UnpackAs(packed, len, per) == IF per = 4 THEN Unpack4(packed, len) ELSE Unpack5(packed, len)

-----------------------------------------------------------------------------
(* The dot products, over n elements of the activations a.                 *)

Weight4(b, e) == Decoded(Digit(b[(e \div 4) + 1], 4, e % 4))

(* pack4_tail, and the scalar kernel, which is a tail from zero. *)
Tail4(a, b, from, n) == Total([e \in from .. n - 1 |-> a[e + 1] * Weight4(b, e)])
Pack4Scalar(a, b, n) == Tail4(a, b, 0, n)

(* Chunks of a width, several to a step, each of the step with its own     *)
(* accumulator: <<accumulator, chunk>>.  A step of `unroll` runs while one *)
(* fits; what is left goes one by one to accumulator 0.                    *)
Unrolled(chunks, unroll) ==
  {<<c % unroll, c>> : c \in 0 .. unroll * (chunks \div unroll) - 1}
    \cup {<<0, c>> : c \in unroll * (chunks \div unroll) .. chunks - 1}
Accumulated(Chunk(_), plan) == Total([p \in plan |-> Chunk(p[2])])

(* The signed kernels give each weight's byte the sign of its weight       *)
(* (blends of a and 0 - a, vpsignb), in bytes, and add them up.            *)
SignedByte(a, w) == Byte(a * w)
SignedChunk(a, w, width, c) ==
  LET s == [i \in 0 .. width - 1 |-> SignedByte(a[width * c + i + 1], w[width * c + i])]
  IN Total(MaddOnes(MaddUbs([i \in 0 .. width - 1 |-> 1], s)))

(* Byte i of a dword is the weight's code moved to byte i (vpmovzxbd and   *)
(* shifts), looked up; or the code in place, times four in odd bytes, of   *)
(* the packed byte spread over the dword (the LUT decoder).                *)
ByShifts(b, e) == <<-1, 0, 1, 0>>[Digit(b[(e \div 4) + 1], 4, e % 4) + 1]
ByLut(b, e) ==
  LET byte == b[(e \div 4) + 1]
      spread == IF e % 4 < 2 THEN byte ELSE byte \div 16
      idx == IF e % 2 = 0 THEN spread % 4 ELSE 4 * ((spread \div 4) % 4)
  IN <<-1, 0, 1, 0, 0, 0, 0, 0, 1, 0, 0, 0, 0, 0, 0, 0>>[idx + 1]

(* A kernel of signed chunks and a scalar tail; w[e] is element e's weight. *)
SignedKernel(a, b, n, w, width, unroll) ==
  LET chunks == n \div width
  IN Accumulated(LAMBDA c : SignedChunk(a, w, width, c), Unrolled(chunks, unroll))
       + Tail4(a, b, width * chunks, n)

Pack4Avx512(a, b, n) == SignedKernel(a, b, n, [e \in 0 .. n - 1 |-> ByShifts(b, e)], Block, 4)
Pack4Avx2(a, b, n) == SignedKernel(a, b, n, [e \in 0 .. n - 1 |-> ByShifts(b, e)], Block \div 2, 2)
Pack4Lut(a, b, n) == SignedKernel(a, b, n, [e \in 0 .. n - 1 |-> ByLut(b, e)], Block \div 2, 2)

(* The hybrid alternates the decoders within a step of four chunks.        *)
Pack4Hybrid(a, b, n) ==
  LET width == Block \div 2
      steps == 4 * ((n \div width) \div 4)
  IN SignedKernel(a, b, n,
       [e \in 0 .. n - 1 |->
          IF e < width * steps /\ (e \div width) % 2 = 1 THEN ByShifts(b, e) ELSE ByLut(b, e)],
       width, 4)

(* vpdpbusd: weights plus one are unsigned; the sum of the activations is  *)
(* taken off.  Steps of eight chunks, then at most one each of four, two   *)
(* and one.                                                                *)
VnniPlanM(chunks) ==
  {<<c % 8, c>> : c \in 0 .. 8 * (chunks \div 8) - 1}
    \cup {<<c % 4, c>> : c \in 8 * (chunks \div 8) .. 4 * (chunks \div 4) - 1}
VnniPlan(chunks) ==
  LET eights == 8 * (chunks \div 8)
      four == eights + (IF eights + 4 <= chunks THEN 4 ELSE 0)
      two == four + (IF four + 2 <= chunks THEN 2 ELSE 0)
  IN {<<c % 8, c>> : c \in 0 .. eights - 1}
       \cup {<<c - eights, c>> : c \in eights .. four - 1}
       \cup {<<4 + c - four, c>> : c \in four .. two - 1}
       \cup {<<6, c>> : c \in IF two < chunks THEN {two} ELSE {}}
Dp(u, s, lanes) == Total(DpBusd([l \in 0 .. lanes - 1 |-> 0], u, s))
Pack4Vnni(a, b, n) ==
  LET chunks == n \div Block
      Acts(c) == [i \in 0 .. Block - 1 |-> a[Block * c + i + 1]]
      Codes(c) == [i \in 0 .. Block - 1 |->
                     <<0, 1, 2, 1>>[Digit(b[((Block * c + i) \div 4) + 1], 4, i % 4) + 1]]
      Chunk(c) == Dp(Codes(c), Acts(c), Block \div 4)
                    - Dp([i \in 0 .. Block - 1 |-> 1], Acts(c), Block \div 4)
  IN Accumulated(Chunk, VnniPlan(chunks)) + Tail4(a, b, Block * chunks, n)

(* Five to a byte, a short last byte included. *)
Pack5Scalar(a, b, n) == Total([e \in 0 .. n - 1 |-> a[e + 1] * Decoded(Digit(b[(e \div 5) + 1], 3, e % 5))])

-----------------------------------------------------------------------------
(* XorSparse rows, as kept in memory: for each block the set of non-zero   *)
(* lanes and the set of the negative ones.                                 *)

(* ternary_dot_product_sparse: blocks of Block lanes, the last one short.  *)
SparseBlock(a, blk, base, n) ==
  Total([l \in 0 .. n - 1 |-> IF l \notin blk.mask THEN 0
                              ELSE IF l \in blk.neg THEN -a[base + l + 1] ELSE a[base + l + 1]])
SparseScalar(a, row, n) ==
  Total([k \in DOMAIN row |-> SparseBlock(a, row[k], Block * (k - 1), Min({Block, n - Block * (k - 1)}))])
SparseAvx512(a, row, n) ==
  Total([k \in DOMAIN row |->
    LET base == Block * (k - 1)
        lanes == [e \in base .. n - 1 |->
                    IF e - base \notin row[k].mask THEN 0 ELSE IF e - base \in row[k].neg THEN -1 ELSE 1]
    IN IF n - base < Block THEN SparseBlock(a, row[k], base, n - base)
       ELSE SignedChunk(a, lanes, Block, k - 1)])

-----------------------------------------------------------------------------
(* How ternary layers are built and stored: bit1_58/sparse.rs, the         *)
(* constructors of TernaryLinear, and the checkpoint's packing along the   *)
(* output dimension (loader/mod.rs).  Weight w of row r is matrix[r][w]; a *)
(* flat tensor is the rows one after the other.                            *)

Flat(rows) == FlattenSeq(rows)
Rows(flat, n) == [r \in 1 .. Len(flat) \div n |-> SubSeq(flat, n * (r - 1) + 1, n * r)]

-----------------------------------------------------------------------------
(* The XorSparse blob.  Its items are the fields of the format: the number *)
(* of blocks, a block's mask, and the sign bytes, each a set of bits.      *)

(* encode_sparse_row_into: sign j is that of the j-th non-zero lane.       *)
Rank(mask, l) == Cardinality({k \in mask : k < l})
EncodedBlock(vals) ==
  LET mask == {l \in 0 .. Len(vals) - 1 : vals[l + 1] # 0}
      signs == {Rank(mask, l) : l \in {k \in mask : vals[k + 1] < 0}}
  IN <<mask>> \o [i \in 1 .. DivCeil(Cardinality(mask), 8) |->
                    {s % 8 : s \in {x \in signs : x \div 8 = i - 1}}]
EncodedRow(vals) ==
  LET blocks == DivCeil(Len(vals), Block)
  IN <<blocks>> \o FlattenSeq([k \in 1 .. blocks |->
       EncodedBlock(SubSeq(vals, Block * (k - 1) + 1, Min({Block * k, Len(vals)})))])
EncodedTensor(rows) == FlattenSeq([r \in DOMAIN rows |-> EncodedRow(rows[r])])

(* One block read at position p: its lanes, and where the next one starts. *)
SignBytes(blob, p) == DivCeil(Cardinality(blob[p]), 8)
SignBit(blob, p, s) == (s % 8) \in blob[p + 1 + (s \div 8)]
BlockAt(blob, p) ==
  [mask |-> blob[p], neg |-> {l \in blob[p] : SignBit(blob, p, Rank(blob[p], l))}]
NextBlock(blob, p) == p + 1 + SignBytes(blob, p)

(* The positions of the blocks of the row at p, and of the row after it.   *)
BlockPositions(blob, p) ==
  FoldLeftDomain(LAMBDA ps, k : Append(ps, NextBlock(blob, ps[k])),
                 <<p + 1>>, [k \in 1 .. blob[p] |-> k])
NextRow(blob, p) == Last(BlockPositions(blob, p))

(* build_row_offsets and from_blob. *)
RowOffsets(blob, outs) ==
  FoldLeftDomain(LAMBDA ps, r : Append(ps, NextRow(blob, ps[r])), <<1>>, [r \in 1 .. outs - 1 |-> r])
FromBlob(blob, outs) ==
  LET offs == RowOffsets(blob, outs)
      row(r) == LET at == BlockPositions(blob, offs[r])
                IN [k \in 1 .. blob[offs[r]] |-> BlockAt(blob, at[k])]
  IN [num_blocks |-> blob[offs[1]], offs |-> offs, blob |-> blob,
      blocks |-> FlattenSeq([r \in 1 .. outs |-> row(r)])]
RowBlocks(st, r) == SubSeq(st.blocks, (r - 1) * st.num_blocks + 1, r * st.num_blocks)

(* decode_row. *)
DecodedRow(st, r, n) ==
  LET at == BlockPositions(st.blob, st.offs[r])
  IN [e \in 1 .. n |->
        LET p == at[((e - 1) \div Block) + 1]
            l == (e - 1) % Block
        IN IF l \notin st.blob[p] THEN 0
           ELSE IF SignBit(st.blob, p, Rank(st.blob[p], l)) THEN -1 ELSE 1]

-----------------------------------------------------------------------------
(* The layers.  A scale is a pair <<num, den>> of the step, or Own for the *)
(* mean magnitude of the row.                                              *)

Own == <<0, 0>>
RowScale(row, given) ==
  IF given # Own THEN given
  ELSE <<MapThenSumSet(LAMBDA i : IF row[i] < 0 THEN -row[i] ELSE row[i], DOMAIN row), Len(row)>>
AlreadyTernary(rows) == \A r \in DOMAIN rows : \A i \in DOMAIN rows[r] : rows[r][i] \in {-1, 0, 1}
Scale(rows, r, given) ==
  IF AlreadyTernary(rows) THEN (IF given = Own THEN <<1, 1>> ELSE given) ELSE RowScale(rows[r], given)
Scaled(row, s) == [i \in DOMAIN row |-> row[i] * s[2]]

(* TernaryLinear::new: each row packed at its scale. *)
NewDense(rows, given, per) ==
  FlattenSeq([r \in DOMAIN rows |->
    LET s == Scale(rows, r, given) IN PackAs(Scaled(rows[r], s), s[1], per)])

(* ternarize_row: rows that are ternary are kept as they are. *)
TernarizedRow(row, s, kept) ==
  IF kept THEN row
  ELSE [i \in DOMAIN row |-> IF s[1] = 0 THEN 0 ELSE
          LET q == Ternarized(row[i] * s[2], IF s[1] < 0 THEN -s[1] ELSE s[1])
          IN IF s[1] < 0 THEN -q ELSE q]
NewSparse(rows, given) ==
  FromBlob(EncodedTensor([r \in DOMAIN rows |->
             TernarizedRow(rows[r], Scale(rows, r, given), AlreadyTernary(rows))]), Len(rows))

(* new_sparse_from_packed: the packed rows unpacked as one flat tensor.    *)
NewSparseFromPacked(packed, ins, outs, per) ==
  FromBlob(EncodedTensor(Rows(UnpackAs(packed, ins * outs, per), ins)), outs)

(* The bytes of row r, and the row's dot product: dot_row.                 *)
PackedRow(packed, r, ins, per) ==
  LET bpr == DivCeil(ins, per) IN SubSeq(packed, (r - 1) * bpr + 1, r * bpr)
DotSparse(st, r, a, ins, avx512) ==
  IF avx512 THEN SparseAvx512(a, RowBlocks(st, r), ins) ELSE SparseScalar(a, RowBlocks(st, r), ins)

-----------------------------------------------------------------------------
(* Checkpoints pack `per` rows, a stripe of stored rows apart, in a byte:  *)
(* byte (p, i) holds w[j * stored + p][i] for each j.                      *)
Stored(rows, per, base) ==
  LET stored == Len(rows) \div per
  IN [k \in 1 .. stored * Len(rows[1]) |->
        LET p == (k - 1) \div Len(rows[1])
            i == ((k - 1) % Len(rows[1])) + 1
        IN MapThenSumSet(LAMBDA j : (rows[j * stored + p + 1][i] + 1) * base ^ j, 0 .. per - 1)]

(* get_prepacked_ternary and load_packed_ternary_weight: unpacked, then    *)
(* element k put in its row and column.                                    *)
TransposedM(vals, ins, outs, per) == Rows(vals, ins)
Transposed(vals, ins, outs, per) ==
  [o \in 1 .. outs |-> [i \in 1 .. ins |->
     LET stored == outs \div per
         j == (o - 1) \div stored
         p == (o - 1) % stored
     IN vals[(p * ins + (i - 1)) * per + j + 1]]]
Prepacked(bytes, ins, outs, per) ==
  LET rows == Transposed(UnpackAs(bytes, ins * outs, per), ins, outs, per)
  IN FlattenSeq([r \in 1 .. outs |-> PackAs(rows[r], 1, per)])

=============================================================================
