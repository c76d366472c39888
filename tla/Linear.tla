--------------------------------- MODULE Linear ---------------------------------
(***************************************************************************)
(* The linear layers a model is made of (nn/dynamic_linear.rs): int8, int4 *)
(* and f32 rows beside the ternary ones, their dot products, how a forward *)
(* shares its output rows out, and which layer a checkpoint's tensor       *)
(* becomes.  MinChunk is the 128 of the chunk sizes.                       *)
(***************************************************************************)
EXTENDS Ternary

CONSTANT MinChunk

-----------------------------------------------------------------------------
(* Int8: one scale per row, 127 steps to the largest magnitude; the sum of *)
(* the row is kept for the zero point.                                     *)

AbsOf(v) == IF v < 0 THEN -v ELSE v
Largest(row) == Max({0} \cup {AbsOf(row[i]) : i \in DOMAIN row})

(* v / (max / steps), half away from zero. *)
Steps(v, steps, max) ==
  IF max = 0 THEN 0 ELSE
  LET q == (2 * steps * AbsOf(v) + max) \div (2 * max) IN IF v < 0 THEN -q ELSE q
Int8Row(row) == [i \in DOMAIN row |-> Steps(row[i], 127, Largest(row))]
RowSum(q) == Total(q)

Product(a, b, from, to) == Total([e \in from .. to - 1 |-> a[e + 1] * b[e + 1]])

(* vpmaddwd on sign-extended halves: 16-bit products, summed in pairs. *)
MaddChunk(a, b, from, width) ==
  Total([i \in 0 .. width \div 2 - 1 |->
           a[from + 2 * i + 1] * b[from + 2 * i + 1] + a[from + 2 * i + 2] * b[from + 2 * i + 2]])
DotI8Avx2(a, b) ==
  LET width == Block \div 2
      chunks == Len(a) \div width
  IN Total([c \in 0 .. chunks - 1 |-> MaddChunk(a, b, width * c, width)])
       + Product(a, b, width * chunks, Len(a))
(* Chunks of a block, then one half block if it fits, then the rest. *)
DotI8Avx512(a, b) ==
  LET chunks == Len(a) \div Block
      half == Block * chunks + Block \div 2 <= Len(a)
  IN Total([c \in 0 .. chunks - 1 |-> MaddChunk(a, b, Block * c, Block)])
       + (IF half THEN MaddChunk(a, b, Block * chunks, Block \div 2) ELSE 0)
       + Product(a, b, Block * chunks + (IF half THEN Block \div 2 ELSE 0), Len(a))

(* vpdpbusd on activations with a zero point of 128: what the weights of   *)
(* the whole groups add is taken off, the tail is exact.                   *)
ZeroPoint(a) == [i \in DOMAIN a |-> a[i] + 128]
CoveredM(groups, b, sum) == sum
Covered(groups, b, sum) == sum - Total([e \in Block * groups .. Len(b) - 1 |-> b[e + 1]])
DotI8Vnni(u, b, sum) ==
  LET groups == Len(u) \div Block
      Bytes(x, g) == [i \in 0 .. Block - 1 |-> x[Block * g + i + 1]]
  IN Accumulated(LAMBDA g : Dp(Bytes(u, g), Bytes(b, g), Block \div 4), Unrolled(groups, 8))
       - 128 * Covered(groups, b, sum)
       + Total([e \in Block * groups .. Len(u) - 1 |-> (u[e + 1] - 128) * b[e + 1]])

(* f32, in integers: four accumulators over the width of Block \div 8      *)
(* lanes, single vectors, and a scalar rest.                               *)
DotF32Avx2(a, b) ==
  LET width == Block \div 8
      fours == Len(a) \div (4 * width)
      ones == (Len(a) - 4 * width * fours) \div width
      tail == width * (4 * fours + ones)
  IN Total([p \in (0 .. 3) \X (0 .. fours - 1) |->
              Product(a, b, width * (4 * p[2] + p[1]), width * (4 * p[2] + p[1] + 1))])
       + Product(a, b, 4 * width * fours, tail) + Product(a, b, tail, Len(a))

-----------------------------------------------------------------------------
(* Int4: seven steps, two's complement nibbles, the even element low; a    *)
(* row of odd length ends with a zero nibble.                              *)
Nibble4(v) == v % 16
Int4Row(row) ==
  LET q(c) == IF c > Len(row) THEN 0 ELSE Max({Min({Steps(row[c], 7, Largest(row)), 7}), -8})
  IN [k \in 1 .. DivCeil(Len(row), 2) |-> Nibble4(q(2 * k - 1)) + 16 * Nibble4(q(2 * k))]
Signed4(n) == IF n >= 8 THEN n - 16 ELSE n
DotInt4(b, a, n) ==
  Total([k \in 0 .. n \div 2 - 1 |-> a[2 * k + 1] * Signed4(b[k + 1] % 16) + a[2 * k + 2] * Signed4(b[k + 1] \div 16)])
    + (IF n % 2 = 1 THEN a[n] * Signed4(b[(n \div 2) + 1] % 16) ELSE 0)

-----------------------------------------------------------------------------
(* The forwards.  A single token's rows are cut in chunks, one task each;  *)
(* of several tokens each is a task: <<token, first row, rows>>.  Shapes   *)
(* the layer cannot take are refused.                                      *)
ShapeRefused(shape, ins) == shape = <<>> \/ Last(shape) # ins
TokensOf(shape) == FoldLeft(LAMBDA n, d : n * d, 1, Front(shape))
RowChunk(outs, threads) == Max({DivCeil(outs, threads), MinChunk})
LinearTasks(tokens, outs, threads) ==
  LET chunk == RowChunk(outs, threads) IN
  IF tokens = 1
  THEN {<<0, c * chunk, Min({chunk, outs - c * chunk})>> : c \in 0 .. DivCeil(outs, chunk) - 1}
  ELSE {<<t, 0, outs>> : t \in 0 .. tokens - 1}
CellsOf(task) == {<<task[1], o>> : o \in task[2] .. task[2] + task[3] - 1}

(* forward_with_quantized: one row that is already quantized. *)
QuantizedRefused(shape, quantized, ins) ==
  ShapeRefused(shape, ins) \/ TokensOf(shape) # 1 \/ quantized < ins

(* TernaryMatMulOp: a task per token and chunk, the chunk rounded down.    *)
OpChunk(outs, threads) == Max({outs \div Max({threads, 1}), MinChunk})
TernaryOpTasks(tokens, outs, threads) ==
  LET chunk == OpChunk(outs, threads)
  IN {<<t, c * chunk, Min({chunk, outs - c * chunk})>> :
        t \in 0 .. tokens - 1, c \in 0 .. DivCeil(outs, chunk) - 1}

=============================================================================
