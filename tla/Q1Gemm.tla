-------------------------------- MODULE Q1Gemm --------------------------------
(***************************************************************************)
(* 1-bit weights, quantized activations and their products                 *)
(* (bit1/q1_0.rs).  First the stored form: GGUF blocks repacked into a     *)
(* plane of sign bits and a plane of scales, matrices stacked, activations *)
(* rounded to int8 blocks.  Bytes are names; an activation is an integer   *)
(* number of the smallest step considered, or NaN, or Inf for either       *)
(* infinity.                                                               *)
(*                                                                         *)
(* Then the matrix products: which kernel a call takes, how its work is    *)
(* cut into tasks, and in which order each kernel adds the blocks of a     *)
(* row.  A float is the expression that computes it: a row's result is the *)
(* sequence of its weight blocks' fused multiply-adds, each with the       *)
(* sequence of its activation blocks', each with the sub-blocks whose      *)
(* integer dots it sums.                                                   *)
(*                                                                         *)
(* A job has the processor tier, rows and tokens, threads, and g: nsub     *)
(* sub-blocks per row, spa per activation block, and apw activation blocks *)
(* per weight block.                                                       *)
(***************************************************************************)
EXTENDS Integers, Sequences, SequencesExt, FiniteSetsExt

CONSTANTS
  TokenBlock,   \* GEMM_TOKEN_BLOCK
  ChunkBlocks,  \* weight blocks per column chunk of the VNNI tile kernel
  NaN, Inf,
  Tiny          \* the largest magnitude whose inverse times 127 is infinite

(* gguf_q1_geometry: elements and bytes of a block, and where its scale    *)
(* and its bits start.                                                     *)
Geometry ==
  [upstream |-> [elems |-> 128, bytes |-> 18, scale |-> 0, bits |-> 2],
   q1_0     |-> [elems |-> 32, bytes |-> 6, scale |-> 0, bits |-> 2],
   g128     |-> [elems |-> 128, bytes |-> 18, scale |-> 16, bits |-> 0]]

(* A ByteBuf is a window of a shared buffer, or refused. *)
Refused == [refused |-> TRUE]
FromShared(owner, off, len) ==
  IF off + len > Len(owner) THEN Refused ELSE SubSeq(owner, off + 1, off + len)

Weight(rows, cols, block, bits, scales) ==
  IF /\ block \in {32, 128} /\ cols > 0 /\ cols % block = 0
     /\ Len(bits) = rows * (cols \div 8)
     /\ Len(scales) = rows * (cols \div block) * 2
  THEN [rows |-> rows, cols |-> cols, block |-> block, bits |-> bits, scales |-> scales]
  ELSE Refused

(* The bytes [at, at + n) of every block of data, in order. *)
Plane(data, bytes, at, n) ==
  [x \in 1 .. (Len(data) \div bytes) * n |->
     data[((x - 1) \div n) * bytes + at + ((x - 1) % n) + 1]]

FromGguf(data, dtype, rows, cols) ==
  LET g == Geometry[dtype] IN
  IF cols % g.elems # 0 \/ Len(data) # rows * (cols \div g.elems) * g.bytes THEN Refused
  ELSE Weight(rows, cols, g.elems, Plane(data, g.bytes, g.bits, g.elems \div 8),
              Plane(data, g.bytes, g.scale, 2))

ToGguf(w, dtype) ==
  LET g == Geometry[dtype]
      nbb == g.elems \div 8
      Byte(i, o) == IF o \in g.bits .. g.bits + nbb - 1
                    THEN w.bits[i * nbb + (o - g.bits) + 1]
                    ELSE w.scales[i * 2 + (o - g.scale) + 1]
  IN IF g.elems # w.block THEN Refused
     ELSE [x \in 1 .. ((w.rows * w.cols) \div g.elems) * g.bytes |->
             Byte((x - 1) \div g.bytes, (x - 1) % g.bytes)]

(* Matrices of one shape stacked (the fused projections). *)
ConcatRows(parts) ==
  IF parts = <<>> \/ \E i \in DOMAIN parts :
        parts[i].cols # parts[1].cols \/ parts[i].block # parts[1].block
  THEN Refused
  ELSE Weight(FoldLeft(LAMBDA n, p : n + p.rows, 0, parts), parts[1].cols, parts[1].block,
              FlattenSeq([i \in DOMAIN parts |-> parts[i].bits]),
              FlattenSeq([i \in DOMAIN parts |-> parts[i].scales]))

(* The two bytes of the scale of block b of row r, and the byte that holds *)
(* the sign of element e of the row, with the bit's place in it: what      *)
(* dequantize_row_into and every kernel address.                           *)
ScaleOf(w, r, b) ==
  LET i == (r * (w.cols \div w.block) + b) * 2 IN <<w.scales[i + 1], w.scales[i + 2]>>
SignOf(w, r, e) == <<w.bits[r * (w.cols \div 8) + (e \div 8) + 1], e % 8>>
Dequantized(w, r) ==
  [e \in 0 .. w.cols - 1 |-> <<ScaleOf(w, r, e \div w.block), SignOf(w, r, e)>>]

-----------------------------------------------------------------------------
(* Activations.                                                            *)

Magnitude(v) == IF v < 0 THEN -v ELSE v
Sign(v) == IF v < 0 THEN -1 ELSE IF v = 0 THEN 0 ELSE 1

(* num / den to the nearest integer, half to even. *)
RoundEven(num, den) ==
  LET f == num \div den
      r == 2 * (num % den)
  IN IF r < den \/ (r = den /\ f % 2 = 0) THEN f ELSE f + 1

Numbers(x) == {e \in DOMAIN x : x[e] \notin {NaN, Inf}}
Amax(x) == Max({Magnitude(x[e]) : e \in Numbers(x)} \cup {0})

(* quantize_block: d is in units of 1/127 of the activations' step. *)
Unquantized(x, d) == [q |-> [e \in DOMAIN x |-> 0], d |-> d]
QuantizeBlock(x) ==
  LET amax == Amax(x) IN
  IF \E e \in DOMAIN x : x[e] = Inf THEN Unquantized(x, NaN)
  ELSE IF amax = 0 THEN Unquantized(x, 0)
  ELSE [q |-> [e \in DOMAIN x |->
                 IF x[e] = NaN THEN 0
                 ELSE IF amax <= Tiny THEN 127 * Sign(x[e])
                 ELSE RoundEven(127 * x[e], amax)],
        d |-> amax]

(* quantize_blocks_avx2: the conversion instruction gives the smallest     *)
(* integer for an infinite or undefined product.                           *)
Clamped(v) == Max({Min({v, 127}), -127})
QuantizeBlockAvx2(x) ==
  LET amax == Amax(x) IN
  IF amax = 0 \/ \E e \in DOMAIN x : x[e] = Inf THEN QuantizeBlock(x)
  ELSE [q |-> [e \in DOMAIN x |->
                 IF x[e] = NaN THEN 0
                 ELSE Clamped(IF amax <= Tiny THEN -2147483647 - 1
                              ELSE RoundEven(127 * x[e], amax))],
        d |-> amax]

(* Q8Acts::quantize cuts the rows' blocks into groups of `per` for the     *)
(* threads; block i is that of row i \div nb, as row() reads it back.      *)
Quantize(rows, block, per, avx2) ==
  LET cols == Len(rows[1])
      nblk == Len(rows) * (cols \div block)
      flat == FlattenSeq(rows)
      Block(i) == SubSeq(flat, i * block + 1, (i + 1) * block)
      Each(x) == IF avx2 THEN QuantizeBlockAvx2(x) ELSE QuantizeBlock(x)
      Group(c) == [i \in 1 .. Min({per, nblk - c * per}) |-> Each(Block(c * per + i - 1))]
  IN FlattenSeq([c \in 1 .. (nblk + per - 1) \div per |-> Group(c - 1)])
ActRow(acts, t, nb) == SubSeq(acts, t * nb + 1, (t + 1) * nb)

-----------------------------------------------------------------------------
(* Products.                                                               *)

MultiMax == 8     \* MULTI_MAX_TOKENS
TiledMin == 17    \* GEMM_TILED_MIN_TOKENS

CeilDiv(a, b) == (a + b - 1) \div b
UpTo(n) == [i \in 1 .. n |-> i - 1]

-----------------------------------------------------------------------------
(* The canonical order, as dot_rows_scalar's three loops write it.         *)

ActBlock(g, j) == <<j, [s \in 1 .. g.spa |-> j * g.spa + s - 1]>>
WeightBlock(g, b) == <<b, [i \in 1 .. g.apw |-> ActBlock(g, b * g.apw + i - 1)]>>
WeightBlocks(g) == g.nsub \div (g.spa * g.apw)
Canonical(g) == [b \in 1 .. WeightBlocks(g) |-> WeightBlock(g, b - 1)]

Zero == [y |-> <<>>, part |-> <<>>, acc |-> <<>>]

(* The loop of the AVX2 and AVX-512 row kernels over the sub-blocks.       *)
RowStep(g, st, k) ==
  IF g.spa = 1
  THEN LET p == Append(st.part, <<k, <<k>>>>) IN
       IF (k + 1) % g.apw = 0
       THEN [st EXCEPT !.y = Append(@, <<k \div g.apw, p>>), !.part = <<>>]
       ELSE [st EXCEPT !.part = p]
  ELSE LET acc == Append(st.acc, k)
           j == k \div g.spa
       IN IF (k + 1) % g.spa = 0
          THEN [st EXCEPT !.y = Append(@, <<j \div g.apw, <<<<j, acc>>>>>>), !.acc = <<>>]
          ELSE [st EXCEPT !.acc = acc]

(* The scalar tail of the AVX2 kernel, from fresh partial sums.            *)
TailStep(g, st, k) ==
  LET acc == Append(st.acc, k)
      j == k \div g.spa
      p == Append(st.part, <<j, acc>>)
  IN IF (k + 1) % g.spa # 0 THEN [st EXCEPT !.acc = acc]
     ELSE IF (j + 1) % g.apw # 0 THEN [st EXCEPT !.acc = <<>>, !.part = p]
     ELSE [y |-> Append(st.y, <<j \div g.apw, p>>), part |-> <<>>, acc |-> <<>>]

RowKernel(isa, g) ==
  LET full == IF isa = "Avx2" THEN 8 * (g.nsub \div 8) ELSE g.nsub
      main == FoldLeft(LAMBDA st, k : RowStep(g, st, k), Zero, UpTo(full))
      tail == FoldLeft(LAMBDA st, i : TailStep(g, st, full + i), [Zero EXCEPT !.y = main.y],
                       UpTo(g.nsub - full))
  IN IF isa = "Scalar" THEN Canonical(g) ELSE tail.y

(* The small-batch kernel keeps its place in counters, and its vpdpbusd    *)
(* form takes two sub-blocks of a chunk at once when each is a block.      *)
Finish(g, st, acc) ==
  LET p == Append(st.part, <<st.j, acc>>)
      next == [st EXCEPT !.part = p, !.j = @ + 1, !.jc = @ + 1, !.sc = 0, !.acc = <<>>]
  IN IF st.jc + 1 < g.apw THEN next
     ELSE [next EXCEPT !.y = Append(@, <<st.bw, p>>), !.part = <<>>, !.jc = 0, !.bw = @ + 1]

RECURSIVE MultiFrom(_, _, _, _)
MultiFrom(isa, g, st, k) ==
  LET lanes == IF isa \in {"Avx2", "AvxVnni"} THEN 8 ELSE 16
      s == k % lanes
      cnt == Min({g.nsub - (k - s), lanes})
      acc == Append(IF st.sc = 0 THEN <<>> ELSE st.acc, k)
  IN IF k >= g.nsub THEN st.y
     ELSE IF isa \in {"AvxVnni", "Avx512Vnni"} /\ g.spa = 1 /\ s + 1 < cnt
     THEN MultiFrom(isa, g, Finish(g, Finish(g, st, <<k>>), <<k + 1>>), k + 2)
     ELSE IF st.sc + 1 = g.spa
     THEN MultiFrom(isa, g, Finish(g, st, acc), k + 1)
     ELSE MultiFrom(isa, g, [st EXCEPT !.sc = @ + 1, !.acc = acc], k + 1)

MultiKernel(isa, g) ==
  MultiFrom(isa, g, [y |-> <<>>, part |-> <<>>, acc |-> <<>>, sc |-> 0, j |-> 0, jc |-> 0, bw |-> 0], 0)

(* The tiled kernels nest their loops as the scalar one does; the VNNI one *)
(* takes the columns in chunks, over all of its tiles, whose sums wait in  *)
(* ybuf in between.  The result is by tile.                                *)
TileKernel(isa, g, tiles) ==
  LET kb == IF isa = "Avx512Vnni" THEN ChunkBlocks ELSE WeightBlocks(g)
      Blocks(b0) == [b \in 1 .. Min({kb, WeightBlocks(g) - b0}) |-> WeightBlock(g, b0 + b - 1)]
      Chunk(ybuf, i) == [c \in tiles |-> (IF i = 0 THEN <<>> ELSE ybuf[c]) \o Blocks(i * kb)]
  IN FoldLeft(Chunk, [c \in tiles |-> <<>>], UpTo(CeilDiv(WeightBlocks(g), kb)))

-----------------------------------------------------------------------------
(* Kernel choice: Isa::best, GemmKernel::best and best_small, gemm.        *)

RowIsa(cpu) == IF cpu = "AvxVnni" THEN "Avx2" ELSE cpu

Kernel(job) ==
  IF job.n = 1 \/ job.cpu = "Scalar" THEN "Rows"
  ELSE IF job.n < TiledMin THEN "Multi" ELSE "Tiled"

Lanes(isa) == CASE isa = "Scalar" -> 1
                [] isa \in {"Avx2", "AvxVnni"} -> 8
                [] isa \in {"Avx512Bw", "Avx512Vnni"} -> 16
Tile(isa) == IF isa = "Avx512Bw" THEN 8 ELSE 4
SlabRows(isa) == IF isa = "Avx512Vnni" THEN 3 * 16 ELSE Lanes(isa)

-----------------------------------------------------------------------------
(* Tasks.  What one writes is a set of [off, row, tok, y]: the offset in   *)
(* out, whose weights and whose activations were read, and the expression. *)

Cell(off, row, tok, y) == [off |-> off, row |-> row, tok |-> tok, y |-> y]

TaskRows(job, per, least) ==
  16 * CeilDiv(Max({CeilDiv(job.rows, job.threads * per), least}), 16)

(* Row groups of `lanes` rows from r0: lanes past the last row repeat it,  *)
(* and are not stored.                                                     *)
RowRead(r0, nr, lanes, i) ==
  LET base == lanes * (i \div lanes) IN r0 + base + Min({i % lanes, Min({lanes, nr - base}) - 1})

DotRows(job, r0, nr, tok, off) ==
  {Cell(off + i, RowRead(r0, nr, Lanes(RowIsa(job.cpu)), i), tok, y) :
     y \in {RowKernel(RowIsa(job.cpu), job.g)}, i \in 0 .. nr - 1}

(* gemv: the row kernel on chunks of the output. *)
Gemv(job) ==
  LET chunk == TaskRows(job, 4, 32)
      Task(c) == DotRows(job, c * chunk, Min({chunk, job.rows - c * chunk}), 0, c * chunk)
  IN IF chunk >= job.rows THEN {DotRows(job, 0, job.rows, 0, 0)}
     ELSE {Task(c) : c \in 0 .. CeilDiv(job.rows, chunk) - 1}

(* gemm_rows: a slab [n][cr] per chunk, then every slab copied out. *)
GemmRows(job) ==
  LET chunk == TaskRows(job, 2, 16)
      SlabLen(c) == Min({chunk * job.n, job.n * job.rows - c * chunk * job.n})
      Task(c) == LET cr == SlabLen(c) \div job.n IN
        UNION {DotRows(job, c * chunk, cr, t, t * job.rows + c * chunk)
                 : t \in 0 .. job.n - 1}
  IN {Task(c) : c \in 0 .. CeilDiv(job.rows, chunk) - 1}

(* gemm_multi: each chunk of rows, in passes of MultiMax tokens, stores rr *)
(* rows of each row group for each token of the pass.                      *)
GemmMulti(job) ==
  LET chunk == TaskRows(job, 4, 32)
      Pass(r0, nr, t0) ==
        {Cell((t0 + i) * job.rows + r0 + r, RowRead(r0, nr, Lanes(job.cpu), r),
              (t0 \div MultiMax) * MultiMax + i, y)
           : y \in {MultiKernel(job.cpu, job.g)},
             i \in 0 .. Min({job.n - t0, MultiMax}) - 1, r \in 0 .. nr - 1}
      Task(c) == UNION {Pass(c * chunk, Min({chunk, job.rows - c * chunk}), p * MultiMax)
                          : p \in 0 .. CeilDiv(job.n, MultiMax) - 1}
  IN {Task(c) : c \in 0 .. CeilDiv(job.rows, chunk) - 1}

(* gemm_tiled packs the activations by tile, [tile][sub-block][token], and *)
(* a slab's rows by lane; slots past the last token or row are zero.       *)
PackedActs(job) ==
  LET tile == Tile(job.cpu)
      slots == tile * job.g.nsub
  IN [x \in 0 .. CeilDiv(job.n, tile) * slots - 1 |->
        LET t == (x \div slots) * tile + (x % tile)
        IN IF t < job.n THEN {<<t, (x % slots) \div tile>>} ELSE {}]
TokenAt(job, pa, c, i) ==
  LET at(k) == pa[(c * job.g.nsub + k) * Tile(job.cpu) + i]
  IN {t \in 0 .. job.n - 1 : \A k \in 0 .. job.g.nsub - 1 : at(k) = {<<t, k>>}}
ClippedM(job, r0, rows) == rows
Clipped(job, r0, rows) == Min({rows, job.rows - r0})
SlabFill(job, r0) ==
  LET lanes == Lanes(job.cpu)
      valid == Clipped(job, r0, SlabRows(job.cpu))
      group(g) == Min({Max({valid - g * lanes, 0}), lanes})
  IN [l \in 0 .. SlabRows(job.cpu) - 1 |->
        IF l % lanes < group(l \div lanes) THEN {r0 + lanes * (l \div lanes) + (l % lanes)} ELSE {}]

(* An item is a range of token tiles and a range of slabs; rows past the   *)
(* last and tokens past the last are dropped when stored.                  *)
Items(job) ==
  LET nslab == CeilDiv(job.rows, SlabRows(job.cpu))
      ntiles == CeilDiv(job.n, Tile(job.cpu))
      tpb == CeilDiv(ntiles, CeilDiv(job.n, TokenBlock))
      ntb == CeilDiv(ntiles, tpb)
      wanted == Max({1, Min({CeilDiv(16 * job.threads, ntb), nslab})})
      spi == CeilDiv(nslab, wanted)
  IN {[tiles |-> tb * tpb .. Min({(tb + 1) * tpb, ntiles}) - 1,
       slabs |-> si * spi .. Min({(si + 1) * spi, nslab}) - 1]
        : tb \in 0 .. ntb - 1, si \in 0 .. CeilDiv(nslab, spi) - 1}
GemmTiled(job) ==
  LET srows == SlabRows(job.cpu)
      Slots(c) == {i \in 0 .. Tile(job.cpu) - 1 : c * Tile(job.cpu) + i < job.n}
      Store(pa, c, sl, y) ==
        UNION {{Cell((c * Tile(job.cpu) + i) * job.rows + sl * srows + l, row, tok, y) :
                  row \in SlabFill(job, sl * srows)[l], tok \in TokenAt(job, pa, c, i)}
                 : i \in Slots(c), l \in 0 .. Clipped(job, sl * srows, srows) - 1}
      Task(pa, item) ==
        UNION {UNION {Store(pa, c, sl, y[c]) : c \in item.tiles, sl \in item.slabs}
                 : y \in {TileKernel(job.cpu, job.g, item.tiles)}}
  IN UNION {{Task(pa, item) : item \in Items(job)} : pa \in {PackedActs(job)}}

Tasks(job) ==
  CASE job.n = 1 -> Gemv(job)
    [] job.n > 1 /\ Kernel(job) = "Rows" -> GemmRows(job)
    [] Kernel(job) = "Multi" -> GemmMulti(job)
    [] Kernel(job) = "Tiled" -> GemmTiled(job)

=============================================================================
