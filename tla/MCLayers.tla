-------------------------------- MODULE MCLayers --------------------------------
(***************************************************************************)
(* The fused calls of FusedMlp, and beside them one job at a time for the  *)
(* kernels: inputs at which the lengths, the tiles and the blocks do and   *)
(* do not divide, and at which the sums are largest.                       *)
(***************************************************************************)
EXTENDS FusedMlp, Sequences, FiniteSets

Q1D == INSTANCE Q1Dot
Q1G == INSTANCE Q1Gemm WITH TokenBlock <- 8, ChunkBlocks <- 2, NaN <- 1000, Inf <- 1001, Tiny <- 2
Lin == INSTANCE Linear WITH Block <- 8, MinChunk <- 3
Att == INSTANCE Attention WITH QB <- 2, KC <- 2, SC <- 4, Pad <- 4, QBlock <- 2, AttnChunk <- 3
Dense == INSTANCE Forward WITH
           QB <- 2, KC <- 2, SC <- 4, Pad <- 2, QBlock <- 2, AttnChunk <- 3, Layers <- <<"dense", "dense">>,
           NH <- 4, NKV <- 2, NV <- 0, NK <- 0, Kernel <- 1, Vocab <- 2, HeadRows <- 3
Hybrid == INSTANCE Forward WITH
            QB <- 2, KC <- 2, SC <- 4, Pad <- 2, QBlock <- 2, AttnChunk <- 3, Layers <- <<"gdn", "attn">>,
            NH <- 2, NKV <- 1, NV <- 4, NK <- 2, Kernel <- 3, Vocab <- 2, HeadRows <- 2

VARIABLE job    \* what a kernel is given, or nothing yet

Sum(S, f(_)) == Lin!MapThenSumSet(f, S)
Plain(a, w) == Sum(DOMAIN w, LAMBDA i : a[i] * w[i])

-----------------------------------------------------------------------------
(* Inputs.                                                                 *)

Elem == 0 .. 31
Only(e, v) == [i \in Elem |-> IF i = e THEN v ELSE 0]
Words == {[i \in Elem |-> 1], [i \in Elem |-> ((i * 5) \div 3) % 2], Only(7, 1), Only(31, 1)}
Blocks == {[i \in Elem |-> 127], [i \in Elem |-> -127], [i \in Elem |-> ((i * 37) % 255) - 127]}
            \cup {Only(e, 1) : e \in Elem}

Shapes == {[nsub |-> n, spa |-> p[1], apw |-> p[2]] : n \in {12, 20}, p \in {<<1, 1>>, <<1, 4>>, <<4, 1>>}}
            \cup {[nsub |-> 17, spa |-> 1, apw |-> 1]}
Products == [kind : {"product"}, cpu : {"Scalar", "Avx2", "AvxVnni", "Avx512Bw", "Avx512Vnni"},
             rows : {1, 20, 50}, n : {1, 3, 9, 18}, threads : {1, 3}, g : Shapes]

Lengths == {1, 3, 7, 8, 9, 15, 16, 17, 31, 33, 40, 65, 70, 129, 135}
Weights(k, n) == [i \in 1 .. n |-> ((i * k + (i \div 3)) % 3) - 1]
Acts(k, n) ==
  [i \in 1 .. n |-> IF k = 0 THEN -127 ELSE IF k = 1 THEN 127 ELSE ((i * 37 * k) % 255) - 127]
Wide(k, n) == [i \in 1 .. n |-> ((i * 53 * k) % 255) - 127]
Matrix(k, outs, ins) == [r \in 1 .. outs |-> Weights(k + r, ins)]

Q1Dots == job' \in [kind : {"q1"}, bit : Words, q : Blocks]
Q1Products == job' \in Products
TernaryDots == job' \in [kind : {"ternary"}, n : Lengths, k : 0 .. 3, w : {1, 2, 4}]
LinearDots == job' \in [kind : {"linear"}, n : Lengths, k : 0 .. 3, w : {1, 2}]
BinaryDots == job' \in [kind : {"binary"}, n : {1, 8, 63, 70, 256, 300}, k : 1 .. 3]
Forwards == job' \in [kind : {"forward"}, tokens : {1, 2}, outs : {1, 5, 9, 14}, threads : {1, 2, 4}]
Layouts == job' \in [kind : {"layout"}, dtype : {"upstream", "q1_0", "g128"}, rows : 1 .. 3, blocks : {1, 3}]
Quantizing == job' \in [kind : {"quantize"}, x : [1 .. 3 -> {-9, -1, 0, 4, 127, 1000, 1001}], per : 1 .. 3]
Stores == job' \in [kind : {"store"}, ins : {3, 5, 17}, outs : {4, 8, 20}, k : 1 .. 3]
Scaling == job' \in [kind : {"scale"}, row : [1 .. 3 -> -3 .. 3], given : {<<0, 0>>, <<1, 1>>, <<3, 2>>}]
Attentions == job' \in [kind : {"attention"}, n : 1 .. 5, pos : 0 .. 6, more : {<<1, 0>>, <<2, 5>>}]
Sizes == {<<0, 1>>, <<0, 3>>, <<1, 2>>, <<2, 1>>}
Models == job' \in [kind : {"model"}, hybrid : BOOLEAN,
                    sizes : (Sizes \X Sizes) \cup {<<<<1, 1>>, <<0, 2>>, <<2, 1>>>>, <<<<2, 3>>>>, <<<<0, 4>>>>}]

Job ==
  /\ job.kind = "none"
  /\ next = 0 /\ call = "qkv" /\ claim = [w \in Worker |-> Idle]
  /\ \/ Q1Dots \/ Q1Products \/ TernaryDots \/ LinearDots \/ BinaryDots
     \/ Forwards \/ Layouts \/ Quantizing \/ Stores \/ Scaling
     \/ Attentions \/ Models
  /\ UNCHANGED vars

LayersInit == Init /\ job = [kind |-> "none"]
LayersNext == Job \/ (job.kind = "none" /\ Next /\ UNCHANGED job)
LayersSpec == LayersInit /\ [][LayersNext]_<<vars, job>>

-----------------------------------------------------------------------------
(* Every kernel's integer dot product is the plain sum, whatever its       *)
(* layout, vectors, tails and saturating instructions: all of the kernels  *)
(* of bit1, bit1_58 and dynamic_linear, one of which the processor and the *)
(* environment choose.                                                     *)
Q1DotsExact ==
  LET d == Q1D!Dot(job.bit, job.q)
      others(s) == [t \in 0 .. 7 |-> IF t = s THEN job.bit ELSE [i \in Elem |-> 1]]
      qs(s) == [t \in 0 .. 7 |-> IF t = s THEN job.q ELSE [i \in Elem |-> t]]
  IN /\ {Q1D!DotAvx512Vnni(job.bit, job.q), Q1D!DotAvx512Bw(job.bit, job.q),
         Q1D!DotMultiVnni(job.bit, job.q), Q1D!DotMulti(job.bit, job.q),
         Q1D!DotTile(job.bit, job.q), Q1D!DotTileVnni(job.bit, job.q),
         Q1D!DotAvx2Tail(job.bit, job.q)} = {d}
     /\ \A s \in {0, 3, 7} : Q1D!DotsAvx2(others(s), qs(s))[s] = d
     /\ Q1D!StoredAvx2(job.q) = job.q /\ Q1D!PermutedAvx2(job.q) = Q1D!Permuted(job.q)
     /\ Q1D!NegSumAvx2(job.q) = Q1D!NegSum(job.q)
TernaryDotsExact ==
  \A w \in {Weights(job.w, job.n)}, a \in {Acts(job.k, job.n)} :
  \A b \in {Lin!Pack4(w, 1)}, b5 \in {Lin!Pack5(w, 1)} :
  \A st \in {Lin!FromBlob(Lin!EncodedTensor(<<w, Weights(5, job.n), w>>), 3)} :
    {Lin!Pack4Scalar(a, b, job.n), Lin!Pack4Avx512(a, b, job.n), Lin!Pack4Avx2(a, b, job.n),
     Lin!Pack4Lut(a, b, job.n), Lin!Pack4Hybrid(a, b, job.n), Lin!Pack4Vnni(a, b, job.n),
     Lin!Pack5Scalar(a, b5, job.n), Lin!DotSparse(st, 3, a, job.n, FALSE),
     Lin!DotSparse(st, 3, a, job.n, TRUE)} = {Plain(a, w)}
LinearDotsExact ==
  \A w \in {Wide(job.w, job.n)}, a \in {Acts(job.k, job.n)} :
  \A b \in {Lin!Int8Row(w)}, nib \in {Lin!Int4Row(w)} :
    /\ {Lin!DotI8Avx2(a, b), Lin!DotI8Avx512(a, b), Lin!DotF32Avx2(a, b),
        Lin!DotI8Vnni(Lin!ZeroPoint(a), b, Lin!RowSum(b))} = {Plain(a, b)}
    /\ Lin!DotInt4(nib, a, job.n)
         = Plain(a, [i \in 1 .. job.n |-> Lin!Steps(w[i], 7, Lin!Largest(w))])
BinaryDotsExact ==
  \A w \in {Wide(job.k, job.n)}, x \in {Acts(job.k + 1, job.n)} :
  \A p \in {Q1D!Pack1(w)}, q \in {Q1D!PackedRow(Q1D!PackRows(<<w, x>>), 1, job.n)} :
    {Q1D!XnorScalar(p, q, job.n), Q1D!XnorAvx2(p, q, job.n)}
      = {Sum(1 .. job.n, LAMBDA i : IF (w[i] >= 0) = (x[i] >= 0) THEN 1 ELSE -1)}
DotsExact ==
  /\ job.kind = "q1" => Q1DotsExact
  /\ job.kind = "ternary" => TernaryDotsExact
  /\ job.kind = "linear" => LinearDotsExact
  /\ job.kind = "binary" => BinaryDotsExact

Covers(tasks, outs) ==
  /\ UNION {Lin!CellsOf(t) : t \in tasks} = (0 .. job.tokens - 1) \X (0 .. outs - 1)
  /\ Sum(tasks, LAMBDA t : t[3]) = job.tokens * outs

(* However a product is cut into tasks, each element of the output is      *)
(* written by one task, from its own row and token, and adds the blocks of *)
(* the row in the order of the scalar kernel: every tier's result is the   *)
(* same to the bit.                                                        *)
CellsOnce ==
  /\ job.kind = "product" =>
       \A T \in {Q1G!Tasks(job)} :
         /\ Sum(T, LAMBDA t : Cardinality(t)) = job.rows * job.n
         /\ \A c \in UNION T : c.off = c.tok * job.rows + c.row /\ c.row < job.rows /\ c.tok < job.n
         /\ {c.y : c \in UNION T} = {Q1G!Canonical(job.g)}
  /\ job.kind = "forward" =>
       /\ Covers(Lin!LinearTasks(job.tokens, job.outs, job.threads), job.outs)
       /\ Covers(Lin!TernaryOpTasks(job.tokens, job.outs, job.threads), job.outs)
       /\ Covers(Q1D!ForwardTasks(job.tokens, 100 * job.outs, job.threads), 100 * job.outs)
       /\ Covers(Q1D!OpTasks(job.tokens, 100 * job.outs), 100 * job.outs)

(* What is stored is what was there: the planes of a 1-bit matrix address  *)
(* the block of the file each weight came from, ternary weights come back  *)
(* from every packing, from the checkpoint's striped one too, activations  *)
(* are quantized the same in any grouping, by either implementation, and   *)
(* sparse layers have the weights of dense ones.  The transposes bring one *)
(* row to each lane.                                                       *)
WordsKept(n, cnt) ==
  \A v \in {[r \in 0 .. n - 1 |-> [s \in 0 .. n - 1 |-> (n * r) + s + job.blocks]]} :
  \A w \in {Q1D!Words(v, cnt)} :
    \A s, r \in 0 .. n - 1 : w[s][r] = IF s < cnt THEN v[r][s] ELSE 0
Q1LayoutKept ==
  LET g == Q1G!Geometry[job.dtype]
      cols == g.elems * job.blocks
      data == [i \in 1 .. job.rows * job.blocks * g.bytes |-> i]
  IN \A w \in {Q1G!FromGguf(data, job.dtype, job.rows, cols)} :
       /\ Q1G!ToGguf(w, job.dtype) = data
       /\ \A r \in 0 .. job.rows - 1 : \A e \in {0, 7, 8, g.elems - 1, cols - 1} :
            LET at == (r * job.blocks + (e \div g.elems)) * g.bytes IN
            Q1G!Dequantized(w, r)[e] =
              <<<<at + g.scale + 1, at + g.scale + 2>>,
                <<at + g.bits + ((e % g.elems) \div 8) + 1, e % 8>>>>
       /\ \A r \in {job.rows - 1} :
            Q1G!Dequantized(Q1G!ConcatRows(<<w, w>>), job.rows + r) = Q1G!Dequantized(w, r)
       /\ \A n \in {8, 16} : \A cnt \in {job.rows, n} : WordsKept(n, cnt)
QuantizedAlike ==
  LET x == <<job.x, [i \in 1 .. 3 |-> job.x[4 - i]]>>
      blocks == <<Q1G!QuantizeBlock(x[1]), Q1G!QuantizeBlock(x[2])>>
  IN /\ Q1G!Quantize(x, 3, job.per, FALSE) = blocks
     /\ Q1G!Amax(job.x) > 2 => Q1G!Quantize(x, 3, job.per, TRUE) = blocks
StoresKept ==
  \A m \in {Matrix(job.k, job.outs, job.ins)} :
    /\ \A p \in {Lin!Prepacked(Lin!Stored(m, 4, 4), job.ins, job.outs, 4)} :
         \A r \in 1 .. job.outs : Lin!Unpack4(Lin!PackedRow(p, r, job.ins, 4), job.ins) = m[r]
    /\ job.outs % 5 = 0 =>
         \A p \in {Lin!Prepacked(Lin!Stored(m, 5, 3), job.ins, job.outs, 5)} :
           /\ \A r \in 1 .. job.outs : Lin!Unpack5(Lin!PackedRow(p, r, job.ins, 5), job.ins) = m[r]
           /\ job.ins % 5 = 0 => \A st \in {Lin!NewSparseFromPacked(p, job.ins, job.outs, 5)} :
                \A r \in 1 .. job.outs : Lin!DecodedRow(st, r, job.ins) = m[r]
    /\ \A st \in {Lin!NewSparse(m, <<1, 1>>)} :
         \A r \in 1 .. job.outs : Lin!DecodedRow(st, r, job.ins) = m[r]
SparseAsDense ==
  \A dense \in {Lin!NewDense(<<job.row>>, job.given, 4)},
     sparse \in {Lin!NewSparse(<<job.row>>, job.given)} :
    Lin!DecodedRow(sparse, 1, 3) = Lin!Unpack4(dense, 3)
LayoutsKept ==
  /\ job.kind = "layout" => Q1LayoutKept
  /\ job.kind = "quantize" => QuantizedAlike
  /\ job.kind = "store" => StoresKept
  /\ job.kind = "scale" => SparseAsDense

(* A row of attention has the same bits whether it is computed alone, with *)
(* the rows of its sequence or in a batch: it sees its own keys and the    *)
(* earlier ones, in chunks that depend on nothing else, and is written     *)
(* once.  The split-K path of other head dimensions writes the same cells. *)
Cache(k, len) == [h \in 0 .. 1 |-> [p \in 1 .. len |-> <<k, h, p>>]]
AttentionAlike ==
  LET given(k, n, pos) ==
        [q |-> [i \in 0 .. (n * 4) - 1 |-> <<k, pos + (i \div 4), i % 4>>], n |-> n, pos |-> pos,
         cache |-> Cache(k, pos + n + 1)]
      row(k, p) == Att!Flash(given(k, 1, p), 4, 2)
      whole(k, n, pos) ==
        {<<((t * 4) + c[1]), c[2]>> : <<t, c>> \in UNION {{t} \X row(k, pos + t) : t \in 0 .. n - 1}}
      calls == <<given(1, job.n, job.pos), given(2, job.more[1], job.more[2]), given(3, 2, job.pos)>>
      split == Att!SplitK(calls[1], 4, 2)
      alone == [t \in 0 .. job.n - 1 |-> Att!SplitK(given(1, 1, job.pos + t), 4, 2)]
  IN /\ Att!Flash(calls[1], 4, 2) = whole(1, job.n, job.pos)
     /\ Cardinality(whole(1, job.n, job.pos)) = 4 * job.n
     /\ Att!FlashBatch(calls, 4, 2)
          = <<whole(1, job.n, job.pos), whole(2, job.more[1], job.more[2]), whole(3, 2, job.pos)>>
     /\ \A c \in row(1, job.pos) :
          /\ c[2] # <<>> /\ \A i \in DOMAIN c[2] : c[2][i].q = <<1, job.pos, c[1]>>
          /\ Lin!FlattenSeq([i \in DOMAIN c[2] |-> Lin!FlattenSeq(c[2][i].chunks)])
               = SubSeq(Cache(1, job.pos + 1)[c[1] \div 2], 1, job.pos + 1)
     /\ split = UNION {{<<(t * 4) + c[1], c[2]>> : c \in alone[t]} : t \in DOMAIN alone}

(* A sequence's logits and state are the same whether it is forwarded      *)
(* alone or in a batch, at once or in parts, all rows or the last; and a   *)
(* provisional forward of which m tokens are committed leaves the state of *)
(* a forward of these m.                                                   *)
Tokens(k, from, n) == [t \in 1 .. n |-> (10 * k) + from + t]
ModelAlike(Forward(_, _), Batch(_), Commit(_, _, _), new) ==
  LET options == [all |-> TRUE, taps |-> <<2, 1>>, provisional |-> FALSE]
      plain == [options EXCEPT !.all = FALSE, !.taps = <<>>]
      state(k, n) == IF n = 0 THEN new
                     ELSE Forward([tokens |-> Tokens(k, 0, n), pos |-> 0, state |-> new], plain).state
      item(k) == [tokens |-> Tokens(k, job.sizes[k][1], job.sizes[k][2]), pos |-> job.sizes[k][1],
                  state |-> state(k, job.sizes[k][1])]
      prefix(it, m) == [it EXCEPT !.tokens = SubSeq(@, 1, m)]
      rest(it, m, st) == [tokens |-> SubSeq(it.tokens, m + 1, Len(it.tokens)), pos |-> it.pos + m, state |-> st]
  IN \A items \in {[k \in DOMAIN job.sizes |-> item(k)]} :
     /\ Batch(items) = [k \in DOMAIN items |-> LET r == Forward(items[k], plain) IN
                                               [logits |-> r.logits, state |-> r.state]]
     /\ \A it \in {items[1]} : \A whole \in {Forward(it, options)} :
          /\ Len(whole.logits) = 2 * Len(it.tokens)
          /\ Forward(it, plain).logits = SubSeq(whole.logits, Len(whole.logits) - 1, Len(whole.logits))
          /\ \A m \in 1 .. Len(it.tokens) - 1 : \A a \in {Forward(prefix(it, m), options)} :
               \A b \in {Forward(rest(it, m, a.state), options)} :
                 /\ a.logits \o b.logits = whole.logits /\ a.taps \o b.taps = whole.taps
                 /\ b.state = whole.state
          /\ \A p \in {Forward(it, [options EXCEPT !.provisional = TRUE])} :
               /\ p.logits = whole.logits
               /\ \A m \in 1 .. Len(it.tokens) :
                    \A x \in {Commit(p.state, it.pos, m)}, y \in {Forward(prefix(it, m), plain).state} :
                      x.gdn = y.gdn /\ x.len = y.len
ForwardsAlike ==
  /\ job.kind = "attention" => AttentionAlike
  /\ job.kind = "model" /\ ~job.hybrid =>
       ModelAlike(Dense!ForwardTokens, Dense!ForwardBatch, Dense!Committed, Dense!NewState)
  /\ job.kind = "model" /\ job.hybrid =>
       ModelAlike(Hybrid!ForwardTokens, Hybrid!ForwardBatch, Hybrid!Committed, Hybrid!NewState)

=============================================================================
