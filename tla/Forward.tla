--------------------------------- MODULE Forward ---------------------------------
(***************************************************************************)
(* The forward pass of the Qwen3 and Qwen3.5 models, of one sequence       *)
(* (models/q1/qwen3.rs, qwen35.rs) and of several at once (batch.rs).      *)
(*                                                                         *)
(* Weights are names and a vector of a head is one cell: the term of what  *)
(* it was computed from.  Buffers are flat, as in the code; a row-wise     *)
(* operation names its operands.  A layer is "dense", "attn" or "gdn".     *)
(* A state keeps for each layer its KV rows, or its conv history and       *)
(* DeltaNet states; len is the number of positions fed.                    *)
(***************************************************************************)
EXTENDS Attention

CONSTANTS
  Layers,
  NH, NKV,      \* heads and KV heads of attention
  NV, NK,       \* value and key heads of DeltaNet
  Kernel,       \* rows of the convolution
  Vocab, HeadRows    \* the LM head may have padding rows

Buf(n, w, cell(_, _)) == [i \in 0 .. (n * w) - 1 |-> cell(i \div w, i % w)]
Slice(buf, from, to) == [i \in 0 .. to - from - 1 |-> buf[from + i]]
Linear(name, x, n, w) == Buf(n, w, LAMBDA t, j : <<name, j, x[t]>>)
Norm(name, x) == [t \in DOMAIN x |-> <<name, x[t]>>]
Plus(x, y) == [t \in DOMAIN x |-> <<x[t], y[t]>>]

-----------------------------------------------------------------------------
(* Layout: the rows of item i are off[i] .. off[i] + len[i] - 1.           *)
OffM(items, i) == IF i = 1 THEN 0 ELSE Len(items[i - 1].tokens)
Off(items, i) == FoldSeq(LAMBDA it, n : n + Len(it.tokens), 0, SubSeq(items, 1, i - 1))
RowCount(items) == Off(items, Len(items)) + Len(Last(items).tokens)
Part(buf, items, i, w) == Slice(buf, Off(items, i) * w, (Off(items, i) + Len(items[i].tokens)) * w)
(* The item of a row. *)
ItemAt(items, t) ==
  CHOOSE i \in DOMAIN items : Off(items, i) <= t /\ t < Off(items, i) + Len(items[i].tokens)
(* rope_tables: the position of every row. *)
Tables(items) ==
  LET all == FlattenSeq([i \in DOMAIN items |-> [t \in 1 .. Len(items[i].tokens) |-> items[i].pos + t - 1]])
  IN [t \in 0 .. Len(all) - 1 |-> all[t + 1]]
(* Embedding::lookup of the concatenated tokens. *)
Embedded(items) ==
  LET all == FlattenSeq([i \in DOMAIN items |-> items[i].tokens]) IN
  [t \in 0 .. Len(all) - 1 |-> <<"embed", all[t + 1]>>]

-----------------------------------------------------------------------------
(* Q/K norm and RoPE of head j of a dense row [q heads; k heads; v heads]. *)
Prepared(qkv, table, w) ==
  [i \in DOMAIN qkv |-> IF i % w < NH THEN <<"rope", table[i \div w], <<"q_norm", qkv[i]>>>>
                        ELSE IF i % w < NH + NKV THEN <<"rope", table[i \div w], <<"k_norm", qkv[i]>>>>
                        ELSE qkv[i]]
(* The same of a gated row [q, gate of each head; k heads; v heads].       *)
PreparedGated(qkv, table, w) ==
  [i \in DOMAIN qkv |->
     IF i % w < 2 * NH THEN IF (i % w) % 2 = 0 THEN <<"rope", table[i \div w], <<"q_norm", qkv[i]>>>> ELSE qkv[i]
     ELSE IF i % w < (2 * NH) + NKV THEN <<"rope", table[i \div w], <<"k_norm", qkv[i]>>>> ELSE qkv[i]]

(* KvCache::store of len rows of a buffer at pos; k_at is where K starts.  *)
StoredKv(kv, rows, w, kAt, pos, len) ==
  [h \in 0 .. NKV - 1 |->
     [p \in 1 .. (IF Len(kv[h]) < pos + len THEN pos + len ELSE Len(kv[h])) |->
        IF p <= pos \/ p > pos + len THEN kv[h][p]
        ELSE <<rows[((p - 1 - pos) * w) + kAt + h], rows[((p - 1 - pos) * w) + kAt + NKV + h]>>]]

Cells(written) == [i \in {c[1] : c \in written} |-> (CHOOSE c \in written : c[1] = i)[2]]
Call(q, items, i, kv) ==
  [q |-> Part(q, items, i, NH), n |-> Len(items[i].tokens), pos |-> items[i].pos, cache |-> kv]
(* attend: every item against its own cache, in one pass.                  *)
Attend(q, items, kvs) ==
  LET outs == FlashBatch([i \in DOMAIN items |-> Call(q, items, i, kvs[i])], NH, NKV)
  IN Buf(RowCount(items), NH, LAMBDA t, j :
       Cells(outs[ItemAt(items, t)])[((t - Off(items, ItemAt(items, t))) * NH) + j])
(* attention() of a single sequence.                                       *)
Attention1(q, items, kvs) == Cells(Flash(Call(q, items, 1, kvs[1]), NH, NKV))
Attended(q, items, kvs, batched) == IF batched THEN Attend(q, items, kvs) ELSE Attention1(q, items, kvs)

Row(buf, t, w) == [j \in 1 .. w |-> buf[(t * w) + j - 1]]
Projected(name, buf, n, w) == [t \in 0 .. n - 1 |-> <<name, Row(buf, t, w)>>]

StoredKvs(li, qkv, w, kAt, items, states) ==
  [i \in DOMAIN items |-> StoredKv(states[i].kv[li], Part(qkv, items, i, w), w, kAt,
                                   items[i].pos, Len(items[i].tokens))]
WithKvs(states, li, kvs) == [i \in DOMAIN kvs |-> [states[i] EXCEPT !.kv[li] = kvs[i]]]

(* The attention of a layer over its rows: the rows to add and the caches. *)
DenseRows(li, q, kvs, items, states, batched) ==
  [out |-> Projected(<<"o", li>>, Attended(q, items, kvs, batched), RowCount(items), NH),
   states |-> WithKvs(states, li, kvs)]
DensePrepared(li, qkv, w, items, states, batched) ==
  DenseRows(li, Buf(RowCount(items), NH, LAMBDA t, j : qkv[(t * w) + j]),
            StoredKvs(li, qkv, w, NH, items, states), items, states, batched)
DenseAttention(li, hbuf, items, states, batched) ==
  LET w == NH + (2 * NKV)
  IN DensePrepared(li, Prepared(Linear(<<"qkv", li>>, hbuf, RowCount(items), w), Tables(items), w), w,
                   items, states, batched)
(* AttnMixer::forward, attn_prep: the output is gated by the other half of *)
(* each query's pair.                                                      *)
GatedOut(li, att, gate, n) == Projected(<<"o", li>>, [i \in DOMAIN gate |-> <<att[i], gate[i]>>], n, NH)
GatedRows(li, q, gate, kvs, items, states, batched) ==
  [out |-> GatedOut(li, Attended(q, items, kvs, batched), gate, RowCount(items)),
   states |-> WithKvs(states, li, kvs)]
GatedPrepared(li, qkv, w, items, states, batched) ==
  LET n == RowCount(items)
  IN GatedRows(li, Buf(n, NH, LAMBDA t, j : qkv[(t * w) + (2 * j)]),
               Buf(n, NH, LAMBDA t, j : qkv[(t * w) + (2 * j) + 1]),
               StoredKvs(li, qkv, w, 2 * NH, items, states), items, states, batched)
GatedAttention(li, hbuf, items, states, batched) ==
  LET w == (2 * NH) + (2 * NKV)
  IN GatedPrepared(li, PreparedGated(Linear(<<"qkv", li>>, hbuf, RowCount(items), w), Tables(items), w), w,
                   items, states, batched)

-----------------------------------------------------------------------------
(* Gated DeltaNet of one item: conv over the history and the new rows of   *)
(* qkvz ([q, k, v heads; z]), the delta rule per value head, the gate.     *)
ConvWidth == (2 * NK) + NV
Window(conv, qkvz, w, r) == IF r < Kernel - 1 THEN conv[r + 1] ELSE Row(qkvz, r - (Kernel - 1), w)
ConvOut(conv, qkvz, w, n) ==
  Buf(n, ConvWidth, LAMBDA t, ch :
    LET taps == [j \in 1 .. Kernel |-> Window(conv, qkvz, w, t + j - 1)[ch + 1]] IN
    IF ch < NK THEN <<"l2q", taps>> ELSE IF ch < 2 * NK THEN <<"l2k", taps>> ELSE <<"silu", taps>>)
(* update_conv_history: the last rows of [history; new]. *)
History(conv, rows) ==
  LET all == conv \o rows IN SubSeq(all, Len(rows) + 1, Len(all))
(* gdn_heads: delta_row of each token in turn; a head's state is what went *)
(* into it.                                                                *)
Folded(ssm, conv, ba, vh, n) ==
  ssm[vh] \o [t \in 1 .. n |->
    <<conv[((t - 1) * ConvWidth) + NK + (vh % NK)], conv[((t - 1) * ConvWidth) + (2 * NK) + vh],
      ba[((t - 1) * 2 * NV) + vh], ba[((t - 1) * 2 * NV) + NV + vh]>>]
HeadStates(ssm, conv, ba, n) == [vh \in 0 .. NV - 1 |-> Folded(ssm, conv, ba, vh, n)]
HeadOut(ssm, conv, ba, n) ==
  [i \in 0 .. (NV * n) - 1 |->
     <<conv[((i % n) * ConvWidth) + ((i \div n) % NK)], Folded(ssm, conv, ba, i \div n, (i % n) + 1)>>]

(* A provisional forward leaves conv and ssm, and keeps what replay_gdn    *)
(* needs to fold in the first m tokens later.                              *)
Kept(qkvz, conv, ba, w, n) == [rows |-> [t \in 1 .. n |-> SubSeq(Row(qkvz, t - 1, w), 1, ConvWidth)],
                               conv |-> conv, ba |-> ba]
Replayed(g, pend, m) ==
  [conv |-> History(g.conv, SubSeq(pend.rows, 1, m)), ssm |-> HeadStates(g.ssm, pend.conv, pend.ba, m)]
GdnGated(tmp, qkvz, w, n) ==
  Buf(n, NV, LAMBDA t, vh : <<"gated", tmp[(vh * n) + t], qkvz[(t * w) + ConvWidth + vh]>>)
GdnConvolved(g, qkvz, conv, ba, w, n) ==
  [o |-> GdnGated(HeadOut(g.ssm, conv, ba, n), qkvz, w, n), pend |-> Kept(qkvz, conv, ba, w, n)]
GdnItem(g, qkvz, ba, n) ==
  LET w == ConvWidth + NV IN GdnConvolved(g, qkvz, ConvOut(g.conv, qkvz, w, n), ba, w, n)
GdnOutAt(done, items, t, j) ==
  LET i == ItemAt(items, t) IN done[i].o[((t - Off(items, i)) * NV) + j]
GdnMixed(li, done, items, states, provisional) ==
  LET n == RowCount(items)
  IN [out |-> Projected(<<"out", li>>, Buf(n, NV, LAMBDA t, j : GdnOutAt(done, items, t, j)), n, NV),
      states |-> [i \in DOMAIN items |->
                    IF provisional THEN [states[i] EXCEPT !.pend[li] = done[i].pend]
                    ELSE [states[i] EXCEPT !.gdn[li] = Replayed(@, done[i].pend, Len(items[i].tokens))]]]
DeltaNet(li, hbuf, items, states, provisional) ==
  LET n == RowCount(items) w == ConvWidth + NV
      qkvz == Linear(<<"qkvz", li>>, hbuf, n, w)
      ba == Linear(<<"ba", li>>, hbuf, n, 2 * NV)
  IN GdnMixed(li, [i \in DOMAIN items |->
                     GdnItem(states[i].gdn[li], Part(qkvz, items, i, w), Part(ba, items, i, 2 * NV),
                             Len(items[i].tokens))], items, states, provisional)

-----------------------------------------------------------------------------
(* gate_up, swiglu_rows, down. *)
Mlp(li, hbuf, n) ==
  LET gu == Linear(<<"gate_up", li>>, hbuf, n, 2) IN
  [t \in 0 .. n - 1 |-> <<<<"down", li>>, <<"silu", gu[2 * t], gu[(2 * t) + 1]>>>>]

(* One layer on the rows of all items: the mixer, then the MLP, each added *)
(* to the residual.                                                        *)
Mixed(li, hbuf, items, states, provisional, batched) ==
  CASE Layers[li] = "gdn" -> DeltaNet(li, hbuf, items, states, provisional)
    [] Layers[li] = "attn" -> GatedAttention(li, hbuf, items, states, batched)
    [] Layers[li] = "dense" -> DenseAttention(li, hbuf, items, states, batched)
MlpAdded(li, x, n) == Plus(x, Mlp(li, Norm(<<"ffn_norm", li>>, x), n))
Tapped(y, states, taps) == [x |-> y, states |-> states, taps |-> Append(taps, y)]
Added(li, run, mixed, n) == Tapped(MlpAdded(li, Plus(run.x, mixed.out), n), mixed.states, run.taps)
Layer(li, run, items, provisional, batched) ==
  Added(li, run, Mixed(li, Norm(<<"attn_norm", li>>, run.x), items, run.states, provisional, batched),
        RowCount(items))
Run(items, provisional, batched) ==
  FoldLeft(LAMBDA run, li : Layer(li, run, items, provisional, batched),
           [x |-> Embedded(items), states |-> [i \in DOMAIN items |-> items[i].state], taps |-> <<>>],
           [li \in DOMAIN Layers |-> li])

(* trim_logit_rows: the padding rows of each row's logits go.              *)
Trimmed(logits) ==
  LET rows == Len(logits) \div HeadRows IN
  [i \in 1 .. rows * Vocab |-> logits[(((i - 1) \div Vocab) * HeadRows) + ((i - 1) % Vocab) + 1]]
HeadLogits(rows) ==
  [i \in 1 .. Len(rows) * HeadRows |-> <<"head", (i - 1) % HeadRows, <<"out_norm", rows[((i - 1) \div HeadRows) + 1]>>>>]

Fed(state, items, i) == [state EXCEPT !.len = items[i].pos + Len(items[i].tokens)]

(* copy_taps: for each row, its residual after each layer asked for.       *)
CopiedTaps(layers, residuals, n) ==
  [i \in 1 .. n * Len(layers) |-> residuals[layers[((i - 1) % Len(layers)) + 1]][(i - 1) \div Len(layers)]]

(* forward_tokens_with of one sequence: logits of all rows or the last,    *)
(* the taps of the given layers, the state.                                *)
TokensDone(item, opts, run) ==
  LET n == Len(item.tokens)
      rows == IF opts.all THEN n ELSE 1
  IN [logits |-> Trimmed(HeadLogits([r \in 1 .. rows |-> run.x[n - rows + r - 1]])),
      taps |-> CopiedTaps(opts.taps, run.taps, n),
      state |-> Fed(run.states[1], <<item>>, 1)]
ForwardTokens(item, opts) == TokensDone(item, opts, Run(<<item>>, opts.provisional, FALSE))

(* forward_batch: the logits of each item's last row (lm_head, last_rows), *)
(* and the states; a single item is forwarded alone.                       *)
Plain == [all |-> FALSE, taps |-> <<>>, provisional |-> FALSE]
Alone(r) == <<[logits |-> r.logits, state |-> r.state]>>
BatchDone(items, run) ==
  LET head == HeadLogits([i \in DOMAIN items |-> run.x[Off(items, i) + Len(items[i].tokens) - 1]])
  IN [i \in DOMAIN items |-> [logits |-> SubSeq(head, ((i - 1) * HeadRows) + 1, ((i - 1) * HeadRows) + Vocab),
                              state |-> Fed(run.states[i], items, i)]]
ForwardBatch(items) ==
  IF Len(items) = 1 THEN Alone(ForwardTokens(items[1], Plain)) ELSE BatchDone(items, Run(items, FALSE, TRUE))

(* commit of a pending provisional forward: m tokens of it are folded in.  *)
Committed(state, base, m) ==
  [state EXCEPT !.gdn = [li \in DOMAIN @ |-> IF Layers[li] = "gdn" THEN Replayed(@[li], state.pend[li], m) ELSE @[li]],
                !.len = base + m]

EmptyKv == [h \in 0 .. NKV - 1 |-> <<>>]
EmptyGdn == [conv |-> [r \in 1 .. Kernel - 1 |-> [ch \in 1 .. ConvWidth |-> "zero"]],
             ssm |-> [vh \in 0 .. NV - 1 |-> <<>>]]
NewState ==
  [kv |-> [li \in DOMAIN Layers |-> EmptyKv], gdn |-> [li \in DOMAIN Layers |-> EmptyGdn],
   pend |-> [li \in DOMAIN Layers |-> <<>>], len |-> 0]
=============================================================================
