-------------------------------- MODULE Attention --------------------------------
(***************************************************************************)
(* Causal attention of the 1-bit models: the blocked, batch-invariant one  *)
(* of models/q1/flash.rs and the split-K one of models/q1/mod.rs for other *)
(* head dimensions.                                                        *)
(*                                                                         *)
(* A vector of a head is one cell.  A cache gives each KV head the         *)
(* sequence of its keys and values; buffers are functions from 0.  A       *)
(* partial softmax is the query with the visible keys of each chunk in     *)
(* the order they are added, so that equal terms are equal bits.           *)
(***************************************************************************)
EXTENDS Integers, Sequences, SequencesExt

CONSTANTS
  QB,       \* query rows per item; 16 there
  KC,       \* keys per chunk; 64 there
  SC,       \* keys per super-chunk, a multiple of KC; 256 there
  Pad,      \* rows are padded to a multiple of it; 4 there
  QBlock,   \* ATTN_QBLOCK
  AttnChunk     \* ATTN_CHUNK

Below(a, b) == IF a < b THEN a ELSE b
Ceil(a, b) == (a + b - 1) \div b
Padded(n) == Ceil(n, Pad) * Pad
NonEmpty(s) == s # <<>>
CacheRows(cache, kvh, from, to) == SubSeq(cache[kvh], from + 1, to)

(* gather_q: the query of padded row r, or none. *)
GatherQ(q, t0, t1, kvh, heads, group) ==
  [r \in 0 .. Padded((t1 - t0) * group) - 1 |->
     IF r < (t1 - t0) * group
     THEN q[((t0 + (r \div group)) * heads) + (kvh * group) + (r % group)] ELSE "pad"]

(* fill_chunk, KvF32: chunk i of the keys below keys. *)
KeyChunk(cache, kvh, i, keys) == CacheRows(cache, kvh, i * KC, Below((i + 1) * KC, keys))

(* superchunk, softmax_row: row's partial over super-chunk c; it sees the  *)
(* keys below end.                                                         *)
Vis(end, c0, kc) == IF end < c0 THEN 0 ELSE Below(end - c0, kc)
SuperChunk(query, cache, kvh, c, keys, end) ==
  LET first == (c * SC) \div KC
      chunks == Ceil(Below((c + 1) * SC, keys), KC) - first
      seen(i) == SubSeq(KeyChunk(cache, kvh, first + i - 1, keys), 1,
                        Vis(end, (first + i - 1) * KC,
                            Below(KC, keys - ((first + i - 1) * KC))))
  IN [q |-> query, chunks |-> SelectSeq([i \in 1 .. chunks |-> seen(i)], NonEmpty)]

(* merge_row: the partials in order, without those that saw no key.        *)
MergeRow(parts) == SelectSeq(parts, LAMBDA part : part.chunks # <<>>)

(* block_item: rows t0 .. t1 - 1 of a KV head, every super-chunk.          *)
BlockItem(q, t0, t1, kvh, pos, heads, group, cache) ==
  LET rows == (t1 - t0) * group
      rp == Padded(rows)
      keys == pos + t1
      query == GatherQ(q, t0, t1, kvh, heads, group)
      part == [i \in 0 .. (Ceil(keys, SC) * rp) - 1 |->
                 SuperChunk(query[i % rp], cache, kvh, i \div rp, keys,
                            IF i % rp < rows THEN pos + t0 + ((i % rp) \div group) + 1 ELSE 0)]
  IN {<<(t * heads) + (kvh * group) + g,
        MergeRow([c \in 1 .. Ceil(keys, SC) |-> part[((c - 1) * rp) + ((t - t0) * group) + g]])>> :
        t \in t0 .. t1 - 1, g \in 0 .. group - 1}

(* chunk_item: the partials of all rows of a call over one super-chunk.    *)
ChunkItem(q, n, kvh, c, pos, heads, group, cache) ==
  LET query == GatherQ(q, 0, n, kvh, heads, group) IN
  [r \in 0 .. Padded(n * group) - 1 |->
     SuperChunk(query[r], cache, kvh, c, pos + n,
                IF r < n * group THEN pos + (r \div group) + 1 ELSE 0)]

(* The merge of the calls' partials, which lie one call after the other    *)
(* from base on; a call is [q, n, pos, cache].                             *)
MergeCall(call, base, partial, heads, group, nkv) ==
  LET rp == Padded(call.n * group)
      nsc == Ceil(call.pos + call.n, SC)
  IN {<<(t * heads) + (kvh * group) + g,
        MergeRow([c \in 1 .. nsc |-> partial[base + (((kvh * nsc) + c - 1) * rp) + (t * group) + g]])>> :
        t \in 0 .. call.n - 1, kvh \in 0 .. nkv - 1, g \in 0 .. group - 1}
Partials(call, heads, group, nkv) ==
  LET rp == Padded(call.n * group)
      nsc == Ceil(call.pos + call.n, SC)
      item == [i \in 0 .. (nkv * nsc) - 1 |->
                 ChunkItem(call.q, call.n, i \div nsc, i % nsc, call.pos, heads, group, call.cache)]
  IN [i \in 1 .. nkv * nsc * rp |-> item[(i - 1) \div rp][(i - 1) % rp]]

(* attention: the cells written, each with its value. *)
Flash(call, heads, nkv) ==
  LET group == heads \div nkv IN
  IF call.n > QB
  THEN UNION {BlockItem(call.q, b * QB, Below((b + 1) * QB, call.n), kvh, call.pos, heads, group, call.cache) :
                b \in 0 .. Ceil(call.n, QB) - 1, kvh \in 0 .. nkv - 1}
  ELSE LET p == Partials(call, heads, group, nkv) IN
       MergeCall(call, 0, [i \in 0 .. Len(p) - 1 |-> p[i + 1]], heads, group, nkv)

(* attention_batch: calls of few rows share one pass and one buffer.       *)
FlashBatch(calls, heads, nkv) ==
  LET group == heads \div nkv
      few == {i \in DOMAIN calls : calls[i].n <= QB}
      own == [i \in DOMAIN calls |-> IF i \in few THEN Partials(calls[i], heads, group, nkv) ELSE <<>>]
      all == FlattenSeq(own)
      partial == [i \in 0 .. Len(all) - 1 |-> all[i + 1]]
      base == [i \in DOMAIN calls |-> Len(FlattenSeq(SubSeq(own, 1, i - 1)))]
  IN [i \in DOMAIN calls |->
        IF i \in few THEN MergeCall(calls[i], base[i], partial, heads, group, nkv)
        ELSE Flash(calls[i], heads, nkv)]

(* The split-K path: items (block, KV head, chunk) for the chunks that the *)
(* block's last row sees, in slots of (row, head, chunk).                  *)
SplitK(call, heads, nkv) ==
  LET n == call.n pos == call.pos group == heads \div nkv
      top == Ceil(pos + n, AttnChunk)
      items == {i \in (0 .. Ceil(n, QBlock) - 1) \X (0 .. nkv - 1) \X (0 .. top - 1) :
                  i[3] < Ceil(pos + Below((i[1] + 1) * QBlock, n), AttnChunk)}
      seen(i, t) ==
        LET p0 == i[3] * AttnChunk
            p1 == Below((i[3] + 1) * AttnChunk, pos + Below((i[1] + 1) * QBlock, n))
        IN CacheRows(call.cache, i[2], p0, Below(pos + t + 1, p1))
      slots == UNION {{<<(((t * nkv) + i[2]) * top) + i[3], seen(i, t)>> :
                         t \in i[1] * QBlock .. Below((i[1] + 1) * QBlock, n) - 1} : i \in items}
      value(at) == LET v == {s[2] : s \in {x \in slots : x[1] = at}} IN
                   IF v = {} THEN <<>> ELSE CHOOSE x \in v : TRUE
  IN {<<(t * heads) + (kvh * group) + g,
        [q |-> call.q[(t * heads) + (kvh * group) + g],
         chunks |-> SelectSeq([c \in 1 .. top |-> value((((t * nkv) + kvh) * top) + c - 1)], NonEmpty)]>> :
        t \in 0 .. n - 1, kvh \in 0 .. nkv - 1, g \in 0 .. group - 1}
=============================================================================
