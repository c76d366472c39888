------------------------------ MODULE PositionCache ------------------------------
(***************************************************************************)
(* The key and value rows of a model without recurrent layers: the KvCache *)
(* of Qwen3State (models/q1) and the CpuRingCache of a Llama Cache         *)
(* (nn/fast_attention.rs).  Rows of all heads lie in one buffer and are    *)
(* never cleared; truncating and resetting do nothing.                     *)
(*                                                                         *)
(* A row is its head and the tokens it was computed from.                  *)
(***************************************************************************)
EXTENDS Integers, Sequences, FiniteSets, FiniteSetsExt

CONSTANTS
  Token,
  MaxLen,     \* context_length, max_position_embeddings
  Heads,      \* KV heads
  Initial,    \* KV_INITIAL_CAPACITY, RING_CACHE_INITIAL_CAPACITY
  MaxCopies   \* bound: snapshots kept

VARIABLES
  ring,     \* whether this is the Llama cache
  fed,      \* tokens the caller counts as held
  cap,      \* positions of the buffer
  buf,      \* the rows, [head][position]
  copies    \* snapshots
vars == <<ring, fed, cap, buf, copies>>

Zero == <<>>
KvHead == 0 .. Heads - 1
First(s, n) == SubSeq(s, 1, n)
Buffer(c, row(_, _)) == [i \in 0 .. Heads * c - 1 |-> row(i \div c, i % c)]

Init == ring \in BOOLEAN /\ fed = <<>> /\ cap = 0 /\ buf = <<>> /\ copies = {}

(* The rows in a larger buffer: the KvCache keeps those of the positions   *)
(* below keep, the ring all it has.                                        *)
RegrownM(c, keep) ==
  IF c = cap THEN buf
  ELSE Buffer(c, LAMBDA h, p : IF p < (IF ring THEN cap ELSE Min({keep, cap}))
                               THEN buf[p] ELSE Zero)
Regrown(c, keep) ==
  IF c = cap THEN buf
  ELSE Buffer(c, LAMBDA h, p : IF p < (IF ring THEN cap ELSE Min({keep, cap}))
                               THEN buf[h * cap + p] ELSE Zero)
Reserved(len) == IF len <= cap THEN cap ELSE Min({Max({len, 2 * cap, Initial}), MaxLen})

(* A forward makes room, stores its rows and attends to them and to those  *)
(* before.  A token outside the vocabulary is found after making room.     *)
Forward(tokens, good) ==
  LET c == Reserved(Len(fed) + Len(tokens))
      old == Regrown(c, Len(fed))
  IN /\ Len(fed) + Len(tokens) <= MaxLen
     /\ cap' = c
     /\ fed' = IF good THEN fed \o tokens ELSE fed
     /\ buf' = IF good
               THEN Buffer(c, LAMBDA h, p :
                      IF p \in Len(fed) .. Len(fed) + Len(tokens) - 1
                      THEN <<h, First(fed', p + 1)>> ELSE old[h * c + p])
               ELSE old
     /\ UNCHANGED <<ring, copies>>

(* truncate and reset always succeed: later rows are overwritten before    *)
(* they are read.                                                          *)
Truncate(len) == len < Len(fed) /\ fed' = First(fed, len) /\ UNCHANGED <<ring, cap, buf, copies>>

(* Copies are compact; none is made of positions without a row. *)
Snapshot(len) == Buffer(len, LAMBDA h, p : buf[h * cap + p])
TakeCopy(len) ==
  /\ len <= Len(fed) /\ len <= cap /\ Cardinality(copies) < MaxCopies
  /\ copies' = copies \cup {[of |-> First(fed, len), rows |-> Snapshot(len)]}
  /\ UNCHANGED <<ring, fed, cap, buf>>

(* A copy overwrites the first positions. *)
Restore(copy) ==
  LET len == Len(copy.of)
      c == Reserved(len)
      old == Regrown(c, 0)
  IN /\ cap' = c /\ fed' = copy.of
     /\ buf' = Buffer(c, LAMBDA h, p : IF p < len THEN copy.rows[h * len + p] ELSE old[h * c + p])
     /\ UNCHANGED <<ring, copies>>

(* A new state, for which the snapshots stay usable. *)
NewState == fed' = <<>> /\ cap' = 0 /\ buf' = <<>> /\ UNCHANGED <<ring, copies>>

Next ==
  \/ \E n \in 1 .. MaxLen : \E tokens \in [1 .. n -> Token], good \in BOOLEAN : Forward(tokens, good)
  \/ \E len \in 0 .. MaxLen : Truncate(len) \/ TakeCopy(len)
  \/ \E copy \in copies : Restore(copy)
  \/ NewState
Spec == Init /\ [][Next]_vars

-----------------------------------------------------------------------------
(* What attention reads below the length, and what a snapshot would bring  *)
(* back, are the rows of exactly the tokens held, each head's its own,     *)
(* whatever other tokens had been fed there before.                        *)
RowsOf(tokens, rows, stride) ==
  \A h \in KvHead : \A p \in 0 .. Len(tokens) - 1 :
    rows[h * stride + p] = <<h, First(tokens, p + 1)>>
RowsFed ==
  /\ RowsOf(fed, buf, cap)
  /\ \A copy \in copies : RowsOf(copy.of, copy.rows, Len(copy.of))
=============================================================================
