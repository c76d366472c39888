------------------------------ MODULE DraftContext ------------------------------
(***************************************************************************)
(* The context of a DSpark drafter (models/q1/dspark.rs): rows computed    *)
(* from the target's hidden states at the positions it has seen, kept in   *)
(* step with the target state through commits, new requests that keep a    *)
(* prefix or restore a cached one, and failures.                           *)
(*                                                                         *)
(* A row is its position and the tokens its hidden state was computed      *)
(* from.                                                                   *)
(***************************************************************************)
EXTENDS Integers, Sequences, FiniteSets, SequencesExt

CONSTANTS
  Token,
  MaxLen,      \* bound: positions
  MaxBatch,    \* bound: tokens of a forward
  FlushRows    \* FLUSH_ROWS

VARIABLES
  fed,     \* tokens the target state holds
  seq,     \* tokens the drafter knows of
  ctx,     \* rows projected
  pend     \* rows observed, not projected yet
vars == <<fed, seq, ctx, pend>>

Init == fed = <<>> /\ seq = <<>> /\ ctx = <<>> /\ pend = <<>>

First(s, n) == SubSeq(s, 1, n)
Lesser(a, b) == IF a < b THEN a ELSE b
Sequences(n) == UNION {[1 .. k -> Token] : k \in 0 .. n}
Common(s, t) == Len(LongestCommonPrefix({s, t}))

(* truncate_positions, truncate_pending: rows are in ascending order. *)
BeforeM(rows, len) ==
  First(rows, Cardinality({i \in DOMAIN rows : rows[i].pos + 1 < len}))
Before(rows, len) ==
  First(rows, Cardinality({i \in DOMAIN rows : rows[i].pos < len}))

(* A request starts from newFed: the rewind keeps the rows of the common   *)
(* prefix.  Positions without rows stay without.                           *)
Agreement(known, newFed) == Common(known, newFed)

Rewind(newFed) ==
  LET l == Agreement(seq, newFed) IN
  /\ ctx' = Before(ctx, l) /\ pend' = Before(pend, l)
  /\ seq' = newFed /\ fed' = newFed

(* The drafter of a failed request, or of one before a request without     *)
(* speculation, is not used again.                                         *)
StartNew(newFed) ==
  fed' = newFed /\ seq' = newFed /\ ctx' = <<>> /\ pend' = <<>>

(* The first keep tokens of a batch are committed and observed. *)
Rows(batch, keep) ==
  [i \in 1 .. keep |-> [pos |-> Len(fed) + i - 1, of |-> fed \o First(batch, i)]]

Flushed(rows) == IF Len(rows) >= FlushRows THEN <<>> ELSE rows

Observe(batch, keep) ==
  LET pos == Len(fed)
      seen == Before(pend, pos) \o Rows(batch, keep)
  IN
  /\ keep \in DOMAIN batch /\ pos + Len(batch) <= MaxLen
  /\ fed' = fed \o First(batch, keep)
  /\ seq' = First(seq, Lesser(pos, Len(seq))) \o First(batch, keep)
  /\ pend' = Flushed(seen)
  /\ ctx' = Before(ctx, pos) \o (IF pend' = <<>> THEN seen ELSE <<>>)

(* A draft projects what is pending first. *)
Draft == ctx' = ctx \o pend /\ pend' = <<>> /\ UNCHANGED <<fed, seq>>

Next ==
  \/ \E s \in Sequences(MaxLen) : Rewind(s) \/ StartNew(s)
  \/ \E batch \in Sequences(MaxBatch) : \E keep \in 1 .. MaxBatch : Observe(batch, keep)
  \/ Draft

Spec == Init /\ [][Next]_vars

-----------------------------------------------------------------------------
AllRows == ctx \o pend

(* Every row the drafter attends to was computed from what the target      *)
(* state holds now, each position at most once and in order.               *)
RowsTrue ==
  /\ \A i \in DOMAIN AllRows :
       /\ AllRows[i].pos < Len(fed)
       /\ AllRows[i].of = First(fed, AllRows[i].pos + 1)
  /\ \A i, j \in DOMAIN AllRows : i < j => AllRows[i].pos < AllRows[j].pos
  /\ seq = fed

(* A new request that keeps the drafter loses no row that still holds.     *)
KeepsTrueRows ==
  [][\A s \in Sequences(MaxLen) :
       Rewind(s) => \A i \in DOMAIN AllRows :
         AllRows[i].pos < Len(s) /\ AllRows[i].of = First(s, AllRows[i].pos + 1)
           => \E j \in DOMAIN AllRows' : AllRows'[j] = AllRows[i]]_vars
=============================================================================
