------------------------------ MODULE RecurrentOps ------------------------------
(***************************************************************************)
(* The methods of Qwen35State (models/q1/qwen35.rs), the state of a hybrid *)
(* model: attention layers with KV rows per position and recurrent layers  *)
(* (conv history, DeltaNet matrices) that only know the tokens folded into *)
(* them so far.                                                            *)
(*                                                                         *)
(* A recurrent state is the sequence of tokens folded into it, a KV row    *)
(* the sequence of tokens it was computed from.  Rows are never cleared:   *)
(* those past the length stay behind until they are overwritten.           *)
(***************************************************************************)
EXTENDS Integers, Sequences

NoCkpt == [len |-> -1, rec |-> <<>>]
NoPend == [base |-> -1, tokens |-> <<>>]

(* kv: rows; rec: conv and ssm; len: positions fed; ckpt: checkpoint of    *)
(* the recurrent part; pend: a provisional forward to be committed.        *)
NewState == [kv |-> <<>>, rec |-> <<>>, len |-> 0, ckpt |-> NoCkpt, pend |-> NoPend]

HasPending(st) == st.pend.base >= 0

(* The first length positions of kv replaced by rows, or rows written at   *)
(* the end of prefix.                                                      *)
Overlaid(kv, rows) ==
  [i \in 1 .. (IF Len(kv) > Len(rows) THEN Len(kv) ELSE Len(rows)) |->
     IF i <= Len(rows) THEN rows[i] ELSE kv[i]]
RowsFor(kv, pos, prefix, tokens) ==
  [i \in 1 .. pos + Len(tokens) |->
     IF i <= pos THEN kv[i] ELSE prefix \o SubSeq(tokens, 1, i - pos)]

(* forward_tokens_with: the checks, then rows and recurrent update; of a   *)
(* provisional forward the recurrent update waits for commit.              *)
CanForward(st, pos, tokens, maxLen) ==
  ~HasPending(st) /\ tokens # <<>> /\ pos + Len(tokens) <= maxLen /\ pos = st.len

Forward(st, tokens) ==
  [st EXCEPT !.kv = Overlaid(@, RowsFor(@, st.len, st.rec, tokens)),
             !.rec = @ \o tokens,
             !.len = @ + Len(tokens)]

ForwardProvisional(st, tokens) ==
  [st EXCEPT !.kv = Overlaid(@, RowsFor(@, st.len, st.rec, tokens)),
             !.len = @ + Len(tokens),
             !.pend = [base |-> st.len, tokens |-> tokens]]

(* discard_pending *)
Discarded(st) ==
  IF HasPending(st) THEN [st EXCEPT !.len = st.pend.base, !.pend = NoPend] ELSE st

(* reset: rows stay, they are overwritten before they are read. *)
Reset(st) == [st EXCEPT !.rec = <<>>, !.len = 0, !.ckpt = NoCkpt, !.pend = NoPend]

Ok(st) == [st |-> st, ok |-> TRUE]
Refuse(st) == [st |-> st, ok |-> FALSE]

(* commit of a pending forward: replay_gdn folds in the kept tokens. *)
ReplayedM(st, len) == st.rec \o st.pend.tokens
Replayed(st, len) == st.rec \o SubSeq(st.pend.tokens, 1, len - st.pend.base)

CommitPending(st, len) ==
  IF len < st.pend.base \/ len > st.pend.base + Len(st.pend.tokens)
  THEN Refuse(Discarded(st))
  ELSE Ok([st EXCEPT !.rec = Replayed(st, len), !.len = len, !.pend = NoPend])

(* truncate without a pending forward. *)
RollBack(st, len) ==
  IF len = st.len THEN Ok(st)
  ELSE IF len = 0 THEN Ok(Reset(st))
  ELSE IF len < st.len /\ st.ckpt.len = len
       THEN Ok([st EXCEPT !.rec = st.ckpt.rec, !.len = len])
       ELSE Refuse(st)

Truncate(st, len) ==
  IF HasPending(st) /\ len > st.pend.base THEN CommitPending(st, len)
  ELSE RollBack(Discarded(st), len)

Commit(st, len) ==
  IF HasPending(st) THEN CommitPending(st, len) ELSE RollBack(st, len)

(* checkpoint commits a pending forward first. *)
SettledM(st) == Discarded(st)
Settled(st) == IF HasPending(st) THEN CommitPending(st, st.len).st ELSE st

Checkpoint(st) ==
  LET c == Settled(st)
  IN  [c EXCEPT !.ckpt = [len |-> c.len, rec |-> c.rec]]

(* snapshot: only at the current length and at the checkpoint. *)
CanSnapshot(st, len) ==
  /\ ~HasPending(st)
  /\ len = st.len \/ st.ckpt.len = len
  /\ len <= Len(st.kv)

Snapshot(st, len) ==
  [len |-> len, kv |-> SubSeq(st.kv, 1, len),
   rec |-> IF len = st.len THEN st.rec ELSE st.ckpt.rec]

(* restore of a snapshot of the same model. *)
Restore(st, snap) ==
  [kv |-> Overlaid(st.kv, snap.kv), rec |-> snap.rec, len |-> snap.len,
   ckpt |-> NoCkpt, pend |-> NoPend]

-----------------------------------------------------------------------------
(* The state holds exactly these tokens, and its checkpoint a prefix of    *)
(* them.                                                                   *)
Holds(st, tokens) ==
  /\ st.len = Len(tokens) /\ Len(st.kv) >= st.len
  /\ st.rec = (IF HasPending(st) THEN SubSeq(tokens, 1, st.pend.base) ELSE tokens)
  /\ HasPending(st) => st.rec \o st.pend.tokens = tokens
  /\ \A i \in 1 .. st.len : st.kv[i] = SubSeq(tokens, 1, i)

CheckpointWithin(st, tokens) ==
  st.ckpt # NoCkpt =>
    /\ st.ckpt.len <= Len(tokens)
    /\ HasPending(st) => st.ckpt.len <= st.pend.base
    /\ st.ckpt.rec = SubSeq(tokens, 1, st.ckpt.len)

SnapshotTrue(snap) ==
  /\ snap.len = Len(snap.rec) /\ Len(snap.kv) = snap.len
  /\ \A i \in 1 .. snap.len : snap.kv[i] = SubSeq(snap.rec, 1, i)
=============================================================================
