----------------------------- MODULE RecurrentState -----------------------------
(***************************************************************************)
(* One Qwen35State and its snapshots under every sequence of calls that    *)
(* the contract of CausalLM::forward allows, shown to keep the contract of *)
(* ModelState but for one step (DropsTail).                                *)
(***************************************************************************)
EXTENDS RecurrentOps, FiniteSets

CONSTANTS
  Token,
  MaxLen,    \* context_length
  MaxSnaps   \* bound: snapshots kept

ASSUME StateAssumption == MaxLen \in Nat /\ MaxSnaps \in Nat

VARIABLES
  st,      \* the state
  snaps,   \* snapshots taken of it
  ret      \* whether the last call succeeded
vars == <<st, snaps, ret>>

Chunks == UNION {[1 .. n -> Token] : n \in 1 .. MaxLen}

Init == st = NewState /\ snaps = {} /\ ret = TRUE

Return(result) == st' = result.st /\ ret' = result.ok /\ UNCHANGED snaps

Feed(tokens) ==
  /\ CanForward(st, st.len, tokens, MaxLen)
  /\ Return(Ok(Forward(st, tokens)))

FeedProvisional(tokens) ==
  /\ CanForward(st, st.len, tokens, MaxLen)
  /\ Return(Ok(ForwardProvisional(st, tokens)))

RollBackTo(len) == len <= st.len /\ Return(Truncate(st, len))
CommitTo(len) == Return(Commit(st, len))
SaveCheckpoint == st' = Checkpoint(st) /\ UNCHANGED <<snaps, ret>>
StartOver == Return(Ok(Reset(st)))

TakeSnapshot(len) ==
  /\ Cardinality(snaps) < MaxSnaps
  /\ snaps' = IF CanSnapshot(st, len) THEN snaps \cup {Snapshot(st, len)} ELSE snaps
  /\ ret' = CanSnapshot(st, len)
  /\ UNCHANGED st

LoadSnapshot == \E snap \in snaps : Return(Ok(Restore(st, snap)))

Next ==
  \/ \E tokens \in Chunks : Feed(tokens) \/ FeedProvisional(tokens)
  \/ \E len \in 0 .. MaxLen : RollBackTo(len) \/ CommitTo(len) \/ TakeSnapshot(len)
  \/ SaveCheckpoint \/ StartOver \/ LoadSnapshot

Spec == Init /\ [][Next]_vars

-----------------------------------------------------------------------------
(* The tokens the state stands for. *)
Fed == st.rec \o st.pend.tokens

(* KV rows, recurrent part, length and checkpoint agree on one sequence,   *)
(* whatever was rolled back, replayed, copied or overwritten.              *)
StateExact == Holds(st, Fed) /\ CheckpointWithin(st, Fed)

(* A snapshot's rows and recurrent part are of the same tokens. *)
SnapshotsExact == \A snap \in snaps : SnapshotTrue(snap)

Contract == INSTANCE ModelState WITH
  held <- Fed, base <- st.pend.base, mark <- st.ckpt.len,
  saved <- {snap.rec : snap \in snaps}

(* What the contract rules out and truncate does: where it refuses a       *)
(* length, it has dropped the provisional tail.                            *)
DropsTail ==
  /\ st.pend.base >= 0
  /\ \E len \in 0 .. st.pend.base : ~Contract!CanRollBack(len)
  /\ Fed' = Contract!Prefix(st.pend.base) /\ st'.pend.base = -1 /\ ret' = FALSE
  /\ UNCHANGED <<st.ckpt.len, snaps>>

(* The state keeps the contract of ModelState: every call leaves it as if  *)
(* only the tokens of the result had ever been fed, and what is refused    *)
(* changes nothing, but for DropsTail.                                     *)
KeepsContract ==
  Contract!StateInit /\ [][Contract!StateNext \/ DropsTail]_(Contract!stateVars)

(* A refused truncate leaves the state untouched (traits.rs:26-28).  It    *)
(* does not while a verification is pending.                               *)
RefusalLeavesState ==
  \A len \in 0 .. st.len :
    LET result == Truncate(st, len) IN ~result.ok => result.st = st
=============================================================================
