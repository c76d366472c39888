------------------------------- MODULE ModelState -------------------------------
(***************************************************************************)
(* The contract of ModelState (models/traits.rs), for a state that cannot  *)
(* roll back freely: it holds a sequence of tokens, may be marked at one   *)
(* length, may have a provisional tail, and can be copied and restored.    *)
(* Where traits.rs is silent (a commit outside its range, a checkpoint of  *)
(* a provisional tail, the mark after rolling back to nothing) it is what  *)
(* the code does.                                                          *)
(***************************************************************************)
EXTENDS Integers, Sequences

CONSTANTS Token, MaxLen

VARIABLES
  held,    \* tokens fed, a provisional tail included
  base,    \* length before a provisional forward, or -1
  mark,    \* length of the checkpoint, or -1
  saved,   \* token sequences of the snapshots taken
  ret      \* whether the last call succeeded
stateVars == <<held, base, mark, saved, ret>>

Chunks == UNION {[1 .. n -> Token] : n \in 1 .. MaxLen}
Prefix(n) == SubSeq(held, 1, n)

StateInit == held = <<>> /\ base = -1 /\ mark = -1 /\ saved = {} /\ ret = TRUE

(* Tokens are fed in order; nothing is fed before a provisional tail is    *)
(* committed.                                                              *)
Feed(tokens, provisional) ==
  /\ base = -1 /\ Len(held) + Len(tokens) <= MaxLen
  /\ held' = held \o tokens
  /\ base' = IF provisional THEN Len(held) ELSE -1
  /\ ret' = TRUE
  /\ UNCHANGED <<mark, saved>>

(* Roll back to exactly the first len tokens: within a provisional tail to *)
(* any length, otherwise to the current length, to nothing or to the mark. *)
Settled == IF base = -1 THEN Len(held) ELSE base
CanRollBack(len) ==
  len \in {Settled, 0, mark} \/ (base >= 0 /\ len \in base .. Len(held))

TruncateOk(len) ==
  /\ CanRollBack(len) /\ len <= Len(held)
  /\ held' = Prefix(len) /\ base' = -1 /\ ret' = TRUE
  /\ mark' = IF len = 0 /\ Settled > 0 THEN -1 ELSE mark
  /\ UNCHANGED saved

(* Refused: the state is left untouched. *)
TruncateFails(len) ==
  /\ ~CanRollBack(len)
  /\ ret' = FALSE
  /\ UNCHANGED <<held, base, mark, saved>>

(* Commit keeps a length within the provisional tail, or drops all of it;  *)
(* without one it is a truncation.                                         *)
CommitOk(len) ==
  /\ base >= 0 /\ len \in base .. Len(held)
  /\ held' = Prefix(len) /\ base' = -1 /\ ret' = TRUE
  /\ UNCHANGED <<mark, saved>>
CommitFails(len) ==
  /\ base >= 0 /\ len \notin base .. Len(held)
  /\ held' = Prefix(base) /\ base' = -1 /\ ret' = FALSE
  /\ UNCHANGED <<mark, saved>>

Mark ==
  /\ mark' = Len(held) /\ base' = -1
  /\ UNCHANGED <<held, saved, ret>>

Clear ==
  /\ held' = <<>> /\ base' = -1 /\ mark' = -1 /\ ret' = TRUE
  /\ UNCHANGED saved

Save(len) ==
  /\ base = -1 /\ len \in {Len(held), mark}
  /\ saved' = saved \cup {Prefix(len)} /\ ret' = TRUE
  /\ UNCHANGED <<held, base, mark>>
SaveFails(len) ==
  /\ base >= 0 \/ len \notin {Len(held), mark}
  /\ ret' = FALSE
  /\ UNCHANGED <<held, base, mark, saved>>

Load(tokens) ==
  /\ held' = tokens /\ base' = -1 /\ mark' = -1 /\ ret' = TRUE
  /\ UNCHANGED saved

StateNext ==
  \/ \E tokens \in Chunks, provisional \in BOOLEAN : Feed(tokens, provisional)
  \/ \E len \in 0 .. MaxLen :
       \/ TruncateOk(len) \/ TruncateFails(len)
       \/ CommitOk(len) \/ CommitFails(len)
       \/ Save(len) \/ SaveFails(len)
  \/ Mark \/ Clear
  \/ \E tokens \in saved : Load(tokens)

StateSpec == StateInit /\ [][StateNext]_stateVars
=============================================================================
