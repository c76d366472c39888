------------------------------- MODULE SpecDecode -------------------------------
(***************************************************************************)
(* The greedy speculative decode loop (SpecDecode::decode and              *)
(* Emitter::token in generation.rs): a sampled token is emitted, a drafter *)
(* proposes what may follow, one forward verifies the proposal, the        *)
(* longest prefix the target agrees with is emitted and committed.         *)
(*                                                                         *)
(* Drafts are arbitrary.  Tokens are counted from the end of the prompt.   *)
(***************************************************************************)
EXTENDS PlainDecode

CONSTANTS
  K,          \* draft length of the controller
  Adaptive,   \* the controller may pick fewer, even none
  Room,       \* positions of the context left after the prompt
  Nothing

ASSUME SpecAssumption ==
  /\ MaxTokens \in Nat \ {0} /\ K \in Nat \ {0} /\ Adaptive \in BOOLEAN
  /\ Room \in Nat /\ MaxTokens <= Room /\ Nothing \notin Vocab

VARIABLES
  count,      \* usage.completion_tokens
  fed,        \* tokens the state holds
  phase,      \* "sample", "emit", "draft", "verify", "keep", "done", "failed"
  tok,        \* the sampled token, not fed yet
  drafts,
  accepted,   \* drafts the target agreed with
  next,       \* the target's token after them
  keep        \* tokens of the batch to commit
vars == <<oracle, out, finish, count, fed, phase, tok, drafts, accepted, next, keep>>

Init ==
  /\ PlainInit
  /\ count = 0 /\ fed = <<>>
  /\ phase = "sample" /\ tok = Nothing /\ next = Nothing
  /\ drafts = <<>> /\ accepted = 0 /\ keep = 0

First(s, n) == SubSeq(s, 1, n)
Least(S) == CHOOSE m \in S : \A n \in S : m <= n
Minus(a, b) == IF a > b THEN a - b ELSE 0

(* The target's choice after the model saw context and penalties history. *)
Chooses(context, history, t) ==
  LET k == <<context, history>> IN
  IF k \in DOMAIN oracle
  THEN t = oracle[k] /\ UNCHANGED oracle
  ELSE oracle' = [q \in DOMAIN oracle \cup {k} |-> IF q = k THEN t ELSE oracle[q]]

(* The token after the prompt, or after a forward of one token. *)
SampleFirst ==
  /\ phase = "sample"
  /\ \E t \in Vocab : Chooses(fed, out, t) /\ tok' = t
  /\ phase' = "emit"
  /\ UNCHANGED <<out, finish, count, fed, drafts, accepted, next, keep>>

(* Emitter::token: count, output and reason to finish after token t. *)
Emit(t) ==
  /\ count' = count + 1
  /\ IF t \in StopId THEN out' = out /\ finish' = "stop"
     ELSE /\ out' = Append(out, t)
          /\ \/ finish' = "aborted"
             \/ finish' = IF t \in StopEnd THEN "stop_string"
                          ELSE IF count' >= MaxTokens THEN "length" ELSE "none"

EmitSampled ==
  /\ phase = "emit"
  /\ Emit(tok)
  /\ phase' = IF finish' = "none" THEN "draft" ELSE "done"
  /\ UNCHANGED <<oracle, fed, tok, drafts, accepted, next, keep>>

(* The draft length is capped by the budget, for the target adds a token   *)
(* of its own, and by the context.                                         *)
MaxDraftM(k) == Least({k, Minus(MaxTokens, count), Minus(Room, Len(fed) + 1)})
MaxDraft(k) ==
  Least({k, Minus(Minus(MaxTokens, count), 1), Minus(Room, Len(fed) + 1)})

Ks == IF Adaptive THEN 0 .. K ELSE {K}

(* No draft: a plain step. *)
DecodePlain ==
  /\ phase = "draft"
  /\ fed' = Append(fed, tok)
  /\ \E t \in Vocab : Chooses(fed', out, t) /\ tok' = t
  /\ phase' = "emit"
  /\ UNCHANGED <<out, finish, count, drafts, accepted, next, keep>>

Propose ==
  /\ phase = "draft"
  /\ \E k \in Ks : \E n \in 1 .. MaxDraft(k) : drafts' \in [1 .. n -> Vocab]
  /\ accepted' = 0 /\ keep' = 1
  /\ phase' = "verify"
  /\ UNCHANGED <<oracle, out, finish, count, fed, tok, next>>

(* Row i of the verification: the model saw the batch up to i, penalties   *)
(* see the drafts accepted so far.  The first disagreement, or the row     *)
(* after the last draft, gives the next token.                             *)
Batch == <<tok>> \o drafts
ExtM == out
Ext == out \o First(drafts, accepted)
Agrees(t) == accepted < Len(drafts) /\ t = drafts[accepted + 1]

VerifyRow ==
  /\ phase = "verify"
  /\ \E t \in Vocab :
       /\ Chooses(fed \o First(Batch, accepted + 1), Ext, t)
       /\ IF Agrees(t)
          THEN accepted' = accepted + 1 /\ UNCHANGED <<next, phase>>
          ELSE next' = t /\ phase' = "keep" /\ UNCHANGED accepted
  /\ UNCHANGED <<out, finish, count, fed, tok, drafts, keep>>

(* Accepted drafts are emitted; those that continue are kept. *)
KeptM(ends) == keep + 1
Kept(ends) == IF ends THEN keep ELSE keep + 1

EmitDraft ==
  /\ phase = "keep" /\ finish = "none" /\ keep <= accepted
  /\ Emit(drafts[keep])
  /\ keep' = Kept(finish' # "none")
  /\ UNCHANGED <<oracle, fed, phase, tok, drafts, accepted, next>>

Commit ==
  /\ phase = "keep"
  /\ finish # "none" \/ keep > accepted
  /\ fed' = fed \o First(Batch, keep)
  /\ tok' = next /\ next' = Nothing
  /\ phase' = IF finish = "none" THEN "emit" ELSE "done"
  /\ drafts' = <<>> /\ accepted' = 0 /\ keep' = 0
  /\ UNCHANGED <<oracle, out, finish, count>>

(* A forward, the drafter or the sampler fails. *)
Fail ==
  /\ finish = "none"
  /\ finish' = "error" /\ phase' = "done"
  /\ UNCHANGED <<oracle, out, count, fed, tok, drafts, accepted, next, keep>>

(* The last accepted draft ended the request, and then the commit fails or *)
(* the drafter's observe does: everything is emitted, the caller gets the  *)
(* error and not the reason to finish.                                     *)
FailAfterEnd ==
  /\ phase = "keep" /\ finish # "none"
  /\ fed' \in {fed, fed \o First(Batch, keep)}
  /\ phase' = "failed"
  /\ UNCHANGED <<oracle, out, finish, count, tok, drafts, accepted, next, keep>>

Ended == phase \in {"done", "failed"} /\ UNCHANGED vars

Next ==
  \/ SampleFirst \/ EmitSampled \/ DecodePlain \/ Propose
  \/ VerifyRow \/ EmitDraft \/ Commit
  \/ Fail \/ FailAfterEnd \/ Ended

Spec == Init /\ [][Next]_vars

-----------------------------------------------------------------------------
(* A verification never runs past max_tokens or the context, whatever the  *)
(* controller asks for, and every completion token is counted once.        *)
WithinBudget ==
  /\ count <= MaxTokens
  /\ count = Len(out) + (IF finish = "stop" THEN 1 ELSE 0)
  /\ phase = "verify" =>
       /\ count + Len(drafts) + 1 <= MaxTokens
       /\ Len(fed) + Len(Batch) <= Room

(* The state holds exactly the output: without the token being handled,    *)
(* and without the one that finished the request; rejected drafts never.   *)
StateFollowsOutput ==
  /\ phase \in {"sample", "emit"} => fed = out
  /\ phase \in {"draft", "verify"} => Append(fed, tok) = out
  /\ phase = "done" /\ finish # "error" =>
       \/ fed = out /\ finish = "stop"
       \/ out # <<>> /\ fed = First(out, Len(out) - 1) /\ finish # "stop"

(* Speculation does not change the output: it emits the tokens, and        *)
(* finishes for the reason and at the point, of plain decoding (only that  *)
(* after FailAfterEnd the caller is not told the reason).                  *)
ImplementsPlain == PlainSpec
=============================================================================
