------------------------------- MODULE Generator -------------------------------
(***************************************************************************)
(* A Generator serving one request after another on one recurrent model    *)
(* state (generation.rs): generate_impl chooses what to keep of the state  *)
(* or to restore from the shared prompt cache, run prefills the rest in    *)
(* chunks, pausing for checkpoint and snapshots, and decodes, plainly or   *)
(* speculatively, until the request ends, is aborted or fails.             *)
(*                                                                         *)
(* Sampled tokens, drafts, boundaries and ends are arbitrary.  Of the      *)
(* prompt cache only what it may return matters: it forgets and other      *)
(* generators fill it at any time.                                         *)
(***************************************************************************)
EXTENDS RecurrentOps, FiniteSets

CONSTANTS
  Token,
  Prompt,         \* a set of token sequences, none empty
  MaxSeq,         \* max_seq_len
  PrefillChunk,   \* prefill_chunk_size, at least 1
  MaxDraft,       \* the drafter's k
  PrefixCaching,  \* prefix_caching
  MaxCache,       \* bound: entries of the prompt cache
  NoEntry

(* An entry of the prompt cache: a snapshot, filed under tokens.           *)
Entry ==
  [tokens : Seq(Token), snap : [len : Nat, kv : Seq(Seq(Token)), rec : Seq(Token)]]

ASSUME GeneratorAssumption ==
  /\ MaxSeq \in Nat /\ PrefillChunk \in Nat \ {0} /\ MaxDraft \in Nat /\ MaxCache \in Nat
  /\ PrefixCaching \in BOOLEAN
  /\ \A p \in Prompt : p \in Seq(Token) /\ Len(p) \in 1 .. MaxSeq - 1
  /\ NoEntry \notin Entry

VARIABLES
  st,       \* the model state
  fed,      \* tokens believed to be in it, empty if it is unusable
  cache,    \* prompt cache: [tokens, snap] records
  phase,    \* "idle", "prefill", "decode", "verify"
  prompt,   \* the current request's prompt
  left,     \* completion tokens the request may still produce
  stops,    \* prefill pauses still to come, the prompt's end among them
  ckptAt,   \* checkpoint_at
  snapAt,   \* insertion points of the prompt cache
  logits,   \* the tokens the current logits continue
  batch     \* tokens of the verification in flight
requestVars == <<phase, prompt, left, stops, ckptAt, snapAt, logits, batch>>
vars == <<st, fed, cache, phase, prompt, left, stops, ckptAt, snapAt, logits, batch>>

Idle ==
  /\ phase' = "idle" /\ prompt' = <<>> /\ left' = 0
  /\ stops' = {} /\ ckptAt' = -1 /\ snapAt' = {} /\ logits' = <<>> /\ batch' = <<>>

Init ==
  /\ st = NewState /\ fed = <<>> /\ cache = {}
  /\ phase = "idle" /\ prompt = <<>> /\ left = 0
  /\ stops = {} /\ ckptAt = -1 /\ snapAt = {} /\ logits = <<>> /\ batch = <<>>

Lesser(a, b) == IF a < b THEN a ELSE b
Greatest(S) == CHOOSE m \in S : \A n \in S : n <= m
Least(S) == CHOOSE m \in S : \A n \in S : m <= n
First(s, n) == SubSeq(s, 1, n)
StartsWith(s, t) == Len(t) <= Len(s) /\ First(s, Len(t)) = t

CommonPrefix(s, t) ==
  Greatest({n \in 0 .. Lesser(Len(s), Len(t)) : First(s, n) = First(t, n)})

-----------------------------------------------------------------------------
(* generate_impl                                                           *)

(* What a lookup may return: no entry when there is none that fits. *)
Usable(p) == {e \in cache : Len(e.tokens) < Len(p) /\ StartsWith(p, e.tokens)}
Found(p) ==
  IF Usable(p) = {} THEN {NoEntry}
  ELSE {e \in Usable(p) : \A f \in Usable(p) : Len(f.tokens) <= Len(e.tokens)}

(* reusable_prefix: the common prefix if the state can be rolled back to   *)
(* it, else the checkpoint if it lies within.                              *)
WithinM(cp, target) == TRUE
Within(cp, target) == cp > 0 /\ cp <= target

FromCheckpointM(s, target) == [st |-> s, keep |-> 0]
FromCheckpoint(s, target) ==
  LET cp == s.ckpt.len
      back == Truncate(s, cp)
  IN  IF Within(cp, target) /\ cp >= 0
      THEN [st |-> back.st, keep |-> IF back.ok THEN cp ELSE 0]
      ELSE [st |-> s, keep |-> 0]

Reusable(p) ==
  LET target == Lesser(CommonPrefix(fed, p), Len(p) - 1)
      back == Truncate(st, target)
  IN  IF target = 0 THEN [st |-> st, keep |-> 0]
      ELSE IF target = Len(fed) THEN [st |-> st, keep |-> target]
      ELSE IF back.ok THEN [st |-> back.st, keep |-> target]
      ELSE FromCheckpoint(back.st, target)

Kept(p) == IF PrefixCaching THEN Reusable(p) ELSE [st |-> st, keep |-> 0]
OwnMax(p) == IF PrefixCaching THEN Lesser(CommonPrefix(fed, p), Len(p) - 1) ELSE 0

(* The state the request starts from: the cached prefix if it is clearly   *)
(* or, after rolling back, really longer, else what could be kept.         *)
Prepared(p, e) ==
  LET k == Kept(p) IN
  IF e # NoEntry /\ Len(e.tokens) > OwnMax(p)
  THEN [st |-> Restore(st, e.snap), fed |-> e.tokens]
  ELSE IF e # NoEntry /\ Len(e.tokens) > k.keep
  THEN [st |-> Restore(k.st, e.snap), fed |-> e.tokens]
  ELSE IF k.keep = 0
  THEN [st |-> Reset(k.st), fed |-> <<>>]
  ELSE [st |-> k.st, fed |-> First(fed, k.keep)]

(* The checkpoint goes to the last boundary before the prompt's end. *)
CheckpointAt(p, start, boundaries) ==
  LET inside == {b \in boundaries : b >= start /\ b < Len(p)} IN
  IF ~PrefixCaching THEN -1 ELSE IF inside = {} THEN Len(p) ELSE Greatest(inside)

SnapAt(p, start, boundaries) ==
  {b \in boundaries : b >= start /\ \A e \in cache : e.tokens # First(p, b)}

Start(p, max, boundaries) ==
  /\ phase = "idle"
  /\ \E e \in Found(p) :
       LET ready == Prepared(p, e)
           start == Len(ready.fed)
       IN
       /\ st' = ready.st /\ fed' = ready.fed
       /\ ckptAt' = CheckpointAt(p, start, boundaries)
       /\ snapAt' = SnapAt(p, start, boundaries)
       /\ stops' = ({Len(p)} \cup snapAt' \cup {ckptAt'}) \ {-1}
  /\ phase' = "prefill" /\ prompt' = p /\ left' = max
  /\ logits' = <<>> /\ batch' = <<>>
  /\ UNCHANGED cache

-----------------------------------------------------------------------------
(* run: prefill                                                            *)

PieceEnd == Lesser(Len(fed) + PrefillChunk, Least(stops))
Piece == SubSeq(prompt, Len(fed) + 1, PieceEnd)

Prefill ==
  /\ phase = "prefill" /\ Len(fed) < Least(stops)
  /\ CanForward(st, Len(fed), Piece, MaxSeq)
  /\ st' = Forward(st, Piece)
  /\ fed' = fed \o Piece
  /\ logits' = fed'
  /\ UNCHANGED <<cache, phase, prompt, left, stops, ckptAt, snapAt, batch>>

(* Other entries may make room for an inserted one. *)
InsertInto(entries, e) ==
  {kept \cup {e} : kept \in {k \in SUBSET entries : Cardinality(k) < MaxCache}}

FiledM(at) == prompt
Filed(at) == First(prompt, at)

AtStop ==
  LET at == Least(stops)
      saved == IF ckptAt = at THEN Checkpoint(st) ELSE st
  IN
  /\ phase = "prefill" /\ Len(fed) = at
  /\ st' = saved
  /\ IF at \in snapAt /\ CanSnapshot(saved, at) /\ MaxCache > 0
     THEN cache' \in InsertInto(cache, [tokens |-> Filed(at), snap |-> Snapshot(saved, at)])
     ELSE UNCHANGED cache
  /\ stops' = stops \ {at}
  /\ phase' = IF stops' = {} THEN "decode" ELSE "prefill"
  /\ UNCHANGED <<fed, prompt, left, ckptAt, snapAt, logits, batch>>

-----------------------------------------------------------------------------
(* run: decode.  A token is sampled from the logits; the end of the        *)
(* request, decided with it, keeps it from being fed.                      *)

Finish ==
  /\ phase = "decode"
  /\ Idle
  /\ UNCHANGED <<st, fed, cache>>

DecodeOne(tok) ==
  /\ phase = "decode" /\ left > 1
  /\ CanForward(st, Len(fed), <<tok>>, MaxSeq)
  /\ st' = Forward(st, <<tok>>)
  /\ fed' = Append(fed, tok)
  /\ logits' = fed'
  /\ left' = left - 1
  /\ UNCHANGED <<cache, phase, prompt, stops, ckptAt, snapAt, batch>>

(* SpecDecode: the sampled token and some drafts are forwarded             *)
(* provisionally; never more than the budget or the context have room for. *)
Room ==
  Lesser(Lesser(MaxDraft, left - 2), MaxSeq - (Len(fed) + 1))

Draft(tok, drafts) ==
  /\ phase = "decode" /\ left > 1
  /\ Len(drafts) \in 1 .. Room
  /\ batch' = <<tok>> \o drafts
  /\ CanForward(st, Len(fed), batch', MaxSeq)
  /\ st' = ForwardProvisional(st, batch')
  /\ phase' = "verify"
  /\ left' = left - 1
  /\ UNCHANGED <<fed, cache, prompt, stops, ckptAt, snapAt, logits>>

(* The accepted drafts that continue the request are committed; one that   *)
(* ends it is emitted and not kept.                                        *)
CommittedM(keep) == Len(fed) + Len(batch)
Committed(keep) == Len(fed) + keep

Verify(keep, ends) ==
  /\ phase = "verify"
  /\ keep \in 1 .. Len(batch)
  /\ ends => keep < Len(batch)
  /\ Commit(st, Committed(keep)).ok
  /\ st' = Commit(st, Committed(keep)).st
  /\ fed' = fed \o First(batch, keep)
  /\ IF ends THEN Idle
     ELSE /\ phase' = "decode" /\ batch' = <<>> /\ logits' = fed'
          /\ left' = left - (keep - 1)
          /\ UNCHANGED <<prompt, stops, ckptAt, snapAt>>
  /\ UNCHANGED cache

(* An error anywhere, a forward's included: the state goes back as it is   *)
(* and nothing is believed of it.                                          *)
Fail ==
  /\ phase # "idle"
  /\ \/ UNCHANGED st
     \/ /\ phase = "prefill" /\ Len(fed) < Least(stops)
        /\ CanForward(st, Len(fed), Piece, MaxSeq)
        /\ st' = Forward(st, Piece)
     \/ /\ phase = "verify"
        /\ \E keep \in 1 .. Len(batch) : st' = Commit(st, Committed(keep)).st
  /\ fed' = <<>>
  /\ Idle
  /\ UNCHANGED cache

(* release_state *)
ReleaseState ==
  /\ phase = "idle"
  /\ st' = NewState /\ fed' = <<>>
  /\ UNCHANGED <<cache, requestVars>>

-----------------------------------------------------------------------------
(* The prompt cache, between two of this generator's calls. *)

Forget == \E e \in cache : cache' = cache \ {e} /\ UNCHANGED <<st, fed, requestVars>>

TrueSnapshot(tokens) ==
  [len |-> Len(tokens), kv |-> [i \in 1 .. Len(tokens) |-> First(tokens, i)], rec |-> tokens]

PeerInsert ==
  \E p \in Prompt : \E n \in 1 .. Len(p) :
    /\ Cardinality(cache) < MaxCache
    /\ \A e \in cache : e.tokens # First(p, n)
    /\ cache' = cache \cup {[tokens |-> First(p, n), snap |-> TrueSnapshot(First(p, n))]}
    /\ UNCHANGED <<st, fed, requestVars>>

Drafts == UNION {[1 .. n -> Token] : n \in 1 .. MaxDraft}

Next ==
  \/ \E p \in Prompt : \E max \in 1 .. MaxSeq - Len(p), boundaries \in SUBSET (1 .. Len(p)) :
       Start(p, max, boundaries)
  \/ Prefill \/ AtStop
  \/ Finish \/ \E tok \in Token : DecodeOne(tok) \/ \E drafts \in Drafts : Draft(tok, drafts)
  \/ \E keep \in 1 .. MaxDraft + 1, ends \in BOOLEAN : Verify(keep, ends)
  \/ Fail \/ ReleaseState
  \/ Forget \/ PeerInsert

Spec == Init /\ [][Next]_vars

-----------------------------------------------------------------------------
(* What the generator believes of the state is true: it holds exactly fed, *)
(* with the verification in flight as its provisional tail, and its        *)
(* checkpoint is a prefix of it - however requests, rollbacks, restores,   *)
(* aborts and failures followed one another.                               *)
StateMatchesFed ==
  phase # "idle" \/ fed # <<>> =>
    /\ Holds(st, fed \o batch) /\ CheckpointWithin(st, fed \o batch)
    /\ HasPending(st) <=> phase = "verify"

(* Every snapshot put into the shared cache is the state of exactly the    *)
(* tokens it is filed under.                                               *)
CacheTrue ==
  \A e \in cache : e.snap.rec = e.tokens /\ SnapshotTrue(e.snap)

(* A request is continued from the logits of its prompt and of every token *)
(* kept since, at least one of them fresh, and never beyond max_tokens.    *)
SampledFromAll ==
  /\ phase \in {"decode", "verify"} => logits = fed /\ StartsWith(fed, prompt)
  /\ phase = "prefill" => StartsWith(prompt, fed)
  /\ phase = "prefill" /\ logits # <<>> => logits = fed
  /\ phase \in {"decode", "verify"} => left > 0

(* The model never refuses a forward: positions are fed in order, within   *)
(* the context, and never on top of an uncommitted verification.           *)
ForwardAccepted ==
  phase = "prefill" /\ Len(fed) < Least(stops) => CanForward(st, Len(fed), Piece, MaxSeq)

(* The state holds the tokens the generator believes it holds, and accepts *)
(* every forward the generator makes.                                      *)
StateInStep == ForwardAccepted /\ StateMatchesFed

(* A request that extends what was checkpointed, or what the cache holds,  *)
(* starts no earlier than there.                                           *)
ReusesCheckpoint ==
  [][phase = "idle" /\ phase' = "prefill" =>
       /\ PrefixCaching /\ fed # <<>> /\ st.ckpt.len \in 1 .. Len(prompt') - 1
            /\ StartsWith(prompt', First(fed, st.ckpt.len))
          => Len(fed') >= st.ckpt.len
       /\ \A e \in cache : StartsWith(prompt', e.tokens) /\ Len(e.tokens) < Len(prompt')
            => Len(fed') >= Len(e.tokens)]_vars
=============================================================================
