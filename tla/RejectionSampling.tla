--------------------------- MODULE RejectionSampling ---------------------------
(***************************************************************************)
(* Sampled speculative decoding: accept_or_resample (speculative/mod.rs)   *)
(* decides about one draft token.  Probabilities are whole numbers of Unit *)
(* parts, the uniform draw one of Grid equal steps, so that the            *)
(* distribution of the emitted token can be counted exactly.               *)
(***************************************************************************)
EXTENDS Integers, Functions, FiniteSetsExt

CONSTANTS
  Token,
  Pending,
  Unit,    \* probabilities are n / Unit
  Grid     \* u is n / Grid; a multiple of every 1 .. Unit

VARIABLES
  p,       \* the target's distribution
  q,       \* the drafter's, or OneHot
  draft,   \* the drafted token
  tok      \* the token emitted, or Pending
vars == <<p, q, draft, tok>>

(* q of a deterministic drafter, which gives no distribution. *)
OneHot == [t \in Token |-> 0]

Total(f) == FoldFunction(+, 0, f)
Distributions == {f \in [Token -> 0 .. Unit] : Total(f) = Unit}

(* A deterministic drafter's token has all of the probability. *)
DraftProb(qq, d) ==
  IF qq = OneHot THEN [t \in Token |-> IF t = d THEN Unit ELSE 0] ELSE qq

(* u < p / q, or a draft that q could not have given. *)
Accepts(pp, qd, d, u) == IF qd = 0 THEN pp[d] > 0 ELSE u * qd < pp[d] * Grid

(* The weights a replacement is drawn from. *)
ResidualM(pp, qq, d) == [pp EXCEPT ![d] = 0]
Residual(pp, qq, d) ==
  IF qq = OneHot THEN [pp EXCEPT ![d] = 0]
  ELSE [t \in Token |-> IF pp[t] > qq[t] THEN pp[t] - qq[t] ELSE 0]

Weights(pp, qq, d) ==
  IF Total(Residual(pp, qq, d)) = 0 THEN pp ELSE Residual(pp, qq, d)

Init ==
  /\ p \in Distributions /\ q \in Distributions \cup {OneHot}
  /\ draft \in Token /\ (q # OneHot => q[draft] > 0)
  /\ tok = Pending

Decide ==
  /\ tok = Pending
  /\ \E u \in 0 .. Grid - 1 :
       IF Accepts(p, DraftProb(q, draft)[draft], draft, u)
       THEN tok' = draft
       ELSE \E t \in Token : Weights(p, q, draft)[t] > 0 /\ tok' = t
  /\ UNCHANGED <<p, q, draft>>

Next == Decide \/ (tok # Pending /\ UNCHANGED vars)
Spec == Init /\ [][Next]_vars

-----------------------------------------------------------------------------
(* Steps of u that reject d. *)
Rejections(d) ==
  Cardinality({u \in 0 .. Grid - 1 : ~Accepts(p, DraftProb(q, d)[d], d, u)})

(* The chance that draft d ends in token t, in parts of Grid * Grid. *)
Outcome(d, t) ==
  (IF t = d THEN (Grid - Rejections(d)) * Grid ELSE 0)
    + Rejections(d) * Weights(p, q, d)[t] * (Grid \div Total(Weights(p, q, d)))

(* The emitted token has exactly the target's distribution, whatever the   *)
(* drafter's: averaged over the drafts of a sampling drafter, for each     *)
(* draft of a deterministic one.                                           *)
FollowsTarget ==
  \A t \in Token :
    IF q = OneHot
    THEN Outcome(draft, t) * Unit = p[t] * Grid * Grid
    ELSE FoldFunction(+, 0, [d \in Token |-> q[d] * Outcome(d, t)]) = p[t] * Grid * Grid

=============================================================================
