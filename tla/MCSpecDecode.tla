------------------------------ MODULE MCSpecDecode ------------------------------
(***************************************************************************)
(* The parts of speculative decoding, one at a time: the greedy loop of    *)
(* SpecDecode; for sampled requests, the decision of RejectionSampling     *)
(* about one draft; and of Drafting, a lookup in a context and the rounds  *)
(* of an adaptive draft length.                                            *)
(***************************************************************************)
EXTENDS SpecDecode, FiniteSets

CONSTANTS
  Unit, Grid,
  Contexts,    \* bound: contexts of lookups
  Settings,    \* of lookups: [least, most, size, window]
  ProbeEvery,  \* rounds without drafts before a probe; 16 there
  Times,       \* bound: of drafting and of forwards
  Bound        \* bound: rounds of the adaptive length

ASSUME GridAssumption ==
  /\ IsFiniteSet(Vocab)
  /\ Unit \in Nat \ {0} /\ Grid \in Nat \ {0}
  /\ \A n \in 1 .. Unit : Grid % n = 0
ASSUME DraftingAssumption ==
  /\ \A context \in Contexts : context \in Seq(Vocab)
  /\ \A s \in Settings : {s.least, s.most, s.size, s.window} \subseteq Nat
  /\ ProbeEvery \in Nat \ {0} /\ Times \subseteq Nat \ {0}

VARIABLES
  which,     \* the part: "greedy", "sampled", "lookup" or "lengths"
  p, q, draft, drawn,
  asked,     \* the lookup made, if any
  ctl, pick, dry, rounds   \* an AdaptiveK, its last length, zeros in a row
decisionVars == <<p, q, draft, drawn>>
lengthVars == <<ctl, pick, dry, rounds>>

Decision == INSTANCE RejectionSampling WITH
              Token <- Vocab, Pending <- Nothing, tok <- drawn
Dft == INSTANCE Drafting

ShortContexts == UNION {[1 .. n -> {1, 2}] : n \in 0 .. 6}
SmallSettings == [least : 0 .. 2, most : {1, 3}, size : {1, 2}, window : {0, 3}]

-----------------------------------------------------------------------------
(* One lookup.                                                             *)
Ask ==
  /\ asked = {}
  /\ \E context \in Contexts, s \in Settings, max \in 0 .. K :
       LET cfg == Dft!Lookup(s.least, s.most, s.size, s.window) IN
       asked' = {[context |-> context, cfg |-> cfg, max |-> max,
                  found |-> Dft!Proposal(cfg, context, max)]}

(* One round: the length, of which the budget allows some; of those what   *)
(* was drafted, and of that what was accepted.                             *)
Adapt ==
  LET g == Dft!Get(ctl) IN
  /\ rounds < Bound /\ rounds' = rounds + 1
  /\ pick' = g[1]
  /\ dry' = IF g[1] = 0 THEN dry + 1 ELSE 0
  /\ \E allowed \in 0 .. g[1] : \E drafted \in 0 .. allowed : \E kept \in 0 .. drafted :
       \E draftTime \in IF allowed = 0 THEN {0} ELSE Times : \E fwdTime \in Times :
         ctl' = Dft!Update(g[2], drafted, kept, draftTime, fwdTime)

(* There is no more to see: the program goes on, with other lookups and    *)
(* rounds.                                                                 *)
Seen ==
  /\ (which = "lookup" /\ asked # {}) \/ (which = "lengths" /\ rounds = Bound)
  /\ UNCHANGED <<which, vars, decisionVars, asked, lengthVars>>

MCInit ==
  /\ which \in {"greedy", "sampled", "lookup", "lengths"}
  /\ Init
  /\ \/ which = "sampled" /\ Decision!Init
     \/ which # "sampled" /\ p = Decision!OneHot /\ q = Decision!OneHot
          /\ draft = Nothing /\ drawn = Nothing
  /\ asked = {}
  /\ \E max \in 0 .. K, on \in IF which = "lengths" THEN BOOLEAN ELSE {FALSE} :
       /\ which = "lengths" \/ max = K
       /\ ctl = Dft!NewK(max, on)
  /\ pick = ctl.max /\ dry = 0 /\ rounds = 0
MCNext ==
  \/ which = "greedy" /\ Next /\ UNCHANGED <<which, decisionVars, asked, lengthVars>>
  \/ which = "sampled" /\ Decision!Next /\ UNCHANGED <<which, vars, asked, lengthVars>>
  \/ which = "lookup" /\ Ask /\ UNCHANGED <<which, vars, decisionVars, lengthVars>>
  \/ which = "lengths" /\ Adapt /\ UNCHANGED <<which, vars, decisionVars, asked>>
  \/ Seen
MCSpec == MCInit /\ [][MCNext]_<<which, vars, decisionVars, asked, lengthVars>>

-----------------------------------------------------------------------------
(* A sampled speculative token has exactly the target's distribution.      *)
FollowsTarget == which = "sampled" => Decision!FollowsTarget

(* Position j of the context repeats its end: the n tokens up to there are *)
(* its last n, and none of them is behind the window.                      *)
SamePart(s, i, k, n) == \A m \in 1 .. n : s[i + m] = s[k + m]
Repeats(context, window, j, n) ==
  /\ j - n >= 0 /\ (window > 0 => j - n >= Len(context) - window)
  /\ SamePart(context, j - n, Len(context) - n, n)
NothingRepeats(context, cfg) ==
  \A k \in 1 .. Len(context) - 1, m \in cfg.min .. cfg.max : ~Repeats(context, cfg.window, k, m)
(* What follows j is found: no more tokens are repeated anywhere, nor as   *)
(* many later.                                                             *)
Follows(found, context, cfg, max, j, n) ==
  /\ Repeats(context, cfg.window, j, n)
  /\ \A k \in 1 .. Len(context) - 1, m \in cfg.min .. cfg.max :
       Repeats(context, cfg.window, k, m) => m < n \/ (m = n /\ k <= j)
  /\ found = SubSeq(context, j + 1, Dft!Lesser(j + Dft!Lesser(max, cfg.draft), Len(context)))
  /\ Len(found) \in 1 .. max
(* A lookup draft is what followed the latest of the longest repetitions   *)
(* of the context's end, and there is one where anything repeats           *)
(* (PromptLookup::lookup).                                                 *)
LookupsFollow ==
  \A a \in asked :
    IF a.max = 0 \/ NothingRepeats(a.context, a.cfg) THEN a.found = <<>>
    ELSE \E j \in 1 .. Len(a.context) - 1, n \in a.cfg.min .. a.cfg.max :
           Follows(a.found, a.context, a.cfg, a.max, j, n)

(* The adaptive length stays within its bounds, is the greatest when not   *)
(* adapting, and never stops drafting for good: one of ProbeEvery rounds   *)
(* in a row has drafts.  No depth is believed to be accepted more than     *)
(* always (AdaptiveK).                                                     *)
LengthsPaced ==
  /\ pick \in 0 .. ctl.max
  /\ ~ctl.on => pick = ctl.max
  /\ dry < ProbeEvery
  /\ \A i \in 1 .. ctl.max : Dft!Rate(ctl, i) <= 1000

(* What is drafted, and how much, is as above.                             *)
DraftsTrue == LookupsFollow /\ LengthsPaced
=============================================================================
