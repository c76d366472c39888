-------------------------------- MODULE Drafting --------------------------------
(***************************************************************************)
(* Draft proposals: PromptLookup (speculative/lookup.rs), which repeats    *)
(* what followed the last tokens before, and AdaptiveK (speculative/       *)
(* mod.rs), which picks the number of drafts of each round.  Its decayed   *)
(* counts, rates and times are whole numbers of thousandths.               *)
(***************************************************************************)
EXTENDS Integers, Sequences, FiniteSets, SequencesExt, Functions

CONSTANT ProbeEvery   \* rounds without drafts before a probe; 16 there

Lesser(a, b) == IF a < b THEN a ELSE b
Greater(a, b) == IF a < b THEN b ELSE a

-----------------------------------------------------------------------------
(* new: at least one token of each.  cfg = [min, max, draft, window].      *)
Lookup(least, most, draft, window) ==
  [min |-> Greater(least, 1), max |-> Greater(most, Greater(least, 1)),
   draft |-> Greater(draft, 1), window |-> window]

(* Where in the context its last n tokens start once more.                 *)
Occurs(cfg, context, n) ==
  LET len == Len(context)
      lo == IF cfg.window > 0 THEN Greater(len - cfg.window, 0) ELSE 0
  IN {i \in lo .. len - n - 1 : SubSeq(context, i + 1, i + n) = SubSeq(context, len - n + 1, len)}

(* lookup: the longest match, the most recent of its occurrences, and at   *)
(* most max of the tokens that followed it.                                *)
OccursLast(i, S) == \A j \in S : j <= i
Proposal(cfg, context, max) ==
  LET len == Len(context)
      m == Lesser(max, cfg.draft)
      fits == {n \in cfg.min .. cfg.max : n < len /\ Occurs(cfg, context, n) # {}}
  IN IF m <= 0 \/ fits = {} THEN <<>>
     ELSE LET n == CHOOSE x \in fits : \A y \in fits : y <= x
              i == CHOOSE x \in Occurs(cfg, context, n) : OccursLast(x, Occurs(cfg, context, n))
          IN SubSeq(context, i + n + 1, Lesser(i + n + m, len))

-----------------------------------------------------------------------------
(* AdaptiveK::new, rate, fwd, get, update.  0 stands for a time not known. *)
EffectiveK(k, drafterMax) == Lesser(Greater(k, 1), Greater(drafterMax, 1))
NewK(max, on) ==
  [max |-> Greater(max, 1), on |-> on, reached |-> [i \in 1 .. Greater(max, 1) |-> 0],
   accepted |-> [i \in 1 .. Greater(max, 1) |-> 0], draft |-> 0,
   fwd |-> [n \in 1 .. Greater(max, 1) + 1 |-> 0], idle |-> 0]

Rate(k, i) == ((k.accepted[i] + 1000) * 1000) \div (k.reached[i] + 2000)
(* The time of n tokens: measured, or by the line through the sizes seen,  *)
(* or, through a single one, with 15% of a step for each token more.       *)
SumOver(S, f) == FoldFunctionOnSet(LAMBDA x, y : x + y, 0, f, S)
Fitted(k, seen, n) ==
  LET count == Cardinality(seen)
      sx == SumOver(seen, [m \in seen |-> m])
      sy == SumOver(seen, k.fwd)
      spread == (count * SumOver(seen, [m \in seen |-> m * m])) - (sx * sx)
      slope == Greater(0, (count * SumOver(seen, [m \in seen |-> m * k.fwd[m]])) - (sx * sy))
  IN Greater(0, ((sy * spread) + (slope * ((n * count) - sx))) \div (count * spread))
Fwd(k, n) ==
  LET seen == {m \in DOMAIN k.fwd : k.fwd[m] > 0}
      one == CHOOSE m \in seen : TRUE
  IN IF n \in seen THEN k.fwd[n]
     ELSE IF seen = {} THEN 0
     ELSE IF seen = {one} THEN (k.fwd[one] * (85 + (15 * n))) \div (85 + (15 * one))
     ELSE Fitted(k, seen, n)

(* Tokens a round of n drafts is expected to commit, in thousandths.       *)
Expect(k, n) ==
  LET all[i \in 0 .. n] == IF i = 0 THEN 1000 ELSE (all[i - 1] * Rate(k, i)) \div 1000
  IN SumOver(0 .. n, all)
(* More tokens in less time, compared without dividing.                    *)
Time(k, n) == IF n = 0 THEN Fwd(k, 1) ELSE k.draft + Fwd(k, n + 1)
Better(k, m, n) == Expect(k, m) * Time(k, n) > Expect(k, n) * Time(k, m)
Best(k) ==
  CHOOSE n \in 0 .. k.max : /\ \A m \in 0 .. n - 1 : Better(k, n, m)
                            /\ \A m \in n + 1 .. k.max : ~Better(k, m, n)

(* get: the length, and the controller after it.  A line through the times *)
(* that falls below zero makes a round without drafts cost nothing.        *)
Unmeasured(k) == k.draft = 0 \/ \A m \in DOMAIN k.fwd : k.fwd[m] = 0
ProbesM(k) == k.idle >= ProbeEvery
Probes(k) == k.idle + 1 >= ProbeEvery
Get(k) ==
  IF ~k.on \/ Unmeasured(k) THEN <<k.max, k>>
  ELSE IF Best(k) > 0 THEN <<Best(k), [k EXCEPT !.idle = 0]>>
  ELSE IF Probes(k) THEN <<k.max, [k EXCEPT !.idle = 0]>>
  ELSE <<0, [k EXCEPT !.idle = @ + 1]>>

Ema(old, x) == IF old = 0 THEN x ELSE old + ((x - old) \div 5)
Observed(k, drafted, accepted) ==
  LET decayed(f) == [i \in DOMAIN f |-> (f[i] * 9) \div 10] IN
  [k EXCEPT !.reached = [i \in DOMAIN @ |->
                           decayed(@)[i] + IF i <= drafted /\ i <= accepted + 1 THEN 1000 ELSE 0],
            !.accepted = [i \in DOMAIN @ |->
                           decayed(@)[i] + IF i <= drafted /\ i <= accepted THEN 1000 ELSE 0]]
Update(k, drafted, accepted, draftTime, fwdTime) ==
  LET timed == [k EXCEPT !.draft = IF draftTime = 0 THEN @ ELSE Ema(@, draftTime),
                         !.fwd = [n \in DOMAIN @ |-> IF n = drafted + 1 THEN Ema(@[n], fwdTime) ELSE @[n]]]
  IN IF drafted = 0 THEN timed ELSE Observed(timed, drafted, accepted)
=============================================================================
