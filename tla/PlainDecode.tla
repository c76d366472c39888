------------------------------ MODULE PlainDecode ------------------------------
(***************************************************************************)
(* What decoding promises, speculative or not: one token after another,    *)
(* each the one the target model and sampler choose after all the tokens   *)
(* before it, until the first reason to finish.                            *)
(*                                                                         *)
(* The choice is a function of the tokens the model was fed and of the     *)
(* tokens penalties look at.  It is revealed when it is first looked at:   *)
(* oracle is the part of it known so far.                                  *)
(***************************************************************************)
EXTENDS Naturals, Sequences

CONSTANTS
  Vocab,
  StopId,      \* EOS and stop ids
  StopEnd,     \* tokens whose text completes a stop string
  MaxTokens

VARIABLES
  oracle,   \* <<fed, history>> -> token
  out,      \* completion tokens
  finish    \* "none" or the finish reason
plainVars == <<oracle, out, finish>>

PlainInit == oracle = <<>> /\ out = <<>> /\ finish = "none"

Extends(f, g) == DOMAIN g \subseteq DOMAIN f /\ \A k \in DOMAIN g : f[k] = g[k]

Reveal == Extends(oracle', oracle) /\ UNCHANGED <<out, finish>>

(* The next token is the target's; an ending id is not part of the output. *)
EmitNext ==
  /\ finish = "none"
  /\ Extends(oracle', oracle)
  /\ <<out, out>> \in DOMAIN oracle'
  /\ LET tok == oracle'[<<out, out>>] IN
     IF tok \in StopId THEN out' = out /\ finish' = "stop"
     ELSE /\ out' = Append(out, tok)
          /\ \/ finish' = "aborted"
             \/ finish' = IF tok \in StopEnd THEN "stop_string"
                          ELSE IF Len(out') >= MaxTokens THEN "length" ELSE "none"

GiveUp == finish = "none" /\ finish' = "error" /\ UNCHANGED <<oracle, out>>

PlainNext == Reveal \/ EmitNext \/ GiveUp
PlainSpec == PlainInit /\ [][PlainNext]_plainVars
=============================================================================
