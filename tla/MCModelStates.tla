------------------------------ MODULE MCModelStates ------------------------------
(***************************************************************************)
(* The three kinds of state a model keeps between forwards, one at a time: *)
(* the hybrid state of RecurrentState, the drafter's rows of DraftContext  *)
(* and the position caches of PositionCache.                               *)
(***************************************************************************)
EXTENDS RecurrentState

CONSTANTS DraftLen, MaxBatch, FlushRows, CacheLen, Heads, Initial, MaxCopies

ASSUME CacheAssumption == CacheLen \in Nat /\ Heads \in Nat /\ Initial \in Nat

VARIABLES which, fed, seq, ctx, pend, ring, cached, cap, buf, copies
draftVars == <<fed, seq, ctx, pend>>
cacheVars == <<ring, cached, cap, buf, copies>>

Drafter == INSTANCE DraftContext WITH MaxLen <- DraftLen
Cache == INSTANCE PositionCache WITH MaxLen <- CacheLen, fed <- cached

MCInit ==
  /\ Init /\ Drafter!Init /\ Cache!Init
  /\ which \in IF ring THEN {"cache"} ELSE {"recurrent", "drafter", "cache"}

MCNext ==
  \/ which = "recurrent" /\ Next /\ UNCHANGED <<which, draftVars, cacheVars>>
  \/ which = "drafter" /\ Drafter!Next /\ UNCHANGED <<which, vars, cacheVars>>
  \/ which = "cache" /\ Cache!Next /\ UNCHANGED <<which, vars, draftVars>>

MCSpec == MCInit /\ [][MCNext]_<<which, vars, draftVars, cacheVars>>

(* Every row the drafter attends to was computed from the target's tokens, *)
(* and attention and snapshots of the position caches read the rows of     *)
(* exactly the tokens held.                                                *)
RowsTrue == Drafter!RowsTrue /\ Cache!RowsFed

(* A new request that keeps the drafter loses no row that still holds.     *)
KeepsTrueRows == Drafter!KeepsTrueRows
=============================================================================
