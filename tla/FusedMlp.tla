-------------------------------- MODULE FusedMlp --------------------------------
(***************************************************************************)
(* The fused ternary layers of one token (bit1_58/layers.rs): q, k and v   *)
(* or gate and up in one range of rows that the tasks of a scope share     *)
(* out by an atomic counter, each row stored through a raw pointer into a  *)
(* pooled buffer whose contents are unspecified; then, for the whole MLP,  *)
(* the activation, its quantization and the down projection.               *)
(*                                                                         *)
(* A cell <<b, i>> is element i of buffer b.  Its value names the rows it  *)
(* was computed from; Stale is what the pool left there.                   *)
(***************************************************************************)
EXTENDS Integers

CONSTANTS
  Worker,      \* the tasks a scope spawns, num_threads of them
  Threads,     \* their number
  Q, K, V,     \* output rows of the attention projections
  Inter, Out,  \* output rows of gate and of up, and of down
  MinChunk     \* the least rows of a claim (128)

ASSUME SizesAssumption ==
  /\ Q \in Nat /\ K \in Nat /\ V \in Nat /\ Inter \in Nat /\ Out \in Nat
  /\ Threads \in Nat \ {0} /\ MinChunk \in Nat \ {0} /\ Worker # {}

VARIABLES
  call,      \* the function called
  phase,     \* "rows", "down" or "done"
  next,      \* next_row: the first row no task has claimed
  running,   \* the tasks that have not seen the end of the range
  claim,     \* the claimed rows a task has still to compute, from .. to - 1
  cells      \* the buffers

vars == <<call, phase, next, running, claim, cells>>

Call == {"qkv", "gate_up", "mlp_all", "mlp_gate_up_down"}
Stale == <<"stale", 0>>
Cell == ({"q"} \X (0 .. Q - 1)) \cup ({"k"} \X (0 .. K - 1)) \cup ({"v"} \X (0 .. V - 1))
          \cup ({"gate", "up", "mid"} \X (0 .. Inter - 1)) \cup ({"down"} \X (0 .. Out - 1))

(* The rows of the running scope, and what one task claims at a time. *)
Total(c, p) ==
  IF p = "down" THEN Out ELSE IF c = "qkv" THEN Q + K + V ELSE Inter + Inter
Chunk(total) ==
  LET even == (total + Threads - 1) \div Threads IN IF even < MinChunk THEN MinChunk ELSE even

(* compute_row: the buffer and element row r is stored to, which is also   *)
(* the layer and the row of it whose dot product is taken.                 *)
PlaceM(c, p, r) ==
  IF p = "down" THEN <<"down", r>>
  ELSE IF c = "qkv"
  THEN IF r < Q THEN <<"q", r>> ELSE IF r < Q + K THEN <<"k", r - Q>> ELSE <<"v", r - Q>>
  ELSE IF r < Inter THEN <<"gate", r>> ELSE <<"up", r - Inter>>
Place(c, p, r) ==
  IF p = "down" THEN <<"down", r>>
  ELSE IF c = "qkv"
  THEN IF r < Q THEN <<"q", r>> ELSE IF r < Q + K THEN <<"k", r - Q>> ELSE <<"v", r - Q - K>>
  ELSE IF r < Inter THEN <<"gate", r>> ELSE <<"up", r - Inter>>

(* The quantized activation, and whether it is that of every gate and up   *)
(* row: the down projection's rows read all of it.                         *)
Activated(i) == <<"act", i>>
MidWhole == \A i \in 0 .. Inter - 1 : cells[<<"mid", i>>] = Activated(i)
Dot(p, place) == IF p = "down" /\ ~MidWhole THEN Stale ELSE place

Idle == [from |-> 0, to |-> 0]

Init ==
  /\ call \in Call
  /\ phase = "rows"
  /\ next = 0
  /\ running = Worker
  /\ claim = [w \in Worker |-> Idle]
  /\ cells = [c \in Cell |-> Stale]

(* fetch_add, and the loop's end.  The counter moves on even when there is *)
(* nothing left.                                                           *)
AdvancedM(start, total) == start + 1
Advanced(start, total) == start + Chunk(total)
Claimed(start, total) ==
  [from |-> start, to |-> IF start + Chunk(total) < total THEN start + Chunk(total) ELSE total]
Claim(w) ==
  /\ w \in running
  /\ claim[w].from = claim[w].to
  /\ next' = Advanced(next, Total(call, phase))
  /\ IF next >= Total(call, phase)
     THEN running' = running \ {w} /\ UNCHANGED claim
     ELSE /\ claim' = [claim EXCEPT ![w] = Claimed(next, Total(call, phase))]
          /\ UNCHANGED running
  /\ UNCHANGED <<call, phase, cells>>

Compute(w) ==
  /\ claim[w].from < claim[w].to
  /\ LET place == Place(call, phase, claim[w].from)
     IN cells' = [cells EXCEPT ![place] = Dot(phase, place)]
  /\ claim' = [claim EXCEPT ![w].from = @ + 1]
  /\ UNCHANGED <<call, phase, next, running>>

(* The scope ends when every task has: for the two plain calls that is all.*)
Return ==
  /\ running = {}
  /\ \/ phase = "rows" /\ call \in {"qkv", "gate_up"}
     \/ phase = "down" /\ call = "mlp_all"
  /\ phase' = "done"
  /\ UNCHANGED <<call, next, running, claim, cells>>

(* silu_inplace, the optional norm and the quantization; gate and up go    *)
(* back to the pool.                                                       *)
Mid(i) ==
  IF cells[<<"gate", i>>] = <<"gate", i>> /\ cells[<<"up", i>>] = <<"up", i>> THEN Activated(i) ELSE Stale
Activate ==
  /\ phase = "rows" /\ running = {}
  /\ call \in {"mlp_all", "mlp_gate_up_down"}
  /\ phase' = "down"
  /\ cells' = [c \in Cell |-> CASE c[1] = "mid" -> Mid(c[2])
                               [] c[1] \in {"gate", "up"} -> Stale
                               [] OTHER -> cells[c]]
  /\ next' = 0
  /\ running' = IF call = "mlp_all" THEN Worker ELSE {}
  /\ UNCHANGED <<call, claim>>

(* The down layer's own forward, whose chunks module Linear has. *)
DownForward ==
  /\ phase = "down" /\ call = "mlp_gate_up_down"
  /\ phase' = "done"
  /\ cells' = [c \in Cell |-> IF c[1] = "down" THEN Dot(phase, c) ELSE cells[c]]
  /\ UNCHANGED <<call, next, running, claim>>

Next ==
  \/ \E w \in Worker : Claim(w) \/ Compute(w)
  \/ Return
  \/ Activate
  \/ DownForward

Spec == Init /\ [][Next]_vars

-----------------------------------------------------------------------------
(* The buffers a call returns. *)
Result(c) ==
  CASE c = "qkv" -> {"q", "k", "v"} [] c = "gate_up" -> {"gate", "up"} [] OTHER -> {"down"}

(* No two tasks hold the same row, and no row a task still holds has been  *)
(* stored: "each output row index is claimed exactly once", which the raw  *)
(* pointer writes of compute_row rely on.                                  *)
RowsOnce ==
  /\ \A v, w \in Worker : v # w => claim[v].to <= claim[w].from \/ claim[w].to <= claim[v].from
                                    \/ claim[v].from = claim[v].to \/ claim[w].from = claim[w].to
  /\ \A w \in Worker : \A r \in claim[w].from .. claim[w].to - 1 :
       cells[Place(call, phase, r)] = Stale

(* Nothing the pool left is ever returned: when the call ends every        *)
(* element of its outputs holds its own row, computed from rows that were  *)
(* all there when they were read.                                          *)
OutputsWhole ==
  phase = "done" => \A c \in Cell : c[1] \in Result(call) => cells[c] = c

(* The fused calls of the MLP and attention projections: no row is claimed *)
(* twice, and what a call returns was all computed in that call.           *)
FusedExact == RowsOnce /\ OutputsWhole

=============================================================================
