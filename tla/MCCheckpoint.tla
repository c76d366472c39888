------------------------------ MODULE MCCheckpoint ------------------------------
EXTENDS Checkpoint

CONSTANTS absent, query, down, head

\* A packed projection and its scale, another in a second shard, and a head
\* stored as it is.
Packing(rows, ins) == Stored([r \in 1 .. rows |-> [i \in 1 .. ins |-> ((r + i) % 3) - 1]], 4, 4)
PackedTensor(rows, ins) == [dtype |-> "U8", rows |-> rows \div 4, cols |-> ins, data |-> Packing(rows, ins)]
ScaleTensor == [dtype |-> "BF16", rows |-> 1, cols |-> 1, data |-> 2]
First == (query :> PackedTensor(8, 4)) @@ (<<query, "scale">> :> ScaleTensor)
           @@ (head :> [dtype |-> "BF16", rows |-> 4, cols |-> 4, data |-> <<>>])
Second == (down :> PackedTensor(4, 5)) @@ (<<down, "scale">> :> ScaleTensor)

Directories ==
  {[files |-> (1 :> (First @@ Second)), index |-> absent],
   [files |-> ((2 :> First) @@ (3 :> Second)), index |-> {2, 3}],
   [files |-> ((2 :> First) @@ (3 :> Second)), index |-> absent],
   [files |-> (2 :> First), index |-> {2, 3}]}
Layers ==
  {[name |-> query, ins |-> 4, outs |-> 8, head |-> FALSE],
   [name |-> down, ins |-> 5, outs |-> 4, head |-> FALSE],
   [name |-> head, ins |-> 4, outs |-> 4, head |-> TRUE]}
TernaryConfig == [quant |-> "ternary", per |-> 4, head |-> "int8"]
=============================================================================
