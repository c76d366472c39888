----------------------------- MODULE MCPromptCache -----------------------------
EXTENDS PromptCache

CONSTANTS c1, c2, m1, m2, none
Clients == {c1, c2}
Symmetry == Permutations(Client)

\* Tokens 1 and 2, blocks of two: one prompt of two blocks, one that
\* differs in its first token, one for another model; all begin with blocks
\* of the same hash.
Requests ==
  {[model |-> m1, prompt |-> <<1, 1, 1, 1>>], [model |-> m1, prompt |-> <<2, 1>>],
   [model |-> m2, prompt |-> <<1, 1>>]}

\* Hashes that nearly always collide: a block's is its last token.
SameSeed(model) == 0
LastToken(hash, block) == block[Block]
=============================================================================
