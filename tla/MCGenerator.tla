------------------------------ MODULE MCGenerator ------------------------------
EXTENDS Generator

CONSTANT none

\* Chat turns: two prompts extend the first and diverge from one another.
Prompts == {<<1>>, <<1, 2>>, <<1, 1, 2>>}
=============================================================================
