------------------------- MODULE MCSessionDirectory -------------------------
EXTENDS SessionDirectory, TLC

CONSTANTS a1, a2

MCAgents == {a1, a2}

Identities == Permutations(MCAgents)
=============================================================================
