----------------------------- MODULE MCPhaseOne -----------------------------
\* An instance of PhaseOne for TLC.
EXTENDS PhaseOne

CONSTANTS s1, s2, w1, p1
=============================================================================
