---------------------------- MODULE MCInvocation ----------------------------
\* Instances of Invocation for TLC.
EXTENDS Invocation, TLC

CONSTANTS p1, p2, i1, i2

\* Identities are interchangeable: sound for the safety runs.
Identities == Permutations({p1, p2}) \cup Permutations({i1, i2})
=============================================================================
