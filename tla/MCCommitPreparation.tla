------------------------ MODULE MCCommitPreparation ------------------------
\* Instances of CommitPreparation for TLC.
EXTENDS CommitPreparation, TLC

CONSTANTS s1, s2, w1, w2, p1, p2

\* Identities are interchangeable: sound for the safety runs.
Identities == Permutations({s1, s2}) \cup Permutations({w1, w2}) \cup Permutations({p1, p2})
=============================================================================
