-------------------------- MODULE MCWorkingContext --------------------------
\* An instance of WorkingContext for TLC.
EXTENDS WorkingContext, TLC

CONSTANTS r1, r2

\* Two roots are as good as each other.
Identities == Permutations({r1, r2})
=============================================================================
