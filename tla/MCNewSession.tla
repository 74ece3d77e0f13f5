----------------------------- MODULE MCNewSession -----------------------------
\* An instance of NewSession for TLC: the supported provider with and without
\* reasoning, and a profile of the user.
EXTENDS NewSession

CONSTANTS codex, profile, m1, r1

MCSettings ==
  {[provider |-> codex, model |-> m1, reasoning |-> None],
   [provider |-> codex, model |-> m1, reasoning |-> r1],
   [provider |-> profile, model |-> m1, reasoning |-> None]}
=============================================================================
