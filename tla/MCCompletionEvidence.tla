------------------------ MODULE MCCompletionEvidence ------------------------
\* An instance of CompletionEvidence for TLC.
EXTENDS CompletionEvidence

CONSTANTS s1, w1, p1
=============================================================================
