---------------------------- MODULE MCGSJobQueue ----------------------------
\* Model-checking instances of GSJobQueue.
EXTENDS GSJobQueue, TLC

=============================================================================
