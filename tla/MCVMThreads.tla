---------------------------- MODULE MCVMThreads ----------------------------
\* Model-checking instances of VMThreads.
EXTENDS VMThreads, TLC

=============================================================================
