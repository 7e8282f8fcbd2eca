----------------------------- MODULE MCGSEvents -----------------------------
\* Model-checking instances of GSEvents.
EXTENDS GSEvents

=============================================================================
