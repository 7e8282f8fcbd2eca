----------------------------- MODULE MCMTVURing -----------------------------
\* Model-checking instances of MTVURing.
EXTENDS MTVURing, TLC

\* Nothing is claimed past the first lap: the search stops there.
BeforeLap == lapped = 0
=============================================================================
