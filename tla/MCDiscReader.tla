---------------------------- MODULE MCDiscReader ----------------------------
\* Model-checking instances of DiscReader.
EXTENDS DiscReader, TLC

\* Sectors shorter than a chunk, sectors as long, at an offset, and longer ones.
Formats == <<[size |-> 2, offset |-> 0], [size |-> 3, offset |-> 1], [size |-> 4, offset |-> 0]>>
=============================================================================
