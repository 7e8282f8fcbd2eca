----------------------------- MODULE MCGifPath1 -----------------------------
\* Model-checking instances of GifPath1.
EXTENDS GifPath1, TLC

=============================================================================
