----------------------------- MODULE MCWalHash -----------------------------
\* Tables of 1 and 4 frames with 8 slots: page 1 starts at the last slot, page 2 at
\* the one before it, so that chains run into each other and wrap around.
EXTENDS WalHashIterator
=============================================================================
