--------------------------- MODULE MCBoundedCall ---------------------------
\* A small instance of a slot pool for TLC.
EXTENDS BoundedCall
=============================================================================
