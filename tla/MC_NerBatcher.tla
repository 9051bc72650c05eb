--------------------------- MODULE MC_NerBatcher ---------------------------
\* A small instance of NerBatcher: calls and workers are model values.
EXTENDS NerBatcher
=============================================================================
