---------------------------- MODULE MC_NerCache ----------------------------
\* A small instance of NerCache: goroutines and texts are model values, and
\* neither are told apart.
EXTENDS NerCache, TLC

Symmetric == Permutations(Procs) \cup Permutations(Texts)
=============================================================================
