--------------------------- MODULE MC_KeyedMutex ---------------------------
\* Small instances of KeyedMutex: goroutines, keys and lock cells are model
\* values.
EXTENDS KeyedMutex
=============================================================================
