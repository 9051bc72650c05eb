------------------------------ MODULE MC_Store ------------------------------
\* Small instances of Store.  Goroutines, ids, records and cells are model
\* values; the safety run uses the symmetry of goroutines, ids, cells and records.
EXTENDS Store, TLC

Symm == Permutations(Procs) \cup Permutations(Ids) \cup Permutations(Cells) \cup Permutations(Vals)
=============================================================================
