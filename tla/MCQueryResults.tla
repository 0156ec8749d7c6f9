--------------------------- MODULE MCQueryResults ---------------------------
(* QueryResults for TLC: executions and hashes are interchangeable.        *)
EXTENDS QueryResults, TLC

Symmetry == Permutations(Exec) \cup Permutations(Hash)

=============================================================================
