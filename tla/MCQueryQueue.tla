---------------------------- MODULE MCQueryQueue ----------------------------
(* QueryQueue for TLC: job ids, callers and keys are interchangeable.      *)
EXTENDS QueryQueue, TLC

Symmetry == Permutations(Job) \cup Permutations(Caller) \cup Permutations(Key)

=============================================================================
