----------------------------- MODULE MCMainGraph -----------------------------
(* Two workers serving two users.  Only the workers are symmetric: users     *)
(* index the cache and CacheKey's mutant chooses one of them.                *)
EXTENDS MainGraph, TLC

\* Two rag steps cite one chunk each and so share an id.
MCCitationCounts == {<<1, 1>>}

WorkerSymmetry == Permutations(Workers)

=============================================================================
