---------------------------- MODULE MCListCache ----------------------------
(* Small instances of ListCache for TLC.                                   *)
EXTENDS ListCache, TLC

\* Callers and mutators are interchangeable, and so are the servers.
Symmetry == Permutations(Caller) \cup Permutations(Mutator) \cup Permutations(Server)
=============================================================================
