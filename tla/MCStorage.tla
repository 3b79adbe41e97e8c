------------------------------ MODULE MCStorage ------------------------------
(* Storage for TLC: the records of MCRecordStore, a trail of four that two callers write to, *)
(* and three credentials in two areas.                                                      *)
EXTENDS Storage, MCRecordStore

CONSTANTS c1, c2, i1

Alike == Permutations({c1, c2}) \cup Permutations(DataKeys) \cup Permutations(Recorders)
=============================================================================
