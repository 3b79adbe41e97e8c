---------------------------- MODULE MCRecordStore ----------------------------
(* RecordStore for TLC: three records, two of which fit. *)
EXTENDS RecordStore, TLC

CONSTANTS writer, changer, a, b, d

AnyGeneration == {<<>>, <<a, d>>, <<d, b, a>>, <<a, b, d>>}
NoGeneration  == {<<>>}

\* One caller that adds, replaces and removes, and one that changes what is there.
Apart  == (writer :> {"put", "replace", "remove"}) @@ (changer :> {"mutate"})
BothPut == (writer :> {"put"}) @@ (changer :> {"put"})
=============================================================================
