---------------------------- MODULE MCEmailCodes ----------------------------
(* EmailCodes for TLC: sessions, requests and other identities are interchangeable. *)
EXTENDS EmailCodes, TLC

CodesSymmetry ==
    Permutations(Sessions) \cup Permutations(Requests) \cup Permutations(Identities \ Email)
=============================================================================
