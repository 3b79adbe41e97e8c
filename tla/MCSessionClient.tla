-------------------------- MODULE MCSessionClient --------------------------
(* SessionClient for TLC. *)
EXTENDS SessionClient

\* Session ids are random, so which unused one is taken says nothing: the lowest always may.
InOrder == \A s, t \in Sessions : t < s /\ session[s].family # NoSession
                                      => session[t].family # NoSession
=============================================================================
