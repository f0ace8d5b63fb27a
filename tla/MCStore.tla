------------------------------- MODULE MCStore -------------------------------
(* Two writes with sync and one without. *)
EXTENDS Store

CONSTANTS w1, w2, w3

MCWrites == {w1, w2, w3}
MCSyncWrites == {w2, w3}
=============================================================================
