------------------------------- MODULE MCHub -------------------------------
(* The instance of Hub for TLC: one query is watched twice, the other once. *)
EXTENDS Hub

CONSTANTS q1, q2

MCWatcher == {<<q1, 1>>, <<q1, 2>>, <<q2, 1>>}
=============================================================================
