------------------------------ MODULE MCEvents ------------------------------
(* The instance of Events for TLC. *)
EXTENDS Events
=============================================================================
