------------------------------- MODULE MCLogin -------------------------------
(* Two attempts, the second of which may supersede the first. *)
EXTENDS Login
=============================================================================
