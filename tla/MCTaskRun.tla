------------------------------ MODULE MCTaskRun ------------------------------
(* One task of two slots, run by two workers. *)
EXTENDS TaskRun
=============================================================================
