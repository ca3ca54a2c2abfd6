------------------------------- MODULE MCTasks -------------------------------
(* Small instances of Tasks. *)
EXTENDS Tasks
=============================================================================
