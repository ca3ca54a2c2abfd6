------------------------------ MODULE MCAtaIrq ------------------------------
(* Two tasks with a disk. *)
EXTENDS AtaIrq
=============================================================================
