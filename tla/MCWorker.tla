------------------------------ MODULE MCWorker ------------------------------
EXTENDS Worker, TLC

CONSTANTS t1, t2

(* The tasks are alike when all or none may await I/O. *)
Symmetry == Permutations(Tasks)
=============================================================================
