------------------------------ MODULE MCMutex ------------------------------
(* The instance of MCMutex.cfg: tasks that contend, one of which may give   *)
(* its future up, and a guard that may be cloned.                           *)
EXTENDS Mutex
=============================================================================
