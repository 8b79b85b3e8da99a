------------------------------ MODULE OneShot ------------------------------
(***************************************************************************)
(* What an I/O future promises: once asked, an operation has one outcome,  *)
(* and whoever asked is given that outcome, once.  Nothing is promised of  *)
(* a future that is dropped.  A future may also fail, with an outcome of   *)
(* its own, but never when there is one to be given.                       *)
(***************************************************************************)
CONSTANTS Clients,   \* one operation each
          Outcomes,  \* of operations; "none" is not one
          Failures   \* of futures; nor is it one of these

VARIABLES status,   \* of each client
          outcome   \* of its operation, "none" while there is none to be known

vars == <<status, outcome>>

Init == /\ status = [c \in Clients |-> "idle"]
        /\ outcome = [c \in Clients |-> "none"]

Ask(c) == /\ status[c] = "idle"
          /\ status' = [status EXCEPT ![c] = "asked"]
          /\ UNCHANGED outcome

Decide(c) == /\ status[c] = "asked" /\ outcome[c] = "none"
             /\ \E r \in Outcomes : outcome' = [outcome EXCEPT ![c] = r]
             /\ UNCHANGED status

Answer(c) == /\ status[c] = "asked" /\ outcome[c] # "none"
             /\ status' = [status EXCEPT ![c] = "answered"]
             /\ UNCHANGED outcome

Fail(c) == /\ status[c] \in {"idle", "asked"} /\ outcome[c] = "none"
           /\ status' = [status EXCEPT ![c] = "answered"]
           /\ \E r \in Failures : outcome' = [outcome EXCEPT ![c] = r]

Forget(c) == /\ status[c] \in {"asked", "answered"}
             /\ status' = [status EXCEPT ![c] = "gone"]
             /\ outcome' = [outcome EXCEPT ![c] = "none"]

Next == \E c \in Clients : Ask(c) \/ Decide(c) \/ Answer(c) \/ Fail(c) \/ Forget(c)

Spec == Init /\ [][Next]_vars
=============================================================================
