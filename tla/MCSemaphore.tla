---------------------------- MODULE MCSemaphore ----------------------------
EXTENDS Semaphore, TLC

CONSTANTS c1, c2, c3, Wants, HungryWants, HungryClients

(* Every client asks politely for one of Wants; HungryClients may instead  *)
(* ask hungrily for one of HungryWants.                                    *)
MCRequests == [c \in Clients |->
    [want : Wants, hungry : {FALSE}] \cup
    (IF c \in HungryClients THEN [want : HungryWants, hungry : {TRUE}] ELSE {})]

Symmetry == Permutations(Clients)
=============================================================================
