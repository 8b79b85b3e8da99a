------------------------------ MODULE MCRwLock ------------------------------
EXTENDS RwLock, TLC

CONSTANTS c1, c2, c3, c4

(* The requests are those of a lock. *)
ASSUME OfLock

(* Writers are alike, and so are the clients that only read. *)
Symmetry == Permutations(Writers) \cup Permutations(Clients \ Writers)
=============================================================================
