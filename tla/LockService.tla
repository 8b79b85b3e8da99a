---------------------------- MODULE LockService ----------------------------
(***************************************************************************)
(* What a mutual exclusion lock promises to the tasks that use it, with no *)
(* waker queue and no atomics: a task asks, is granted the lock only while *)
(* nobody holds it, releases it, or gives up while it still waits.  Grants *)
(* are not ordered: cl_async's locks let a newcomer overtake the queue.    *)
(* A holder may share what it holds, and that ends the promise: from then  *)
(* on the lock may be granted whoever holds it.                            *)
(***************************************************************************)
CONSTANT Tasks

VARIABLES holders,   \* tasks that own a guard
          waiting,   \* tasks with an unresolved lock future
          void       \* whether a holder shared the lock

vars == <<holders, waiting, void>>

Init == /\ holders = {}
        /\ waiting = {}
        /\ void = FALSE

Ask(t) == /\ t \notin holders \cup waiting
          /\ waiting' = waiting \cup {t}
          /\ UNCHANGED <<holders, void>>

Grant(t) == /\ t \notin holders
            /\ holders = {} \/ void = TRUE
            /\ holders' = holders \cup {t}
            /\ waiting' = waiting \ {t}
            /\ UNCHANGED void

Release(t) == /\ t \in holders
              /\ holders' = holders \ {t}
              /\ UNCHANGED <<waiting, void>>

Share(t) == /\ t \in holders
            /\ void' = TRUE
            /\ UNCHANGED <<holders, waiting>>

GiveUp(t) == /\ t \in waiting
             /\ waiting' = waiting \ {t}
             /\ UNCHANGED <<holders, void>>

Next == \E t \in Tasks : Ask(t) \/ Grant(t) \/ Release(t) \/ Share(t) \/ GiveUp(t)

Spec == Init /\ [][Next]_vars
=============================================================================
