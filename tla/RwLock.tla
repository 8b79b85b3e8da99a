------------------------------- MODULE RwLock -------------------------------
(***************************************************************************)
(* sync::RwLock<T>: a semaphore beside an UnsafeCell, of as many permits   *)
(* as with_max_readers was told.  read() awaits one permit politely,       *)
(* write() awaits all of them hungrily; the guard is made when the await   *)
(* returns, that is after the future was dropped, and holds the permit     *)
(* until it is dropped.  So a lock is a semaphore with these requests.     *)
(***************************************************************************)
EXTENDS Semaphore

CONSTANT Writers      \* the clients that may also write

ReadRequest  == [want |-> 1, hungry |-> FALSE]
WriteRequest == [want |-> MaxPermits, hungry |-> TRUE]

LockRequests == [c \in Clients |->
    {ReadRequest} \cup (IF c \in Writers THEN {WriteRequest} ELSE {})]

(* The semaphore is a lock's: its clients ask for nothing else, and        *)
(* with_max_readers takes a NonZeroUsize.                                  *)
OfLock == Requests = LockRequests /\ MaxPermits # 0

ReadGuards  == {c \in Clients : pc[c] = "held" /\ request[c] = ReadRequest}
WriteGuards == {c \in Clients : pc[c] = "held" /\ request[c] = WriteRequest}

-----------------------------------------------------------------------------
(* While a WriteGuard lends out its &mut T there is no other guard: what   *)
(* `unsafe impl Sync for RwLock` promises (rw_lock.rs:50).                 *)
Exclusive ==
    WriteGuards # {} => Cardinality(ReadGuards \cup WriteGuards) = 1

(* The same, and no more readers than permits, for as long as no write     *)
(* future was dropped with permits it had both collected and passed on to  *)
(* its guard (rw_lock.rs write against semaphore.rs SemaphoreFuture::drop). *)
ExclusiveUntilSurplus ==
    surplus = 0 => Exclusive /\ Cardinality(ReadGuards) <= MaxPermits

(* A client that asks gets its guard, readers and a queued writer alike,   *)
(* unless it gives up, a wake was spent on a client that no longer waited  *)
(* (a poll queues its waker and may then succeed, and the waker is never   *)
(* taken back), or two writers each keep permits the other one needs       *)
(* (semaphore.rs sem_fut and add_permits).                                 *)
EveryoneGetsIn ==
    \A c \in Clients : pc[c] = "load"
        ~> pc[c] \in {"idle", "held"} \/ wasted \/ Cardinality(Hoarders) > 1
=============================================================================
