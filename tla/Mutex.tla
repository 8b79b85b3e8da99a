------------------------------- MODULE Mutex -------------------------------
(***************************************************************************)
(* sync::Mutex: the `locked` flag, the lock-free queue of wakers, and the  *)
(* three shared accesses of MutexFuture::poll (compare-exchange, push,     *)
(* compare-exchange), each an action of its own, interleaved with the two  *)
(* of MutexGuard::drop (store, pop-and-wake).                              *)
(*                                                                         *)
(* A wake is a WakeTask message on its way to the executor of the woken    *)
(* task; `wakes` counts the ones that have not arrived.  The thread that   *)
(* polls a task is the one that handles its WakeTask messages, so none     *)
(* arrives in the middle of a poll.                                        *)
(***************************************************************************)
EXTENDS Naturals, Sequences

CONSTANTS Tasks,        \* the tasks that lock the mutex
          Cancellable,  \* the tasks that may drop a pending MutexFuture
          MaxGuards,    \* guards one acquisition may be cloned into (1: never cloned)
          MaxWakers,    \* bound: a new lock() waits only below this queue length
          MaxWakes      \* bound: ... and below this many wakes owed to its task

ASSUME MutexAssumption ==
    /\ Cancellable \subseteq Tasks
    /\ MaxGuards \in Nat \ {0}
    /\ MaxWakers \in Nat \ {0}
    /\ MaxWakes \in Nat \ {0}

VARIABLES
    locked,       \* MutexInner::locked
    waker_queue,  \* MutexInner::waker_queue, oldest first; a waker is its task
    pc,           \* where each task is in poll / drop
    guards,       \* MutexGuards alive that stem from each task's acquisition
    wakes,        \* WakeTask messages sent to each task and not yet handled
    wasted,       \* history: a wake was spent on a task that had stopped waiting
    cloned        \* history: a guard was cloned

vars == <<locked, waker_queue, pc, guards, wakes, wasted, cloned>>

(* "idle": no lock future.  "push", "recheck": inside poll.  "pending":    *)
(* parked in running_tasks.  "ready": woken, to be polled again.  "held":  *)
(* owns a guard.  "unlocked": drop has stored FALSE and not yet popped.    *)
Idle    == "idle"
Push    == "push"
Recheck == "recheck"
Pending == "pending"
Ready   == "ready"
Held    == "held"
Unlocked == "unlocked"
Locations == {Idle, Push, Recheck, Pending, Ready, Held, Unlocked}

Waiting(t) == pc[t] \in {Push, Recheck, Pending, Ready}
Holding(t) == guards[t] > 0

TypeOK ==
    /\ locked \in BOOLEAN
    /\ waker_queue \in Seq(Tasks)
    /\ pc \in [Tasks -> Locations]
    /\ guards \in [Tasks -> 0 .. MaxGuards]
    /\ wakes \in [Tasks -> Nat]
    /\ wasted \in BOOLEAN
    /\ cloned \in BOOLEAN

Init ==
    /\ locked = FALSE
    /\ waker_queue = <<>>
    /\ pc = [t \in Tasks |-> Idle]
    /\ guards = [t \in Tasks |-> 0]
    /\ wakes = [t \in Tasks |-> 0]
    /\ wasted = FALSE
    /\ cloned = FALSE

-----------------------------------------------------------------------------
Goto(t, l) == pc' = [pc EXCEPT ![t] = l]

(* Mutant: the second check stores TRUE instead of comparing first. *)
AcquireBlindly(t) ==
    /\ pc[t] \in {Idle, Ready, Recheck}
    /\ locked = FALSE \/ pc[t] = Recheck
    /\ locked' = TRUE
    /\ guards' = [guards EXCEPT ![t] = 1]
    /\ Goto(t, Held)
    /\ UNCHANGED <<waker_queue, wakes, wasted, cloned>>

(* check_lock succeeds, in the first check of a poll (of a new future, or  *)
(* of one whose task was woken) or in the second: poll returns Ready(guard). *)
Acquire(t) ==
    /\ pc[t] \in {Idle, Ready, Recheck}
    /\ locked = FALSE
    /\ locked' = TRUE
    /\ guards' = [guards EXCEPT ![t] = 1]
    /\ Goto(t, Held)
    /\ UNCHANGED <<waker_queue, wakes, wasted, cloned>>

(* Bound: a new lock() joins the queue only while there is room.  The real *)
(* queue is unbounded; a re-poll always has room.                          *)
MayQueue(t) == pc[t] = Idle => /\ Len(waker_queue) < MaxWakers
                              /\ wakes[t] < MaxWakes

FirstCheckFails(t) ==
    /\ pc[t] \in {Idle, Ready}
    /\ locked = TRUE
    /\ MayQueue(t)
    /\ Goto(t, Push)
    /\ UNCHANGED <<locked, waker_queue, guards, wakes, wasted, cloned>>

PushWaker(t) ==
    /\ pc[t] = Push
    /\ waker_queue' = Append(waker_queue, t)
    /\ Goto(t, Recheck)
    /\ UNCHANGED <<locked, guards, wakes, wasted, cloned>>

(* Mutant: poll parks as soon as the waker is queued. *)
ParkUnchecked(t) ==
    /\ pc[t] = Recheck
    /\ Goto(t, Pending)
    /\ UNCHANGED <<locked, waker_queue, guards, wakes, wasted, cloned>>

(* check_lock fails again: poll returns Pending. *)
SecondCheckFails(t) ==
    /\ pc[t] = Recheck
    /\ locked = TRUE
    /\ Goto(t, Pending)
    /\ UNCHANGED <<locked, waker_queue, guards, wakes, wasted, cloned>>

(* #[derive(Clone)] on MutexGuard. *)
CloneGuard(t) ==
    /\ pc[t] = Held
    /\ guards[t] < MaxGuards
    /\ guards' = [guards EXCEPT ![t] = @ + 1]
    /\ cloned' = TRUE
    /\ UNCHANGED <<locked, waker_queue, pc, wakes, wasted>>

DropGuard(t) ==
    /\ pc[t] = Held
    /\ locked' = FALSE
    /\ guards' = [guards EXCEPT ![t] = @ - 1]
    /\ Goto(t, Unlocked)
    /\ UNCHANGED <<waker_queue, wakes, wasted, cloned>>

(* The popped waker is spent for nothing if its task is past its own pop: *)
(* it will neither take the lock nor pass the wake on.                    *)
Departed(t, u) == u = t \/ pc[u] = Idle

(* Mutant: the popped waker is dropped, not woken. *)
PopSilently(t) ==
    /\ waker_queue # <<>>
    /\ waker_queue' = Tail(waker_queue)
    /\ UNCHANGED <<wakes, wasted>>

(* Mutant: the queue is a stack. *)
PopYoungest(t) ==
    LET last == Len(waker_queue) IN
    /\ waker_queue # <<>>
    /\ waker_queue' = SubSeq(waker_queue, 1, last - 1)
    /\ wakes' = [wakes EXCEPT ![waker_queue[last]] = @ + 1]
    /\ wasted' = IF Departed(t, waker_queue[last]) THEN TRUE ELSE wasted

PopAndWake(t) ==
    /\ waker_queue # <<>>
    /\ waker_queue' = Tail(waker_queue)
    /\ wakes' = [wakes EXCEPT ![Head(waker_queue)] = @ + 1]
    /\ wasted' = IF Departed(t, Head(waker_queue)) THEN TRUE ELSE wasted

WakeNext(t) ==
    /\ pc[t] = Unlocked
    /\ Goto(t, IF Holding(t) THEN Held ELSE Idle)
    /\ \/ PopAndWake(t)
       \/ waker_queue = <<>> /\ UNCHANGED <<waker_queue, wakes, wasted>>
    /\ UNCHANGED <<locked, guards, cloned>>

(* Mutant: a task is made ready for a message nobody sent. *)
WakeUnasked(t) ==
    /\ pc[t] \in {Idle, Pending, Ready, Held}
    /\ wakes' = [wakes EXCEPT ![t] = @ - 1]
    /\ pc' = [pc EXCEPT ![t] = IF @ = Pending THEN Ready ELSE @]
    /\ UNCHANGED <<locked, waker_queue, guards, wasted, cloned>>

(* Executor::wake_task: only a task in running_tasks becomes ready. *)
WakeTask(t) ==
    /\ wakes[t] > 0
    /\ pc[t] \in {Idle, Pending, Ready, Held}
    /\ wakes' = [wakes EXCEPT ![t] = @ - 1]
    /\ pc' = [pc EXCEPT ![t] = IF @ = Pending THEN Ready ELSE @]
    /\ UNCHANGED <<locked, waker_queue, guards, wasted, cloned>>

(* MutexFuture has no Drop: a future given up (select!, a timeout) leaves  *)
(* its waker in the queue, and a wake already sent to it is spent.         *)
DropFuture(t) ==
    /\ t \in Cancellable
    /\ pc[t] \in {Pending, Ready}
    /\ Goto(t, Idle)
    /\ wasted' = IF pc[t] = Ready \/ wakes[t] > 0 THEN TRUE ELSE wasted
    /\ UNCHANGED <<locked, waker_queue, guards, wakes, cloned>>

Next == \E t \in Tasks :
    \/ Acquire(t) \/ FirstCheckFails(t) \/ PushWaker(t) \/ SecondCheckFails(t)
    \/ CloneGuard(t) \/ DropGuard(t) \/ WakeNext(t)
    \/ WakeTask(t) \/ DropFuture(t)

Spec == Init /\ [][Next]_vars

(* The executor runs a poll or a drop it has begun to its end, handles the *)
(* messages it was sent and polls the tasks that are ready.  Nothing makes *)
(* a task lock the mutex, give it up or drop its guard.                    *)
Progress(t) == \/ PushWaker(t) \/ SecondCheckFails(t) \/ WakeNext(t) \/ WakeTask(t)
               \/ pc[t] # Idle /\ (Acquire(t) \/ FirstCheckFails(t))

FairSpec == Spec /\ \A t \in Tasks : WF_vars(Progress(t))

-----------------------------------------------------------------------------
(* At most one task owns a guard, until a guard is cloned (each clone       *)
(* unlocks): DerefMut hands out &mut T on the strength of it (mutex.rs      *)
(* MutexGuard::deref_mut).                                                  *)
MutualExclusion ==
    cloned = FALSE => \A t, u \in Tasks : Holding(t) /\ Holding(u) => t = u

(* A parked task can still be reached: its waker is queued or a wake for it *)
(* is on its way (mutex.rs MutexFuture::poll pushes before it parks).       *)
Reachable(t) == wakes[t] > 0 \/ \E i \in 1 .. Len(waker_queue) : waker_queue[i] = t
ParkedIsReachable == \A t \in Tasks : pc[t] = Pending => Reachable(t)

(* Nothing happens any more unless a task that does not wait acts. *)
Quiet == \A t \in Tasks : \/ pc[t] = Idle
                          \/ pc[t] = Pending /\ wakes[t] = 0

(* "Lost wakeup avoidance: check again" (mutex.rs:129) would have no task   *)
(* left parked on a free mutex.  What the code guarantees is that this      *)
(* happens only after a wake went to a task that no longer waited, because  *)
(* it acquired the lock in the second check (leaving its waker queued) or   *)
(* gave up.                                                                 *)
StrandedOnlyByStaleWaker ==
    Quiet /\ (\E t \in Tasks : pc[t] = Pending) => wasted

(* Overtaking does not starve the queue: as long as guards keep being      *)
(* dropped, a parked task is polled again (drop pops the oldest waker).    *)
QueueIsServed ==
    \A t \in Tasks : ([]<>\E u \in Tasks : pc[u] = Unlocked)
                     => (pc[t] = Pending ~> pc[t] # Pending)

(* The mutex is a lock, whose promise a clone of a guard voids: it         *)
(* implements LockService.                                                 *)
Service == INSTANCE LockService WITH
    holders <- {t \in Tasks : Holding(t)},
    waiting <- {t \in Tasks : Waiting(t)},
    void    <- cloned
ImplementsLock == Service!Spec
=============================================================================
