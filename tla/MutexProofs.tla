---------------------------- MODULE MutexProofs ----------------------------
(***************************************************************************)
(* What holds of sync::Mutex for every set of tasks and every bound.       *)
(***************************************************************************)
EXTENDS Mutex, TLAPS

(* Which locations a guard can be alive in. *)
GuardLocations ==
    \A t \in Tasks : /\ pc[t] = Held => Holding(t)
                     /\ Holding(t) => pc[t] \in {Held, Unlocked}

(* The inductive strengthening of ParkedIsReachable: the waker is in place *)
(* before the second check, which is what makes it safe to park after it.  *)
WaiterIsReachable ==
    \A t \in Tasks : pc[t] \in {Recheck, Pending} => Reachable(t)

(* TypeOK in two halves: no prover takes the Boolean flags and the others  *)
(* in one obligation.                                                      *)
Flags == locked \in BOOLEAN /\ wasted \in BOOLEAN /\ cloned \in BOOLEAN

Shapes == /\ waker_queue \in Seq(Tasks)
          /\ pc \in [Tasks -> Locations]
          /\ guards \in [Tasks -> 0 .. MaxGuards]
          /\ wakes \in [Tasks -> Nat]

IInv == Shapes /\ GuardLocations /\ WaiterIsReachable

LEMMA FlagsInvariance == Spec => []Flags
<1>1. Init => Flags
  BY DEF Init, Flags
<1>2. Flags /\ [Next]_vars => Flags'
  BY ZenonT(60) DEF Flags, Next, vars, Acquire, FirstCheckFails, PushWaker, SecondCheckFails,
     CloneGuard, DropGuard, WakeNext, PopAndWake, WakeTask, DropFuture
<1>3. QED
  BY <1>1, <1>2, PTL DEF Spec

LEMMA InitIInv == Init => IInv
  BY MutexAssumption DEF Init, IInv, Shapes, GuardLocations, WaiterIsReachable,
     Holding, Locations, Idle, Push, Recheck, Pending, Ready, Held, Unlocked

(* Every action keeps the shapes; a guard is dropped only where one is held. *)
LEMMA StepShapes == IInv /\ [Next]_vars => Shapes'
<1> SUFFICES ASSUME IInv, [Next]_vars PROVE Shapes'
  OBVIOUS
<1> USE MutexAssumption DEF IInv, Shapes, Locations, Goto, Holding,
        Idle, Push, Recheck, Pending, Ready, Held, Unlocked
<1>0. ASSUME NEW t \in Tasks, Acquire(t) PROVE Shapes'
  BY <1>0 DEF Acquire
<1>1. ASSUME NEW t \in Tasks, FirstCheckFails(t) PROVE Shapes'
  BY <1>1 DEF FirstCheckFails
<1>2. ASSUME NEW t \in Tasks, PushWaker(t) PROVE Shapes'
  BY <1>2 DEF PushWaker
<1>3. ASSUME NEW t \in Tasks, SecondCheckFails(t) PROVE Shapes'
  BY <1>3 DEF SecondCheckFails
<1>4. ASSUME NEW t \in Tasks, CloneGuard(t) PROVE Shapes'
  BY <1>4 DEF CloneGuard
<1>5. ASSUME NEW t \in Tasks, DropGuard(t) PROVE Shapes'
  BY <1>5 DEF DropGuard, GuardLocations
<1>6. ASSUME NEW t \in Tasks, WakeNext(t) PROVE Shapes'
  <2>1. CASE waker_queue = <<>>
    BY <1>6, <2>1 DEF WakeNext, PopAndWake
  <2>2. CASE waker_queue # <<>>
    <3>1. Head(waker_queue) \in Tasks /\ Tail(waker_queue) \in Seq(Tasks)
      BY <2>2
    <3>2. PopAndWake(t)
      BY <1>6, <2>2 DEF WakeNext
    <3>3. /\ waker_queue' \in Seq(Tasks)
          /\ wakes' \in [Tasks -> Nat]
      BY <3>1, <3>2, SMTT(30) DEF PopAndWake
    <3>4. QED
      BY <1>6, <3>3 DEF WakeNext
  <2>3. QED
    BY <2>1, <2>2
<1>7. ASSUME NEW t \in Tasks, WakeTask(t) PROVE Shapes'
  BY <1>7 DEF WakeTask
<1>8. ASSUME NEW t \in Tasks, DropFuture(t) PROVE Shapes'
  BY <1>8 DEF DropFuture
<1>9. CASE UNCHANGED vars
  BY <1>9 DEF vars
<1>10. QED
  BY <1>0, <1>1, <1>2, <1>3, <1>4, <1>5, <1>6, <1>7, <1>8, <1>9 DEF Next

LEMMA StepGuardLocations == IInv /\ [Next]_vars => GuardLocations'
<1> SUFFICES ASSUME IInv, [Next]_vars PROVE GuardLocations'
  OBVIOUS
<1> USE MutexAssumption DEF IInv, Shapes, GuardLocations, Holding, Goto,
        Locations, Idle, Push, Recheck, Pending, Ready, Held, Unlocked
<1>0. ASSUME NEW t \in Tasks, Acquire(t) PROVE GuardLocations'
  BY <1>0 DEF Acquire
<1>1. ASSUME NEW t \in Tasks, FirstCheckFails(t) PROVE GuardLocations'
  BY <1>1 DEF FirstCheckFails
<1>2. ASSUME NEW t \in Tasks, PushWaker(t) PROVE GuardLocations'
  BY <1>2 DEF PushWaker
<1>3. ASSUME NEW t \in Tasks, SecondCheckFails(t) PROVE GuardLocations'
  BY <1>3 DEF SecondCheckFails
<1>4. ASSUME NEW t \in Tasks, CloneGuard(t) PROVE GuardLocations'
  BY <1>4 DEF CloneGuard
<1>5. ASSUME NEW t \in Tasks, DropGuard(t) PROVE GuardLocations'
  BY <1>5 DEF DropGuard
<1>6. ASSUME NEW t \in Tasks, WakeNext(t) PROVE GuardLocations'
  BY <1>6 DEF WakeNext, PopAndWake
<1>7. ASSUME NEW t \in Tasks, WakeTask(t) PROVE GuardLocations'
  BY <1>7 DEF WakeTask
<1>8. ASSUME NEW t \in Tasks, DropFuture(t) PROVE GuardLocations'
  BY <1>8 DEF DropFuture
<1>9. CASE UNCHANGED vars
  BY <1>9 DEF vars
<1>10. QED
  BY <1>0, <1>1, <1>2, <1>3, <1>4, <1>5, <1>6, <1>7, <1>8, <1>9 DEF Next

LEMMA StepReachable == IInv /\ [Next]_vars => WaiterIsReachable'
<1> SUFFICES ASSUME IInv, [Next]_vars,
                    NEW u \in Tasks, pc'[u] \in {Recheck, Pending}
             PROVE  Reachable(u)'
  BY DEF WaiterIsReachable
<1> USE MutexAssumption DEF IInv, Shapes, WaiterIsReachable, Goto,
        Locations, Idle, Push, Recheck, Pending, Ready, Held, Unlocked
<1>0. ASSUME NEW t \in Tasks, Acquire(t) PROVE Reachable(u)'
  BY <1>0 DEF Acquire, Reachable
<1>1. ASSUME NEW t \in Tasks, FirstCheckFails(t) PROVE Reachable(u)'
  BY <1>1 DEF FirstCheckFails, Reachable
<1>2. ASSUME NEW t \in Tasks, PushWaker(t) PROVE Reachable(u)'
  <2>1. waker_queue' = Append(waker_queue, t) /\ wakes' = wakes
    BY <1>2 DEF PushWaker
  <2>2. CASE u = t
    <3>1. /\ Len(waker_queue') = Len(waker_queue) + 1
          /\ waker_queue'[Len(waker_queue) + 1] = t
      BY <2>1
    <3>2. Len(waker_queue) + 1 \in 1 .. Len(waker_queue')
      BY <3>1
    <3>3. QED
      BY <2>2, <3>1, <3>2 DEF Reachable
  <2>3. CASE u # t
    <3>1. Reachable(u)
      BY <1>2, <2>3 DEF PushWaker
    <3>2. \A i \in 1 .. Len(waker_queue) : /\ i \in 1 .. Len(waker_queue')
                                           /\ waker_queue'[i] = waker_queue[i]
      BY <2>1
    <3>3. QED
      BY <2>1, <3>1, <3>2 DEF Reachable
  <2>4. QED
    BY <2>2, <2>3
<1>3. ASSUME NEW t \in Tasks, SecondCheckFails(t) PROVE Reachable(u)'
  BY <1>3 DEF SecondCheckFails, Reachable
<1>4. ASSUME NEW t \in Tasks, CloneGuard(t) PROVE Reachable(u)'
  BY <1>4 DEF CloneGuard, Reachable
<1>5. ASSUME NEW t \in Tasks, DropGuard(t) PROVE Reachable(u)'
  BY <1>5 DEF DropGuard, Reachable
<1>6. ASSUME NEW t \in Tasks, WakeNext(t) PROVE Reachable(u)'
  <2>0. Reachable(u)
    BY <1>6 DEF WakeNext, PopAndWake
  <2>1. CASE waker_queue = <<>>
    BY <1>6, <2>0, <2>1 DEF WakeNext, PopAndWake, Reachable
  <2>2. CASE waker_queue # <<>>
    <3>1. /\ waker_queue' = Tail(waker_queue)
          /\ wakes' = [wakes EXCEPT ![Head(waker_queue)] = @ + 1]
      BY <1>6, <2>2 DEF WakeNext, PopAndWake
    <3>2. Head(waker_queue) = waker_queue[1]
      BY <2>2
    <3>3. CASE wakes[u] > 0
      BY <3>1, <3>3 DEF Reachable
    <3>4. CASE \E i \in 1 .. Len(waker_queue) : waker_queue[i] = u
      <4>1. PICK i \in 1 .. Len(waker_queue) : waker_queue[i] = u
        BY <3>4
      <4>2. CASE i = 1
        BY <3>1, <3>2, <4>1, <4>2, SMTT(30) DEF Reachable
      <4>3. CASE i # 1
        <5>1. /\ i - 1 \in 1 .. Len(Tail(waker_queue))
              /\ Tail(waker_queue)[i - 1] = waker_queue[i]
          BY <2>2, <4>3
        <5>2. QED
          BY <3>1, <4>1, <5>1 DEF Reachable
      <4>4. QED
        BY <4>2, <4>3
    <3>5. QED
      BY <2>0, <3>3, <3>4 DEF Reachable
  <2>3. QED
    BY <2>1, <2>2
<1>7. ASSUME NEW t \in Tasks, WakeTask(t) PROVE Reachable(u)'
  BY <1>7 DEF WakeTask, Reachable
<1>8. ASSUME NEW t \in Tasks, DropFuture(t) PROVE Reachable(u)'
  BY <1>8 DEF DropFuture, Reachable
<1>9. CASE UNCHANGED vars
  BY <1>9 DEF vars, Reachable
<1>10. QED
  BY <1>0, <1>1, <1>2, <1>3, <1>4, <1>5, <1>6, <1>7, <1>8, <1>9 DEF Next

LEMMA Invariance == Spec => []IInv
<1>1. IInv /\ [Next]_vars => IInv'
  BY StepShapes, StepGuardLocations, StepReachable DEF IInv
<1>2. QED
  BY InitIInv, <1>1, PTL DEF Spec

(* The state of the mutex keeps its types whatever the tasks do, guard     *)
(* clones and dropped futures included.                                    *)
THEOREM TypeCorrect == Spec => []TypeOK
<1>1. IInv /\ Flags => TypeOK
  BY DEF IInv, Flags, Shapes, TypeOK
<1>2. QED
  BY Invariance, FlagsInvariance, <1>1, PTL

(* No waiter is forgotten by the queue: a parked task always has a waker   *)
(* queued or a wake coming (MutexFuture::poll, MutexGuard::drop).          *)
THEOREM ParkedReachable == Spec => []ParkedIsReachable
<1>1. IInv => ParkedIsReachable
  BY DEF IInv, WaiterIsReachable, ParkedIsReachable
<1>2. QED
  BY Invariance, <1>1, PTL

-----------------------------------------------------------------------------
(* Until a guard is cloned the flag and the guards agree. *)
Sole ==
    /\ \A t, u \in Tasks : Holding(t) /\ Holding(u) => t = u
    /\ \A t \in Tasks : /\ Holding(t) => locked = TRUE
                        /\ Holding(t) <=> pc[t] = Held
                        /\ guards[t] < 2

Exclusive == cloned = FALSE => Sole

(* Every step but a clone keeps that, and the flag `cloned`. *)
LEMMA StepSole ==
    ASSUME IInv, Sole, [Next]_vars, ~ \E t \in Tasks : CloneGuard(t)
    PROVE  Sole'
<1> USE MutexAssumption DEF IInv, Shapes, Sole, Holding, Goto,
        Locations, Idle, Push, Recheck, Pending, Ready, Held, Unlocked
<1>0. ASSUME NEW t \in Tasks, Acquire(t) PROVE Sole'
  BY <1>0 DEF Acquire
<1>1. ASSUME NEW t \in Tasks, FirstCheckFails(t) PROVE Sole'
  BY <1>1 DEF FirstCheckFails
<1>2. ASSUME NEW t \in Tasks, PushWaker(t) PROVE Sole'
  BY <1>2 DEF PushWaker
<1>3. ASSUME NEW t \in Tasks, SecondCheckFails(t) PROVE Sole'
  BY <1>3 DEF SecondCheckFails
<1>4. ASSUME NEW t \in Tasks, DropGuard(t) PROVE Sole'
  <2>1. guards[t] = 1
    BY <1>4 DEF DropGuard
  <2>2. \A u \in Tasks : ~ Holding(u)'
    BY <1>4, <2>1 DEF DropGuard
  <2>3. \A u \in Tasks : pc'[u] # Held /\ guards'[u] < 2
    BY <1>4, <2>2 DEF DropGuard
  <2>4. QED
    BY <2>2, <2>3
<1>5. ASSUME NEW t \in Tasks, WakeNext(t) PROVE Sole'
  BY <1>5 DEF WakeNext, PopAndWake
<1>6. ASSUME NEW t \in Tasks, WakeTask(t) PROVE Sole'
  BY <1>6, SMTT(30) DEF WakeTask
<1>7. ASSUME NEW t \in Tasks, DropFuture(t) PROVE Sole'
  BY <1>7 DEF DropFuture
<1>8. CASE UNCHANGED vars
  BY <1>8 DEF vars
<1>9. QED
  BY <1>0, <1>1, <1>2, <1>3, <1>4, <1>5, <1>6, <1>7, <1>8 DEF Next

LEMMA OnlyACloneVoids ==
    ASSUME [Next]_vars, ~ \E t \in Tasks : CloneGuard(t)
    PROVE  cloned' = cloned
BY Zenon DEF Next, vars, Acquire, FirstCheckFails, PushWaker, SecondCheckFails,
   DropGuard, WakeNext, WakeTask, DropFuture

LEMMA StepExclusive == IInv /\ Exclusive /\ [Next]_vars => Exclusive'
<1> SUFFICES ASSUME IInv, Exclusive, [Next]_vars, cloned' = FALSE PROVE Sole'
  BY DEF Exclusive
<1>1. ~ \E t \in Tasks : CloneGuard(t)
  BY DEF CloneGuard
<1>2. Sole
  BY <1>1, OnlyACloneVoids DEF Exclusive
<1>3. QED
  BY <1>1, <1>2, StepSole

LEMMA ExclusiveInvariance == Spec => []Exclusive
<1>1. Init => Exclusive
  BY DEF Init, Exclusive, Sole, Holding, Idle, Held
<1>2. QED
  BY Invariance, StepExclusive, <1>1, PTL DEF Spec

(* As long as no guard has been cloned, two tasks never own the mutex      *)
(* together, however their polls, drops and cancellations interleave.      *)
THEOREM Exclusion == Spec => []MutualExclusion
<1>1. Exclusive => MutualExclusion
  BY DEF Exclusive, Sole, MutualExclusion
<1>2. QED
  BY ExclusiveInvariance, <1>1, PTL

(* The mutex implements the abstract lock, a clone of a guard included:    *)
(* every step is a step of LockService or changes nothing it shows.        *)
THEOREM Implementation == Spec => ImplementsLock
<1> DEFINE H == {t \in Tasks : Holding(t)}
           W == {t \in Tasks : Waiting(t)}
<1>1. Init => Service!Init
  BY DEF Init, Service!Init, Holding, Waiting, Idle, Push, Recheck, Pending, Ready
<1>2. ASSUME IInv, Exclusive, Flags, [Next]_vars
      PROVE  [Service!Next]_(Service!vars)
  <2> USE <1>2, MutexAssumption DEF IInv, Shapes, GuardLocations, Holding, Waiting,
          Goto, Locations, Idle, Push, Recheck, Pending, Ready, Held, Unlocked
  <2>0. ASSUME NEW t \in Tasks, Acquire(t) PROVE [Service!Next]_(Service!vars)
    <3>0. cloned = FALSE => H = {}
      BY <2>0 DEF Acquire, Exclusive, Sole
    <3>1. t \notin H /\ (H = {} \/ cloned = TRUE)
      <4>1. cloned = FALSE \/ cloned = TRUE
        BY <1>2 DEF Flags
      <4>2. t \notin H
        BY <2>0 DEF Acquire
      <4>3. QED
        BY <3>0, <4>1, <4>2
    <3>2. H' = H \cup {t} /\ cloned' = cloned
      <4>1. \A u \in Tasks : Holding(u)' <=> Holding(u) \/ u = t
        BY <2>0 DEF Acquire
      <4>2. cloned' = cloned
        BY <2>0 DEF Acquire
      <4>3. QED
        BY <4>1, <4>2
    <3>3. W' = W \ {t}
      <4>1. \A u \in Tasks : Waiting(u)' <=> Waiting(u) /\ u # t
        BY <2>0 DEF Acquire
      <4>2. QED
        BY <4>1
    <3>4. Service!Grant(t)
      BY <3>1, <3>2, <3>3 DEF Service!Grant
    <3>5. QED
      BY <3>4 DEF Service!Next
  <2>1. ASSUME NEW t \in Tasks, FirstCheckFails(t) PROVE [Service!Next]_(Service!vars)
    <3>1. H' = H /\ W' = W \cup {t} /\ t \notin H /\ cloned' = cloned
      <4>1. \A u \in Tasks : Waiting(u)' <=> Waiting(u) \/ u = t
        BY <2>1 DEF FirstCheckFails
      <4>2. H' = H /\ t \notin H
        BY <2>1 DEF FirstCheckFails
      <4>3. cloned' = cloned
        BY <2>1 DEF FirstCheckFails
      <4>4. QED
        BY <4>1, <4>2, <4>3
    <3>2. CASE pc[t] = Idle
      <4>1. t \notin W
        BY <3>2
      <4>2. Service!Ask(t)
        BY <3>1, <4>1 DEF Service!Ask
      <4>3. QED
        BY <4>2 DEF Service!Next
    <3>3. CASE pc[t] = Ready
      BY <3>1, <3>3 DEF Service!vars
    <3>4. QED
      BY <2>1, <3>2, <3>3 DEF FirstCheckFails
  <2>2. ASSUME NEW t \in Tasks, PushWaker(t) PROVE UNCHANGED Service!vars
    BY <2>2 DEF PushWaker, Service!vars
  <2>3. ASSUME NEW t \in Tasks, SecondCheckFails(t) PROVE UNCHANGED Service!vars
    BY <2>3 DEF SecondCheckFails, Service!vars
  <2>4. ASSUME NEW t \in Tasks, CloneGuard(t) PROVE [Service!Next]_(Service!vars)
    <3>1. \A u \in Tasks : /\ Holding(u)' <=> Holding(u)
                          /\ Waiting(u)' <=> Waiting(u)
      BY <2>4 DEF CloneGuard
    <3>2. H' = H /\ W' = W /\ t \in H
      BY <2>4, <3>1 DEF CloneGuard
    <3>3. cloned' = TRUE
      BY <2>4 DEF CloneGuard
    <3>4. QED
      BY <3>2, <3>3 DEF Service!Next, Service!Share
  <2>5. ASSUME NEW t \in Tasks, DropGuard(t) PROVE [Service!Next]_(Service!vars)
    <3>1. t \in H /\ cloned' = cloned
      BY <2>5 DEF DropGuard
    <3>2. W' = W
      <4>1. \A u \in Tasks : Waiting(u)' <=> Waiting(u)
        BY <2>5 DEF DropGuard
      <4>2. QED
        BY <4>1
    <3>3. CASE guards[t] = 1
      <4>1. \A u \in Tasks : Holding(u)' <=> Holding(u) /\ u # t
        BY <2>5, <3>3 DEF DropGuard
      <4>2. H' = H \ {t}
        BY <4>1
      <4>3. QED
        BY <3>1, <3>2, <4>2 DEF Service!Next, Service!Release
    <3>4. CASE guards[t] # 1
      <4>1. \A u \in Tasks : Holding(u)' <=> Holding(u)
        BY <2>5, <3>4 DEF DropGuard
      <4>2. H' = H
        BY <4>1
      <4>3. QED
        BY <3>1, <3>2, <4>2 DEF Service!vars
    <3>5. QED
      BY <3>3, <3>4
  <2>6. ASSUME NEW t \in Tasks, WakeNext(t) PROVE UNCHANGED Service!vars
    BY <2>6 DEF WakeNext, PopAndWake, Service!vars
  <2>7. ASSUME NEW t \in Tasks, WakeTask(t) PROVE UNCHANGED Service!vars
    BY <2>7 DEF WakeTask, Service!vars
  <2>8. ASSUME NEW t \in Tasks, DropFuture(t) PROVE [Service!Next]_(Service!vars)
    <3>1. \A u \in Tasks : Waiting(u)' <=> Waiting(u) /\ u # t
      BY <2>8 DEF DropFuture
    <3>2. H' = H /\ t \in W /\ W' = W \ {t} /\ cloned' = cloned
      BY <2>8, <3>1 DEF DropFuture
    <3>3. QED
      BY <3>2 DEF Service!Next, Service!GiveUp
  <2>9. CASE UNCHANGED vars
    BY <2>9 DEF vars, Service!vars
  <2>10. QED
    BY <2>0, <2>1, <2>2, <2>3, <2>4, <2>5, <2>6, <2>7, <2>8, <2>9 DEF Next
<1>3. QED
  BY Invariance, ExclusiveInvariance, FlagsInvariance, <1>1, <1>2, PTL
     DEF Spec, ImplementsLock, Service!Spec

-----------------------------------------------------------------------------
(* Why nobody is stranded.  The flag has an owner who will drop its guard, *)
(* and as long as no wake was wasted a parked task has a task, itself or   *)
(* another one, that is still to act and that acts on it.                  *)
LockedHasHolder == locked = TRUE => \E u \in Tasks : pc[u] = Held

Active(u) == \/ pc[u] \in {Push, Recheck, Ready, Held, Unlocked}
             \/ pc[u] = Pending /\ wakes[u] > 0

SomeoneActs ==
    wasted = FALSE /\ (\E t \in Tasks : pc[t] = Pending) => \E u \in Tasks : Active(u)

LEMMA StepLockedHasHolder == IInv /\ LockedHasHolder /\ [Next]_vars => LockedHasHolder'
<1> SUFFICES ASSUME IInv, LockedHasHolder, [Next]_vars, locked' = TRUE
             PROVE  \E u \in Tasks : pc'[u] = Held
  BY DEF LockedHasHolder
<1> USE DEF IInv, Shapes, Goto, Locations, Idle, Push, Recheck, Pending, Ready, Held, Unlocked
<1>1. ASSUME NEW t \in Tasks, Acquire(t) PROVE \E u \in Tasks : pc'[u] = Held
  BY <1>1 DEF Acquire
<1>2. ASSUME NEW t \in Tasks, DropGuard(t) PROVE FALSE
  BY <1>2 DEF DropGuard
<1>3. ASSUME NEW t \in Tasks,
             \/ FirstCheckFails(t) \/ PushWaker(t) \/ SecondCheckFails(t) \/ CloneGuard(t)
             \/ WakeNext(t) \/ WakeTask(t) \/ DropFuture(t)
      PROVE  \E u \in Tasks : pc'[u] = Held
  <2>1. PICK u \in Tasks : pc[u] = Held
    BY <1>3 DEF LockedHasHolder, FirstCheckFails, PushWaker, SecondCheckFails, CloneGuard,
                WakeNext, WakeTask, DropFuture
  <2>2. pc'[u] = Held
    BY <1>3, <2>1 DEF FirstCheckFails, PushWaker, SecondCheckFails, CloneGuard,
                WakeNext, WakeTask, DropFuture
  <2>3. QED
    BY <2>2
<1>4. CASE UNCHANGED vars
  BY <1>4 DEF vars, LockedHasHolder
<1>5. QED
  BY <1>1, <1>2, <1>3, <1>4 DEF Next

LEMMA StepSomeoneActs ==
    IInv /\ LockedHasHolder /\ SomeoneActs /\ [Next]_vars => SomeoneActs'
<1> SUFFICES ASSUME IInv, LockedHasHolder, SomeoneActs, [Next]_vars, wasted' = FALSE,
                    NEW p \in Tasks, pc'[p] = Pending
             PROVE  \E u \in Tasks : Active(u)'
  BY DEF SomeoneActs
<1> USE DEF IInv, Shapes, Goto, Locations, Idle, Push, Recheck, Pending, Ready, Held,
            Unlocked, Active
<1>0. ASSUME NEW t \in Tasks, Acquire(t) \/ FirstCheckFails(t) \/ PushWaker(t)
                              \/ CloneGuard(t) \/ DropGuard(t)
      PROVE  Active(t)'
  BY <1>0 DEF Acquire, FirstCheckFails, PushWaker, CloneGuard, DropGuard
<1>1. ASSUME NEW t \in Tasks, SecondCheckFails(t) PROVE \E u \in Tasks : Active(u)'
  <2>1. PICK u \in Tasks : pc[u] = Held
    BY <1>1 DEF SecondCheckFails, LockedHasHolder
  <2>2. pc'[u] = Held
    BY <1>1, <2>1 DEF SecondCheckFails
  <2>3. QED
    BY <2>2
<1>2. ASSUME NEW t \in Tasks, WakeNext(t) PROVE \E u \in Tasks : Active(u)'
  <2>1. p # t /\ pc[p] = Pending
    BY <1>2 DEF WakeNext
  <2>2. CASE waker_queue = <<>>
    <3>1. wakes[p] > 0
      BY <2>1, <2>2 DEF WaiterIsReachable, Reachable
    <3>2. wakes'[p] > 0
      BY <1>2, <2>2, <3>1 DEF WakeNext, PopAndWake
    <3>3. QED
      BY <3>2
  <2>3. CASE waker_queue # <<>>
    <3> DEFINE u == Head(waker_queue)
    <3>1. u \in Tasks
      BY <2>3
    <3>2. PopAndWake(t) /\ ~Departed(t, u)
      BY <1>2, <2>3 DEF WakeNext, PopAndWake
    <3>3. wakes'[u] > 0 /\ u # t /\ pc[u] # Idle
      BY <3>1, <3>2, SMTT(30) DEF PopAndWake, Departed
    <3>4. pc'[u] = pc[u]
      BY <1>2, <3>1, <3>3 DEF WakeNext
    <3> HIDE DEF u
    <3>5. QED
      BY <3>1, <3>3, <3>4
  <2>4. QED
    BY <2>2, <2>3
<1>3. ASSUME NEW t \in Tasks, WakeTask(t) PROVE \E u \in Tasks : Active(u)'
  <2>1. wasted = FALSE /\ pc[p] = Pending
    BY <1>3 DEF WakeTask
  <2>2. PICK u \in Tasks : Active(u)
    BY <2>1 DEF SomeoneActs
  <2>3. Active(u)'
    BY <1>3, <2>2 DEF WakeTask
  <2>4. QED
    BY <2>3
<1>4. ASSUME NEW t \in Tasks, DropFuture(t) PROVE \E u \in Tasks : Active(u)'
  <2>1. ~(pc[t] = Ready \/ wakes[t] > 0)
    BY <1>4 DEF DropFuture
  <2>2. wasted = FALSE /\ pc[p] = Pending /\ pc[t] = Pending
    BY <1>4, <2>1 DEF DropFuture
  <2>3. PICK u \in Tasks : Active(u)
    BY <2>2 DEF SomeoneActs
  <2>4. Active(u)'
    BY <1>4, <2>1, <2>2, <2>3 DEF DropFuture
  <2>5. QED
    BY <2>4
<1>5. CASE UNCHANGED vars
  BY <1>5 DEF vars, SomeoneActs
<1>6. QED
  BY <1>0, <1>1, <1>2, <1>3, <1>4, <1>5 DEF Next

(* A task is left parked on a mutex nobody uses only if a wake was spent   *)
(* on a task that had stopped waiting: the second check of a poll, the pop *)
(* of a drop and the cancellations in between lose no other wake           *)
(* (mutex.rs, MutexFuture::poll against MutexGuard::drop).                 *)
THEOREM StrandedOnlyByWaste == Spec => []StrandedOnlyByStaleWaker
<1>1. Init => LockedHasHolder /\ SomeoneActs
  BY DEF Init, LockedHasHolder, SomeoneActs, Idle, Pending
<1>2. Spec => [](LockedHasHolder /\ SomeoneActs)
  BY <1>1, Invariance, StepLockedHasHolder, StepSomeoneActs, PTL DEF Spec
<1>3. Flags /\ SomeoneActs => StrandedOnlyByStaleWaker
  <2> SUFFICES ASSUME Flags, SomeoneActs, Quiet, \E t \in Tasks : pc[t] = Pending,
                      wasted = FALSE
               PROVE  FALSE
    BY Zenon DEF Flags, StrandedOnlyByStaleWaker
  <2>1. QED
    BY DEF SomeoneActs, Active, Quiet, Idle, Push, Recheck, Pending, Ready, Held, Unlocked
<1>4. QED
  BY <1>2, <1>3, FlagsInvariance, PTL
=============================================================================
