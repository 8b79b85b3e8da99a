----------------------------- MODULE Semaphore -----------------------------
(***************************************************************************)
(* sync::Semaphore: sem_fut, the loop both semaphore futures poll, one     *)
(* action per access to the shared permit counter or waker queue, and      *)
(* add_permits, which the drops of permits and of hungry futures call.     *)
(*                                                                         *)
(* A polite future takes all it wants in one compare-exchange; a hungry    *)
(* one keeps what it finds (`got`) and waits for the rest.  A client is a  *)
(* task that awaits one acquire at a time: the future is dropped right     *)
(* after it returns Ready, the permit later.                               *)
(***************************************************************************)
EXTENDS Naturals, Sequences, FiniteSets, FiniteSetsExt

CONSTANTS Clients,      \* the tasks that use the semaphore
          Requests,     \* the acquires each client may make, sets of [want, hungry]
          Cancellable,  \* the clients that may drop a future that waits
          MaxPermits,   \* Semaphore::new(permits)
          UsizeMax,     \* usize::MAX: fetch_add wraps beyond it
          MaxRounds     \* bound: acquires per client, after which its task ends

ASSUME SemaphoreAssumption ==
    /\ IsFiniteSet(Clients)
    /\ MaxPermits \in Nat /\ UsizeMax \in Nat /\ MaxPermits <= UsizeMax
    /\ MaxRounds \in Nat
    /\ Cancellable \subseteq Clients
    /\ \A c \in Clients :
          Requests[c] \subseteq [want : 1 .. UsizeMax, hungry : BOOLEAN]

VARIABLES
    permits,      \* SemaphoreInner::permits
    waker_queue,  \* SemaphoreInner::waker_queue; a waker is its client
    pc,           \* where each client is
    request,      \* the acquire it makes: desired_permits and the future's kind
    got,          \* SemaphoreFutureState::Hungry(count)
    queued,       \* sem_fut's local `queued`
    seen,         \* sem_fut's local `permits`
    weight,       \* Permit::weight of the permit it holds, 0 if none
    waking,       \* wakers add_permits has still to pop
    wakes,        \* WakeTask messages sent to it and not yet handled
    rounds,       \* acquires it has made
    wasted,       \* history: a wake was spent on a client that did not wait
    surplus       \* history: permits given back though a live permit counts them

future == <<request, got, queued, seen>>
vars == <<permits, waker_queue, pc, request, got, queued, seen, weight,
          waking, wakes, rounds, wasted, surplus>>

(* "load", "take", "grab", "push": inside sem_fut, before its next shared  *)
(* access.  "granted": Ready returned, the future not dropped yet.         *)
(* "waking": inside add_permits.                                           *)
Inside   == {"load", "take", "grab", "push"}
Awaiting == Inside \cup {"parked", "ready"}
Locations == Awaiting \cup {"idle", "granted", "held", "waking"}

want(c)   == request[c].want
hungry(c) == request[c].hungry
NoRequest == [want |-> 0, hungry |-> FALSE]

TypeOK ==
    /\ permits \in 0 .. UsizeMax
    /\ waker_queue \in Seq(Clients)
    /\ pc \in [Clients -> Locations]
    /\ \A c \in Clients : request[c] \in Requests[c] \cup {NoRequest}
    /\ got \in [Clients -> Nat] /\ seen \in [Clients -> Nat]
    /\ queued \in [Clients -> BOOLEAN]
    /\ weight \in [Clients -> Nat] /\ waking \in [Clients -> Nat]
    /\ wakes \in [Clients -> Nat] /\ rounds \in [Clients -> 0 .. MaxRounds]
    /\ wasted \in BOOLEAN /\ surplus \in Nat

Init ==
    /\ permits = MaxPermits
    /\ waker_queue = <<>>
    /\ pc = [c \in Clients |-> "idle"]
    /\ request = [c \in Clients |-> NoRequest]
    /\ got = [c \in Clients |-> 0]
    /\ queued = [c \in Clients |-> FALSE]
    /\ seen = [c \in Clients |-> 0]
    /\ weight = [c \in Clients |-> 0]
    /\ waking = [c \in Clients |-> 0]
    /\ wakes = [c \in Clients |-> 0]
    /\ rounds = [c \in Clients |-> 0]
    /\ wasted = FALSE
    /\ surplus = 0

-----------------------------------------------------------------------------
(* usize arithmetic. *)
SaturatingSub(m, n) == IF m > n THEN m - n ELSE 0
WrappingAdd(m, n) == (m + n) % (UsizeMax + 1)

needed(c) == SaturatingSub(want(c), got[c])

Goto(c, l) == pc' = [pc EXCEPT ![c] = l]

(* The end of the loop body: queue the waker once and go round again, or   *)
(* return Pending.                                                         *)
GiveWay(c) == IF queued[c] THEN "parked" ELSE "push"

(* A failed compare-exchange: before the waker is queued, go round again;  *)
(* after, carry on with the rest of the body.                              *)
Retry(c, rest) == IF queued[c] THEN rest ELSE "load"

MayGrab(c, n) == hungry(c) /\ n > 0

(* acquire*, acquire_hungry*: the future is made and polled. *)
Request(c) ==
    /\ pc[c] = "idle" /\ rounds[c] < MaxRounds
    /\ \E r \in Requests[c] : request' = [request EXCEPT ![c] = r]
    /\ rounds' = [rounds EXCEPT ![c] = @ + 1]
    /\ got' = [got EXCEPT ![c] = 0]
    /\ queued' = [queued EXCEPT ![c] = FALSE]
    /\ Goto(c, "load")
    /\ UNCHANGED <<permits, waker_queue, seen, weight, waking, wakes, wasted, surplus>>

(* The task was woken: its executor polls the future again. *)
PollAgain(c) ==
    /\ pc[c] = "ready"
    /\ queued' = [queued EXCEPT ![c] = FALSE]
    /\ Goto(c, "load")
    /\ UNCHANGED <<permits, waker_queue, request, got, seen, weight, waking, wakes,
                   rounds, wasted, surplus>>

(* Mutant: `permits >= needed` off by one. *)
LoadOffByOne(c) ==
    /\ pc[c] = "load"
    /\ seen' = [seen EXCEPT ![c] = permits]
    /\ Goto(c, IF permits + 1 >= needed(c) THEN "take"
               ELSE IF MayGrab(c, permits) THEN "grab" ELSE GiveWay(c))
    /\ UNCHANGED <<permits, waker_queue, request, got, queued, weight, waking, wakes,
                   rounds, wasted, surplus>>

Load(c) ==
    /\ pc[c] = "load"
    /\ seen' = [seen EXCEPT ![c] = permits]
    /\ Goto(c, IF permits >= needed(c) THEN "take"
               ELSE IF MayGrab(c, permits) THEN "grab" ELSE GiveWay(c))
    /\ UNCHANGED <<permits, waker_queue, request, got, queued, weight, waking, wakes,
                   rounds, wasted, surplus>>

(* Mutant: A store where the code has a compare-exchange. *)
TakeByStore(c) ==
    /\ pc[c] = "take"
    /\ permits' = SaturatingSub(seen[c], needed(c))
    /\ weight' = [weight EXCEPT ![c] = want(c)]
    /\ Goto(c, "granted")
    /\ UNCHANGED <<waker_queue, future, waking, wakes, rounds, wasted, surplus>>

(* compare_exchange(permits, permits - needed) *)
Take(c) ==
    /\ pc[c] = "take"
    /\ \/ /\ permits = seen[c]
          /\ permits' = permits - needed(c)
          /\ weight' = [weight EXCEPT ![c] = want(c)]
          /\ Goto(c, "granted")
       \/ /\ permits # seen[c]
          /\ Goto(c, Retry(c, IF MayGrab(c, seen[c]) THEN "grab" ELSE "parked"))
          /\ UNCHANGED <<permits, weight>>
    /\ UNCHANGED <<waker_queue, future, waking, wakes, rounds, wasted, surplus>>

(* Mutant: `*count = n` for `*count += n`. *)
GrabAnew(c) ==
    /\ pc[c] = "grab"
    /\ \/ /\ permits = seen[c]
          /\ permits' = 0
          /\ got' = [got EXCEPT ![c] = seen[c]]
          /\ Goto(c, GiveWay(c))
       \/ /\ permits # seen[c]
          /\ Goto(c, Retry(c, "parked"))
          /\ UNCHANGED <<permits, got>>
    /\ UNCHANGED <<waker_queue, request, queued, seen, weight, waking, wakes, rounds,
                   wasted, surplus>>

(* compare_exchange(permits, 0) of a hungry future *)
Grab(c) ==
    /\ pc[c] = "grab"
    /\ \/ /\ permits = seen[c]
          /\ permits' = 0
          /\ got' = [got EXCEPT ![c] = @ + seen[c]]
          /\ Goto(c, GiveWay(c))
       \/ /\ permits # seen[c]
          /\ Goto(c, Retry(c, "parked"))
          /\ UNCHANGED <<permits, got>>
    /\ UNCHANGED <<waker_queue, request, queued, seen, weight, waking, wakes, rounds,
                   wasted, surplus>>

(* Mutant: Pending returned without another look once the waker is queued. *)
PushAndPark(c) ==
    /\ pc[c] = "push"
    /\ waker_queue' = Append(waker_queue, c)
    /\ queued' = [queued EXCEPT ![c] = TRUE]
    /\ Goto(c, "parked")
    /\ UNCHANGED <<permits, request, got, seen, weight, waking, wakes, rounds,
                   wasted, surplus>>

PushWaker(c) ==
    /\ pc[c] = "push"
    /\ waker_queue' = Append(waker_queue, c)
    /\ queued' = [queued EXCEPT ![c] = TRUE]
    /\ Goto(c, "load")
    /\ UNCHANGED <<permits, request, got, seen, weight, waking, wakes, rounds,
                   wasted, surplus>>

-----------------------------------------------------------------------------
(* fetch_add of add_permits; the pops follow in Pop. *)
AddPermits(c, n) ==
    /\ permits' = WrappingAdd(permits, n)
    /\ waking' = [waking EXCEPT ![c] = n]
    /\ Goto(c, "waking")

(* Where the client goes when it has nothing more to wake. *)
Rest(c) == IF weight[c] > 0 THEN "held" ELSE "idle"

(* A hungry future adds back all it got when it is dropped. *)
ReturnGot(c, after) ==
    \/ hungry(c) /\ got[c] > 0 /\ AddPermits(c, got[c])
    \/ ~(hungry(c) /\ got[c] > 0) /\ Goto(c, after) /\ UNCHANGED <<permits, waking>>

(* SemaphoreFuture::drop after Ready: the count was never cleared, though  *)
(* up to `want` of it is what the permit stands for.                       *)
DropGranted(c) ==
    /\ pc[c] = "granted"
    /\ ReturnGot(c, "held")
    /\ got' = [got EXCEPT ![c] = 0]
    /\ surplus' = surplus + Min({got[c], want(c)})
    /\ UNCHANGED <<waker_queue, request, queued, seen, weight, wakes, rounds, wasted>>

(* A polite future that wants more than is free: what was released woke it *)
(* in vain, and the wake is not passed on to those behind it.              *)
InVain == {c \in Clients : pc[c] = "parked" /\ ~hungry(c) /\ permits \in 1 .. want(c) - 1}

(* SemaphoreFuture::drop of a future that still waits; its waker stays. *)
DropWaiting(c) ==
    /\ c \in Cancellable /\ pc[c] \in {"parked", "ready"}
    /\ ReturnGot(c, "idle")
    /\ got' = [got EXCEPT ![c] = 0]
    /\ wasted' = (wasted \/ pc[c] = "ready" \/ wakes[c] > 0 \/ c \in InVain)
    /\ UNCHANGED <<waker_queue, request, queued, seen, weight, wakes, rounds, surplus>>

(* Mutant: The permit of many gives one back. *)
ReleaseOne(c) ==
    /\ pc[c] = "held"
    /\ AddPermits(c, 1)
    /\ weight' = [weight EXCEPT ![c] = 0]
    /\ UNCHANGED <<waker_queue, future, wakes, rounds, wasted, surplus>>

(* Permit::drop *)
Release(c) ==
    /\ pc[c] = "held"
    /\ AddPermits(c, weight[c])
    /\ weight' = [weight EXCEPT ![c] = 0]
    /\ UNCHANGED <<waker_queue, future, wakes, rounds, wasted, surplus>>

(* One turn of add_permits' loop: pop a waker and wake it, or stop at an   *)
(* empty queue.                                                            *)
Pop(c) ==
    /\ pc[c] = "waking"
    /\ \/ /\ waker_queue # <<>>
          /\ waker_queue' = Tail(waker_queue)
          /\ LET u == Head(waker_queue) IN
                /\ wakes' = [wakes EXCEPT ![u] = @ + 1]
                /\ wasted' = (wasted \/ pc[u] \notin Awaiting)
          /\ waking' = [waking EXCEPT ![c] = @ - 1]
          /\ Goto(c, IF waking[c] = 1 THEN Rest(c) ELSE "waking")
       \/ /\ waker_queue = <<>>
          /\ waking' = [waking EXCEPT ![c] = 0]
          /\ Goto(c, Rest(c))
          /\ UNCHANGED <<waker_queue, wakes, wasted>>
    /\ UNCHANGED <<permits, future, weight, rounds, surplus>>

(* Executor::wake_task *)
WakeTask(c) ==
    /\ wakes[c] > 0 /\ pc[c] \in {"idle", "parked", "ready", "held"}
    /\ wakes' = [wakes EXCEPT ![c] = @ - 1]
    /\ pc' = [pc EXCEPT ![c] = IF @ = "parked" THEN "ready" ELSE @]
    /\ UNCHANGED <<permits, waker_queue, future, weight, waking, rounds, wasted, surplus>>

(* The steps an executor takes on its own, once a poll or drop has begun. *)
Progress(c) == \/ PollAgain(c) \/ Load(c) \/ Take(c) \/ Grab(c) \/ PushWaker(c)
               \/ DropGranted(c) \/ Pop(c) \/ WakeTask(c)

Next == \E c \in Clients :
    \/ Request(c) \/ PollAgain(c) \/ Load(c) \/ Take(c) \/ Grab(c) \/ PushWaker(c)
    \/ DropGranted(c) \/ DropWaiting(c) \/ Release(c) \/ Pop(c) \/ WakeTask(c)

Spec == Init /\ [][Next]_vars

(* Holders release in the end; nothing forces a new request. *)
FairSpec == Spec /\ \A c \in Clients : WF_vars(Progress(c)) /\ WF_vars(Release(c))

-----------------------------------------------------------------------------
Total(f) == MapThenSumSet(LAMBDA c : f[c], Clients)

(* Permits a waiting hungry future has taken; a granted one has turned its *)
(* own into the weight of the permit, all but what it took beyond `want`.  *)
Hoarded == [c \in Clients |->
    IF pc[c] = "granted" THEN SaturatingSub(got[c], want(c)) ELSE got[c]]

(* Every permit is free, held or hoarded, and there are as many as at the  *)
(* start plus the ones a hungry future gave back twice, modulo the width   *)
(* of the counter (semaphore.rs, sem_fut against the drops).               *)
PermitsConserved ==
    (permits + Total(weight) + Total(Hoarded)) % (UsizeMax + 1)
        = (MaxPermits + surplus) % (UsizeMax + 1)

(* All clients are through or parked, and no wake is on its way. *)
Quiet == \A c \in Clients : pc[c] \in {"idle", "parked"} /\ (pc[c] = "parked" => wakes[c] = 0)

(* A hungry future whose compare-exchange for the last permits failed and  *)
(* whose compare-exchange for all of them then succeeded (the counter had  *)
(* come back to the value seen) sleeps with all it wants already taken.    *)
PaidSleepers == {c \in Clients : pc[c] = "parked" /\ got[c] >= want(c)}
Hoarders     == {c \in Clients : pc[c] = "parked" /\ got[c] > 0}

(* A client is left parked with nothing to come only after a wake was spent *)
(* on a client that had stopped waiting or could not use it, or because two *)
(* hungry futures each keep a part of what the other one waits for, or by a *)
(* paid sleeper (semaphore.rs, sem_fut and add_permits).                    *)
StuckOnlyForKnownCause ==
    Quiet /\ (\E c \in Clients : pc[c] = "parked")
        => wasted \/ InVain # {} \/ Cardinality(Hoarders) > 1 \/ PaidSleepers # {}
=============================================================================
