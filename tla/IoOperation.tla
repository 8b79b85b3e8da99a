---------------------------- MODULE IoOperation ----------------------------
(***************************************************************************)
(* An I/O operation from the future that asks for it, through the queue of *)
(* the worker it is given to and that worker's ring, to the slot its       *)
(* result waits in (IoOperationFuture, WorkerIoSubmissionHandle,           *)
(* IoCompletionQueue), for several workers; and the accept loop of a       *)
(* listener, which polls one slot again and again (TcpListener).           *)
(*                                                                         *)
(* Keys are counted by each worker for itself, and a future that is        *)
(* dropped sends the cancellation of its key to whichever worker is next.  *)
(* A slot is read by the task that waits and written by the worker, each   *)
(* time under the lock of the map it is in.  What a worker does besides,   *)
(* how it finds its submission queue full and how it stops, is in Worker.  *)
(***************************************************************************)
EXTENDS Naturals, Sequences, SequencesExt

CONSTANTS Workers,     \* the pool's
          Futures,     \* IoOperationFutures, each awaited by a task
          Listeners,   \* accept loops
          MaxKeys,     \* bound: submissions to one worker
          MaxAccepts   \* bound: results of one multishot operation

ASSUME IoOperationAssumption ==
    /\ Futures \cap Listeners = {}
    /\ MaxKeys \in Nat /\ MaxAccepts \in Nat

Clients == Futures \cup Listeners
Keys    == 0 .. (MaxKeys - 1)
Handles == Workers \X Keys
None    == <<>>

VARIABLES
    phase,    \* of each client
    woken,    \* clients whose task will be polled
    handle,   \* of each client: WorkerIoSubmissionHandle
    answers,  \* history: what each client was told
    keys,     \* KeyGenerator of each worker
    kind,     \* of each submission
    cancels,  \* of a cancellation: the handle it was meant for
    place,    \* where each submission is
    cq,       \* of each submission: results posted and not yet read
    posted,   \* history: all results posted
    slot,     \* IoCompletionState of its slot
    results,  \* the results its slot holds
    waker     \* the waker in its slot, or on the way there

clients     == <<phase, woken, handle, answers>>
submissions == <<keys, kind, cancels>>
ring        == <<place, cq, posted>>
slots       == <<slot, results, waker>>
vars == <<clients, submissions, ring, slots>>

Outcomes == {"ok", "error", "canceled"}
Failures == {"lost", "refused"}

TypeOK ==
    /\ phase \in [Clients -> {"new", "waiting", "answered", "gone"}]
    /\ woken \subseteq Clients
    /\ handle \in [Clients -> Handles \cup {None}]
    /\ answers \in [Clients -> Seq(Outcomes \cup Failures)]
    /\ keys \in [Workers -> 0 .. MaxKeys]
    /\ kind \in [Handles -> {"none", "single", "multi", "cancel"}]
    /\ cancels \in [Handles -> Handles \cup {None}]
    /\ place \in [Handles -> {"none", "queue", "kernel", "over"}]
    /\ cq \in [Handles -> Seq(Outcomes)] /\ posted \in [Handles -> Seq(Outcomes)]
    /\ slot \in [Handles -> {"absent", "NotCompleted", "Single", "Multi", "Draining", "Completed"}]
    /\ results \in [Handles -> Seq(Outcomes)]
    /\ waker \in [Handles -> SUBSET Clients]

Init ==
    /\ phase = [c \in Clients |-> "new"] /\ woken = {}
    /\ handle = [c \in Clients |-> None] /\ answers = [c \in Clients |-> <<>>]
    /\ keys = [w \in Workers |-> 0]
    /\ kind = [h \in Handles |-> "none"] /\ cancels = [h \in Handles |-> None]
    /\ place = [h \in Handles |-> "none"]
    /\ cq = [h \in Handles |-> <<>>] /\ posted = [h \in Handles |-> <<>>]
    /\ slot = [h \in Handles |-> "absent"] /\ results = [h \in Handles |-> <<>>]
    /\ waker = [h \in Handles |-> {}]

-----------------------------------------------------------------------------
(* Submitting. *)

(* KeyGenerator::get *)
NextHandle(w) == <<w, keys[w]>>

(* IoSubmissionQueue::submit of what, with the waker of whom, if of any. *)
Submit(w, what, whom, meant) ==
    /\ keys[w] < MaxKeys
    /\ keys' = [keys EXCEPT ![w] = @ + 1]
    /\ kind' = [kind EXCEPT ![NextHandle(w)] = what]
    /\ cancels' = [cancels EXCEPT ![NextHandle(w)] = meant]
    /\ place' = [place EXCEPT ![NextHandle(w)] = "queue"]
    /\ waker' = [waker EXCEPT ![NextHandle(w)] = whom]
    /\ UNCHANGED <<cq, posted, slot, results>>

(* IoOperationFuture::poll for the first time. *)
FirstPoll(c) ==
    /\ c \in Futures /\ phase[c] = "new"
    /\ \E w \in Workers :
          /\ Submit(w, "single", {c}, None)
          /\ handle' = [handle EXCEPT ![c] = NextHandle(w)]
    /\ phase' = [phase EXCEPT ![c] = "waiting"]
    /\ UNCHANGED <<woken, answers>>

(* No worker takes it. *)
Refuse(c) ==
    /\ c \in Futures /\ phase[c] = "new"
    /\ phase' = [phase EXCEPT ![c] = "answered"]
    /\ answers' = [answers EXCEPT ![c] = <<"refused">>]
    /\ UNCHANGED <<woken, handle, submissions, ring, slots>>

(* TcpListener::listen_on: the task that polls is spawned, its waker comes *)
(* with its first poll.                                                    *)
Listen(c) ==
    /\ c \in Listeners /\ phase[c] = "new"
    /\ \E w \in Workers :
          /\ Submit(w, "multi", {}, None)
          /\ handle' = [handle EXCEPT ![c] = NextHandle(w)]
    /\ phase' = [phase EXCEPT ![c] = "waiting"]
    /\ woken' = woken \cup {c}
    /\ UNCHANGED answers

(* Something else is submitted to a worker, which takes a key. *)
OtherSubmission(w) ==
    /\ keys[w] < MaxKeys
    /\ keys' = [keys EXCEPT ![w] = @ + 1]
    /\ UNCHANGED <<clients, kind, cancels, ring, slots>>

(* IoOperationFuture::drop, before or after the result: the cancellation   *)
(* goes to any worker, or nowhere when none takes it.                      *)
DropFuture(c) ==
    /\ c \in Futures /\ phase[c] \in {"waiting", "answered"}
    /\ phase' = [phase EXCEPT ![c] = "gone"]
    /\ woken' = woken \ {c}
    /\ \/ /\ handle[c] # None
          /\ \E w \in Workers : Submit(w, "cancel", {}, handle[c])
       \/ UNCHANGED <<submissions, ring, slots>>
    /\ UNCHANGED <<handle, answers>>

(* The listener's loop ends, and leaves its operation where it is. *)
StopListening(c) ==
    /\ c \in Listeners /\ phase[c] = "waiting"
    /\ phase' = [phase EXCEPT ![c] = "gone"]
    /\ woken' = woken \ {c}
    /\ UNCHANGED <<handle, answers, submissions, ring, slots>>

-----------------------------------------------------------------------------
(* The worker and the kernel. *)

(* Mutant: the entry goes to the kernel and its slot is not made. *)
ReceiveWithoutSlot(h) ==
    /\ place[h] = "queue" /\ kind[h] # "cancel"
    /\ place' = [place EXCEPT ![h] = "kernel"]
    /\ UNCHANGED <<cq, posted, clients, submissions, slots>>

Post(f, h, r) == [f EXCEPT ![h] = Append(@, r)]

(* Mutant: whatever the ring has is cancelled. *)
CancelAny(h) ==
    \E found \in Handles :
        /\ found[1] = h[1] /\ place[found] = "kernel"
        /\ place' = [place EXCEPT ![h] = "over", ![found] = "over"]
        /\ cq' = Post(Post(cq, h, "ok"), found, "canceled")
        /\ posted' = Post(Post(posted, h, "ok"), found, "canceled")

(* A cancellation reaches the kernel: it finds what has its key in this    *)
(* ring, and that in time, or it does not.                                 *)
Cancel(h) ==
    LET found == <<h[1], cancels[h][2]>> IN
    \/ /\ place[found] = "kernel"
       /\ place' = [place EXCEPT ![h] = "over", ![found] = "over"]
       /\ cq' = Post(Post(cq, h, "ok"), found, "canceled")
       /\ posted' = Post(Post(posted, h, "ok"), found, "canceled")
    \/ /\ place' = [place EXCEPT ![h] = "over"]
       /\ cq' = Post(cq, h, "error")
       /\ posted' = Post(posted, h, "error")

(* The worker receives the submission, makes its slot and submits it.      *)
(* What one task sent it comes in the order it was sent.                   *)
Receive(h) ==
    /\ place[h] = "queue"
    /\ slot' = [slot EXCEPT ![h] = "NotCompleted"]
    /\ \/ /\ kind[h] # "cancel"
          /\ place' = [place EXCEPT ![h] = "kernel"]
          /\ UNCHANGED <<cq, posted>>
       \/ /\ kind[h] = "cancel"
          /\ cancels[h][1] = h[1] => place[cancels[h]] # "queue"
          /\ Cancel(h)
    /\ UNCHANGED <<clients, submissions, results, waker>>

(* An operation of one result is done; a multishot one has a result and    *)
(* goes on, or an error and ends.                                          *)
KernelPosts(h) ==
    /\ place[h] = "kernel"
    /\ \E r \in {"ok", "error"} :
          /\ kind[h] = "multi" => Len(posted[h]) < MaxAccepts
          /\ place' = IF kind[h] = "multi" /\ r = "ok" THEN place
                      ELSE [place EXCEPT ![h] = "over"]
          /\ cq' = Post(cq, h, r) /\ posted' = Post(posted, h, r)
    /\ UNCHANGED <<clients, submissions, slots>>

(* IoCompletionState::complete: the state and the results after result r. *)
Completed(h, r) ==
    IF slot[h] = "NotCompleted"
    THEN CASE kind[h] = "cancel" -> <<"Completed", <<>>>>
           [] kind[h] = "single" -> <<"Single", <<r>>>>
           [] OTHER              -> <<"Multi", <<r>>>>
    ELSE IF slot[h] \in {"Multi", "Draining"}
    THEN <<IF r = "canceled" THEN "Draining" ELSE slot[h], Append(results[h], r)>>
    ELSE <<"absent", <<>>>>

(* Mutant: the slot's waker is forgotten. *)
CompleteSilently(h) ==
    /\ cq[h] # <<>>
    /\ cq' = [cq EXCEPT ![h] = Tail(@)]
    /\ slot' = [slot EXCEPT ![h] = Completed(h, Head(cq[h]))[1]]
    /\ results' = [results EXCEPT ![h] = Completed(h, Head(cq[h]))[2]]
    /\ UNCHANGED <<woken, phase, handle, answers, submissions, place, posted, waker>>

(* IoContext::complete on one completion: IoCompletionSlot::complete puts  *)
(* the result in its slot and wakes.                                       *)
Complete(h) ==
    /\ cq[h] # <<>>
    /\ cq' = [cq EXCEPT ![h] = Tail(@)]
    /\ slot' = [slot EXCEPT ![h] = Completed(h, Head(cq[h]))[1]]
    /\ results' = [results EXCEPT ![h] = Completed(h, Head(cq[h]))[2]]
    /\ woken' = IF slot[h] = "absent" THEN woken
                ELSE woken \cup {c \in waker[h] : phase[c] = "waiting"}
    /\ UNCHANGED <<phase, handle, answers, submissions, place, posted, waker>>

-----------------------------------------------------------------------------
(* Polling the slot. *)

Polled(c) == phase[c] = "waiting" /\ c \in woken

(* The task is polled for another reason (join!, select!). *)
Rewake(c) ==
    /\ phase[c] = "waiting"
    /\ woken' = woken \cup {c}
    /\ UNCHANGED <<phase, handle, answers, submissions, ring, slots>>

(* There is no slot, since the worker has not got there: a future fails. *)
(* (A listener's loop goes round and changes nothing.)                   *)
PollTooEarly(c) ==
    /\ c \in Futures /\ Polled(c)
    /\ slot[handle[c]] = "absent"
    /\ phase' = [phase EXCEPT ![c] = "answered"]
    /\ answers' = [answers EXCEPT ![c] = <<"lost">>]
    /\ woken' = woken \ {c}
    /\ UNCHANGED <<handle, submissions, ring, slots>>

(* Mutant: a poll that finds no result does not leave its waker. *)
PollSleeps(c) ==
    /\ Polled(c)
    /\ slot[handle[c]] \in {"NotCompleted", "Multi", "Draining"} /\ results[handle[c]] = <<>>
    /\ woken' = woken \ {c}
    /\ UNCHANGED <<waker, phase, handle, answers, submissions, ring, slot, results>>

(* Mutant: the state is taken out of the slot and not put back. *)
PollTakes(c) ==
    /\ Polled(c)
    /\ slot[handle[c]] = "NotCompleted"
    /\ slot' = [slot EXCEPT ![handle[c]] = "absent"]
    /\ woken' = woken \ {c}
    /\ UNCHANGED <<waker, phase, handle, answers, submissions, ring, results>>

(* No result yet: the slot gets the waker of this poll. *)
PollPending(c) ==
    /\ Polled(c)
    /\ slot[handle[c]] \in {"NotCompleted", "Multi", "Draining"} /\ results[handle[c]] = <<>>
    /\ waker' = [waker EXCEPT ![handle[c]] = {c}]
    /\ woken' = woken \ {c}
    /\ UNCHANGED <<phase, handle, answers, submissions, ring, slot, results>>

(* A single result: the slot is removed with it. *)
PollSingle(c) ==
    /\ Polled(c)
    /\ slot[handle[c]] = "Single"
    /\ answers' = [answers EXCEPT ![c] = results[handle[c]]]
    /\ slot' = [slot EXCEPT ![handle[c]] = "absent"]
    /\ results' = [results EXCEPT ![handle[c]] = <<>>]
    /\ phase' = [phase EXCEPT ![c] = "answered"]
    /\ woken' = woken \ {c}
    /\ UNCHANGED <<handle, submissions, ring, waker>>

(* Mutant: the slot of a cancelled operation is removed with results in it. *)
PollMultiAndRemove(c) ==
    /\ Polled(c)
    /\ slot[handle[c]] \in {"Multi", "Draining"} /\ results[handle[c]] # <<>>
    /\ answers' = [answers EXCEPT ![c] = Append(@, Head(results[handle[c]]))]
    /\ IF slot[handle[c]] = "Draining"
       THEN /\ slot' = [slot EXCEPT ![handle[c]] = "absent"]
            /\ results' = [results EXCEPT ![handle[c]] = <<>>]
       ELSE /\ results' = [results EXCEPT ![handle[c]] = Tail(@)]
            /\ UNCHANGED slot
    /\ UNCHANGED <<phase, woken, handle, submissions, ring, waker>>

(* The oldest of several: the slot of a cancelled operation goes with the  *)
(* last.  The loop polls again at once.                                    *)
PollMulti(c) ==
    /\ Polled(c)
    /\ slot[handle[c]] \in {"Multi", "Draining"} /\ results[handle[c]] # <<>>
    /\ answers' = [answers EXCEPT ![c] = Append(@, Head(results[handle[c]]))]
    /\ results' = [results EXCEPT ![handle[c]] = Tail(@)]
    /\ slot' = IF slot[handle[c]] = "Draining" /\ Len(results[handle[c]]) <= 1
               THEN [slot EXCEPT ![handle[c]] = "absent"] ELSE slot
    /\ UNCHANGED <<phase, woken, handle, submissions, ring, waker>>

Poll(c) == PollTooEarly(c) \/ PollPending(c) \/ PollSingle(c) \/ PollMulti(c)

-----------------------------------------------------------------------------
Next ==
    \/ \E c \in Clients : \/ FirstPoll(c) \/ Refuse(c) \/ Listen(c) \/ DropFuture(c)
                          \/ StopListening(c) \/ Rewake(c) \/ Poll(c)
    \/ \E h \in Handles : Receive(h) \/ KernelPosts(h) \/ Complete(h)
    \/ \E w \in Workers : OtherSubmission(w)

Spec == Init /\ [][Next]_vars

(* Workers run, operations of futures complete, and woken tasks are polled. *)
FairSpec ==
    /\ Spec
    /\ \A h \in Handles : /\ WF_vars(Receive(h)) /\ WF_vars(Complete(h))
                          /\ WF_vars(kind[h] = "single" /\ KernelPosts(h))
    /\ \A c \in Clients : WF_vars(Poll(c))

-----------------------------------------------------------------------------
(* While the kernel has an operation, which reads and writes buffers of    *)
(* its entry, the entry is kept in its slot, whatever became of the future *)
(* (IoCompletionQueue::poll and complete remove slots).                    *)
EntryOutlivesKernel ==
    \A h \in Handles : place[h] = "kernel" => slot[h] \in {"NotCompleted", "Multi"}

(* Every result the kernel posts is told once, in the order posted, to     *)
(* whoever asked (IoCompletionSlot::complete, IoCompletionState::          *)
(* into_result), or is still on its way there.                             *)
Told(c) == IF answers[c] = <<"lost">> THEN <<>> ELSE answers[c]
NoResultLost ==
    \A c \in Clients : handle[c] # None
        => posted[handle[c]] = Told(c) \o results[handle[c]] \o cq[handle[c]]

(* An operation whose future lives is cancelled only by the cancellation   *)
(* of another operation, of another worker, that has the same key          *)
(* (WorkerIoSubmissionHandle::cancel).                                     *)
CanceledOnlyByCollision ==
    \A c \in Clients : "canceled" \in ToSet(answers[c])
        => \E h \in Handles : /\ kind[h] = "cancel" /\ h[1] = handle[c][1]
                              /\ cancels[h][1] # h[1] /\ cancels[h][2] = handle[c][2]

(* A future is told what became of its operation once, and fails only when *)
(* nothing became of it yet (IoOperationFuture, as a OneShot).             *)
Status(c) == CASE phase[c] = "new" -> "idle" [] phase[c] = "waiting" -> "asked"
               [] phase[c] = "answered" -> "answered" [] OTHER -> "gone"
Outcome(c) ==
    LET known == CASE phase[c] = "waiting" -> results[handle[c]] \o cq[handle[c]]
                   [] phase[c] = "answered" -> answers[c] [] OTHER -> <<>>
    IN IF known = <<>> THEN "none" ELSE Head(known)
Service == INSTANCE OneShot WITH Clients <- Futures,
              status <- [c \in Futures |-> Status(c)], outcome <- [c \in Futures |-> Outcome(c)]
ImplementsOneShot == Service!Spec

(* A future is answered, or dropped, in the end (the worker's loop, the    *)
(* slot's waker, the executor).                                            *)
FutureIsAnswered == \A c \in Futures : phase[c] = "waiting" ~> phase[c] # "waiting"

(* A connection the kernel accepted is handed to the listener, unless its  *)
(* loop ends (listen_on).                                                  *)
AcceptIsHandedOver ==
    \A c \in Listeners : \A n \in 1 .. MaxAccepts :
        phase[c] = "waiting" /\ Len(posted[handle[c]]) >= n
            ~> phase[c] = "gone" \/ Len(answers[c]) >= n

(* "Failed to cancel operation" (io/operation/future.rs:74) is what the    *)
(* drop of a future warns of: it cancels its own operation.  It may cancel *)
(* another's.                                                              *)
NoLiveOperationCanceled == \A c \in Clients : "canceled" \notin ToSet(answers[c])
=============================================================================
