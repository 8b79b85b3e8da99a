------------------------------- MODULE Worker -------------------------------
(***************************************************************************)
(* One worker thread (worker::Worker): its message channel and the eventfd *)
(* that announces messages, the loop of worker_loop, the executor it       *)
(* drives, its io_uring queues, and the ways it stops.                     *)
(*                                                                         *)
(* The poller is edge triggered and the loop never reads its eventfds: an  *)
(* edge is pending from a write until the poll that returns it.            *)
(*                                                                         *)
(* A task is a program of at most MaxPolls awaits: of a yield, of an I/O   *)
(* operation the pool gave to this worker, or of something another thread  *)
(* does (I/O given to another worker included).  Other threads have I/O    *)
(* operations here too.  Every I/O future sends a cancellation when it is  *)
(* dropped, be it done or not, to whichever worker is next: an operation   *)
(* nobody waits for, with a slot nobody empties.                           *)
(***************************************************************************)
EXTENDS Naturals, Sequences, SequencesExt, FiniteSets

CONSTANTS Tasks,      \* the tasks sent to this worker
          IoTasks,    \* those that may await I/O of this worker
          Foreign,    \* operations of futures polled by other threads
          Cancels,    \* bound: the cancellations that come to this worker
          SqSize,     \* entries of the submission queue (IoContext::new)
          Stops,      \* how it may be told to stop: "shutdown", "kill", "signal"
          MaxPolls,   \* bound: awaits per task
          MaxNudges,  \* bound: wakers called though nothing happened
          MaxFaults   \* bound: how often the message eventfd breaks

(* An operation of a task is named after it and the awaits it has left.    *)
OwnOps == IoTasks \X (0 .. MaxPolls)
Ops == OwnOps \cup Foreign \cup Cancels

(* At any time there are finitely many operations, each with one owner.    *)
ASSUME WorkerAssumption ==
    /\ IoTasks \subseteq Tasks /\ SqSize \in Nat \ {0}
    /\ Stops \subseteq {"shutdown", "kill", "signal"}
    /\ MaxPolls \in Nat /\ MaxNudges \in Nat /\ MaxFaults \in Nat
    /\ IsFiniteSet(IoTasks) /\ IsFiniteSet(Foreign) /\ IsFiniteSet(Cancels)
    /\ OwnOps \cap (Foreign \cup Cancels) = {} /\ Foreign \cap Cancels = {}

VARIABLES
    state,        \* Worker::state
    pc,           \* where the thread is in start's closure and worker_loop
    should_recv, should_complete_io, should_submit_io,   \* the flags of a turn
    rx,           \* the unbounded message channel
    unsignalled,  \* senders between `send` and `signal` of send_message
    signalled,    \* an edge of the message eventfd is pending
    io_signalled, \* an edge of the io eventfd is pending
    sigterm,      \* a terminating signal waits in the signalfd
    broken,       \* writes to the message eventfd fail
    phase,        \* of each task
    ready_tasks,  \* Executor::ready_tasks
    polls,        \* awaits left to each task
    awaited,      \* tasks that wait for another thread
    op,           \* where each I/O operation is
    waiting_submissions,  \* the backup of a full submission queue
    cq,           \* completions posted by the kernel and not yet read
    expected,     \* completions blocking_submit waits for
    asked,        \* which of shutdown, kill and a signal were used
    early,        \* history: tasks accepted before the stop was asked for
    told,         \* history: events broadcast to the event queues
    notified,     \* history: notifications broadcast
    budget        \* nudges and faults left

should  == <<should_recv, should_complete_io, should_submit_io>>
channel == <<rx, unsignalled, signalled, broken>>
tasks   == <<phase, ready_tasks, polls, awaited>>
uring   == <<op, waiting_submissions, cq, expected, io_signalled>>
history == <<asked, early, told, notified, budget>>
vars == <<state, pc, should, channel, sigterm, tasks, uring, history>>

Spawn(t)  == <<"SpawnTask", t>>
Wake(t)   == <<"WakeTask", t>>
Submit(o) == <<"SubmitIO", o>>
Shutdown  == <<"Shutdown">>
Kill      == <<"Kill">>
Repair    == <<"RepairMessageChannel">>

Messages == {Spawn(t) : t \in Tasks} \cup {Wake(t) : t \in Tasks}
            \cup {Submit(o) : o \in Ops} \cup {Shutdown, Kill, Repair}

WorkerStates == {"None", "Starting", "Idle", "Busy", "Stopping", "Stopped"}
Loop  == {"poll", "complete", "recv", "submit", "run", "check"}
Drain == {"drain_recv", "drain_submit", "drain_wait", "drain_run"}

(* "sent": in the channel.  "backup": in waiting_submissions.  "sq" to     *)
(* "arrived": it has a slot.  "gone": its slot was emptied and removed.    *)
Slotted == {"sq", "kernel", "cq", "arrived"}
Places  == {"none", "sent", "backup", "gone"} \cup Slotted

TypeOK ==
    /\ state \in WorkerStates
    /\ pc \in {"new", "setup", "ending", "ended"} \cup Loop \cup Drain
    /\ should_recv \in BOOLEAN /\ should_complete_io \in BOOLEAN
    /\ should_submit_io \in BOOLEAN
    /\ rx \in Seq(Messages) /\ unsignalled \in Nat
    /\ signalled \in BOOLEAN /\ io_signalled \in BOOLEAN
    /\ sigterm \in BOOLEAN /\ broken \in BOOLEAN
    /\ phase \in [Tasks -> {"new", "sent", "refused", "ready", "running", "done"}]
    /\ ready_tasks \in Seq(Tasks) /\ ToSet(ready_tasks) = {t \in Tasks : phase[t] = "ready"}
    /\ polls \in [Tasks -> 0 .. MaxPolls] /\ awaited \subseteq Tasks
    /\ op \in [Ops -> Places] /\ expected \in Nat
    /\ Cardinality({o \in Ops : op[o] = "sq"}) <= SqSize
    /\ ToSet(waiting_submissions) = {o \in Ops : op[o] = "backup"}
    /\ ToSet(cq) = {o \in Ops : op[o] = "cq"}
    /\ asked \subseteq Stops /\ early \subseteq Tasks
    /\ told \subseteq {"SHUTDOWN", "KILL"} /\ notified \subseteq {"Shutdown", "Kill"}
    /\ budget \in [nudges : 0 .. MaxNudges, faults : 0 .. MaxFaults]

Init ==
    /\ state = "None" /\ pc = "new"
    /\ should_recv = FALSE /\ should_complete_io = FALSE /\ should_submit_io = FALSE
    /\ rx = <<>> /\ unsignalled = 0 /\ signalled = FALSE /\ broken = FALSE
    /\ io_signalled = FALSE /\ sigterm = FALSE
    /\ phase = [t \in Tasks |-> "new"] /\ ready_tasks = <<>>
    /\ polls = [t \in Tasks |-> MaxPolls] /\ awaited = {}
    /\ op = [o \in Ops |-> "none"] /\ waiting_submissions = <<>>
    /\ cq = <<>> /\ expected = 0
    /\ asked = {} /\ early = {} /\ told = {} /\ notified = {}
    /\ budget = [nudges |-> MaxNudges, faults |-> MaxFaults]

-----------------------------------------------------------------------------
(* Senders. *)

(* The receiver is dropped when worker_loop returns. *)
Connected == pc \notin {"ending", "ended"}
Accepted  == {t \in Tasks : phase[t] \notin {"new", "refused"}}

(* WorkSender::send_message, first half: the signal follows in Signal. *)
Send(m) ==
    /\ Connected
    /\ rx' = Append(rx, m)
    /\ unsignalled' = unsignalled + 1
    /\ UNCHANGED <<signalled, broken>>

(* Second half.  A failed signal is retried, then a repair is asked for,   *)
(* which nobody signals.                                                   *)
Signal ==
    /\ unsignalled > 0
    /\ unsignalled' = unsignalled - 1
    /\ signalled' = IF broken THEN signalled ELSE TRUE
    /\ rx' = IF broken /\ Connected THEN Append(rx, Repair) ELSE rx
    /\ UNCHANGED <<state, pc, should, broken, sigterm, tasks, uring, history>>

(* The same by the worker's own thread, where nothing comes in between. *)
SendOwn(ms) ==
    /\ rx' = IF ms = <<>> THEN rx
             ELSE rx \o (IF broken THEN Append(ms, Repair) ELSE ms)
    /\ signalled' = IF ms = <<>> \/ broken THEN signalled ELSE TRUE
    /\ UNCHANGED <<unsignalled, broken>>

SpawnTask(t) ==
    /\ phase[t] = "new"
    /\ \/ Send(Spawn(t)) /\ phase' = [phase EXCEPT ![t] = "sent"]
       \/ ~Connected /\ phase' = [phase EXCEPT ![t] = "refused"] /\ UNCHANGED channel
    /\ UNCHANGED <<state, pc, should, sigterm, ready_tasks, polls, awaited, uring, history>>

(* What the task waits for happens; its waker sends WakeTask. *)
WakeAwaiting(t) ==
    /\ t \in awaited
    /\ awaited' = awaited \ {t}
    /\ Send(Wake(t)) \/ (~Connected /\ UNCHANGED channel)
    /\ UNCHANGED <<state, pc, should, sigterm, phase, ready_tasks, polls, uring, history>>

(* A waker is called again, or without cause. *)
Nudge(t) ==
    /\ budget.nudges > 0 /\ phase[t] \in {"ready", "running"}
    /\ budget' = [budget EXCEPT !.nudges = @ - 1]
    /\ Send(Wake(t))
    /\ UNCHANGED <<state, pc, should, sigterm, tasks, uring, asked, early, told, notified>>

(* Worker::shutdown, Worker::kill *)
AskToStop(how, m) ==
    /\ how \in Stops \ asked /\ state \notin {"None", "Stopped"}
    /\ Send(m)
    /\ asked' = asked \cup {how}
    /\ early' = IF asked = {} THEN Accepted ELSE early
    /\ UNCHANGED <<state, pc, should, sigterm, tasks, uring, told, notified, budget>>

(* SIGTERM and its like, while the worker's mask keeps them for its        *)
(* signalfd.                                                               *)
RaiseSignal ==
    /\ "signal" \in Stops \ asked /\ pc \in Loop \cup Drain
    /\ sigterm' = TRUE
    /\ asked' = asked \cup {"signal"}
    /\ early' = IF asked = {} THEN Accepted ELSE early
    /\ UNCHANGED <<state, pc, should, channel, tasks, uring, told, notified, budget>>

Break ==
    /\ budget.faults > 0 /\ ~broken
    /\ broken' = TRUE
    /\ budget' = [budget EXCEPT !.faults = @ - 1]
    /\ UNCHANGED <<state, pc, should, rx, unsignalled, signalled, sigterm, tasks, uring,
                   asked, early, told, notified>>

(* The kernel completes an operation, or cancels it, and writes the        *)
(* registered eventfd.                                                     *)
KernelCompletes(o) ==
    /\ op[o] = "kernel"
    /\ op' = [op EXCEPT ![o] = "cq"]
    /\ cq' = Append(cq, o)
    /\ io_signalled' = TRUE
    /\ UNCHANGED <<state, pc, should, channel, sigterm, tasks, waiting_submissions, expected,
                   history>>

(* A future of another thread submits here, or is dropped and its          *)
(* cancellation comes here.                                                *)
ForeignSubmit(o) ==
    /\ o \in Foreign \cup Cancels /\ op[o] = "none"
    /\ Send(Submit(o))
    /\ op' = [op EXCEPT ![o] = "sent"]
    /\ UNCHANGED <<state, pc, should, sigterm, tasks, waiting_submissions, cq, expected,
                   io_signalled, history>>

(* A future of another thread finds its result in the slot. *)
ForeignTake(o) ==
    /\ o \in Foreign /\ op[o] = "arrived"
    /\ op' = [op EXCEPT ![o] = "gone"]
    /\ UNCHANGED <<state, pc, should, channel, sigterm, tasks, waiting_submissions, cq,
                   expected, io_signalled, history>>

-----------------------------------------------------------------------------
(* I/O and executor steps that the loop and the drain share. *)

InSq  == {o \in Ops : op[o] = "sq"}
Slots == {o \in Ops : op[o] \in Slotted}   \* completion_queue.len()

(* Mutant: pushed whether or not there is room. *)
PrepareUnchecked(o) ==
    /\ op' = [op EXCEPT ![o] = "sq"]
    /\ UNCHANGED waiting_submissions

(* prepare_io_submission *)
Prepare(o) ==
    \/ /\ Cardinality(InSq) < SqSize
       /\ op' = [op EXCEPT ![o] = "sq"]
       /\ UNCHANGED waiting_submissions
    \/ /\ Cardinality(InSq) >= SqSize
       /\ op' = [op EXCEPT ![o] = "backup"]
       /\ waiting_submissions' = Append(waiting_submissions, o)

Submitted(f) == [o \in Ops |-> IF f[o] = "sq" THEN "kernel" ELSE f[o]]

(* IoContext::complete: every posted result reaches its slot and wakes the *)
(* task that waits for it, here or elsewhere.                              *)
Arrived(f) == [o \in Ops |-> IF f[o] = "cq" THEN "arrived" ELSE f[o]]

(* Mutant: one wake for a batch of completions. *)
WakeFirst(s) == IF s # <<>> /\ s[1] \in OwnOps THEN <<Wake(s[1][1])>> ELSE <<>>

WakeAll(s) ==
    LET wakes[i \in 0 .. Len(s)] ==
            IF i = 0 THEN <<>>
            ELSE IF s[i] \in OwnOps THEN Append(wakes[i - 1], Wake(s[i][1])) ELSE wakes[i - 1]
    IN wakes[Len(s)]

(* Executor::spawn, Executor::wake_task *)
MakeReady(t) ==
    /\ phase' = [phase EXCEPT ![t] = "ready"]
    /\ ready_tasks' = Append(ready_tasks, t)

(* A message that tells the executor something. *)
ToExecutor(m) ==
    /\ \/ m[1] = "SpawnTask" /\ MakeReady(m[2])
       \/ m[1] = "WakeTask" /\ phase[m[2]] = "running" /\ MakeReady(m[2])
       \/ m[1] = "WakeTask" /\ phase[m[2]] # "running" /\ UNCHANGED <<phase, ready_tasks>>
    /\ UNCHANGED <<polls, awaited>>

Pending(t) == phase' = [phase EXCEPT ![t] = "running"]

(* The I/O operation of the await a task is in, when that is of I/O. *)
Current(t)  == <<t, polls[t]>>
AwaitsIo(t) == t \in IoTasks /\ op[Current(t)] # "none"

(* IoOperationFuture::poll again: Pending while the slot has no result.    *)
(* Without a slot, because the worker has not got to the submission, the   *)
(* future fails and its operation goes on alone.                           *)
StillWaits(t) ==
    t \in awaited \/ (AwaitsIo(t) /\ op[Current(t)] \in {"sq", "kernel", "cq"})

(* The pool skips a worker that stops. *)
Eligible == state \notin {"None", "Stopping", "Stopped"}

(* What the drop of the await's future submits to this worker, if anything. *)
Cancellation(t) ==
    {<<>>} \cup {<<c>> : c \in {x \in Cancels : AwaitsIo(t) /\ Eligible /\ op[x] = "none"}}

(* The await is over: with a result, with an error, or given up (select!). *)
(* Its future is dropped, and if it was of I/O a cancellation is sent, to  *)
(* this worker or another; then comes what the next await submits.         *)
Leave(t, submits, ms) ==
    /\ StillWaits(t) => AwaitsIo(t)
    /\ \E cs \in Cancellation(t) :
          /\ op' = [o \in Ops |->
                       IF o \in submits \cup ToSet(cs) THEN "sent"
                       ELSE IF o = Current(t) /\ op[o] = "arrived" THEN "gone"
                       ELSE op[o]]
          /\ SendOwn([i \in 1 .. Len(cs) |-> Submit(cs[i])] \o ms)

(* Executor::run_task on the oldest ready task. *)
PollWaiting(t) ==
    /\ StillWaits(t)
    /\ Pending(t)
    /\ UNCHANGED <<channel, polls, awaited, op>>

PollFinishes(t) ==
    /\ Leave(t, {}, <<>>)
    /\ phase' = [phase EXCEPT ![t] = "done"]
    /\ UNCHANGED <<polls, awaited>>

NextAwait(t) == polls[t] > 0 /\ Pending(t) /\ polls' = [polls EXCEPT ![t] = @ - 1]

PollYields(t) ==
    /\ NextAwait(t) /\ Leave(t, {}, <<Wake(t)>>)
    /\ UNCHANGED awaited

PollAwaitsOther(t) ==
    /\ NextAwait(t) /\ Leave(t, {}, <<>>)
    /\ awaited' = awaited \cup {t}

PollSubmits(t) ==
    /\ t \in IoTasks /\ Eligible
    /\ NextAwait(t)
    /\ LET o == <<t, polls[t] - 1>> IN Leave(t, {o}, <<Submit(o)>>)
    /\ UNCHANGED awaited

RunTask ==
    /\ pc \in {"run", "drain_run"} /\ ready_tasks # <<>>
    /\ LET t == Head(ready_tasks) IN
          \/ PollWaiting(t) \/ PollFinishes(t) \/ PollYields(t)
          \/ PollAwaitsOther(t) \/ PollSubmits(t)
    /\ ready_tasks' = Tail(ready_tasks)
    /\ UNCHANGED <<state, pc, should, sigterm, waiting_submissions, cq, expected, io_signalled,
                   history>>

-----------------------------------------------------------------------------
(* Worker::start and worker_loop. *)

Start ==
    /\ pc = "new"
    /\ state' = "Starting" /\ pc' = "setup"
    /\ UNCHANGED <<should, channel, sigterm, tasks, uring, history>>

(* The signalfd is made and registered, or worker_loop returns the error. *)
SetUp ==
    /\ pc = "setup"
    /\ \/ pc' = "poll" /\ state' = "Idle"
       \/ pc' = "ending" /\ UNCHANGED state
    /\ UNCHANGED <<should, channel, sigterm, tasks, uring, history>>

(* poll_events returns all edges there are, and the events are looked at. *)
Poll ==
    /\ pc = "poll"
    /\ signalled \/ io_signalled \/ sigterm
    /\ should_recv' = signalled /\ should_complete_io' = io_signalled
    /\ should_submit_io' = FALSE
    /\ signalled' = FALSE /\ io_signalled' = FALSE /\ sigterm' = FALSE
    /\ state' = IF sigterm THEN "Stopping" ELSE "Busy"
    /\ told' = IF sigterm THEN told \cup {"SHUTDOWN"} ELSE told
    /\ pc' = "complete"
    /\ UNCHANGED <<rx, unsignalled, broken, tasks, op, waiting_submissions, cq, expected,
                   asked, early, notified, budget>>

(* Mutant: the retried submissions are not submitted. *)
CompleteUnsubmitted ==
    /\ pc = "complete" /\ should_complete_io
    /\ LET retried == IF waiting_submissions # <<>> /\ Cardinality(InSq) < SqSize
                      THEN {Head(waiting_submissions)} ELSE {}
       IN /\ op' = [o \in Ops |-> IF o \in retried THEN "sq" ELSE Arrived(op)[o]]
          /\ waiting_submissions' =
                IF retried # {} THEN Tail(waiting_submissions) ELSE waiting_submissions
    /\ cq' = <<>>
    /\ SendOwn(WakeAll(cq))
    /\ pc' = "recv"
    /\ UNCHANGED <<state, should, sigterm, tasks, expected, io_signalled, history>>

(* Read the completions, then push what waited: the first that finds the   *)
(* submission queue full goes to the back.                                 *)
Complete ==
    /\ pc = "complete" /\ should_complete_io
    /\ LET room  == SqSize - Cardinality(InSq)
           n     == IF room < Len(waiting_submissions) THEN room ELSE Len(waiting_submissions)
           moved == ToSet(SubSeq(waiting_submissions, 1, n))
           rest  == SubSeq(waiting_submissions, n + 1, Len(waiting_submissions))
       IN /\ op' = [o \in Ops |-> IF o \in moved THEN "sq" ELSE Arrived(op)[o]]
          /\ waiting_submissions' = IF rest = <<>> THEN <<>> ELSE Append(Tail(rest), Head(rest))
          /\ should_submit_io' = IF n > 0 THEN TRUE ELSE FALSE
    /\ cq' = <<>>
    /\ SendOwn(WakeAll(cq))
    /\ pc' = "recv"
    /\ UNCHANGED <<state, should_recv, should_complete_io, sigterm, tasks, expected,
                   io_signalled, history>>

SkipComplete ==
    /\ pc = "complete" /\ ~should_complete_io
    /\ pc' = "recv"
    /\ UNCHANGED <<state, should, channel, sigterm, tasks, uring, history>>

Received(m) == rx # <<>> /\ Head(rx) = m /\ rx' = Tail(rx)

Receiving == pc = "recv" /\ should_recv

RecvTask ==
    /\ Receiving
    /\ \E t \in Tasks : \E m \in {Spawn(t), Wake(t)} : Received(m) /\ ToExecutor(m)
    /\ UNCHANGED <<state, pc, should, unsignalled, signalled, broken, sigterm, uring, history>>

RecvSubmit ==
    /\ Receiving
    /\ \E o \in Ops : Received(Submit(o)) /\ Prepare(o)
    /\ should_submit_io' = TRUE
    /\ UNCHANGED <<state, pc, should_recv, should_complete_io, unsignalled, signalled, broken,
                   sigterm, tasks, cq, expected, io_signalled, history>>

RecvShutdown ==
    /\ Receiving /\ Received(Shutdown)
    /\ state' = "Stopping"
    /\ UNCHANGED <<pc, should, unsignalled, signalled, broken, sigterm, tasks, uring, history>>

RecvKill ==
    /\ Receiving /\ Received(Kill)
    /\ pc' = "ending"
    /\ UNCHANGED <<state, should, unsignalled, signalled, broken, sigterm, tasks, uring, history>>

(* Mutant: the receive loop is left after a repair. *)
RepairAndLeave ==
    /\ Receiving /\ Received(Repair)
    /\ broken' = FALSE /\ signalled' = FALSE
    /\ pc' = "submit"
    /\ UNCHANGED <<state, should, unsignalled, sigterm, tasks, uring, history>>

(* A new eventfd takes the place of the old one, with whose key the edges  *)
(* still pending go; or it cannot be made.                                 *)
RecvRepair ==
    /\ Receiving /\ Received(Repair)
    /\ \/ broken' = FALSE /\ signalled' = FALSE
       \/ UNCHANGED <<broken, signalled>>
    /\ UNCHANGED <<state, pc, should, unsignalled, sigterm, tasks, uring, history>>

RecvDone ==
    /\ pc = "recv" /\ (should_recv => rx = <<>>)
    /\ pc' = "submit"
    /\ UNCHANGED <<state, should, channel, sigterm, tasks, uring, history>>

SubmitIo ==
    /\ pc = "submit"
    /\ op' = IF should_submit_io THEN Submitted(op) ELSE op
    /\ pc' = "run"
    /\ UNCHANGED <<state, should, channel, sigterm, tasks, waiting_submissions, cq, expected,
                   io_signalled, history>>

RunDone ==
    /\ pc = "run" /\ ready_tasks = <<>>
    /\ pc' = "check"
    /\ UNCHANGED <<state, should, channel, sigterm, tasks, uring, history>>

(* Mutant: the loop goes on whatever the state. *)
LoopRegardless ==
    /\ pc = "check"
    /\ state' = "Idle" /\ pc' = "poll"
    /\ UNCHANGED <<should, channel, sigterm, tasks, uring, history>>

LoopAgain ==
    /\ pc = "check" /\ state # "Stopping"
    /\ state' = "Idle" /\ pc' = "poll"
    /\ UNCHANGED <<should, channel, sigterm, tasks, uring, history>>

(* Announce the shutdown, leave the loop and empty the eventfds. *)
BeginDrain ==
    /\ pc = "check" /\ state = "Stopping"
    /\ told' = told \cup {"SHUTDOWN"} /\ notified' = notified \cup {"Shutdown"}
    /\ signalled' = FALSE /\ io_signalled' = FALSE
    /\ pc' = "drain_recv"
    /\ UNCHANGED <<state, should, rx, unsignalled, broken, sigterm, tasks, op,
                   waiting_submissions, cq, expected, asked, early, budget>>

-----------------------------------------------------------------------------
(* The drain. *)

DrainTask ==
    /\ pc = "drain_recv"
    /\ \E t \in Tasks : \E m \in {Spawn(t), Wake(t)} : Received(m) /\ ToExecutor(m)
    /\ UNCHANGED <<state, pc, should, unsignalled, signalled, broken, sigterm, uring, history>>

DrainSubmission ==
    /\ pc = "drain_recv"
    /\ \E o \in Ops : Received(Submit(o)) /\ Prepare(o)
    /\ UNCHANGED <<state, pc, should, unsignalled, signalled, broken, sigterm, tasks, cq,
                   expected, io_signalled, history>>

DrainIgnored ==
    /\ pc = "drain_recv"
    /\ Received(Shutdown) \/ Received(Repair)
    /\ UNCHANGED <<state, pc, should, unsignalled, signalled, broken, sigterm, tasks, uring,
                   history>>

DrainKill ==
    /\ pc = "drain_recv" /\ Received(Kill)
    /\ state' = "Stopped" /\ pc' = "ending"
    /\ UNCHANGED <<should, unsignalled, signalled, broken, sigterm, tasks, uring, history>>

DrainEmpty ==
    /\ pc = "drain_recv" /\ rx = <<>>
    /\ pc' = "drain_submit"
    /\ UNCHANGED <<state, should, channel, sigterm, tasks, uring, history>>

(* IoContext::blocking_submit: hand over the submissions and wait for as   *)
(* many results as there are slots, those included whose result has come.  *)
BlockingSubmit ==
    /\ pc = "drain_submit"
    /\ op' = Submitted(op)
    /\ expected' = Cardinality(Slots)
    /\ pc' = "drain_wait"
    /\ UNCHANGED <<state, should, channel, sigterm, tasks, waiting_submissions, cq,
                   io_signalled, history>>

BlockingSubmitReturns ==
    /\ pc = "drain_wait" /\ Len(cq) >= expected
    /\ op' = Arrived(op) /\ cq' = <<>>
    /\ SendOwn(WakeAll(cq))
    /\ pc' = "drain_run"
    /\ UNCHANGED <<state, should, sigterm, tasks, waiting_submissions, expected, io_signalled,
                   history>>

Running == {t \in Tasks : phase[t] = "running"}

(* Mutant: the drain waits for I/O again without receiving. *)
DrainDeaf ==
    /\ pc = "drain_run" /\ ready_tasks = <<>> /\ Running # {}
    /\ pc' = "drain_submit"
    /\ UNCHANGED <<state, should, channel, sigterm, tasks, uring, history>>

DrainAgain ==
    /\ pc = "drain_run" /\ ready_tasks = <<>> /\ Running # {}
    /\ pc' = "drain_recv"
    /\ UNCHANGED <<state, should, channel, sigterm, tasks, uring, history>>

(* Mutant: the drain ends though tasks wait. *)
DrainDoneEarly ==
    /\ pc = "drain_run" /\ ready_tasks = <<>>
    /\ pc' = "ending"
    /\ UNCHANGED <<state, should, channel, sigterm, tasks, uring, history>>

DrainDone ==
    /\ pc = "drain_run" /\ ready_tasks = <<>> /\ Running = {}
    /\ pc' = "ending"
    /\ UNCHANGED <<state, should, channel, sigterm, tasks, uring, history>>

(* Mutant: only a state of Stopped is taken for a kill. *)
EndSilently ==
    /\ pc = "ending"
    /\ \/ state # "Stopped" /\ UNCHANGED <<told, notified>>
       \/ /\ state = "Stopped"
          /\ told' = told \cup {"KILL"} /\ notified' = notified \cup {"Kill"}
    /\ state' = "Stopped" /\ pc' = "ended"
    /\ UNCHANGED <<should, channel, sigterm, tasks, uring, asked, early, budget>>

(* The rest of the thread's closure. *)
End ==
    /\ pc = "ending"
    /\ \/ state = "Stopping" /\ UNCHANGED <<told, notified>>
       \/ /\ state # "Stopping"
          /\ told' = told \cup {"KILL"} /\ notified' = notified \cup {"Kill"}
    /\ state' = "Stopped" /\ pc' = "ended"
    /\ UNCHANGED <<should, channel, sigterm, tasks, uring, asked, early, budget>>

-----------------------------------------------------------------------------
Thread == \/ SetUp \/ Poll \/ Complete \/ SkipComplete
          \/ RecvTask \/ RecvSubmit \/ RecvShutdown \/ RecvKill \/ RecvRepair \/ RecvDone
          \/ SubmitIo \/ RunTask \/ RunDone \/ LoopAgain \/ BeginDrain
          \/ DrainTask \/ DrainSubmission \/ DrainIgnored \/ DrainKill \/ DrainEmpty
          \/ BlockingSubmit \/ BlockingSubmitReturns \/ DrainAgain \/ DrainDone \/ End

Next ==
    \/ Start \/ Thread \/ Signal \/ RaiseSignal \/ Break
    \/ AskToStop("shutdown", Shutdown) \/ AskToStop("kill", Kill)
    \/ \E t \in Tasks : SpawnTask(t) \/ WakeAwaiting(t) \/ Nudge(t)
    \/ \E o \in Ops : KernelCompletes(o) \/ ForeignSubmit(o) \/ ForeignTake(o)

Spec == Init /\ [][Next]_vars

(* The pool starts the worker, the thread runs, a sender that has sent     *)
(* signals, operations complete, and what a task waits for happens.        *)
FairSpec ==
    /\ Spec
    /\ WF_vars(Start) /\ WF_vars(Thread) /\ WF_vars(Signal)
    /\ \A t \in Tasks : WF_vars(WakeAwaiting(t))
    /\ \A o \in Ops : WF_vars(KernelCompletes(o))

-----------------------------------------------------------------------------
InRx(m) == m \in ToSet(rx)

(* The thread never blocks in poll_events with a message or a completion   *)
(* that no edge, pending or about to be written, will tell it of: the loop *)
(* takes all messages and completions there are before it polls again      *)
(* (worker_loop against send_message).  A broken eventfd is the exception. *)
NothingSleepsUnnoticed ==
    pc = "poll" => /\ rx # <<>> => signalled \/ unsignalled > 0 \/ broken
                   /\ cq # <<>> => io_signalled

(* A task in running_tasks is never forgotten: a wake is in the channel,   *)
(* its operation is somewhere on the way, or the waker it handed out is    *)
(* still to be called (Executor::wake_task against the order of submission,*)
(* completion and poll).                                                   *)
ParkedHasWaker ==
    Connected => \A t \in Running :
        \/ InRx(Wake(t)) \/ t \in awaited
        \/ /\ AwaitsIo(t)
           /\ \/ op[Current(t)] = "sent" /\ InRx(Submit(Current(t)))
              \/ op[Current(t)] \in {"backup", "sq", "kernel", "cq"}

(* When the thread blocks, every submission has gone to the kernel, or     *)
(* waits for one that has (worker_loop: the backup queue is looked at only *)
(* when a completion arrives).                                             *)
NoOperationStranded ==
    pc = "poll" => /\ InSq = {}
                   /\ waiting_submissions # <<>>
                        => \E o \in Ops : op[o] \in {"kernel", "cq"}

(* A task accepted before the stop was asked for is finished when the      *)
(* thread has stopped, unless by a kill or a failed set-up (worker_loop,   *)
(* the drain).                                                             *)
EarlyTasksFinish ==
    pc = "ended" /\ "kill" \notin asked /\ "KILL" \notin told
        => \A t \in early : phase[t] = "done"

(* Whoever is subscribed hears of the end of the thread, but for a kill    *)
(* that overtakes a stop (Worker::start, worker_loop).                     *)
EndIsAnnounced ==
    pc = "ended" => notified # {} \/ ("kill" \in asked /\ asked # {"kill"})

(* A worker that stops does not go back to work (worker_loop stores Idle   *)
(* at every turn, whatever the state was).                                 *)
StoppingIsFinal ==
    [][(state \in {"Stopping", "Stopped"}) => (state' \in {"Stopping", "Stopped"})]_vars

(* A task sent to a worker that nobody stops is run to its end, its I/O    *)
(* included when the submission queue is full (worker_loop, Executor),     *)
(* unless the message eventfd breaks: the request to repair it goes through *)
(* the channel whose signal is what broke (work_sender.rs:46).             *)
SpawnedTaskFinishes ==
    \A t \in Tasks : phase[t] = "sent"
        ~> phase[t] = "done" \/ asked # {} \/ pc \in {"ending", "ended"} \/ broken

(* The drain ends, unless there is an operation whose result arrived and   *)
(* was not taken (every cancellation is one), or that found no room, or    *)
(* another thread took its result after the wait for so many had begun     *)
(* (worker_loop, the drain).                                               *)
DrainEnds ==
    pc \in Drain
        ~> \/ pc = "ended"
           \/ \E o \in Ops : op[o] \in {"arrived", "backup"}
           \/ \E o \in Foreign : op[o] = "gone"

(* "Gracefully stops all threads in the pool, allowing all tasks to        *)
(* finish" (lib.rs:118): the drain ends.  It does not: blocking_submit     *)
(* waits for results it has already taken off the queue.                   *)
ShutdownEnds == pc \in Drain ~> pc = "ended"
=============================================================================
