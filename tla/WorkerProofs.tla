---------------------------- MODULE WorkerProofs ----------------------------
(***************************************************************************)
(* What holds of one worker for every set of tasks and operations, every   *)
(* size of the submission queue and every bound.                           *)
(***************************************************************************)
EXTENDS Worker, DataLemmas, TLAPS

(* The flags of a turn and of the eventfds.  Like the Booleans of the      *)
(* mutex they are kept apart from the rest.                                *)
Flags ==
    /\ signalled \in BOOLEAN
    /\ io_signalled \in BOOLEAN
    /\ broken \in BOOLEAN
    /\ should_recv \in BOOLEAN
    /\ should_complete_io \in BOOLEAN

(* The thread is past its last poll. *)
Leaving == pc \in Drain \cup {"ending", "ended"}

(* Why a message is not overlooked: an edge is pending or will be, the     *)
(* eventfd is broken, or the thread empties the channel before it polls.   *)
MessagesAnnounced ==
    rx # <<>> => \/ signalled = TRUE
                 \/ unsignalled > 0
                 \/ broken = TRUE
                 \/ pc \in {"complete", "recv"} /\ should_recv = TRUE
                 \/ Leaving

(* The same for completions. *)
CompletionsAnnounced ==
    cq # <<>> => \/ io_signalled = TRUE
                 \/ pc = "complete" /\ should_complete_io = TRUE
                 \/ Leaving

IInv == Flags /\ unsignalled \in Nat /\ MessagesAnnounced /\ CompletionsAnnounced

LEMMA InitIInv == Init => IInv
<1>1. Init => Flags /\ unsignalled \in Nat
  <2>1. Init => Flags
    BY DEF Init, Flags
  <2>2. Init => unsignalled \in Nat
    BY DEF Init
  <2>3. QED
    BY <2>1, <2>2
<1>2. Init => MessagesAnnounced
  BY DEF Init, MessagesAnnounced
<1>3. Init => CompletionsAnnounced
  BY DEF Init, CompletionsAnnounced
<1>4. QED
  BY <1>1, <1>2, <1>3 DEF IInv

-----------------------------------------------------------------------------
LEMMA StepFlags == Flags /\ [Next]_vars => Flags'
<1> SUFFICES ASSUME Flags, [Next]_vars PROVE Flags'
  OBVIOUS
<1> USE DEF Flags, channel, tasks, uring, history, should
<1>1. CASE Start \/ SetUp \/ SkipComplete \/ RecvDone \/ SubmitIo \/ RunDone \/ LoopAgain
  BY <1>1 DEF Start, SetUp, SkipComplete, RecvDone, SubmitIo, RunDone, LoopAgain
<1>2. CASE Poll \/ BeginDrain
  BY <1>2 DEF Poll, BeginDrain
<1>3. CASE Complete
  BY <1>3 DEF Complete, SendOwn
<1>4. CASE RecvTask \/ RecvSubmit \/ RecvShutdown \/ RecvKill \/ RecvRepair
  BY <1>4, ZenonT(60) DEF RecvTask, RecvSubmit, RecvShutdown, RecvKill, RecvRepair
<1>5. CASE DrainTask \/ DrainSubmission \/ DrainIgnored \/ DrainKill \/ DrainEmpty
  BY <1>5 DEF DrainTask, DrainSubmission, DrainIgnored, DrainKill, DrainEmpty
<1>6. CASE BlockingSubmit \/ BlockingSubmitReturns \/ DrainAgain \/ DrainDone \/ End
  BY <1>6, ZenonT(60) DEF BlockingSubmit, BlockingSubmitReturns, DrainAgain, DrainDone, End, SendOwn
<1>7. CASE RunTask
  BY <1>7 DEF RunTask, PollWaiting, PollFinishes, PollYields, PollAwaitsOther, PollSubmits,
     Leave, SendOwn
<1>8. CASE Signal \/ RaiseSignal \/ Break
  BY <1>8, Zenon DEF Signal, RaiseSignal, Break
<1>9. CASE AskToStop("shutdown", Shutdown) \/ AskToStop("kill", Kill)
  BY <1>9 DEF AskToStop, Send
<1>10. ASSUME NEW t \in Tasks, SpawnTask(t) \/ WakeAwaiting(t) \/ Nudge(t) PROVE Flags'
  BY <1>10 DEF SpawnTask, WakeAwaiting, Nudge, Send
<1>11. ASSUME NEW o \in Ops, KernelCompletes(o) \/ ForeignSubmit(o) \/ ForeignTake(o)
       PROVE Flags'
  BY <1>11, Zenon DEF KernelCompletes, ForeignSubmit, ForeignTake, Send
<1>12. CASE UNCHANGED vars
  BY <1>12 DEF vars
<1>13. QED
  BY <1>1, <1>2, <1>3, <1>4, <1>5, <1>6, <1>7, <1>8, <1>9, <1>10, <1>11, <1>12 DEF Next, Thread

-----------------------------------------------------------------------------
(* How senders, threads and the kernel may change what the announcement of *)
(* messages is about: each action is one of these, or touches none of it.  *)

(* Nothing of it changes, but perhaps fewer messages, or an edge more. *)
LEMMA QuietStep ==
    ASSUME IInv,
           rx' # <<>> => rx # <<>>, cq' # <<>> => cq # <<>>,
           UNCHANGED <<pc, unsignalled, broken, signalled, io_signalled,
                       should_recv, should_complete_io>>
    PROVE  unsignalled' \in Nat /\ MessagesAnnounced' /\ CompletionsAnnounced'
  BY DEF IInv, MessagesAnnounced, CompletionsAnnounced, Leaving

(* A sender has put a message into the channel and has yet to signal. *)
LEMMA SendStep ==
    ASSUME IInv, NEW m, Send(m),
           UNCHANGED <<pc, should_recv, should_complete_io, cq, io_signalled>>
    PROVE  unsignalled' \in Nat /\ MessagesAnnounced' /\ CompletionsAnnounced'
<1>1. unsignalled' \in Nat /\ unsignalled' > 0
  BY DEF IInv, Send
<1>2. CompletionsAnnounced'
  BY DEF IInv, CompletionsAnnounced, Leaving
<1>3. QED
  BY <1>1, <1>2 DEF MessagesAnnounced

(* The thread sends to itself. *)
LEMMA OwnStep ==
    ASSUME IInv, NEW ms, SendOwn(ms),
           rx # <<>> => \/ signalled = TRUE \/ unsignalled > 0 \/ broken = TRUE
                        \/ pc' = "recv" /\ should_recv' = TRUE
                        \/ Leaving'
    PROVE  MessagesAnnounced'
<1>1. CASE ms = <<>>
  <2>1. UNCHANGED <<rx, signalled, unsignalled, broken>>
    BY <1>1 DEF SendOwn
  <2>2. QED
    BY <2>1 DEF MessagesAnnounced
<1>2. CASE broken = TRUE
  BY <1>2 DEF SendOwn, MessagesAnnounced
<1>3. CASE ms # <<>> /\ broken = FALSE
  BY <1>3 DEF SendOwn, MessagesAnnounced
<1>4. QED
  BY <1>1, <1>2, <1>3 DEF IInv, Flags

LEMMA StepAnnounced ==
    IInv /\ [Next]_vars
        => unsignalled' \in Nat /\ MessagesAnnounced' /\ CompletionsAnnounced'
<1> SUFFICES ASSUME IInv, [Next]_vars
             PROVE  unsignalled' \in Nat /\ MessagesAnnounced' /\ CompletionsAnnounced'
  OBVIOUS
<1> DEFINE Goal == unsignalled' \in Nat /\ MessagesAnnounced' /\ CompletionsAnnounced'
<1>1. CASE Start \/ SetUp \/ SubmitIo \/ RunDone \/ LoopAgain
  BY <1>1 DEF Start, SetUp, SubmitIo, RunDone, LoopAgain, IInv, MessagesAnnounced,
     CompletionsAnnounced, Leaving, Drain, channel, uring, should
<1>2. CASE Poll
  BY <1>2 DEF Poll, IInv, MessagesAnnounced, CompletionsAnnounced, Leaving, Drain
<1>3. CASE Complete
  <2>1. UNCHANGED <<unsignalled, broken>> /\ cq' = <<>>
    BY <1>3 DEF Complete, SendOwn
  <2>2. rx # <<>> => \/ signalled = TRUE \/ unsignalled > 0 \/ broken = TRUE
                     \/ pc' = "recv" /\ should_recv' = TRUE
                     \/ Leaving'
    <3>1. pc = "complete" /\ pc' = "recv" /\ should_recv' = should_recv
      BY <1>3 DEF Complete
    <3>2. QED
      BY <3>1 DEF IInv, MessagesAnnounced, Leaving, Drain
  <2>3. MessagesAnnounced'
    BY <1>3, <2>2, OwnStep DEF Complete
  <2>4. QED
    BY <2>1, <2>3 DEF IInv, CompletionsAnnounced
<1>4. CASE SkipComplete
  BY <1>4 DEF SkipComplete, IInv, MessagesAnnounced, CompletionsAnnounced, Leaving, Drain,
     channel, uring, should
<1>5. CASE RecvTask \/ RecvSubmit \/ RecvShutdown
  <2>1. /\ rx' # <<>> => rx # <<>>
        /\ cq' # <<>> => cq # <<>>
        /\ UNCHANGED <<pc, unsignalled, broken, signalled, io_signalled,
                       should_recv, should_complete_io>>
    BY <1>5 DEF RecvTask, RecvSubmit, RecvShutdown, Received, uring, should
  <2>2. QED
    BY <2>1, QuietStep
<1>6. CASE RecvKill
  BY <1>6 DEF RecvKill, IInv, MessagesAnnounced, CompletionsAnnounced, Leaving, Drain
<1>7. CASE RecvRepair
  <2>1. pc' = "recv" /\ should_recv' = TRUE
    BY <1>7 DEF RecvRepair, Receiving, should, IInv, Flags
  <2>2. UNCHANGED <<pc, unsignalled, cq, io_signalled, should_complete_io>>
    BY <1>7 DEF RecvRepair, uring, should
  <2>3. QED
    BY <2>1, <2>2 DEF IInv, MessagesAnnounced, CompletionsAnnounced, Leaving
<1>8. CASE RecvDone
  BY <1>8 DEF RecvDone, IInv, MessagesAnnounced, CompletionsAnnounced, Leaving, Drain,
     channel, uring, should
<1>9. CASE BeginDrain
  BY <1>9 DEF BeginDrain, IInv, MessagesAnnounced, CompletionsAnnounced, Leaving, Drain
<1>10. CASE DrainTask \/ DrainSubmission \/ DrainIgnored
  <2>1. /\ rx' # <<>> => rx # <<>>
        /\ cq' # <<>> => cq # <<>>
        /\ UNCHANGED <<pc, unsignalled, broken, signalled, io_signalled,
                       should_recv, should_complete_io>>
    BY <1>10 DEF DrainTask, DrainSubmission, DrainIgnored, Received, uring, should
  <2>2. QED
    BY <2>1, QuietStep
<1>11. CASE DrainKill \/ DrainEmpty \/ BlockingSubmit \/ DrainAgain \/ DrainDone \/ End
  BY <1>11 DEF DrainKill, DrainEmpty, BlockingSubmit, DrainAgain, DrainDone, End, IInv,
     MessagesAnnounced, CompletionsAnnounced, Leaving, Drain, channel
<1>12. CASE BlockingSubmitReturns
  BY <1>12 DEF BlockingSubmitReturns, SendOwn, IInv, MessagesAnnounced, CompletionsAnnounced,
     Leaving, Drain
<1>13. CASE RunTask
  <2>1. UNCHANGED <<pc, should_recv, should_complete_io, cq, io_signalled, unsignalled, broken>>
    BY <1>13 DEF RunTask, PollWaiting, PollFinishes, PollYields, PollAwaitsOther, PollSubmits,
       Leave, SendOwn, channel, should
  <2>2. CompletionsAnnounced'
    BY <2>1 DEF IInv, CompletionsAnnounced, Leaving
  <2>3. UNCHANGED channel \/ \E ms : SendOwn(ms)
    <3>1. PICK t : PollWaiting(t) \/ PollFinishes(t) \/ PollYields(t) \/ PollAwaitsOther(t)
                   \/ PollSubmits(t)
      BY <1>13 DEF RunTask
    <3>2. CASE PollWaiting(t)
      BY <3>2 DEF PollWaiting
    <3>3. ASSUME NEW submits, NEW ms, Leave(t, submits, ms) PROVE \E own : SendOwn(own)
      BY <3>3, Zenon DEF Leave
    <3>4. CASE PollFinishes(t) \/ PollYields(t) \/ PollAwaitsOther(t)
      BY <3>3, <3>4 DEF PollFinishes, PollYields, PollAwaitsOther
    <3>5. CASE PollSubmits(t)
      BY <3>3, <3>5 DEF PollSubmits
    <3>6. QED
      BY <3>1, <3>2, <3>4, <3>5
  <2>4. CASE UNCHANGED channel
    BY <2>1, <2>4, QuietStep DEF channel
  <2>5. ASSUME NEW ms, SendOwn(ms) PROVE MessagesAnnounced'
    <3>1. rx # <<>> => \/ signalled = TRUE \/ unsignalled > 0 \/ broken = TRUE
                       \/ pc' = "recv" /\ should_recv' = TRUE
                       \/ Leaving'
      <4>1. pc \in {"run", "drain_run"} /\ pc' = pc
        BY <1>13, <2>1 DEF RunTask
      <4>2. QED
        BY <4>1 DEF IInv, MessagesAnnounced, Leaving, Drain
    <3>2. QED
      BY <2>5, <3>1, OwnStep
  <2>6. QED
    BY <2>1, <2>2, <2>3, <2>4, <2>5, SMTT(30) DEF IInv
<1>14. CASE Signal
  <2>1. UNCHANGED <<pc, should_recv, should_complete_io, cq, io_signalled, broken>>
    BY <1>14 DEF Signal, uring, should
  <2>2. unsignalled' \in Nat
    BY <1>14 DEF Signal, IInv
  <2>3. CASE broken = TRUE
    BY <2>1, <2>2, <2>3 DEF IInv, MessagesAnnounced, CompletionsAnnounced, Leaving
  <2>4. CASE broken = FALSE
    <3>1. signalled' = TRUE
      BY <1>14, <2>4 DEF Signal
    <3>2. QED
      BY <2>1, <2>2, <3>1 DEF IInv, MessagesAnnounced, CompletionsAnnounced, Leaving
  <2>5. QED
    BY <2>3, <2>4 DEF IInv, Flags
<1>15. CASE RaiseSignal
  BY <1>15, QuietStep DEF RaiseSignal, channel, uring, should
<1>16. CASE Break
  BY <1>16 DEF Break, IInv, MessagesAnnounced, CompletionsAnnounced, Leaving, uring, should
<1>17. CASE AskToStop("shutdown", Shutdown) \/ AskToStop("kill", Kill)
  BY <1>17, SendStep DEF AskToStop, uring, should
<1>18. ASSUME NEW t \in Tasks, SpawnTask(t) \/ WakeAwaiting(t) \/ Nudge(t) PROVE Goal
  <2>1. UNCHANGED <<pc, should_recv, should_complete_io, cq, io_signalled>>
    BY <1>18 DEF SpawnTask, WakeAwaiting, Nudge, uring, should
  <2>2. UNCHANGED channel \/ \E m : Send(m)
    BY <1>18 DEF SpawnTask, WakeAwaiting, Nudge
  <2>3. CASE UNCHANGED channel
    BY <2>1, <2>3, QuietStep DEF channel
  <2>4. QED
    BY <2>1, <2>2, <2>3, SendStep
<1>19. ASSUME NEW o \in Ops, KernelCompletes(o) \/ ForeignSubmit(o) \/ ForeignTake(o) PROVE Goal
  <2>1. CASE KernelCompletes(o)
    BY <2>1 DEF KernelCompletes, IInv, MessagesAnnounced, CompletionsAnnounced, Leaving,
       channel, should
  <2>2. CASE ForeignSubmit(o)
    BY <2>2, SendStep DEF ForeignSubmit, should
  <2>3. CASE ForeignTake(o)
    BY <2>3, QuietStep DEF ForeignTake, channel, should
  <2>4. QED
    BY <1>19, <2>1, <2>2, <2>3
<1>20. CASE UNCHANGED vars
  BY <1>20, QuietStep DEF vars, channel, uring, should
<1>21. QED
  BY <1>1, <1>2, <1>3, <1>4, <1>5, <1>6, <1>7, <1>8, <1>9, <1>10, <1>11, <1>12, <1>13, <1>14,
     <1>15, <1>16, <1>17, <1>18, <1>19, <1>20 DEF Next, Thread

LEMMA Invariance == Spec => []IInv
<1>1. IInv /\ [Next]_vars => IInv'
  BY StepFlags, StepAnnounced DEF IInv
<1>2. QED
  BY InitIInv, <1>1, PTL DEF Spec

(* Whatever senders, the kernel, faults and repairs do between its steps,  *)
(* the thread never blocks in poll_events with a message or a completion   *)
(* that nothing will tell it of.                                           *)
THEOREM NothingUnnoticed == Spec => []NothingSleepsUnnoticed
<1>1. IInv => NothingSleepsUnnoticed
  BY DEF IInv, Flags, MessagesAnnounced, CompletionsAnnounced, NothingSleepsUnnoticed, Leaving,
     Drain
<1>2. QED
  BY Invariance, <1>1, PTL

-----------------------------------------------------------------------------
(* The state a worker can be in at the places where worker_loop stores one *)
(* without a look at the old one.                                          *)
StateAtPc ==
    /\ pc = "new" => state = "None"
    /\ pc = "setup" => state = "Starting"
    /\ pc = "poll" => state = "Idle"
    /\ state = "Stopped" => pc \in {"ending", "ended"}

Final == state \in {"Stopping", "Stopped"} => state' \in {"Stopping", "Stopped"}

LEMMA StepState == StateAtPc /\ [Next]_vars => StateAtPc' /\ Final
<1> SUFFICES ASSUME StateAtPc, [Next]_vars PROVE StateAtPc' /\ Final
  OBVIOUS
<1> USE DEF StateAtPc, Final
<1>1. CASE Start \/ SetUp \/ Poll \/ LoopAgain
  BY <1>1 DEF Start, SetUp, Poll, LoopAgain
<1>2. CASE Complete \/ SkipComplete \/ SubmitIo \/ RunDone \/ BeginDrain
  BY <1>2 DEF Complete, SkipComplete, SubmitIo, RunDone, BeginDrain
<1>3. CASE RecvTask \/ RecvSubmit \/ RecvShutdown \/ RecvKill \/ RecvRepair \/ RecvDone
  BY <1>3 DEF RecvTask, RecvSubmit, RecvShutdown, RecvKill, RecvRepair, RecvDone, Receiving
<1>4. CASE DrainTask \/ DrainSubmission \/ DrainIgnored \/ DrainKill \/ DrainEmpty
  BY <1>4 DEF DrainTask, DrainSubmission, DrainIgnored, DrainKill, DrainEmpty
<1>5. CASE BlockingSubmit \/ BlockingSubmitReturns \/ DrainAgain \/ DrainDone \/ End
  BY <1>5 DEF BlockingSubmit, BlockingSubmitReturns, DrainAgain, DrainDone, End
<1>6. CASE RunTask \/ Signal \/ RaiseSignal \/ Break
  BY <1>6 DEF RunTask, Signal, RaiseSignal, Break
<1>7. CASE AskToStop("shutdown", Shutdown) \/ AskToStop("kill", Kill)
  BY <1>7 DEF AskToStop
<1>8. ASSUME NEW t \in Tasks, SpawnTask(t) \/ WakeAwaiting(t) \/ Nudge(t)
      PROVE  StateAtPc' /\ Final
  BY <1>8 DEF SpawnTask, WakeAwaiting, Nudge
<1>9. ASSUME NEW o \in Ops, KernelCompletes(o) \/ ForeignSubmit(o) \/ ForeignTake(o)
      PROVE  StateAtPc' /\ Final
  BY <1>9 DEF KernelCompletes, ForeignSubmit, ForeignTake
<1>10. CASE UNCHANGED vars
  BY <1>10 DEF vars
<1>11. QED
  BY <1>1, <1>2, <1>3, <1>4, <1>5, <1>6, <1>7, <1>8, <1>9, <1>10 DEF Next, Thread

(* No interleaving of messages, signals and the loop's own stores takes a  *)
(* worker that stops, or has stopped, back to work.                        *)
THEOREM StopIsFinal == Spec => StoppingIsFinal
<1>1. Init => StateAtPc
  BY DEF Init, StateAtPc
<1>2. StateAtPc /\ [Next]_vars => StateAtPc'
  BY StepState
<1>3. Spec => []StateAtPc
  BY <1>1, <1>2, PTL DEF Spec
<1>4. StateAtPc /\ [Next]_vars => [Final]_vars
  BY StepState
<1>5. Spec => [][Final]_vars
  BY <1>3, <1>4, PTL DEF Spec
<1>6. QED
  BY <1>5 DEF StoppingIsFinal, Final

-----------------------------------------------------------------------------
(* The message channel: what sending and receiving make of it, told by the *)
(* set of its messages.                                                    *)

Unique == {Spawn(t) : t \in Tasks} \cup {Submit(o) : o \in Ops}

(* What a step does to the message channel: it adds the messages N, and    *)
(* perhaps a request to repair, or takes one message out.                  *)
Sends(N) ==
    /\ rx' \in Seq(Messages)
    /\ ToSet(rx) \cup N \subseteq ToSet(rx')
    /\ ToSet(rx') \subseteq ToSet(rx) \cup N \cup {Repair}
    /\ Once(rx, Unique) /\ N \cap ToSet(rx) \cap Unique = {} => Once(rx', Unique)

Takes(m) ==
    /\ m \in Messages
    /\ rx' \in Seq(Messages)
    /\ m \in ToSet(rx)
    /\ ToSet(rx) = ToSet(rx') \cup {m}
    /\ Once(rx, Unique) => Once(rx', Unique) /\ (m \in Unique => m \notin ToSet(rx'))

(* Messages of different kinds, or about different things, differ. *)
LEMMA MessagesDiffer ==
    /\ \A t, u : Spawn(t) = Spawn(u) => t = u
    /\ \A t, u : Wake(t) = Wake(u) => t = u
    /\ \A t, u : Submit(t) = Submit(u) => t = u
    /\ \A t, u : Spawn(t) # Wake(u) /\ Spawn(t) # Submit(u) /\ Wake(t) # Submit(u)
    /\ \A t : /\ Spawn(t) \notin {Shutdown, Kill, Repair}
              /\ Wake(t) \notin {Shutdown, Kill, Repair}
              /\ Submit(t) \notin {Shutdown, Kill, Repair}
    /\ Shutdown # Kill /\ Shutdown # Repair /\ Kill # Repair
<1>1. /\ \A t, u : Spawn(t) = Spawn(u) => t = u
      /\ \A t, u : Wake(t) = Wake(u) => t = u
      /\ \A t, u : Submit(t) = Submit(u) => t = u
  BY DEF Spawn, Wake, Submit
<1>2. /\ \A t : Spawn(t)[1] = "SpawnTask" /\ Wake(t)[1] = "WakeTask" /\ Submit(t)[1] = "SubmitIO"
      /\ Shutdown[1] = "Shutdown" /\ Kill[1] = "Kill" /\ Repair[1] = "RepairMessageChannel"
  BY DEF Spawn, Wake, Submit, Shutdown, Kill, Repair
<1>3. QED
  BY <1>1, <1>2

LEMMA MessageTypes ==
    /\ \A t \in Tasks : Spawn(t) \in Messages /\ Wake(t) \in Messages
    /\ \A o \in Ops : Submit(o) \in Messages
    /\ Shutdown \in Messages /\ Kill \in Messages /\ Repair \in Messages
    /\ \A t \in Tasks : Spawn(t) \in Unique /\ Wake(t) \notin Unique
    /\ \A o \in Ops : Submit(o) \in Unique
    /\ Shutdown \notin Unique /\ Kill \notin Unique /\ Repair \notin Unique
<1>1. /\ \A t \in Tasks : Spawn(t) \in Messages /\ Wake(t) \in Messages
      /\ \A o \in Ops : Submit(o) \in Messages
      /\ Shutdown \in Messages /\ Kill \in Messages /\ Repair \in Messages
  BY Zenon DEF Messages
<1>2. /\ \A t \in Tasks : Spawn(t) \in Unique
      /\ \A o \in Ops : Submit(o) \in Unique
  BY Zenon DEF Unique
<1>3. /\ \A t \in Tasks : Wake(t) \notin Unique
      /\ Shutdown \notin Unique /\ Kill \notin Unique /\ Repair \notin Unique
  BY MessagesDiffer, Zenon DEF Unique
<1>4. QED
  BY <1>1, <1>2, <1>3

LEMMA SendAdds ==
    ASSUME rx \in Seq(Messages), NEW m \in Messages, Send(m)
    PROVE  Sends({m})
<1>1. rx' = Append(rx, m)
  BY DEF Send
<1>2. rx' \in Seq(Messages) /\ ToSet(rx') = ToSet(rx) \cup {m}
  BY <1>1, AppendElements
<1>3. Once(rx, Unique) /\ {m} \cap ToSet(rx) \cap Unique = {} => Once(rx', Unique)
  BY <1>1, AppendOnce
<1>4. QED
  BY <1>2, <1>3 DEF Sends

LEMMA NoMessage == ASSUME rx \in Seq(Messages), UNCHANGED rx PROVE Sends({})
BY DEF Sends

LEMMA AskRepair ==
    ASSUME rx \in Seq(Messages), rx' = Append(rx, Repair)
    PROVE  Sends({})
<1>1. rx' \in Seq(Messages) /\ ToSet(rx') = ToSet(rx) \cup {Repair}
  BY MessageTypes, AppendElements
<1>2. Once(rx, Unique) => Once(rx', Unique)
  BY MessageTypes, AppendOnce
<1>3. QED
  BY <1>1, <1>2 DEF Sends

LEMMA SignalAdds ==
    ASSUME rx \in Seq(Messages), Signal
    PROVE  Sends({})
<1>1. rx' = rx \/ rx' = Append(rx, Repair)
  BY DEF Signal
<1>2. QED
  BY <1>1, NoMessage, AskRepair

LEMMA SendOwnAdds ==
    ASSUME rx \in Seq(Messages), NEW ms \in Seq(Messages), Once(ms, Unique), SendOwn(ms)
    PROVE  Sends(ToSet(ms))
<1>1. CASE ms = <<>>
  <2>1. UNCHANGED rx /\ ToSet(ms) = {}
    BY <1>1, EmptySequence DEF SendOwn
  <2>2. QED
    BY <2>1, NoMessage
<1>2. ASSUME NEW add \in Seq(Messages), Once(add, Unique), rx' = rx \o add,
             ToSet(add) = ToSet(ms) \/ ToSet(add) = ToSet(ms) \cup {Repair}
      PROVE  Sends(ToSet(ms))
  <2>1. rx' \in Seq(Messages) /\ ToSet(rx') = ToSet(rx) \cup ToSet(add)
    BY <1>2, ConcatElements
  <2>2. Repair \notin Unique
    BY MessageTypes
  <2>3. Once(rx, Unique) /\ ToSet(ms) \cap ToSet(rx) \cap Unique = {} => Once(rx', Unique)
    <3> SUFFICES ASSUME Once(rx, Unique), ToSet(ms) \cap ToSet(rx) \cap Unique = {}
                 PROVE  Once(rx', Unique)
      OBVIOUS
    <3>1. ToSet(rx) \cap ToSet(add) \cap Unique = {}
      BY <1>2, <2>2
    <3>2. QED
      BY <1>2, <3>1, ConcatOnce
  <2>4. QED
    BY <1>2, <2>1, <2>3 DEF Sends
<1>3. ms # <<>> => rx' = rx \o ms \/ rx' = rx \o Append(ms, Repair)
  BY DEF SendOwn
<1>4. /\ Append(ms, Repair) \in Seq(Messages)
      /\ ToSet(Append(ms, Repair)) = ToSet(ms) \cup {Repair}
      /\ Once(Append(ms, Repair), Unique)
  BY MessageTypes, AppendElements, AppendOnce
<1>5. QED
  BY <1>1, <1>2, <1>3, <1>4

LEMMA ReceivedTakes ==
    ASSUME rx \in Seq(Messages), NEW m, Received(m)
    PROVE  Takes(m)
<1>1. rx # <<>> /\ m = Head(rx) /\ rx' = Tail(rx)
  BY DEF Received
<1>2. QED
  BY <1>1, TailElements, TailOnce DEF Takes

Wakes == {Wake(t) : t \in IoTasks}

(* A batch of completions wakes the tasks whose operations it holds, and   *)
(* nobody else.                                                            *)
LEMMA WakeAllIs ==
    ASSUME NEW s \in Seq(Ops)
    PROVE  /\ WakeAll(s) \in Seq(Wakes)
           /\ \A o \in ToSet(s) \cap OwnOps : Wake(o[1]) \in ToSet(WakeAll(s))
<1> DEFINE n == Len(s)
           Step(g, i) == IF s[i] \in OwnOps THEN Append(g[i - 1], Wake(s[i][1])) ELSE g[i - 1]
           F == [i \in 1 .. n |-> [x \in Seq(Wakes) |->
                    IF s[i] \in OwnOps THEN Append(x, Wake(s[i][1])) ELSE x]]
           IsRec(g) == g = [i \in 0 .. n |-> IF i = 0 THEN <<>> ELSE Step(g, i)]
           w == CHOOSE g : IsRec(g)
<1>1. n \in Nat /\ DOMAIN s = 1 .. n
  OBVIOUS
<1>2. ASSUME NEW i \in 1 .. n, s[i] \in OwnOps PROVE Wake(s[i][1]) \in Wakes
  BY <1>2 DEF OwnOps, Wakes
<1>3. F \in [1 .. n -> [Seq(Wakes) -> Seq(Wakes)]]
  <2> SUFFICES ASSUME NEW i \in 1 .. n, NEW x \in Seq(Wakes)
               PROVE  (IF s[i] \in OwnOps THEN Append(x, Wake(s[i][1])) ELSE x) \in Seq(Wakes)
    BY Zenon
  <2>1. QED
    BY <1>2
<1>4. PICK g \in [0 .. n -> Seq(Wakes)] :
        g[0] = <<>> /\ \A i \in 1 .. n : g[i] = F[i][g[i - 1]]
  <2>1. <<>> \in Seq(Wakes)
    OBVIOUS
  <2>2. F \in StepFunctions(n, Seq(Wakes))
    BY <1>3 DEF StepFunctions
  <2> HIDE DEF F, n
  <2>3. Solutions(n, Seq(Wakes), <<>>, F) # {}
    BY <1>1, <2>1, <2>2, RecursionExists
  <2>4. QED
    BY <2>3 DEF Solutions
<1>5. IsRec(g)
  <2>1. ASSUME NEW i \in 1 .. n PROVE g[i] = Step(g, i)
    <3>1. i - 1 \in 0 .. n /\ g[i - 1] \in Seq(Wakes)
      BY <1>1, SMTT(30)
    <3>2. \A x \in Seq(Wakes) :
             F[i][x] = IF s[i] \in OwnOps THEN Append(x, Wake(s[i][1])) ELSE x
      <4>1. F[i] = [x \in Seq(Wakes) |->
                      IF s[i] \in OwnOps THEN Append(x, Wake(s[i][1])) ELSE x]
        BY Zenon
      <4> HIDE DEF F
      <4>2. QED
        BY <4>1
    <3> HIDE DEF F
    <3>4. F[i][g[i - 1]] = Step(g, i)
      BY <3>1, <3>2, Zenon
    <3>3. QED
      BY <1>4, <3>4, Zenon
  <2> HIDE DEF Step
  <2>2. \A i \in 0 .. n : g[i] = IF i = 0 THEN <<>> ELSE Step(g, i)
    BY <1>1, <1>4, <2>1
  <2>3. QED
    BY <2>2
<1>6. IsRec(w)
  BY <1>5, Zenon
<1>7. WakeAll(s) = w[n]
  BY DEF WakeAll
<1> HIDE DEF w, F
<1>8. /\ w[0] = <<>>
      /\ \A i \in 1 .. n : w[i] = Step(w, i)
  <2> HIDE DEF Step
  <2>1. \A i \in 0 .. n : w[i] = IF i = 0 THEN <<>> ELSE Step(w, i)
    BY <1>6, Zenon
  <2>2. QED
    BY <1>1, <2>1
<1> DEFINE P == {m \in Nat : m <= n =>
                    /\ w[m] \in Seq(Wakes)
                    /\ \A i \in 1 .. m : s[i] \in OwnOps => Wake(s[i][1]) \in ToSet(w[m])}
<1>9. 0 \in P
  <2>1. w[0] \in Seq(Wakes) /\ 1 .. 0 = {}
    BY <1>8
  <2>2. QED
    BY <2>1, Zenon
<1>10. ASSUME NEW m \in Nat, m \in P PROVE m + 1 \in P
  <2>0. m + 1 \in Nat
    OBVIOUS
  <2> SUFFICES ASSUME m + 1 <= n
               PROVE  /\ w[m + 1] \in Seq(Wakes)
                      /\ \A i \in 1 .. m + 1 : s[i] \in OwnOps => Wake(s[i][1]) \in ToSet(w[m + 1])
    BY <2>0, Zenon
  <2>1. m + 1 \in 1 .. n /\ w[m] \in Seq(Wakes)
        /\ \A i \in 1 .. m : s[i] \in OwnOps => Wake(s[i][1]) \in ToSet(w[m])
    BY <1>1, <1>10
  <2>2. w[m + 1] = IF s[m + 1] \in OwnOps THEN Append(w[m], Wake(s[m + 1][1])) ELSE w[m]
    BY <1>8, <2>1
  <2>3. CASE s[m + 1] \in OwnOps
    <3>1. Wake(s[m + 1][1]) \in Wakes
      BY <1>2, <2>1, <2>3
    <3>2. w[m + 1] \in Seq(Wakes) /\ ToSet(w[m + 1]) = ToSet(w[m]) \cup {Wake(s[m + 1][1])}
      BY <2>1, <2>2, <2>3, <3>1, AppendElements
    <3>3. QED
      BY <2>1, <3>2
  <2>4. CASE s[m + 1] \notin OwnOps
    BY <2>1, <2>2, <2>4
  <2>5. QED
    BY <2>3, <2>4
<1> HIDE DEF P
<1>11. n \in P
  BY <1>1, <1>9, <1>10, NatSetInduction
<1>12. w[n] \in Seq(Wakes) /\ \A i \in 1 .. n : s[i] \in OwnOps => Wake(s[i][1]) \in ToSet(w[n])
  BY <1>1, <1>11 DEF P
<1>13. QED
  BY <1>1, <1>7, <1>12, Zenon DEF ToSet

-----------------------------------------------------------------------------
(* The types, but for the flags. *)

Phases == {"new", "sent", "refused", "ready", "running", "done"}
Pcs    == {"new", "setup", "ending", "ended"} \cup Loop \cup Drain

ThreadShapes ==
    /\ state \in WorkerStates /\ pc \in Pcs
    /\ asked \subseteq Stops /\ early \subseteq Tasks
    /\ told \subseteq {"SHUTDOWN", "KILL"} /\ notified \subseteq {"Shutdown", "Kill"}
    /\ budget \in [nudges : 0 .. MaxNudges, faults : 0 .. MaxFaults]

TaskShapes ==
    /\ phase \in [Tasks -> Phases]
    /\ ready_tasks \in Seq(Tasks)
    /\ polls \in [Tasks -> 0 .. MaxPolls] /\ awaited \subseteq Tasks

IoShapes ==
    /\ op \in [Ops -> Places] /\ expected \in Nat
    /\ waiting_submissions \in Seq(Ops) /\ cq \in Seq(Ops)

Shapes == rx \in Seq(Messages) /\ ThreadShapes /\ TaskShapes /\ IoShapes

LEMMA OpsAreFinite == IsFiniteSet(Ops) /\ \A S \in SUBSET Ops : IsFiniteSet(S) /\ Cardinality(S) \in Nat
<1>1. IsFiniteSet(0 .. MaxPolls)
  BY WorkerAssumption, FS_Interval
<1>2. IsFiniteSet(OwnOps)
  BY <1>1, WorkerAssumption, FS_Product DEF OwnOps
<1>3. IsFiniteSet(OwnOps \cup Foreign)
  BY <1>2, WorkerAssumption, FS_Union
<1>4. IsFiniteSet(Ops)
  BY <1>3, WorkerAssumption, FS_Union DEF Ops
<1>5. QED
  BY <1>4, FS_Subset, FS_CardinalityType

LEMMA StepThreadShapes == ThreadShapes /\ phase \in [Tasks -> Phases] /\ [Next]_vars => ThreadShapes'
<1> SUFFICES ASSUME ThreadShapes, phase \in [Tasks -> Phases], [Next]_vars PROVE ThreadShapes'
  OBVIOUS
<1> USE DEF ThreadShapes, history, WorkerStates, Pcs, Loop, Drain
<1>1. CASE Start \/ SetUp \/ Poll \/ LoopAgain
  BY <1>1 DEF Start, SetUp, Poll, LoopAgain
<1>2. CASE Complete \/ SkipComplete \/ SubmitIo \/ RunDone \/ BeginDrain
  BY <1>2 DEF Complete, SkipComplete, SubmitIo, RunDone, BeginDrain
<1>3. CASE RecvTask \/ RecvSubmit \/ RecvShutdown \/ RecvKill \/ RecvRepair \/ RecvDone
  BY <1>3 DEF RecvTask, RecvSubmit, RecvShutdown, RecvKill, RecvRepair, RecvDone, Receiving
<1>4. CASE DrainTask \/ DrainSubmission \/ DrainIgnored \/ DrainKill \/ DrainEmpty
  BY <1>4 DEF DrainTask, DrainSubmission, DrainIgnored, DrainKill, DrainEmpty
<1>5. CASE BlockingSubmit \/ BlockingSubmitReturns \/ DrainAgain \/ DrainDone \/ End
  BY <1>5 DEF BlockingSubmit, BlockingSubmitReturns, DrainAgain, DrainDone, End
<1>6. CASE RunTask \/ Signal
  BY <1>6, ZenonT(60) DEF RunTask, Signal
<1>7. CASE Break
  BY <1>7, WorkerAssumption DEF Break
<1>8. CASE RaiseSignal
  BY <1>8 DEF RaiseSignal, Accepted
<1>9. ASSUME NEW how, NEW m, AskToStop(how, m) PROVE ThreadShapes'
  BY <1>9 DEF AskToStop, Accepted
<1>10. ASSUME NEW t \in Tasks, Nudge(t) PROVE ThreadShapes'
  BY <1>10, WorkerAssumption DEF Nudge
<1>11. ASSUME NEW t \in Tasks, SpawnTask(t) \/ WakeAwaiting(t) PROVE ThreadShapes'
  BY <1>11, ZenonT(60) DEF SpawnTask, WakeAwaiting
<1>12. ASSUME NEW o \in Ops, KernelCompletes(o) \/ ForeignSubmit(o) \/ ForeignTake(o)
      PROVE  ThreadShapes'
  BY <1>12, ZenonT(60) DEF KernelCompletes, ForeignSubmit, ForeignTake
<1>13. CASE UNCHANGED vars
  BY <1>13 DEF vars
<1>14. QED
  BY <1>1, <1>2, <1>3, <1>4, <1>5, <1>6, <1>7, <1>8, <1>9, <1>10, <1>11, <1>12, <1>13
     DEF Next, Thread

LEMMA PhaseSteps ==
    ASSUME NEW t \in Tasks, phase \in [Tasks -> Phases], ready_tasks \in Seq(Tasks)
    PROVE  /\ MakeReady(t) => phase' \in [Tasks -> Phases] /\ ready_tasks' \in Seq(Tasks)
           /\ Pending(t) => phase' \in [Tasks -> Phases]
           /\ phase' = [phase EXCEPT ![t] = "done"] => phase' \in [Tasks -> Phases]
           /\ phase' = [phase EXCEPT ![t] = "sent"] => phase' \in [Tasks -> Phases]
           /\ phase' = [phase EXCEPT ![t] = "refused"] => phase' \in [Tasks -> Phases]
BY SMTT(30) DEF MakeReady, Pending, Phases

LEMMA StepTaskShapes == TaskShapes /\ [Next]_vars => TaskShapes'
<1> SUFFICES ASSUME TaskShapes, [Next]_vars PROVE TaskShapes'
  OBVIOUS
<1> USE DEF TaskShapes, tasks
<1>1. CASE Start \/ SetUp \/ Poll \/ LoopAgain
  BY <1>1 DEF Start, SetUp, Poll, LoopAgain
<1>2. CASE Complete \/ SkipComplete \/ SubmitIo \/ RunDone \/ BeginDrain
  BY <1>2 DEF Complete, SkipComplete, SubmitIo, RunDone, BeginDrain
<1>3. CASE RecvSubmit \/ RecvShutdown \/ RecvKill \/ RecvRepair \/ RecvDone
  BY <1>3 DEF RecvSubmit, RecvShutdown, RecvKill, RecvRepair, RecvDone, Receiving
<1>4. CASE DrainSubmission \/ DrainIgnored \/ DrainKill \/ DrainEmpty
  BY <1>4 DEF DrainSubmission, DrainIgnored, DrainKill, DrainEmpty
<1>5. CASE BlockingSubmit \/ BlockingSubmitReturns \/ DrainAgain \/ DrainDone \/ End
  BY <1>5 DEF BlockingSubmit, BlockingSubmitReturns, DrainAgain, DrainDone, End
<1>6. CASE RecvTask \/ DrainTask
  <2>1. PICK t \in Tasks : \E m \in {Spawn(t), Wake(t)} : ToExecutor(m)
    BY <1>6 DEF RecvTask, DrainTask
  <2>2. \A m \in {Spawn(t), Wake(t)} : m[2] = t
    BY DEF Spawn, Wake
  <2>3. (MakeReady(t) \/ UNCHANGED <<phase, ready_tasks>>) /\ UNCHANGED <<polls, awaited>>
    BY <2>1, <2>2 DEF ToExecutor
  <2>4. QED
    BY <2>3, PhaseSteps
<1>7. CASE RunTask
  <2>1. ready_tasks' = Tail(ready_tasks) /\ ready_tasks # <<>>
    BY <1>7 DEF RunTask
  <2>2. PICK t \in Tasks : \/ PollWaiting(t) \/ PollFinishes(t) \/ PollYields(t)
                           \/ PollAwaitsOther(t) \/ PollSubmits(t)
    BY <1>7, <2>1, TailElements DEF RunTask
  <2>3. ready_tasks' \in Seq(Tasks)
    BY <2>1, TailElements
  <2>4. phase' \in [Tasks -> Phases]
    BY <2>2, PhaseSteps DEF PollWaiting, PollFinishes, PollYields, PollAwaitsOther, PollSubmits,
       NextAwait
  <2>5. awaited' \subseteq Tasks
    BY <2>2 DEF PollWaiting, PollFinishes, PollYields, PollAwaitsOther, PollSubmits
  <2>6. polls' \in [Tasks -> 0 .. MaxPolls]
    BY <2>2, WorkerAssumption DEF PollWaiting, PollFinishes, PollYields, PollAwaitsOther,
       PollSubmits, NextAwait
  <2>7. QED
    BY <2>3, <2>4, <2>5, <2>6
<1>8. CASE Signal \/ RaiseSignal \/ Break
  BY <1>8 DEF Signal, RaiseSignal, Break
<1>9. ASSUME NEW how, NEW m, AskToStop(how, m) PROVE TaskShapes'
  BY <1>9 DEF AskToStop
<1>10. ASSUME NEW t \in Tasks, Nudge(t) \/ WakeAwaiting(t) PROVE TaskShapes'
  BY <1>10 DEF Nudge, WakeAwaiting
<1>11. ASSUME NEW t \in Tasks, SpawnTask(t) PROVE TaskShapes'
  BY <1>11, PhaseSteps DEF SpawnTask
<1>12. ASSUME NEW o \in Ops, KernelCompletes(o) \/ ForeignSubmit(o) \/ ForeignTake(o)
      PROVE  TaskShapes'
  BY <1>12 DEF KernelCompletes, ForeignSubmit, ForeignTake
<1>13. CASE UNCHANGED vars
  BY <1>13 DEF vars
<1>14. QED
  BY <1>1, <1>2, <1>3, <1>4, <1>5, <1>6, <1>7, <1>8, <1>9, <1>10, <1>11, <1>12, <1>13
     DEF Next, Thread

LEMMA PlacesAre ==
    /\ "none" \in Places /\ "sent" \in Places /\ "backup" \in Places /\ "gone" \in Places
    /\ "sq" \in Places /\ "kernel" \in Places /\ "cq" \in Places /\ "arrived" \in Places
BY DEF Places, Slotted

LEMMA PrepareShapes ==
    ASSUME IoShapes, NEW o \in Ops, Prepare(o)
    PROVE  op' \in [Ops -> Places] /\ waiting_submissions' \in Seq(Ops)
<1>1. CASE op' = [op EXCEPT ![o] = "sq"] /\ UNCHANGED waiting_submissions
  BY <1>1, PlacesAre DEF IoShapes
<1>2. CASE /\ op' = [op EXCEPT ![o] = "backup"]
           /\ waiting_submissions' = Append(waiting_submissions, o)
  BY <1>2, PlacesAre DEF IoShapes
<1>3. QED
  BY <1>1, <1>2 DEF Prepare

(* The backup queue is cut in two: what moves to the submission queue, and *)
(* the rest, whose first goes to the back.                                 *)
Moves(n) == SubSeq(waiting_submissions, 1, n)
Stays(n) == SubSeq(waiting_submissions, n + 1, Len(waiting_submissions))
Turned(q) == IF q = <<>> THEN <<>> ELSE Append(Tail(q), Head(q))

(* What reading the completions does to the operations. *)
CompleteEffect(n) ==
    /\ pc = "complete" /\ pc' = "recv"
    /\ n \in 0 .. Len(waiting_submissions) /\ n <= SqSize - Cardinality(InSq)
    /\ Stays(n) # <<>> => n = SqSize - Cardinality(InSq)
    /\ op' = [o \in Ops |-> IF o \in ToSet(Moves(n)) THEN "sq" ELSE Arrived(op)[o]]
    /\ waiting_submissions' = Turned(Stays(n))
    /\ should_submit_io' = IF n > 0 THEN TRUE ELSE FALSE
    /\ cq' = <<>>
    /\ SendOwn(WakeAll(cq))
    /\ UNCHANGED <<state, tasks, expected>>

LEMMA TurnedIs ==
    ASSUME NEW q \in Seq(Ops)
    PROVE  /\ Turned(q) \in Seq(Ops) /\ ToSet(Turned(q)) = ToSet(q)
           /\ Once(q, Ops) => Once(Turned(q), Ops)
           /\ Turned(q) = <<>> <=> q = <<>>
<1>1. CASE q = <<>>
  BY <1>1 DEF Turned
<1>2. CASE q # <<>>
  <2>1. Turned(q) = Append(Tail(q), Head(q))
    BY <1>2 DEF Turned
  <2>2. /\ Head(q) \in Ops /\ Tail(q) \in Seq(Ops)
        /\ ToSet(q) = ToSet(Tail(q)) \cup {Head(q)}
    BY <1>2, TailElements
  <2>3. Turned(q) \in Seq(Ops) /\ ToSet(Turned(q)) = ToSet(q)
    <3>1. PICK r \in Seq(Ops), o \in Ops : r = Tail(q) /\ o = Head(q)
      BY <2>2
    <3>2. Append(r, o) \in Seq(Ops) /\ ToSet(Append(r, o)) = ToSet(r) \cup {o}
      BY AppendElements
    <3>3. QED
      BY <2>1, <2>2, <3>1, <3>2
  <2>4. ASSUME Once(q, Ops) PROVE Once(Turned(q), Ops)
    <3>1. Once(Tail(q), Ops) /\ Head(q) \notin ToSet(Tail(q))
      BY <1>2, <2>2, <2>4, TailOnce
    <3>2. QED
      BY <2>1, <2>2, <3>1, AppendOnce
  <2>5. Turned(q) # <<>>
    <3>1. \A r \in Seq(Ops), o \in Ops : Append(r, o) # <<>>
      OBVIOUS
    <3>2. QED
      BY <2>1, <2>2, <3>1
  <2>6. QED
    BY <1>2, <2>3, <2>4, <2>5
<1>3. QED
  BY <1>1, <1>2

LEMMA SqRoom ==
    Cardinality(InSq) \in Nat /\ SqSize \in Nat
BY OpsAreFinite, WorkerAssumption DEF InSq

LEMMA CompleteHas ==
    ASSUME IoShapes, Cardinality(InSq) <= SqSize, Complete
    PROVE  \E n \in Nat : CompleteEffect(n)
<1> DEFINE room == SqSize - Cardinality(InSq)
           n == IF room < Len(waiting_submissions) THEN room ELSE Len(waiting_submissions)
<1>1. waiting_submissions \in Seq(Ops) /\ Len(waiting_submissions) \in Nat
  BY DEF IoShapes
<1>2. room \in Nat
  BY SqRoom
<1>3. n \in 0 .. Len(waiting_submissions) /\ n <= room /\ n \in Nat
  BY <1>1, <1>2
<1>4. Stays(n) # <<>> => n = room
  <2> SUFFICES ASSUME n # room PROVE Stays(n) = <<>>
    OBVIOUS
  <2>1. n = Len(waiting_submissions)
    OBVIOUS
  <2>2. QED
    BY <1>1, <2>1 DEF Stays
<1>5. should_submit_io' = IF n > 0 THEN TRUE ELSE FALSE
  BY Zenon DEF Complete
<1>6. /\ op' = [o \in Ops |-> IF o \in ToSet(Moves(n)) THEN "sq" ELSE Arrived(op)[o]]
      /\ waiting_submissions' = Turned(Stays(n))
  BY Zenon DEF Complete, Moves, Stays, Turned
<1>7. /\ pc = "complete" /\ pc' = "recv" /\ cq' = <<>> /\ SendOwn(WakeAll(cq))
      /\ UNCHANGED <<state, tasks, expected>>
  BY Zenon DEF Complete
<1> HIDE DEF n
<1>8. QED
  BY <1>3, <1>4, <1>5, <1>6, <1>7, Zenon DEF CompleteEffect

LEMMA SplitBackup ==
    ASSUME IoShapes, NEW n \in 0 .. Len(waiting_submissions)
    PROVE  /\ Moves(n) \in Seq(Ops) /\ Stays(n) \in Seq(Ops)
           /\ Len(Moves(n)) = n
           /\ ToSet(waiting_submissions) = ToSet(Moves(n)) \cup ToSet(Stays(n))
           /\ Once(waiting_submissions, Ops) =>
                 Once(Stays(n), Ops) /\ ToSet(Moves(n)) \cap ToSet(Stays(n)) \cap Ops = {}
BY SplitElements, SplitOnce DEF Moves, Stays, IoShapes

LEMMA RunTaskOps ==
    ASSUME op \in [Ops -> Places], RunTask
    PROVE  op' \in [Ops -> Places]
<1>1. PICK t : PollWaiting(t) \/ PollFinishes(t) \/ PollYields(t)
                   \/ PollAwaitsOther(t) \/ PollSubmits(t)
  BY DEF RunTask
<1>2. CASE PollWaiting(t)
  BY <1>2 DEF PollWaiting
<1>3. ASSUME NEW submits, NEW ms, Leave(t, submits, ms) PROVE op' \in [Ops -> Places]
  <2>1. PICK cs : op' = [o \in Ops |->
                       IF o \in submits \cup ToSet(cs) THEN "sent"
                       ELSE IF o = Current(t) /\ op[o] = "arrived" THEN "gone"
                       ELSE op[o]]
    BY <1>3 DEF Leave
  <2>2. QED
    BY <2>1, PlacesAre
<1>4. CASE PollFinishes(t) \/ PollYields(t) \/ PollAwaitsOther(t)
  BY <1>3, <1>4 DEF PollFinishes, PollYields, PollAwaitsOther
<1>5. CASE PollSubmits(t)
  BY <1>3, <1>5 DEF PollSubmits
<1>6. QED
  BY <1>1, <1>2, <1>4, <1>5

LEMMA StepIoShapes == IoShapes /\ Cardinality(InSq) <= SqSize /\ [Next]_vars => IoShapes'
<1> SUFFICES ASSUME IoShapes, Cardinality(InSq) <= SqSize, [Next]_vars PROVE IoShapes'
  OBVIOUS
<1> USE DEF IoShapes, uring
<1>1. CASE Start \/ SetUp \/ Poll \/ LoopAgain
  BY <1>1 DEF Start, SetUp, Poll, LoopAgain
<1>2. CASE SkipComplete \/ RunDone \/ BeginDrain
  BY <1>2 DEF SkipComplete, RunDone, BeginDrain
<1>3. CASE SubmitIo
  BY <1>3, PlacesAre DEF SubmitIo, Submitted
<1>4. CASE Complete
  <2>1. PICK n \in Nat : CompleteEffect(n)
    BY <1>4, CompleteHas
  <2>2. op' \in [Ops -> Places]
    BY <2>1, PlacesAre DEF CompleteEffect, Arrived
  <2>3. waiting_submissions' \in Seq(Ops)
    BY <2>1, SplitBackup, TurnedIs DEF CompleteEffect
  <2>4. QED
    BY <2>1, <2>2, <2>3 DEF CompleteEffect
<1>5. CASE RecvTask \/ RecvShutdown \/ RecvKill \/ RecvRepair \/ RecvDone
  BY <1>5 DEF RecvTask, RecvShutdown, RecvKill, RecvRepair, RecvDone, Receiving
<1>6. CASE RecvSubmit \/ DrainSubmission
  <2>1. PICK o \in Ops : Prepare(o)
    BY <1>6 DEF RecvSubmit, DrainSubmission
  <2>2. UNCHANGED <<cq, expected>>
    BY <1>6 DEF RecvSubmit, DrainSubmission
  <2>3. QED
    BY <2>1, <2>2, PrepareShapes
<1>7. CASE DrainTask \/ DrainIgnored \/ DrainKill \/ DrainEmpty
  BY <1>7 DEF DrainTask, DrainIgnored, DrainKill, DrainEmpty
<1>8. CASE BlockingSubmit
  <2>1. Cardinality(Slots) \in Nat
    BY OpsAreFinite DEF Slots
  <2>2. QED
    BY <1>8, <2>1, PlacesAre DEF BlockingSubmit, Submitted
<1>9. CASE BlockingSubmitReturns
  BY <1>9, PlacesAre DEF BlockingSubmitReturns, Arrived
<1>10. CASE DrainAgain \/ DrainDone \/ End
  BY <1>10 DEF DrainAgain, DrainDone, End
<1>11. CASE RunTask
  BY <1>11, RunTaskOps DEF RunTask
<1>12. CASE Signal \/ RaiseSignal \/ Break
  BY <1>12 DEF Signal, RaiseSignal, Break
<1>13. ASSUME NEW how, NEW m, AskToStop(how, m) PROVE IoShapes'
  BY <1>13 DEF AskToStop
<1>14. ASSUME NEW t \in Tasks, SpawnTask(t) \/ WakeAwaiting(t) \/ Nudge(t) PROVE IoShapes'
  BY <1>14 DEF SpawnTask, WakeAwaiting, Nudge
<1>15. ASSUME NEW o \in Ops, KernelCompletes(o) \/ ForeignSubmit(o) \/ ForeignTake(o)
       PROVE  IoShapes'
  BY <1>15, PlacesAre, SMTT(30) DEF KernelCompletes, ForeignSubmit, ForeignTake
<1>16. CASE UNCHANGED vars
  BY <1>16 DEF vars
<1>17. QED
  BY <1>1, <1>2, <1>3, <1>4, <1>5, <1>6, <1>7, <1>8, <1>9, <1>10, <1>11, <1>12, <1>13,
     <1>14, <1>15, <1>16 DEF Next, Thread

-----------------------------------------------------------------------------
(* What the poll of a task does to the operations and the channel. *)

LEMMA SingleMessage ==
    ASSUME NEW m \in Messages
    PROVE  /\ <<m>> \in Seq(Messages) /\ ToSet(<<m>>) = {m} /\ Once(<<m>>, Unique)
<1>1. <<m>> \in Seq(Messages) /\ DOMAIN <<m>> = {1} /\ <<m>>[1] = m
  OBVIOUS
<1>2. QED
  BY <1>1 DEF ToSet, Once

(* What the end of an await does: operations are submitted, of which `own` *)
(* is the next await's and `cs` the cancellation, and tasks are woken.     *)
Leaves(t, own, cs, wakes) ==
    /\ cs \subseteq Cancels
    /\ \A o \in own \cup cs : op[o] = "none"
    /\ op' = [o \in Ops |-> IF o \in own \cup cs THEN "sent"
                            ELSE IF o = Current(t) /\ op[o] = "arrived" THEN "gone"
                            ELSE op[o]]
    /\ Sends({Submit(o) : o \in own \cup cs} \cup wakes)

LEMMA LeaveSends ==
    ASSUME rx \in Seq(Messages), NEW t \in Tasks, NEW own \in SUBSET OwnOps, NEW ms \in Seq(Messages),
           NEW wakes \in SUBSET {Wake(t)}, Once(ms, Unique),
           ToSet(ms) = {Submit(o) : o \in own} \cup wakes,
           \A o \in own : op[o] = "none", Leave(t, own, ms)
    PROVE  \E cs : Leaves(t, own, cs, wakes)
<1> DEFINE Cancelling(cs) == [i \in 1 .. Len(cs) |-> Submit(cs[i])]
<1>1. PICK cs \in Cancellation(t) :
        /\ op' = [o \in Ops |-> IF o \in own \cup ToSet(cs) THEN "sent"
                                ELSE IF o = Current(t) /\ op[o] = "arrived" THEN "gone"
                                ELSE op[o]]
        /\ SendOwn(Cancelling(cs) \o ms)
  BY Zenon DEF Leave
<1>2. Cancels \subseteq Ops /\ OwnOps \subseteq Ops
  BY DEF Ops
<1>3. CASE cs = <<>>
  <2>1. Cancelling(cs) \o ms = ms /\ ToSet(cs) = {}
    BY <1>3 DEF ToSet
  <2>2. Sends(ToSet(ms))
    BY <1>1, <2>1, SendOwnAdds
  <2>3. Leaves(t, own, {}, wakes)
    BY <1>1, <2>1, <2>2 DEF Leaves
  <2>4. QED
    BY <2>3
<1>4. ASSUME NEW c \in Cancels, cs = <<c>>, op[c] = "none"
      PROVE  \E ds : Leaves(t, own, ds, wakes)
  <2>1. ToSet(cs) = {c}
    <3>1. DOMAIN <<c>> = {1} /\ <<c>>[1] = c
      OBVIOUS
    <3>2. QED
      BY <1>4, <3>1 DEF ToSet
  <2>2. Cancelling(cs) = <<Submit(c)>>
    BY <1>4
  <2>3. c \in Ops /\ Submit(c) \in Messages
    BY <1>2, MessageTypes
  <2>4. PICK x \in Seq(Messages) : x = <<Submit(c)>> /\ ToSet(x) = {Submit(c)} /\ Once(x, Unique)
    BY <2>3, SingleMessage
  <2>5. ToSet(x) \cap ToSet(ms) = {}
    <3>1. Submit(c) \notin wakes
      BY MessagesDiffer
    <3>2. c \notin own
      BY WorkerAssumption
    <3>3. \A o \in own : Submit(o) # Submit(c)
      BY <3>2, MessagesDiffer
    <3>4. Submit(c) \notin ToSet(ms)
      BY <3>1, <3>3
    <3>5. QED
      BY <2>4, <3>4
  <2>6. x \o ms \in Seq(Messages) /\ ToSet(x \o ms) = {Submit(c)} \cup ToSet(ms)
    <3>1. x \o ms \in Seq(Messages) /\ ToSet(x \o ms) = ToSet(x) \cup ToSet(ms)
      BY ConcatElements
    <3>2. QED
      BY <2>4, <3>1, Zenon
  <2>7. Once(x \o ms, Unique)
    BY <2>4, <2>5, ConcatOnce
  <2>8. SendOwn(x \o ms)
    BY <1>1, <2>2, <2>4
  <2>9. Sends(ToSet(x \o ms))
    BY <2>6, <2>7, <2>8, SendOwnAdds
  <2>10. ToSet(x \o ms) = {Submit(o) : o \in own \cup {c}} \cup wakes
    BY <2>6
  <2>11. Leaves(t, own, {c}, wakes)
    BY <1>1, <1>4, <2>1, <2>9, <2>10 DEF Leaves
  <2>12. QED
    BY <2>11
<1>5. cs = <<>> \/ \E c \in Cancels : cs = <<c>> /\ op[c] = "none"
  BY DEF Cancellation
<1>6. QED
  BY <1>3, <1>4, <1>5

(* The operations of awaits that a task has yet to come to. *)
Fresh == \A t \in IoTasks : \A k \in 0 .. MaxPolls : k < polls[t] => op[<<t, k>>] = "none"

Next1(t) == <<t, polls[t] - 1>>

PolledOn(t) ==
    /\ polls[t] > 0 /\ Pending(t) /\ polls' = [polls EXCEPT ![t] = @ - 1]
    /\ \/ UNCHANGED awaited /\ \E cs : Leaves(t, {}, cs, {Wake(t)})
       \/ awaited' = awaited \cup {t} /\ \E cs : Leaves(t, {}, cs, {})
       \/ /\ t \in IoTasks /\ Next1(t) \in OwnOps
          /\ UNCHANGED awaited /\ \E cs : Leaves(t, {Next1(t)}, cs, {})

Polled(t) ==
    /\ t \in Tasks /\ ready_tasks # <<>> /\ t = Head(ready_tasks)
    /\ ready_tasks' = Tail(ready_tasks)
    /\ UNCHANGED <<pc, state, history, should, waiting_submissions, cq>>
    /\ \/ /\ StillWaits(t) /\ Pending(t)
          /\ UNCHANGED <<rx, polls, awaited, op>>
       \/ /\ phase' = [phase EXCEPT ![t] = "done"]
          /\ UNCHANGED <<polls, awaited>> /\ \E cs : Leaves(t, {}, cs, {})
       \/ PolledOn(t)

LEMMA RunTaskPolls ==
    ASSUME rx \in Seq(Messages), TaskShapes, Fresh, RunTask
    PROVE  \E t \in Tasks : Polled(t)
<1>1. ready_tasks # <<>> /\ ready_tasks' = Tail(ready_tasks)
      /\ UNCHANGED <<pc, state, history, should, waiting_submissions, cq>>
  BY DEF RunTask
<1>2. PICK t \in Tasks : t = Head(ready_tasks) /\ (PollWaiting(t) \/ PollFinishes(t)
                         \/ PollYields(t) \/ PollAwaitsOther(t) \/ PollSubmits(t))
  BY <1>1, TailElements DEF RunTask, TaskShapes
<1>3. <<>> \in Seq(Messages) /\ ToSet(<<>>) = {} /\ Once(<<>>, Unique)
  BY EmptySequence
<1>4. CASE PollWaiting(t)
  <2>1. StillWaits(t) /\ Pending(t) /\ UNCHANGED <<rx, polls, awaited, op>>
    BY <1>4 DEF PollWaiting, channel
  <2>2. QED
    BY <1>1, <1>2, <2>1 DEF Polled
<1>5. ASSUME Leave(t, {}, <<>>) PROVE \E cs : Leaves(t, {}, cs, {})
  BY <1>3, <1>5, LeaveSends
<1>6. CASE PollFinishes(t)
  BY <1>1, <1>2, <1>5, <1>6 DEF PollFinishes, Polled
<1>7. CASE PollYields(t)
  <2>1. NextAwait(t) /\ Leave(t, {}, <<Wake(t)>>) /\ UNCHANGED awaited
    BY <1>7 DEF PollYields
  <2>2. PICK x \in Seq(Messages) : x = <<Wake(t)>> /\ ToSet(x) = {Wake(t)} /\ Once(x, Unique)
    BY MessageTypes, SingleMessage
  <2>3. \E cs : Leaves(t, {}, cs, {Wake(t)})
    BY <2>1, <2>2, LeaveSends
  <2>4. PolledOn(t)
    BY <2>1, <2>3 DEF PolledOn, NextAwait
  <2>5. QED
    BY <1>1, <1>2, <2>4 DEF Polled
<1>8. CASE PollAwaitsOther(t)
  <2>1. PolledOn(t)
    BY <1>5, <1>8 DEF PolledOn, NextAwait, PollAwaitsOther
  <2>2. QED
    BY <1>1, <1>2, <2>1 DEF Polled
<1>9. CASE PollSubmits(t)
  <2>1. NextAwait(t) /\ Leave(t, {Next1(t)}, <<Submit(Next1(t))>>) /\ UNCHANGED awaited /\ t \in IoTasks
    BY <1>9 DEF PollSubmits, Next1
  <2>2. polls[t] \in 0 .. MaxPolls /\ polls[t] > 0
    BY <2>1 DEF TaskShapes, NextAwait
  <2>3. polls[t] - 1 \in 0 .. MaxPolls /\ polls[t] - 1 < polls[t]
    BY <2>2, WorkerAssumption
  <2>4. Next1(t) \in OwnOps /\ op[Next1(t)] = "none"
    BY <2>1, <2>3 DEF Fresh, OwnOps, Next1
  <2>5. Next1(t) \in Ops
    BY <2>4 DEF Ops
  <2>6. PICK x \in Seq(Messages) :
          x = <<Submit(Next1(t))>> /\ ToSet(x) = {Submit(Next1(t))} /\ Once(x, Unique)
    BY <2>5, MessageTypes, SingleMessage
  <2>7. \E cs : Leaves(t, {Next1(t)}, cs, {})
    BY <2>1, <2>4, <2>6, LeaveSends
  <2>8. PolledOn(t)
    BY <2>1, <2>4, <2>7 DEF PolledOn, NextAwait
  <2>9. QED
    BY <1>1, <1>2, <2>8 DEF Polled
<1>10. QED
  BY <1>2, <1>4, <1>6, <1>7, <1>8, <1>9

-----------------------------------------------------------------------------
(* Every step is of one of ten kinds as far as tasks, operations and their *)
(* messages are concerned.  What follows is proved kind by kind.           *)

queues == <<phase, ready_tasks, polls, awaited, op, waiting_submissions, cq>>

(* The kinds of step there are for tasks, operations and messages. *)
Chatter ==
    /\ UNCHANGED queues
    /\ Connected' => Connected
    /\ \/ \E N \in SUBSET ({Shutdown, Kill} \cup {Wake(t) : t \in Tasks}) : Sends(N)
       \/ \E m \in {Shutdown, Kill, Repair} : Takes(m)

Spawned(t) ==
    /\ phase[t] = "new"
    /\ UNCHANGED <<pc, ready_tasks, polls, awaited, op, waiting_submissions, cq>>
    /\ \/ phase' = [phase EXCEPT ![t] = "sent"] /\ Sends({Spawn(t)})
       \/ ~Connected /\ phase' = [phase EXCEPT ![t] = "refused"] /\ Sends({})

Woken(t) ==
    /\ awaited' = awaited \ {t}
    /\ UNCHANGED <<pc, phase, ready_tasks, polls, op, waiting_submissions, cq>>
    /\ Sends({Wake(t)}) \/ (~Connected /\ Sends({}))

Told(t) ==
    /\ UNCHANGED <<pc, polls, awaited, op, waiting_submissions, cq>>
    /\ \/ Takes(Spawn(t)) /\ MakeReady(t)
       \/ Takes(Wake(t)) /\ phase[t] = "running" /\ MakeReady(t)
       \/ Takes(Wake(t)) /\ phase[t] # "running" /\ UNCHANGED <<phase, ready_tasks>>

Carried(o) ==
    /\ UNCHANGED <<pc, phase, ready_tasks, polls, awaited, waiting_submissions>>
    /\ \/ /\ op[o] = "kernel" /\ op' = [op EXCEPT ![o] = "cq"]
          /\ cq' = Append(cq, o) /\ Sends({})
       \/ /\ o \in Foreign \cup Cancels /\ op[o] = "none"
          /\ op' = [op EXCEPT ![o] = "sent"]
          /\ UNCHANGED cq /\ Sends({Submit(o)})
       \/ /\ o \in Foreign /\ op[o] = "arrived" /\ op' = [op EXCEPT ![o] = "gone"]
          /\ UNCHANGED cq /\ Sends({})

Prepared(o) ==
    /\ UNCHANGED <<pc, phase, ready_tasks, polls, awaited, cq>>
    /\ Takes(Submit(o)) /\ Prepare(o)

Completed(n) ==
    /\ CompleteEffect(n) /\ Sends(ToSet(WakeAll(cq)))

HandedOver ==
    /\ UNCHANGED <<phase, ready_tasks, polls, awaited, waiting_submissions, cq>>
    /\ Connected' <=> Connected
    /\ op' = op \/ op' = Submitted(op)
    /\ Sends({})

Gathered ==
    /\ pc = "drain_wait"
    /\ UNCHANGED <<phase, ready_tasks, polls, awaited, waiting_submissions>>
    /\ Connected' <=> Connected
    /\ op' = Arrived(op) /\ cq' = <<>>
    /\ Sends(ToSet(WakeAll(cq)))

SqFits == Cardinality(InSq) <= SqSize

LEMMA SendsWakes ==
    ASSUME rx \in Seq(Messages), cq \in Seq(Ops), SendOwn(WakeAll(cq))
    PROVE  Sends(ToSet(WakeAll(cq)))
<1>1. WakeAll(cq) \in Seq(Wakes)
  BY WakeAllIs
<1>2. Wakes \subseteq Messages /\ Wakes \cap Unique = {}
  BY WorkerAssumption, MessageTypes DEF Wakes
<1>3. WakeAll(cq) \in Seq(Messages)
  BY <1>1, <1>2
<1>4. Once(WakeAll(cq), Unique)
  BY <1>1, <1>2 DEF Once
<1>5. QED
  BY <1>3, <1>4, SendOwnAdds

LEMMA StillIsChatter ==
    ASSUME rx \in Seq(Messages), UNCHANGED queues, UNCHANGED rx, Connected' => Connected
    PROVE  Chatter
<1>1. Sends({})
  BY NoMessage
<1>2. QED
  BY <1>1 DEF Chatter

LEMMA TakenIsChatter ==
    ASSUME rx \in Seq(Messages), UNCHANGED queues, NEW m \in {Shutdown, Kill, Repair}, Received(m),
           Connected' => Connected
    PROVE  Chatter
<1>1. Takes(m)
  BY ReceivedTakes
<1>2. QED
  BY <1>1 DEF Chatter

LEMMA SentIsChatter ==
    ASSUME rx \in Seq(Messages), UNCHANGED queues, UNCHANGED pc,
           NEW m \in {Shutdown, Kill} \cup {Wake(t) : t \in Tasks}, Send(m)
    PROVE  Chatter
<1>1. m \in Messages
  BY MessageTypes
<1>2. Sends({m}) /\ {m} \in SUBSET ({Shutdown, Kill} \cup {Wake(t) : t \in Tasks})
  BY <1>1, SendAdds
<1>3. QED
  BY <1>2 DEF Chatter, Connected

LEMMA Effects ==
    ASSUME rx \in Seq(Messages), TaskShapes, IoShapes, Fresh, SqFits, [Next]_vars
    PROVE  \/ Chatter
           \/ \E t \in Tasks : Spawned(t) \/ Woken(t) \/ Told(t) \/ Polled(t)
           \/ \E o \in Ops : Carried(o) \/ Prepared(o)
           \/ \E n \in Nat : Completed(n)
           \/ HandedOver \/ Gathered
<1> USE DEF queues, tasks, uring, channel
<1>1. CASE Start \/ SetUp \/ Poll \/ LoopAgain
  <2>1. UNCHANGED <<queues, rx>> /\ (Connected' => Connected)
    BY <1>1 DEF Start, SetUp, Poll, LoopAgain, Connected
  <2>2. QED
    BY <2>1, StillIsChatter
<1>2. CASE SkipComplete \/ RunDone \/ BeginDrain \/ RecvDone \/ DrainEmpty
  <2>1. UNCHANGED <<queues, rx>> /\ (Connected' => Connected)
    BY <1>2 DEF SkipComplete, RunDone, BeginDrain, RecvDone, DrainEmpty, Connected
  <2>2. QED
    BY <2>1, StillIsChatter
<1>3. CASE DrainAgain \/ DrainDone \/ End \/ RaiseSignal \/ Break \/ UNCHANGED vars
  <2>1. UNCHANGED <<queues, rx>> /\ (Connected' => Connected)
    BY <1>3 DEF DrainAgain, DrainDone, End, RaiseSignal, Break, vars, Connected
  <2>2. QED
    BY <2>1, StillIsChatter
<1>4. CASE RecvShutdown \/ RecvKill \/ RecvRepair \/ DrainIgnored \/ DrainKill
  <2>1. /\ UNCHANGED queues /\ (Connected' => Connected)
        /\ \E m \in {Shutdown, Kill, Repair} : Received(m)
    BY <1>4 DEF RecvShutdown, RecvKill, RecvRepair, DrainIgnored, DrainKill, Receiving, Connected
  <2>2. QED
    BY <2>1, TakenIsChatter
<1>5. CASE Signal
  <2>1. Sends({}) /\ UNCHANGED queues /\ UNCHANGED pc
    BY <1>5, SignalAdds DEF Signal
  <2>2. QED
    BY <2>1 DEF Chatter, Connected
<1>6. CASE AskToStop("shutdown", Shutdown) \/ AskToStop("kill", Kill)
  <2>1. UNCHANGED queues /\ UNCHANGED pc /\ \E m \in {Shutdown, Kill} : Send(m)
    BY <1>6 DEF AskToStop
  <2>2. QED
    BY <2>1, SentIsChatter
<1>7. ASSUME NEW t \in Tasks, Nudge(t) PROVE Chatter
  <2>1. UNCHANGED queues /\ UNCHANGED pc /\ Send(Wake(t))
    BY <1>7 DEF Nudge
  <2>2. QED
    BY <2>1, SentIsChatter
<1>8. ASSUME NEW t \in Tasks, SpawnTask(t) PROVE Spawned(t)
  <2>1. /\ phase[t] = "new"
        /\ UNCHANGED <<pc, ready_tasks, polls, awaited, op, waiting_submissions, cq>>
    BY <1>8 DEF SpawnTask
  <2>2. CASE Send(Spawn(t)) /\ phase' = [phase EXCEPT ![t] = "sent"]
    BY <2>1, <2>2, MessageTypes, SendAdds DEF Spawned
  <2>3. CASE ~Connected /\ phase' = [phase EXCEPT ![t] = "refused"] /\ UNCHANGED channel
    BY <2>1, <2>3, NoMessage DEF Spawned
  <2>4. QED
    BY <1>8, <2>2, <2>3 DEF SpawnTask
<1>9. ASSUME NEW t \in Tasks, WakeAwaiting(t) PROVE Woken(t)
  <2>1. /\ awaited' = awaited \ {t}
        /\ UNCHANGED <<pc, phase, ready_tasks, polls, op, waiting_submissions, cq>>
    BY <1>9 DEF WakeAwaiting
  <2>2. CASE Send(Wake(t))
    BY <2>1, <2>2, MessageTypes, SendAdds DEF Woken
  <2>3. CASE ~Connected /\ UNCHANGED channel
    BY <2>1, <2>3, NoMessage DEF Woken
  <2>4. QED
    BY <1>9, <2>2, <2>3 DEF WakeAwaiting
<1>10. ASSUME NEW o \in Ops, KernelCompletes(o) \/ ForeignSubmit(o) \/ ForeignTake(o)
       PROVE  Carried(o)
  <2>1. CASE KernelCompletes(o)
    <3>1. UNCHANGED rx
      BY <2>1 DEF KernelCompletes
    <3>2. QED
      BY <2>1, <3>1, NoMessage DEF KernelCompletes, Carried
  <2>2. CASE ForeignSubmit(o)
    BY <2>2, MessageTypes, SendAdds DEF ForeignSubmit, Carried
  <2>3. CASE ForeignTake(o)
    <3>1. UNCHANGED rx
      BY <2>3 DEF ForeignTake
    <3>2. QED
      BY <2>3, <3>1, NoMessage DEF ForeignTake, Carried
  <2>4. QED
    BY <1>10, <2>1, <2>2, <2>3
<1>11. CASE RecvTask \/ DrainTask
  <2>1. /\ \E t \in Tasks : \E m \in {Spawn(t), Wake(t)} : Received(m) /\ ToExecutor(m)
        /\ UNCHANGED <<pc, op, waiting_submissions, cq>>
    BY <1>11 DEF RecvTask, DrainTask
  <2>2. PICK t \in Tasks : \E m \in {Spawn(t), Wake(t)} : Received(m) /\ ToExecutor(m)
    BY <2>1
  <2>3. /\ Spawn(t)[1] = "SpawnTask" /\ Spawn(t)[2] = t
        /\ Wake(t)[1] = "WakeTask" /\ Wake(t)[2] = t
    BY DEF Spawn, Wake
  <2>4. CASE Received(Spawn(t)) /\ ToExecutor(Spawn(t))
    <3>1. Takes(Spawn(t))
      BY <2>4, ReceivedTakes
    <3>2. MakeReady(t) /\ UNCHANGED <<polls, awaited>>
      BY <2>3, <2>4 DEF ToExecutor
    <3>3. QED
      BY <2>1, <3>1, <3>2 DEF Told
  <2>5. CASE Received(Wake(t)) /\ ToExecutor(Wake(t))
    <3>1. Takes(Wake(t))
      BY <2>5, ReceivedTakes
    <3>2. /\ \/ phase[t] = "running" /\ MakeReady(t)
             \/ phase[t] # "running" /\ UNCHANGED <<phase, ready_tasks>>
          /\ UNCHANGED <<polls, awaited>>
      BY <2>3, <2>5 DEF ToExecutor
    <3>3. QED
      BY <2>1, <3>1, <3>2 DEF Told
  <2>6. QED
    BY <2>2, <2>4, <2>5
<1>12. CASE RecvSubmit \/ DrainSubmission
  <2>1. /\ UNCHANGED <<pc, phase, ready_tasks, polls, awaited, cq>>
        /\ \E o \in Ops : Received(Submit(o)) /\ Prepare(o)
    BY <1>12 DEF RecvSubmit, DrainSubmission
  <2>2. QED
    BY <2>1, ReceivedTakes DEF Prepared
<1>13. CASE Complete
  BY <1>13, CompleteHas, SendsWakes DEF Completed, CompleteEffect, IoShapes, SqFits
<1>14. CASE SubmitIo
  <2>1. /\ UNCHANGED <<phase, ready_tasks, polls, awaited, waiting_submissions, cq, rx>>
        /\ pc = "submit" /\ pc' = "run"
        /\ op' = op \/ op' = Submitted(op)
    BY <1>14 DEF SubmitIo
  <2>2. QED
    BY <2>1, NoMessage DEF HandedOver, Connected
<1>15. CASE BlockingSubmit
  <2>1. /\ UNCHANGED <<phase, ready_tasks, polls, awaited, waiting_submissions, cq, rx>>
        /\ pc = "drain_submit" /\ pc' = "drain_wait"
        /\ op' = Submitted(op)
    BY <1>15 DEF BlockingSubmit
  <2>2. QED
    BY <2>1, NoMessage DEF HandedOver, Connected
<1>16. CASE BlockingSubmitReturns
  <2>1. /\ UNCHANGED <<phase, ready_tasks, polls, awaited, waiting_submissions>>
        /\ pc = "drain_wait" /\ pc' = "drain_run"
        /\ op' = Arrived(op) /\ cq' = <<>> /\ SendOwn(WakeAll(cq))
    BY <1>16 DEF BlockingSubmitReturns
  <2>2. QED
    BY <2>1, SendsWakes DEF Gathered, Connected, IoShapes
<1>17. CASE RunTask
  BY <1>17, RunTaskPolls
<1>18. QED
  BY <1>1, <1>2, <1>3, <1>4, <1>5, <1>6, <1>7, <1>8, <1>9, <1>10, <1>11, <1>12, <1>13,
     <1>14, <1>15, <1>16, <1>17 DEF Next, Thread

-----------------------------------------------------------------------------
(* The queues and the places agree: a message is there for a task or an    *)
(* operation that was sent, once; the ready tasks, the backup queue and    *)
(* the completions are those of the tasks and operations in these places.  *)

ChannelInv ==
    /\ Once(rx, Unique)
    /\ \A t \in Tasks : Spawn(t) \in ToSet(rx) => phase[t] = "sent"
    /\ \A t \in Tasks : Connected /\ phase[t] = "sent" => Spawn(t) \in ToSet(rx)
    /\ \A o \in Ops : Submit(o) \in ToSet(rx) => op[o] = "sent"

ReadyInv ==
    /\ Once(ready_tasks, Tasks)
    /\ ToSet(ready_tasks) = {t \in Tasks : phase[t] = "ready"}

BackupInv ==
    /\ Once(waiting_submissions, Ops)
    /\ ToSet(waiting_submissions) = {o \in Ops : op[o] = "backup"}

CqInv == ToSet(cq) = {o \in Ops : op[o] = "cq"}

QInv ==
    /\ rx \in Seq(Messages) /\ TaskShapes /\ IoShapes
    /\ ChannelInv /\ ReadyInv /\ BackupInv /\ CqInv /\ Fresh /\ SqFits

LEMMA PolledIs ==
    ASSUME QInv, NEW t \in Tasks, Polled(t)
    PROVE  phase[t] = "ready" /\ \E p \in {"running", "done"} : phase' = [phase EXCEPT ![t] = p]
<1>1. t \in ToSet(ready_tasks)
  BY TailElements DEF Polled, QInv, TaskShapes
<1>2. phase[t] = "ready"
  BY <1>1 DEF QInv, ReadyInv
<1>3. QED
  BY <1>2 DEF Polled, PolledOn, Pending

(* Which operations the poll of a task submits, and what it makes of them. *)
Submits(t, new) ==
    /\ new \subseteq Ops
    /\ \A o \in new : op[o] = "none"
    /\ \/ op' = op /\ new = {}
       \/ op' = [o \in Ops |-> IF o \in new THEN "sent"
                               ELSE IF o = Current(t) /\ op[o] = "arrived" THEN "gone"
                               ELSE op[o]]
    /\ new \cap OwnOps \subseteq {Next1(t)}
    /\ new \cap OwnOps # {} => polls[t] > 0 /\ polls' = [polls EXCEPT ![t] = @ - 1]
    /\ \E wakes \in SUBSET {Wake(t)} : Sends({Submit(o) : o \in new} \cup wakes)

LEMMA PolledSubmits ==
    ASSUME QInv, NEW t \in Tasks, Polled(t)
    PROVE  \E new : Submits(t, new)
<1>1. CASE UNCHANGED <<rx, op>>
  <2>1. Sends({})
    BY <1>1, NoMessage DEF QInv
  <2>2. {Submit(o) : o \in {}} \cup {} = {}
    OBVIOUS
  <2>3. QED
    BY <1>1, <2>1, <2>2 DEF Submits
<1>2. ASSUME NEW own \in SUBSET OwnOps, NEW wakes \in SUBSET {Wake(t)}, NEW cs, Leaves(t, own, cs, wakes),
             own \subseteq {Next1(t)},
             own # {} => polls[t] > 0 /\ polls' = [polls EXCEPT ![t] = @ - 1]
      PROVE  \E new : Submits(t, new)
  <2> DEFINE new == own \cup cs
  <2>1. cs \subseteq Cancels /\ Cancels \subseteq Ops /\ OwnOps \subseteq Ops
        /\ Cancels \cap OwnOps = {}
    BY <1>2, WorkerAssumption DEF Leaves, Ops
  <2>2. new \in SUBSET Ops /\ new \cap OwnOps \subseteq own
    BY <2>1
  <2>3. /\ \A o \in new : op[o] = "none"
        /\ op' = [o \in Ops |-> IF o \in new THEN "sent"
                       ELSE IF o = Current(t) /\ op[o] = "arrived" THEN "gone"
                       ELSE op[o]]
        /\ Sends({Submit(o) : o \in new} \cup wakes)
    BY <1>2, Zenon DEF Leaves
  <2> HIDE DEF new
  <2>4. /\ new \cap OwnOps \subseteq {Next1(t)}
        /\ new \cap OwnOps # {} => polls[t] > 0 /\ polls' = [polls EXCEPT ![t] = @ - 1]
    BY <1>2, <2>2
  <2>5. QED
    BY <2>2, <2>3, <2>4, Zenon DEF Submits
<1>3. CASE \E cs : Leaves(t, {}, cs, {}) \/ Leaves(t, {}, cs, {Wake(t)})
  <2>1. PICK cs : \E wakes \in SUBSET {Wake(t)} : Leaves(t, {}, cs, wakes)
    BY <1>3
  <2>2. QED
    BY <2>1, <1>2
<1>4. CASE PolledOn(t) /\ Next1(t) \in OwnOps /\ \E cs : Leaves(t, {Next1(t)}, cs, {})
  <2>1. PICK cs : Leaves(t, {Next1(t)}, cs, {})
    BY <1>4
  <2>2. polls[t] > 0 /\ polls' = [polls EXCEPT ![t] = @ - 1]
    BY <1>4 DEF PolledOn
  <2>3. {Next1(t)} \in SUBSET OwnOps /\ {} \in SUBSET {Wake(t)}
    BY <1>4
  <2>4. QED
    BY <2>1, <2>2, <2>3, <1>2
<1>5. QED
  BY <1>1, <1>3, <1>4 DEF Polled, PolledOn

LEMMA PlacesAfter ==
    ASSUME NEW o \in Ops
    PROVE  /\ Arrived(op)[o] = IF op[o] = "cq" THEN "arrived" ELSE op[o]
           /\ Submitted(op)[o] = IF op[o] = "sq" THEN "kernel" ELSE op[o]
BY DEF Arrived, Submitted

(* Where the operations are once the completions have been read. *)
LEMMA CompletedPlaces ==
    ASSUME QInv, NEW n, Completed(n)
    PROVE  /\ \A o \in Ops : o \in ToSet(Moves(n)) => op[o] = "backup" /\ op'[o] = "sq"
           /\ \A o \in Ops : o \notin ToSet(Moves(n))
                   => op'[o] = IF op[o] = "cq" THEN "arrived" ELSE op[o]
           /\ \A o \in Ops : o \in ToSet(Moves(n)) => o \notin ToSet(Stays(n))
           /\ ToSet(waiting_submissions') = ToSet(Stays(n))
           /\ ToSet(Moves(n)) \cup ToSet(Stays(n)) = ToSet(waiting_submissions)
           /\ Once(waiting_submissions', Ops)
<1>1. /\ op' = [o \in Ops |-> IF o \in ToSet(Moves(n)) THEN "sq" ELSE Arrived(op)[o]]
      /\ waiting_submissions' = Turned(Stays(n))
      /\ n \in 0 .. Len(waiting_submissions)
  BY DEF Completed, CompleteEffect
<1>2. /\ Stays(n) \in Seq(Ops)
      /\ ToSet(Moves(n)) \cup ToSet(Stays(n)) = ToSet(waiting_submissions)
      /\ Once(Stays(n), Ops) /\ ToSet(Moves(n)) \cap ToSet(Stays(n)) \cap Ops = {}
  BY <1>1, SplitBackup DEF QInv, BackupInv
<1>3. /\ ToSet(waiting_submissions') = ToSet(Stays(n))
      /\ Once(waiting_submissions', Ops)
  BY <1>1, <1>2, TurnedIs
<1>4. ASSUME NEW o \in Ops, o \in ToSet(Moves(n)) PROVE op[o] = "backup" /\ op'[o] = "sq"
  BY <1>1, <1>2, <1>4 DEF QInv, BackupInv
<1>5. ASSUME NEW o \in Ops, o \notin ToSet(Moves(n))
      PROVE  op'[o] = IF op[o] = "cq" THEN "arrived" ELSE op[o]
  <2>1. op'[o] = Arrived(op)[o]
    BY <1>1, <1>5
  <2>2. QED
    BY <2>1, PlacesAfter
<1>6. QED
  BY <1>2, <1>3, <1>4, <1>5

LEMMA StepChannel ==
    ASSUME QInv, [Next]_vars
    PROVE  ChannelInv'
<1> USE DEF QInv
<1>0. /\ phase \in [Tasks -> Phases] /\ op \in [Ops -> Places]
  BY DEF TaskShapes, IoShapes
<1>1. CASE Chatter
  <2>1. /\ UNCHANGED <<phase, op>> /\ (Connected' => Connected)
    BY <1>1 DEF Chatter, queues
  <2>2. ASSUME NEW N \in SUBSET ({Shutdown, Kill} \cup {Wake(t) : t \in Tasks}), Sends(N)
        PROVE  ChannelInv'
    <3>1. N \cap Unique = {}
      BY MessageTypes
    <3>2. \A t \in Tasks : Spawn(t) \in ToSet(rx') <=> Spawn(t) \in ToSet(rx)
      BY <2>2, <3>1, MessageTypes, MessagesDiffer DEF Sends
    <3>3. \A o \in Ops : Submit(o) \in ToSet(rx') <=> Submit(o) \in ToSet(rx)
      BY <2>2, <3>1, MessageTypes, MessagesDiffer DEF Sends
    <3>4. Once(rx', Unique)
      BY <2>2, <3>1 DEF Sends, ChannelInv
    <3>5. QED
      BY <2>1, <3>2, <3>3, <3>4 DEF ChannelInv
  <2>3. ASSUME NEW m \in {Shutdown, Kill, Repair}, Takes(m) PROVE ChannelInv'
    <3>1. \A t \in Tasks : Spawn(t) \in ToSet(rx') <=> Spawn(t) \in ToSet(rx)
      BY <2>3, MessagesDiffer DEF Takes
    <3>2. \A o \in Ops : Submit(o) \in ToSet(rx') <=> Submit(o) \in ToSet(rx)
      BY <2>3, MessagesDiffer DEF Takes
    <3>3. Once(rx', Unique)
      BY <2>3 DEF Takes, ChannelInv
    <3>4. QED
      BY <2>1, <3>1, <3>2, <3>3 DEF ChannelInv
  <2>4. QED
    BY <1>1, <2>2, <2>3 DEF Chatter
<1>2. ASSUME NEW t \in Tasks, Spawned(t) PROVE ChannelInv'
  <2>1. phase[t] = "new" /\ UNCHANGED <<pc, op>>
    BY <1>2 DEF Spawned
  <2>2. Spawn(t) \notin ToSet(rx) /\ (Connected' <=> Connected)
    BY <2>1 DEF ChannelInv, Connected
  <2>3. CASE phase' = [phase EXCEPT ![t] = "sent"] /\ Sends({Spawn(t)})
    <3>1. Once(rx', Unique)
      BY <2>2, <2>3 DEF Sends, ChannelInv
    <3>2. /\ \A u \in Tasks : Spawn(u) \in ToSet(rx') <=> Spawn(u) \in ToSet(rx) \/ u = t
          /\ \A o \in Ops : Submit(o) \in ToSet(rx') <=> Submit(o) \in ToSet(rx)
      BY <2>3, MessagesDiffer DEF Sends
    <3>3. phase'[t] = "sent" /\ \A u \in Tasks : u # t => phase'[u] = phase[u]
      BY <1>0, <2>3
    <3>4. QED
      BY <2>1, <2>2, <3>1, <3>2, <3>3 DEF ChannelInv
  <2>4. CASE ~Connected /\ phase' = [phase EXCEPT ![t] = "refused"] /\ Sends({})
    <3>1. Once(rx', Unique)
      BY <2>4 DEF Sends, ChannelInv
    <3>2. /\ \A u \in Tasks : Spawn(u) \in ToSet(rx') <=> Spawn(u) \in ToSet(rx)
          /\ \A o \in Ops : Submit(o) \in ToSet(rx') <=> Submit(o) \in ToSet(rx)
      BY <2>4, MessagesDiffer DEF Sends
    <3>3. \A u \in Tasks : u # t => phase'[u] = phase[u]
      BY <1>0, <2>4
    <3>4. QED
      BY <2>1, <2>2, <2>4, <3>1, <3>2, <3>3 DEF ChannelInv
  <2>5. QED
    BY <1>2, <2>3, <2>4 DEF Spawned
<1>3. ASSUME Sends({}) \/ Sends(ToSet(WakeAll(cq))) \/ \E t \in Tasks : Sends({Wake(t)})
      PROVE  /\ Once(rx', Unique)
             /\ \A u \in Tasks : Spawn(u) \in ToSet(rx') <=> Spawn(u) \in ToSet(rx)
             /\ \A o \in Ops : Submit(o) \in ToSet(rx') <=> Submit(o) \in ToSet(rx)
  <2>1. PICK N \in SUBSET {Wake(t) : t \in Tasks} : Sends(N)
    <3>1. ToSet(WakeAll(cq)) \subseteq Wakes
      BY WakeAllIs, ElementsIn DEF IoShapes
    <3>2. Wakes \subseteq {Wake(t) : t \in Tasks}
      BY WorkerAssumption DEF Wakes
    <3>3. QED
      BY <1>3, <3>1, <3>2
  <2>2. N \cap Unique = {}
    BY MessageTypes
  <2>3. QED
    BY <2>1, <2>2, MessagesDiffer, MessageTypes DEF Sends, ChannelInv
<1>4. ASSUME NEW t \in Tasks, Woken(t) PROVE ChannelInv'
  <2>1. UNCHANGED <<pc, phase, op>> /\ (Sends({Wake(t)}) \/ Sends({}))
    BY <1>4 DEF Woken
  <2>2. QED
    BY <1>3, <2>1 DEF ChannelInv, Connected
<1>5. ASSUME NEW t \in Tasks, Told(t) PROVE ChannelInv'
  <2>1. UNCHANGED <<pc, op>>
    BY <1>5 DEF Told
  <2>2. CASE Takes(Spawn(t)) /\ MakeReady(t)
    <3>1. /\ Once(rx', Unique)
          /\ \A u \in Tasks : Spawn(u) \in ToSet(rx') <=> Spawn(u) \in ToSet(rx) /\ u # t
          /\ \A o \in Ops : Submit(o) \in ToSet(rx') <=> Submit(o) \in ToSet(rx)
      BY <2>2, MessagesDiffer, MessageTypes DEF Takes, ChannelInv
    <3>2. phase'[t] = "ready" /\ \A u \in Tasks : u # t => phase'[u] = phase[u]
      BY <1>0, <2>2 DEF MakeReady
    <3>3. QED
      BY <2>1, <3>1, <3>2 DEF ChannelInv, Connected
  <2>3. CASE Takes(Wake(t)) /\ (UNCHANGED phase \/ (phase[t] = "running" /\ MakeReady(t)))
    <3>1. /\ Once(rx', Unique)
          /\ \A u \in Tasks : Spawn(u) \in ToSet(rx') <=> Spawn(u) \in ToSet(rx)
          /\ \A o \in Ops : Submit(o) \in ToSet(rx') <=> Submit(o) \in ToSet(rx)
      BY <2>3, MessagesDiffer, MessageTypes DEF Takes, ChannelInv
    <3>2. \A u \in Tasks : phase'[u] = "sent" <=> phase[u] = "sent"
      BY <1>0, <2>3 DEF MakeReady
    <3>3. QED
      BY <2>1, <3>1, <3>2 DEF ChannelInv, Connected
  <2>4. QED
    BY <1>5, <2>2, <2>3 DEF Told
<1>6. ASSUME NEW t \in Tasks, Polled(t) PROVE ChannelInv'
  <2>1. PICK new : Submits(t, new)
    BY <1>6, PolledSubmits
  <2>2. PICK wakes \in SUBSET {Wake(t)} : Sends({Submit(o) : o \in new} \cup wakes)
    BY <2>1 DEF Submits
  <2>3. \A o \in new : o \in Ops /\ Submit(o) \notin ToSet(rx)
    BY <2>1 DEF Submits, ChannelInv
  <2>4. ({Submit(o) : o \in new} \cup wakes) \cap ToSet(rx) \cap Unique = {}
    BY <2>3, MessageTypes
  <2>5. Once(rx', Unique)
    BY <2>2, <2>4 DEF Sends, ChannelInv
  <2>6. /\ \A u \in Tasks : Spawn(u) \in ToSet(rx') <=> Spawn(u) \in ToSet(rx)
        /\ \A o \in Ops : Submit(o) \in ToSet(rx') <=> Submit(o) \in ToSet(rx) \/ o \in new
    BY <2>2, MessagesDiffer DEF Sends
  <2>7. \A o \in Ops : o \in new \/ op[o] = "sent" => op'[o] = "sent"
    BY <2>1 DEF Submits
  <2>8. \A u \in Tasks : phase'[u] = "sent" <=> phase[u] = "sent"
    BY <1>0, <1>6, PolledIs
  <2>9. UNCHANGED pc
    BY <1>6 DEF Polled
  <2>10. QED
    BY <2>5, <2>6, <2>7, <2>8, <2>9 DEF ChannelInv, Connected
<1>7. ASSUME NEW o \in Ops, Carried(o) PROVE ChannelInv'
  <2>1. UNCHANGED <<pc, phase>>
    BY <1>7 DEF Carried
  <2>2. CASE op[o] = "none" /\ op' = [op EXCEPT ![o] = "sent"] /\ Sends({Submit(o)})
    <3>1. Submit(o) \notin ToSet(rx)
      BY <2>2 DEF ChannelInv
    <3>2. Once(rx', Unique)
      BY <2>2, <3>1 DEF Sends, ChannelInv
    <3>3. /\ \A u \in Tasks : Spawn(u) \in ToSet(rx') <=> Spawn(u) \in ToSet(rx)
          /\ \A x \in Ops : Submit(x) \in ToSet(rx') <=> Submit(x) \in ToSet(rx) \/ x = o
      BY <2>2, MessagesDiffer DEF Sends
    <3>4. QED
      BY <1>0, <2>1, <2>2, <3>2, <3>3 DEF ChannelInv, Connected
  <2>3. CASE /\ op[o] \in {"kernel", "arrived"} /\ Sends({})
             /\ \E p : op' = [op EXCEPT ![o] = p]
    <3>1. \A x \in Ops : op[x] = "sent" => op'[x] = "sent"
      BY <1>0, <2>3
    <3>2. QED
      BY <1>3, <2>1, <2>3, <3>1 DEF ChannelInv, Connected
  <2>4. QED
    BY <1>7, <2>2, <2>3 DEF Carried
<1>8. ASSUME NEW o \in Ops, Prepared(o) PROVE ChannelInv'
  <2>1. UNCHANGED <<pc, phase>> /\ Takes(Submit(o)) /\ Prepare(o)
    BY <1>8 DEF Prepared
  <2>2. /\ Once(rx', Unique)
        /\ \A u \in Tasks : Spawn(u) \in ToSet(rx') <=> Spawn(u) \in ToSet(rx)
        /\ \A x \in Ops : Submit(x) \in ToSet(rx') <=> Submit(x) \in ToSet(rx) /\ x # o
    BY <2>1, MessagesDiffer, MessageTypes DEF Takes, ChannelInv
  <2>3. \A x \in Ops : x # o => op'[x] = op[x]
    BY <1>0, <2>1 DEF Prepare
  <2>4. QED
    BY <2>1, <2>2, <2>3 DEF ChannelInv, Connected
<1>9. ASSUME NEW n, Completed(n) PROVE ChannelInv'
  <2>1. /\ UNCHANGED phase /\ (Connected' <=> Connected)
        /\ op' = [o \in Ops |-> IF o \in ToSet(Moves(n)) THEN "sq" ELSE Arrived(op)[o]]
        /\ Sends(ToSet(WakeAll(cq))) /\ n \in 0 .. Len(waiting_submissions)
    BY <1>9 DEF Completed, CompleteEffect, tasks, Connected
  <2>3. \A o \in Ops : op[o] = "sent" => op'[o] = "sent"
    BY <1>9, CompletedPlaces
  <2>4. /\ Once(rx', Unique)
        /\ \A u \in Tasks : Spawn(u) \in ToSet(rx') <=> Spawn(u) \in ToSet(rx)
        /\ \A o \in Ops : Submit(o) \in ToSet(rx') <=> Submit(o) \in ToSet(rx)
    BY <1>3, <2>1
  <2>5. QED
    BY <2>1, <2>3, <2>4 DEF ChannelInv, Connected
<1>10. CASE HandedOver \/ Gathered
  <2>1. /\ UNCHANGED phase /\ (Connected' <=> Connected)
        /\ Sends({}) \/ Sends(ToSet(WakeAll(cq)))
        /\ op' = op \/ op' = Submitted(op) \/ op' = Arrived(op)
    BY <1>10 DEF HandedOver, Gathered
  <2>2. \A o \in Ops : op[o] = "sent" => op'[o] = "sent"
    BY <2>1, PlacesAfter
  <2>3. /\ Once(rx', Unique)
        /\ \A u \in Tasks : Spawn(u) \in ToSet(rx') <=> Spawn(u) \in ToSet(rx)
        /\ \A o \in Ops : Submit(o) \in ToSet(rx') <=> Submit(o) \in ToSet(rx)
    BY <1>3, <2>1
  <2>4. QED
    BY <2>1, <2>2, <2>3 DEF ChannelInv, Connected
<1>11. QED
  BY Effects, <1>1, <1>2, <1>4, <1>5, <1>6, <1>7, <1>8, <1>9, <1>10

LEMMA StepReady ==
    ASSUME QInv, [Next]_vars
    PROVE  ReadyInv'
<1> USE DEF QInv
<1>0. /\ phase \in [Tasks -> Phases] /\ ready_tasks \in Seq(Tasks)
      /\ Once(ready_tasks, Tasks) /\ ToSet(ready_tasks) = {t \in Tasks : phase[t] = "ready"}
  BY DEF TaskShapes, ReadyInv
<1>1. CASE UNCHANGED <<phase, ready_tasks>>
  BY <1>1 DEF ReadyInv
<1>2. ASSUME NEW t \in Tasks, phase[t] # "ready", MakeReady(t) PROVE ReadyInv'
  <2>1. phase' = [phase EXCEPT ![t] = "ready"] /\ ready_tasks' = Append(ready_tasks, t)
    BY <1>2 DEF MakeReady
  <2>2. ToSet(ready_tasks') = ToSet(ready_tasks) \cup {t} /\ Once(ready_tasks', Tasks)
    BY <1>0, <1>2, <2>1, AppendElements, AppendOnce
  <2>3. {u \in Tasks : phase'[u] = "ready"} = {u \in Tasks : phase[u] = "ready"} \cup {t}
    BY <1>0, <2>1
  <2>4. QED
    BY <1>0, <2>2, <2>3 DEF ReadyInv
<1>3. ASSUME NEW t \in Tasks, phase[t] = "new", UNCHANGED ready_tasks,
             NEW p \in {"sent", "refused"}, phase' = [phase EXCEPT ![t] = p]
      PROVE  ReadyInv'
  <2>1. {u \in Tasks : phase'[u] = "ready"} = {u \in Tasks : phase[u] = "ready"}
    BY <1>0, <1>3
  <2>2. QED
    BY <1>0, <1>3, <2>1 DEF ReadyInv
<1>4. ASSUME NEW t \in Tasks, Polled(t) PROVE ReadyInv'
  <2>1. PICK p \in {"running", "done"} : phase' = [phase EXCEPT ![t] = p]
    BY <1>4, PolledIs
  <2>2. ready_tasks # <<>> /\ t = Head(ready_tasks) /\ ready_tasks' = Tail(ready_tasks)
    BY <1>4 DEF Polled
  <2>3. /\ Once(ready_tasks', Tasks) /\ t \notin ToSet(ready_tasks')
        /\ ToSet(ready_tasks) = ToSet(ready_tasks') \cup {t}
    BY <1>0, <2>2, TailElements, TailOnce
  <2>4. {u \in Tasks : phase'[u] = "ready"} = {u \in Tasks : phase[u] = "ready"} \ {t}
    BY <1>0, <2>1
  <2>5. QED
    BY <1>0, <2>3, <2>4 DEF ReadyInv
<1>5. ASSUME NEW t \in Tasks, Spawned(t) PROVE ReadyInv'
  BY <1>3, <1>5 DEF Spawned
<1>6. ASSUME NEW t \in Tasks, Told(t) PROVE ReadyInv'
  <2>1. Takes(Spawn(t)) => phase[t] # "ready"
    BY DEF ChannelInv, Takes
  <2>2. QED
    BY <1>1, <1>2, <1>6, <2>1 DEF Told
<1>7. ASSUME NEW n, Completed(n) PROVE UNCHANGED <<phase, ready_tasks>>
  BY <1>7 DEF Completed, CompleteEffect, tasks
<1>8. QED
  BY Effects, <1>1, <1>4, <1>5, <1>6, <1>7
     DEF Chatter, queues, Woken, Carried, Prepared, HandedOver, Gathered

(* A poll submits operations and takes results, nothing in between. *)
LEMMA PolledKeeps ==
    ASSUME QInv, NEW t \in Tasks, Polled(t), NEW o \in Ops
    PROVE  /\ \A p \in {"backup", "sq", "kernel", "cq"} : op'[o] = p <=> op[o] = p
           /\ UNCHANGED <<waiting_submissions, cq>>
<1>1. PICK new : Submits(t, new)
  BY PolledSubmits
<1>2. CASE op' = op
  BY <1>2 DEF Polled
<1>3. CASE op' = [x \in Ops |-> IF x \in new THEN "sent"
                               ELSE IF x = Current(t) /\ op[x] = "arrived" THEN "gone"
                               ELSE op[x]]
  <2>1. o \in new => op[o] = "none"
    BY <1>1 DEF Submits
  <2>2. QED
    BY <1>3, <2>1 DEF Polled
<1>4. QED
  BY <1>1, <1>2, <1>3 DEF Submits

LEMMA PreparedIs ==
    ASSUME QInv, NEW o \in Ops, Prepared(o)
    PROVE  /\ op[o] = "sent" /\ UNCHANGED cq
           /\ \A x \in Ops : x # o => op'[x] = op[x]
           /\ \/ op'[o] = "sq" /\ UNCHANGED waiting_submissions /\ Cardinality(InSq) < SqSize
              \/ op'[o] = "backup" /\ waiting_submissions' = Append(waiting_submissions, o)
                 /\ Cardinality(InSq) >= SqSize
BY DEF Prepared, Prepare, Takes, QInv, ChannelInv, IoShapes

LEMMA CarriedIs ==
    ASSUME QInv, NEW o \in Ops, Carried(o)
    PROVE  /\ UNCHANGED waiting_submissions
           /\ \A x \in Ops : x # o => op'[x] = op[x]
           /\ \/ op[o] = "kernel" /\ op'[o] = "cq" /\ cq' = Append(cq, o)
              \/ op[o] = "none" /\ op'[o] = "sent" /\ UNCHANGED cq
              \/ op[o] = "arrived" /\ op'[o] = "gone" /\ UNCHANGED cq
BY DEF Carried, QInv, IoShapes

LEMMA StepBackup ==
    ASSUME QInv, [Next]_vars
    PROVE  BackupInv'
<1>0. /\ op \in [Ops -> Places] /\ waiting_submissions \in Seq(Ops)
      /\ Once(waiting_submissions, Ops) /\ ToSet(waiting_submissions) = {o \in Ops : op[o] = "backup"}
  BY DEF QInv, IoShapes, BackupInv
<1>1. ASSUME UNCHANGED waiting_submissions, \A o \in Ops : op'[o] = "backup" <=> op[o] = "backup"
      PROVE  BackupInv'
  BY <1>0, <1>1 DEF BackupInv
<1>2. ASSUME NEW t \in Tasks, Polled(t) PROVE BackupInv'
  BY <1>1, <1>2, PolledKeeps DEF Polled
<1>3. ASSUME NEW o \in Ops, Carried(o) PROVE BackupInv'
  BY <1>1, <1>3, CarriedIs
<1>4. ASSUME NEW o \in Ops, Prepared(o) PROVE BackupInv'
  <2>1. CASE op'[o] = "sq" /\ UNCHANGED waiting_submissions
    BY <1>1, <1>4, <2>1, PreparedIs
  <2>2. CASE op'[o] = "backup" /\ waiting_submissions' = Append(waiting_submissions, o)
    <3>1. o \notin ToSet(waiting_submissions)
      BY <1>0, <1>4, PreparedIs
    <3>2. /\ ToSet(waiting_submissions') = ToSet(waiting_submissions) \cup {o}
          /\ Once(waiting_submissions', Ops)
      BY <1>0, <2>2, <3>1, AppendElements, AppendOnce
    <3>3. {x \in Ops : op'[x] = "backup"} = {x \in Ops : op[x] = "backup"} \cup {o}
      BY <1>4, <2>2, PreparedIs
    <3>4. QED
      BY <1>0, <3>2, <3>3 DEF BackupInv
  <2>3. QED
    BY <1>4, <2>1, <2>2, PreparedIs
<1>5. ASSUME NEW n, Completed(n) PROVE BackupInv'
  <2>1. {x \in Ops : op'[x] = "backup"} = ToSet(Stays(n))
    <3>1. /\ \A o \in Ops : o \in ToSet(Moves(n)) => op[o] = "backup" /\ op'[o] = "sq"
          /\ \A o \in Ops : o \notin ToSet(Moves(n))
                   => op'[o] = IF op[o] = "cq" THEN "arrived" ELSE op[o]
          /\ \A o \in Ops : o \in ToSet(Moves(n)) => o \notin ToSet(Stays(n))
          /\ ToSet(Moves(n)) \cup ToSet(Stays(n)) = ToSet(waiting_submissions)
      BY <1>5, CompletedPlaces
    <3>2. QED
      BY <1>0, <3>1
  <2>2. QED
    BY <1>5, <2>1, CompletedPlaces DEF BackupInv
<1>6. CASE HandedOver \/ Gathered
  <2>1. /\ UNCHANGED waiting_submissions
        /\ op' = op \/ op' = Submitted(op) \/ op' = Arrived(op)
    BY <1>6 DEF HandedOver, Gathered
  <2>2. \A o \in Ops : op'[o] = "backup" <=> op[o] = "backup"
    BY <2>1, PlacesAfter
  <2>3. QED
    BY <1>1, <2>1, <2>2
<1>7. CASE UNCHANGED <<op, waiting_submissions>>
  BY <1>1, <1>7
<1>8. QED
  BY Effects, <1>2, <1>3, <1>4, <1>5, <1>6, <1>7
     DEF Chatter, queues, Spawned, Woken, Told, QInv

LEMMA StepCq ==
    ASSUME QInv, [Next]_vars
    PROVE  CqInv'
<1>0. cq \in Seq(Ops) /\ ToSet(cq) = {o \in Ops : op[o] = "cq"}
  BY DEF QInv, IoShapes, CqInv
<1>1. ASSUME UNCHANGED cq, \A o \in Ops : op'[o] = "cq" <=> op[o] = "cq"
      PROVE  CqInv'
  BY <1>0, <1>1 DEF CqInv
<1>2. ASSUME cq' = <<>>, \A o \in Ops : op'[o] # "cq"
      PROVE  CqInv'
  <2>1. ToSet(<<>>) = {}
    BY EmptySequence
  <2>2. QED
    BY <1>2, <2>1 DEF CqInv
<1>3. ASSUME NEW t \in Tasks, Polled(t) PROVE CqInv'
  BY <1>1, <1>3, PolledKeeps DEF Polled
<1>4. ASSUME NEW o \in Ops, Carried(o) PROVE CqInv'
  <2>1. CASE op'[o] = "cq" /\ cq' = Append(cq, o)
    <3>1. ToSet(cq') = ToSet(cq) \cup {o}
      BY <1>0, <2>1, AppendElements
    <3>2. {x \in Ops : op'[x] = "cq"} = {x \in Ops : op[x] = "cq"} \cup {o}
      BY <1>4, <2>1, CarriedIs
    <3>3. QED
      BY <1>0, <3>1, <3>2 DEF CqInv
  <2>2. CASE UNCHANGED cq
    BY <1>1, <1>4, <2>2, CarriedIs
  <2>3. QED
    BY <1>4, <2>1, <2>2, CarriedIs
<1>5. ASSUME NEW o \in Ops, Prepared(o) PROVE CqInv'
  BY <1>1, <1>5, PreparedIs
<1>6. ASSUME NEW n, Completed(n) PROVE CqInv'
  <2>1. cq' = <<>>
    BY <1>6 DEF Completed, CompleteEffect
  <2>2. \A o \in Ops : op'[o] # "cq"
    BY <1>6, CompletedPlaces
  <2>3. QED
    BY <1>2, <2>1, <2>2
<1>7. CASE HandedOver
  <2>1. \A o \in Ops : op'[o] = "cq" <=> op[o] = "cq"
    BY <1>7, PlacesAfter DEF HandedOver
  <2>2. QED
    BY <1>1, <1>7, <2>1 DEF HandedOver
<1>8. CASE Gathered
  <2>1. \A o \in Ops : op'[o] # "cq"
    BY <1>8, PlacesAfter DEF Gathered
  <2>2. QED
    BY <1>2, <1>8, <2>1 DEF Gathered
<1>9. CASE UNCHANGED <<op, cq>>
  BY <1>1, <1>9
<1>10. QED
  BY Effects, <1>3, <1>4, <1>5, <1>6, <1>7, <1>8, <1>9
     DEF Chatter, queues, Spawned, Woken, Told, QInv

(* Only a poll uses up an operation of its task; nobody else makes one of  *)
(* another task's awaits.                                                  *)
LEMMA StepFresh ==
    ASSUME QInv, [Next]_vars
    PROVE  Fresh'
<1>0. /\ polls \in [Tasks -> 0 .. MaxPolls] /\ IoTasks \subseteq Tasks /\ MaxPolls \in Nat
      /\ \A t \in IoTasks : \A k \in 0 .. MaxPolls :
            <<t, k>> \in OwnOps /\ <<t, k>> \in Ops /\ <<t, k>> \notin Foreign \cup Cancels
      /\ \A t \in IoTasks : \A k \in 0 .. MaxPolls : k < polls[t] => op[<<t, k>>] = "none"
  BY WorkerAssumption DEF QInv, TaskShapes, Fresh, OwnOps, Ops
<1>1. ASSUME UNCHANGED polls, \A o \in OwnOps : op[o] = "none" => op'[o] = "none"
      PROVE  Fresh'
  BY <1>0, <1>1 DEF Fresh
<1>2. ASSUME NEW t \in Tasks, Polled(t) PROVE Fresh'
  <2>1. PICK new : Submits(t, new)
    BY <1>2, PolledSubmits DEF QInv
  <2>2. \A u \in Tasks : polls'[u] \in 0 .. MaxPolls /\ polls'[u] <= polls[u]
    <3>1. \/ UNCHANGED polls
          \/ polls[t] > 0 /\ polls' = [polls EXCEPT ![t] = @ - 1]
      BY <1>2 DEF Polled, PolledOn
    <3>2. QED
      BY <1>0, <3>1
  <2>3. \A o \in Ops : o \notin new /\ op[o] = "none" => op'[o] = "none"
    <3>1. \/ op' = op
          \/ op' = [o \in Ops |-> IF o \in new THEN "sent"
                               ELSE IF o = Current(t) /\ op[o] = "arrived" THEN "gone"
                               ELSE op[o]]
      BY <2>1 DEF Submits
    <3>2. QED
      BY <3>1
  <2>4. ASSUME NEW u \in IoTasks, NEW k \in 0 .. MaxPolls, k < polls'[u]
        PROVE  op'[<<u, k>>] = "none"
    <3>1. k < polls[u] /\ op[<<u, k>>] = "none"
      <4>1. polls[u] \in 0 .. MaxPolls /\ polls'[u] \in 0 .. MaxPolls /\ polls'[u] <= polls[u]
        BY <1>0, <2>2
      <4>2. k < polls[u]
        BY <2>4, <4>1, <1>0
      <4>3. QED
        BY <1>0, <4>2
    <3>2. <<u, k>> \notin new
      <4> SUFFICES ASSUME <<u, k>> \in new PROVE FALSE
        OBVIOUS
      <4>1. <<u, k>> = Next1(t) /\ polls' = [polls EXCEPT ![t] = @ - 1]
        BY <1>0, <2>1 DEF Submits
      <4>2. u = t /\ k = polls[t] - 1
        BY <4>1 DEF Next1
      <4>3. polls'[u] = polls[t] - 1
        BY <1>0, <4>1, <4>2
      <4>4. QED
        BY <1>0, <2>4, <4>2, <4>3
    <3>3. QED
      BY <1>0, <2>3, <3>1, <3>2
  <2>5. QED
    BY <2>4 DEF Fresh
<1>3. ASSUME NEW o \in Ops, Carried(o) PROVE Fresh'
  <2>1. UNCHANGED polls
    BY <1>3 DEF Carried
  <2>2. CASE op[o] = "none"
    <3>1. o \notin OwnOps
      BY <1>3, <2>2, WorkerAssumption DEF Carried
    <3>2. QED
      BY <1>1, <1>3, <2>1, <3>1, CarriedIs DEF Ops
  <2>3. CASE op[o] # "none"
    BY <1>1, <1>3, <2>1, <2>3, CarriedIs DEF Ops
  <2>4. QED
    BY <2>2, <2>3
<1>4. ASSUME NEW o \in Ops, Prepared(o) PROVE Fresh'
  <2>1. UNCHANGED polls
    BY <1>4 DEF Prepared
  <2>2. QED
    BY <1>1, <1>4, <2>1, PreparedIs DEF Ops
<1>5. ASSUME NEW n, Completed(n) PROVE Fresh'
  <2>1. UNCHANGED polls
    BY <1>5 DEF Completed, CompleteEffect, tasks
  <2>2. \A o \in Ops : op[o] = "none" => op'[o] = "none"
    BY <1>5, CompletedPlaces
  <2>3. QED
    BY <1>1, <2>1, <2>2 DEF Ops
<1>6. CASE HandedOver \/ Gathered
  <2>1. UNCHANGED polls /\ (op' = op \/ op' = Submitted(op) \/ op' = Arrived(op))
    BY <1>6 DEF HandedOver, Gathered
  <2>2. \A o \in Ops : op[o] = "none" => op'[o] = "none"
    BY <2>1, PlacesAfter
  <2>3. QED
    BY <1>1, <2>1, <2>2 DEF Ops
<1>7. CASE UNCHANGED <<op, polls>>
  BY <1>1, <1>7
<1>8. QED
  BY Effects, <1>2, <1>3, <1>4, <1>5, <1>6, <1>7
     DEF Chatter, queues, Spawned, Woken, Told, QInv

(* The submission queue is never overfull. *)
LEMMA StepSqFits ==
    ASSUME QInv, [Next]_vars
    PROVE  SqFits'
<1>0. /\ SqSize \in Nat /\ Cardinality(InSq) \in Nat /\ Cardinality(InSq) <= SqSize
      /\ IsFiniteSet(InSq)
  BY SqRoom, OpsAreFinite DEF QInv, SqFits, InSq
<1>1. ASSUME \A o \in Ops : op'[o] = "sq" => op[o] = "sq" PROVE SqFits'
  <2>1. InSq' \subseteq InSq
    BY <1>1 DEF InSq
  <2>2. Cardinality(InSq') <= Cardinality(InSq) /\ Cardinality(InSq') \in Nat
    BY <1>0, <2>1, FS_Subset, FS_CardinalityType
  <2>3. QED
    BY <1>0, <2>2 DEF SqFits
<1>2. ASSUME NEW t \in Tasks, Polled(t) PROVE SqFits'
  BY <1>1, <1>2, PolledKeeps
<1>3. ASSUME NEW o \in Ops, Carried(o) PROVE SqFits'
  BY <1>1, <1>3, CarriedIs
<1>4. ASSUME NEW o \in Ops, Prepared(o) PROVE SqFits'
  <2>1. CASE op'[o] = "sq" /\ Cardinality(InSq) < SqSize
    <3>1. o \notin InSq /\ InSq' = InSq \cup {o}
      BY <1>4, <2>1, PreparedIs DEF InSq
    <3>2. Cardinality(InSq') = Cardinality(InSq) + 1
      BY <1>0, <3>1, FS_AddElement
    <3>3. QED
      BY <1>0, <2>1, <3>2 DEF SqFits
  <2>2. CASE op'[o] = "backup"
    BY <1>1, <1>4, <2>2, PreparedIs
  <2>3. QED
    BY <1>4, <2>1, <2>2, PreparedIs
<1>5. ASSUME NEW n, Completed(n) PROVE SqFits'
  <2>1. n \in 0 .. Len(waiting_submissions) /\ n <= SqSize - Cardinality(InSq) /\ n \in Nat
    BY <1>5 DEF Completed, CompleteEffect
  <2>2. Moves(n) \in Seq(Ops) /\ Len(Moves(n)) = n
    BY <2>1, SplitBackup DEF QInv
  <2>3. /\ IsFiniteSet(ToSet(Moves(n))) /\ Cardinality(ToSet(Moves(n))) <= n
        /\ Cardinality(ToSet(Moves(n))) \in Nat /\ ToSet(Moves(n)) \subseteq Ops
    BY <2>2, ElementsAreFew, ElementsIn, OpsAreFinite
  <2>4. InSq' = InSq \cup ToSet(Moves(n))
    BY <1>5, <2>3, CompletedPlaces DEF InSq
  <2>5. InSq \cap ToSet(Moves(n)) = {}
    BY <1>5, CompletedPlaces DEF InSq
  <2>6. Cardinality(InSq') = Cardinality(InSq) + Cardinality(ToSet(Moves(n)))
    <3>1. \A S, T : IsFiniteSet(S) /\ IsFiniteSet(T) /\ S \cap T = {}
                  => Cardinality(S \cup T) = Cardinality(S) + Cardinality(T) - Cardinality({})
      BY FS_Union
    <3>2. Cardinality(InSq \cup ToSet(Moves(n)))
            = Cardinality(InSq) + Cardinality(ToSet(Moves(n))) - Cardinality({})
      BY <1>0, <2>3, <2>5, <3>1
    <3>3. QED
      BY <1>0, <2>3, <2>4, <3>2, FS_EmptySet
  <2>7. QED
    BY <1>0, <2>1, <2>3, <2>6 DEF SqFits
<1>6. CASE HandedOver \/ Gathered
  BY <1>1, <1>6, PlacesAfter DEF HandedOver, Gathered
<1>7. CASE UNCHANGED op
  BY <1>1, <1>7
<1>8. QED
  BY Effects, <1>2, <1>3, <1>4, <1>5, <1>6, <1>7
     DEF Chatter, queues, Spawned, Woken, Told, QInv

LEMMA StepRx ==
    ASSUME QInv, [Next]_vars
    PROVE  rx' \in Seq(Messages)
<1>1. ASSUME NEW t \in Tasks, Polled(t) PROVE rx' \in Seq(Messages)
  <2>1. PICK new : Submits(t, new)
    BY <1>1, PolledSubmits
  <2>2. QED
    BY <2>1 DEF Submits, Sends
<1>2. QED
  BY Effects, <1>1 DEF QInv, Chatter, Spawned, Woken, Told, Carried, Prepared, Completed,
     HandedOver, Gathered, Sends, Takes

LEMMA InitQueues == Init => QInv
<1> SUFFICES ASSUME Init PROVE QInv
  OBVIOUS
<1> USE DEF Init
<1>1. /\ rx = <<>> /\ ready_tasks = <<>> /\ waiting_submissions = <<>> /\ cq = <<>>
      /\ phase = [t \in Tasks |-> "new"] /\ op = [o \in Ops |-> "none"]
      /\ polls = [t \in Tasks |-> MaxPolls] /\ awaited = {} /\ expected = 0
  OBVIOUS
<1>2. TaskShapes
  BY <1>1, WorkerAssumption DEF TaskShapes, Phases
<1>3. IoShapes
  BY <1>1, PlacesAre DEF IoShapes
<1>4. ToSet(<<>>) = {} /\ \A U : Once(<<>>, U)
  BY EmptySequence
<1>5. rx \in Seq(Messages) /\ ChannelInv /\ ReadyInv /\ BackupInv /\ CqInv
  BY <1>1, <1>4 DEF ChannelInv, ReadyInv, BackupInv, CqInv
<1>6. Fresh
  BY <1>1 DEF Fresh, Ops, OwnOps
<1>7. SqFits
  <2>1. InSq = {}
    BY <1>1 DEF InSq
  <2>2. QED
    BY <2>1, FS_EmptySet, WorkerAssumption DEF SqFits
<1>8. QED
  BY <1>2, <1>3, <1>5, <1>6, <1>7 DEF QInv

LEMMA StepQueues == QInv /\ [Next]_vars => QInv'
<1> SUFFICES ASSUME QInv, [Next]_vars PROVE QInv'
  OBVIOUS
<1>1. TaskShapes' /\ IoShapes'
  BY StepTaskShapes, StepIoShapes DEF QInv, SqFits
<1>2. QED
  BY <1>1, StepRx, StepChannel, StepReady, StepBackup, StepCq, StepFresh, StepSqFits DEF QInv

LEMMA Queues == Spec => []QInv
BY InitQueues, StepQueues, PTL DEF Spec

-----------------------------------------------------------------------------
(* The type invariant. *)

(* Two more flags, which no announcement depends on. *)
MoreFlags == should_submit_io \in BOOLEAN /\ sigterm \in BOOLEAN

LEMMA StepMoreFlags == MoreFlags /\ [Next]_vars => MoreFlags'
<1> SUFFICES ASSUME MoreFlags, [Next]_vars PROVE MoreFlags'
  OBVIOUS
<1> USE DEF MoreFlags, should
<1>1. CASE Start \/ SetUp \/ SkipComplete \/ RecvDone \/ SubmitIo \/ RunDone \/ LoopAgain
  BY <1>1, Zenon DEF Start, SetUp, SkipComplete, RecvDone, SubmitIo, RunDone, LoopAgain
<1>2. CASE Poll \/ BeginDrain
  BY <1>2, Zenon DEF Poll, BeginDrain
<1>3. CASE Complete
  <2>1. sigterm' = sigterm
    BY <1>3, Zenon DEF Complete
  <2>2. \E n : should_submit_io' = IF n > 0 THEN TRUE ELSE FALSE
    BY <1>3, Zenon DEF Complete
  <2>3. should_submit_io' = TRUE \/ should_submit_io' = FALSE
    BY <2>2, Zenon
  <2>4. QED
    BY <2>1, <2>3, Zenon
<1>4. CASE RecvTask \/ RecvSubmit \/ RecvShutdown \/ RecvKill \/ RecvRepair
  BY <1>4, Zenon DEF RecvTask, RecvSubmit, RecvShutdown, RecvKill, RecvRepair
<1>5. CASE DrainTask \/ DrainSubmission \/ DrainIgnored \/ DrainKill \/ DrainEmpty
  BY <1>5, Zenon DEF DrainTask, DrainSubmission, DrainIgnored, DrainKill, DrainEmpty
<1>6. CASE BlockingSubmit \/ BlockingSubmitReturns \/ DrainAgain \/ DrainDone \/ End
  BY <1>6, Zenon DEF BlockingSubmit, BlockingSubmitReturns, DrainAgain, DrainDone, End
<1>7. CASE RunTask \/ Signal \/ RaiseSignal \/ Break
  BY <1>7, Zenon DEF RunTask, Signal, RaiseSignal, Break
<1>8. CASE AskToStop("shutdown", Shutdown) \/ AskToStop("kill", Kill)
  BY <1>8, Zenon DEF AskToStop
<1>9. ASSUME NEW t \in Tasks, SpawnTask(t) \/ WakeAwaiting(t) \/ Nudge(t) PROVE MoreFlags'
  BY <1>9, Zenon DEF SpawnTask, WakeAwaiting, Nudge
<1>10. ASSUME NEW o \in Ops, KernelCompletes(o) \/ ForeignSubmit(o) \/ ForeignTake(o)
       PROVE  MoreFlags'
  BY <1>10, Zenon DEF KernelCompletes, ForeignSubmit, ForeignTake
<1>11. CASE UNCHANGED vars
  BY <1>11, Zenon DEF vars
<1>12. QED
  BY <1>1, <1>2, <1>3, <1>4, <1>5, <1>6, <1>7, <1>8, <1>9, <1>10, <1>11 DEF Next, Thread

(* Every variable keeps to its type, the submission queue to its size, and *)
(* the executor's and the ring's queues to the places of the tasks and     *)
(* operations they hold.                                                   *)
THEOREM TypeCorrect == Spec => []TypeOK
<1>1. Init => MoreFlags /\ ThreadShapes
  <2>1. Init => MoreFlags
    BY DEF Init, MoreFlags
  <2>2. Init => ThreadShapes
    BY WorkerAssumption DEF Init, ThreadShapes, WorkerStates, Pcs
  <2>3. QED
    BY <2>1, <2>2
<1>2. Spec => []MoreFlags
  BY <1>1, StepMoreFlags, PTL DEF Spec
<1>3. QInv => phase \in [Tasks -> Phases]
  BY DEF QInv, TaskShapes
<1>4. Spec => []ThreadShapes
  BY <1>1, <1>3, StepThreadShapes, Queues, PTL DEF Spec
<1>5. QInv /\ IInv /\ MoreFlags /\ ThreadShapes => TypeOK
  <2> SUFFICES ASSUME QInv, IInv, MoreFlags, ThreadShapes PROVE TypeOK
    OBVIOUS
  <2>1. /\ should_recv \in BOOLEAN /\ should_complete_io \in BOOLEAN
        /\ should_submit_io \in BOOLEAN /\ signalled \in BOOLEAN /\ io_signalled \in BOOLEAN
        /\ sigterm \in BOOLEAN /\ broken \in BOOLEAN
    BY Zenon DEF IInv, Flags, MoreFlags
  <2>2. rx \in Seq(Messages) /\ unsignalled \in Nat
    BY DEF QInv, IInv
  <2>3. /\ phase \in [Tasks -> {"new", "sent", "refused", "ready", "running", "done"}]
        /\ ready_tasks \in Seq(Tasks) /\ ToSet(ready_tasks) = {t \in Tasks : phase[t] = "ready"}
        /\ polls \in [Tasks -> 0 .. MaxPolls] /\ awaited \subseteq Tasks
    BY DEF QInv, TaskShapes, ReadyInv, Phases
  <2>4. /\ op \in [Ops -> Places] /\ expected \in Nat
        /\ Cardinality({o \in Ops : op[o] = "sq"}) <= SqSize
        /\ ToSet(waiting_submissions) = {o \in Ops : op[o] = "backup"}
        /\ ToSet(cq) = {o \in Ops : op[o] = "cq"}
    BY DEF QInv, IoShapes, BackupInv, CqInv, SqFits, InSq
  <2>5. /\ state \in WorkerStates
        /\ pc \in {"new", "setup", "ending", "ended"} \cup Loop \cup Drain
        /\ asked \subseteq Stops /\ early \subseteq Tasks
        /\ told \subseteq {"SHUTDOWN", "KILL"} /\ notified \subseteq {"Shutdown", "Kill"}
        /\ budget \in [nudges : 0 .. MaxNudges, faults : 0 .. MaxFaults]
    BY DEF ThreadShapes, Pcs
  <2>6. QED
    BY <2>1, <2>2, <2>3, <2>4, <2>5, Zenon DEF TypeOK
<1>6. QED
  BY Queues, Invariance, <1>2, <1>4, <1>5, PTL

-----------------------------------------------------------------------------
(* No operation is stranded. *)

(* Who fills the submission queue makes sure that the turn hands it over. *)
SqInv == \/ \A o \in Ops : op[o] # "sq"
         \/ pc \in {"recv", "submit"} /\ should_submit_io = TRUE
         \/ Leaving

(* What waits for room is behind an operation on its way. *)
Moving == waiting_submissions # <<>> => Leaving \/ \E o \in Ops : op[o] \in {"sq", "kernel", "cq"}

LEMMA LeavingStays == Leaving /\ [Next]_vars => Leaving'
<1> SUFFICES ASSUME Leaving, [Next]_vars PROVE Leaving'
  OBVIOUS
<1> USE DEF Leaving, Drain
<1>1. CASE Start \/ SetUp \/ Poll \/ LoopAgain \/ Complete \/ SkipComplete \/ SubmitIo
  BY <1>1 DEF Start, SetUp, Poll, LoopAgain, Complete, SkipComplete, SubmitIo
<1>2. CASE RecvTask \/ RecvSubmit \/ RecvShutdown \/ RecvKill \/ RecvRepair \/ RecvDone
  BY <1>2 DEF RecvTask, RecvSubmit, RecvShutdown, RecvKill, RecvRepair, RecvDone, Receiving
<1>3. CASE RunDone \/ BeginDrain \/ RunTask \/ Signal \/ RaiseSignal \/ Break
  BY <1>3 DEF RunDone, BeginDrain, RunTask, Signal, RaiseSignal, Break
<1>4. CASE DrainTask \/ DrainSubmission \/ DrainIgnored \/ DrainKill \/ DrainEmpty
  BY <1>4 DEF DrainTask, DrainSubmission, DrainIgnored, DrainKill, DrainEmpty
<1>5. CASE BlockingSubmit \/ BlockingSubmitReturns \/ DrainAgain \/ DrainDone \/ End
  BY <1>5 DEF BlockingSubmit, BlockingSubmitReturns, DrainAgain, DrainDone, End
<1>6. CASE AskToStop("shutdown", Shutdown) \/ AskToStop("kill", Kill)
  BY <1>6 DEF AskToStop
<1>7. ASSUME NEW t \in Tasks, SpawnTask(t) \/ WakeAwaiting(t) \/ Nudge(t) PROVE Leaving'
  BY <1>7 DEF SpawnTask, WakeAwaiting, Nudge
<1>8. ASSUME NEW o \in Ops, KernelCompletes(o) \/ ForeignSubmit(o) \/ ForeignTake(o) PROVE Leaving'
  BY <1>8 DEF KernelCompletes, ForeignSubmit, ForeignTake
<1>9. CASE UNCHANGED vars
  BY <1>9 DEF vars
<1>10. QED
  BY <1>1, <1>2, <1>3, <1>4, <1>5, <1>6, <1>7, <1>8, <1>9 DEF Next, Thread

LEMMA StepSq ==
    ASSUME QInv, SqInv, [Next]_vars
    PROVE  SqInv'
<1> USE DEF uring, should
<1>1. CASE Leaving
  BY <1>1, LeavingStays DEF SqInv
<1> SUFFICES ASSUME ~Leaving PROVE SqInv'
  BY <1>1
<1>2. pc \notin Drain \cup {"ending", "ended"}
  BY DEF Leaving
<1>3. ASSUME \A o \in Ops : op'[o] = "sq" => op[o] = "sq",
             UNCHANGED <<pc, should_submit_io>>
      PROVE  SqInv'
  BY <1>2, <1>3 DEF SqInv, Leaving
<1>4. ASSUME pc \notin {"recv", "submit"}, UNCHANGED op PROVE SqInv'
  BY <1>4 DEF SqInv, Leaving
<1>5. CASE Start \/ SetUp \/ Poll \/ LoopAgain \/ SkipComplete \/ RunDone \/ BeginDrain
  <2>1. pc \notin {"recv", "submit"} /\ UNCHANGED op
    BY <1>5 DEF Start, SetUp, Poll, LoopAgain, SkipComplete, RunDone, BeginDrain
  <2>2. QED
    BY <1>4, <2>1
<1>6. CASE Complete
  <2>1. PICK n \in Nat : CompleteEffect(n)
    BY <1>6, CompleteHas DEF QInv, SqFits
  <2>2. pc = "complete" /\ pc' = "recv"
    BY <2>1 DEF CompleteEffect
  <2>3. CASE n > 0
    <3>1. should_submit_io' = TRUE
      BY <2>1, <2>3, Zenon DEF CompleteEffect
    <3>2. QED
      BY <2>2, <3>1 DEF SqInv
  <2>4. CASE n = 0
    <3>1. Completed(n)
      BY <2>1, SendsWakes DEF Completed, CompleteEffect, QInv, IoShapes
    <3>2. Moves(n) \in Seq(Ops) /\ Len(Moves(n)) = 0
      BY <2>1, <2>4, SplitBackup DEF QInv, CompleteEffect
    <3>3. ToSet(Moves(n)) = {}
      <4>1. Moves(n) = <<>>
        BY <3>2
      <4>2. QED
        BY <4>1, EmptySequence
    <3>4. \A o \in Ops : op'[o] = "sq" => op[o] = "sq"
      BY <3>1, <3>3, CompletedPlaces
    <3>5. QED
      BY <1>2, <2>2, <3>4 DEF SqInv, Leaving
  <2>5. QED
    BY <2>3, <2>4
<1>7. CASE RecvTask \/ RecvShutdown \/ RecvRepair \/ Signal \/ RaiseSignal \/ Break
  <2>1. UNCHANGED <<op, pc, should_submit_io>>
    BY <1>7, Zenon DEF RecvTask, RecvShutdown, RecvRepair, Signal, RaiseSignal, Break
  <2>2. QED
    BY <1>3, <2>1
<1>8. CASE RecvSubmit
  <2>1. pc' = "recv" /\ should_submit_io' = TRUE
    BY <1>8, Zenon DEF RecvSubmit, Receiving
  <2>2. QED
    BY <2>1 DEF SqInv
<1>9. CASE RecvKill
  BY <1>9 DEF RecvKill, SqInv, Leaving
<1>10. CASE RecvDone
  <2>1. pc = "recv" /\ pc' = "submit" /\ UNCHANGED <<op, should_submit_io>>
    BY <1>10, Zenon DEF RecvDone
  <2>2. QED
    BY <2>1, <1>2 DEF SqInv, Leaving
<1>11. CASE SubmitIo
  <2>1. op' = IF should_submit_io THEN Submitted(op) ELSE op
    BY <1>11 DEF SubmitIo
  <2>2. CASE should_submit_io = TRUE
    <3>1. op' = Submitted(op)
      BY <2>1, <2>2, Zenon
    <3>2. \A o \in Ops : op'[o] # "sq"
      BY <3>1, PlacesAfter
    <3>3. QED
      BY <3>2 DEF SqInv
  <2>3. CASE should_submit_io # TRUE
    <3>1. \A o \in Ops : op[o] # "sq"
      BY <2>3, <1>2 DEF SqInv, Leaving
    <3>2. \A o \in Ops : op'[o] # "sq"
      <4>1. op' = op \/ op' = Submitted(op)
        BY <2>1, Zenon
      <4>2. QED
        BY <3>1, <4>1, PlacesAfter
    <3>3. QED
      BY <3>2 DEF SqInv
  <2>4. QED
    BY <2>2, <2>3
<1>12. CASE RunTask
  <2>1. UNCHANGED <<pc, should_submit_io>>
    BY <1>12, Zenon DEF RunTask
  <2>2. PICK t \in Tasks : Polled(t)
    BY <1>12, RunTaskPolls DEF QInv
  <2>3. QED
    BY <1>3, <2>1, <2>2, PolledKeeps
<1>13. CASE \/ DrainTask \/ DrainSubmission \/ DrainIgnored \/ DrainKill \/ DrainEmpty
            \/ BlockingSubmit \/ BlockingSubmitReturns \/ DrainAgain \/ DrainDone \/ End
  BY <1>2, <1>13 DEF DrainTask, DrainSubmission, DrainIgnored, DrainKill, DrainEmpty,
     BlockingSubmit, BlockingSubmitReturns, DrainAgain, DrainDone, End, Drain
<1>14. CASE AskToStop("shutdown", Shutdown) \/ AskToStop("kill", Kill)
  <2>1. UNCHANGED <<op, pc, should_submit_io>>
    BY <1>14, Zenon DEF AskToStop
  <2>2. QED
    BY <1>3, <2>1
<1>15. ASSUME NEW t \in Tasks, SpawnTask(t) \/ WakeAwaiting(t) \/ Nudge(t) PROVE SqInv'
  <2>1. UNCHANGED <<op, pc, should_submit_io>>
    BY <1>15, Zenon DEF SpawnTask, WakeAwaiting, Nudge
  <2>2. QED
    BY <1>3, <2>1
<1>16. ASSUME NEW o \in Ops, KernelCompletes(o) \/ ForeignSubmit(o) \/ ForeignTake(o) PROVE SqInv'
  <2>1. UNCHANGED <<pc, should_submit_io>>
    BY <1>16, Zenon DEF KernelCompletes, ForeignSubmit, ForeignTake
  <2>2. \E p \in {"cq", "sent", "gone"} : op' = [op EXCEPT ![o] = p]
    BY <1>16 DEF KernelCompletes, ForeignSubmit, ForeignTake
  <2>3. \A x \in Ops : op'[x] = "sq" => op[x] = "sq"
    BY <2>2 DEF QInv, IoShapes
  <2>4. QED
    BY <1>3, <2>1, <2>3
<1>17. CASE UNCHANGED vars
  <2>1. UNCHANGED <<op, pc, should_submit_io>>
    BY <1>17, Zenon DEF vars
  <2>2. QED
    BY <1>3, <2>1
<1>18. QED
  BY <1>5, <1>6, <1>7, <1>8, <1>9, <1>10, <1>11, <1>12, <1>13, <1>14, <1>15, <1>16, <1>17
     DEF Next, Thread

LEMMA StepMoving ==
    ASSUME QInv, SqInv, Moving, [Next]_vars
    PROVE  Moving'
<1> DEFINE Way == {"sq", "kernel", "cq"}
<1>1. CASE Leaving
  BY <1>1, LeavingStays DEF Moving
<1> SUFFICES ASSUME ~Leaving PROVE Moving'
  BY <1>1
<1>2. ASSUME UNCHANGED waiting_submissions, \A o \in Ops : op[o] \in Way => op'[o] \in Way
      PROVE  Moving'
  BY <1>2 DEF Moving
<1>3. ASSUME NEW t \in Tasks, Polled(t) PROVE Moving'
  BY <1>2, <1>3, PolledKeeps DEF Polled
<1>4. ASSUME NEW o \in Ops, Carried(o) PROVE Moving'
  BY <1>2, <1>4, CarriedIs
<1>5. ASSUME NEW o \in Ops, Prepared(o) PROVE Moving'
  <2>1. CASE UNCHANGED waiting_submissions
    BY <1>2, <1>5, <2>1, PreparedIs
  <2>2. CASE Cardinality(InSq) >= SqSize
    <3>1. InSq # {}
      BY <2>2, FS_EmptySet, WorkerAssumption
    <3>2. PICK x \in Ops : op[x] = "sq"
      BY <3>1 DEF InSq
    <3>3. op'[x] = "sq"
      BY <1>5, <3>2, PreparedIs
    <3>4. QED
      BY <3>3 DEF Moving
  <2>3. QED
    BY <1>5, <2>1, <2>2, PreparedIs
<1>6. ASSUME NEW n, Completed(n) PROVE Moving'
  <2>1. /\ pc = "complete" /\ n \in 0 .. Len(waiting_submissions)
        /\ Stays(n) # <<>> => n = SqSize - Cardinality(InSq)
        /\ waiting_submissions' = Turned(Stays(n))
    BY <1>6 DEF Completed, CompleteEffect
  <2>2. InSq = {}
    BY <2>1 DEF SqInv, InSq, Leaving, Drain
  <2>3. Moves(n) \in Seq(Ops) /\ Stays(n) \in Seq(Ops) /\ Len(Moves(n)) = n
    BY <2>1, SplitBackup DEF QInv
  <2>4. CASE Stays(n) = <<>>
    BY <2>1, <2>3, <2>4, TurnedIs DEF Moving
  <2>5. CASE Stays(n) # <<>>
    <3>1. n = SqSize /\ n > 0
      BY <2>1, <2>2, <2>5, FS_EmptySet, WorkerAssumption
    <3>2. Moves(n)[1] \in ToSet(Moves(n)) /\ Moves(n)[1] \in Ops
      <4>1. 1 \in DOMAIN Moves(n)
        BY <2>1, <2>3, <3>1
      <4>2. QED
        BY <2>3, <4>1 DEF ToSet
    <3>3. op'[Moves(n)[1]] = "sq"
      BY <1>6, <3>2, CompletedPlaces
    <3>4. QED
      BY <3>2, <3>3 DEF Moving
  <2>6. QED
    BY <2>4, <2>5
<1>7. CASE HandedOver
  <2>1. \A o \in Ops : op[o] \in Way => op'[o] \in Way
    BY <1>7, PlacesAfter DEF HandedOver
  <2>2. QED
    BY <1>2, <1>7, <2>1 DEF HandedOver
<1>8. CASE UNCHANGED <<op, waiting_submissions>>
  BY <1>2, <1>8
<1>9. Gathered => Leaving
  BY DEF Gathered, Leaving, Drain
<1>10. QED
  BY Effects, <1>3, <1>4, <1>5, <1>6, <1>7, <1>8, <1>9
     DEF Chatter, queues, Spawned, Woken, Told, QInv

(* When the loop polls, nothing that the worker accepted is left in the    *)
(* submission queue, and an operation that found it full is behind one     *)
(* whose completion will bring the loop back to it.                        *)
THEOREM NothingStranded == Spec => []NoOperationStranded
<1>1. Init => SqInv /\ Moving
  BY DEF Init, SqInv, Moving
<1>2. QInv /\ SqInv /\ Moving /\ [Next]_vars => SqInv' /\ Moving'
  BY StepSq, StepMoving
<1>3. Spec => [](SqInv /\ Moving)
  BY <1>1, <1>2, Queues, PTL DEF Spec
<1>4. SqInv /\ Moving => NoOperationStranded
  <2> SUFFICES ASSUME SqInv, Moving, pc = "poll"
               PROVE  /\ InSq = {}
                      /\ waiting_submissions # <<>> => \E o \in Ops : op[o] \in {"kernel", "cq"}
    BY DEF NoOperationStranded
  <2>1. ~Leaving
    BY DEF Leaving, Drain
  <2>2. \A o \in Ops : op[o] # "sq"
    BY <2>1 DEF SqInv
  <2>3. QED
    BY <2>1, <2>2 DEF Moving, InSq
<1>5. QED
  BY <1>3, <1>4, PTL

-----------------------------------------------------------------------------
(* No parked task is forgotten. *)

(* An operation whose completion is still to come. *)
OnItsWay(o) ==
    \/ op[o] = "sent" /\ Submit(o) \in ToSet(rx)
    \/ op[o] \in {"backup", "sq", "kernel", "cq"}

HasWaker(t) ==
    \/ Wake(t) \in ToSet(rx) \/ t \in awaited
    \/ t \in IoTasks /\ OnItsWay(Current(t))

Parked == Connected => \A t \in Tasks : phase[t] = "running" => HasWaker(t)

LEMMA CurrentIsOwn ==
    ASSUME QInv, NEW t \in IoTasks
    PROVE  Current(t) \in OwnOps /\ Current(t) \in Ops /\ Current(t)[1] = t
BY WorkerAssumption DEF QInv, TaskShapes, Current, OwnOps, Ops

(* The wakes of a batch of completions reach the tasks they are for. *)
LEMMA BatchWakes ==
    ASSUME QInv, Sends(ToSet(WakeAll(cq))), NEW o \in OwnOps, op[o] = "cq"
    PROVE  Wake(o[1]) \in ToSet(rx')
<1>1. o \in ToSet(cq) /\ cq \in Seq(Ops)
  BY DEF QInv, CqInv, Ops, IoShapes
<1>2. QED
  BY <1>1, WakeAllIs DEF Sends

LEMMA ReceiverStaysDropped ==
    ASSUME QInv, [Next]_vars, Connected'
    PROVE  Connected
BY Effects DEF QInv, Chatter, Spawned, Woken, Told, Polled, Carried, Prepared, Completed,
   CompleteEffect, HandedOver, Gathered, Connected

(* What is on its way stays so until its completion wakes who waits for it.*)
LEMMA WayStays ==
    ASSUME QInv, [Next]_vars, NEW o \in OwnOps, OnItsWay(o)
    PROVE  OnItsWay(o)' \/ Wake(o[1]) \in ToSet(rx')
<1>0. o \in Ops
  BY DEF Ops
<1>1. ASSUME op'[o] = op[o], Submit(o) \in ToSet(rx) => Submit(o) \in ToSet(rx') PROVE OnItsWay(o)'
  BY <1>1 DEF OnItsWay
<1>2. ASSUME NEW N, Sends(N) PROVE Submit(o) \in ToSet(rx) => Submit(o) \in ToSet(rx')
  BY <1>2 DEF Sends
<1>3. ASSUME NEW m, m # Submit(o), Takes(m)
      PROVE  Submit(o) \in ToSet(rx) => Submit(o) \in ToSet(rx')
  BY <1>3 DEF Takes
<1>4. CASE Chatter
  <2>1. UNCHANGED op
    BY <1>4 DEF Chatter, queues
  <2>2. Submit(o) \in ToSet(rx) => Submit(o) \in ToSet(rx')
    BY <1>2, <1>3, <1>4, MessagesDiffer DEF Chatter
  <2>3. QED
    BY <1>1, <2>1, <2>2
<1>5. ASSUME NEW t \in Tasks, Spawned(t) \/ Woken(t) PROVE OnItsWay(o)'
  BY <1>1, <1>2, <1>5 DEF Spawned, Woken
<1>6. ASSUME NEW t \in Tasks, Told(t) PROVE OnItsWay(o)'
  BY <1>1, <1>3, <1>6, MessagesDiffer DEF Told
<1>7. ASSUME NEW t \in Tasks, Polled(t) PROVE OnItsWay(o)'
  <2>1. PICK new : Submits(t, new)
    BY <1>7, PolledSubmits
  <2>2. Submit(o) \in ToSet(rx) => Submit(o) \in ToSet(rx')
    BY <1>2, <2>1 DEF Submits
  <2>3. CASE op' = op
    BY <1>1, <2>2, <2>3
  <2>4. CASE op' = [x \in Ops |-> IF x \in new THEN "sent"
                               ELSE IF x = Current(t) /\ op[x] = "arrived" THEN "gone"
                               ELSE op[x]]
    <3>1. o \notin new /\ op[o] # "arrived"
      BY <1>0, <2>1 DEF Submits, OnItsWay
    <3>2. op'[o] = op[o]
      BY <1>0, <2>4, <3>1
    <3>3. QED
      BY <1>1, <2>2, <3>2
  <2>5. QED
    BY <2>1, <2>3, <2>4 DEF Submits
<1>8. ASSUME NEW x \in Ops, Carried(x) PROVE OnItsWay(o)'
  <2>1. Submit(o) \in ToSet(rx) => Submit(o) \in ToSet(rx')
    BY <1>2, <1>8 DEF Carried
  <2>2. CASE x # o
    BY <1>0, <1>1, <1>8, <2>1, <2>2, CarriedIs
  <2>3. CASE x = o
    <3>1. op'[o] = "cq"
      BY <1>8, <2>3, CarriedIs DEF OnItsWay
    <3>2. QED
      BY <3>1 DEF OnItsWay
  <2>4. QED
    BY <2>2, <2>3
<1>9. ASSUME NEW x \in Ops, Prepared(x) PROVE OnItsWay(o)'
  <2>1. CASE x # o
    <3>1. Submit(o) \in ToSet(rx) => Submit(o) \in ToSet(rx')
      BY <1>3, <1>9, <2>1, MessagesDiffer DEF Prepared
    <3>2. QED
      BY <1>0, <1>1, <1>9, <2>1, <3>1, PreparedIs
  <2>2. CASE x = o
    <3>1. op'[o] \in {"sq", "backup"}
      BY <1>9, <2>2, PreparedIs
    <3>2. QED
      BY <3>1 DEF OnItsWay
  <2>3. QED
    BY <2>1, <2>2
<1>10. ASSUME op[o] # "cq",
              op'[o] = op[o] \/ op'[o] \in {"sq", "kernel"}, Sends({}) \/ Sends(ToSet(WakeAll(cq)))
       PROVE  OnItsWay(o)'
  BY <1>1, <1>2, <1>10 DEF OnItsWay
<1>11. ASSUME NEW n, Completed(n) PROVE OnItsWay(o)' \/ Wake(o[1]) \in ToSet(rx')
  <2>1. Sends(ToSet(WakeAll(cq)))
    BY <1>11 DEF Completed
  <2>2. CASE op[o] = "cq"
    BY <2>1, <2>2, BatchWakes
  <2>3. CASE op[o] # "cq"
    BY <1>0, <1>10, <1>11, <2>1, <2>3, CompletedPlaces
  <2>4. QED
    BY <2>2, <2>3
<1>12. CASE Gathered
  <2>1. Sends(ToSet(WakeAll(cq))) /\ op' = Arrived(op)
    BY <1>12 DEF Gathered
  <2>2. CASE op[o] = "cq"
    BY <2>1, <2>2, BatchWakes
  <2>3. CASE op[o] # "cq"
    BY <1>0, <1>10, <2>1, <2>3, PlacesAfter
  <2>4. QED
    BY <2>2, <2>3
<1>13. CASE HandedOver
  <2>1. Sends({}) /\ (op' = op \/ op' = Submitted(op))
    BY <1>13 DEF HandedOver
  <2>2. op'[o] = op[o] \/ op'[o] = "kernel"
    BY <1>0, <2>1, PlacesAfter
  <2>3. Submit(o) \in ToSet(rx) => Submit(o) \in ToSet(rx')
    BY <1>2, <2>1
  <2>4. QED
    BY <1>1, <2>2, <2>3 DEF OnItsWay
<1>14. QED
  BY Effects, <1>4, <1>5, <1>6, <1>7, <1>8, <1>9, <1>11, <1>12, <1>13 DEF QInv

(* A parked task keeps what is to wake it, until it is made ready. *)
LEMMA WakerStays ==
    ASSUME QInv, Connected', [Next]_vars, NEW t \in Tasks, HasWaker(t), phase[t] = "running"
    PROVE  phase'[t] # "running" \/ HasWaker(t)'
<1>1. ASSUME Wake(t) \in ToSet(rx) => Wake(t) \in ToSet(rx'), awaited \subseteq awaited',
             polls'[t] = polls[t]
      PROVE  HasWaker(t)'
  <2>1. Current(t)' = Current(t)
    BY <1>1 DEF Current
  <2>2. CASE t \in IoTasks /\ OnItsWay(Current(t))
    <3>1. OnItsWay(Current(t))' \/ Wake(t) \in ToSet(rx')
      <4>1. PICK o \in OwnOps : o = Current(t) /\ o[1] = t
        BY <2>2, CurrentIsOwn
      <4>2. OnItsWay(o)
        BY <2>2, <4>1
      <4>3. OnItsWay(o)' \/ Wake(t) \in ToSet(rx')
        BY <4>1, <4>2, WayStays
      <4>4. QED
        BY <2>1, <4>1, <4>3 DEF OnItsWay
    <3>2. QED
      BY <2>2, <3>1 DEF HasWaker
  <2>3. QED
    BY <1>1, <2>2 DEF HasWaker
<1>2. ASSUME NEW N, Sends(N) PROVE Wake(t) \in ToSet(rx) => Wake(t) \in ToSet(rx')
  BY <1>2 DEF Sends
<1>3. ASSUME NEW m, m # Wake(t), Takes(m) PROVE Wake(t) \in ToSet(rx) => Wake(t) \in ToSet(rx')
  BY <1>3 DEF Takes
<1>4. CASE Chatter
  <2>1. UNCHANGED <<polls, awaited>>
    BY <1>4 DEF Chatter, queues
  <2>2. Wake(t) \in ToSet(rx) => Wake(t) \in ToSet(rx')
    BY <1>2, <1>3, <1>4, MessagesDiffer DEF Chatter
  <2>3. QED
    BY <1>1, <2>1, <2>2
<1>5. ASSUME NEW u \in Tasks, Spawned(u) PROVE HasWaker(t)'
  BY <1>1, <1>2, <1>5 DEF Spawned
<1>6. ASSUME NEW u \in Tasks, Woken(u) PROVE HasWaker(t)'
  <2>1. UNCHANGED <<pc, polls>> /\ awaited' = awaited \ {u}
    BY <1>6 DEF Woken
  <2>2. Sends({Wake(u)})
    BY <1>6, <2>1 DEF Woken, Connected
  <2>3. CASE u = t
    BY <2>2, <2>3 DEF Sends, HasWaker
  <2>4. CASE u # t
    <3>1. Wake(t) \in ToSet(rx) => Wake(t) \in ToSet(rx')
      BY <1>2, <2>2
    <3>2. CASE t \in awaited
      BY <2>1, <2>4, <3>2 DEF HasWaker
    <3>3. CASE t \notin awaited
      <4>1. (t \in IoTasks /\ OnItsWay(Current(t))) \/ Wake(t) \in ToSet(rx')
        BY <3>1, <3>3 DEF HasWaker
      <4>2. CASE t \in IoTasks /\ OnItsWay(Current(t))
        <5>1. PICK o \in OwnOps : o = Current(t) /\ o[1] = t
          BY <4>2, CurrentIsOwn
        <5>2. OnItsWay(o)' \/ Wake(t) \in ToSet(rx')
          BY <4>2, <5>1, WayStays
        <5>3. Current(t)' = o
          BY <2>1, <5>1 DEF Current
        <5>4. QED
          BY <4>2, <5>2, <5>3 DEF HasWaker, OnItsWay
      <4>3. QED
        BY <4>1, <4>2 DEF HasWaker
    <3>4. QED
      BY <3>2, <3>3
  <2>5. QED
    BY <2>3, <2>4
<1>7. ASSUME NEW u \in Tasks, Told(u) PROVE phase'[t] # "running" \/ HasWaker(t)'
  <2>1. UNCHANGED <<polls, awaited>>
    BY <1>7 DEF Told
  <2>2. CASE u = t
    <3>1. MakeReady(t)
      BY <1>7, <2>2 DEF Told
    <3>2. phase'[t] = "ready"
      BY <3>1 DEF MakeReady, QInv, TaskShapes
    <3>3. QED
      BY <3>2
  <2>3. CASE u # t
    <3>1. Wake(t) \in ToSet(rx) => Wake(t) \in ToSet(rx')
      BY <1>3, <1>7, <2>3, MessagesDiffer DEF Told
    <3>2. QED
      BY <1>1, <2>1, <3>1
  <2>4. QED
    BY <2>2, <2>3
<1>8. ASSUME NEW u \in Tasks, Polled(u) PROVE HasWaker(t)'
  <2>1. u # t
    BY <1>8, PolledIs
  <2>2. polls'[t] = polls[t] /\ awaited \subseteq awaited'
    BY <1>8, <2>1 DEF Polled, PolledOn, QInv, TaskShapes
  <2>3. PICK new : Submits(u, new)
    BY <1>8, PolledSubmits
  <2>4. Wake(t) \in ToSet(rx) => Wake(t) \in ToSet(rx')
    BY <1>2, <2>3 DEF Submits
  <2>5. QED
    BY <1>1, <2>2, <2>4
<1>9. ASSUME NEW o \in Ops, Carried(o) PROVE HasWaker(t)'
  BY <1>1, <1>2, <1>9 DEF Carried
<1>10. ASSUME NEW o \in Ops, Prepared(o) PROVE HasWaker(t)'
  BY <1>1, <1>3, <1>10, MessagesDiffer DEF Prepared
<1>11. ASSUME NEW n, Completed(n) PROVE HasWaker(t)'
  BY <1>1, <1>2, <1>11 DEF Completed, CompleteEffect, tasks
<1>12. CASE HandedOver \/ Gathered
  BY <1>1, <1>2, <1>12 DEF HandedOver, Gathered
<1>13. QED
  BY Effects, <1>4, <1>5, <1>6, <1>7, <1>8, <1>9, <1>10, <1>11, <1>12 DEF QInv

(* A task that is parked has just been polled, and its poll saw to a waker.*)
LEMMA ParkedByPoll ==
    ASSUME QInv, [Next]_vars, NEW t \in Tasks, phase[t] # "running", phase'[t] = "running"
    PROVE  Polled(t)
<1>0. phase \in [Tasks -> Phases]
  BY DEF QInv, TaskShapes
<1>1. ASSUME NEW u \in Tasks, Spawned(u) PROVE FALSE
  <2>1. \E p \in {"sent", "refused"} : phase' = [phase EXCEPT ![u] = p]
    BY <1>1 DEF Spawned
  <2>2. QED
    BY <1>0, <2>1
<1>2. ASSUME NEW u \in Tasks, Told(u) PROVE FALSE
  BY <1>0, <1>2 DEF Told, MakeReady
<1>3. ASSUME NEW u \in Tasks, Polled(u) PROVE u = t
  BY <1>0, <1>3, PolledIs
<1>4. ASSUME NEW n, Completed(n) PROVE FALSE
  BY <1>4 DEF Completed, CompleteEffect, tasks
<1>5. QED
  BY Effects, <1>1, <1>2, <1>3, <1>4
     DEF QInv, Chatter, queues, Woken, Carried, Prepared, HandedOver, Gathered

LEMMA PollLeavesWaker ==
    ASSUME QInv, NEW t \in Tasks, Polled(t), phase'[t] = "running"
    PROVE  HasWaker(t)'
<1>0. phase \in [Tasks -> Phases] /\ polls \in [Tasks -> 0 .. MaxPolls]
  BY DEF QInv, TaskShapes
<1>1. CASE StillWaits(t) /\ UNCHANGED <<rx, polls, awaited, op>>
  <2>1. Current(t)' = Current(t)
    BY <1>1 DEF Current
  <2>2. QED
    BY <1>1, <2>1 DEF StillWaits, AwaitsIo, HasWaker, OnItsWay
<1>2. ASSUME NEW cs, Leaves(t, {}, cs, {Wake(t)}) PROVE HasWaker(t)'
  BY <1>2 DEF Leaves, Sends, HasWaker
<1>3. CASE awaited' = awaited \cup {t}
  BY <1>3 DEF HasWaker
<1>4. ASSUME t \in IoTasks, Next1(t) \in OwnOps, polls' = [polls EXCEPT ![t] = @ - 1],
             NEW cs, Leaves(t, {Next1(t)}, cs, {})
      PROVE  HasWaker(t)'
  <2>1. Current(t)' = Next1(t)
    BY <1>0, <1>4 DEF Current, Next1
  <2>2. op'[Next1(t)] = "sent"
    BY <1>4 DEF Leaves, Ops
  <2>3. Submit(Next1(t)) \in ToSet(rx')
    BY <1>4 DEF Leaves, Sends
  <2>4. QED
    BY <1>4, <2>1, <2>2, <2>3 DEF HasWaker, OnItsWay
<1>5. phase' # [phase EXCEPT ![t] = "done"]
  BY <1>0
<1>6. QED
  BY <1>1, <1>2, <1>3, <1>4, <1>5 DEF Polled, PolledOn

(* No interleaving of submissions, completions, wakes and polls, not even  *)
(* in the drain, leaves a task parked that nothing will make ready.        *)
THEOREM NoTaskForgotten == Spec => []ParkedHasWaker
<1>1. Init => Parked
  BY DEF Init, Parked
<1>2. QInv /\ Parked /\ [Next]_vars => Parked'
  <2> SUFFICES ASSUME QInv, Parked, [Next]_vars, Connected', NEW t \in Tasks, phase'[t] = "running"
               PROVE  HasWaker(t)'
    BY DEF Parked
  <2>1. Connected
    BY ReceiverStaysDropped
  <2>2. CASE phase[t] = "running"
    BY <2>1, <2>2, WakerStays DEF Parked
  <2>3. CASE phase[t] # "running"
    BY <2>3, ParkedByPoll, PollLeavesWaker
  <2>4. QED
    BY <2>2, <2>3
<1>3. Spec => []Parked
  BY <1>1, <1>2, Queues, PTL DEF Spec
<1>4. Parked => ParkedHasWaker
  BY DEF Parked, ParkedHasWaker, HasWaker, OnItsWay, InRx, AwaitsIo, Running
<1>5. QED
  BY <1>3, <1>4, PTL

-----------------------------------------------------------------------------
(* The end is announced. *)

(* Who stops the worker has been asked to: by a message still under way,   *)
(* by a signal not yet seen, or by what has become of them.                *)
AskedFor ==
    /\ state = "Stopping" => "shutdown" \in asked \/ "signal" \in asked
    /\ Shutdown \in ToSet(rx) => "shutdown" \in asked
    /\ Kill \in ToSet(rx) => "kill" \in asked
    /\ sigterm = TRUE => "signal" \in asked

(* Where the end has been announced, or will be. *)
Announced ==
    /\ pc \in Drain => state = "Stopping" /\ notified # {}
    /\ pc = "ending" /\ state = "Stopping" => notified # {} \/ "kill" \in asked
    /\ pc = "ended" => notified # {} \/ ("kill" \in asked /\ asked # {"kill"})

(* Only shutdown and kill send the messages that stop the worker. *)
LEMMA StopMessages ==
    ASSUME QInv, [Next]_vars, ~AskToStop("shutdown", Shutdown), ~AskToStop("kill", Kill),
           NEW m \in {Shutdown, Kill}
    PROVE  m \in ToSet(rx') => m \in ToSet(rx)
<1> USE DEF channel
<1>1. CASE UNCHANGED rx
  BY <1>1
<1>2. ASSUME NEW N, Sends(N), m \notin N PROVE m \in ToSet(rx') => m \in ToSet(rx)
  BY <1>2, MessagesDiffer DEF Sends
<1>3. ASSUME NEW k, Takes(k) PROVE m \in ToSet(rx') => m \in ToSet(rx)
  BY <1>3 DEF Takes
<1>4. CASE Start \/ SetUp \/ Poll \/ LoopAgain \/ SkipComplete \/ RecvDone \/ SubmitIo \/ RunDone
  BY <1>1, <1>4 DEF Start, SetUp, Poll, LoopAgain, SkipComplete, RecvDone, SubmitIo, RunDone
<1>5. CASE BeginDrain \/ DrainEmpty \/ BlockingSubmit \/ DrainAgain \/ DrainDone \/ End
  BY <1>1, <1>5 DEF BeginDrain, DrainEmpty, BlockingSubmit, DrainAgain, DrainDone, End
<1>6. CASE \/ RecvTask \/ RecvSubmit \/ RecvShutdown \/ RecvKill \/ RecvRepair
           \/ DrainTask \/ DrainSubmission \/ DrainIgnored \/ DrainKill
  <2>1. \E k : Received(k)
    BY <1>6 DEF RecvTask, RecvSubmit, RecvShutdown, RecvKill, RecvRepair,
       DrainTask, DrainSubmission, DrainIgnored, DrainKill
  <2>2. \E k : Takes(k)
    BY <2>1, ReceivedTakes DEF QInv
  <2>3. QED
    BY <1>3, <2>2
<1>7. m \notin ToSet(WakeAll(cq)) /\ m \notin {} /\ \A t : m \notin {Wake(t)} /\ m \notin {Spawn(t)}
  <2>1. ToSet(WakeAll(cq)) \subseteq Wakes
    BY WakeAllIs, ElementsIn DEF QInv, IoShapes
  <2>2. QED
    BY <2>1, MessagesDiffer DEF Wakes
<1>8. CASE Complete \/ BlockingSubmitReturns
  <2>1. SendOwn(WakeAll(cq))
    BY <1>8 DEF Complete, BlockingSubmitReturns
  <2>2. QED
    BY <1>2, <1>7, <2>1, SendsWakes DEF QInv, IoShapes
<1>9. CASE RunTask
  <2>1. PICK t \in Tasks : Polled(t)
    BY <1>9, RunTaskPolls DEF QInv
  <2>2. PICK new : Submits(t, new)
    BY <2>1, PolledSubmits
  <2>3. PICK wakes \in SUBSET {Wake(t)} : Sends({Submit(o) : o \in new} \cup wakes)
    BY <2>2 DEF Submits
  <2>4. QED
    BY <1>2, <2>3, MessagesDiffer
<1>10. CASE Signal
  BY <1>2, <1>7, <1>10, SignalAdds DEF QInv
<1>11. CASE RaiseSignal \/ Break \/ UNCHANGED vars
  BY <1>1, <1>11 DEF RaiseSignal, Break, vars
<1>12. ASSUME NEW t \in Tasks, SpawnTask(t) \/ WakeAwaiting(t) \/ Nudge(t)
       PROVE  m \in ToSet(rx') => m \in ToSet(rx)
  <2>1. UNCHANGED rx \/ Send(Spawn(t)) \/ Send(Wake(t))
    BY <1>12 DEF SpawnTask, WakeAwaiting, Nudge
  <2>2. QED
    BY <1>1, <1>2, <1>7, <2>1, SendAdds, MessageTypes DEF QInv
<1>13. ASSUME NEW o \in Ops, KernelCompletes(o) \/ ForeignSubmit(o) \/ ForeignTake(o)
       PROVE  m \in ToSet(rx') => m \in ToSet(rx)
  <2>1. UNCHANGED rx \/ Send(Submit(o))
    BY <1>13 DEF KernelCompletes, ForeignSubmit, ForeignTake
  <2>2. QED
    BY <1>1, <1>2, <2>1, SendAdds, MessageTypes, MessagesDiffer DEF QInv
<1>14. QED
  BY <1>4, <1>5, <1>6, <1>8, <1>9, <1>10, <1>11, <1>12, <1>13 DEF Next, Thread

LEMMA StepAskedFor ==
    ASSUME QInv, MoreFlags, AskedFor, [Next]_vars
    PROVE  AskedFor'
<1> USE DEF history
<1>1. CASE AskToStop("shutdown", Shutdown)
  <2>1. UNCHANGED <<state, sigterm>> /\ asked' = asked \cup {"shutdown"} /\ Send(Shutdown)
    BY <1>1, Zenon DEF AskToStop
  <2>2. ToSet(rx') \subseteq ToSet(rx) \cup {Shutdown} \cup {Repair}
    BY <2>1, SendAdds, MessageTypes DEF QInv, Sends
  <2>3. QED
    BY <2>1, <2>2, MessagesDiffer DEF AskedFor
<1>2. CASE AskToStop("kill", Kill)
  <2>1. UNCHANGED <<state, sigterm>> /\ asked' = asked \cup {"kill"} /\ Send(Kill)
    BY <1>2, Zenon DEF AskToStop
  <2>2. ToSet(rx') \subseteq ToSet(rx) \cup {Kill} \cup {Repair}
    BY <2>1, SendAdds, MessageTypes DEF QInv, Sends
  <2>3. QED
    BY <2>1, <2>2, MessagesDiffer DEF AskedFor
<1> SUFFICES ASSUME ~AskToStop("shutdown", Shutdown), ~AskToStop("kill", Kill)
             PROVE  AskedFor'
  BY <1>1, <1>2
<1>3. \A m \in {Shutdown, Kill} : m \in ToSet(rx') => m \in ToSet(rx)
  BY StopMessages
<1>4. ASSUME UNCHANGED <<asked, sigterm>>, state' = "Stopping" => state = "Stopping"
      PROVE  AskedFor'
  BY <1>3, <1>4 DEF AskedFor
<1>5. CASE Start \/ SetUp \/ LoopAgain
  <2>1. UNCHANGED <<asked, sigterm>> /\ (state' = "Stopping" => state = "Stopping")
    BY <1>5, Zenon DEF Start, SetUp, LoopAgain
  <2>2. QED
    BY <1>4, <2>1
<1>6. CASE Poll
  <2>1. sigterm' = FALSE /\ UNCHANGED asked
        /\ state' = IF sigterm THEN "Stopping" ELSE "Busy"
    BY <1>6, Zenon DEF Poll
  <2>2. sigterm' # TRUE
    BY <2>1
  <2>3. CASE sigterm = TRUE
    BY <1>3, <2>1, <2>2, <2>3 DEF AskedFor
  <2>4. CASE sigterm = FALSE
    <3>1. state' = "Busy"
      BY <2>1, <2>4, Zenon
    <3>2. QED
      BY <1>3, <2>1, <2>2, <3>1 DEF AskedFor
  <2>5. QED
    BY <2>3, <2>4, Zenon DEF MoreFlags
<1>7. CASE Complete \/ SkipComplete \/ SubmitIo \/ RunDone \/ BeginDrain
  <2>1. UNCHANGED <<asked, sigterm, state>>
    BY <1>7, Zenon DEF Complete, SkipComplete, SubmitIo, RunDone, BeginDrain
  <2>2. QED
    BY <1>4, <2>1
<1>8. CASE RecvTask \/ RecvSubmit \/ RecvKill \/ RecvRepair \/ RecvDone
  <2>1. UNCHANGED <<asked, sigterm, state>>
    BY <1>8, Zenon DEF RecvTask, RecvSubmit, RecvKill, RecvRepair, RecvDone
  <2>2. QED
    BY <1>4, <2>1
<1>9. CASE RecvShutdown
  <2>1. UNCHANGED <<asked, sigterm>> /\ Received(Shutdown)
    BY <1>9, Zenon DEF RecvShutdown
  <2>2. Shutdown \in ToSet(rx)
    BY <2>1, ReceivedTakes DEF QInv, Takes
  <2>3. QED
    BY <1>3, <2>1, <2>2 DEF AskedFor
<1>10. CASE DrainTask \/ DrainSubmission \/ DrainIgnored \/ DrainKill \/ DrainEmpty
  <2>1. UNCHANGED <<asked, sigterm>> /\ (state' = "Stopping" => state = "Stopping")
    BY <1>10, Zenon DEF DrainTask, DrainSubmission, DrainIgnored, DrainKill, DrainEmpty
  <2>2. QED
    BY <1>4, <2>1
<1>11. CASE BlockingSubmit \/ BlockingSubmitReturns \/ DrainAgain \/ DrainDone \/ End
  <2>1. UNCHANGED <<asked, sigterm>> /\ (state' = "Stopping" => state = "Stopping")
    BY <1>11, Zenon DEF BlockingSubmit, BlockingSubmitReturns, DrainAgain, DrainDone, End
  <2>2. QED
    BY <1>4, <2>1
<1>12. CASE RunTask \/ Signal \/ Break \/ UNCHANGED vars
  <2>1. UNCHANGED <<asked, sigterm, state>>
    BY <1>12, Zenon DEF RunTask, Signal, Break, vars
  <2>2. QED
    BY <1>4, <2>1
<1>13. CASE RaiseSignal
  <2>1. UNCHANGED state /\ asked' = asked \cup {"signal"}
    BY <1>13, Zenon DEF RaiseSignal
  <2>2. QED
    BY <1>3, <2>1 DEF AskedFor
<1>14. ASSUME NEW t \in Tasks, SpawnTask(t) \/ WakeAwaiting(t) \/ Nudge(t) PROVE AskedFor'
  <2>1. UNCHANGED <<asked, sigterm, state>>
    BY <1>14, Zenon DEF SpawnTask, WakeAwaiting, Nudge
  <2>2. QED
    BY <1>4, <2>1
<1>15. ASSUME NEW o \in Ops, KernelCompletes(o) \/ ForeignSubmit(o) \/ ForeignTake(o)
       PROVE  AskedFor'
  <2>1. UNCHANGED <<asked, sigterm, state>>
    BY <1>15, Zenon DEF KernelCompletes, ForeignSubmit, ForeignTake
  <2>2. QED
    BY <1>4, <2>1
<1>16. QED
  BY <1>1, <1>2, <1>5, <1>6, <1>7, <1>8, <1>9, <1>10, <1>11, <1>12, <1>13, <1>14, <1>15
     DEF Next, Thread

LEMMA StepAnnouncedEnd ==
    ASSUME QInv, StateAtPc, AskedFor, Announced, [Next]_vars
    PROVE  Announced'
<1> USE DEF history, Drain
<1>1. ASSUME UNCHANGED <<pc, state, notified, asked>> PROVE Announced'
  BY <1>1 DEF Announced
<1>2. ASSUME pc' \notin Drain \cup {"ending", "ended"} PROVE Announced'
  BY <1>2 DEF Announced
<1>3. CASE Start \/ Poll \/ LoopAgain \/ Complete \/ SkipComplete \/ SubmitIo \/ RunDone
  BY <1>2, <1>3 DEF Start, Poll, LoopAgain, Complete, SkipComplete, SubmitIo, RunDone
<1>4. CASE SetUp
  <2>1. pc' = "poll" \/ (pc' = "ending" /\ state' = "Starting")
    BY <1>4 DEF SetUp, StateAtPc
  <2>2. QED
    BY <2>1 DEF Announced
<1>5. CASE RecvTask \/ RecvSubmit \/ RecvShutdown \/ RecvRepair \/ RecvDone
  BY <1>2, <1>5 DEF RecvTask, RecvSubmit, RecvShutdown, RecvRepair, RecvDone, Receiving
<1>6. CASE RecvKill
  <2>1. Kill \in ToSet(rx)
    BY <1>6, ReceivedTakes DEF RecvKill, QInv, Takes
  <2>2. QED
    BY <1>6, <2>1 DEF RecvKill, AskedFor, Announced
<1>7. CASE BeginDrain
  BY <1>7 DEF BeginDrain, Announced
<1>8. CASE RunTask \/ Signal \/ Break
  BY <1>1, <1>8 DEF RunTask, Signal, Break
<1>9. CASE DrainTask \/ DrainSubmission \/ DrainIgnored
  BY <1>1, <1>9 DEF DrainTask, DrainSubmission, DrainIgnored
<1>10. CASE DrainKill
  BY <1>10 DEF DrainKill, Announced
<1>11. CASE DrainEmpty \/ BlockingSubmit \/ BlockingSubmitReturns \/ DrainAgain \/ DrainDone
  BY <1>11 DEF DrainEmpty, BlockingSubmit, BlockingSubmitReturns, DrainAgain, DrainDone, Announced
<1>12. CASE End
  <2>1. pc = "ending" /\ pc' = "ended" /\ UNCHANGED asked
    BY <1>12 DEF End
  <2>2. CASE state = "Stopping" /\ UNCHANGED notified
    BY <2>1, <2>2 DEF Announced, AskedFor
  <2>3. CASE notified' = notified \cup {"Kill"}
    BY <2>1, <2>3 DEF Announced
  <2>4. QED
    BY <1>12, <2>2, <2>3 DEF End
<1>13. ASSUME NEW how, NEW m, AskToStop(how, m) PROVE Announced'
  <2>1. UNCHANGED <<pc, state, notified>> /\ asked \subseteq asked' /\ pc \notin {"ending", "ended"}
    BY <1>13 DEF AskToStop, Send, Connected
  <2>2. QED
    BY <2>1 DEF Announced
<1>14. CASE RaiseSignal
  BY <1>14 DEF RaiseSignal, Announced, Loop
<1>15. ASSUME NEW t \in Tasks, SpawnTask(t) \/ WakeAwaiting(t) \/ Nudge(t) PROVE Announced'
  BY <1>1, <1>15 DEF SpawnTask, WakeAwaiting, Nudge
<1>16. ASSUME NEW o \in Ops, KernelCompletes(o) \/ ForeignSubmit(o) \/ ForeignTake(o)
       PROVE  Announced'
  BY <1>1, <1>16 DEF KernelCompletes, ForeignSubmit, ForeignTake
<1>17. CASE UNCHANGED vars
  BY <1>1, <1>17 DEF vars
<1>18. QED
  BY <1>3, <1>4, <1>5, <1>6, <1>7, <1>8, <1>9, <1>10, <1>11, <1>12, <1>13, <1>14, <1>15,
     <1>16, <1>17 DEF Next, Thread

LEMMA Stopping == Spec => [](StateAtPc /\ AskedFor /\ Announced)
<1>1. Init => StateAtPc /\ AskedFor /\ Announced
  <2>1. Init => StateAtPc
    BY DEF Init, StateAtPc
  <2>2. Init => AskedFor
    BY EmptySequence DEF Init, AskedFor
  <2>3. Init => Announced
    BY DEF Init, Announced, Drain
  <2>4. QED
    BY <2>1, <2>2, <2>3
<1>2. Spec => []MoreFlags
  <2>1. Init => MoreFlags
    BY DEF Init, MoreFlags
  <2>2. QED
    BY <2>1, StepMoreFlags, PTL DEF Spec
<1>3. QInv /\ MoreFlags /\ StateAtPc /\ AskedFor /\ Announced /\ [Next]_vars
        => (StateAtPc /\ AskedFor /\ Announced)'
  BY StepState, StepAskedFor, StepAnnouncedEnd
<1>4. QED
  BY <1>1, <1>2, <1>3, Queues, PTL DEF Spec

(* However kills, shutdowns and signals follow one another, the worker     *)
(* does not end unannounced, but for a kill that overtakes a stop.         *)
THEOREM EndAnnounced == Spec => []EndIsAnnounced
<1>1. Announced => EndIsAnnounced
  BY DEF Announced, EndIsAnnounced
<1>2. QED
  BY <1>1, Stopping, PTL

-----------------------------------------------------------------------------
(* What was accepted before the stop is finished. *)

(* The tasks accepted before the stop, on their way through the drain. *)
EarlyInv ==
    /\ \A t \in early : t \in Tasks /\ phase[t] \notin {"new", "refused"}
    /\ pc \in {"drain_submit", "drain_wait", "drain_run"} => \A t \in early : phase[t] # "sent"
    /\ pc = "ending" /\ state = "Stopping" /\ "kill" \notin asked
            => \A t \in early : phase[t] = "done"
    /\ pc = "ended" /\ "kill" \notin asked /\ "KILL" \notin told
            => \A t \in early : phase[t] = "done"

(* A task goes through its phases in order. *)
LEMMA PhasesInOrder ==
    ASSUME QInv, [Next]_vars, NEW t \in Tasks
    PROVE  /\ phase[t] = "done" => phase'[t] = "done"
           /\ phase[t] \notin {"new", "refused"} => phase'[t] \notin {"new", "refused"}
           /\ phase[t] \notin {"new", "refused", "sent"} => phase'[t] # "sent"
<1>0. phase \in [Tasks -> Phases]
  BY DEF QInv, TaskShapes
<1> DEFINE Ordered ==
        /\ phase[t] = "done" => phase'[t] = "done"
        /\ phase[t] \notin {"new", "refused"} => phase'[t] \notin {"new", "refused"}
        /\ phase[t] \notin {"new", "refused", "sent"} => phase'[t] # "sent"
<1>1. CASE UNCHANGED phase
  BY <1>1
<1>2. ASSUME NEW u \in Tasks, Spawned(u) PROVE Ordered
  <2>1. phase[u] = "new" /\ \E p \in {"sent", "refused"} : phase' = [phase EXCEPT ![u] = p]
    BY <1>2 DEF Spawned
  <2>2. QED
    BY <1>0, <2>1
<1>3. ASSUME NEW u \in Tasks, Told(u) PROVE Ordered
  <2>1. CASE Takes(Spawn(u)) /\ MakeReady(u)
    <3>1. phase[u] = "sent"
      BY <2>1 DEF QInv, ChannelInv, Takes
    <3>2. QED
      BY <1>0, <2>1, <3>1 DEF MakeReady
  <2>2. CASE phase[u] = "running" /\ MakeReady(u)
    BY <1>0, <2>2 DEF MakeReady
  <2>3. QED
    BY <1>1, <1>3, <2>1, <2>2 DEF Told
<1>4. ASSUME NEW u \in Tasks, Polled(u) PROVE Ordered
  BY <1>0, <1>4, PolledIs
<1>5. ASSUME NEW n, Completed(n) PROVE Ordered
  BY <1>1, <1>5 DEF Completed, CompleteEffect, tasks
<1>6. QED
  BY Effects, <1>1, <1>2, <1>3, <1>4, <1>5
     DEF QInv, Chatter, queues, Woken, Carried, Prepared, HandedOver, Gathered

LEMMA StepEarly ==
    ASSUME QInv, StateAtPc, AskedFor, Announced, EarlyInv, [Next]_vars
    PROVE  EarlyInv'
<1> USE DEF history, Drain
<1>1. ASSUME UNCHANGED early
      PROVE  \A t \in early' : t \in Tasks /\ phase'[t] \notin {"new", "refused"}
  BY <1>1, PhasesInOrder DEF EarlyInv
<1>2. ASSUME UNCHANGED <<early, pc, state, asked, told>> PROVE EarlyInv'
  <2>1. pc' \in {"drain_submit", "drain_wait", "drain_run"} => \A t \in early' : phase'[t] # "sent"
    BY <1>2, PhasesInOrder DEF EarlyInv
  <2>2. pc' = "ending" /\ state' = "Stopping" /\ "kill" \notin asked'
            => \A t \in early' : phase'[t] = "done"
    BY <1>2, PhasesInOrder DEF EarlyInv
  <2>3. pc' = "ended" /\ "kill" \notin asked' /\ "KILL" \notin told'
            => \A t \in early' : phase'[t] = "done"
    BY <1>2, PhasesInOrder DEF EarlyInv
  <2>4. QED
    BY <1>1, <1>2, <2>1, <2>2, <2>3 DEF EarlyInv
<1>3. ASSUME UNCHANGED early, pc' \notin Drain \cup {"ending", "ended"} PROVE EarlyInv'
  BY <1>1, <1>3 DEF EarlyInv
<1>4. CASE Start \/ Poll \/ LoopAgain \/ Complete \/ SkipComplete \/ SubmitIo \/ RunDone
  BY <1>3, <1>4 DEF Start, Poll, LoopAgain, Complete, SkipComplete, SubmitIo, RunDone
<1>5. CASE SetUp
  <2>1. UNCHANGED early /\ (pc' = "poll" \/ (pc' = "ending" /\ state' = "Starting"))
    BY <1>5 DEF SetUp, StateAtPc
  <2>2. QED
    BY <1>1, <2>1 DEF EarlyInv
<1>6. CASE RecvTask \/ RecvSubmit \/ RecvShutdown \/ RecvRepair \/ RecvDone
  BY <1>3, <1>6 DEF RecvTask, RecvSubmit, RecvShutdown, RecvRepair, RecvDone, Receiving
<1>7. CASE RecvKill
  <2>1. Kill \in ToSet(rx)
    BY <1>7, ReceivedTakes DEF RecvKill, QInv, Takes
  <2>2. pc' = "ending" /\ "kill" \in asked' /\ UNCHANGED early
    BY <1>7, <2>1 DEF RecvKill, AskedFor
  <2>3. QED
    BY <1>1, <2>2 DEF EarlyInv
<1>8. CASE BeginDrain
  <2>1. pc' = "drain_recv" /\ UNCHANGED early
    BY <1>8 DEF BeginDrain
  <2>2. QED
    BY <1>1, <2>1 DEF EarlyInv
<1>9. CASE RunTask \/ Signal \/ Break \/ DrainTask \/ DrainSubmission \/ DrainIgnored
  BY <1>2, <1>9 DEF RunTask, Signal, Break, DrainTask, DrainSubmission, DrainIgnored
<1>10. CASE DrainKill
  <2>1. pc' = "ending" /\ state' = "Stopped" /\ UNCHANGED early
    BY <1>10 DEF DrainKill
  <2>2. QED
    BY <1>1, <2>1 DEF EarlyInv
<1>11. CASE DrainEmpty
  <2>1. pc = "drain_recv" /\ pc' = "drain_submit" /\ rx = <<>> /\ UNCHANGED <<early, phase>>
    BY <1>11 DEF DrainEmpty, tasks
  <2>2. \A t \in Tasks : phase[t] # "sent"
    BY <2>1, EmptySequence DEF QInv, ChannelInv, Connected
  <2>3. QED
    BY <1>1, <2>1, <2>2 DEF EarlyInv
<1>12. CASE BlockingSubmit \/ BlockingSubmitReturns
  <2>1. /\ pc \in {"drain_submit", "drain_wait"} /\ pc' \in {"drain_wait", "drain_run"}
        /\ UNCHANGED <<early, phase>>
    BY <1>12 DEF BlockingSubmit, BlockingSubmitReturns, tasks
  <2>2. QED
    BY <2>1 DEF EarlyInv
<1>13. CASE DrainAgain
  <2>1. pc' = "drain_recv" /\ UNCHANGED early
    BY <1>13 DEF DrainAgain
  <2>2. QED
    BY <1>1, <2>1 DEF EarlyInv
<1>14. CASE DrainDone
  <2>1. /\ pc = "drain_run" /\ pc' = "ending" /\ ready_tasks = <<>> /\ Running = {}
        /\ UNCHANGED <<early, phase>>
    BY <1>14 DEF DrainDone, tasks
  <2>2. \A t \in early : phase[t] = "done"
    <3>1. \A t \in Tasks : phase[t] \in Phases /\ phase[t] # "ready" /\ phase[t] # "running"
      BY <2>1, EmptySequence DEF QInv, TaskShapes, ReadyInv, Running
    <3>2. QED
      BY <2>1, <3>1 DEF EarlyInv, Phases
  <2>3. QED
    BY <2>1, <2>2 DEF EarlyInv
<1>15. CASE End
  <2>1. pc = "ending" /\ pc' = "ended" /\ UNCHANGED <<early, phase, asked>>
    BY <1>15 DEF End, tasks
  <2>2. (state = "Stopping" /\ told' = told) \/ "KILL" \in told'
    BY <1>15 DEF End
  <2>3. QED
    BY <2>1, <2>2 DEF EarlyInv
<1>16. ASSUME UNCHANGED <<pc, state, told, phase>>, pc \notin {"ending", "ended"},
              asked = {} => early' = {t \in Tasks : phase[t] \notin {"new", "refused"}},
              asked # {} => early' = early
       PROVE  EarlyInv'
  <2>1. CASE asked = {}
    <3>1. pc \notin Drain
      BY <2>1 DEF Announced, AskedFor
    <3>2. QED
      BY <1>16, <2>1, <3>1 DEF EarlyInv
  <2>2. CASE asked # {}
    BY <1>16, <2>2 DEF EarlyInv
  <2>3. QED
    BY <2>1, <2>2
<1>17. ASSUME NEW how, NEW m, AskToStop(how, m) PROVE EarlyInv'
  BY <1>16, <1>17 DEF AskToStop, Send, Connected, tasks, Accepted
<1>18. CASE RaiseSignal
  BY <1>16, <1>18 DEF RaiseSignal, tasks, Accepted, Loop
<1>19. ASSUME NEW t \in Tasks, SpawnTask(t) \/ WakeAwaiting(t) \/ Nudge(t) PROVE EarlyInv'
  BY <1>2, <1>19 DEF SpawnTask, WakeAwaiting, Nudge
<1>20. ASSUME NEW o \in Ops, KernelCompletes(o) \/ ForeignSubmit(o) \/ ForeignTake(o)
       PROVE  EarlyInv'
  BY <1>2, <1>20 DEF KernelCompletes, ForeignSubmit, ForeignTake
<1>21. CASE UNCHANGED vars
  BY <1>2, <1>21 DEF vars
<1>22. QED
  BY <1>4, <1>5, <1>6, <1>7, <1>8, <1>9, <1>10, <1>11, <1>12, <1>13, <1>14, <1>15, <1>17,
     <1>18, <1>19, <1>20, <1>21 DEF Next, Thread

(* The drain finishes every task that was accepted before the stop was     *)
(* asked for: those whose message is still in the channel, those that are  *)
(* ready and those that wait.                                              *)
THEOREM EarlyFinished == Spec => []EarlyTasksFinish
<1>1. Init => EarlyInv
  BY DEF Init, EarlyInv
<1>2. QInv /\ StateAtPc /\ AskedFor /\ Announced /\ EarlyInv /\ [Next]_vars => EarlyInv'
  BY StepEarly
<1>3. Spec => []EarlyInv
  BY <1>1, <1>2, Queues, Stopping, PTL DEF Spec
<1>4. EarlyInv => EarlyTasksFinish
  BY DEF EarlyInv, EarlyTasksFinish
<1>5. QED
  BY <1>3, <1>4, PTL
=============================================================================
