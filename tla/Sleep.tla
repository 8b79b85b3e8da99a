------------------------------- MODULE Sleep -------------------------------
(***************************************************************************)
(* SleepFuture: a timerfd registered as an event source.  The future's     *)
(* first poll creates the timer, gives it to a handler on some worker and  *)
(* then stores Pending; the handler awaits one event, reads and closes the *)
(* timer, stores Complete (or Failure) and wakes the task of that first    *)
(* poll.  Futures are polled by tasks of other workers, at any moment of   *)
(* the handler's worker; a sleep is its own source.                        *)
(***************************************************************************)
EXTENDS EventSources

CONSTANTS Zero,      \* sleeps of no duration
          Wandering  \* bound: sleeps whose future may be moved or dropped

ASSUME SleepAssumption ==
    Zero \subseteq Sources /\ Wandering \subseteq Sources /\ "none" \notin Sources \cup Fds

VARIABLES
    fut,      \* of each sleep: how far its future is
    state,    \* of each sleep: SleepState
    moved,    \* futures polled by another task since the first poll
    woken,    \* sleeps whose present task will be polled
    open,     \* descriptor numbers in use
    expired,  \* descriptors of timers that went off and were not read
    rang,     \* history: sleeps whose time is over
    spoilt    \* history: why a sleep may never end, or leave its timer open

futures == <<fut, state, moved, woken>>
timers  == <<open, expired, rang>>
vars == <<loop, handlers, registry, fd, futures, timers, spoilt>>

FutStates == {"new", "created", "chosen", "registered", "waiting", "ok", "failed", "dropped"}
Hangs     == {"overwritten", "moved", "zero", "refused", "abandoned", "late"}
Leaks     == {"refused", "abandoned", "early"}

TypeOK ==
    /\ SourcesTypeOK
    /\ fut \in [Sources -> FutStates]
    /\ state \in [Sources -> {"NotSubmitted", "Pending", "Failure", "Complete"}]
    /\ moved \subseteq Sources /\ woken \subseteq Sources
    /\ open \subseteq Fds /\ expired \subseteq open
    /\ rang \subseteq Sources
    /\ spoilt \in [Sources -> SUBSET (Hangs \cup Leaks)]

Init ==
    /\ SourcesInit
    /\ fut = [s \in Sources |-> "new"] /\ state = [s \in Sources |-> "NotSubmitted"]
    /\ moved = {} /\ woken = {} /\ open = {} /\ expired = {} /\ rang = {}
    /\ spoilt = [s \in Sources |-> IF s \in Zero THEN {"zero"} ELSE {}]

-----------------------------------------------------------------------------
(* The future: SleepFuture::poll and submit. *)

At(s, f)   == fut[s] = f
Become(s, f) == fut' = [fut EXCEPT ![s] = f]
Store(s, st) == state' = [state EXCEPT ![s] = st]
Spoil(s, why) == spoilt' = [spoilt EXCEPT ![s] = @ \cup {why}]

(* timerfd_create, timerfd_settime *)
Create(s) ==
    /\ At(s, "new")
    /\ \E f \in Fds \ open : open' = open \cup {f} /\ fd' = [fd EXCEPT ![s] = f]
    /\ Become(s, "created")
    /\ UNCHANGED <<loop, handlers, registry, state, moved, woken, expired, rang, spoilt>>

(* timerfd_create fails: the state stays NotSubmitted. *)
CreateFails(s) ==
    /\ At(s, "new") /\ Become(s, "failed")
    /\ UNCHANGED <<loop, handlers, registry, fd, state, moved, woken, timers, spoilt>>

(* A bug: the error path leaves the timer open. *)
GiveUpUnclosed(s) ==
    /\ Store(s, "Failure") /\ Become(s, "failed")
    /\ UNCHANGED <<loop, handlers, registry, fd, moved, woken, timers, spoilt>>

(* The timer is closed and the state is Failure: settime fails, no worker *)
(* is eligible, or the chosen one is gone.                                *)
GiveUp(s) ==
    /\ open' = open \ {fd[s]} /\ expired' = expired \ {fd[s]}
    /\ Store(s, "Failure") /\ Become(s, "failed")
    /\ UNCHANGED <<loop, handlers, registry, fd, moved, woken, rang, spoilt>>

SetTimeFails(s) == At(s, "created") /\ s \notin rang /\ GiveUp(s)

ChooseWorker(s) ==
    /\ At(s, "created") /\ Eligible /\ Become(s, "chosen")
    /\ UNCHANGED <<loop, handlers, registry, fd, state, moved, woken, timers, spoilt>>

NoWorker(s)  == At(s, "created") /\ ~Eligible /\ GiveUp(s)
SendFails(s) == At(s, "chosen") /\ ~CanSend /\ GiveUp(s)

Register(s) ==
    /\ At(s, "chosen") /\ Spawn(s) /\ Become(s, "registered")
    /\ UNCHANGED <<loop, registry, fd, state, moved, woken, timers, spoilt>>

(* The handler may have been here already. *)
StorePending(s) ==
    /\ At(s, "registered")
    /\ IF state[s] # "NotSubmitted" THEN Spoil(s, "overwritten") ELSE UNCHANGED spoilt
    /\ Store(s, "Pending") /\ Become(s, "waiting")
    /\ UNCHANGED <<loop, handlers, registry, fd, moved, woken, timers>>

PollAgain(s) ==
    /\ At(s, "waiting") /\ woken' = woken \ {s}
    /\ \/ state[s] = "Pending"  /\ UNCHANGED fut
       \/ state[s] = "Complete" /\ Become(s, "ok")
       \/ state[s] = "Failure"  /\ Become(s, "failed")
    /\ UNCHANGED <<loop, handlers, registry, fd, state, moved, timers, spoilt>>

(* The future goes to another task, which polls it; the waker stays the *)
(* first one's.                                                         *)
Move(s) ==
    /\ At(s, "waiting") /\ s \in Wandering \ moved
    /\ moved' = moved \cup {s} /\ woken' = woken \cup {s}
    /\ Spoil(s, "moved")
    /\ UNCHANGED <<loop, handlers, registry, fd, fut, state, timers>>

(* No Drop: the handler and its timer go on. *)
Drop(s) ==
    /\ At(s, "waiting") /\ s \in Wandering /\ Become(s, "dropped")
    /\ UNCHANGED <<loop, handlers, registry, fd, state, moved, woken, timers, spoilt>>

-----------------------------------------------------------------------------
(* The timer; one of no duration is disarmed. *)
Expire(s) ==
    /\ fut[s] \notin {"new", "failed"} \/ task[s] # "none"
    /\ s \notin Zero \cup rang
    /\ rang' = rang \cup {s}
    /\ expired' = IF fd[s] \in open /\ task[s] # "done" THEN expired \cup {fd[s]} ELSE expired
    /\ UNCHANGED <<loop, handlers, registry, fd, futures, open, spoilt>>

-----------------------------------------------------------------------------
(* The handler. *)

WakeFirst(s) == woken' = IF s \in moved THEN woken ELSE woken \cup {s}
(* A bug: the waker is dropped, not called. *)
FinishSilently(s, st) == Store(s, st) /\ UNCHANGED <<fut, moved, woken>>
Finish(s, st) == Store(s, st) /\ WakeFirst(s) /\ UNCHANGED <<fut, moved>>

(* Start: a handler that registers when the last broadcast is over is told *)
(* nothing any more.                                                       *)
Start(s) ==
    /\ StartHandler(s)
    /\ IF phase = "drain" THEN Spoil(s, "late") ELSE UNCHANGED spoilt
    /\ UNCHANGED <<futures, timers>>

Refuse(s) == StartFails(s) /\ Spoil(s, "refused") /\ UNCHANGED <<futures, timers>>

(* A bug: the result of read is not looked at. *)
HandleUnread(s) ==
    /\ MayRun(s) /\ NextEvent(s) /\ PopEvent(s)
    /\ task' = [task EXCEPT ![s] = "closing"]
    /\ open' = open \ {fd[s]} /\ expired' = expired \ {fd[s]}
    /\ interest' = [interest EXCEPT ![fd[s]] = "none"]
    /\ Finish(s, "Complete")
    /\ UNCHANGED <<loop, inbox, queues, sleepers, keyFds, fd, rang, spoilt>>

(* Any event will do; then read and close. *)
Handle(s) ==
    /\ MayRun(s) /\ NextEvent(s) /\ PopEvent(s)
    /\ task' = [task EXCEPT ![s] = "closing"]
    /\ \/ /\ fd[s] \in expired /\ UNCHANGED spoilt
          /\ open' = open \ {fd[s]} /\ expired' = expired \ {fd[s]}
          /\ interest' = [interest EXCEPT ![fd[s]] = "none"]
          /\ Finish(s, "Complete")
       \/ /\ fd[s] \notin expired  \* EAGAIN: the timer is left open
          /\ Finish(s, "Failure") /\ Spoil(s, "early")
          /\ UNCHANGED <<open, expired, interest>>
    /\ UNCHANGED <<loop, inbox, queues, sleepers, keyFds, fd, rang>>

-----------------------------------------------------------------------------
(* The worker's steps; a worker that ends drops the handlers it has. *)

AndSpoil == spoilt' = [s \in Sources |-> IF task'[s] = "lost" THEN spoilt[s] \cup {"abandoned"}
                                                             ELSE spoilt[s]]

WorkerStep ==
    \/ PollEvents(expired) \/ TurnRecv \/ RecvKill \/ EndTurn
    \/ BeginDrain \/ DrainRecv \/ DrainAgain \/ DrainDone

Loop == WorkerStep /\ AndSpoil /\ UNCHANGED <<futures, timers>>

Clean(s) == Deregister(s) /\ UNCHANGED <<futures, timers, spoilt>>

HandlerStep(s) == Start(s) \/ Refuse(s) \/ Handle(s) \/ Clean(s)

FirstPoll(s) == Create(s) \/ CreateFails(s) \/ SetTimeFails(s) \/ ChooseWorker(s) \/ NoWorker(s)
                \/ SendFails(s) \/ Register(s) \/ StorePending(s)

Next ==
    \/ Loop
    \/ AskToStop /\ UNCHANGED <<futures, timers, spoilt>>
    \/ \E s \in Sources : HandlerStep(s) \/ FirstPoll(s) \/ PollAgain(s) \/ Move(s) \/ Drop(s) \/ Expire(s)

Spec == Init /\ [][Next]_vars

(* Worker threads run, timers go off, woken tasks are polled; nobody must *)
(* poll a sleep first, drop or move it, or stop the worker.               *)
Fairness ==
    /\ WF_vars(Loop)
    /\ \A s \in Sources : /\ WF_vars(HandlerStep(s)) /\ WF_vars(Expire(s))
                          /\ WF_vars(~At(s, "new") /\ FirstPoll(s))
                          /\ WF_vars(s \in woken /\ PollAgain(s))
FairSpec == Spec /\ Fairness
-----------------------------------------------------------------------------
(* A sleep that returns Ok slept: a SHUTDOWN event ends a sleep too, but a *)
(* timer that did not go off cannot be read.                               *)
NeverEarly == \A s \in Sources : state[s] = "Complete" \/ At(s, "ok") => s \in rang

(* Nobody closes a descriptor another sleep got meanwhile, and a timer is  *)
(* left open only by a handler that did not run to its close: refused,     *)
(* dropped with its worker, or told of the shutdown before its time.       *)
UsesFd(s)  == fut[s] \in {"created", "chosen"} \/ task[s] \in {"sent", "ready", "parked"}
Leaked(s)  == spoilt[s] \cap Leaks # {}
TimersAccounted ==
    /\ \A s, t \in Sources : UsesFd(s) /\ UsesFd(t) /\ fd[s] = fd[t] => s = t
    /\ \A s \in Sources : UsesFd(s) => fd[s] \in open
    /\ \A f \in open : \E s \in Sources : fd[s] = f /\ (UsesFd(s) \/ Leaked(s))

(* The loop goes on to report the timer of a handler that waits for it: no *)
(* deregistration by number hits the descriptor's next owner.              *)
InterestKept ==
    \A s \in Sources : task[s] = "parked" /\ queue[s] = <<>> => interest[fd[s]] = s

(* Every sleep that waits ends, but for the named causes. *)
SleepEnds ==
    \A s \in Sources : At(s, "waiting") ~> (~At(s, "waiting") \/ spoilt[s] \cap Hangs # {})

(* A worker that stops is done once its handlers are, unless one of them *)
(* registered after the broadcast.                                       *)
StopEnds == stopping ~> (phase = "ended" \/ \E s \in Sources : "late" \in spoilt[s])
=============================================================================
