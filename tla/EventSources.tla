---------------------------- MODULE EventSources ----------------------------
(***************************************************************************)
(* Event sources and the worker that serves them: a descriptor registered  *)
(* with ThreadPool::register_event_source gets a handler task on one       *)
(* worker, an entry in that worker's epoll instance and a queue of events. *)
(* The handler's first poll registers both; the loop pushes what epoll     *)
(* reports to the queues and wakes their handlers; when the worker stops   *)
(* it tells every queue it has, once, and never polls epoll again.         *)
(*                                                                         *)
(* What a handler does with an event is left to the module that extends    *)
(* this one.  Sources are registered READ | ONESHOT, as the program does;  *)
(* messages, wakes and the executor in detail are in Worker.               *)
(***************************************************************************)
EXTENDS Naturals, Sequences

CONSTANTS Sources,  \* keys: one registration each
          Fds       \* descriptor numbers; a closed one is used again

VARIABLES
    phase,     \* of the worker: "poll", "turn", "drain", "ended"
    stopping,  \* WorkerState::Stopping
    asked,     \* Shutdown and Kill messages in the channel
    inbox,     \* handlers whose task or wake is in the channel
    recv,      \* should_recv
    task,      \* of each handler
    queues,    \* EventQueueRegistry: sources with a queue
    queue,     \* of each source: EventQueue.queue
    sleepers,  \* sources whose handler's waker is in EventQueue.waker_queue
    fd,        \* of each source: its descriptor number, or "none"
    keyFds,    \* EventPollerRegistry.key_fds: keys it knows
    interest   \* epoll: of each descriptor the key it reports, or "none"

loop     == <<phase, stopping, asked, recv>>
handlers == <<inbox, task>>
registry == <<queues, queue, sleepers, keyFds, interest>>

TaskStates == {"none", "sent", "ready", "parked", "closing", "done", "lost"}

SourcesTypeOK ==
    /\ phase \in {"poll", "turn", "drain", "ended"}
    /\ stopping \in BOOLEAN /\ recv \in BOOLEAN
    /\ asked \subseteq {"shutdown", "kill"}
    /\ task \in [Sources -> TaskStates]
    /\ inbox \subseteq Sources /\ queues \subseteq Sources
    /\ sleepers \subseteq Sources /\ keyFds \subseteq Sources
    /\ queue \in [Sources -> Seq({"READABLE", "SHUTDOWN"})]
    /\ fd \in [Sources -> Fds \cup {"none"}]
    /\ interest \in [Fds -> Sources \cup {"none"}]

SourcesInit ==
    /\ phase = "poll" /\ stopping = FALSE /\ asked = {} /\ recv = FALSE
    /\ task = [s \in Sources |-> "none"] /\ inbox = {}
    /\ queues = {} /\ queue = [s \in Sources |-> <<>>] /\ sleepers = {}
    /\ fd = [s \in Sources |-> "none"]
    /\ keyFds = {} /\ interest = [f \in Fds |-> "none"]

(* A bug: the handler's frame awaits something before it cleans up. *)
OthersMayRun == TRUE

(* A task runs to its next await before another does. *)
NobodyRuns == \A s \in Sources : task[s] # "closing"
Ready      == {s \in Sources : task[s] = "ready"}
Alive      == {s \in Sources : task[s] \in {"ready", "parked", "closing"}}

-----------------------------------------------------------------------------
(* Other threads. *)

(* get_next_worker skips a worker that stops, and send fails when the loop *)
(* and its end of the channel are gone.                                    *)
Eligible == ~stopping /\ phase # "ended"
CanSend  == phase # "ended"

Spawn(s) ==
    /\ CanSend
    /\ task' = [task EXCEPT ![s] = "sent"]
    /\ inbox' = inbox \cup {s}

AskToStop ==
    /\ phase # "ended"
    /\ \E m \in {"shutdown", "kill"} : m \notin asked /\ asked' = asked \cup {m}
    /\ UNCHANGED <<phase, stopping, recv, handlers, registry, fd>>

-----------------------------------------------------------------------------
(* EventQueue and its registry. *)

Push(keys, event) ==
    queue' = [s \in Sources |-> IF s \in keys THEN Append(queue[s], event) ELSE queue[s]]

(* EventQueue::wake empties the waker queue; a waker sends WakeTask. *)
Wake(keys) ==
    /\ inbox' = inbox \cup (sleepers \cap keys)
    /\ sleepers' = sleepers \ keys

(* NextEventFuture::poll *)
NextEvent(s) == s \in queues /\ queue[s] # <<>>
PopEvent(s)  == queue' = [queue EXCEPT ![s] = Tail(@)]

-----------------------------------------------------------------------------
(* The worker's loop. *)

(* epoll_wait; events for keys without a queue are dropped.  ONESHOT *)
(* disarms what it reports.                                          *)
PollEvents(readable) ==
    LET reported == {f \in readable : interest[f] # "none"}
        keys     == {interest[f] : f \in reported} \cap queues
    IN  /\ phase = "poll"
        /\ reported # {} \/ inbox # {} \/ asked # {}
        /\ phase' = "turn"
        /\ recv' = (inbox # {} \/ asked # {})
        /\ interest' = [f \in Fds |-> IF f \in reported THEN "none" ELSE interest[f]]
        /\ Push(keys, "READABLE") /\ Wake(keys)
        /\ UNCHANGED <<stopping, asked, task, queues, keyFds, fd>>

Deliver ==
    /\ task' = [s \in Sources |-> IF s \in inbox /\ task[s] # "done" THEN "ready" ELSE task[s]]
    /\ inbox' = {}

(* Tasks left behind in the executor or the channel are dropped. *)
Abandon == task' = [s \in Sources |-> IF s \in Alive \cup inbox /\ task[s] # "done"
                                        THEN "lost" ELSE task[s]]

TurnRecv ==
    /\ phase = "turn" /\ recv /\ NobodyRuns /\ "kill" \notin asked
    /\ recv' = FALSE
    /\ stopping' = (stopping \/ "shutdown" \in asked)
    /\ asked' = {}
    /\ Deliver
    /\ UNCHANGED <<phase, registry, fd>>

RecvKill ==
    /\ phase \in {"turn", "drain"} /\ recv /\ NobodyRuns /\ "kill" \in asked
    /\ phase' = "ended" /\ asked' = {} /\ inbox' = {}
    /\ Abandon
    /\ UNCHANGED <<stopping, recv, registry, fd>>

EndTurn ==
    /\ phase = "turn" /\ ~recv /\ NobodyRuns /\ Ready = {} /\ ~stopping
    /\ phase' = "poll"
    /\ UNCHANGED <<stopping, asked, recv, handlers, registry, fd>>

(* A bug: the queues are filled and nobody is woken. *)
BeginDrainSilently ==
    /\ phase = "turn" /\ ~recv /\ NobodyRuns /\ Ready = {} /\ stopping
    /\ phase' = "drain" /\ recv' = TRUE
    /\ Push(queues, "SHUTDOWN")
    /\ UNCHANGED <<stopping, asked, handlers, queues, sleepers, keyFds, interest, fd>>

(* The last turn: broadcast_and_wake(SHUTDOWN) to the queues there are. *)
BeginDrain ==
    /\ phase = "turn" /\ ~recv /\ NobodyRuns /\ Ready = {} /\ stopping
    /\ phase' = "drain" /\ recv' = TRUE
    /\ Push(queues, "SHUTDOWN") /\ Wake(queues)
    /\ UNCHANGED <<stopping, asked, task, queues, keyFds, interest, fd>>

DrainRecv ==
    /\ phase = "drain" /\ recv /\ NobodyRuns /\ "kill" \notin asked
    /\ recv' = FALSE /\ asked' = {}
    /\ Deliver
    /\ UNCHANGED <<phase, stopping, registry, fd>>

DrainAgain ==
    /\ phase = "drain" /\ ~recv /\ NobodyRuns /\ Ready = {} /\ Alive # {}
    /\ recv' = TRUE
    /\ UNCHANGED <<phase, stopping, asked, handlers, registry, fd>>

(* What was sent since the last try_recv is dropped with the channel. *)
DrainDone ==
    /\ phase = "drain" /\ ~recv /\ Alive = {}
    /\ phase' = "ended" /\ queues' = {} /\ inbox' = {}
    /\ Abandon
    /\ UNCHANGED <<stopping, asked, recv, queue, sleepers, keyFds, interest, fd>>

-----------------------------------------------------------------------------
(* The handler task's frame in register_event_source. *)

MayRun(s) == phase \in {"turn", "drain"} /\ ~recv /\ NobodyRuns /\ task[s] = "ready"

(* First poll: register_interest, a queue, and on to the first await. *)
StartHandler(s) ==
    /\ MayRun(s) /\ s \notin queues
    /\ interest' = [interest EXCEPT ![fd[s]] = s]
    /\ keyFds' = keyFds \cup {s} /\ queues' = queues \cup {s}
    /\ sleepers' = sleepers \cup {s}
    /\ task' = [task EXCEPT ![s] = "parked"]
    /\ UNCHANGED <<loop, inbox, queue, fd>>

(* register_interest fails: the task is over, its handler never ran. *)
StartFails(s) ==
    /\ MayRun(s) /\ s \notin queues
    /\ task' = [task EXCEPT ![s] = "done"]
    /\ UNCHANGED <<loop, inbox, registry, fd>>

(* After the handler: epoll forgets the descriptor number it was given, *)
(* whatever file that number names by now.                              *)
Deregister(s) ==
    /\ task[s] = "closing"
    /\ task' = [task EXCEPT ![s] = "done"]
    /\ interest' = [interest EXCEPT ![fd[s]] = "none"]
    /\ keyFds' = keyFds \ {s} /\ queues' = queues \ {s}
    /\ UNCHANGED <<loop, inbox, queue, sleepers, fd>>
=============================================================================
