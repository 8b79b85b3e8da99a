---------------------------- MODULE SleepProofs ----------------------------
(***************************************************************************)
(* What holds of sleeps for any number of them, and any descriptor         *)
(* numbers: who owns a timer, and what that says of the results told.      *)
(***************************************************************************)
EXTENDS Sleep, TLAPS

(* TypeOK in two halves: no prover takes the Boolean flags and the others  *)
(* at once.                                                                *)
Flags == stopping \in BOOLEAN /\ recv \in BOOLEAN
Shapes ==
    /\ phase \in {"poll", "turn", "drain", "ended"}
    /\ asked \subseteq {"shutdown", "kill"}
    /\ task \in [Sources -> TaskStates]
    /\ inbox \subseteq Sources /\ queues \subseteq Sources
    /\ sleepers \subseteq Sources /\ keyFds \subseteq Sources
    /\ queue \in [Sources -> Seq({"READABLE", "SHUTDOWN"})]
    /\ fd \in [Sources -> Fds \cup {"none"}]
    /\ interest \in [Fds -> Sources \cup {"none"}]
    /\ fut \in [Sources -> FutStates]
    /\ state \in [Sources -> {"NotSubmitted", "Pending", "Failure", "Complete"}]
    /\ moved \subseteq Sources /\ woken \subseteq Sources
    /\ open \subseteq Fds /\ expired \subseteq open
    /\ rang \subseteq Sources
    /\ spoilt \in [Sources -> SUBSET (Hangs \cup Leaks)]

(* How far the handler of a sleep is. *)
Progress ==
    \A s \in Sources :
        /\ fut[s] = "new" => fd[s] = "none"
        /\ fut[s] \in {"new", "created", "chosen"} => task[s] = "none"
        /\ fut[s] \notin {"new", "created", "chosen", "failed"} => task[s] # "none"
        /\ task[s] = "none" => s \notin inbox \cup sleepers \cup queues
        /\ task[s] = "parked" => s \in queues
        /\ task[s] \in {"none", "sent", "ready", "parked", "lost"} => "early" \notin spoilt[s]
        /\ task[s] = "lost" => "abandoned" \in spoilt[s]
        /\ task[s] = "closing" => s \in rang \/ "early" \in spoilt[s]

(* A sleep has its timer until it, or its handler, closes it. *)
Holds(s) ==
    \/ fut[s] \in {"created", "chosen"}
    \/ task[s] \in {"sent", "ready", "parked", "lost"}
    \/ task[s] = "closing" /\ "early" \in spoilt[s]
Owned ==
    /\ \A s, t \in Sources : Holds(s) /\ Holds(t) /\ fd[s] = fd[t] => s = t
    /\ \A s \in Sources : Holds(s) => fd[s] \in open
    /\ \A s \in Sources : Holds(s) /\ fd[s] \in expired => s \in rang
Accounted == \A f \in open : \E s \in Sources : fd[s] = f /\ (UsesFd(s) \/ Leaked(s))

(* The descriptor a handler has closed is not one that another waits on:   *)
(* no handler registers before that handler has cleaned up.                *)
Apart ==
    \A s, t \in Sources : task[s] = "parked" /\ task[t] = "closing" => fd[s] # fd[t]

IInv == Shapes /\ Progress /\ Owned /\ Accounted /\ NeverEarly /\ Apart /\ InterestKept

LEMMA InitIInv == Init => IInv
<1> SUFFICES ASSUME Init PROVE IInv
  OBVIOUS
<1>1. Shapes
  BY DEF Init, SourcesInit, Shapes, TaskStates, FutStates, Hangs
<1>2. Progress
  BY DEF Init, SourcesInit, Progress
<1>3. Owned /\ Accounted
  BY DEF Init, SourcesInit, Owned, Accounted, Holds
<1>4. NeverEarly /\ Apart /\ InterestKept
  BY DEF Init, SourcesInit, NeverEarly, Apart, InterestKept, At
<1>5. QED
  BY <1>1, <1>2, <1>3, <1>4 DEF IInv

-----------------------------------------------------------------------------
(* The future's steps. *)

LEMMA CreateStep == ASSUME IInv, NEW s \in Sources, Create(s) PROVE IInv'
<1> USE DEF IInv
<1> PICK f \in Fds \ open : open' = open \cup {f} /\ fd' = [fd EXCEPT ![s] = f]
  BY DEF Create
<1>1. /\ fut[s] = "new" /\ fut' = [fut EXCEPT ![s] = "created"]
      /\ UNCHANGED <<loop, handlers, registry, state, moved, woken, expired, rang, spoilt>>
  BY DEF Create, At, Become
<1> USE DEF loop, handlers, registry
<1>2. Shapes'
  BY <1>1 DEF Shapes, FutStates
<1>3. task[s] = "none" /\ ~Holds(s)
  BY <1>1 DEF Progress, Holds
<1>4. Progress'
  BY <1>1 DEF Shapes, Progress
<1>5. Owned'
  BY <1>1, <1>3 DEF Shapes, Owned, Holds
<1>6. Accounted'
  <2>1. fd[s] \notin open
    BY <1>1, SleepAssumption DEF Progress, Shapes
  <2>2. UsesFd(s)' /\ fd'[s] = f
    BY <1>1 DEF Shapes, UsesFd
  <2>3. \A t \in Sources : fd[t] \in open =>
           fd'[t] = fd[t] /\ (UsesFd(t) => UsesFd(t)') /\ (Leaked(t) => Leaked(t)')
    BY <1>1, <2>1 DEF Shapes, UsesFd, Leaked
  <2>4. QED
    BY <2>2, <2>3 DEF Accounted
<1>7. NeverEarly'
  BY <1>1 DEF Shapes, NeverEarly, At
<1>8. Apart' /\ InterestKept'
  BY <1>1, <1>3 DEF Shapes, Apart, InterestKept
<1>9. QED
  BY <1>2, <1>4, <1>5, <1>6, <1>7, <1>8

(* The timer is closed by the future that made it. *)
LEMMA GiveUpStep ==
    ASSUME IInv, NEW s \in Sources, fut[s] \in {"created", "chosen"}, GiveUp(s)
    PROVE  IInv'
<1> USE DEF IInv
<1>1. /\ open' = open \ {fd[s]} /\ expired' = expired \ {fd[s]}
      /\ state' = [state EXCEPT ![s] = "Failure"] /\ fut' = [fut EXCEPT ![s] = "failed"]
      /\ UNCHANGED <<loop, handlers, registry, fd, moved, woken, rang, spoilt>>
  BY DEF GiveUp, Store, Become
<1> USE DEF loop, handlers, registry
<1>2. Shapes'
  BY <1>1 DEF Shapes, FutStates
<1>3. task[s] = "none" /\ Holds(s)
  BY <1>1 DEF Progress, Holds
<1>4. Progress'
  BY <1>1, <1>3 DEF Shapes, Progress
<1>5. \A t \in Sources : (Holds(t)' => Holds(t)) /\ ~Holds(s)'
  BY <1>1, <1>3 DEF Shapes, Holds
<1>6. Owned'
  <2>1. \A t \in Sources : Holds(t)' => fd[t] # fd[s]
    BY <1>3, <1>5 DEF Owned
  <2>2. QED
    BY <1>1, <1>5, <2>1 DEF Shapes, Owned
<1>7. Accounted'
  <2>1. \A t \in Sources : t # s => (UsesFd(t) => UsesFd(t)') /\ (Leaked(t) => Leaked(t)')
    BY <1>1 DEF Shapes, UsesFd, Leaked
  <2>2. QED
    BY <1>1, <2>1 DEF Accounted
<1>8. NeverEarly'
  BY <1>1 DEF Shapes, NeverEarly, At
<1>9. Apart' /\ InterestKept'
  BY <1>1 DEF Apart, InterestKept
<1>10. QED
  BY <1>2, <1>4, <1>6, <1>7, <1>8, <1>9

(* Steps that say nothing of who has the timer. *)
LEMMA QuietStep ==
    ASSUME IInv, Shapes', UNCHANGED <<loop, handlers, registry, fd, timers>>,
           \A s \in Sources : \/ fut'[s] = fut[s]
                              \/ fut'[s] = "chosen" /\ fut[s] = "created"
                              \/ fut'[s] = "failed" /\ fut[s] \notin {"created", "chosen"}
                              \/ fut[s] = "waiting" /\ fut'[s] \in {"ok", "dropped"},
           \A s \in Sources : spoilt[s] \subseteq spoilt'[s]
                             /\ ("early" \in spoilt'[s] => "early" \in spoilt[s]),
           NeverEarly'
    PROVE  IInv'
<1> USE DEF IInv, loop, handlers, registry, timers
<1>1. Progress'
  BY DEF Progress
<1>2. \A s \in Sources : /\ Holds(s)' <=> Holds(s)
                         /\ UsesFd(s) => UsesFd(s)'
                         /\ Leaked(s) => Leaked(s)'
  BY DEF Holds, UsesFd, Leaked
<1>3. Owned'
  BY <1>2 DEF Owned
<1>4. Accounted'
  BY <1>2 DEF Accounted
<1>5. Apart' /\ InterestKept'
  BY DEF Apart, InterestKept
<1>6. QED
  BY <1>1, <1>3, <1>4, <1>5

LEMMA StorePendingStep == ASSUME IInv, NEW s \in Sources, StorePending(s) PROVE IInv'
<1> USE DEF IInv
<1>1. /\ fut[s] = "registered" /\ fut' = [fut EXCEPT ![s] = "waiting"]
      /\ state' = [state EXCEPT ![s] = "Pending"]
      /\ UNCHANGED <<loop, handlers, registry, fd, moved, woken, timers>>
      /\ spoilt' = spoilt \/ spoilt' = [spoilt EXCEPT ![s] = @ \cup {"overwritten"}]
  BY DEF StorePending, At, Become, Store, Spoil
<1> USE DEF loop, handlers, registry, timers
<1>2. Shapes'
  BY <1>1, SMTT(30) DEF Shapes, FutStates, Hangs
<1>3. Progress'
  BY <1>1 DEF Shapes, Progress
<1>4. \A t \in Sources : /\ Holds(t)' <=> Holds(t)
                         /\ UsesFd(t) => UsesFd(t)'
                         /\ Leaked(t) => Leaked(t)'
  BY <1>1 DEF Shapes, Holds, UsesFd, Leaked
<1>5. Owned' /\ Accounted'
  BY <1>1, <1>4 DEF Owned, Accounted
<1>6. NeverEarly'
  BY <1>1 DEF Shapes, NeverEarly, At
<1>7. Apart' /\ InterestKept'
  BY <1>1 DEF Apart, InterestKept
<1>8. QED
  BY <1>2, <1>3, <1>5, <1>6, <1>7

LEMMA RegisterStep == ASSUME IInv, NEW s \in Sources, Register(s) PROVE IInv'
<1> USE DEF IInv
<1>1. /\ fut[s] = "chosen" /\ fut' = [fut EXCEPT ![s] = "registered"]
      /\ task' = [task EXCEPT ![s] = "sent"] /\ inbox' = inbox \cup {s}
      /\ UNCHANGED <<loop, registry, fd, state, moved, woken, timers, spoilt>>
  BY DEF Register, Spawn, At, Become
<1> USE DEF loop, registry, timers
<1>2. Shapes'
  BY <1>1 DEF Shapes, FutStates, TaskStates
<1>3. task[s] = "none" /\ Holds(s)
  BY <1>1 DEF Progress, Holds
<1>4. Progress'
  BY <1>1, <1>3 DEF Shapes, Progress
<1>5. \A t \in Sources : /\ Holds(t)' <=> Holds(t)
                         /\ UsesFd(t) => UsesFd(t)'
                         /\ Leaked(t) => Leaked(t)'
  BY <1>1, <1>3 DEF Shapes, Holds, UsesFd, Leaked
<1>6. Owned' /\ Accounted'
  BY <1>1, <1>5 DEF Owned, Accounted
<1>7. NeverEarly'
  BY <1>1 DEF Shapes, NeverEarly, At
<1>8. Apart' /\ InterestKept'
  BY <1>1, <1>3 DEF Shapes, Apart, InterestKept
<1>9. QED
  BY <1>2, <1>4, <1>6, <1>7, <1>8

LEMMA ExpireStep == ASSUME IInv, NEW s \in Sources, Expire(s) PROVE IInv'
<1> USE DEF IInv
<1>1. /\ fut[s] \notin {"new", "failed"} \/ task[s] # "none"
      /\ s \notin rang /\ rang' = rang \cup {s}
      /\ expired' = IF fd[s] \in open /\ task[s] # "done" THEN expired \cup {fd[s]} ELSE expired
      /\ UNCHANGED <<loop, handlers, registry, fd, futures, open, spoilt>>
  BY DEF Expire
<1> USE DEF loop, handlers, registry, futures
<1>2. Shapes'
  BY <1>1 DEF Shapes
<1>3. Progress' /\ NeverEarly'
  BY <1>1 DEF Progress, NeverEarly, At
<1>4. task[s] # "done" => Holds(s)
  BY <1>1 DEF Shapes, TaskStates, FutStates, Progress, Holds
<1>5. Owned'
  BY <1>1, <1>4 DEF Owned, Holds
<1>6. Accounted'
  BY <1>1 DEF Accounted, UsesFd, Leaked
<1>7. Apart' /\ InterestKept'
  BY <1>1 DEF Apart, InterestKept
<1>8. QED
  BY <1>2, <1>3, <1>5, <1>6, <1>7

-----------------------------------------------------------------------------
(* The handler's steps. *)

LEMMA StartStep == ASSUME IInv, NEW s \in Sources, Start(s) PROVE IInv'
<1> USE DEF IInv
<1>1. /\ NobodyRuns /\ task[s] = "ready" /\ task' = [task EXCEPT ![s] = "parked"]
      /\ interest' = [interest EXCEPT ![fd[s]] = s]
      /\ keyFds' = keyFds \cup {s} /\ queues' = queues \cup {s} /\ sleepers' = sleepers \cup {s}
      /\ UNCHANGED <<loop, inbox, queue, fd, futures, timers>>
      /\ spoilt' = spoilt \/ spoilt' = [spoilt EXCEPT ![s] = @ \cup {"late"}]
  BY DEF Start, StartHandler, MayRun, Spoil
<1> USE DEF loop, futures, timers
<1>2. Shapes'
  <2>1. spoilt' \in [Sources -> SUBSET (Hangs \cup Leaks)]
    <3>1. spoilt[s] \cup {"late"} \in SUBSET (Hangs \cup Leaks)
      BY DEF Shapes, Hangs
    <3>2. QED
      BY <1>1, <3>1, ZenonT(60) DEF Shapes
  <2>2. interest' \in [Fds -> Sources \cup {"none"}]
    BY <1>1 DEF Shapes
  <2>3. task' \in [Sources -> TaskStates]
    BY <1>1 DEF Shapes, TaskStates
  <2>4. QED
    BY <1>1, <2>1, <2>2, <2>3 DEF Shapes
<1>3. Progress'
  BY <1>1 DEF Shapes, Progress
<1>4. \A t \in Sources : /\ Holds(t)' <=> Holds(t)
                         /\ UsesFd(t) => UsesFd(t)'
                         /\ Leaked(t) => Leaked(t)'
  BY <1>1 DEF Shapes, Holds, UsesFd, Leaked
<1>5. Owned' /\ Accounted'
  BY <1>1, <1>4 DEF Owned, Accounted
<1>6. NeverEarly'
  BY <1>1 DEF NeverEarly, At
<1>7. Apart'
  BY <1>1 DEF Shapes, Apart, NobodyRuns
<1>8. InterestKept'
  <2>1. fd[s] \in Fds
    BY <1>1 DEF Shapes, Owned, Holds
  <2>2. \A t \in Sources : t # s /\ task[t] = "parked" => fd[t] # fd[s]
    BY <1>1 DEF Owned, Holds
  <2>3. QED
    BY <1>1, <2>1, <2>2 DEF Shapes, InterestKept
<1>9. QED
  BY <1>2, <1>3, <1>5, <1>6, <1>7, <1>8

LEMMA RefuseStep == ASSUME IInv, NEW s \in Sources, Refuse(s) PROVE IInv'
<1> USE DEF IInv
<1>1. /\ task[s] = "ready" /\ task' = [task EXCEPT ![s] = "done"]
      /\ spoilt' = [spoilt EXCEPT ![s] = @ \cup {"refused"}]
      /\ UNCHANGED <<loop, inbox, registry, fd, futures, timers>>
  BY DEF Refuse, StartFails, MayRun, Spoil
<1> USE DEF loop, registry, futures, timers
<1>2. Shapes'
  BY <1>1 DEF Shapes, TaskStates, Hangs
<1>3. Progress'
  BY <1>1 DEF Shapes, Progress
<1>4. \A t \in Sources : /\ Holds(t)' => Holds(t)
                         /\ UsesFd(t) => UsesFd(t)' \/ Leaked(t)'
                         /\ Leaked(t) => Leaked(t)'
  BY <1>1, ZenonT(60) DEF Shapes, Holds, UsesFd, Leaked, Leaks
<1>5. Owned' /\ Accounted'
  BY <1>1, <1>4 DEF Owned, Accounted
<1>6. NeverEarly'
  BY <1>1 DEF NeverEarly, At
<1>7. Apart' /\ InterestKept'
  BY <1>1 DEF Shapes, Apart, InterestKept
<1>8. QED
  BY <1>2, <1>3, <1>5, <1>6, <1>7

(* The read of a timer that went off, and the close; or the read that      *)
(* fails, and the timer left open.                                         *)
LEMMA HandleStep == ASSUME IInv, NEW s \in Sources, Handle(s) PROVE IInv'
<1> USE DEF IInv
<1> DEFINE Read  == /\ fd[s] \in expired /\ UNCHANGED spoilt
                    /\ open' = open \ {fd[s]} /\ expired' = expired \ {fd[s]}
                    /\ interest' = [interest EXCEPT ![fd[s]] = "none"]
                    /\ state' = [state EXCEPT ![s] = "Complete"]
           Again == /\ spoilt' = [spoilt EXCEPT ![s] = @ \cup {"early"}]
                    /\ state' = [state EXCEPT ![s] = "Failure"]
                    /\ UNCHANGED <<open, expired, interest>>
<1>1. /\ NobodyRuns /\ task[s] = "ready" /\ task' = [task EXCEPT ![s] = "closing"]
      /\ queue[s] # <<>> /\ queue' = [queue EXCEPT ![s] = Tail(@)]
      /\ woken' = woken \/ woken' = woken \cup {s}
      /\ UNCHANGED <<loop, inbox, queues, sleepers, keyFds, fd, rang, fut, moved>>
  BY DEF Handle, MayRun, NextEvent, PopEvent, Finish, WakeFirst
<1>2. Read \/ Again
  BY DEF Handle, Finish, Store, Spoil
<1> USE DEF loop
<1>3. Shapes'
  <2>1. queue' \in [Sources -> Seq({"READABLE", "SHUTDOWN"})]
    <3>1. Tail(queue[s]) \in Seq({"READABLE", "SHUTDOWN"})
      BY <1>1 DEF Shapes
    <3>2. QED
      BY <1>1, <3>1 DEF Shapes
  <2>2. task' \in [Sources -> TaskStates]
    BY <1>1 DEF Shapes, TaskStates
  <2>3. spoilt' \in [Sources -> SUBSET (Hangs \cup Leaks)]
    BY <1>2 DEF Shapes, Leaks
  <2>4. open' \subseteq Fds /\ expired' \subseteq open' /\ interest' \in [Fds -> Sources \cup {"none"}]
    BY <1>2 DEF Shapes
  <2>5. state' \in [Sources -> {"NotSubmitted", "Pending", "Failure", "Complete"}]
    BY <1>2 DEF Shapes
  <2>6. QED
    BY <1>1, <2>1, <2>2, <2>3, <2>4, <2>5 DEF Shapes
<1>4. Holds(s) /\ fd[s] \in Fds
  BY <1>1 DEF Shapes, Owned, Holds
<1>5. Read => s \in rang
  BY <1>4 DEF Owned
<1>6. Progress'
  BY <1>1, <1>2, <1>5 DEF Shapes, Progress
<1>7. \A t \in Sources : Holds(t)' => Holds(t) /\ (Read => t # s)
  BY <1>1, <1>2 DEF Shapes, Progress, Holds
<1>8. Owned'
  <2>1. \A t \in Sources : Holds(t)' => fd[t] \in open'
    BY <1>2, <1>4, <1>7 DEF Owned
  <2>2. QED
    BY <1>1, <1>2, <1>7, <2>1 DEF Owned
<1>9. Accounted'
  <2>1. \A t \in Sources : t # s => (UsesFd(t) => UsesFd(t)') /\ (Leaked(t) => Leaked(t)')
    BY <1>1, <1>2 DEF Shapes, UsesFd, Leaked
  <2>2. Again => Leaked(s)'
    <3>1. Again => "early" \in spoilt'[s]
      BY DEF Shapes
    <3>2. QED
      BY <3>1 DEF Leaked, Leaks
  <2>3. QED
    BY <1>1, <1>2, <2>1, <2>2 DEF Accounted
<1>10. NeverEarly'
  BY <1>1, <1>2, <1>5 DEF Shapes, NeverEarly, At
<1>11. Apart'
  <2>1. \A t \in Sources : task[t] = "parked" => fd[t] # fd[s]
    BY <1>1, <1>4 DEF Owned, Holds
  <2>2. QED
    BY <1>1, <2>1 DEF Shapes, Apart, NobodyRuns
<1>12. InterestKept'
  <2>1. \A t \in Sources : task[t] = "parked" => fd[t] # fd[s]
    BY <1>1, <1>4 DEF Owned, Holds
  <2>2. ASSUME NEW t \in Sources, task'[t] = "parked", queue'[t] = <<>>
        PROVE  interest'[fd'[t]] = t
    <3>1. t # s /\ task[t] = "parked" /\ queue[t] = <<>> /\ fd'[t] = fd[t]
      BY <1>1, <2>2 DEF Shapes
    <3>2. interest[fd[t]] = t /\ fd[t] # fd[s] /\ fd[t] \in Fds
      BY <2>1, <3>1 DEF Shapes, InterestKept, Owned, Holds
    <3>3. QED
      BY <1>2, <3>1, <3>2 DEF Shapes
  <2>3. QED
    BY <2>2 DEF InterestKept
<1>13. QED
  BY <1>3, <1>6, <1>8, <1>9, <1>10, <1>11, <1>12

(* Nobody who waits has the descriptor number that epoll forgets. *)
LEMMA CleanStep == ASSUME IInv, NEW s \in Sources, Clean(s) PROVE IInv'
<1> USE DEF IInv
<1>1. /\ task[s] = "closing" /\ task' = [task EXCEPT ![s] = "done"]
      /\ interest' = [interest EXCEPT ![fd[s]] = "none"]
      /\ keyFds' = keyFds \ {s} /\ queues' = queues \ {s}
      /\ UNCHANGED <<loop, inbox, queue, sleepers, fd, futures, timers, spoilt>>
  BY DEF Clean, Deregister
<1> USE DEF loop, futures, timers
<1>2. Shapes'
  BY <1>1 DEF Shapes, TaskStates
<1>3. Progress'
  BY <1>1 DEF Shapes, Progress
<1>4. \A t \in Sources : /\ Holds(t)' => Holds(t)
                         /\ UsesFd(t) => UsesFd(t)'
                         /\ Leaked(t) => Leaked(t)'
  BY <1>1 DEF Shapes, Holds, UsesFd, Leaked
<1>5. Owned' /\ Accounted'
  BY <1>1, <1>4 DEF Owned, Accounted
<1>6. NeverEarly'
  BY <1>1 DEF NeverEarly, At
<1>7. Apart'
  BY <1>1 DEF Shapes, Apart
<1>8. InterestKept'
  BY <1>1 DEF Shapes, Apart, InterestKept
<1>9. QED
  BY <1>2, <1>3, <1>5, <1>6, <1>7, <1>8

-----------------------------------------------------------------------------
(* The worker's steps.  All of them leave the futures and the timers, and  *)
(* say of what they drop that it is abandoned.                             *)

WorkerLeaves == AndSpoil /\ UNCHANGED <<futures, timers, fd, keyFds>>

LEMMA SpoiltTyped == ASSUME Shapes, AndSpoil PROVE spoilt' \in [Sources -> SUBSET (Hangs \cup Leaks)]
<1>1. \A s \in Sources : spoilt[s] \cup {"abandoned"} \in SUBSET (Hangs \cup Leaks)
  BY DEF Shapes, Hangs
<1>2. QED
  BY <1>1 DEF Shapes, AndSpoil

(* Handlers are made ready or left behind; who has a timer stays the same. *)
LEMMA TaskStep ==
    ASSUME IInv, WorkerLeaves, NobodyRuns, UNCHANGED <<queue, sleepers, interest>>,
           phase' \in {"poll", "turn", "drain", "ended"}, asked' \subseteq {"shutdown", "kill"}, inbox' = {},
           \A s \in Sources : \/ task'[s] = task[s]
                              \/ task[s] # "done" /\ task'[s] \in {"ready", "lost"} /\ s \in inbox
                              \/ task[s] \in {"ready", "parked"} /\ task'[s] = "lost",
           task' \in [Sources -> TaskStates],
           queues' = queues \/ (queues' = {} /\ \A s \in Sources : task'[s] # "parked")
    PROVE  IInv'
<1> USE DEF IInv, WorkerLeaves, futures, timers
<1>1. Shapes'
  BY SpoiltTyped DEF Shapes
<1>2. \A s \in Sources : /\ task'[s] = "none" <=> task[s] = "none"
                         /\ task'[s] = "parked" => task[s] = "parked"
                         /\ task[s] # "closing" /\ task'[s] # "closing"
                         /\ task'[s] \in {"sent", "ready", "parked", "lost"}
                                <=> task[s] \in {"sent", "ready", "parked", "lost"}
  BY DEF Shapes, TaskStates, Progress, NobodyRuns
<1>3. \A s \in Sources : /\ spoilt[s] \subseteq spoilt'[s]
                         /\ "early" \in spoilt'[s] => "early" \in spoilt[s]
                         /\ task'[s] = "lost" => "abandoned" \in spoilt'[s]
  BY DEF AndSpoil
<1>4. Progress'
  BY <1>2, <1>3 DEF Progress
<1>5. \A s \in Sources : /\ Holds(s)' <=> Holds(s)
                         /\ Leaked(s) => Leaked(s)'
                         /\ UsesFd(s) => UsesFd(s)' \/ Leaked(s)'
  <2>1. \A s \in Sources : (Holds(s)' <=> Holds(s)) /\ (Leaked(s) => Leaked(s)')
    BY <1>2, <1>3 DEF Holds, Leaked
  <2>2. ASSUME NEW s \in Sources, UsesFd(s) PROVE UsesFd(s)' \/ Leaked(s)'
    <3>1. CASE task'[s] = "lost"
      BY <1>3, <3>1 DEF Leaked, Leaks
    <3>2. CASE task'[s] # "lost"
      BY <2>2, <1>2, <3>2 DEF UsesFd
    <3>3. QED
      BY <3>1, <3>2
  <2>3. QED
    BY <2>1, <2>2
<1>6. Owned' /\ Accounted'
  BY <1>5 DEF Owned, Accounted
<1>7. NeverEarly' /\ Apart' /\ InterestKept'
  BY <1>2 DEF NeverEarly, At, Apart, InterestKept
<1>8. QED
  BY <1>1, <1>4, <1>6, <1>7

(* Events are pushed and handlers told; their tasks are as they were. *)
LEMMA QueueStep ==
    ASSUME IInv, WorkerLeaves, UNCHANGED <<task, queues>>,
           phase' \in {"poll", "turn", "drain", "ended"}, asked' \subseteq {"shutdown", "kill"},
           NEW keys \in SUBSET queues, NEW event \in {"READABLE", "SHUTDOWN"},
           UNCHANGED <<queue, sleepers, inbox>> \/ (Push(keys, event) /\ Wake(keys)),
           interest' \in [Fds -> Sources \cup {"none"}],
           InterestKept'
    PROVE  IInv'
<1> USE DEF IInv, WorkerLeaves, futures, timers
<1>1. Shapes'
  <2>1. queue' \in [Sources -> Seq({"READABLE", "SHUTDOWN"})]
    <3>1. \A s \in Sources : Append(queue[s], event) \in Seq({"READABLE", "SHUTDOWN"})
      BY DEF Shapes
    <3>2. queue \in [Sources -> Seq({"READABLE", "SHUTDOWN"})]
      BY DEF Shapes
    <3>3. CASE Push(keys, event)
      BY <3>1, <3>2, <3>3, SMTT(30) DEF Push
    <3>4. CASE UNCHANGED queue
      BY <3>2, <3>4, Zenon
    <3>5. QED
      BY <3>3, <3>4, Zenon
  <2>2. inbox' \subseteq Sources /\ sleepers' \subseteq Sources
    BY DEF Shapes, Wake
  <2>3. QED
    BY <2>1, <2>2, SpoiltTyped DEF Shapes
<1>2. \A s \in Sources : /\ spoilt[s] \subseteq spoilt'[s]
                         /\ "early" \in spoilt'[s] => "early" \in spoilt[s]
                         /\ task'[s] = "lost" => "abandoned" \in spoilt'[s]
  BY DEF AndSpoil
<1>3. inbox' \cup sleepers' \subseteq inbox \cup sleepers
  BY DEF Wake
<1>4. Progress'
  BY <1>2, <1>3 DEF Progress
<1>5. \A s \in Sources : /\ Holds(s)' <=> Holds(s)
                         /\ UsesFd(s) => UsesFd(s)'
                         /\ Leaked(s) => Leaked(s)'
  <2>1. \A s \in Sources : "early" \in spoilt'[s] <=> "early" \in spoilt[s]
    BY <1>2
  <2>2. QED
    BY <1>2, <2>1 DEF Holds, UsesFd, Leaked
<1>6. Owned' /\ Accounted'
  BY <1>5 DEF Owned, Accounted
<1>7. NeverEarly' /\ Apart'
  BY DEF NeverEarly, At, Apart
<1>8. QED
  BY <1>1, <1>4, <1>6, <1>7

LEMMA AppendedIsNotEmpty == ASSUME NEW T, NEW q \in Seq(T), NEW e \in T PROVE Append(q, e) # <<>>
<1>1. Len(Append(q, e)) = Len(q) + 1 /\ Len(q) \in Nat
  OBVIOUS
<1>2. QED
  BY <1>1

LEMMA LoopStep == ASSUME IInv, Loop PROVE IInv'
<1> USE DEF IInv
<1>1. AndSpoil /\ UNCHANGED <<futures, timers>>
  BY DEF Loop
<1>2. ASSUME TurnRecv \/ DrainRecv PROVE IInv'
  <2>1. /\ NobodyRuns /\ Deliver /\ asked' = {}
        /\ UNCHANGED <<phase, registry, fd>>
    BY <1>2 DEF TurnRecv, DrainRecv
  <2>2. task' \in [Sources -> TaskStates]
    BY <2>1 DEF Shapes, Deliver, TaskStates
  <2>3. \A s \in Sources : task'[s] = task[s] \/ (task[s] # "done" /\ task'[s] = "ready" /\ s \in inbox)
    BY <2>1 DEF Deliver
  <2>4. WorkerLeaves /\ UNCHANGED <<queue, sleepers, interest, queues>>
    BY <1>1, <2>1 DEF WorkerLeaves, registry
  <2>5. phase' \in {"poll", "turn", "drain", "ended"} /\ inbox' = {}
    BY <2>1 DEF Shapes, Deliver
  <2> HIDE DEF IInv
  <2>6. QED
    BY <2>1, <2>2, <2>3, <2>4, <2>5, TaskStep
<1>3. ASSUME RecvKill PROVE IInv'
  <2>1. /\ NobodyRuns /\ Abandon /\ phase' = "ended" /\ asked' = {} /\ inbox' = {}
        /\ UNCHANGED <<registry, fd>>
    BY <1>3 DEF RecvKill
  <2>2. task' \in [Sources -> TaskStates]
    BY <2>1 DEF Shapes, Abandon, TaskStates
  <2>3. \A s \in Sources : \/ task'[s] = task[s]
                           \/ task[s] # "done" /\ task'[s] = "lost" /\ s \in inbox
                           \/ task[s] \in {"ready", "parked"} /\ task'[s] = "lost"
    BY <2>1 DEF Abandon, Alive, NobodyRuns
  <2>4. WorkerLeaves /\ UNCHANGED <<queue, sleepers, interest, queues>>
    BY <1>1, <2>1 DEF WorkerLeaves, registry
  <2> HIDE DEF IInv
  <2>5. QED
    BY <2>1, <2>2, <2>3, <2>4, TaskStep
<1>4. ASSUME DrainDone PROVE IInv'
  <2>1. /\ Alive = {} /\ Abandon /\ phase' = "ended" /\ queues' = {} /\ inbox' = {}
        /\ UNCHANGED <<stopping, asked, recv, queue, sleepers, keyFds, interest, fd>>
    BY <1>4 DEF DrainDone
  <2>2. task' \in [Sources -> TaskStates]
    BY <2>1 DEF Shapes, Abandon, TaskStates
  <2>3. NobodyRuns /\ \A s \in Sources : task'[s] # "parked"
    BY <2>1 DEF Abandon, Alive, NobodyRuns
  <2>4. \A s \in Sources : task'[s] = task[s] \/ (task[s] # "done" /\ task'[s] = "lost" /\ s \in inbox)
    <3>1. \A s \in Sources : task'[s] = IF s \in inbox /\ task[s] # "done" THEN "lost" ELSE task[s]
      BY <2>1 DEF Abandon
    <3>2. QED
      BY <3>1
  <2>5. asked' \subseteq {"shutdown", "kill"} /\ WorkerLeaves
    BY <1>1, <2>1 DEF Shapes, WorkerLeaves
  <2> HIDE DEF IInv
  <2>6. QED
    BY <2>1, <2>2, <2>3, <2>4, <2>5, TaskStep
<1>5. ASSUME EndTurn \/ DrainAgain PROVE IInv'
  <2>1. /\ phase' \in {"poll", "turn", "drain", "ended"}
        /\ UNCHANGED <<asked, handlers, registry, fd>>
    BY <1>5 DEF Shapes, EndTurn, DrainAgain
  <2>2. InterestKept'
    BY <2>1 DEF InterestKept, handlers, registry
  <2>3. /\ WorkerLeaves /\ UNCHANGED <<task, queues, queue, sleepers, inbox>>
        /\ asked' \subseteq {"shutdown", "kill"} /\ interest' \in [Fds -> Sources \cup {"none"}]
    BY <1>1, <2>1 DEF Shapes, WorkerLeaves, handlers, registry
  <2>4. {} \in SUBSET queues
    OBVIOUS
  <2> HIDE DEF IInv
  <2>5. QED
    BY <2>1, <2>2, <2>3, <2>4, QueueStep
<1>6. ASSUME BeginDrain PROVE IInv'
  <2>1. /\ phase' = "drain" /\ Push(queues, "SHUTDOWN") /\ Wake(queues)
        /\ UNCHANGED <<stopping, asked, task, queues, keyFds, interest, fd>>
    BY <1>6 DEF BeginDrain
  <2>2. InterestKept'
    <3>1. \A s \in Sources : task[s] = "parked" => queue'[s] = Append(queue[s], "SHUTDOWN")
      BY <2>1 DEF Push, Progress
    <3>2. ASSUME NEW s \in Sources PROVE Append(queue[s], "SHUTDOWN") # <<>>
      BY AppendedIsNotEmpty, SMTT(30) DEF Shapes
    <3>3. QED
      BY <2>1, <3>1, <3>2 DEF InterestKept
  <2>3. QED
    BY <1>1, <2>1, <2>2, QueueStep DEF Shapes, WorkerLeaves
<1>7. ASSUME PollEvents(expired) PROVE IInv'
  <2> DEFINE reported == {f \in expired : interest[f] # "none"}
             keys     == {interest[f] : f \in reported} \cap queues
  <2>1. /\ phase' = "turn" /\ Push(keys, "READABLE") /\ Wake(keys)
        /\ interest' = [f \in Fds |-> IF f \in reported THEN "none" ELSE interest[f]]
        /\ UNCHANGED <<stopping, asked, task, queues, keyFds, fd>>
    BY <1>7 DEF PollEvents
  <2>2. InterestKept'
    <3> SUFFICES ASSUME NEW s \in Sources, task[s] = "parked", queue'[s] = <<>>
                 PROVE  interest'[fd[s]] = s
      BY <2>1 DEF InterestKept
    <3>1. s \in queues /\ fd[s] \in Fds
      BY DEF Shapes, Progress, Owned, Holds
    <3>2. s \notin keys /\ queue[s] = <<>>
      <4>1. Append(queue[s], "READABLE") # <<>>
        BY AppendedIsNotEmpty, SMTT(30) DEF Shapes
      <4>2. QED
        BY <2>1, <4>1 DEF Push
    <3>3. interest[fd[s]] = s
      BY <3>2 DEF InterestKept
    <3>4. fd[s] \notin reported
      BY <3>1, <3>2, <3>3
    <3>5. QED
      BY <2>1, <3>1, <3>3, <3>4
  <2>3. interest' \in [Fds -> Sources \cup {"none"}]
    BY <2>1 DEF Shapes
  <2>4. keys \in SUBSET queues
    OBVIOUS
  <2> HIDE DEF keys, reported
  <2>5. QED
    BY <1>1, <2>1, <2>2, <2>3, <2>4, QueueStep DEF Shapes, WorkerLeaves
<1>8. QED
  BY <1>2, <1>3, <1>4, <1>5, <1>6, <1>7 DEF Loop, WorkerStep

-----------------------------------------------------------------------------
LEMMA StepIInv == IInv /\ [Next]_vars => IInv'
<1> SUFFICES ASSUME IInv, [Next]_vars PROVE IInv'
  OBVIOUS
<1>1. ASSUME NEW s \in Sources, HandlerStep(s) PROVE IInv'
  BY <1>1, StartStep, RefuseStep, HandleStep, CleanStep DEF HandlerStep
<1>2. ASSUME NEW s \in Sources, SetTimeFails(s) \/ NoWorker(s) \/ SendFails(s) PROVE IInv'
  BY <1>2, GiveUpStep DEF SetTimeFails, NoWorker, SendFails, At
<1>3. ASSUME NEW s \in Sources, CreateFails(s) \/ ChooseWorker(s) \/ PollAgain(s) \/ Move(s) \/ Drop(s)
      PROVE  IInv'
  <2>1. /\ UNCHANGED <<loop, handlers, registry, fd, timers, state>>
        /\ moved' \subseteq moved \cup {s} /\ woken' \subseteq woken \cup {s}
    BY <1>3 DEF CreateFails, ChooseWorker, PollAgain, Move, Drop
  <2>2. \/ UNCHANGED fut
        \/ fut[s] = "new" /\ fut' = [fut EXCEPT ![s] = "failed"]
        \/ fut[s] = "created" /\ fut' = [fut EXCEPT ![s] = "chosen"]
        \/ fut[s] = "waiting" /\ state[s] = "Complete" /\ fut' = [fut EXCEPT ![s] = "ok"]
        \/ fut[s] = "waiting" /\ fut' = [fut EXCEPT ![s] = "failed"]
        \/ fut[s] = "waiting" /\ fut' = [fut EXCEPT ![s] = "dropped"]
    BY <1>3 DEF CreateFails, ChooseWorker, PollAgain, Move, Drop, At, Become
  <2>3. spoilt' = spoilt \/ spoilt' = [spoilt EXCEPT ![s] = @ \cup {"moved"}]
    BY <1>3 DEF CreateFails, ChooseWorker, PollAgain, Move, Drop, Spoil
  <2>4. Shapes'
    <3>1. fut' \in [Sources -> FutStates]
      BY <2>2, ZenonT(60) DEF IInv, Shapes, FutStates
    <3>2. spoilt' \in [Sources -> SUBSET (Hangs \cup Leaks)]
      <4>1. spoilt[s] \cup {"moved"} \in SUBSET (Hangs \cup Leaks)
        BY DEF IInv, Shapes, Hangs
      <4>2. QED
        BY <2>3, <4>1, ZenonT(60) DEF IInv, Shapes
    <3>3. QED
      BY <2>1, <3>1, <3>2 DEF IInv, Shapes, loop, handlers, registry, timers
  <2>5. NeverEarly'
    BY <2>1, <2>2 DEF IInv, Shapes, NeverEarly, At, timers
  <2>6. \A t \in Sources : \/ fut'[t] = fut[t]
                           \/ fut'[t] = "chosen" /\ fut[t] = "created"
                           \/ fut'[t] = "failed" /\ fut[t] \notin {"created", "chosen"}
                           \/ fut[t] = "waiting" /\ fut'[t] \in {"ok", "dropped"}
    <3>1. fut \in [Sources -> FutStates]
      BY DEF IInv, Shapes
    <3>2. \A t \in Sources : t # s => fut'[t] = fut[t]
      BY <2>2, <3>1
    <3>3. \/ fut'[s] = fut[s]
          \/ fut'[s] = "chosen" /\ fut[s] = "created"
          \/ fut'[s] = "failed" /\ fut[s] \in {"new", "waiting"}
          \/ fut[s] = "waiting" /\ fut'[s] \in {"ok", "dropped"}
      BY <2>2, <3>1
    <3>4. QED
      BY <3>2, <3>3
  <2>7. \A t \in Sources : spoilt[t] \subseteq spoilt'[t]
                          /\ ("early" \in spoilt'[t] => "early" \in spoilt[t])
    <3>1. \A t \in Sources : spoilt'[t] = spoilt[t] \/ spoilt'[t] = spoilt[t] \cup {"moved"}
      BY <2>3 DEF IInv, Shapes
    <3>2. QED
      BY <3>1
  <2>8. QED
    BY <2>1, <2>4, <2>5, <2>6, <2>7, QuietStep
<1>4. ASSUME NEW s \in Sources, FirstPoll(s) PROVE IInv'
  BY <1>2, <1>3, <1>4, CreateStep, RegisterStep, StorePendingStep DEF FirstPoll
<1>5. ASSUME NEW s \in Sources, Expire(s) PROVE IInv'
  BY <1>5, ExpireStep
<1>6. CASE AskToStop /\ UNCHANGED <<futures, timers, spoilt>>
  <2>1. /\ UNCHANGED <<phase, handlers, registry, fd, futures, timers, spoilt>>
        /\ asked' \subseteq {"shutdown", "kill"}
    BY <1>6 DEF AskToStop, IInv, Shapes
  <2>2. QED
    BY <2>1 DEF IInv, Shapes, Progress, Owned, Holds, Accounted, UsesFd, Leaked, NeverEarly, At,
                Apart, InterestKept, handlers, registry, futures, timers
<1>7. CASE UNCHANGED vars
  BY <1>7 DEF vars, IInv, Shapes, Progress, Owned, Holds, Accounted, UsesFd, Leaked, NeverEarly, At,
              Apart, InterestKept, loop, handlers, registry, futures, timers
<1>8. QED
  BY <1>1, <1>3, <1>4, <1>5, <1>6, <1>7, LoopStep DEF Next

LEMMA Inductive == Spec => []IInv
  BY InitIInv, StepIInv, PTL DEF Spec

(* Every variable keeps its type, for any sleeps and descriptors (the      *)
(* states of SleepFuture, of its handler's task and of the worker).        *)
THEOREM TypeCorrect == Spec => []TypeOK
<1>1. Init => Flags
  BY DEF Init, SourcesInit, Flags
<1>2. Flags /\ [Next]_vars => Flags'
  <2> SUFFICES ASSUME Flags, [Next]_vars PROVE Flags'
    OBVIOUS
  <2>1. \/ UNCHANGED <<stopping, recv>>
        \/ UNCHANGED stopping /\ recv' \in BOOLEAN
        \/ recv' = FALSE /\ stopping' = (stopping \/ "shutdown" \in asked)
    BY ZenonT(60)
       DEF Next, vars, Loop, WorkerStep, PollEvents, TurnRecv, RecvKill, EndTurn, BeginDrain, DrainRecv,
           DrainAgain, DrainDone, AskToStop, HandlerStep, Start, StartHandler, Refuse, StartFails,
           Handle, Clean, Deregister, FirstPoll, Create, CreateFails, SetTimeFails, ChooseWorker,
           NoWorker, SendFails, GiveUp, Register, StorePending, PollAgain, Move, Drop, Expire, loop
  <2>2. QED
    BY <2>1 DEF Flags
<1>3. IInv /\ Flags => TypeOK
  BY DEF IInv, Flags, Shapes, TypeOK, SourcesTypeOK
<1>4. QED
  BY <1>1, <1>2, <1>3, Inductive, PTL DEF Spec

(* For any number of sleeps and descriptor numbers, a sleep that says it   *)
(* is over slept its time (the handler of SleepFuture::submit).            *)
THEOREM SleptFully == Spec => []NeverEarly
  BY Inductive, PTL DEF IInv

(* For any number of sleeps, however descriptor numbers are used again,    *)
(* nobody closes another's timer, and one that is left open was refused,   *)
(* abandoned or told too early (SleepFuture::submit, try_close_fd).        *)
THEOREM TimersOwned == Spec => []TimersAccounted
<1>1. IInv => TimersAccounted
  BY DEF IInv, Owned, Holds, Accounted, TimersAccounted, UsesFd
<1>2. QED
  BY <1>1, Inductive, PTL

(* For any number of sleeps, the number epoll is told to forget is never   *)
(* one that another handler waits on (the registry's deregister_interest). *)
THEOREM InterestsKept == Spec => []InterestKept
  BY Inductive, PTL DEF IInv
=============================================================================
