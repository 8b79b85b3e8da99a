# A TLA+ development of cl-async

cl-async is an asynchronous runtime for Linux built on io_uring, epoll and
eventfd.  A pool starts one thread per worker; each worker drives an executor of
its own and a ring of its own; tasks talk to workers through a channel of
messages and to each other through `sync`; buffers, messages and files go to the
kernel and come back through the ring.  This directory models the parts of it where
steps of several actors interleave, or where a value must survive a conversion, checks the
models with TLC, and proves some of the results for every size of the system with TLAPS.

Paths below are relative to `src/src/`, the crate's own sources.

## The system

| Component | State it keeps | Operations | Talks to |
|---|---|---|---|
| Mutex, `sync/mutex.rs` | `locked`, a lock-free queue of wakers | `lock` (a future), guard drop, guard clone | wakers, hence executors |
| Semaphore, `sync/semaphore.rs` | the permit counter, a queue of wakers; per future the count it has collected | `acquire*`, `acquire_hungry*`, `try_acquire*`, permit drop, future drop | wakers |
| RwLock, `sync/rw_lock.rs` | a semaphore and the data | `read`, `write` | semaphore |
| Worker thread, `worker/mod.rs`, `worker/state.rs`, `worker/message.rs` | its state, the flags of one turn of the loop, epoll | `start`, `kill`, `shutdown`, `spawn*`, `submit_io_operation`, the loop, the drain | everything below |
| Message channel, `worker/work_sender.rs`, `events/channel.rs`, `atomic_owned_fd.rs` | the channel, the eventfd that announces messages | `send_message`, the repair of a broken eventfd | worker, any thread |
| Executor and wakers, `task/*.rs`, `yield.rs` | ready queue, running tasks | `spawn`, `wake_task`, `run_ready_tasks` | message channel |
| I/O context, `io/context.rs`, `io/completion_queue.rs`, `io/completion.rs`, `io/submission*.rs`, `io/entry.rs` | the ring, the backup queue, the slots of operations in flight | prepare, submit, complete, poll, cancel | worker, kernel |
| I/O futures, `io/operation/future.rs`, `io/operation/mod.rs`, `io/mod.rs`, `io/owned_fd_async.rs`, `io/failure.rs` | the key of the submitted entry | submit, poll, cancel on drop | pool, I/O context |
| Operation data, buffers and messages, `io/operation/data/*.rs`, `io/buffers.rs`, `io/message.rs` | arguments and results of an entry | building entries, spreading results over buffers, control messages | I/O futures |
| Files, directories, metadata, `io/fs/*.rs` | descriptors, paths | one I/O operation per call | I/O futures |
| Pool, `pool.rs`, `lib.rs` | the workers, a round-robin counter | `spawn`, `submit_io_operation`, `register_event_source`, `start`, `shutdown`, `kill`, `join` | workers |
| Poller and registry, `events/poller/*.rs`, `events/source.rs` | keys and their descriptors, interests | register, deregister, poll | worker, event queues |
| Event queues, `events/queue/*.rs`, `events/receiver.rs` | events and wakers per key | push by the loop, pop by futures | worker, tasks |
| Sleep, `timing/futures/sleep.rs` | a state shared by the future and the timer's handler | submit, poll, the handler | poller, tasks |
| Notifications and signals, `notifications/*.rs` | a bounded broadcast channel, the signal mapping | subscribe, broadcast, wait | worker, tasks |
| TCP, `net/tcp_*.rs` | a listener's accept stream, a server's handlers | `listen_on`, accept loop, `TcpServer` | I/O futures, pool |
| Addresses and options, `net/address.rs`, `net/socket_options.rs` | none | conversions | TCP |
| OS errors, keys, logging, syscalls | tables and a counter | | all |

### What is hard here

* **Lock-free waits.**  `Mutex` and `Semaphore` check, queue a waker, check
  again.  Wakers are never taken out of the queue by the future that put them
  there, wakes are not passed on, and futures may be dropped at any time.
* **A channel announced by an edge.**  A message is put in a channel and then
  announced through an eventfd watched edge-triggered; the two halves of a send
  interleave with a loop that empties the channel, and with the replacement of
  the eventfd.
* **Three ways to stop** (kill, shutdown, a terminating signal), each of which
  may arrive while another is being carried out, against senders that go on.
* **A ring with a limited submission queue**, whose overflow waits in a second
  queue that is only looked at when completions arrive.
* **Cancellation**: an operation cancelled by dropping its future may complete
  at the same time, and its buffers live in the slot.
* **Shared unsafe state**: `UnsafeCell`s marked `Sync` on the strength of the
  protocols above.
* **A state kept twice**: a sleep's state is stored by the future and by a handler on
  another worker; a descriptor number is known to epoll, to a registry and to its owner,
  and is given to the next who opens; a `File` has a path beside its descriptor.
* **Buffers lent to the kernel**, in operations that may be refused, not sent, failed, or
  dropped, and whose lengths are worked out again when a count comes back.
* **Chains of operations on a shared tree**: opening a file may make its directories
  first, one operation at a time, while others change the same tree.

What makes each component correct: for the locks, exclusion, no permit lost or
made, no task left parked on something free; for the worker, no message, task,
completion or submission forgotten whatever the interleaving, accepted tasks
finished by a graceful stop, a stop that is final, ends and is announced; for
I/O futures, a result delivered once to the future that asked and buffers that
outlive the kernel's use of them; for sleeps and event queues, a wake after the
event whenever the waker was stored before; for the pool, work sent only to
workers that will do it; for the pure parts, agreement with a simple definition.
`PROJECT.json` lists every hazard at its line with the properties about it.

## The modules

| Module | Models | Built on |
|---|---|---|
| `LockService` | what a lock promises: who waits and who holds, nobody holds twice | |
| `Mutex` | `sync/mutex.rs` | refines `LockService` |
| `MutexProofs` | theorems about `Mutex` | `Mutex`, TLAPS |
| `Semaphore` | `sync/semaphore.rs` | |
| `SemaphoreProofs` | theorems about `Semaphore` and `RwLock` | `RwLock`, `DataLemmas` |
| `RwLock` | `sync/rw_lock.rs` | extends `Semaphore` |
| `Worker` | one worker thread with its channel, executor and ring | |
| `WorkerProofs` | theorems about `Worker` | `Worker`, `DataLemmas` |
| `OneShot` | what an I/O future promises: one outcome, told once | |
| `IoOperation` | I/O operations of futures and of a listener's accept loop, over several workers | refines `OneShot` |
| `IoOperationProofs` | theorems about `IoOperation` | `IoOperation`, TLAPS |
| `EventSources` | event sources, their registry, epoll and queues, and the worker that serves them | |
| `Sleep` | `timing/futures/sleep.rs` | extends `EventSources` |
| `SleepProofs` | theorems about `Sleep` | `Sleep`, TLAPS |
| `IoBuffers` | `io/buffers.rs`, as operators | |
| `ControlMessages` | the control messages of `io/message.rs`, as operators | |
| `Addresses` | `net/address.rs`, as operators | |
| `IoTransfers` | operations that carry data: refusals, completions, recovery from errors | the three above |
| `MessageTransfer` | a program that sends and one that receives | extends `IoTransfers` |
| `MessageProofs` | theorems about `MessageTransfer` | `MessageTransfer`, `DataLemmas` |
| `FileSystem` | settings and masks of `io/operation/data`, and the kernel's tree of files | |
| `Files` | `io/fs` | extends `FileSystem` |
| `FilesProofs` | theorems about `Files` | `Files`, TLAPS |
| `DataLemmas` | facts about sums over finite sets, sequences and recursion that the proofs share | TLAPS |
| `MC*` | constants and symmetry for TLC | the module named |

### Mutex

`locked` and `waker_queue` are the two fields of `MutexInner`.  Each access to
them is an action: `Acquire` and `FirstCheckFails` are the compare-exchange that
opens `MutexFuture::poll` (`Acquire` also the second one, when it succeeds),
`PushWaker` the push, `SecondCheckFails` the exchange after it.  `DropGuard` is
the store of `false`, `WakeNext` the pop that follows.  A waker is its task; a
wake is a `WakeTask` message counted in `wakes` until the executor handles it
(`WakeTask`), which moves a parked task to the ready ones and ignores any other.
`DropFuture` is a future given up while it waits: `MutexFuture` has no `Drop`, so
the waker stays in the queue.  `CloneGuard` is the guard's `Clone`; `cloned` remembers
that there was one, since each clone unlocks.  `LockService` says the same of a lock: a holder
may `Share` what it holds, and from then on nothing is promised (`void`).

### Semaphore and RwLock

`sem_fut` is the one loop behind the four future types.  `Load`, `Take`, `Grab`
and `PushWaker` are its load, its two compare-exchanges and its push, with the
local variables `permits` and `queued` as `seen` and `queued`.  Polite futures
take all or nothing; hungry ones (`acquire_hungry`) keep what they find in
`got`.  `AddPermits` and `Pop` are `add_permits`: the wrapping addition, then one
pop per permit.  The drops of a permit (`Release`) and of a future that waits
(`DropWaiting`) or was granted (`DropGranted`) call it.  A borrowed and an owned
future run the same code and are one thing here.

`RwLock` is a semaphore of `MaxPermits` whose clients make two requests: `read` asks
politely for one, `write` hungrily for all (`LockRequests`).  A guard is a client that holds
what it asked for.

### Worker

`pc` follows the thread: `Start`, `SetUp`, then in turn `Poll`, `Complete` or
`SkipComplete`, the `Recv*` actions until `RecvDone`, `SubmitIo`, `RunTask` until
`RunDone`, and `LoopAgain` or `BeginDrain`.  The `Drain*` and `BlockingSubmit*`
actions are the loop after a stop, `End` the rest of the closure the thread runs.
`rx` is the channel, `signalled` the edge pending on its eventfd and `unsignalled`
the number of senders between the two halves of `send_message` (`Signal` is the
second).  The `should_*` variables are the flags of one turn.  A task is a program of at most
`MaxPolls` awaits, each of a yield, of an I/O operation, or of something another
thread does.  `op` follows each operation from the message through the backup queue
and the submission queue to the kernel, back to its slot, and out of it.  `Leave` is
the end of an await: the future has a result, fails because it was polled before
its submission was handled, or is given up; its drop sends a cancellation
(`Cancels`) to this worker or another.  Futures polled by other threads have
operations here as well (`Foreign`).  The environment spawns (`SpawnTask`), wakes
(`WakeAwaiting`, `Nudge` for a wake nobody needs), submits (`ForeignSubmit`), stops
(`AskToStop`, `RaiseSignal`), breaks the eventfd (`Break`) and completes operations
(`KernelCompletes`).

### IoOperation

Where `Worker` has one worker in full and knows of an operation only where it is,
`IoOperation` has several workers and what is in the slots.  A client is an
`IoOperationFuture` or the accept loop of a listener.  A submission is named by the
worker it goes to and the key that worker's `KeyGenerator` counted (`NextHandle`), which
is what a `WorkerIoSubmissionHandle` holds: the key, and the worker's map of slots.
`place` follows it from the message (`queue`) to the kernel and out of it; `slot`,
`results` and `waker` are its `IoCompletionSlot`: the state (`Single` and `Multi` hold
results, `Draining` is a `Multi` that was cancelled, `Completed` the state of an
operation nobody waits for, `absent` no slot), the results, the waker.  `waker` is set
with the message, since the slot is made from it.

`FirstPoll`, `Refuse` and the four parts of `Poll` are `IoOperationFuture::poll` with
`IoCompletionQueue::poll`; `Listen`, the last three and `StopListening` are `listen_on`
and its loop, which is a task of its own and goes round at once when it was given a
connection.  `DropFuture` is the future's drop, which submits a cancellation of the key
to *any* worker.  `Receive` is the worker's receipt of the message with
`prepare_submission`, `Complete` its `complete` of one completion.  A poll and a
`complete` are each one action: both hold the map's lock on the slot while they change
it, and the removal that follows outside the lock (`completion_queue.rs:110`) removes a slot whose
state is gone, which nothing brings back because keys are never counted twice.

Messages of one task to one worker are received in the order sent, others in any order;
how the backup queue reorders them, the limits of the ring and the stopping of a worker
are in `Worker`.  Completions of one submission are handled in the order posted, those
of different ones in any order.  The kernel (external) posts one result for a single
operation, up to `MaxAccepts` for an accept, which an error ends, and finds what a
cancellation names or is too late for it.

Left out of `Worker`: signals that do not end the process, event queues of user
sources (they are in `EventSources`), `Continue` messages, multishot operations.

### EventSources and Sleep

`EventSources` is a worker as its event sources see it: `phase` is where its loop is, `inbox`
and `asked` its channel, `recv` the flag `should_recv`; `keyFds`, `queues`, `queue` and
`sleepers` are `EventPollerRegistry` and `EventQueueRegistry`, `interest` is epoll, which knows
a registration by its descriptor *number*.  `task` is the handler's task on its way from
`register_event_source` (`Spawn`) through its first poll (`StartHandler`, `StartFails`) to its
clean-up (`Deregister`).  A poll of a task runs to its next await before another begins, which
`NobodyRuns` says; the stop reaches the queues there are at that moment, once (`BeginDrain`),
and nothing polls epoll afterwards.  A terminating signal stops the loop as `Shutdown` does.  It also
broadcasts to the queues at once, besides the broadcast of the drain, which is left out: the sources
here wait for one event.

`Sleep` adds the future and what its handler does.  `Create`, `ChooseWorker`, `Register` and
`StorePending` are the stages of `submit`, with the failures between them (`CreateFails`,
`SetTimeFails`, `NoWorker`, `SendFails`); the worker that serves the handler runs beside all of
them.  `PollAgain`, `Move` (the future goes to another task while the waker stays the first
one's) and `Drop` are what becomes of a future that waits.  `Handle` is the handler from the event to its
end: any event will do, the timer is read, and closed if it had gone off.  `Expire` (external) is
the timerfd, whose descriptor is `expired` until it is read.  `spoilt` is a history of why a sleep
may never end or its timer stay open.

### Buffers, messages and addresses

`IoBuffers`, `ControlMessages`, `Addresses` and `IoTransfers` are operators, one for each
conversion of the code, and `MessageTransfer` is the program that uses them.  A `BytesMut` is its
capacity and its bytes; a `Bytes` a sequence; an address text what splitting leaves of it.  A
conversion that fails gives the empty set.  A control buffer grows when its `msghdr` is made (`Pending`), the
buffer of a plain read when the worker makes its entry (`Submitted`), so not when the dispatch fails.  The sender composes an `IoSendMessage` call by
call (`SetData` .. `Clear`), sends it, or sends plain bytes.  The receiver owns buffers and
lends them to one operation at a time (`ReadInto`, `ReadvInto`, `RecvMsgInto`): the operation
is refused, not sent (`FailDispatch`), failed by the kernel, dropped or completed, and the buffers
come back from the result (`TakeBuffers`, cleared or as they are) or from the error, by one of the
three recovery traits (`RecoverBytesMut`, `RecoverVec`, `RecoverRecvMsg`), whichever the program
calls.  The kernel (external) fills io vectors in order, puts control messages into the room there is and cuts
what does not fit, adds messages for options of the socket, and turns a record type that is set into one that is got.
The machine is little-endian.

### Files

`FileSystem` has the settings (`ToDirectorySafe`, `ToDirSafe`, `DirSettings`), the masks with
what `Stats` makes of them, and a tree of places and inodes with the kernel's `mkdirat`, `openat2`
and `renameat` (external).  A call in `Files` is a record in `call`: `step` is the operation it
awaits, and `goal`, `cur`, `up` the position in `mkdir_recursive`.  Each action is one
operation and the code up to the next, so other callers, an outsider and a drop come between any
two.  `Open` reads the `OpenHow` of any open under way, or fails: `as_uring_entry` puts the
address of a local in the entry (`io/operation/data/open_at.rs:429`), and `torn` remembers
that it was not its own; a dropped open (`Abandon`) reads its frame no better.  Descriptors are counted per open file description (`fds`), which `CloneFile`
shares, `Iter` duplicates, and the last drop closes, now or through a worker (`Released`,
`Close`).  `alone` remembers that nobody else changed the tree during a call, `astray` that
another step touched the entry a `File` is named by.  A path is the sequence of the names on the way, none of
them `.` or `..` (`FilesAssumption`).

## The runs

| Run | Module, configuration | Question |
|---|---|---|
| `mutex` | `MCMutex`, `MCMutex.cfg` | Exclusion, service of the queue, refinement of `LockService`, and why a task is stranded; cloned guards and given-up futures included |
| `semaphore` | `MCSemaphore`, `MCSemaphore.cfg` | Are permits conserved, and why can a client be left parked? |
| `rw_lock` | `MCRwLock`, `MCRwLock.cfg` | Exclusion and entry, as far as they hold |
| `rw_lock_exclusive` | `MCRwLock`, `MCRwLockExclusive.cfg` | Is a writer alone?  No. |
| `worker` | `MCWorker`, `MCWorker.cfg` | Is anything forgotten, in the loop or while it is stopped? |
| `worker_live` | `MCWorker`, `MCWorkerLive.cfg` | Is anything forgotten while the eventfd breaks and is replaced, wakers are called without cause and other threads have I/O here?  Do tasks finish and drains end? |
| `worker_shutdown_hangs` | `MCWorker`, `MCWorkerShutdownHangs.cfg` | Does every graceful shutdown end?  No. |
| `io_operation` | `MCIoOperation`, `MCIoOperation.cfg` | Is each future told one outcome, its own; do entries, results and wakers survive every interleaving; what can cancel an operation? |
| `io_operation_cancels` | `MCIoOperation`, `MCIoOperationCancels.cfg` | Is an operation cancelled only for its own future?  No. |
| `sleep` | `MCSleep`, `MCSleep.cfg` | Do sleeps end, not early, with their timers closed and nobody else's?  Does a worker with handlers stop? |
| `messages` | `MCMessageTransfer`, `MCMessageTransfer.cfg` | Do bytes, alerts, descriptors and addresses arrive as they were sent, and where is every buffer? |
| `files` | `MCFiles`, `MCFiles.cfg` | What does an undisturbed call achieve, does a path name its file, what does an iteration tell, who closes a descriptor? |

### Bounds and why they are enough

* Mutex: three tasks is one that holds, one queued whose wake can go astray and
  one behind it; `MaxWakers` 2 leaves room for the duplicate
  waker of one task in the queue, which is what the strandings need, with `MaxWakes` 1 a
  single wake owed to it.  The two
  bounds restrict only a *new* `lock()`; what has begun always runs on.
* Semaphore: three clients of up to 2 permits politely or up to 3 hungrily with
  3 permits: two hungry ones can hoard against each other with a polite one
  beside them.  `UsizeMax` 15 is far above what one round can add, so the
  counter does not wrap.  One acquire per client keeps the run small; a client
  whose task is over stands for one that does something else.
* RwLock: two writers (who may also read) and a reader, two permits.
* Worker: two tasks with I/O, a cancellation and a submission queue of one give
  operations that find the queue full and the one whose completion frees it; one await
  each, since a task that is through one is in the state of a task newly
  polled.  `worker` has the two ways to stop that are asked for, once each, so in every order and overlap
  (with the signal, and without bounds, its properties are proved);
  `worker_live` has the signal, a foreign operation, one stray wake, and two faults, so that a
  repair can meet another fault.
* IoOperation: two workers, so that a cancellation can go astray; a future and a listener with
  two keys and two accepts, so that keys can collide, and results queue up, are drained and are
  cut short; two futures in the failing run.  A submission by something else takes a key
  (`OtherSubmission`), which lets keys collide at different ages of the workers.
* Sleep: two sleeps and two descriptor numbers, so that a number is used again while the
  handler it belonged to has not cleaned up; one sleep of no duration, the other one may be moved and dropped.  Nothing
  else is bounded: each sleep happens once.
* MessageTransfer: two messages, so that the second meets buffers used for the first; a buffer of
  two bytes and one of none, which grows by `Reserve` when it is used alone and is skipped in a vectored read, against messages
  of two and three bytes; a control buffer in which descriptors fit and the credentials after them are cut; sockets that
  add a label the code does not know, packet information or a traffic class, with addresses that
  are mapped, compressed, lone-zero, of a Unix socket, or absent.  `MaxSends`,
  `MaxQueue` and `MaxControls` bound calls.  With `Turns` the two programs take turns: the sender acts while the receiver is
  idle, the receiver lends while nothing is composed.  They share the queue and nothing else, so the order of their calls
  makes no difference to either, and the proofs do not ask for it.  A receiver that has lost a
  buffer stops there.
* Files: two callers and another program, three calls or foreign steps (`MaxSteps`) after which what has
  begun runs on: one call to leave a handle and two that interleave over it; two levels of
  directories, modes that lock their owner out, and a `TRUNCATE` that a directory cannot be opened with.

Symmetry is used only in runs without liveness, over tasks, clients or callers that have
the same constants.

`CHECK_DEADLOCK FALSE` appears where the system really comes to rest: the clients
of a semaphore are through after `MaxRounds`, or parked as the named causes
allow, and a worker thread ends.  The `mutex` run checks for deadlock.  In `IoOperation` keys run out at the bound, sleeps
are over, a sender has sent what it may, and callers are out of calls.

### Fairness

The executor of a woken task handles its messages and polls it: weak fairness of
the steps of a poll, a drop or a wake once begun, never of the decision to lock
or to unlock, except that a permit holder in `RwLock` releases in the end.  In
`Worker`: the thread runs, a sender that has sent goes on to signal, the kernel
completes what it has been handed, and what a task awaits from another thread
comes to pass.  In `IoOperation`: workers receive and complete, single operations
complete, and a woken task is polled; an accept may wait for ever.  In `Sleep`: the worker's loop and
handlers run, timers go off, the rest of a first poll follows its start, and a woken task is polled; nobody has to
poll a sleep first, to move or drop it, or to stop the worker.  The fairness of a worker in
`IoOperation` holds for the one future of `MCIoOperation.cfg` and no further: an accept loop whose listener was drained never
returns from its poll (`net/tcp_listener.rs:165`), and a drain takes the cancellation of a dropped future, so with
one future nobody waits any more when that happens; with two, the other could be on the worker that spins,
would not be polled again, and `FutureIsAnswered` would not hold.  Spawning, stopping, faults and stray wakes have no fairness.  All
are weak: every one of these actions stays enabled until it is taken.

## What the checks show

Where the code does what it is for, the property holds without exceptions: a
parked task can be reached (`ParkedIsReachable`), a thread never blocks with an
unannounced message or completion (`NothingSleepsUnnoticed`), no running task is
without something that will wake it (`ParkedHasWaker`), no submission is left
where nothing moves it (`NoOperationStranded`), a stop is final
(`StoppingIsFinal`), tasks of a running worker finish (`SpawnedTaskFinishes`); an entry
and its buffers outlive the kernel's use of them (`EntryOutlivesKernel`), results are
neither lost nor doubled nor reordered (`NoResultLost`, `ImplementsOneShot`), and a task that waits
for one is woken (`FutureIsAnswered`, `AcceptIsHandedOver`); a sleep that returns `Ok` slept
(`NeverEarly`), and a deregistration by number never hits the number's next owner
(`InterestKept`).

Where it does not, the passing runs state the strongest thing that does hold, with
the cause named; three causes have a failing run, and each of the others shows when its exception is
taken out of the property:

* **A stale waker takes a wake** (`mutex.rs:130`, also `sem_fut`).  A poll that
  succeeds in its second check leaves its waker queued; the next unlock is spent
  on it while the task behind sleeps on a free mutex.
  `StrandedOnlyByStaleWaker` holds; without its exception ("Lost wakeup avoidance: check
  again", `mutex.rs:129`) it does not.
* **Guards can be cloned** (`mutex.rs:51`): each clone unlocks.  `MutualExclusion` and
  `ImplementsLock` hold until one has been.
* **A hungry future that had to wait pays back twice** (`semaphore.rs:130`): its
  count is never cleared when it returns its permit, so its drop adds it again,
  and the write guard of an `RwLock` is not alone.  `PermitsConserved` holds with
  the `surplus` counted; `Exclusive` does not.
* **A graceful shutdown waits for results it has taken** (`worker/mod.rs:840`), those
  of the cancellations that every dropped I/O future sends included.
  `DrainEnds` holds but for that case, `ShutdownEnds` does not.
* **A task accepted after the drain's last look is lost** (`worker/mod.rs:847`).
  `EarlyTasksFinish` is about tasks sent before the stop was asked for.
* **A cancellation goes to the next worker, not to its own** (`worker/mod.rs:206`): keys
  are counted by each worker, so it may cancel a live operation with the same key, or a
  listener's accept.  `CanceledOnlyByCollision` holds, `NoLiveOperationCanceled` does not.
* **A sleep may never end** (`SleepEnds`) in six cases: the timer went off before `submit` stored
  `Pending`, which overwrites `Complete` (`sleep.rs:134`); the future was moved to another task after its first poll
  (`sleep.rs:159`); the duration was zero, which disarms a timerfd (`sleep.rs:83`); the handler's registration
  failed (`pool.rs:234`); the worker was killed or ended with the handler in its channel; or the
  handler registered after the broadcast of a drain.  The last one keeps the drain
  turning for ever, too (`StopEnds`).
* **Timers are left open** (`TimersAccounted`) by a handler that was refused, lost with its
  worker, or told of the shutdown before its time: reading a timer that has not gone off fails, and the error path
  does not close it.
* **Full buffers are counted** (`io/buffers.rs:588`): a vectored read makes no io vector for a full
  `BytesMut`, and spreads the count over it all the same.  `BytesLandInOrder` is exact: the bytes are the
  message's if and only if the count does not reach such a buffer.
* **An alert may be stale** (`io/message.rs:1577`): `get_alert` reads the buffer from its start.
  `AlertsAreTheRecords` holds for buffers lent empty.
* **Descriptors are dropped** (`io/message.rs:1206`) with a control message that does not parse:
  one cut by the kernel, or one of a type the code does not know.
* **Some errors hold no buffer** (`io/operation/data/readv.rs:12`), and those of a failed recvmsg answer
  one of three recovery calls (`BuffersComeBack`).
* **Some IPv6 texts cannot be read back** (`net/address.rs:383`), and the destination of an IPv4 packet is
  told with its bytes reversed (`io/message.rs:173`): `AddressesRoundTrip`.
* **A directory that exists fails `mkdir`** (`io/fs/directory.rs:113`): its `statx` asks for `TYPE`, and `Stats`
  wants `TYPE_OR_MODE` to tell it.  So do `mkdir_recursive` and `Directory::open`, and `File::open`
  when it lost a race for a missing directory.
* **`open_at` makes directories in the wrong place** (`io/fs/file.rs:161`), `to_dir_safe` keeps
  `TRUNCATE` (`io/operation/data/open_at.rs:85`; `&` binds tighter than `|`), and a mode without
  `read` gives directories nobody can enter: the other exceptions of `UndisturbedCallsSucceed`.
* **A `File`'s path goes stale** (`io/fs/file.rs:215`) through a clone, a dropped `set_path` or another
  program, and `set_path` goes by the path: `PathNamesFile`.
* **Iterations share an offset** (`io/fs/directory.rs:216`): of two iterations of one `Directory`, the later tells
  nothing once the first has read on (`IterationsTellAll`).
* **A dropped open leaks its descriptor** (`io/operation/future.rs:70`): the one exception of
  `DescriptorsAccounted`.

More shows up in the models: an I/O future polled before its worker has handled the
submission fails (`io/operation/future.rs:57`, `PollTooEarly`, the `Fail` of `OneShot`); a
multishot operation that ends with an error is not armed again and its slot stays, and one
that was cancelled and drained makes the accept loop spin (`io/completion.rs:91`,
`net/tcp_listener.rs:165`); a `Kill` in the same batch as
a `Shutdown` ends the thread without an announcement (`worker/mod.rs:407`, the
exception of `EndIsAnnounced`), and the message that asks for the repair of a
broken eventfd waits for a signal through it (`work_sender.rs:46`, the
`broken` of `NothingSleepsUnnoticed`).

## What is proved

`MutexProofs` proves for any set of tasks, any set of them that may give up and any
bounds:

* `TypeCorrect`: the type invariant;
* `ParkedReachable`: a parked task's waker is queued or its wake is on the way;
* `Exclusion`: until a guard is cloned, at most one task owns one;
* `Implementation`: every behaviour is one of `LockService`, which a clone voids;
* `StrandedOnlyByWaste`: a task sleeps on a free mutex only after a wake was wasted.

The only assumption on the constants is `MutexAssumption`.  The inductive invariant
`IInv` has three parts.  `Shapes` are the types of everything but the two Booleans,
which `Flags` has (the provers treat Booleans and data differently, so they are kept
apart).  `GuardLocations` ties the guards alive to where their task is.
`WaiterIsReachable` is why `ParkedIsReachable` is not inductive by itself: a task between
`PushWaker` and `SecondCheckFails` must be reachable already, or it could park after
its waker is gone; and for a pop to keep it, the popped waker's wake must be counted in
the same step.  `InitIInv`, `StepShapes`, `StepGuardLocations` and `StepReachable` show it
holds at first and is kept by every action, one step per action.  `MutualExclusion` is
not inductive either: with `locked = FALSE` and a guard alive the next `Acquire` would
break it.  `Sole` adds that `locked` is TRUE while a guard is alive, that one is alive exactly
where a task is at `held`, and that no task has two; `StepSole` shows that every step but a clone
keeps it, and `OnlyACloneVoids` that no other step sets `cloned`.
The refinement follows from `Exclusive` step by step: every action is one of
`LockService`'s or leaves its waiters and holders alone.  For the strandings, `SomeoneActs` says that
while no wake was wasted and somebody is parked there is a task, that one or another, that still acts: it is
about to look at the flag, or to pop a waker, or has a wake coming; and `LockedHasHolder` that a set flag is
somebody's, so that a task that finds it set may rely on its holder.

`SemaphoreProofs` proves, for any *finite* set of clients, any requests, number of permits and width of
the counter (`SemaphoreAssumption`; the permits of infinitely many clients have no sum):

* `TypeCorrect`: the type invariant.
* `Conservation`: `PermitsConserved`.  The property speaks of remainders, because the counter wraps;
  the inductive `Conserved` counts how often it has: `permits`, what is held, what is hoarded and some multiple of
  `UsizeMax + 1` are `MaxPermits` and the surplus.  `Local` is what a client's own variables say of each
  other (a permit weighs what was asked for, only a hungry future has collected anything).
* `StuckForKnownCause`: `StuckOnlyForKnownCause` under the two conditions it needs and the run's constants meet.
  One is `Satisfiable`: no request is for more permits than there are, since one that is waits for ever.
  The other is that `MaxPermits` and the surplus are within `UsizeMax`, since a counter that wraps loses permits.
  Neither is an assumption of the other theorems.  `WaiterIsReachable` says that who parks can be woken, and
  `SomeoneResponds` that while no wake was wasted and none was in vain a parked client beside free permits has somebody
  who will look at them again before it parks, or wake somebody; `Doomed` clients, which hold an old count
  and will find it changed, do not.  `HoarderIsPaid` is the rest: with all permits hoarded by
  one client, it has what it wants.

* `WriterIsAlone` (`ExclusiveUntilSurplus` of `RwLock`), which needs no condition on what clients ask for: `HeldFit` says
  that while nothing was given back twice, what is held at one time fits into the permits there are, each two together and all by
  their number.  A write guard holds all of them.

`WorkerProofs` proves, for any tasks and operations, any size of the submission queue
and any bounds (`WorkerAssumption`: the operations are finitely many, as those in the submission queue are counted,
and those of own tasks, of other threads and cancellations differ):

* `NothingUnnoticed`: the thread does not block with a message or a completion that
  nothing tells it of.  At `poll` that is not inductive, since it says nothing of the
  turn before: `MessagesAnnounced` adds that a message in the channel means a
  pending edge, a sender between its halves, a broken eventfd, a thread that has seen
  the edge (`should_recv`) and has not emptied the channel since, or one that is past
  its last poll; `CompletionsAnnounced` says the same of completions.  The steps fall
  into those that leave channel and edges alone (`QuietStep`), those of other senders
  (`SendStep`), those of the thread that send (`OwnStep`), and the few that read.
* `StopIsFinal`: `StateAtPc` is what is known of `state` where the thread stores into it
  without looking, which is at `setup` and `poll`; elsewhere it looks.
* `TypeCorrect`: `TypeOK`, which also says that nothing is queued twice and that the submission queue is never over
  its size.  Its invariant `QInv` is the base of what follows: the channel holds a
  task's spawn and an operation's submission only while they are `sent`, and once (`ChannelInv`); the ready
  queue, the backup queue and the completions hold exactly the tasks and operations in those places (`ReadyInv`,
  `BackupInv`, `CqInv`); an await that is still to come has no operation (`Fresh`).  A batch of completions
  moves a part of the backup queue to the submission queue and rotates the rest, which `CompleteEffect`
  describes, and `Effects` says for each action what it puts where, so that the other lemmas need not open it.
* `NothingStranded`: `NoOperationStranded`.  The submission queue is empty, or this turn will hand it over, or the thread
  is draining (`SqInv`); what waits for room is behind an operation on its way (`Moving`).
* `NoTaskForgotten`: `ParkedHasWaker`.  A running task has a wake in the channel, is awaited by another thread, or
  has an operation whose completion is still to come (`Parked`).
* `EndAnnounced`: `EndIsAnnounced`, from who asked for the stop (`AskedFor`) and where it has been announced (`Announced`).
* `EarlyFinished`: `EarlyTasksFinish`.  Once the drain has emptied the channel no early task is
  still in it, and the drain ends when none is ready or running (`EarlyInv`).

`IoOperationProofs` proves, for any workers, futures and listeners and any bounds:

* `EntriesOutlive`: the invariant is `KInv`.  A slot is removed by a poll or by a
  completion; for neither to hit an operation in the kernel one must know that a single
  operation there has had no result (`InKernel`), that what has not been received has
  neither slot nor results (`Unreceived`), and that a new key was never used
  (`FreshKeys`).  `SettledStep` gathers the steps that change only what is over.
* `CanceledByCollision`: the invariant is `CInv`.  A "canceled" is traced back through
  the slot and the completion queue to a cancellation that was sent to that worker with that key
  (`Traced`); cancellations are of futures that were dropped (`OfTheGone`), and clients
  have handles of their own (`OwnHandles`), so a client that still waits was hit by a
  cancellation of another's operation, whose worker must be another since the
  key is the same (`HitIsCollision`).

* `TypeCorrect`: `TypeOK`, from `CInv` and the shapes of what it does not speak of.
* `ResultsKept`: `NoResultLost`.  The invariant is `RInv`: of every client, the results posted are those told, those in
  the slot and those on their way, in this order (`ClientRules`), which a step keeps only because of what the state of
  a slot says of its results (`SlotRules`): a drained slot has no completions to come, a
  single operation one result at most, and a cancellation is the last.
* `OneShotKept`: `ImplementsOneShot`.  Every step is one of `OneShot` for one future and a stutter for the others, or a
  stutter for all (`StepServed`): the kernel posts an outcome when it is the first (`PostServed`), a poll tells
  it (`PollServed`), and a worker moves it (`RingServed`), which the future does not see.  `Undelivered` says
  that who waits was told nothing yet.

The assumption used is `IoOperationAssumption`.

`SleepProofs` proves, for any sleeps (of no duration or not, moved, dropped or not) and any set of descriptor
numbers, with `SleepAssumption`: `TypeCorrect`; `SleptFully` (who is told `Ok` slept);
`TimersOwned` (`TimersAccounted`); and `InterestsKept` (`InterestKept`).  The inductive invariant is
`IInv`.  None of the three is inductive.  That a timer read as expired is the sleep's own needs `Owned`:
who *holds* a timer, from `Create` to the close, holds it alone, and if its number is among
the expired ones its time is over.  That a deregistration by number spares others needs
`Apart`: no handler waits on the number of one that is closing, because a handler runs from its event
to its clean-up while no other is polled (`NobodyRuns`), so that the number is given away in between, but not
registered.  `Progress` ties the stages of the future and of its handler together.  There is one lemma
for each step; `QuietStep`, `TaskStep` and `QueueStep` gather those that say nothing of timers.

`FilesProofs` proves, for finitely many callers (`FilesAssumption`: the streams on a description are counted), any
paths, flags and modes, any number of calls, and any steps of other programs between any two operations:

* `DescriptorsAreAccounted`: `DescriptorsAccounted`.  A description is held by no two kinds of owner and not
  held while it is being closed (`Held`), or a drop could close what another still uses.
* `PathsNameTheirFiles`: `PathNamesFile`, which is inductive once a File that is opened is known to be a new one of a
  caller that had none, and its path the place the kernel opened.
* `IterationsAreComplete`: `IterationsTellAll`.  Before the stream reads, what stayed is in the directory; after, it is told
  or in the buffer; and no name is one of the two that are skipped (`GoodIteration`).
* `DirectoriesOnPath`: `StaysOnPath` (`mkdir_recursive` goes for the directory that was asked for, is always at a prefix of
  its path and has made prefixes of it only) and `AddsOnPath` (no step of it, given up or not, adds anything else to the
  tree).  It rests, as the others do, on the invariant `CInv`: the tree keeps its shape through `mkdirat`, `openat2`,
  `renameat` and what other programs do (`FileSystemInv`: the current directory is at the empty path and nowhere else), and
  a call is at one of the steps of its kind (`GoodCall`), with `cur` a prefix of `goal` (`Within`) and `goal` what
  `path` asks for (`Asked`).

`StepKinds` first sorts the steps by what they do to the state: a call goes on, ends with a handle, opens for nobody, ends a
rename or begins; handles and streams are dropped, cloned and read; another program acts.  The invariants
are then shown kind by kind.

`MessageProofs` proves, for any payloads, control messages, sockets and answers of resolvers, any finite set of data and control
buffers of any size and content, and any bounds:

* `BuffersComeBackHolds`: `BuffersComeBack`;
* `BytesLandInOrderHolds`: `BytesLandInOrder`;
* `AlertsAreTheRecordsHolds`: `AlertsAreTheRecords`;
* `RightsAreToldHolds`: `RightsAreTold`;
* `AddressesRoundTripHolds`: `AddressesRoundTrip`.

The assumptions are those of the modules: an io vector limit and a reserve that are not zero, and a byte nobody wrote that is
no byte (`BuffersAssumption`); answers with addresses of their family's length (`AnswersAssumption`); payloads that are sequences
of bytes and control messages of one of the kinds of the enums (`SenderAssumption`); sockets of which the kernel adds messages a kernel can make
(`SocketsAssumption`); and buffers with identities of their own and no more bytes than room (`ReceiverAssumption`).

The invariant is `MInv`.  `Accounts` says that the identities held, in hand and lost are all there are and do not
overlap, `Parties` that one of the operation, the result and the error has what is in hand, in the shape the code gives it
(`GoodOp`, `GoodErr`): an error of a read has one data buffer, one for io vectors has none.  Without the shapes a recovery could give up
a buffer it does not have.  `IsDraft` and `IsQueue` say that what is composed or on its way was
made by the code's `prepare`, from which `PreparedParses` concludes that `try_parse` knows it.  A result keeps its operation and message, and
`GoodGot` that it is `Completion` of them, so that the other four properties are about that operator:

* of the bytes, `Scatter` cuts the payload at the sums of the spare memory (`ScatterIs`) and `VecIntoBytes` cuts the count at the
  sums of the chunks (`SpreadIs`).  Up to the first full buffer that the count reaches, the two cut alike (`KeepsUp`), so each buffer's piece is
  what was written there (`PieceIsPart`) and the pieces are the payload's start (`LandsInOrder`); that buffer takes a byte
  nobody wrote (`PieceIsGarbage`), so if there is one they are not;
* of alerts, one empty buffer is filled with the start of the message (`OneBufferFilled`);
* of descriptors, a control buffer has the messages it was given, the last one cut at most (`PutCmsgsIs`); a cut `SCM_RIGHTS` has a whole number of
  descriptors and parses to these (`CutIs`, `RightsAreParsed`), and whole messages parse unless the socket's own do not (`RightsOfAll`);
* of addresses, what the kernel writes as the name of a socket is what the address's `sockaddr_storage` was made of
  (`StorageRoundTrips`: a port in network order and back is itself, by its two bytes), and all that a text, a mapped text or a host
  name parses to is an address (`ParsedIs`).  The text of one is then followed through `compress_v6` and back for *any* eight groups
  (`TextRoundTrips`): the longest run of zeros and the first place it begins exist (`MostIs`, `DoubleColonIs`), cut out it leaves one empty part where it began
  (`ShortenedIs`), the second empty part put at an end of the text is the one `uncompress_v6` drops (`EdgeIs`), the zeros it fills in are those cut out
  (`FillIs`), and the bytes of the groups are the address's (`BytesBack`).  The case left is a longest run of one zero at an end, which is
  the exception the property names (`EdgeZero`).
`DataLemmas` is what these proofs share.  Induction is stated there over sets (`NatSetInduction`: a set of
naturals that has 0 and every successor of a member has them all; `FiniteSetInduction`), because a theorem that
takes a predicate as a parameter cannot be used with the provers at hand.  From it follow what a sum over a
finite set is and how it changes with one term (`SumOfChanged`, for the `MapThenSumSet` of the models), that a recursive function
has the values its definition says (`RecursionExists`), and what `Append`, `Tail`, `\o` and `SubSeq` keep of the elements of a
sequence and of their being there once.

Only model-checked are the properties under fairness (`QueueIsServed`, `EveryoneGetsIn`,
`SpawnedTaskFinishes`, `DrainEnds`, `FutureIsAnswered`, `AcceptIsHandedOver`, `SleepEnds`, `StopEnds`), which are out
of the prover's reach, and one for which no proof has been written: `UndisturbedCallsSucceed` of `Files`, which
needs what the tree was at each operation of a chain that nobody disturbed.

## Not modelled

* **The pool's start and join, and its round robin** over several workers (`pool.rs`): a worker is
  chosen among those that do not stop, whichever it is.  `TcpServer` starts a listener
  on each worker; `IoOperation` has listeners on any.
* **Notifications and signals** beyond what ends a worker.  The loop broadcasts to its
  subscribers with a blocking call on a bounded channel (`worker/mod.rs:511`), so one that never reads
  stops it; and it reads one `siginfo` per edge (`worker/mod.rs:611`), so a second signal queued with
  it waits for a third.  The channel is a library's and the mapping of signals a table.
* **`AtomicOwnedFd`**: `Worker` swaps the eventfd of the channel in one step.  A sender that has
  loaded the number and writes to it after the swap and the close is left out.
* **Event sources** with other interests than the ones the crate registers, `modify_interest`, which
  is for handlers outside it, and the second broadcast of a terminating signal.
* **Operations of sockets** (connect, bind, shutdown, splice), `socket_options.rs`, `timeout` and the syncs:
  one system call each and no state.  A `PeerAddress` made of a descriptor is asked of `getsockname`
  (`net/address.rs:774`), which is the near end's.
* **Files**: other fields of `Stats`, the resolve flags, the permissions of group and others, links, directories
  too large for one buffer of `readdir`, and hosts' resolvers beyond the answers they give.  The
  program owns what it touches and is not privileged.
* **Failures of io_uring itself**, partial writes to an eventfd (taken as failures), and what io_uring,
  epoll, timerfd and eventfd do beyond the effects the crate relies on, which are marked external.
* Logging, the table of OS errors, the macros of `sys.rs`, the wording of errors.

What would come next: a worker's `MessageChannel` with its `AtomicOwnedFd` in detail; the pool over several
workers that stop one after another; a proof of `UndisturbedCallsSucceed`.
