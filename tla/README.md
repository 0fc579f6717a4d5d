# AnyIO: a verification project

TLA+ modules of AnyIO (`src/src/anyio`), the TLC
configurations that check them on small instances, and proofs that TLAPS checks
for every instance. Everything is read from the asyncio backend
(`_backends/_asyncio.py`) and from the backend-independent code above it; paths
below are relative to `src/src/anyio`. The Python version assumed is 3.11 or
later, where a task counts its cancellation requests (`Task.cancelling()`,
`Task.uncancel()`); `RunLoop` alone also models older versions, for which the
backend brings a runner of its own.

To check: `tlc -config Condition.cfg Condition.tla`, `tlc -config Components.cfg
MCComponents.tla`, and likewise for the module that PROJECT.json names beside
each configuration; `tlapm LockProofs.tla`, and the other proof modules alike.

## 1. The system

AnyIO gives asyncio the semantics of Trio: level-triggered cancellation by
nested scopes, task groups, and the primitives, streams, threads and processes
that respect them.

| Component | State | Operations | Where |
|---|---|---|---|
| Cancel scopes | parent and child scopes, tasks, host, `_cancel_called`, `_shield`, `_cancel_handle`, `_cancel_calls` | enter, exit, `cancel`, `shield`, delivery, restart in the parent, deadline timer | `_backends/_asyncio.py:370` |
| Task groups | `_active`, `_tasks`, `_exceptions`, a cancel scope | `__aenter__`, `__aexit__`, `start_soon`, `start`, done callbacks | `:692` |
| Lock | `_owner_task`, deque of (task, future) | `acquire`, `acquire_nowait`, `release` | `:1753` |
| Semaphore | `_value`, deque of futures | the same | `:1827` |
| Capacity limiter | `_borrowers`, `_total_tokens`, ordered dict of events | the same, for any borrower; `total_tokens` setter | `:1908` |
| Event, Condition | an asyncio event; a lock and a deque of events | `set`, `wait`; `notify`, `notify_all`, `wait` | `:1730`, `_core/_synchronization.py:251` |
| Memory object streams | buffer, waiting receivers and senders, open clones | `send`, `receive`, their nowait forms, `close`, `clone` | `streams/memory.py` |
| Worker threads | workers, idle workers, a queue each | `run_sync`, report, prune, stop | `:891`, `:2385`, `to_thread.py` |
| Portal, calls from threads | stop event, task group, concurrent futures | `call`, `start_task`, `stop`, provider leases | `from_thread.py` |
| Worker processes | workers, idle workers, a pipe each | `run_sync`, prune, kill | `to_process.py` |
| Sockets | read queue, read and write events, guards; reader and writer futures | `receive`, `send`, `aclose`, protocol callbacks | `:1137`-`:1725` |
| Listeners | the socket, an accept scope or a loop reader | `accept`, `aclose` | `:1470`, `:1528` |
| Waiting for sockets | an event per socket and direction | `wait_socket_readable`, `wait_socket_writable` | `:2682` |
| connect_tcp, makers of sockets | attempts in a task group; the sockets opened so far | staggered attempts, first one wins | `_core/_sockets.py` |
| Buffered, TLS streams | a buffer; an SSL object and its two BIOs | `receive_until`, `receive_exactly`, the TLS retry loop | `streams/` |
| Text, stapled, file streams, file I/O | a codec; the streams below | | `streams/`, `_core/_fileio.py` |
| Subprocesses | pipes, the child | `run_process`, `aclose` | `_core/_subprocesses.py` |
| Signals | a queue and a future per receiver, one handler per loop | enter, exit, iterate | `:2030` |
| Deadlines | timers of scopes | `fail_after`, `move_on_after`, `deadline`, effective deadline | `:519`-`:550`, `_core/_tasks.py` |
| run() and the Runner | the library name, the SIGINT handler, the tasks left | `run`, `close` | `:126`-`:330`, `_core/_eventloop.py` |
| Adapters, RunVar | settings made before a loop runs; values by loop | | `_core/_synchronization.py`, `lowlevel.py` |
| Test runner, pytest plugin | a runner task fed by a memory stream; leases of the runner | calls, fixtures, `get_runner` | `:2109`, `pytest_plugin.py` |
| trio backend | Trio's own | | `_backends/_trio.py` |

How they interact: every blocking call is a checkpoint of the cancel scope
around it; a task group *is* a cancel scope, and `__aexit__` waits inside a
second one; Condition calls Lock; streams ask `has_pending_cancellation()`,
which reads scopes and the task; worker threads acquire a capacity limiter and
run under a scope; the portal runs its calls in a task group; `connect_tcp`
uses a group, events and a deadline; the test runner a memory stream.

What is hard: everything runs on one loop, but between two suspensions of a task
any other task, timer or callback may act. In particular
 * a hand-over and a cancellation meet: a waiter is given the lock, the token or
   the item, and is cancelled before its next step, or the other way round;
 * delivery of a cancellation is a callback that reschedules itself only while
   it sees tasks; shields and nested cancelled scopes stop it and must restart
   it;
 * asyncio's `cancel()` pierces shields, and its requests are counted together
   with those of scopes;
 * done callbacks, children that spawn children and a cancelled host meet in
   `__aexit__`;
 * threads act while the loop runs.

What makes each component correct: *scopes*, no cancellation is lost, none
reaches beyond its scope or through a shield, the counts balance; *groups*, they
end after their children, an error cancels them and comes out; *lock, semaphore,
limiter*, nothing is held twice, lost or made up, the queue is served in order
and to its end; *streams*, items keep their order, are neither lost nor
duplicated, and nobody waits for what is there; *threads and portal*, each call
is answered once, a worker is in one place; *sockets*, no byte is lost between
the protocol's callbacks and `receive`, and every end is seen.

PROJECT.json lists every component and, under "hazards", each point of the code
where this may fail, with the properties that cover it.

## 2. The modules

| Module | Models | Composes |
|---|---|---|
| `AsyncioTask` | an asyncio task as a primitive sees it: the awaited future, `_must_cancel`, the scope around the call | |
| `Lock`, `Semaphore`, `CapacityLimiter` | the primitives, whole | EXTENDS `AsyncioTask` |
| `AbstractLock` | what a lock promises: a holder and a line of contenders, which is an order on tasks; `Lock` implements it | |
| `Condition` | `wait()`, `notify()` over the lock they share | EXTENDS `Lock` |
| `MemoryObjectStream` | memory object streams, whole | EXTENDS `AsyncioTask` |
| `CancelScope` | scopes, with tasks that count their cancellation requests | |
| `TaskGroup` | task groups, without `start()` | EXTENDS `CancelScope` |
| `GroupStart` | `TaskGroup.start()` and the task status | |
| `Deadline` | the timers and deadlines of scopes | |
| `WorkerThreads` | `to_thread.run_sync()`, its pool, calls back into the loop | |
| `BlockingPortal`, `PortalContext`, `PortalProvider` | calls through a portal, contexts entered through one, a portal shared by threads | |
| `ProcessPool`, `Subprocess` | `to_process.run_sync()`; `run_process()` | |
| `SocketStream`, `RawSocket`, `Datagram`, `SocketListener` | TCP and UNIX streams, UDP, listeners | |
| `WaitSocket`, `SocketSetup`, `ConnectTcp` | waiting for a socket; making sockets; happy eyeballs | |
| `BufferedStream`, `TlsStream` | the buffer of `receive_until()`; the retry loop around the SSL object | |
| `SignalReceiver`, `RunLoop` | `open_signal_receiver()`; `run()` and the Runner | |
| `TestRunner`, `PluginRunner` | the asyncio test runner; its leases | |
| `Adapters`, `RunVars` | primitives made before the loop; variables by loop | |
| `SocketComponents` | the ten of these modules that stand on sockets, transports and signals | an INSTANCE of each |
| `Components` | the other thirteen: threads, portals, processes, runners, timers, settings; and the union of all, `EverySpec` | EXTENDS `SocketComponents`, an INSTANCE of each |
| `QueueLemmas` | lemmas on sequences: `RemoveFirst`, `RemoveAt`, `Append`, slices | |
| `LockProofs` | the theorems about `Lock` and `Condition` | EXTENDS `Condition`, `QueueLemmas` |
| `SemaphoreProofs`, `StreamProofs`, `LimiterProofs` | the theorems about `Semaphore`, `MemoryObjectStream`, `CapacityLimiter` | EXTENDS these and `QueueLemmas` |
| `GroupProofs` | the theorems about `CancelScope` and `TaskGroup` | EXTENDS `TaskGroup` |
| `SocketProofs` | the theorems about the modules of `SocketComponents` | EXTENDS `SocketComponents`, `QueueLemmas` |
| `ComponentProofs` | the theorems about the other modules of `Components` | EXTENDS `Components`, `QueueLemmas` |
| `MCCapacityLimiter`, `MCMemoryObjectStream`, `MCTaskGroup`, `MCComponents` | instances | |

An action is what the code does between two suspensions: on one loop nothing
comes between. Where threads act, an action is what they do between two points at
which the others could see a difference: a lock taken, a queue, a hand-over to
the loop, and in `BlockingPortal` each line of `_call_func` that another thread
can interfere with.

### AsyncioTask, and the primitives on it

`pc[t]` says where task t is suspended, or that it is in user code without or with
the resource; `fut[t]` is its `_fut_waiter`; `mustCancel[t]` is `_must_cancel`. A
task that is stepped raises when its future is cancelled or `mustCancel` is set.
Three things cancel it: a scope around its call (`ScopeCancel`), the repeated
delivery of that scope (`Redeliver`), which passes over a task whose future is
done, and asyncio's own `cancel()` (`NativeCancel`), which goes through shields.
A scope is reduced here to the call it surrounds: a call that raises leaves it
(`Unwind`). What scopes do among themselves is the matter of `CancelScope`.

`checkpoint_if_cancelled` is the place "check", in which a cancelled task stays
until the cancellation arrives; `cancel_shielded_checkpoint` is "yield", which
only a native cancellation interrupts.

*Lock.* `HandOver` is the loop of `release()`; entries stay in the deque until
their tasks run, as in the code. *Condition.* Every operation of the lock goes on
underneath (`UseLock`), so that the waiters of the condition and of the lock
interleave. `wait()` releases the lock, awaits its own event (`evfut`, `isSet`)
and enters the lock's `acquire()` again, under a shield, from whichever way the
await ended: the phases "checkpoint", "event" and "reacquire".
`listeners` is the deque of events. A native cancellation may hit the
reacquisition, which ends `wait()` without the lock; the property says so.
*Semaphore.* `Pass` removes the future it serves, which is how a cancelled waiter
(`Withdraw`) knows that it was served. `issued` is history: the tokens there are.
`Issue` is `release()` by a task that holds nothing, which the code allows.
*CapacityLimiter.* A queue entry is the borrower and the task that waits for it;
a second wait for the same borrower takes over the entry, as the dict does.
`wasted` is history: an event was set for a waiter that was being cancelled.
*MemoryObjectStream.* Items are numbered in the order in which they reach
`send_nowait()`. `cancelling` is `Task.cancelling() > 0`: it is set by each
cancellation that reaches the task and reset when the scope is left or somebody
calls `uncancel()`; until then the task may use a stream in a shielded scope.
`handed`, `accepted`, `received` and `natives` are history.

### CancelScope and Deadline

`current` is the task that is being stepped; it makes any number of calls before
it suspends. The methods are functions from a state to a state, so that
`TaskGroup` can call several in one action. The children of a scope are the
active scopes whose parent it is and its tasks those whose `cur` it is: the
code keeps the inverse sets. `exc` is the exception that unwinds a task. A native
cancellation that is thrown while a scope's unwinds the task has that as its
`__context__`, and `_uncancel()` walks there (`:525`-`:532`): it is "chained", and
swallowed by the scope like the one it came upon. A task that is being unwound
awaits in the frame that handles the exception, an `except`, a `finally` or an
`__aexit__`, which is how the context comes about; a cancellation that was caught and let
go of has none. Scopes are used once. User code that swallows a `CancelledError` is
not modelled, nor are exception groups that mix it with errors (`__exit__` swallows
neither).
A deadline is a `cancel()` at any time there; `Deadline` has the clock. It keeps
the scopes of one task with their deadlines, `_timeout_handle`, the timers in the
loop, and the cancellation on its way out. The loop calls a timer as soon as its
time is within a clock resolution, so `_timeout()` may come early and re-arms.
`fail_after()` and `move_on_after()` are a kind of the scope, and differ at exit.

### TaskGroup and GroupStart

Each group has a scope and a second one, `WaitScope`, which `__aexit__` enters.
`TaskDone` is `task_done` and then `on_completion`: asyncio runs the callbacks
of a task in one loop cycle, in the order they were added, and no task runs
between them. A child that is cancelled before its first step never runs. `block` is
the exception of the block: what the host raises later has it as its context only if
nothing was thrown into `__aexit__` itself (`Raised`).
`CheckpointStepped` keeps `_active` when a native cancellation leaves the
checkpoint, as the code does. `GroupStart` keeps of each call the caller's place,
the status future and the child with the exception it ends in; `task_done` sends
that to the future if it is pending and else to the group.

### Threads, portals, processes

*WorkerThreads.* Each call is in a task of its own; each worker has its queue and
the item it runs. `reports` are the callbacks of `call_soon_threadsafe`, in order.
A worker passes over an item whose future is cancelled and reports nothing; the
idle deque is pruned by any call and stopped when the root task ends; expiry may be
true of any prefix of the idle workers, since the deque is ordered by idle time,
which `since` and `clock` are there to check.
*BlockingPortal.* A call is a thread, the Future it has, and the task in the group;
`posted` is what the loop was handed. `line` freezes `_call_func` between two
lines, while other threads may cancel the Future. The portal ends in the steps of
`__aexit__`: the wait for the tasks, or the checkpoint if there are none, in which the
group takes new ones (`late`), then a group that is closed, and a loop that is gone and
has forgotten what was posted. *PortalContext* has the two
halves of a context: the thread that is in the block, and `run_async_cm`, joined by
two Futures and `_exit_event`. *PortalProvider* has the lock of the provider, the
lease count and each portal's loop thread. The last one to leave takes the
portal out of the attributes under the lock and stops it after letting go. A loop may
also end by itself, through a call that raises a `BaseException` or calls `stop()`, while
threads are inside ("dying", "dead"); a stop that is posted to it then is never answered,
or refused with the RuntimeError that `start_blocking_portal()` suppresses.

*ProcessPool.* A process may die at any time; the parent knows only after the loop
has reaped it ("noticed"). A call goes through starting (READY), initialising
(the module of `__main__`) and running. `StartFails` kills the process, `NotReady`, a
first message that is something else, and a cancellation let it go alive, and `GiveUp` is
the handler of `send_raw_command()`. `stray` is history: what leaves the code's hands.
*Subprocess.* The child reads and writes as it likes; a pipe holds `PipeSize`. The
call writes the input and waits; two tasks drain the outputs.

### Sockets and streams

*SocketStream.* `sock` has the queue, the events, the guards and the selector
transport (external): `buffer`, `closing`, a scheduled `connection_lost`. Bytes
from the peer are numbered, so that `receive(max_bytes)` that splits a chunk and
puts the rest back is visible. *RawSocket.* A call tries the kernel, then waits on
the reader or writer future; an item has several pieces on a stream. *Datagram* is
the protocol with its queue limit. *SocketListener* has both listeners: the TCP
one, whose accept scope `aclose()` cancels, and the UNIX one, which waits on a
reader. *WaitSocket* keeps whose event is in `read_events` and `write_events`, and
what the loop watches. *SocketSetup* follows each of five calls through its sockets;
`bind()` of a path is in a thread that may be abandoned. *ConnectTcp* orders the
addresses, starts attempts in a group, and hands on the first stream.
*BufferedStream.* `input` is a sequence of 0 and 1, the calls are the code's with
its search offset; the wrapped stream gives between one byte and what it was
asked for. *TlsStream.* A call of the SSL object reads records from one buffer and
writes to the other; `tlsAt` is which task is flushing which records.
*SignalReceiver* has several receivers and the loop's one handler; `displaced` is
history, those from whom an entry or an exit took it.

### The rest

*RunLoop* follows `run()` from the library name to `loop.close()`, with SIGINT at any
point. *TestRunner* has pytest's calls, the stream that feeds the runner task, and
`_exceptions`; a call may also end in pytest's `OutcomeException`, which the runner task
survives and `run_test()` does not catch, or yield once more in a teardown; `errors` is
history. *PluginRunner* has the lease count, the exit stack, whose `close()` may raise, and
sniffio's variable. *Adapters* compares a primitive that is made late with
one that had existed from the start (`ideal`). *RunVars* has the dictionaries of
several loops and all tokens, which may be used in any loop and any order; `strays` is
history, the variables for which that happened.

### Components and SocketComponents

Twenty-three modules that meet the others only through calls are checked in one
run. Each behaviour is one of a single component, which the initial state
chooses (`component`), and the variables `a` to `g` take that component's state;
an invariant of the union speaks of the components it names. The union is not a
composition: it has no behaviour in which two of them act. The compositions are
`Condition` over `Lock` and `TaskGroup` over `CancelScope`; the others model what
they need of the components below within their own actions (a guard, an event, a
limiter's token, the scope that a caller is in), so that what they check holds at
each await those components have. `SocketSpec` is the union of the ten modules that
`SocketComponents` instantiates, `Spec` of `Components` that of the other thirteen, and
`EverySpec`, the union of both, is what the run checks. No step changes
`component`, so that a behaviour of `EverySpec` is one of `SocketSpec` or one of `Spec`,
and the theorems about these two are about all of it.

## 3. The runs

| Run | Instance | States | Shows |
|---|---|---|---|
| `lock` | `Condition` of 3 tasks, one natively cancellable | 48 152 | `SoleOwner`: ownership and the tasks' view agree, also on the way to a waiter. `QueueAgrees`: the deque is the set of waiters. `ListenersAgree`: the condition's holds the waiters that were not notified. `FirstComeFirstServed`: `Lock` implements `AbstractLock`. `HoldsOnReturn`: `wait()` ends with the lock held. `WaiterServed` |
| `semaphore` | 3 tasks, 1 token of max 2, up to 3 issued | 8 500 | `Conservation` of tokens, `ServedInOrder`, `WaiterServed` |
| `limiter` | 3 tasks, one for another borrower, total 1 or 2 | 12 950 | `TokensHeld`: the borrowers are the tasks inside; `TokenLostToCancelledWaiter`: capacity lies idle only for one cause; `WaiterServed` |
| `stream` | 2 senders, 2 receivers, buffer 1, 3 items | 1 549 033 | `InOrder`, `NothingLost`, `NoNeedlessWait`, `DroppedWasCancelled`, `EndArrives` |
| `cancel_scope` | 1 task, 2 scopes, 3 requests | 20 024 | `DeliveryArmed`, `NothingEscapes`, `RequestsBalance`, `DeliveredInside`, `CancellationArrives` |
| `task_group` | root, group, 2 children, 1 more scope | 1 766 781 | `FailureCancels`, `ErrorsComeOut`, `HostHasReasonToWait`, `ArmedOrBlocked` |
| `components` | see below | 2 322 438 | one invariant per question, for the components that raise it |
| `lock_stranded`, `limiter_overdrawn`, `stream_hang`, `group_orphans`, `group_late_child` | the least instance | | the findings of section 5 |

`FailureCancels` is a property of steps: the first error leaves the group in a cancelled
scope, and only a step that raises a shield takes it out of one before the group is
closed. As an invariant it would need a word on every shield that was ever raised,
because `_effectively_cancelled` looks at the shields of the moment.

What `components` asks, with the modules that have the parts:

| Property | Of | Says |
|---|---|---|
| `ExceptionsComeOut` | `GroupStart`, `TestRunner`, `RunLoop` | a child's error comes out of `start()` or of the group, once, and no child is left behind; a callback's error comes out once, of its call or the first after it that does not withhold it; an interrupt comes out and leaves no task and no handler |
| `WorkersHold` | `WorkerThreads` | the idle deque holds the free workers, but for those that skipped an item, in the order in which they became idle; a pruned worker has no work |
| `CallsShielded` | `WorkerThreads` | what may not be abandoned holds its caller and its token |
| `TimersFollowDeadlines` | `Deadline` | one timer, for the present deadline; not early, not after exit; `TimeoutError` whenever its deadline cut the block |
| `SettingsKept` | `Adapters`, `RunVars` | what was set before the loop is found in it, and nothing of another loop; not the `fast_acquire` of a semaphore, nor variables whose tokens went astray |
| `ThreadsAnswered` | `BlockingPortal`, `PortalContext` | a thread that waits has a task, or a callback, that will answer it, unless the loop forgot that; an entered context is exited with the block's exception |
| `LeasesHold` | `PortalProvider`, `PluginRunner` | whoever is inside has the current portal or runner, which nobody else's leaving stops |
| `ProcessesInOnePlace` | `ProcessPool`, `Subprocess` | idle, with one call, killed, or let go of by a call that failed to start it or to prune; `run_process()` ends after its child |
| `BytesInOrder` | `SocketStream`, `BufferedStream` | no byte lost, doubled or reordered |
| `WaitersAreWoken` | `SocketStream`, `RawSocket`, `WaitSocket`, `BufferedStream`, `SignalReceiver` | who waits, waits for what has not come, and is registered for it, unless a receiver of signals was displaced |
| `PacketsKept` | `RawSocket`, `Datagram` | items are not interleaved; a packet is received, queued, or pushed out by the limit |
| `SocketsHandedOn` | `SocketSetup`, `ConnectTcp`, `SocketListener` | a socket is handed on or closed; a connection has one acceptor |
| `RecordsInOrder` | `TlsStream` | records leave in order; a truncated stream is told from a closed one |

Bounds, and why they are enough. *Three tasks* are a holder, a waiter and one
that comes between them, or two waiters of which one is cancelled: the code
looks at the head of the queue and at the entries it skips. *Two and two* in the
stream are a receiver that is skipped and the one behind it, and two waiting
senders behind a full buffer of one (with `MaxItems = 3`). *Two scopes* of one
task are a cancelled scope around a shielded or cancelled one; a third level is
in `task_group`, whose wait scope lies inside the group's. `MaxCancels` stops a
task from awaiting again once it has so many requests, and `MaxNative` bounds
the native cancellations: one suffices to meet each await. Cancellation requests
of a scope repeat with every await inside it, so that some bound is needed.
`MaxIssued` bounds the tokens that `release()` makes up. Symmetry is used where
no liveness is checked.

In `components`: *worker threads*, three calls on two tokens and three threads, so
that a call finds a busy, an idle and no worker, and one is abandoned; *processes*,
four calls on two, so that a process is used again and pruned; *portal*, one call
of each kind; *provider*, three threads, `MaxPortals = 3` (a second portal while the
first one stops), `MaxLeases = 8` (failed entries leave leases); *socket stream*,
chunks of 1 and 3 bytes of three, so that a chunk is split, and any number of sends,
of which only whether something is left in the buffer is told; *raw sockets*, items of two pieces and two senders;
*UDP*, a queue of 2 and four packets for the limit of 100; *listeners*, two
acceptors and connections; *connect_tcp*, up to three addresses in every order of
families; *makers of sockets*, three addresses, for an error after none, one and two;
*buffered stream*, every input of five bits, delimiters `11` and `01` (one that
overlaps itself), limits to 3; *TLS*, four records in either direction; *signals*,
four for two receivers; *tests*, three calls and two errors; *deadlines*, two nested
scopes, clock to `MaxTime = 2`, `MaxDelay = 1`, `Resolution = 1`; *run()*, two
background tasks, three interrupts, one foreign request; *plugin*, three items,
two backends, three runners; *adapters*, levels to 3 and two loops; *RunVar*, two
variables, loops and values, three tokens; *PortalContext*, two contexts;
*run_process()*, two bytes of input and of each output over pipes of one.

Bounds that hide behaviour are named here. In `limiter` only t1 is natively
cancellable, which borrows for itself: with `Native = {t3}` `TokensHeld` fails
(section 5). In `stream` a clone is closed only while its task is in user code:
closing a stream under a call on it is not modelled. In `BufferedStream` one call
waits at a time, as the stream below has it.

Deadlock is checked in the primitives and the stream. `CancelScope`, `TaskGroup`
and the components may stop: tasks end, calls are made once, and a task at its bound
may have nothing left to do.

Fairness. The loop steps every runnable task (`WF` of `Resume`, `Step`, `WaitStep`)
and runs every callback (`WF` of `Redeliver`): asyncio's ready queue is a FIFO. A
holder is assumed to release in the end (`WF` of `Release`), which is the user's
part of the contract; in `Condition` it is `SF`, since a task that keeps calling
`wait()` cannot release while it is in there, and may release each time it is
out. Nothing is assumed of anything else: no fairness of calls,
cancellations or of what a task waits for. In `components` no fairness is
stated; what must not hang is said as an invariant there: a waiting party has
somebody who will end its wait.

## 4. What is proved

All theorems are about every number of tasks, finite or infinite, every set
`Native`, and every value of the other constants that the assumptions of the
modules admit: `Lock`, `CancelScope`, `TaskGroup` and the like state theirs beside the
constants; `Components` has three (a model value that stands for `None` is no call
and no thread; portals and clock ticks are numbers) and `SocketComponents` eight (chunks
are not empty; delimiters are sequences of bits, limits and numbers of addresses are
numbers; an item has a piece; the queue of a protocol has a place; the acceptors are
finitely many; a task is on one side of a raw, UDP or TLS stream; `None` is no waiter). Each theorem rests on an
inductive invariant that has more in it than the property: what is added, and
why, is the point of the proof.

*Lock* (`LockProofs`): `TypeCorrect`, `QueueCorrect`, `MutualExclusion`,
`LockServesInOrder`. `IInv == TypeOK /\ QueueAgrees /\ SoleOwner`. `SoleOwner` needs
`QueueAgrees`: the task that `release()` picks is entitled to the lock because it is
really suspended on a pending future; and `QueueAgrees` needs a deque without
duplicates, since `RemoveFirst` takes out one entry. `LockServesInOrder` is the
refinement: `Line` maps the deque to the order of its pending waiters, and each
step of the lock is one of `AbstractLock` or a stutter: a cancelled waiter abandons
the line when its future is cancelled, not when it leaves the deque, and `release()`
is `GiveUp` to the least of the line because what it skips is not in it. The line
is an order on tasks, and not a sequence, so that filtering it needs no recursion.

*Condition* (`LockProofs`): `LockOfCondition` (the lock's `SoleOwner`, and the
rest of `IInv`, under the condition), `ListenersCorrect`, `LockHeldOnReturn`,
`ConditionServesInOrder`. The steps of `wait()` that are steps of the lock reuse its
lemmas. `CondIInv` adds `PhasesAgree` (where a task is in `wait()` fixes where it is
with the lock) and `Shielded`: a task that takes the lock again has no cancellation
pending unless it is in `Native`. The last is what `HoldsOnReturn` follows from.

*Semaphore* (`SemaphoreProofs`): `TokensConserved`, `DequeCorrect`,
`OrderOfService`. A cancelled waiter gives a token back when its future is not in the
deque; that this means "it was given one" is `QueueAgrees`, without which the sum
cannot be kept. `Counted` adds that the holders are finitely many, so that no
assumption on `Task` is needed to count them.

*Memory object streams* (`StreamProofs`): `ItemsInOrder`, `NobodyWaitsNeedlessly`,
`DroppedOnlyWhenCancelled`, `EndReachesWaiters`, from one invariant `SInv`, and
`ItemsAreKept`. An item may pass the buffer, from a sender to a waiting receiver:
that this does not overtake another needs `NoNeedlessWait`, and that refilling the
buffer from the head of the waiting senders keeps the order needs both queues to be free
of duplicates (`QueuesAgree`). `Ordered` is `InOrder` with buffer and senders apart.
`ItemsAreKept` counts: the items that are missing, or in the hand of a receiver that
is being cancelled, are no more than asyncio's own cancellations (`LossesCounted` in
`LossInv`). A step may put at most one item at risk, since `send_nowait()` passes over
receivers that have a pending cancellation (`Requests`, `Hands`) and a scope passes over
a future that is done; `Taken` says where the item of a sender is that was taken.

*Capacity limiter* (`LimiterProofs`): `TokensStayWithTasks` and `TokensAreHandedOn`,
under `OwnBorrowers`: no two tasks borrow for one object, and asyncio's `cancel()` hits
only tasks that borrow for themselves. Both are needed: the borrowers are a set, and
the handler at `:1994` releases for the current task. `CancelledWhileSuspended`
says where a cancellation can be pending at all. `TokensAreHandedOn` needs
`AllGivenOut` of `LQInv`: while nothing was wasted and somebody queues, at least as many
tasks hold a token or have been notified of one as there are tokens; each release,
and each rise of the total, notifies enough to keep that.

*Scopes* (`GroupProofs`): `CancellationStaysArmed`, `CancellationStaysInside`,
`RequestsTakenBack`, `DeliveriesStayInside`, for any tasks and scopes. The walks of
`_deliver_cancellation()` and of `_effectively_cancelled` are recursive functions
(`Visited`, `Nearest`). Nothing computes them in the proof: `Walk` is a finite walk up the
parents, one is exhibited from every scope by taking a scope of least depth without
one (`WFMin` on the naturals), and the function that picks the end of the walks solves the
recursive equation, so that `Nearest` is a solution too; what any solution finds follows
along the depth. `ScopeInv` says: for some depth the scopes a task hosts are a
stack (`Stacked`); `Task.cancelling()` is the native requests and those of the scopes
on the stack, one by one (`Counted`); a `CancelledError` in flight that a scope made, or that
came upon one that a scope made, has a cancelled scope on the stack that will swallow it
(`Traced`); and every closest cancelled scope has
its delivery scheduled (`ArmedBut`, with the exception of the scope that `__exit__`
is about to restart).

*Task groups* (`GroupProofs`): `HostNeverWaitsForNobody`, `ErrorsReachTheHost`,
`ChildrenStayArmed`, `FailuresCancel`, for any nesting of scopes and
groups. The first two need nothing of what a delivery visits but what every
outcome keeps (`Keeps`): no host or parent changes, no task moves, no future is
made; `Moves` says the same of `__enter__` and `__exit__`, apart from their own scope and
host. `GInv` has the shape of the state without ranges; `HostWaits` (the host of a
group that is left stands in its wait scope); `Placed` (nobody else does, and no scope is
entered there), without which an `__aexit__` could take another task out of its
scope; and `ErrorsRecorded`. The other two are about where the walks end, and take the
lemmas about scopes: `CInv` adds a depth for the forest of all tasks' scopes
(`Layout`), that every cancelled scope that is found delivers or waits for one further
down to be left (`CoveredBut`), and how far a group is with its two scopes
(`GroupLinks`).

*Components* (`ComponentProofs`): every property of the run `components` that is about a
module of `Components`, by one inductive invariant for each module:

| Theorem, property | Invariant | What it adds |
|---|---|---|
| `LeasedOnesRun`, `LeasesHold` | `PPInv` | there are at least as many leases as threads inside (failed entries leave leases), so whoever brings them to zero is alone; a portal that somebody is about to stop outside of the lock is not the one given out |
| | `PluginIInv` | the leases are exactly the holders; only the current runner is open, and whoever is inside has it; a runner whose closing failed stays the current one |
| `NoSettingLost`, `SettingsKept` | `AdapterInv` | before the primitive is made the settings are those of the ideal one, afterwards the two are equal |
| | `RunVarIInv` | the tokens of a variable in a loop that are not redeemed form a stack, each with the value under it, as long as none went astray |
| `WorkersInOrder`, `WorkersHold`; `CallsStayShielded`, `CallsShielded` | `WorkersInv` | what may be in a worker's queue, by its place; a call is in one queue or one report; who may not abandon awaits its future meanwhile; the workers in the deque have become idle one after the other, and before now (`IdleInOrder`) |
| `EveryProcessHasAPlace`, `ProcessesInOnePlace` | `ProcessesInv` | resting processes are workers, without repetition; those in a call's hands are others, one for each call; a stray is in nobody's hands any more (`StraysOK`) |
| | `ChildInv` | while nothing failed, a drain that ended has read all there was, and the child has ended |
| `EveryThreadAnswered`, `ThreadsAnswered` | `PortalInv` | a task that has ended has resolved its futures, one that has not keeps the group active unless it came late, one that is not there yet is posted |
| | `EnteredInv` | the places of the thread and of its task in `run_async_cm` go together |
| `EveryExceptionComesOut`, `ExceptionsComeOut` | `StartInv` | the status future, the child and what `start()` did fit, for each way they can end |
| | `TestInv` | `_exceptions` is exactly the errors that came out of no call yet, and the calls since each of them have withheld it (`Withholds`); an unanswered call that nobody awaits was interrupted or refused |
| | `RunInv` | what the SIGINT handler has counted and where the main task is, by the stage of the run |
| `DeadlinesAreKept`, `TimersFollowDeadlines` | `TimerInv` | the handle of a scope is its only timer, of its present deadline; the chain has the active scopes, each once |

The recursion of `current_effective_deadline()` is unrolled like the walks up the
scopes. The theorems are about `Spec`, the behaviours of `EverySpec` whose component is
one of these thirteen.

*Sockets* (`SocketProofs`): the other five properties of the run, about `SocketSpec`,
in the same way. `SocketInv` has one invariant for each module:

| Theorem, property | Invariant | What it adds |
|---|---|---|
| `BytesStayInOrder`, `BytesInOrder` | `StreamInv` | what was returned, the queue and the bytes in the transport are consecutive numbers (`BytesFollow`), so that a rest that is put back in front continues them; how the transport's states go together (`LinkOK`), and a waiting task with them (`TaskFits`) |
| | `BufferInv` | what was handed out, then the buffer, is the part of the input that was taken from the stream; `receive()` waits only with an empty buffer |
| `WaitersStayRegistered`, `WaitersAreWoken` | `StreamInv`, `BufferInv`, and `RawInv` | the reader and the writer future of a raw socket belong to the one task that waits (`WaitsAlone`) |
| | `WaitInv` | an entry of `read_events` or `write_events` is the event of a task that waits, and its direction is watched |
| | `SignalInv` | what a receiver was given, then its queue, is what came in; a pending future means an empty queue; a receiver that is entered has the handler or was displaced |
| `PacketsStayKept`, `PacketsKept` | `RawInv` | a sender in the middle of its item is the last one on the wire (`ItemOf`) |
| | `UdpInv` | received, then queued, is increasing and is what came in without what was pushed out; who was woken has a packet, or the socket closes |
| `SocketsComeToHands`, `SocketsHandedOn` | `SetupInv` | which sockets there are at each step of each call (`ListenersFit`, `OneSocketFits`) |
| | `ConnectInv` | only the winner's stream is open, and an attempt is cut or closes its stream only when something was cancelled (`AttemptsFit`); the group is cancelled by itself exactly when there is a winner (`ScopesFit`); the attempts that were started are the first ones (`CallerFits`) |
| | `ListenerInv` | connections are counted: in the backlog, handed on, dropped, or in the hands of one acceptor; only a cut accept drops one |
| `RecordsStayInOrder`, `RecordsInOrder` | `TlsInv` | one task flushes at a time, and only a `receive()` that does has data in its hands (`CallsFit`); what is unread are the last of the peer's records (`ReadFits`); what was read is received, or in the hands of one reader (`DataKept`); what is flushed comes after what was sent, and the two are all that was made (`RecordsSent`) |

Three definitions are in a form that can be reasoned about without induction: the order of
the addresses in `ConnectTcp` is a recursive function of their number (`Lists`),
`PacketsAccounted` speaks of the places of two sequences and not of a filtered one, and
`RecordsInOrder` of the n-th record and not of a sequence of numbers. What a sequence
is after a put-back, a cut or a search is proved in lemmas that speak of sequences only.

`QueueLemmas` says what `RemoveFirst`, `RemoveAt`, `Append`, `Tail`, slices and the loops
that skip entries do to a sequence. Constants are assumed to be what the modules' named
ASSUMEs say, and `OwnBorrowers` is a hypothesis of the two theorems about the
limiter; nothing else is assumed.

Only model-checked: the liveness properties `WaiterServed` and `CancellationArrives`
(fairness and ENABLED are out of the prover's reach). Every invariant that a passing run
checks, and every other action property, is stated by a theorem.

## 5. Findings

Each has a run whose counterexample is the shortest; all five were also
reproduced with the code itself on Python 3.11.

 1. `lock_stranded`: `acquire()` queues because the deque is not empty although
    the lock is free and everybody in the deque is being cancelled; the new
    waiter is never woken. The semaphore has the same test (`:1851`).
 2. `limiter_overdrawn`: a released token goes to a waiter only when that is
    stepped, and anybody may borrow it before: more borrowers than tokens.
 3. `stream_hang`: a receiver in shielded cleanup code after a cancellation is
    dropped from the queue and never served.
 4. `group_orphans`: a group without children yields once in `__aexit__`, still
    active; a child spawned then outlives the group.
 5. `group_late_child`: a child spawned into a cancelled group whose delivery has
    lapsed is not cancelled.

Met while modelling, without a run. The models behave as the code does here, and
the properties leave these cases out by name:

*Primitives.* A limiter notifies a waiter that is being cancelled and the token stays
unused although others wait (the escape in `TokenLostToCancelledWaiter`).
`acquire_on_behalf_of()` interrupted in its checkpoint releases the token of the
current task (`:1994`). A notification given to a `Condition` waiter that is cancelled
before its step is lost; `wait()` without the lock leaves an event in the deque,
since `release()` raises after the append. A `Semaphore` made outside a loop loses
`fast_acquire` (`_core/_synchronization.py:354`, `:451`); `EventAdapter.set()` and
`LockAdapter.locked()` raise outside a loop.

*Scopes and groups.* A native cancellation that arrives while a scope's is unwinding the
task is swallowed by the scope with it (`:525`-`:532`). A native cancellation in the checkpoint of `__aexit__` leaves
`_active` set and drops the errors of the block. A scope that was left may be entered
again (only `_active` is tested, `:392`). A scope cancelled before it is entered
arms its timer.

*Memory and byte streams.* A sender cancelled after its item was taken raises although
the item is delivered. `SocketStream.aclose()` cancelled in its `sleep(0)` with
data unflushed never aborts. `aclose()` of a UNIX stream
whose future is done raises `InvalidStateError` and leaves the sender waiting;
`send_fds()` ignores the count of `sendmsg()`. TLS records pending at an `SSLError`
are never flushed, two flushes at once end in `BusyResourceError` with a lost
record, and a `receive()` cancelled while it replies loses data.

*Sockets.* A TCP listener's `aclose()` cancelled at `sleep(0)` leaves the socket open; a
UNIX listener's leaves its acceptor waiting; `wait_socket_readable()` is not ended
by a close (`_core/_sockets.py:605`), and a closed socket leaves its entry behind.
`connect_unix` cancelled in the wait inside `except BlockingIOError`, a cancelled
checkpoint of `create_unix_datagram_socket`, a bind error in `create_tcp_listener`
and a `connect_tcp` cancelled after a win each leave a socket to the garbage
collector.

*Threads and processes.* A portal future cancelled early may not reach the task
(`docs/threads.rst`). A thread whose call was posted to a loop that ends before it takes
it waits for ever in `f.result()` (`_asyncio.py:2502`), and a call that arrives in the last
checkpoint of the portal's group outlives the group (finding 4 again). A call that raises
a `BaseException` ends the loop of a shared portal under the threads inside it
(`from_thread.py:231`). The provider may have no portal or two for a moment
(`from_thread.py:404` promises one), and a start that fails leaves a context
manager without portal. `stop()` without `cancel_remaining` waits for contexts that
are inside. Abandoned threads exceed the limiter's total, and a worker that skipped a
cancelled item is never idle again. A call cancelled while it starts a process, or that gets
another message than READY from it (`to_process.py:153`-`:165`), leaves the process; `_forcibly_shutdown_process_pool_on_exit` (`:1100`-`:1102`) skips
exactly the live ones. `open_process` passes `kwargs["extra_groups"] = group`
(`_core/_subprocesses.py:179`). `run_process` of a child that closes its input
early raises, and then waits while nobody drains its output.

*Signals, runners.* Two `SignalReceiver`s of one signal share a handler; two tasks
that iterate over one receiver lose a wake-up. A failing fixture, and a test that is
skipped (`:2250`), keep caught callback errors, which come out of a later call;
`KeyboardInterrupt` leaves the test runner busy. A runner whose `close()` raises stays the
current one, closed (`pytest_plugin.py:60`-`:63`). A token of a RunVar used in another loop
carries its value there (`lowlevel.py:143`-`:158`). `create_test_runner()` that fails leaves the library name set
(`pytest_plugin.py:44`-`:53`). Before Python 3.11 the backport of the Runner turns Ctrl-C
into a `CancelledError`.

## 6. The plan

Done: the primitives and `Condition`, streams, scopes, groups and `start()`,
threads, portal, processes, sockets, TLS, signals, runners, each with its
properties, and the proofs of section 4. Left, in this order:

1. Compositions: `start()` inside `TaskGroup`, with several children and the scopes of
   caller and child; the portal on a task group; worker threads on the limiter.
2. Abstract specifications: a counting semaphore for `Semaphore`, a bounded FIFO
   channel for `MemoryObjectStream`, "a group is the set of its unfinished
   children" for `TaskGroup`.
3. Text, stapled and file streams, whose state is a decoder and the parts they close.

## 7. Not modelled

*Text, stapled, file streams, `MultiListener`, async file I/O and `Path`*: a call in a
worker thread or to the streams below. Three points in them deserve a test: when the first
part raises or is cancelled in `aclose()`, the others stay open (`streams/stapled.py:46`,
`:82`, `:131`); the decoder of `TextReceiveStream` is never finalised at the end
of the stream (`streams/text.py:45`); it keeps its buffer after a decoding error.
*Typed attributes, exceptions, `TaskInfo`*: no state that changes. *The trio backend*: a
thin layer over Trio, whose source is not in the repository. *`open_process`*: its
arguments; only its pipes are in `Subprocess`. *The pytest plugin's hooks for
collection and fixtures*; the leases of the runner are in `PluginRunner`. *Context
variables, pickling, certificates and name resolution*: data that no property
here tells apart. *Python before 3.11*, where requests are not counted, except in
`RunLoop`.
