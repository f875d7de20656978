# neolib in TLA+

neolib is a C++ utility library: a thread pool, asynchronous tasks and timers,
an event (signal and slot) system, an entity component system, a packet network
library, reference counting, settings, logging, and many containers. These
modules specify the parts of it whose correctness depends on the order in which
things happen, check them with TLC on small instances, and prove the most
important properties with TLAPS for every size.

Line numbers refer to the sources below `src/`; `task/event.hpp` and the like
are short for `src/include/neolib/task/event.hpp`, and `thread_pool.cpp` and the
like for the file below `src/src/`. The modules use the source's names where
TLA+ allows it; a comment before every definition that is not named after its
code says what it is.

## The system

| component | state | operations | talks to |
|---|---|---|---|
| `thread_pool`, `thread_pool_thread` | the threads, `iMaxThreads`, `iIdle`, `iStopped`; per thread `iActiveTask`, `iWaitingTasks`, `iStopped` | start, try_start, run, reserve, wait, stop, destructor; the worker's loop and stealing | tasks, `thread`, `parallel_apply`, the ECS |
| `recursive_mutex` (`core/mutex.hpp`) | `iState`, `iLockingThread`, `iLockCount` | lock, unlock, try_lock | every event, queue and ECS lock (through `switchable_mutex`) |
| `event`, `slot`, `sink` (`task/event.hpp`, `task/i_event.hpp`) | `iSlots`, `iActiveWorkList`; per thread a stack of work lists | trigger, accept, add and remove slots, destroy | handlers, `async_event_queue` |
| `async_event_queue` (`task/event.cpp`) | `iQueue.multiple`, `iQueue.single`; per thread pump lists; a map from threads to queues | enqueue, pump_events, register | events, `async_task` |
| `thread`, `async_task`, `async_thread` | `iState` of each, `iCancelled`, the timer service | start, abort, wait, run, do_work, halt, cancel | timers, events, the network |
| `timer`, `timer_object`, `timer_service` | `iWaiting`, `iInReady`, `iEnabled`; `iExpiryTime`, subscribers; work lists per thread | again, cancel, reset, handler; poll | `async_task` |
| `waitable_event` | `iReady`, `iSignalType`, `iTotalWaiting` | signal_one, signal_all, reset, wait | threads |
| `reference_counted`, `ref_ptr`, `weak_ref_ptr`, `lifetime` | counts, control block; life state | add_ref, release, pin, control_block; flags | everything |
| `basic_jar` (`core/jar.hpp`) | items, cookies, reverse indices | insert, remove, next_cookie | containers |
| ECS (`ecs/ecs.cpp`, `ecs/component.hpp`, `ecs/system.hpp`) | records, entities and reverse indices; entity and handle ids; deferred destructions; paused systems | populate, update, destroy, sort, snapshot; create_entity, destroy_entity, async_destroy_entity; handles; pause, resume, terminate | timers, the pool, events |
| `packet_connection`, `packet_stream`, `string_packet` (`io/`) | socket, `iSendQueue`, `iPacketBeingSent`, handler proxy; the buffer | open, close, send_packet, completion handlers; take_some | the io task |
| `services` (`core/service.hpp`) | the provider, its mutex and services | service(), set_service_provider | everything that asks for a service |
| `settings` (`app/settings.cpp`) | values, new values, `iModified`, the file | register, change, apply, discard, delete, save | handlers of its events |
| `logger` (`app/logger.hpp`) | two buffers per thread, the logging thread | flush, commit, wait, finalize, end of a thread | every thread |
| `http` (`io/http.cpp`) | the request's stream, the state and body of the response | request, the stream's events | `packet_stream`, handlers of Completed, Failure, Progress |
| `gap_vector` (`core/gap_vector.hpp`) | storage, the gap | insert, erase, reserve, data | |
| `segmented_array`, `array_tree` | a list of segments, and a red-black tree over their sizes | insert, erase, resize, access by index | `segmented_tree` |
| `segmented_tree` | per node its children and two counts | insert, erase, sort, skip, traversal | GUI models |
| `basic_json` (`file/json.inl`) | a table of states, the stack of open values | do_parse | |
| plugins, files, XML, strings, other containers, mathematics | data | sequential | |

What is hard in it, and what makes each component correct:

- **Thread pool.** Two kinds of mutex and two condition variables; the task of a
  worker is set, and the worker woken, before the pool's `iIdle` is updated;
  `stop()` and the destructor race workers that are asleep, running or between
  two tasks; threads are added while others steal. Correct means: a task
  accepted is run once, in order of priority, wherever it is queued; `wait()`
  returns when and only when the work is done; no thread sleeps through a task
  or a stop; the destructor leaves nothing behind.
- **Recursive mutex.** Three atomics written separately. Correct means: mutual
  exclusion, as many unlocks as locks, no lost wakeup.
- **Events.** Handlers re-enter everything: they trigger, accept, subscribe,
  unsubscribe, throw, and destroy the event that called them. Correct means: a
  trigger calls the slots it found, accept() stops the trigger it was called in,
  and a destroyed event is left alone.
- **Asynchronous queue.** Calls cross threads; slots and events die while their
  calls are queued, and others are built at their addresses; handlers pump again
  and throw. Correct means: each queued call is made once, in order, to a living
  slot, or given up for a reason the caller knows.
- **Timers.** A timer is used, assigned and destroyed in its own handler, which
  may poll the service again. Correct means: one call for each deadline that
  passes, none after cancel, nothing used after it was destroyed.
- **Threads, tasks, waitable events, systems.** Cancel against run, timeout
  against signal, resume against a thread about to sleep, destruction against
  all of them. Correct means: what is signalled wakes, what is cancelled ends,
  and nothing is destroyed while it runs.
- **Tables.** Ids and cookies are used again, and records are moved by swapping
  with the last. Correct means: an id leads to its own record or to none.
- **Reference counts.** In one thread: pointers that count and pointers that do
  not are assigned to one another, in destructors too. In several: a plain
  counter and a control block next to an atomic one. Correct means: an object
  lives exactly while somebody holds it.
- **Connections.** An operation completes after the connection was closed,
  reopened or destroyed, perhaps by the callback that is running.
- **Services, settings, log.** One service for all threads although the provider
  is exchanged; a value is in the file or known to be modified, wherever the
  program ends; no message lost or doubled while buffers change hands.
- **HTTP.** A request is replaced by the next one, also in the handlers of the
  events that end it, and a response may stop anywhere. Correct means: a request
  ends once. That it can complete is what the code does not achieve: line ends
  never reach the part that waits for them.
- **Sequential cores.** The gap of a vector, the list, the tree and the indices of
  a segmented array, the counts of a tree, the table of a parser, the ends of
  lines that a read cuts in two.

`PROJECT.json` lists every component, also those that are not modelled and why,
and under `hazards` each of these difficulties at its line, with the properties
that cover it.

## Modules

Each component has a module, in which its state is the variables, its
operations the actions. Six have an abstract specification that they are shown
to implement.

| module | what it is | implements |
|---|---|---|
| `ThreadPool` | `thread_pool`, its workers and their queues | `CentralQueue`, one set of pending tasks, the most urgent first |
| `ParallelApply` | `parallel_apply()` and what it needs of the pool | |
| `RecursiveMutex` | `recursive_mutex`, waiting or spinning | `RecursiveLock` |
| `Event` | `event::sync_trigger()` and what handlers may do | |
| `AsyncEventQueue` | the queue of event calls of one thread | `CallQueue`, each call made once or given up |
| `Timer` | timers, timer objects and the service that polls them | |
| `WaitableEvent` | `waitable_event` | |
| `AsyncThread` | `async_thread` with its `async_task` | |
| `SystemPause` | an ECS system's thread, paused, resumed, terminated | |
| `Component` | the records of a component, and its snapshot | `ComponentMap`, a map and a snapshot of it |
| `EntityIds`, `HandleTable` | the ids of the ECS | |
| `Jar` | `basic_jar` | |
| `RefPtr`, `SharedObject` | pointers of one thread; one object of several threads | |
| `GapVector` | `gap_vector` | `ItemVector`, a vector |
| `ArrayTree`, `SegmentedArray` | `array_tree`; `segmented_array`, which finds its segments by it | `ItemVector` |
| `SegmentedTree` | `segmented_tree` | |
| `Settings` | `settings`, its file, and the runs of a program | |
| `Logger` | the buffers of the log and the logging thread | |
| `Services` | `service()` and the exchange of the provider | |
| `PacketConnection`, `StringPacket` | a connection and its stream; cutting what was read into lines | |
| `Http` | `http`, its requests, and what becomes of the responses | |
| `JsonParser` | `do_parse()`, fed by a generator of the JSON grammar | |

Proofs are in modules of their own, one for each group of modules that a run has
together: `ThreadPoolProofs` (the pool and its queues), `TaskProofs`
(parallel_apply, events and timers), `EventQueueProofs` (the asynchronous queue),
`ThreadProofs` (waitable event, thread, system), `CoreProofs` (mutex, pointers,
settings, the vector with a gap), `TablesProofs` (component, ids, handles, jar) and `ServicesProofs` (services, log, connection, HTTP).

`MCThreadPool` gives the pool its priorities, and `MCTask` has what its `.cfg` files give
for events, slots, calls and addresses (`MCSubscribesTo` and what follows it). `MCTask`, `MCThread`, `MCEcs` (which
extends `Tables`, the tables of the ECS and the jar together), `MCCore` and
`MCServices` are instances of several modules at once. Those parts
share nothing in these instances, and interleaving them would only multiply
their states, so that the variable `part` says from the beginning which of them
a behaviour is about; the others stay as they begin. A property of such a module
is the conjunction of what is promised of one part, defined at the end of the
MC module (or of `Tables`) with a comment; its parts are defined, with theirs, in the module of
the component.

How components that interact are composed. The pool is composed with its users
at its interface: `ThreadPool` implements `CentralQueue`, and `ParallelApply`
uses what `CentralQueue` promises. Events meet their queue in `AsyncEventQueue`,
whose slots may be held by the work list of a trigger (`Hold`, `Release`), which
is how a call of a slot outside its sink comes about. `AsyncThread` is thread
and task together, `Timer` the timers, their objects and the task's service,
`PacketConnection` the connection with the stream that owns it, and `Settings`
the settings with the file and the next run of the program.

### ThreadPool, ParallelApply

`active`, `waiting`, `threadStopped` are the workers' `iActiveTask`,
`iWaitingTasks` and `iStopped`; `size`, `maxThreads`, `idle`, `stopped` the
pool's fields. `worker` and `client` are program counters. A critical section of
the pool's recursive mutex is one step, but for the one gap another thread can
observe: between handing over a task and `update_idle()`. A thread in that gap
is at `publish`, `publishBusy` or `publishIdle` and holds the mutex, which is
what `MutexFree` says. The mutexes `iCondVarMutex` and `iWaitMutex` only make
"test and sleep" one step.

| code | actions |
|---|---|
| start, run; try_start | `Start`, `StartThrows`, `AddBehind`, `AddActivate`, `PublishStart`; `TryStart`, `TryAvailable` |
| exec | `Check`, `SpuriousWake`, `Run` |
| release, next_task, steal_work, thread_gone_busy, thread_gone_idle | `NextOwn`, `NextStolen`, `NextNone`, `PublishBusy`, `PublishIdle` |
| reserve; cancel of a task | `Reserve`; `Cancel` |
| wait | `Wait`, `WaitCheck`, `SpuriousWaiter`, `Waited` |
| stop, destructor | `Stop`, `FindUnstopped`, `SkipThread`, `StopThread`, `Joined`, `JoinThrows`, `StopDone`; `Destroy`, `Destroyed` |

`available_threads()` is an unsigned difference that wraps when `reserve()` made
the pool smaller than its active threads; `NoneAvailable` says when it is zero.
`accepted`, `runs` and `finished` are history. Clients respect the class's
preconditions: a task is started once, the destructor is called when nobody else
is using the pool, and nobody calls `reserve()` during `stop()`, which walks the
threads without a lock.

A worker's `stop()` tests `iStopped` without the mutex it sets it under, so the
test (`FindUnstopped`, or `SkipThread` when it is set) and the set, the
notification and the beginning of the join (`StopThread`) are two steps. Two
clients may both pass the test and join one `std::thread`, which is undefined;
`contested` records it. The model has the two usual outcomes of that: a join that
ends (`Joined`), and one that throws `std::system_error` out of `stop()`
(`JoinThrows`). What the properties say of `stop()` and the destructor is about
pools in which it did not happen.

A thread that `reserve()` adds takes nothing by itself: tasks that wait in the
first thread's queue stay there beside it, and the next task started, however
urgent, goes straight to it. `CentralQueue` therefore promises that a task is left
waiting only if every thread has one *when it is submitted*.

In `ParallelApply` a task is a range, and `Apply` is one call of the function;
`Call` chooses the container's size and tests `aMinimumParallelismCount`, `Loop`
cuts off a range, `Rest` the last, `Return` is `wait()`. `Stop` and `Stopped` are
`stop()` by somebody else: a second one returns before the threads have left.

### RecursiveMutex

`pc` says where a thread is in `lock`, `try_lock` or `unlock`; every access to
one of the three atomics that another thread can notice is a step. The relaxed
loads of the shortcut can be read as current values: the only value of
`iLockingThread` a thread acts on is its own id, which only it writes, so that
coherence orders its reads after its writes. `held` counts the locks a thread
still has to undo. `iLockCount` changes together with the step before it, since
only the holder reads it.

### Event, AsyncEventQueue

`stack` is, per thread, the `sync_trigger()` calls it is in; the work list of
the call at depth `d` on thread `t` is `lists[<<t, d>>]`, shared by all events
of the same argument types, as in the code, and `active` is each event's
`iActiveWorkList`. Between two steps of a trigger its current slot's handler
runs, and that handler may take any action, `Throw` included. Writing to a
destroyed event is recorded (`touched`) and otherwise without effect, the usual
outcome of that undefined behaviour. A slot called in another thread only ends
its call here; its delivery is the queue's business. The case in which the last
slot vanishes between `has_slots()` and the lock, where the trigger does
nothing, is left out.

The queue's `multiple` and `single` are the members of `iQueue`; `single` is
keyed by the address of the slot (`At`), since that is what the hash table
compares, and `Replace` is the second enqueue of a key. `lists` are the owner's
work lists per depth, `pumps` its `pump_events()` calls in progress. `Pump` takes
what is queued and leaves in the queue what the list held (`Swapped`), nothing
unless an earlier pump at that depth was left by an exception. `Test` and `Call`
are two steps, because another thread may come between them. An enqueued call is
a model value; the callback is what it calls.

### Timer

A timer and its `timer_object` are one record: the timer's `waiting`, `inReady`
and `enabled`, the object's deadline (`none`, `set`, `passed`; `TimePasses` moves
it) and whether it has a subscriber and a service. The operations are functions
of that record (`Again`, `Cancel`, `Reset`, `SetDuration`, `Enable`, `Disable`,
`Assign`, `Dismantled`), which `Use` and the handlers apply. `polls` is the stack
of `poll()` calls, `objLists` and `subLists` the work lists per depth, which the
code has as `thread_local` stacks. `CallReady` and `CallOther` are
`timer::handler()`, `Return` and `Throw` its end, and `EndObject` decides whether
the time slice is over. The timers have no context, whose end would silence them
(`timer.cpp:224`), and nobody polls in a destructor that runs because of an
exception, where `handler()` starts the timer again and does not call `ready()`
(237-240).

### WaitableEvent, AsyncThread, SystemPause

A `wait()` of a waitable event is one section (`WaitReady`) or two with the sleep
between them (`WaitAsleep`, then `Resume`); `SpuriousWake` and `Expire` end the
sleep. `Leave` is `--iTotalWaiting` and the decision whether the signal goes.

`AsyncThread` has the states of the thread and of its task, and where the worker
and each caller are. `Entry`, `RunBegin`, `Loop`, `Worked`, `RunEnd`, `EntryEnd` are
`entry_point()`, `async_task::run()` and its loop; `Abort`, `AbortSet`,
`AbortJoin`, `AbortEnd` the pieces of `abort(wait)`, which drops its mutex between
them, so that two callers may join one thread, as in the pool (`twice`; `AbortWaited`
and `JoinThrows` are the outcomes, and the liveness of the callers excludes it);
`Halt`, `Cancel`, `CancelEnd` those of the task, also called by handlers;
`Destroy...` the destructors from the most derived class inward.

In `SystemPause` the worker's loop is `Apply`, `Test`, `WaitChecked`, `Sleep`,
`Wake`, `EndWork`; `Resume`, `Look`, `Signal` are the steps of `resume()`, and
`Term...` the steps of `terminate()`, which makes `iThread` null first. The pause
count wraps at `Width` (6 in the run), which is further than the callers can pause.

### Component, EntityIds, HandleTable, Jar

Every operation of a component holds its mutex and is one action: `Add`, `Update`,
`Destroy` (swap with the last, pop), `TakeSnapshot`, `UseSnapshot`,
`LeaveSnapshot`, and one call of `sort()`'s swap. `AddFails` is a population whose
`iReverseIndices` cannot grow.

In `EntityIds` entities are numbers in the order of their creation, and ids are
what they are given: `next_entity_id()` (`TakeFreed`, `TakeNext`), the record and
its component data (`Populate`), `destroy_entity()` in its three sections
(`Destroy`, `Unrecord`, `Free`), and the deferred one: `Mark`, `Enqueue`, then the
timer's `Commit`, `CommitNext`, `CommitThrows`. In `HandleTable` the write one past
the end of the vector changes nothing that is read later: the next `resize()`
constructs the element anew. `Update` and `Release` take every id in the table, in
use or not, as `update_handle()` and `release_handle()` do: they test the range only,
and `destroy_entity_record()` of a component (`component.hpp:361-374`) may release an
id for a record and once more for its copy in the snapshot. `strays` are the ids this
was done to while they were not in use; only they may be given to two holders
(`GivenOnce`). `Jar` splits `insert()` where the code drops its
mutex.

### RefPtr, SharedObject

In `RefPtr` a pointer is what it points at and whether it counts (`to`,
`counted`); all the ways to assign end in `Replace`, as in the code they end in
`reset()`, whose copy of the old value releases it last. An object is `dying`
while its destructors run, which may use pointers like everybody else. `Release`
asks for a count of one and not whose that is, as `release()` does: when the pointer
does not count, the reference is taken from one that does, which `usurped` counts.
`SharedObject` has one object and threads that copy, drop, pin, weaken and lock
pointers to it; each atomic operation, and each access to a plain member, is a
step. When two threads use a plain member at once (`races`), anything may follow:
`Undefined` ends the behaviour.

### GapVector

A cell of the storage is raw, holds a moved-from object, or a value; `bad` is
what comes of using a cell in a way its state does not allow. `Unsplit`,
`Reserve`, `Grow`, `RoomBefore`, `RoomAfter`, `RoomThere`, `RoomAnew` (the cases of
`allocate_from_gap()`), `EraseBefore`, `EraseAfter`, `EraseAround`, `EraseFar` are
functions from vector to vector; `Plus`, `Minus`, `Distance` are the iterator's.

### ArrayTree, SegmentedArray, SegmentedTree

A segmented array is one record, as in the code one object: the segments, the
links of their list, and the tree, in which a node is found by the index of an
item. `InsertNode`, `DeleteNode` and `SetSize` with their fixups are
`array_tree`'s; `AllocateSpace` decides which nodes an insertion goes to,
`Filled`, `TailMoved` and `Counted` are the parts of `do_insert()`, `Cut` and
`EraseRange` those of `erase()`. After each operation nodes are numbered in the
order of the list, since which node is which does not matter. In `SegmentedTree` a
node has its children and the two counts that `Raised` changes in all nodes
above; `Increment` and `Decrement` are those of the iterators, normal ones and those
that skip, and `Sorting` is the loop of `sort()`.

### Settings, Logger, Services

`Settings` has `calls`, the stack of calls that are to save: `change_setting()`
and `apply_changes()` announce each change, and handlers may call again, delete a
setting that iteration has yet to come to, or throw. `Save` opens the file, which
empties it, `Saved` has written it, and `Restart`, at any time, is the end of the
program and its next run. `Logger` has the two buffers of each thread (`front`,
`back`); `commit()` is `Swap`, which exchanges the two, `Collect`, for one thread after the
other, and `Write`. `Services` has the
provider, its mutex, and where a thread is in `service()`: `Get`, `Lock`, `Look`,
`Register`, `Unlock`; `SetProvider` and `Migrate` are `set_service_provider()`.

### PacketConnection, StringPacket, Http, JsonParser

`conn.own[k]` counts the operations of kind `k` under way that will call this
connection; `Orphaned` is `close()` cutting their proxy off, after which they end
in `Forgotten`. Callbacks of the owner are a stack (`calls`), and every owner's
operation may be called in them; `Return` goes on where the handler left off,
after looking at the destroyed flag. `StringPacket` lets a stream arrive in every
cut; `TakeEnd` and `TakeContent` are the branches of `take_some()`. In `Http`
the stream is reduced to the events it sends: `Connects`, `Fails`, `Eof`, and the
characters of the response that arrive (`Arrives`): line ends, which are delimiters
of the packets (`IsDelimiter`) and go no further, and others, which reach
`PacketArrived`, the translation of `packet_arrived()` with the line ends it waits
for (`LineEnds`). `calls` is the stack of
handlers that run, with what follows each, and `Request` may be called in any of
them; destroying the last stream tells a failure when it is connected. `JsonParser`
has the state table as a function and the decisions of `do_parse()` as functions
of the parser's state; `goals` is the generator's stack, so that every text of
the grammar up to the bound of nesting is fed.

## Runs

Every run stops in the end, because the calls it makes are bounded: so deadlock
is not checked (`CHECK_DEADLOCK FALSE`), and that nobody waits for ever is a
liveness property instead.

| run | what it checks | instance |
|---|---|---|
| `pool_core` | the pool keeps every task and runs it once, nobody sleeps through a task, `wait()` and the destructor mean what they say, and the pool is a central queue | 3 tasks, one more urgent and one that may be cancelled; no thread at first, `reserve()` of 0, 1 or 3; client a starts, stops, destroys, client b starts and waits |
| `pool_served` | every task is finished; `wait`, `stop`, the destructor return | 2 threads, both clients stop |
| `task_core` | what handlers and exceptions may do to triggers, queued calls and timers; `parallel_apply()` under `stop()` | 2 events and up to 4 slots, triggers nested in triggers; 3 calls, one of them single; one exception; containers of up to 7 items, 2 stops |
| `task_served` | the queue implements `CallQueue`; every call is made or given up; timers served; `parallel_apply()` returns | 4 calls, two single, no exceptions |
| `thread` | waits and signals, an `async_thread`, an ECS system's thread, the mutex: safety and liveness | 3 waiters of which 2 have a timeout, 4 signals; 2 callers with 3 calls each |
| `ecs` | a component implements a map; ids, handles and cookies; queued entities are destroyed; a segmented array implements a vector; traversal and sorting of a segmented tree | 2 records and 2 values, 1 failed allocation, 3 entities, 4 handle ids of which up to 3 wait to be used again, 2 threads; up to 7 items in segments of 4; trees of up to 4 nodes |
| `core` | the mutex implements a lock; reference counts; `gap_vector` implements a vector; settings are not lost | 3 threads; 2 objects, 2 pointers and 2 weak ones; vectors of up to 4 items of 2 values; 2 settings, 2 changes, one restart |
| `services` | one service; no message lost; a connection and its callbacks; HTTP requests and what becomes of them; lines and JSON texts | 3 threads and one that sets the provider; 2 messages of each of 2 threads; 2 packets, 2 opens; streams of 5 characters in reads of up to 3; 3 requests, handlers nested 2 deep, bodies of up to 2 characters, if one were ever read; JSON nested twice |
| `event_destroyed`, `queue_sink`, `shared_destroyed`, `gap_vector_bulk` | violations, see below | |

**Why these bounds are enough.** What goes wrong in this code goes wrong between
two actors, or in a handler called by a handler. So two threads and a third to
find out what the first two left (three waiters, of whom one may time out while
another takes the signal; three pool threads, of whom one steals, one is robbed
and one is idle), nesting of two, one exception and one restart are each the
least that makes the case happen, and one of a kind more was tried where time
allowed. Three tasks make a queue with an order that stealing could break.
Lists are at the length at which a middle exists. A stream of five characters
has a line between two ends, each of which a read can cut. A segmented array
of 7 items in segments of 4 has a segment split, filled from both sides and freed,
and three segments, with which its tree rotates. The gap vector holds more
than `DefaultGapSize` items, and `MaxInsert` is less than that in the passing
run and more in `gap_vector_bulk`. Every property has a mutant, a plausible bug in
the code it is about, that these instances find: a case that never happens could
not be found.

**Symmetry.** `core` permutes objects, pointers and weak pointers. That is sound
because nothing distinguishes one from another and all its properties are
safety properties.

**Fairness** is what the code's scheduling justifies:

- pool: every worker and every client inside a call goes on (`WF`), tasks return;
  nothing is assumed of spurious wakeups or of clients that begin calls;
- mutex: a thread inside `lock()` or `unlock()` goes on, and who has it unlocks it
  (`WF`; the mutex is not fair, and `LockReturns` therefore is about a mutex that
  the others stop taking);
- waitable event: a thread that was woken returns;
- event queue: the owner goes on pumping and its callbacks return; `SF` for their
  return, since a callback may do other things first, such as pump again;
- timers: the service is polled, time passes, and handlers return, again `SF`;
- `parallel_apply()`: the threads of the pool and the caller go on;
- thread and system: the worker's loop goes on, and so does a caller inside a call;
- ECS ids: the timer that commits queued destructions fires;
- services: every thread inside `service()` goes on;
- logger: the logging thread, a thread inside `finalize()` and each client go on;
- HTTP: handlers return, and the network connects or fails and does not stay
  connected for ever;
- connection: callbacks return (`WF`), and the completion of a write comes (`SF`:
  `close()` and `open()` can intervene, finitely often).

## Findings

Four disagreements of the code with what it says of itself have a run that shows
them.

- `event_destroyed`: an event destroyed by a handler is written to afterwards, by
  the scoped pointer of `sync_trigger()` (`event.hpp:178`, 188) that puts back
  `iActiveWorkList`. The unit test (`Event.cpp:75`) destroys an event that way.
- `queue_sink`: a trigger that ends early leaves its work list filled, which keeps
  the slots alive after their sink has gone, so that `pump_events()`
  (`event.cpp:120`) calls them. The unit test expects otherwise (`Event.cpp:106`).
- `shared_destroyed`: locking a weak pointer reads the object and then counts it;
  a release in between destroys the object although it is referenced, which
  the destructor asserts cannot be (`reference_counted.hpp:113`).
- `gap_vector_bulk`: inserting more than `DefaultGapSize` items overwrites those
  behind, where the unit test asserts equality with a `std::vector`
  (`Containers.cpp:225`).

Others came up in reading and are modelled as the code has them, each with its
hazard in `PROJECT.json`, where no line of the repository promises the contrary
precisely enough for a run:

- `add_handle()` gives out ids that `update_handle()` and `release_handle()` refuse
  (`ecs.cpp:542`, 550, 559), and an id that is released twice is given to two holders
  (`ecs.cpp:556`, `component.hpp:361-374`);
- `ref_ptr::release()` of a pointer that does not count zeroes the count of the one
  that does (`reference_counted.hpp:389`);
- a cookie that is in use in a `basic_jar` can become free;
- a JSON name with an escape sequence is refused (`json.inl`, about 1656). The
  instance has `EscapesNames = FALSE`, texts without one;
- `http_packet::has_delimiters()` (`io/http.hpp:62`) overrides nothing, so that
  CR and LF are taken away (`string_packet.hpp:56`): the status line of a response
  never ends (`io/http.cpp:316`), no request completes and all of them fail;
- two threads in the pool's `wait()` get one notification, a `start()` may be
  overtaken by `stop()`, a second `stop()` does not wait for the
  threads, or joins one that the first is joining, as two calls of `abort()` may;
- `erase()` of a `segmented_tree` takes a node out with all below it and lowers the
  counts above by one (`segmented_tree.hpp:793`), so that `size()` stays too high;
- a range inserted into the middle of a full segment of a `segmented_array` may be
  refused although there is memory (`segmented_array.hpp:736`);
- an HTTP request made while the one before is connected finds its response
  finished before it begins, and one made in a handler of Failure is closed in
  silence (`io/http.cpp:108`, 291);
- `accept()` reaches another thread's trigger of the same event, and the accepted
  flag of a trigger outlives it;
- `service()` and `set_service_provider()` lock in opposite orders;
- `resume()` may look whether the system waits just before it does.

Where such a race loses a property, the property has its exception, in words and
in the formula (`OneService`: unless they meet; `TaskServed`: unless
somebody stops the pool; `DestroyedClean`: unless two joined one thread; `GivenOnce`:
but for stray ids; `CountExact`: less what was usurped; `Resumed`: unless it looked too early).

## Proofs

What is assumed is what the constants are (`PoolAssumption`,
`PriorityAssumption`, `MutexAssumption` and their like, next to the `CONSTANTS`
they are about; TLC evaluates them in the runs). Some of them are conditions the code does
not enforce and the property needs: of `gap_vector`, that no list
inserted at once is longer than a gap (`MaxInsert <= DefaultGapSize`, see
`gap_vector_bulk`); of events, that each is triggered
by one thread (`EmittersApart`: `iActiveWorkList` is one pointer for all); of the
queue, that no other thread drops the last reference to a slot between its test and
its call (`Foreign <- {}` in `MCTask`); of `parallel_apply()`, that the pool has a
thread (`ApplyAssumption`); of a system, that nobody pauses it further than its
counter goes (`SystemAssumption`); and in
`PoolQuiesces` that one client calls `stop()` (`OneStopper`). What the actions assume
of those who call is said with each module above: that of the pool (a task is started
once, no `reserve()` during `stop()`, the destructor last) and that of the timers.
What an operation does when it is misused and the code does not refuse it is part of
the model, and the property names it (`strays`, `usurped`, `contested`, `astray`).
Everything else holds
for any number of threads, tasks, clients, records, values, packets, requests and
depth of nesting; the bounds of the models are constants like the others. Where
several modules share an MC module, a theorem is about the specification of one of
them (`E!Spec => EventSafe`), as the instance has it.

An invariant that a run checks is seldom inductive. Each paragraph says what had to
be added to it, which is where the argument is.

- **The pool's flag** (`ThreadPoolProofs`). `IdleExact` and `NoMissedWakeup` are
  not inductive. The inductive invariant is `PoolInv`: control agrees with data
  (`ControlOK`); at most one thread is inside the pool's mutex (`OneInside`); only
  the first thread ever has a queue, and only while it is active
  (`FirstHasQueue`, because `start()` adds to the first thread when none is
  inactive); while `iIdle` is set, the only thread with a task is one whose
  client has not published yet (`IdleSound`), and no worker publishes
  (`IdleFalse`); no accepted task is lost (`Kept`). Most actions are `Quiet`:
  they touch none of this. From `PoolInv` follow `TypeCorrect`, `IdleIsExact`,
  `NoWakeupIsMissed` and `WaitIsSound`.
- **stop() and the destructor** (`ThreadPoolProofs`). `StopInv` adds that the
  destructor is alone (`DestroyerAlone`), that a thread told to stop has exited, or
  whoever told it is still joining it (`StoppedExits`), and that the destructor's
  wait found the pool idle or stopped and each thread it has gone past has exited
  (`DestroyerDone`). So `DestructorIsClean` holds however many clients stop the pool
  before, as long as no two join one thread (`contested`). `PoolQuiesces` is for one of them, because a second `stop()` does go past
  a thread that the first is joining.
- **Insertion** (`ThreadPoolProofs`): `std::upper_bound` has an answer
  (`UpperBoundExists`), and inserting there keeps the order (`InsertKeepsOrder`).
- **The pool's tasks** (`ThreadPoolProofs`). Every step is one of five moves of
  tasks (`Joins`, `Begins`, `GoesOn`, `Rests`, or none: lemma `Moves`). `TaskInv`,
  with `PoolInv`, is inductive: every task is in one place (`TaskAccounted`), those
  on their way in are new and different (`HandedOver`), a running task has begun
  (`RunningBegan`), and the queue has the most urgent first, the earlier accepted
  first among equals (`InOrder`), which `add()`'s `upper_bound` keeps
  (`InsertInOrder`). Then `NoTaskLostOrDoubled`, and `ImplementsCentralQueue`:
  with `Existing`, `accepted`, `Queued`, `active`, `finished` for the variables of
  `CentralQueue` each move is one of its steps.
- **parallel_apply** (`TaskProofs`). `IInv`: ranges have the shape the loop
  gives them (`Shape`), do not overlap (`Separate`) and together cover what the
  loop has passed (`Complete`, unless the pool is stopped). `ApplyOnce` and `ApplyAll`
  follow. `ApplyIsSafe` adds that nothing is at work when the call returns: before
  its first range, and once it has seen the pool idle, the caller is alone
  (`Settled`).
- **Events** (`TaskProofs`). `EventInv` describes the stack of triggers of a thread:
  each has its work list as it found it, and while its event lives it has *saved* the
  pointer to the trigger around it (`CallKept`, `Points`), so that whichever way it
  ends puts the right one back; an event's own pointer leads to its innermost
  trigger. A trigger in which accept() was called has `accepted` set, and where
  `accepted` is set there was one, or the work list was left by a throw or by a
  destroyed event (`FlagKnown`). From the first follows `AcceptStops`, from the
  second `AcceptedMeansAsked`; both are properties of steps, and `StackSteps` says
  what a step can do to a thread's triggers.
- **Timers** (`TaskProofs`). `TimerInv` follows the work lists of nested polls: where
  each poll is in its lists (`Cursors`), and that a timer no exception has torn is in
  at most one list of subscribers, once, which the innermost of the polls that have
  one has yet to go past. `ArmedWaits` and `WaitsForSomething` become inductive with
  what is owed to a timer (`owed` and its `expiry` agree), and with what a timer that
  runs its handler knows (`inReady`).
- **The asynchronous queue** (`EventQueueProofs`). A *place* is an index of
  `iQueue.multiple`, an address in `iQueue.single`, or an index of the work list of a
  depth. `QueueInv`: a call that no exception has torn is at one place
  (`AtOnePlace`), was not made while a pump has still to come to that place
  (`NotYet`), and calls of `multiple` stand in the order in which they were posted,
  by list and within it (`InTurn`); a list that no pump walks is empty or torn
  (`LeftBehind`), so that swapping it with the queue loses nothing; and the slot of an
  entry is that of its call, or is gone (`Fits`), which is why an address that is
  used again is safe. While nothing is thrown nothing is torn, and `QueueImplements`
  maps the places not yet passed to `pending`.
- **The waitable event** (`ThreadProofs`). The inductive
  invariant is `Heeded`: while a signal is there nobody sleeps, or it is a signal for
  one and a thread that was woken has yet to take it. `NotSleptThrough`, which
  counts a thread whose wait timed out as awake, is weaker and not inductive: that
  thread could leave and the others sleep on. For `SignalsAreTaken` every step is one
  of four `Moves` (a signal, one enters, one leaves, nothing), and `Unspent`: with
  `signal_one()` alone and no timeouts, while a signal is there it has let nobody
  return, and every woken thread has one to take.
- **async_thread** (`ThreadProofs`). `ThreadInv` adds to `ThreadSafe` what the task
  can be while the worker is in each part of its loop (`TaskControl`), and what an
  `abort()` or the destructor knows at each step (`AbortControl`): having joined, it
  finds the thread ended, unless it was early. A second join that throws takes its
  caller out of `abort()` and disturbs none of this.
- **The system's thread** (`ThreadProofs`). `CountInv`: the count is what the calls
  under way and done owe, unless two calls for all systems overlap; it needs
  `Width > MaxCalls + 1`, that nobody pauses further than the count can go.
  `ReasonInv`: the thread enters `wait()` with `iWaiting` clear and for a reason that
  lasts until somebody has looked whether it waits. `KillInv`: one that ends the
  program was told to end while it was paused.
- **The mutex** (`CoreProofs`). `MutexInv` says who has the mutex in
  terms of where threads are (`Has`): at most one does, the flag is set when
  one does, and the owner id and count agree with it except between the steps
  that write them. `MutexExcludes` and the refinement of `RecursiveLock` follow.
- **Reference counts** (`CoreProofs`). For the pointers of one thread: the count is
  that of the pointers and of those lost, less those usurped (`CountInv`), what is released to somebody
  or pinned lives (`LifeInv`), and there is a block while anybody watches
  (`WatchInv`). For one object of several threads: both counts are those of the
  threads that have a share, each at its step (`HasInv`, `WeakInv`); one thread
  destroys, and when nobody has or pins the object (`DoomInv`, `DestroysInv`); what
  nobody has is gone or about to go (`LeakInv`); one thread makes the block and the
  last deletes it (`BlockInv`). Each is up to the race of the code that breaks it, by
  name: the theorem says that there is no other.
- **Settings** (`CoreProofs`). What `CleanIsSaved` says of settings that are
  not modified is too weak to be kept: the file must have the value itself, or the
  default where there is none (`CleanInv`, with `InFile`). Besides, what is being saved is what the settings are
  (`StoreInv`), and the file has what was saved of those not forgotten (`FileInv`).
- **The vector with a gap** (`CoreProofs`). `VecInv`: the gap lies in the data, the
  cells of the items (`Spot`) hold values, all others are raw or moved from, and the
  iterator returned is the one of its index. That says where the objects are, so each
  move is two facts: which cells have objects after it, and that the items in their
  order are what a vector's would be. `IteratorsAgree` is then arithmetic of gaps.
  Items inserted one by one, and the copy of `shrink_to_fit()`, are a function over the
  numbers: that it exists and keeps the invariant is proved by induction, which
  `OneByOne` gets from the library's theorem that `<` is well-founded on `Nat`.
- **Components** (`TablesProofs`). `IInv` is `Dense` for the component and for its
  snapshot: entities and reverse indices are the inverse of one another. Swapping with
  the last and popping, sorting, a failed allocation and the copy to the snapshot keep
  it. `ComponentIsMap` is the refinement of `ComponentMap`: with `IInv` each
  operation on the vectors is one on the map from entities to values.
- **Ids, handles, jar** (`TablesProofs`). `IdInv`: until an id is given back twice, or
  all are used, each id is with the entity that has a record, with one that is being
  created or removed, or free, and in only one of these, once (`IdAccounts`,
  `IdPlaces`, `IdRecords`, `IdMarks`). `HandleInv` adds to `Kept` that nothing is stored
  under an id that can be given out, strays apart (`HandleFree`). `JarInv`: cookies lead to items and back
  (`JarLinked`), and each cookie handed out has an item, is free or in a thread's
  hands, in only one of these, until a cookie in use is given back (`astray`).
- **Services** (`ServicesProofs`). `IInv`: where `set_service_provider()` is decides
  which provider is in use, who may hold which mutex, and where the pointer leads.
- **Log** (`ServicesProofs`). Outside a commit the second buffers are empty
  (`IdleInv`); log, collected, swapped and new messages of a thread, one after the
  other, are its messages in their order (`OrderInv`, `OwnInv`, `KeptInv`); what
  `finalize()` found logged is further along with each of its steps (`FinalInv`).
- **Connection** (`ServicesProofs`). The packets a connection has are different and
  exist (`PacketInv`); callbacks inside a callback end with nothing to do (`Nested`);
  which operations can be under way with one another depends on the state and on the
  callback that runs (`Phase`), and a packet is being sent while its write is
  under way (`Sending`).
- **HTTP** (`ServicesProofs`). Nothing that an answer says is ever read: the state is
  that of the status line, or Finished (`Unread`, in `HttpTypes`), so that no response
  is whole; while a connected stream is being replaced, `open()` follows the
  innermost of the handlers that run, and otherwise none of them (`Replacing`, `NoOpen`);
  and a request was told of its end at most once, not before its stream ended or its
  failure is being told, and those to come never (`AtMostOne`, `Now`, `Later`).

**What the proofs found.** Some attempts failed for a reason in the model, which is
corrected: `CASE`s whose arms overlapped, so that what the model did was not
determined (`Expired`, in `RefPtr` and `SharedObject`; `Again` and `Enable`, in `Timer`); a race of `SharedObject`, an
object that is pinned again while its pin is being dropped, that the runs' bounds had
left out; and bounds of nesting of 0, at which a packet could still call a handler
(`MaxDepth`, in `PacketConnection` and `Http`). `remove_slot()` erases the first entry
that it finds, and so does `Unsubscribe`.

**Only model-checked.** All liveness (`WF`, `SF` and leads-to are beyond this prover):
`ReleasedByAll`, `ThreadsGoOn`, `NothingHangs`, `QueuedDestroyed`, `ApplyReturns`,
`Delivered`, `Served` and those of the pool. Of the safety properties:

- `SegmentedArray` and `SegmentedTree` (`ArraySafe`, `TreeSafe`) rest on recursive
  operators, which the prover cannot reason about: every tree and every list is
  built by induction over data;
- `InputParsed`: the texts of a grammar and the lines of a stream are such data, too.

## Not modelled

- **Sequential data, text and numbers**: `core/numerical.hpp`, `easing.hpp`,
  the other containers, strings, `file/parser.hpp`, XML,
  zip, the JSON writer and its conversions. They make up most of the library's
  lines. They have no concurrency and little control state; what could be wrong in
  them is arithmetic and text, which tests reach better than a model checker.
  `GapVector`, `SegmentedArray`, `SegmentedTree` and `JsonParser` are those whose
  control is intricate.
- **Layers over other systems**: plugins and modules, command lines, files,
  `chrono/tsc_clock.hpp`, processes, the resolver, OAuth, platform code,
  vendored libraries. They are input and output with hardly any state.
- **Within the modelled components**: tasks that call their own pool; the future of
  a function task; trigger types, filters and assignment of events; registration of
  queues by thread; a task's io services and message queues; archetypes, and
  systems' registries; the conversions between pointer types; unregistering a
  service; the text of settings and the formats of log lines; copies of whole
  vectors. `PROJECT.json` says so for each.

## What could come next

The sharing of components between systems; `basic_std_vector_jar`, the same algorithm as `Jar` once more.
