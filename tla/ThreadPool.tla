----------------------------- MODULE ThreadPool -----------------------------
(***************************************************************************)
(* neolib::thread_pool and its thread_pool_thread workers.                 *)
(*                                                                         *)
(* Every critical section of the pool's recursive mutex is split exactly   *)
(* where another thread can see it half done: iActiveTask is set, and the  *)
(* worker it belongs to is notified, before update_idle() writes iIdle,    *)
(* which wait() reads without that mutex.  The program counters "publish"  *)
(* (a client inside add), "publishBusy" and "publishIdle" (a worker inside *)
(* next_task) are that gap; whoever is there holds the mutex.  The two     *)
(* leaf mutexes, iCondVarMutex and iWaitMutex, make "test the predicate    *)
(* and sleep" one step and are never held across another lock.             *)
(***************************************************************************)
EXTENDS Integers, Sequences, SequencesExt, FiniteSets

CONSTANTS Tasks,        \* the tasks callers may hand to the pool
          Priority,     \* the int32_t priority each is started with
          Clients,      \* threads that call the pool, not pool threads
          MaxThreads,   \* most threads any reserve() asks for
          InitThreads,  \* std::thread::hardware_concurrency()
          ReserveSizes, \* arguments of later calls of reserve()
          Waiters, Stoppers, Destroyers, \* clients that call wait, stop, the
                                         \* destructor
          Cancellable,  \* tasks somebody may cancel
          None          \* nullptr

ASSUME PriorityAssumption == Priority \in [Tasks -> Int]

ASSUME PoolAssumption ==
  /\ MaxThreads \in Nat
  /\ InitThreads \in 0 .. MaxThreads
  /\ ReserveSizes \subseteq 0 .. MaxThreads
  /\ Waiters \subseteq Clients /\ Stoppers \subseteq Clients
  /\ Destroyers \subseteq Clients /\ Cancellable \subseteq Tasks
  /\ None \notin Tasks /\ None \notin Clients

Threads == 1 .. MaxThreads   \* positions of iThreads

VARIABLES
  size,          \* iThreads.size()
  maxThreads,    \* iMaxThreads
  active,        \* per thread: iActiveTask
  waiting,       \* per thread: iWaitingTasks
  threadStopped, \* per thread: thread_pool_thread::iStopped
  worker,        \* per thread: where its exec() is
  idle,          \* thread_pool::iIdle
  stopped,       \* thread_pool::iStopped
  client,        \* per client: where its call is
  task,          \* per client: the task start() was called with
  at,            \* per client: position of stop()'s loop over iThreads
  destroyer,     \* the client in the destructor
  cancelled,     \* tasks whose iCancelled is set
  accepted,      \* history: tasks added to a thread, in that order
  runs,          \* history: how often each task's run() was entered
  finished,      \* history: tasks released by the thread that had them
  contested      \* history: threads two clients were joining at once

threadVars == <<active, waiting, threadStopped, worker>>
clientVars == <<client, task, at, destroyer>>
history == <<accepted, runs, finished, contested>>
vars == <<size, maxThreads, threadVars, idle, stopped, clientVars, cancelled,
          history>>

WorkerPC == {"none", "check", "asleep", "claimed", "running", "publishBusy",
             "publishIdle", "exited"}
ClientPC == {"ready", "trying", "starting", "publish", "waitcheck", "asleep",
             "waited", "stopping", "telling", "joining", "destroyed"}

TypeOK ==
  /\ size \in 0 .. MaxThreads
  /\ maxThreads \in 0 .. MaxThreads
  /\ active \in [Threads -> Tasks \cup {None}]
  /\ waiting \in [Threads -> Seq(Tasks)]
  /\ threadStopped \in [Threads -> BOOLEAN]
  /\ worker \in [Threads -> WorkerPC]
  /\ idle \in BOOLEAN
  /\ stopped \in BOOLEAN
  /\ client \in [Clients -> ClientPC]
  /\ task \in [Clients -> Tasks \cup {None}]
  /\ at \in [Clients -> 1 .. MaxThreads + 1]
  /\ destroyer \in Clients \cup {None}
  /\ cancelled \subseteq Tasks
  /\ accepted \in Seq(Tasks)
  /\ runs \in [Tasks -> Nat]
  /\ finished \subseteq Tasks
  /\ contested \subseteq Threads

----------------------------------------------------------------------------
(* The queue of a thread, iWaitingTasks: a deque of (task, priority)       *)
(* entries in descending order of priority, tasks of one priority in the   *)
(* order they were added.  A task stands for its entry.                    *)

\* Mutant: std::lower_bound, a task goes before those of its own priority.
UpperBound_Lower(q, p) ==
  CHOOSE k \in 1 .. Len(q) + 1 :
    /\ \A i \in 1 .. k - 1 : Priority[q[i]] > p
    /\ k <= Len(q) => Priority[q[k]] <= p

\* std::upper_bound with the comparator "left.second > right.second": the
\* first position whose entry has a lower priority than p, else the end.
UpperBound(q, p) ==
  CHOOSE k \in 1 .. Len(q) + 1 :
    /\ \A i \in 1 .. k - 1 : Priority[q[i]] >= p
    /\ k <= Len(q) => Priority[q[k]] < p

\* iWaitingTasks.emplace(where, aTask, aPriority)
Insert(q, t) == InsertAt(q, UpperBound(q, Priority[t]), t)

\* The order add() maintains.
Descending(q) ==
  \A i, j \in 1 .. Len(q) : i < j => Priority[q[i]] >= Priority[q[j]]

----------------------------------------------------------------------------
(* The pool mutex and what is read under it.                               *)

Existing == 1 .. size

\* Nobody is inside a critical section of iMutex.
MutexFree ==
  /\ \A w \in Threads : worker[w] \notin {"publishBusy", "publishIdle"}
  /\ \A c \in Clients : client[c] # "publish"

\* active_threads()
ActiveThreads == {w \in Existing : active[w] # None}

\* available_threads() is an unsigned difference: after a reserve() of fewer
\* threads than are active it wraps, which is not zero either.
NoneAvailable == maxThreads = Cardinality(ActiveThreads)

\* Mutant: a thread that has a task but no queue counts as idle.
AllIdle_QueuesOnly == \A w \in Existing : waiting[w] = <<>>

\* thread_pool_thread::idle() of every thread: what update_idle() computes.
AllIdle == \A w \in Existing : active[w] = None /\ waiting[w] = <<>>

\* The thread start() picks: the first that is not active, else the first.
Target ==
  LET inactive == {w \in Existing : active[w] = None}
  IN  IF inactive = {} THEN 1
      ELSE CHOOSE w \in inactive : \A v \in inactive : w <= v

\* Mutant: the thread is not notified.
Wake_Lost(pc) == pc

\* iConditionVariable.notify_one(): only exec() of that thread waits on it.
Wake(pc) == IF pc = "asleep" THEN "check" ELSE pc

\* Mutant: no waiter is notified.
Notify_Nobody(pcs) == {pcs}

\* iWaitConditionVariable.notify_one(): one sleeping waiter, if there is one.
Notify(pcs) ==
  LET sleeping == {c \in Clients : pcs[c] = "asleep"}
  IN  IF sleeping = {} THEN {pcs}
      ELSE {[pcs EXCEPT ![c] = "waitcheck"] : c \in sleeping}

\* Mutant: the front entry is read but not removed.
PopFront_Kept(q) == q

\* iWaitingTasks.pop_front()
PopFront(q) == Tail(q)

\* Tasks that are with the pool or are being handed to it.
Taken == ToSet(accepted) \cup {task[c] : c \in Clients}

----------------------------------------------------------------------------
(* start, try_start and run: the caller.                                   *)

\* stopped() is tested before the mutex is taken.
Start(c, t) ==
  /\ client[c] = "ready" /\ destroyer = None
  /\ t \notin Taken
  /\ ~stopped
  /\ client' = [client EXCEPT ![c] = "starting"]
  /\ task' = [task EXCEPT ![c] = t]
  /\ UNCHANGED <<size, maxThreads, threadVars, idle, stopped, at, destroyer,
                 cancelled, history>>

TryStart(c, t) ==
  /\ client[c] = "ready" /\ destroyer = None
  /\ t \notin Taken
  /\ ~stopped
  /\ client' = [client EXCEPT ![c] = "trying"]
  /\ task' = [task EXCEPT ![c] = t]
  /\ UNCHANGED <<size, maxThreads, threadVars, idle, stopped, at, destroyer,
                 cancelled, history>>

\* available_threads() under the mutex, then start()'s own stopped() test.
TryAvailable(c) ==
  /\ client[c] = "trying" /\ MutexFree
  /\ IF NoneAvailable \/ stopped
     THEN /\ client' = [client EXCEPT ![c] = "ready"]
          /\ task' = [task EXCEPT ![c] = None]
     ELSE /\ client' = [client EXCEPT ![c] = "starting"]
          /\ UNCHANGED task
  /\ UNCHANGED <<size, maxThreads, threadVars, idle, stopped, at, destroyer,
                 cancelled, history>>

\* start() with no threads throws no_threads: the task was never taken.
StartThrows(c) ==
  /\ client[c] = "starting" /\ MutexFree
  /\ size = 0
  /\ client' = [client EXCEPT ![c] = "ready"]
  /\ task' = [task EXCEPT ![c] = None]
  /\ UNCHANGED <<size, maxThreads, threadVars, idle, stopped, at, destroyer,
                 cancelled, history>>

\* add() of a thread that is active: the task only joins its queue.
AddBehind(c) ==
  /\ client[c] = "starting" /\ MutexFree
  /\ size > 0 /\ active[Target] # None
  /\ waiting' = [waiting EXCEPT ![Target] = Insert(@, task[c])]
  /\ accepted' = Append(accepted, task[c])
  /\ client' = [client EXCEPT ![c] = "ready"]
  /\ task' = [task EXCEPT ![c] = None]
  /\ UNCHANGED <<size, maxThreads, active, threadStopped, worker, idle,
                 stopped, at, destroyer, cancelled, runs, finished, contested>>

\* add() of a thread that is not active: next_task() at once makes the head
\* of its queue the active task and notifies the thread.
AddActivate(c) ==
  /\ client[c] = "starting" /\ MutexFree
  /\ size > 0 /\ active[Target] = None
  /\ LET q == Insert(waiting[Target], task[c])
     IN  /\ active' = [active EXCEPT ![Target] = Head(q)]
         /\ waiting' = [waiting EXCEPT ![Target] = PopFront(q)]
  /\ worker' = [worker EXCEPT ![Target] = Wake(@)]
  /\ accepted' = Append(accepted, task[c])
  /\ client' = [client EXCEPT ![c] = "publish"]
  /\ UNCHANGED <<size, maxThreads, threadStopped, idle, stopped, task, at,
                 destroyer, cancelled, runs, finished, contested>>

\* thread_gone_busy(): update_idle(); then start() returns.
PublishStart(c) ==
  /\ client[c] = "publish"
  /\ idle' = AllIdle
  /\ client' = [client EXCEPT ![c] = "ready"]
  /\ task' = [task EXCEPT ![c] = None]
  /\ UNCHANGED <<size, maxThreads, threadVars, stopped, at, destroyer,
                 cancelled, history>>

\* i_task::cancel(), from any thread at any time.
Cancel(t) ==
  /\ t \in Cancellable \ cancelled
  /\ cancelled' = cancelled \cup {t}
  /\ UNCHANGED <<size, maxThreads, threadVars, idle, stopped, clientVars,
                 history>>

\* push_back while iThreads.size() < iMaxThreads
Grown(n) == IF n > size THEN n ELSE size

\* reserve(): iThreads only grows.  Calling it while a client is inside
\* stop() or the destructor is undefined (they iterate iThreads unlocked).
Reserve(n) ==
  /\ MutexFree
  /\ destroyer = None
  /\ \A c \in Clients : client[c] \notin {"stopping", "telling", "joining"}
  /\ maxThreads' = n
  /\ size' = Grown(n)
  /\ worker' = [w \in Threads |->
                  IF w \in size + 1 .. Grown(n) THEN "check" ELSE worker[w]]
  /\ UNCHANGED <<active, waiting, threadStopped, idle, stopped, clientVars,
                 cancelled, history>>

----------------------------------------------------------------------------
(* thread_pool_thread::exec: the worker.                                   *)

\* iConditionVariable.wait() with its predicate, and the test of iStopped
\* after it.
Check(w) ==
  /\ worker[w] = "check"
  /\ worker' = [worker EXCEPT ![w] =
                  IF threadStopped[w] THEN "exited"
                  ELSE IF active[w] # None THEN "claimed" ELSE "asleep"]
  /\ UNCHANGED <<size, maxThreads, active, waiting, threadStopped, idle,
                 stopped, clientVars, cancelled, history>>

\* A condition variable may wake without being notified.
SpuriousWake(w) ==
  /\ worker[w] = "asleep"
  /\ worker' = [worker EXCEPT ![w] = "check"]
  /\ UNCHANGED <<size, maxThreads, active, waiting, threadStopped, idle,
                 stopped, clientVars, cancelled, history>>

\* if (!iActiveTask->cancelled()) iActiveTask->run(): the task runs from
\* this step until the one that releases it.
Run(w) ==
  /\ worker[w] = "claimed"
  /\ worker' = [worker EXCEPT ![w] = "running"]
  /\ runs' = IF active[w] \in cancelled THEN runs
             ELSE [runs EXCEPT ![active[w]] = @ + 1]
  /\ UNCHANGED <<size, maxThreads, active, waiting, threadStopped, idle,
                 stopped, clientVars, cancelled, accepted, finished, contested>>

\* The thread thread_pool::steal_work() takes a task from: the first other
\* one whose queue is not empty.
Victims(w) == {v \in Existing \ {w} : waiting[v] # <<>>}
Victim(w) == CHOOSE v \in Victims(w) : \A u \in Victims(w) : v <= u

\* release() and next_task(), the thread's own queue not empty.
NextOwn(w) ==
  /\ worker[w] = "running" /\ MutexFree
  /\ waiting[w] # <<>>
  /\ finished' = finished \cup {active[w]}
  /\ active' = [active EXCEPT ![w] = Head(waiting[w])]
  /\ waiting' = [waiting EXCEPT ![w] = PopFront(@)]
  /\ worker' = [worker EXCEPT ![w] = "publishBusy"]
  /\ UNCHANGED <<size, maxThreads, threadStopped, idle, stopped, clientVars,
                 cancelled, accepted, runs, contested>>

\* release() and next_task(), a task stolen: add() puts it in the thief's
\* queue and the nested next_task() takes it from there, so that the outer
\* next_task() finds the queue empty and ends in thread_gone_idle().
NextStolen(w) ==
  /\ worker[w] = "running" /\ MutexFree
  /\ waiting[w] = <<>> /\ Victims(w) # {}
  /\ finished' = finished \cup {active[w]}
  /\ active' = [active EXCEPT ![w] = Head(waiting[Victim(w)])]
  /\ waiting' = [waiting EXCEPT ![Victim(w)] = PopFront(@)]
  /\ worker' = [worker EXCEPT ![w] = "publishIdle"]
  /\ UNCHANGED <<size, maxThreads, threadStopped, idle, stopped, clientVars,
                 cancelled, accepted, runs, contested>>

\* release() and next_task(), nothing left to do.
NextNone(w) ==
  /\ worker[w] = "running" /\ MutexFree
  /\ waiting[w] = <<>> /\ Victims(w) = {}
  /\ finished' = finished \cup {active[w]}
  /\ active' = [active EXCEPT ![w] = None]
  /\ worker' = [worker EXCEPT ![w] = "publishIdle"]
  /\ UNCHANGED <<size, maxThreads, waiting, threadStopped, idle, stopped,
                 clientVars, cancelled, accepted, runs, contested>>

\* thread_gone_busy()
PublishBusy(w) ==
  /\ worker[w] = "publishBusy"
  /\ idle' = AllIdle
  /\ worker' = [worker EXCEPT ![w] = "check"]
  /\ UNCHANGED <<size, maxThreads, active, waiting, threadStopped, stopped,
                 clientVars, cancelled, history>>

\* thread_gone_idle(): update_idle(), then one waiter is notified.
PublishIdle(w) ==
  /\ worker[w] = "publishIdle"
  /\ idle' = AllIdle
  /\ worker' = [worker EXCEPT ![w] = "check"]
  /\ client' \in Notify(client)
  /\ UNCHANGED <<size, maxThreads, active, waiting, threadStopped, stopped,
                 task, at, destroyer, cancelled, history>>

----------------------------------------------------------------------------
(* wait, stop and the destructor: the caller.                              *)

\* wait() up to its first, unlocked, test.
BeginWait(c) ==
  client' = [client EXCEPT ![c] = IF stopped \/ idle THEN "waited"
                                  ELSE "waitcheck"]

Wait(c) ==
  /\ client[c] = "ready" /\ destroyer = None
  /\ BeginWait(c)
  /\ UNCHANGED <<size, maxThreads, threadVars, idle, stopped, task, at,
                 destroyer, cancelled, history>>

\* The predicate of iWaitConditionVariable.wait(), tested under iWaitMutex.
WaitCheck(c) ==
  /\ client[c] = "waitcheck"
  /\ client' = [client EXCEPT ![c] = IF stopped \/ idle THEN "waited"
                                     ELSE "asleep"]
  /\ UNCHANGED <<size, maxThreads, threadVars, idle, stopped, task, at,
                 destroyer, cancelled, history>>

SpuriousWaiter(c) ==
  /\ client[c] = "asleep"
  /\ client' = [client EXCEPT ![c] = "waitcheck"]
  /\ UNCHANGED <<size, maxThreads, threadVars, idle, stopped, task, at,
                 destroyer, cancelled, history>>

\* wait() returns: to its caller, or into the destructor's loop.
Waited(c) ==
  /\ client[c] = "waited"
  /\ IF destroyer = c
     THEN /\ client' = [client EXCEPT ![c] = "stopping"]
          /\ at' = [at EXCEPT ![c] = 1]
     ELSE /\ client' = [client EXCEPT ![c] = "ready"]
          /\ UNCHANGED at
  /\ UNCHANGED <<size, maxThreads, threadVars, idle, stopped, task, destroyer,
                 cancelled, history>>

\* ~thread_pool(): every other client is done with the pool.
Destroy(c) ==
  /\ destroyer = None /\ \A d \in Clients : client[d] = "ready"
  /\ destroyer' = c
  /\ BeginWait(c)
  /\ UNCHANGED <<size, maxThreads, threadVars, idle, stopped, task, at,
                 cancelled, history>>

\* stop()
Stop(c) ==
  /\ client[c] = "ready" /\ destroyer = None
  /\ ~stopped
  /\ client' = [client EXCEPT ![c] = "stopping"]
  /\ at' = [at EXCEPT ![c] = 1]
  /\ UNCHANGED <<size, maxThreads, threadVars, idle, stopped, task, destroyer,
                 cancelled, history>>

\* thread_pool_thread::stop(): if (!iStopped), read without iCondVarMutex.
FindUnstopped(c) ==
  /\ client[c] = "stopping" /\ at[c] <= size
  /\ ~threadStopped[at[c]]
  /\ client' = [client EXCEPT ![c] = "telling"]
  /\ UNCHANGED <<size, maxThreads, threadVars, idle, stopped, task, at,
                 destroyer, cancelled, history>>

\* The same, the flag found set: nothing, not even a wait for it to exit.
SkipThread(c) ==
  /\ client[c] = "stopping" /\ at[c] <= size
  /\ threadStopped[at[c]]
  /\ at' = [at EXCEPT ![c] = @ + 1]
  /\ UNCHANGED <<size, maxThreads, threadVars, idle, stopped, client, task,
                 destroyer, cancelled, history>>

\* Clients inside std::thread::join() of thread w.
Joining(w) == {c \in Clients : client[c] = "joining" /\ at[c] = w}

\* Mutant: the thread is told to stop but not joined.
StopThread_NoJoin(c) ==
  /\ client[c] = "telling"
  /\ threadStopped' = [threadStopped EXCEPT ![at[c]] = TRUE]
  /\ worker' = [worker EXCEPT ![at[c]] = Wake(@)]
  /\ at' = [at EXCEPT ![c] = @ + 1]
  /\ client' = [client EXCEPT ![c] = "stopping"]
  /\ UNCHANGED <<size, maxThreads, active, waiting, idle, stopped, task,
                 destroyer, cancelled, history>>

\* The flag is set under iCondVarMutex, be it that another stop() has set it
\* since it was tested; the thread is notified; wait() finds it joinable.
StopThread(c) ==
  /\ client[c] = "telling"
  /\ threadStopped' = [threadStopped EXCEPT ![at[c]] = TRUE]
  /\ worker' = [worker EXCEPT ![at[c]] = Wake(@)]
  /\ client' = [client EXCEPT ![c] = "joining"]
  /\ contested' = IF Joining(at[c]) = {} THEN contested
                  ELSE contested \cup {at[c]}
  /\ UNCHANGED <<size, maxThreads, active, waiting, idle, stopped, task, at,
                 destroyer, cancelled, accepted, runs, finished>>

\* thread::wait() has joined the thread, or finds that another client has.
Joined(c) ==
  /\ client[c] = "joining" /\ worker[at[c]] = "exited"
  /\ client' = [client EXCEPT ![c] = "stopping"]
  /\ at' = [at EXCEPT ![c] = @ + 1]
  /\ UNCHANGED <<size, maxThreads, threadVars, idle, stopped, task, destroyer,
                 cancelled, history>>

\* Two clients join one std::thread: undefined, and in practice one of them
\* gets a std::system_error, which takes it out of stop() half way.
JoinThrows(c) ==
  /\ client[c] = "joining" /\ Joining(at[c]) # {c}
  /\ client' = [client EXCEPT ![c] = "ready"]
  /\ UNCHANGED <<size, maxThreads, threadVars, idle, stopped, task, at,
                 destroyer, cancelled, history>>

\* The end of stop(): iStopped is set and one waiter notified.
StopDone(c) ==
  /\ client[c] = "stopping" /\ at[c] > size /\ destroyer # c
  /\ stopped' = TRUE
  /\ client' \in Notify([client EXCEPT ![c] = "ready"])
  /\ UNCHANGED <<size, maxThreads, threadVars, idle, task, at, destroyer,
                 cancelled, history>>

\* The end of the destructor's loop.
Destroyed(c) ==
  /\ client[c] = "stopping" /\ at[c] > size /\ destroyer = c
  /\ client' = [client EXCEPT ![c] = "destroyed"]
  /\ UNCHANGED <<size, maxThreads, threadVars, idle, stopped, task, at,
                 destroyer, cancelled, history>>

----------------------------------------------------------------------------
\* The constructor: iIdle is true, and reserve() has started the threads.
Init ==
  /\ size = InitThreads
  /\ maxThreads = InitThreads
  /\ active = [w \in Threads |-> None]
  /\ waiting = [w \in Threads |-> <<>>]
  /\ threadStopped = [w \in Threads |-> FALSE]
  /\ worker = [w \in Threads |-> IF w <= InitThreads THEN "check" ELSE "none"]
  /\ idle = TRUE
  /\ stopped = FALSE
  /\ client = [c \in Clients |-> "ready"]
  /\ task = [c \in Clients |-> None]
  /\ at = [c \in Clients |-> 1]
  /\ destroyer = None
  /\ cancelled = {}
  /\ accepted = <<>>
  /\ runs = [t \in Tasks |-> 0]
  /\ finished = {}
  /\ contested = {}

\* What a pool thread does by itself, once it is awake.
WorkerStep(w) ==
  \/ Check(w) \/ Run(w)
  \/ NextOwn(w) \/ NextStolen(w) \/ NextNone(w)
  \/ PublishBusy(w) \/ PublishIdle(w)

\* What a client does to get out of a call it is in.
ClientStep(c) ==
  \/ TryAvailable(c) \/ StartThrows(c) \/ AddBehind(c) \/ AddActivate(c)
  \/ PublishStart(c)
  \/ WaitCheck(c) \/ Waited(c)
  \/ FindUnstopped(c) \/ SkipThread(c) \/ StopThread(c) \/ Joined(c) \/ JoinThrows(c)
  \/ StopDone(c) \/ Destroyed(c)

Next ==
  \/ \E c \in Clients, t \in Tasks : Start(c, t) \/ TryStart(c, t)
  \/ \E t \in Tasks : Cancel(t)
  \/ \E n \in ReserveSizes : Reserve(n)
  \/ \E c \in Waiters : Wait(c)
  \/ \E c \in Stoppers : Stop(c)
  \/ \E c \in Destroyers : Destroy(c)
  \/ \E c \in Clients : ClientStep(c)
  \/ \E w \in Threads : WorkerStep(w)
  \/ \E w \in Threads : SpuriousWake(w)
  \/ \E c \in Clients : SpuriousWaiter(c)

Spec == Init /\ [][Next]_vars

\* The scheduler runs every thread that can run; tasks return; nothing is
\* assumed of spurious wakeups or of clients beginning calls.
Fairness ==
  /\ \A w \in Threads : WF_vars(WorkerStep(w))
  /\ \A c \in Clients : WF_vars(ClientStep(c))

FairSpec == Spec /\ Fairness

----------------------------------------------------------------------------
(* What the pool promises.                                                 *)

Queued == UNION {ToSet(waiting[w]) : w \in Threads}
Serving == {active[w] : w \in Threads} \ {None}

\* Of the accepted tasks every one is in exactly one place: once in the queue
\* of one thread, the active task of one thread, or finished.  Adding,
\* stealing and releasing move tasks between threads and may neither lose nor
\* double one.
TaskAccounted ==
  /\ ToSet(accepted) = Queued \cup Serving \cup finished
  /\ Queued \cap Serving = {}
  /\ finished \cap (Queued \cup Serving) = {}
  /\ \A w, v \in Threads : w # v =>
       /\ active[w] = active[v] => active[w] = None
       /\ ToSet(waiting[w]) \cap ToSet(waiting[v]) = {}
  /\ \A w \in Threads : IsInjective(waiting[w])

\* Whenever nobody is inside the pool's mutex the flag wait() relies on says
\* exactly whether any thread has work, although nothing but add() and
\* next_task() recomputes it.
IdleExact == MutexFree => (idle <=> Queued = {} /\ Serving = {})

\* A task accepted by the pool is run once, whoever steals it; it is skipped
\* only if it was cancelled.
RunsOnce ==
  \A t \in Tasks :
    /\ runs[t] <= 1
    /\ t \in finished => runs[t] = 1 \/ t \in cancelled
    /\ runs[t] = 1 => \/ t \in finished
                      \/ \E w \in Threads : active[w] = t /\ worker[w] = "running"

\* An accepted task is in exactly one place, and run once, whoever takes it.
TasksKept == RunsOnce /\ TaskAccounted

\* A sleeping worker has nothing to do: no task was given to it and no stop()
\* reached it since it looked (a lost wakeup would leave it asleep with one).
NoMissedWakeup ==
  \A w \in Threads :
    worker[w] = "asleep" => active[w] = None /\ ~threadStopped[w]

\* Tasks whose start() has returned.
Started == ToSet(accepted) \ {task[c] : c \in Clients}

\* When wait() (or the wait in the destructor) decides to return, every task
\* whose start() returned before is done, unless the pool was stopped.
WaitMeansDone ==
  [][\A c \in Clients :
       client[c] # "waited" /\ client'[c] = "waited" /\ ~stopped
         => Started \subseteq finished]_vars

\* A thread that stop(), or the destructor, has gone past runs no more, be it
\* one that somebody stopped before (one stop() at a time: a second one does
\* not wait for the threads the first is joining).
StopQuiesces ==
  \A c \in Clients : \A w \in 1 .. at[c] - 1 : worker[w] = "exited"

\* The destructor leaves no thread behind and, if the pool was never
\* stopped, no accepted task undone.  Nothing is said once two stop() have
\* joined one thread, which is undefined: any number of stop() may run at
\* once as long as no two of them pass the test of one thread's iStopped.
DestroyedClean ==
  \A c \in Clients : client[c] = "destroyed" /\ contested = {} =>
    /\ \A w \in Existing : worker[w] = "exited"
    /\ ~stopped => ToSet(accepted) \subseteq finished

\* stop() and the destructor leave no thread that runs and, but for stop(), no
\* task undone.
Quiescent == StopQuiesces /\ DestroyedClean

\* Every accepted task is finished in the end, unless somebody stops the pool.
TaskServed ==
  \A t \in Tasks : t \in ToSet(accepted) ~> t \in finished \/ \E w \in Threads : threadStopped[w]

\* A client that sleeps in wait() gets out of it: the last worker to go idle
\* publishes it before it notifies (joins of one thread at once excluded).
WaitReturns ==
  \A c \in Clients :
    client[c] = "asleep" ~> client[c] = "waited" \/ contested # {}

\* stop() and the destructor end: a thread told to stop exits, even if it was
\* asleep, running a task or about to take another one.  Of two stop() at
\* once one may skip what the other joins; two that join one thread (both
\* passed the unlocked test before either set the flag) are excluded: what
\* follows is undefined.
StopReturns ==
  \A c \in Clients :
    client[c] \in {"stopping", "telling", "joining"}
      ~> client[c] \in {"ready", "destroyed"} \/ contested # {}

\* The threads and their queues together behave as one central queue.
Central ==
  INSTANCE CentralQueue WITH
    Servers <- Threads, open <- Existing, order <- accepted,
    pending <- Queued, serving <- active, done <- finished

CentralQueueSpec == Central!Spec

----------------------------------------------------------------------------
(* Why it keeps its promises: the inductive invariant, in named parts.     *)

Publishing(w) == worker[w] \in {"publishBusy", "publishIdle"}

\* Control and data agree: a worker past its wait has a task, a client inside
\* start() has one to hand over, and whoever joins joins an existing thread.
ControlOK ==
  /\ \A w \in Threads :
       /\ worker[w] \in {"claimed", "running", "publishBusy"} => active[w] # None
       /\ w > size <=> worker[w] = "none"
       /\ w > size => active[w] = None /\ waiting[w] = <<>> /\ ~threadStopped[w]
  /\ \A c \in Clients :
       /\ client[c] \in {"trying", "starting", "publish"} <=> task[c] # None
       /\ client[c] \in {"telling", "joining"} => at[c] <= size

\* The pool mutex excludes.
OneInside ==
  /\ \A w, v \in Threads : Publishing(w) /\ Publishing(v) => w = v
  /\ \A c, d \in Clients : client[c] = "publish" /\ client[d] = "publish" => c = d
  /\ \A w \in Threads, c \in Clients : ~ (Publishing(w) /\ client[c] = "publish")

\* Only the first thread ever has a queue, and only while it is active: so
\* stealing from another thread is stealing from the first.
FirstHasQueue ==
  \A w \in Threads : w # 1 \/ active[w] = None => waiting[w] = <<>>

\* While iIdle is set no thread has work, but for a task its start() has not
\* published yet.
IdleSound ==
  idle => \A w \in Threads :
            /\ waiting[w] = <<>>
            /\ active[w] # None =>
                 \E c \in Clients : client[c] = "publish" /\ task[c] = active[w]

\* Nobody publishes without need: a worker does so after releasing a task, at
\* which time iIdle is not set.
IdleFalse == idle => \A w \in Threads : ~Publishing(w)

Kept == ToSet(accepted) \subseteq Queued \cup Serving \cup finished

PoolInv ==
  /\ TypeOK
  /\ ControlOK
  /\ OneInside
  /\ FirstHasQueue
  /\ IdleSound
  /\ IdleFalse
  /\ IdleExact
  /\ NoMissedWakeup
  /\ Kept

\* A task on its way into the pool is not there yet, and no other client's.
HandedOver ==
  \A c \in Clients :
    /\ client[c] \in {"trying", "starting"} => task[c] \notin ToSet(accepted)
    /\ task[c] # None => \A d \in Clients : task[d] = task[c] => d = c

\* The thread that runs a task has begun to, unless it was cancelled.
RunningBegan ==
  \A w \in Threads :
    worker[w] = "running" => runs[active[w]] = 1 \/ active[w] \in cancelled

\* The first entry of a queue is the most urgent, and so on.
InOrder(q) ==
  \A i, j \in 1 .. Len(q) : i < j =>
    \/ Priority[q[i]] > Priority[q[j]]
    \/ Priority[q[i]] = Priority[q[j]] /\ Central!Before(q[i], q[j])

TaskInv ==
  /\ TaskAccounted
  /\ HandedOver
  /\ RunsOnce
  /\ RunningBegan
  /\ \A w \in Threads : InOrder(waiting[w])

\* The destructor runs alone: the other clients are out of the pool for good.
DestroyerAlone ==
  \A c \in Clients :
    /\ client[c] = "destroyed" => destroyer = c
    /\ destroyer \notin {None, c} => client[c] = "ready"
    /\ destroyer = c => client[c] \in {"waitcheck", "asleep", "waited", "stopping",
                                      "telling", "joining", "destroyed"}

\* A thread told to stop has exited, or whoever told it still waits for that:
\* nobody goes past a thread that runs by finding it stopped before.
StoppedExits ==
  \A w \in Threads :
    threadStopped[w] => \/ worker[w] = "exited"
                        \/ \E c \in Clients : client[c] = "joining" /\ at[c] = w

\* What the destructor has seen to so far.
DestroyerDone ==
  \A c \in Clients : destroyer = c =>
    /\ client[c] \in {"waited", "stopping", "telling", "joining", "destroyed"} => stopped \/ idle
    /\ client[c] \in {"stopping", "telling", "joining", "destroyed"} =>
         \A w \in 1 .. at[c] - 1 : worker[w] = "exited"
    /\ client[c] = "destroyed" => at[c] > size

StopInv == DestroyerAlone /\ StoppedExits /\ DestroyerDone

\* There is one client that calls stop().
OneStopper == \A c, d \in Stoppers : c = d

\* Then only one client at a time goes through the threads.
OneStopping ==
  /\ \A c \in Clients :
       client[c] \in {"stopping", "telling", "joining"} => c \in Stoppers \/ c = destroyer
  /\ StopQuiesces
=============================================================================
