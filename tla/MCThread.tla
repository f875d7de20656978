------------------------------ MODULE MCThread ------------------------------
(***************************************************************************)
(* What stops, starts and signals threads, as TLC checks it: waitable_event*)
(* (module WaitableEvent), async_thread with its task, the pausing of an   *)
(* ecs system's thread, and, whether lock() returns, the recursive mutex.  *)
(* The parts share nothing here, so that a behaviour is one of one part,   *)
(* the others staying as they begin.                                       *)
(*                                                                         *)
(* waitable_event is used in three ways: with both signals and two waits   *)
(* that have a timeout, with signal_one() and reset() and no timeout, and  *)
(* with signal_all() alone.                                                *)
(***************************************************************************)
EXTENDS WaitableEvent

CONSTANTS Parts,   \* the parts that are checked
          Callers, \* of the async_thread, and those that pause the system
          MaxCalls,\* bound: their calls, and those of each waiter on the mutex
          Width,   \* iPaused counts modulo Width
          Nobody

VARIABLES
  part,
  state, task, cancelled, timers, worker, at, calls, halts, own, early, twice,
  paused, all, systemWaiting, systemWorker, pauserAt, paysBack, term, pauserCalls, overlapped, missed,
  pausedLate,
  flag, lockingThread, lockCount, lockAt, held, lockCalls

One == INSTANCE WaitableEvent WITH Timed <- {}, Kinds <- {"one"}, Resets <- TRUE
All == INSTANCE WaitableEvent WITH Kinds <- {"all"}, Resets <- FALSE
A == INSTANCE AsyncThread
S == INSTANCE SystemPause WITH
  Controllers <- Callers, Timed <- TRUE, Terminated <- TRUE,
  waiting <- systemWaiting, worker <- systemWorker, at <- pauserAt, own <- paysBack, calls <- pauserCalls

M == INSTANCE RecursiveMutex WITH
  Threads <- Waiters, Spinlock <- FALSE, state <- flag, pc <- lockAt, calls <- lockCalls

ASSUME PartsAssumption == A!CallersAssumption /\ S!SystemAssumption

threadVars == <<state, task, cancelled, timers, worker, at, calls, halts, own, early, twice>>
systemVars == <<paused, all, systemWaiting, systemWorker, pauserAt, paysBack, term, pauserCalls,
                overlapped, missed, pausedLate>>
mutexVars == <<flag, lockingThread, lockCount, lockAt, held, lockCalls>>

Waitable == {"both", "one", "all"}

ThreadInit ==
  /\ part \in Parts
  /\ Init /\ (part \notin Waitable => kind = "one")
  /\ A!Init /\ S!Init /\ M!Init

WaitableStep ==
  /\ \/ part = "both" /\ Next
     \/ part = "one" /\ One!Next
     \/ part = "all" /\ All!Next
  /\ UNCHANGED <<part, threadVars, systemVars, mutexVars>>
ThreadStep == part = "thread" /\ A!Next /\ UNCHANGED <<part, vars, systemVars, mutexVars>>
SystemStep == part = "system" /\ S!Next /\ UNCHANGED <<part, vars, threadVars, mutexVars>>
MutexStep == part = "mutex" /\ M!Next /\ UNCHANGED <<part, vars, threadVars, systemVars>>

ThreadSpec ==
  /\ ThreadInit
  /\ [][WaitableStep \/ ThreadStep \/ SystemStep \/ MutexStep]_
       <<part, vars, threadVars, systemVars, mutexVars>>

Goes(p, Step) == part = p /\ Step

\* The fairness of each part, in behaviours of that part.
ThreadFairSpec ==
  /\ ThreadSpec
  /\ \A t \in Waiters :
       /\ WF_vars(Goes("all", All!Resume(t)))
       /\ WF_mutexVars(Goes("mutex", M!Inside(t))) /\ WF_mutexVars(Goes("mutex", M!Unlock(t)))
  /\ WF_threadVars(Goes("thread", A!WorkerNext))
  /\ WF_systemVars(Goes("system", S!WorkerNext)) /\ WF_systemVars(Goes("system", S!TermNext))
  /\ \A c \in Callers :
       WF_threadVars(Goes("thread", A!Finish(c))) /\ WF_systemVars(Goes("system", S!Finish(c)))

----------------------------------------------------------------------------
\* No signal lets two waits return, and none goes away but with a wait that
\* found it or was woken, or because the last wait timed out: that one returns
\* false and yet takes a signal that came after its timeout.
SignalsTaken ==
  /\ [](TypeOK /\ (part = "one" => One!OneWaitPerSignal))
  /\ [][part = "both" /\ ready /\ ~ready' =>
          \/ Inside' = Inside
          \/ \E t \in Inside \ Inside' :
               pc[t] = "woken" \/ (pc[t] = "expired" /\ Inside = {t})]_vars

\* signal_all() lets every thread go that it found waiting, although others
\* come and leave meanwhile, as long as signal_one() and reset() are not used.
ReleasedByAll == \A t \in Waiters : part = "all" /\ t \in called ~> pc[t] = "out"

\* A task has the services it calls, and a thread that says it finished, or
\* whose destructor has ended, has ended its work; nothing is said once two
\* callers of abort() were joining the thread at once, which is undefined.
ThreadSafe ==
  /\ A!TypeOK
  /\ ~twice => A!ServicesThere /\ A!FinishedForReason /\ A!DestroyedQuiet

\* A system is paused as often as it is to be resumed; its thread sleeps only
\* for that reason, and ends the program only when terminated so.
SystemSafe == S!TypeOK /\ S!PauseCount /\ S!AsleepForReason /\ S!KilledForReason

\* The destructor of a thread ends, and abort() once somebody cancels; a system
\* that is resumed goes on, and terminate() ends; and nobody waits for ever for a
\* mutex that the others let go of for good.
ThreadsGoOn ==
  /\ A!DestroyEnds /\ A!AbortEnds
  /\ S!Resumed /\ S!TerminateEnds
  /\ M!LockReturns
=============================================================================
