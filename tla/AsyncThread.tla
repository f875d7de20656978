---------------------------- MODULE AsyncThread ----------------------------
(***************************************************************************)
(* A neolib::async_thread that runs an async_task: thread's states and     *)
(* those of the task, against threads that abort the thread and wait for   *)
(* it or not, cancel or halt the task, and one that destroys both.  The    *)
(* handlers of the task may halt or cancel it as well.  Nothing makes two  *)
(* callers of abort() take turns at joining the thread: the second may get *)
(* a std::system_error, and what follows is undefined (twice).             *)
(***************************************************************************)
EXTENDS Naturals, FiniteSets

CONSTANTS Callers,
          MaxCalls  \* bound: calls before the destruction

CallersAssumption == IsFiniteSet(Callers) /\ MaxCalls \in Nat

VARIABLES
  state,     \* iState of the thread
  task,      \* iState of the task
  cancelled, \* iCancelled of the task
  timers,    \* iTimerService is there
  worker,    \* where the thread is
  at,        \* where each caller is
  calls,
  halts,     \* history: the task was halted
  own,       \* history: a handler cancelled its own task
  early,     \* history: an abort that did not wait for the thread
  twice      \* history: two callers were joining the thread at once

vars == <<state, task, cancelled, timers, worker, at, calls, halts, own, early, twice>>

TypeOK ==
  /\ state \in {"ready", "starting", "started", "finished", "aborted"}
  /\ task \in {"init", "running", "halted", "finished"}
  /\ cancelled \in BOOLEAN /\ timers \in BOOLEAN
  /\ worker \in {"none", "entry", "begin", "loop", "work", "cancel", "end", "last", "ended"}
  /\ at \in [Callers -> {"idle", "abort", "abortNoWait", "join", "joined", "spin", "wait", "destroy",
                         "task", "thread", "threadJoin", "last", "done", "killed"}]
  /\ calls \in 0 .. MaxCalls
  /\ halts \in BOOLEAN /\ own \in BOOLEAN /\ early \in BOOLEAN /\ twice \in BOOLEAN
  /\ state = "ready" <=> worker = "none"
  /\ task = "running" => worker \in {"loop", "work", "cancel", "end"}

Finished == state \in {"finished", "aborted"}
Destroying == \E c \in Callers : at[c] \in {"destroy", "task", "thread", "threadJoin", "last", "done", "killed"}

----------------------------------------------------------------------------
\* The thread

WorkerAt(from, to) == worker = from /\ worker' = to

Startable == state = "starting"

\* entry_point()
Entry ==
  /\ worker = "entry"
  /\ IF Startable
     THEN state' = "started" /\ worker' = "begin"
     ELSE worker' = "ended" /\ UNCHANGED state
  /\ UNCHANGED <<task, cancelled, timers, at, calls, halts, own, early, twice>>

\* async_task::run()
RunBegin ==
  /\ WorkerAt("begin", "loop") /\ task' = "running"
  /\ UNCHANGED <<state, cancelled, timers, at, calls, halts, own, early, twice>>

\* Mutant: a task that was cancelled is run.
Over_Finished == task = "finished"

Over == task = "finished" \/ cancelled

\* ... its loop, which spins while the task is halted
Loop ==
  /\ worker = "loop" /\ (cancelled \/ task # "halted")
  /\ worker' = IF Over THEN "end" ELSE "work"
  /\ UNCHANGED <<state, task, cancelled, timers, at, calls, halts, own, early, twice>>

\* do_work(), whose events, messages and timers call handlers
Worked ==
  /\ WorkerAt("work", "loop")
  /\ UNCHANGED <<state, task, cancelled, timers, at, calls, halts, own, early, twice>>

HandlerHalts ==
  /\ worker = "work" /\ ~halts /\ task' = "halted" /\ halts' = TRUE
  /\ UNCHANGED <<state, cancelled, timers, worker, at, calls, own, early, twice>>

\* cancel() of its own task waits until the task does not run any more
HandlerCancels ==
  /\ WorkerAt("work", "cancel") /\ ~own /\ cancelled' = TRUE /\ own' = TRUE
  /\ UNCHANGED <<state, task, timers, at, calls, halts, early, twice>>

HandlerCancelled ==
  /\ WorkerAt("cancel", "work") /\ task # "running" /\ timers' = FALSE
  /\ UNCHANGED <<state, task, cancelled, at, calls, halts, own, early, twice>>

RunEnd ==
  /\ WorkerAt("end", "last") /\ task' = "finished"
  /\ UNCHANGED <<state, cancelled, timers, at, calls, halts, own, early, twice>>

EntryEnd ==
  /\ WorkerAt("last", "ended")
  /\ state' = IF state = "started" THEN "finished" ELSE state
  /\ UNCHANGED <<task, cancelled, timers, at, calls, halts, own, early, twice>>

----------------------------------------------------------------------------
\* The callers

Goto(c, l) == at' = [at EXCEPT ![c] = l]
Call(c) == at[c] = "idle" /\ calls < MaxCalls /\ ~Destroying /\ calls' = calls + 1

Start(c) ==
  /\ at[c] = "idle" /\ ~Destroying /\ state = "ready"
  /\ state' = "starting" /\ worker' = "entry"
  /\ UNCHANGED <<task, cancelled, timers, at, calls, halts, own, early, twice>>

\* abort(wait): the first test, after which the mutex is dropped
Abort(c, wait) ==
  /\ Call(c) /\ state # "ready" /\ ~Finished
  /\ Goto(c, IF wait THEN "abort" ELSE "abortNoWait")
  /\ early' = (early \/ ~wait)
  /\ UNCHANGED <<state, task, cancelled, timers, worker, halts, own, twice>>

AbortSet(c) ==
  /\ at[c] \in {"abort", "abortNoWait"}
  /\ state' = "aborted" /\ Goto(c, IF at[c] = "abort" THEN "join" ELSE "joined")
  /\ UNCHANGED <<task, cancelled, timers, worker, calls, halts, own, early, twice>>

Joiners == {c \in Callers : at[c] = "wait"}

\* ... aWait && aborted(): another abort() may be through by now; and wait(),
\* which finds the thread joinable although another caller may be joining it
AbortJoin(c) ==
  /\ at[c] = "join" /\ Goto(c, IF state = "aborted" THEN "wait" ELSE "joined")
  /\ twice' = (twice \/ (state = "aborted" /\ Joiners # {}))
  /\ UNCHANGED <<state, task, cancelled, timers, worker, calls, halts, own, early>>

AbortWaited(c) ==
  /\ at[c] = "wait" /\ worker = "ended" /\ Goto(c, "joined")
  /\ UNCHANGED <<state, task, cancelled, timers, worker, calls, halts, own, early, twice>>

\* std::thread::join() beside another one throws, out of abort()
JoinThrows(c) ==
  /\ at[c] = "wait" /\ Joiners # {c} /\ Goto(c, "idle")
  /\ UNCHANGED <<state, task, cancelled, timers, worker, calls, halts, own, early, twice>>

AbortEnd(c) ==
  /\ at[c] = "joined" /\ state' = "finished" /\ Goto(c, "idle")
  /\ UNCHANGED <<task, cancelled, timers, worker, calls, halts, own, early, twice>>

Halt(c) ==
  /\ Call(c) /\ ~halts /\ task' = "halted" /\ halts' = TRUE
  /\ UNCHANGED <<state, cancelled, timers, worker, at, own, early, twice>>

\* Mutant: cancel() does not wait.
Quiet_Always == TRUE

Quiet == task # "running"

\* async_task::cancel()
Cancel(c) ==
  /\ Call(c) /\ cancelled' = TRUE /\ Goto(c, "spin")
  /\ UNCHANGED <<state, task, timers, worker, halts, own, early, twice>>

CancelEnd(c) ==
  /\ at[c] = "spin" /\ Quiet /\ timers' = FALSE /\ Goto(c, "idle")
  /\ UNCHANGED <<state, task, cancelled, worker, calls, halts, own, early, twice>>

\* ~async_thread(), when nobody uses the thread any more
Destroy(c) ==
  /\ \A d \in Callers : at[d] = "idle"
  /\ cancelled' = TRUE /\ Goto(c, "destroy")
  /\ UNCHANGED <<state, task, timers, worker, calls, halts, own, early, twice>>

DestroyQuiet(c) ==
  /\ at[c] = "destroy" /\ Quiet /\ timers' = FALSE /\ Goto(c, "task")
  /\ UNCHANGED <<state, task, cancelled, worker, calls, halts, own, early, twice>>

\* ... iTask.wait(), which a cancelled task does not hold up, and cancel()
\* of the thread, which a thread that was never started refuses
DestroyThread(c) ==
  /\ at[c] = "task"
  /\ Goto(c, IF Finished THEN "last" ELSE IF state = "ready" THEN "killed" ELSE "thread")
  /\ UNCHANGED <<state, task, cancelled, timers, worker, calls, halts, own, early, twice>>

DestroyAbort(c) ==
  /\ at[c] = "thread" /\ state' = "aborted" /\ Goto(c, "threadJoin")
  /\ UNCHANGED <<task, cancelled, timers, worker, calls, halts, own, early, twice>>

DestroyJoin(c) ==
  /\ at[c] = "threadJoin" /\ worker = "ended" /\ state' = "finished" /\ Goto(c, "last")
  /\ UNCHANGED <<task, cancelled, timers, worker, calls, halts, own, early, twice>>

Joinable == worker \notin {"none", "ended"}

\* ~thread()
DestroyEnd(c) ==
  /\ at[c] = "last" /\ ~Joinable /\ Goto(c, "done")
  /\ UNCHANGED <<state, task, cancelled, timers, worker, calls, halts, own, early, twice>>

Init ==
  /\ state = "ready" /\ task = "init" /\ cancelled = FALSE /\ timers = TRUE
  /\ worker = "none" /\ at = [c \in Callers |-> "idle"] /\ calls = 0
  /\ halts = FALSE /\ own = FALSE /\ early = FALSE /\ twice = FALSE

WorkerNext ==
  \/ Entry \/ RunBegin \/ Loop \/ Worked \/ HandlerHalts
  \/ HandlerCancels \/ HandlerCancelled \/ RunEnd \/ EntryEnd
Finish(c) ==
  \/ AbortSet(c) \/ AbortJoin(c) \/ AbortWaited(c) \/ JoinThrows(c) \/ AbortEnd(c) \/ CancelEnd(c)
  \/ DestroyQuiet(c) \/ DestroyThread(c) \/ DestroyAbort(c) \/ DestroyJoin(c) \/ DestroyEnd(c)

Next ==
  \/ WorkerNext
  \/ \E c \in Callers :
       \/ Start(c) \/ Halt(c) \/ Cancel(c) \/ Destroy(c) \/ Finish(c)
       \/ \E wait \in BOOLEAN : Abort(c, wait)

Spec == Init /\ [][Next]_vars

\* The threads run, and handlers return.
FairSpec == Spec /\ WF_vars(WorkerNext) /\ \A c \in Callers : WF_vars(Finish(c))

----------------------------------------------------------------------------
\* do_work() has the services it calls, unless the task was halted under it
\* or a handler cancelled its own task.
ServicesThere == worker = "work" => timers \/ halts \/ own

\* A thread that says it finished has ended its work, unless an abort()
\* did not wait for it.
FinishedForReason == state = "finished" => worker \in {"none", "ended"} \/ early

\* Nothing of the thread runs when its destructor is through.
DestroyedQuiet == \A c \in Callers : at[c] = "done" => worker \in {"none", "ended"}

\* The destructor ends, unless a handler waits for its own task to end (or two
\* callers have joined the thread at once).
DestroyEnds ==
  \A c \in Callers : at[c] = "destroy" ~> at[c] \in {"done", "killed"} \/ own \/ twice

\* abort() ends once somebody cancels the task, under the same conditions.
AbortEnds ==
  \A c \in Callers : at[c] = "wait" /\ cancelled ~> at[c] # "wait" \/ own \/ twice
=============================================================================
