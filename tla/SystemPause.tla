---------------------------- MODULE SystemPause ----------------------------
(***************************************************************************)
(* A neolib::ecs::system with a thread of its own, which waits while the   *)
(* system is paused.  Controllers pause and resume the system, or all      *)
(* systems of the ecs, and one thread destroys the ecs, which terminates   *)
(* the system.                                                             *)
(***************************************************************************)
EXTENDS Integers, FiniteSets

CONSTANTS Controllers,
          MaxCalls,    \* bound: calls of the controllers
          Width,       \* iPaused counts modulo Width, further than anybody pauses
          Timed,       \* whether apply() waits with a timeout, as time's does
          Terminated   \* whether the system is terminated

SystemAssumption ==
  /\ IsFiniteSet(Controllers) /\ MaxCalls \in Nat
  /\ Width \in Nat /\ Width > MaxCalls + 1
  /\ Timed \in BOOLEAN /\ Terminated \in BOOLEAN

VARIABLES
  paused,     \* iPaused
  all,        \* iSystemsPaused of the ecs
  waiting,    \* iWaiting
  worker,     \* where the system's thread is
  at,         \* where each controller is
  own,        \* the pauses of its own that a controller has yet to resume,
              \* each with the number of its call
  term,       \* how far terminate() has come
  calls,
  overlapped, \* history: two controllers were in pause_all or resume_all
  missed,     \* history: resume() looked before the thread was waiting
  pausedLate  \* history: paused, or about to wait, when terminate() ran

control == <<at, own, calls, overlapped>>
vars == <<paused, all, waiting, worker, control, term, missed, pausedLate>>

InAll == {"pauseAll", "resumeAll"}

TypeOK ==
  /\ paused \in 0 .. Width - 1 /\ all \in BOOLEAN /\ waiting \in BOOLEAN
  /\ worker \in {"work", "timed", "test", "wait", "lock", "asleep", "ended", "killed"}
  /\ at \in [Controllers -> {"idle", "look", "signal"} \cup InAll]
  /\ own \subseteq Controllers \X (1 .. MaxCalls) /\ calls \in 0 .. MaxCalls
  /\ term \in {"no", "destroying", "signalled", "cancelled", "done"}
  /\ overlapped \in BOOLEAN /\ missed \in BOOLEAN /\ pausedLate \in BOOLEAN

Goto(c, l) == at' = [at EXCEPT ![c] = l]
Late == pausedLate' = (pausedLate \/ (term # "no" /\ paused' # 0))

----------------------------------------------------------------------------
\* The system's thread: async_task::run(), thread::do_work()

HaveThread == term = "no"
Cancelled == term \in {"cancelled", "done"}

WorkerStep(from, to) == worker = from /\ worker' = to
WorkerOnly == UNCHANGED <<paused, all, control, term, missed, pausedLate>>

\* apply(); time's waits when it is not paused, and iWaiting stays set when
\* the time is up
Apply ==
  /\ worker = "work" /\ ~Cancelled
  /\ IF Timed /\ paused = 0 /\ HaveThread
     THEN worker' = "timed" /\ waiting' = TRUE
     ELSE worker' = "test" /\ UNCHANGED waiting
  /\ WorkerOnly

TimedWake == WorkerStep("timed", "test") /\ UNCHANGED waiting /\ WorkerOnly

\* if (iOwner.paused() && !iOwner.waiting())
MustWait == paused # 0 /\ ~waiting

Test ==
  /\ worker = "test" /\ worker' = IF MustWait THEN "wait" ELSE "work"
  /\ UNCHANGED waiting /\ WorkerOnly

\* wait(): no_thread leaves the thread and ends the program
WaitThrows ==
  /\ ~HaveThread /\ WorkerStep("wait", "killed") /\ UNCHANGED waiting /\ WorkerOnly
\* ... up to the lock, which it may pass before terminate() begins
WaitChecked ==
  /\ HaveThread /\ WorkerStep("wait", "lock") /\ UNCHANGED waiting /\ WorkerOnly
Sleep == WorkerStep("lock", "asleep") /\ waiting' = TRUE /\ WorkerOnly
Wake == ~waiting /\ WorkerStep("asleep", "work") /\ UNCHANGED waiting /\ WorkerOnly

EndWork ==
  /\ Cancelled /\ WorkerStep("work", "ended") /\ UNCHANGED waiting /\ WorkerOnly

----------------------------------------------------------------------------
\* The controllers

Call(c) == at[c] = "idle" /\ calls < MaxCalls /\ calls' = calls + 1

Incremented == (paused + 1) % Width

Decremented == (paused + Width - 1) % Width

Pause(c) ==
  /\ Call(c) /\ paused' = Incremented /\ own' = own \cup {<<c, calls'>>}
  /\ Late /\ UNCHANGED <<all, waiting, worker, at, overlapped, term, missed>>

\* resume(): --iPaused == 0
Resume(c) ==
  /\ at[c] = "idle" /\ \E p \in own : p[1] = c /\ own' = own \ {p}
  /\ paused' = Decremented
  /\ Goto(c, IF paused' = 0 THEN "look" ELSE "idle")
  /\ Late /\ UNCHANGED <<all, waiting, worker, calls, overlapped, term, missed>>

\* ... && waiting()
Look(c) ==
  /\ at[c] = "look" /\ Goto(c, IF waiting THEN "signal" ELSE "idle")
  /\ missed' = (missed \/ (~waiting /\ worker \in {"wait", "lock"}))
  /\ UNCHANGED <<paused, all, waiting, worker, own, calls, overlapped, term, pausedLate>>

\* Mutant: nothing is cleared.
Cleared_Not == waiting

Cleared == FALSE

\* signal()
Signal(c) ==
  /\ at[c] = "signal" /\ Goto(c, "idle") /\ waiting' = Cleared
  /\ UNCHANGED <<paused, all, worker, own, calls, overlapped, term, missed, pausedLate>>

Overlap == overlapped' = (overlapped \/ \E c \in Controllers : at[c] \in InAll)

\* pause_all_systems() and resume_all_systems() return if there is nothing
\* to do; the mutex is taken after that test
TestAll(c) ==
  /\ Call(c) /\ Goto(c, IF all THEN "resumeAll" ELSE "pauseAll") /\ Overlap
  /\ UNCHANGED <<paused, all, waiting, worker, own, term, missed, pausedLate>>

PauseAll(c) ==
  /\ at[c] = "pauseAll" /\ paused' = Incremented /\ all' = TRUE /\ Goto(c, "idle")
  /\ Late /\ UNCHANGED <<waiting, worker, own, calls, overlapped, term, missed>>

\* Mutant: iSystemsPaused is left.
ResumedAll_Left == all

ResumedAll == FALSE

\* (iSystemsPaused = false comes after the resume() of every system.)
ResumeAll(c) ==
  /\ at[c] = "resumeAll" /\ paused' = Decremented /\ all' = ResumedAll
  /\ Goto(c, IF paused' = 0 THEN "look" ELSE "idle")
  /\ Late /\ UNCHANGED <<waiting, worker, own, calls, overlapped, term, missed>>

----------------------------------------------------------------------------
\* terminate(): iThread is null before the thread's destructor begins

TermStep(from, to) ==
  /\ Terminated /\ term = from /\ term' = to
  /\ pausedLate' = (pausedLate \/ paused # 0 \/ worker \in {"wait", "lock"})
  /\ UNCHANGED <<paused, all, worker, control, missed>>

Terminate == TermStep("no", "destroying") /\ UNCHANGED waiting

TermSignal == TermStep("destroying", "signalled") /\ waiting' = FALSE

TermCancel == TermStep("signalled", "cancelled") /\ UNCHANGED waiting

\* async_task::cancel() and wait(), and the join
TermEnd == worker = "ended" /\ TermStep("cancelled", "done") /\ UNCHANGED waiting

Init ==
  /\ paused = 0 /\ all = FALSE /\ waiting = FALSE /\ worker = "work"
  /\ at = [c \in Controllers |-> "idle"] /\ own = {}
  /\ term = "no" /\ calls = 0
  /\ overlapped = FALSE /\ missed = FALSE /\ pausedLate = FALSE

WorkerNext ==
  Apply \/ TimedWake \/ Test \/ WaitThrows \/ WaitChecked \/ Sleep \/ Wake \/ EndWork
Running == worker # "killed"
Finish(c) == Running /\ (Look(c) \/ Signal(c) \/ PauseAll(c) \/ ResumeAll(c))
TermNext == Running /\ (TermSignal \/ TermCancel \/ TermEnd)

Next ==
  \/ WorkerNext \/ TermNext
  \/ Running /\ Terminate
  \/ \E c \in Controllers : Running /\ (Pause(c) \/ Resume(c) \/ TestAll(c))
  \/ \E c \in Controllers : Finish(c)

Spec == Init /\ [][Next]_vars

\* The threads run; a wait with a timeout ends.
Fairness ==
  /\ WF_vars(WorkerNext) /\ WF_vars(TermNext)
  /\ \A c \in Controllers : WF_vars(Finish(c))

FairSpec == Spec /\ Fairness

----------------------------------------------------------------------------
\* The count of a system that was instantiated before is what its own
\* pauses and iSystemsPaused make of it, as long as no two threads were in
\* pause_all_systems() or resume_all_systems() together.
PauseCount ==
  \/ overlapped \/ \E c \in Controllers : at[c] \in InAll
  \/ paused = Cardinality(own) + (IF all THEN 1 ELSE 0)

\* The thread sleeps in wait() because the system is paused, or is about to
\* be woken, or because resume() looked at iWaiting too early.
AsleepForReason ==
  worker = "asleep" /\ waiting =>
    \/ paused # 0 \/ missed \/ overlapped \/ term # "no"
    \/ \E c \in Controllers : at[c] \in {"look", "signal"}

\* Only a system that is paused, or about to wait, when it is terminated
\* brings the program down.
KilledForReason == worker = "killed" => pausedLate

\* A system that was resumed goes on.
Resumed ==
  worker = "asleep" /\ paused = 0 ~>
    worker # "asleep" \/ paused # 0 \/ missed \/ overlapped \/ pausedLate

\* terminate() comes to an end.
TerminateEnds == term # "no" ~> term = "done" \/ pausedLate
=============================================================================
