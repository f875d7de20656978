--------------------------- MODULE RecursiveMutex ---------------------------
(***************************************************************************)
(* neolib::recursive_mutex: a flag (iState) taken by test_and_set, the     *)
(* thread that took it (iLockingThread), and how often (iLockCount).  The  *)
(* three are separate atomics, so every access to one of them that another *)
(* thread can see is a step of its own.  Coherence makes the relaxed loads *)
(* safe to read as the current value: the only value a thread acts on is   *)
(* its own id, which only it writes and which it overwrites in unlock().   *)
(***************************************************************************)
EXTENDS Naturals

CONSTANTS Threads,
          Nobody,    \* the null thread_id
          Spinlock,  \* the template argument: spin before waiting?
          MaxCalls   \* bound: calls of lock and try_lock by each thread

ASSUME MutexAssumption ==
  /\ Nobody \notin Threads
  /\ Spinlock \in BOOLEAN
  /\ MaxCalls \in Nat

VARIABLES
  state,          \* iState
  lockingThread,  \* iLockingThread
  lockCount,      \* iLockCount
  pc,             \* per thread: where it is in lock, try_lock or unlock
  held,           \* per thread: how many locks it has to undo
  calls           \* per thread: its calls of lock and try_lock so far

vars == <<state, lockingThread, lockCount, pc, held, calls>>

PC == {"outside", "compare", "tryCompare", "acquire", "tryAcquire", "spin",
       "wait", "asleep", "acquired", "disown", "clear", "notify"}

TypeOK ==
  /\ state \in BOOLEAN
  /\ lockingThread \in Threads \cup {Nobody}
  /\ lockCount \in Nat
  /\ pc \in [Threads -> PC]
  /\ held \in [Threads -> Nat]
  /\ calls \in [Threads -> 0 .. MaxCalls]

Goto(t, label) == pc' = [pc EXCEPT ![t] = label]

\* A thread calls lock() or try_lock().
Call(t) ==
  /\ pc[t] = "outside" /\ calls[t] < MaxCalls
  /\ calls' = [calls EXCEPT ![t] = @ + 1]

\* The same thread already holds it: ++iLockCount.
Reenter(t) ==
  /\ lockCount' = lockCount + 1
  /\ held' = [held EXCEPT ![t] = @ + 1]
  /\ Goto(t, "outside")

----------------------------------------------------------------------------
(* lock()                                                                  *)

\* iState.test(), before iLockingThread is looked at.
Lock(t) ==
  /\ Call(t)
  /\ Goto(t, IF state THEN "compare" ELSE "acquire")
  /\ UNCHANGED <<state, lockingThread, lockCount, held>>

\* iLockingThread.load() == thisThread
Compare(t) ==
  /\ pc[t] = "compare"
  /\ IF lockingThread = t
     THEN Reenter(t)
     ELSE Goto(t, "acquire") /\ UNCHANGED <<lockCount, held>>
  /\ UNCHANGED <<state, lockingThread, calls>>

\* !iState.test() && !iState.test_and_set(), which settles who is next.
TestAndSet(t) ==
  /\ ~state
  /\ state' = TRUE
  /\ Goto(t, "acquired")
  /\ UNCHANGED <<lockingThread, lockCount, held, calls>>

Acquire(t) ==
  /\ pc[t] = "acquire"
  /\ \/ TestAndSet(t)
     \/ /\ state
        /\ Goto(t, IF Spinlock THEN "spin" ELSE "wait")
        /\ UNCHANGED <<state, lockingThread, lockCount, held, calls>>

\* spinIters more attempts, as many of them as fail being no step at all.
Spin(t) ==
  /\ pc[t] = "spin"
  /\ \/ TestAndSet(t)
     \/ /\ Goto(t, "wait")
        /\ UNCHANGED <<state, lockingThread, lockCount, held, calls>>

\* Mutant: the thread goes to sleep whatever the flag is by now.
Wait_Blind(t) ==
  /\ pc[t] = "wait"
  /\ Goto(t, "asleep")
  /\ UNCHANGED <<state, lockingThread, lockCount, held, calls>>

\* iState.wait(true): sleeps only if the flag is still set.
Wait(t) ==
  /\ pc[t] = "wait"
  /\ Goto(t, IF state THEN "asleep" ELSE "acquire")
  /\ UNCHANGED <<state, lockingThread, lockCount, held, calls>>

\* iLockingThread.store(); ++iLockCount; lock() or try_lock() returns.
Own(t) ==
  /\ pc[t] = "acquired"
  /\ lockingThread' = t
  /\ Reenter(t)
  /\ UNCHANGED <<state, calls>>

----------------------------------------------------------------------------
(* try_lock()                                                              *)

TryLock(t) ==
  /\ Call(t)
  /\ Goto(t, IF state THEN "tryCompare" ELSE "tryAcquire")
  /\ UNCHANGED <<state, lockingThread, lockCount, held>>

TryCompare(t) ==
  /\ pc[t] = "tryCompare"
  /\ IF lockingThread = t
     THEN Reenter(t)
     ELSE Goto(t, "tryAcquire") /\ UNCHANGED <<lockCount, held>>
  /\ UNCHANGED <<state, lockingThread, calls>>

\* One test_and_set; if the flag was set try_lock() returns false.
TryAcquire(t) ==
  /\ pc[t] = "tryAcquire"
  /\ \/ TestAndSet(t)
     \/ /\ state
        /\ Goto(t, "outside")
        /\ UNCHANGED <<state, lockingThread, lockCount, held, calls>>

----------------------------------------------------------------------------
(* unlock(), by a thread that has the lock                                 *)

\* --iLockCount, which alone decides whether the mutex is given up.
Unlock(t) ==
  /\ pc[t] = "outside" /\ held[t] > 0
  /\ lockCount' = lockCount - 1
  /\ held' = [held EXCEPT ![t] = @ - 1]
  /\ Goto(t, IF lockCount = 1 THEN "disown" ELSE "outside")
  /\ UNCHANGED <<state, lockingThread, calls>>

\* Mutant: the id of the last holder stays behind.
Disown_Kept(t) ==
  /\ pc[t] = "disown"
  /\ Goto(t, "clear")
  /\ UNCHANGED <<state, lockingThread, lockCount, held, calls>>

\* iLockingThread.store(nullptr)
Disown(t) ==
  /\ pc[t] = "disown"
  /\ lockingThread' = Nobody
  /\ Goto(t, "clear")
  /\ UNCHANGED <<state, lockCount, held, calls>>

\* iState.clear()
Clear(t) ==
  /\ pc[t] = "clear"
  /\ state' = FALSE
  /\ Goto(t, "notify")
  /\ UNCHANGED <<lockingThread, lockCount, held, calls>>

\* iState.notify_one(): one of the threads asleep goes round its loop again.
NotifyOne(t) ==
  /\ pc[t] = "notify"
  /\ \/ /\ \A u \in Threads : pc[u] # "asleep"
        /\ Goto(t, "outside")
     \/ \E u \in Threads :
          /\ pc[u] = "asleep"
          /\ pc' = [pc EXCEPT ![t] = "outside", ![u] = "acquire"]
  /\ UNCHANGED <<state, lockingThread, lockCount, held, calls>>

----------------------------------------------------------------------------
Init ==
  /\ state = FALSE
  /\ lockingThread = Nobody
  /\ lockCount = 0
  /\ pc = [t \in Threads |-> "outside"]
  /\ held = [t \in Threads |-> 0]
  /\ calls = [t \in Threads |-> 0]

\* What a thread does once it has called lock, try_lock or unlock.
Inside(t) ==
  \/ Compare(t) \/ Acquire(t) \/ Spin(t) \/ Wait(t) \/ Own(t)
  \/ TryCompare(t) \/ TryAcquire(t)
  \/ Disown(t) \/ Clear(t) \/ NotifyOne(t)

Next == \E t \in Threads : Lock(t) \/ TryLock(t) \/ Unlock(t) \/ Inside(t)

Spec == Init /\ [][Next]_vars

\* Threads run, and whoever has the lock gives it back.
Fairness == \A t \in Threads : WF_vars(Inside(t)) /\ WF_vars(Unlock(t))

FairSpec == Spec /\ Fairness

----------------------------------------------------------------------------
(* What it promises                                                        *)

\* From its test_and_set until its clear() the mutex is this thread's.
Has(t) == held[t] > 0 \/ pc[t] \in {"acquired", "disown", "clear"}

\* Two threads never have the mutex at once, and the count and the owner kept
\* in the mutex are those of the thread that has it.
MutualExclusion ==
  /\ \A t, u \in Threads : Has(t) /\ Has(u) => t = u
  /\ \A t \in Threads : held[t] > 0 => lockingThread = t /\ lockCount = held[t]

Holder ==
  IF \E t \in Threads : Has(t) THEN CHOOSE t \in Threads : Has(t) ELSE Nobody

Level ==
  IF Holder = Nobody THEN 0 ELSE IF held[Holder] > 0 THEN held[Holder] ELSE 1

\* It is a recursive lock: taken at test_and_set, given up at clear().
Lck == INSTANCE RecursiveLock WITH holder <- Holder, level <- Level

RecursiveLockSpec == Lck!Spec

\* Nobody waits for ever for a mutex that the others let go of for good: the
\* flag is looked at once more before sleeping, and every clear() is followed
\* by a notify.
LockReturns ==
  \A t \in Threads :
    pc[t] \in {"acquire", "spin", "wait", "asleep"} ~> pc[t] = "acquired"

----------------------------------------------------------------------------
(* Why it keeps its promise: the inductive invariant, in named parts.      *)

OneHasIt == \A t, u \in Threads : Has(t) /\ Has(u) => t = u

\* The flag is set from test_and_set to clear().
FlagMeansTaken == state <=> \E t \in Threads : Has(t)

\* A thread with locks to undo is the owner, and is not inside a call but for
\* the shortcut of a recursive one.
HolderOwns ==
  \A t \in Threads : held[t] > 0 =>
    /\ lockingThread = t /\ lockCount = held[t]
    /\ pc[t] \in {"outside", "compare", "tryCompare"}

\* A thread finds its own id only while it has locks to undo.
OwnerHolds ==
  \A t \in Threads : lockingThread = t => held[t] > 0 \/ pc[t] = "disown"

CountZero == (\A t \in Threads : held[t] = 0) => lockCount = 0

MutexInv ==
  /\ TypeOK
  /\ OneHasIt
  /\ FlagMeansTaken
  /\ HolderOwns
  /\ OwnerHolds
  /\ CountZero
=============================================================================
