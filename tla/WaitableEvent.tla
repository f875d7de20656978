--------------------------- MODULE WaitableEvent ---------------------------
(***************************************************************************)
(* neolib::waitable_event: signals that stay until a wait takes them.      *)
(* Every operation is one or two critical sections, with the sleep on the  *)
(* condition variable between them.                                        *)
(***************************************************************************)
EXTENDS Naturals, FiniteSets

CONSTANTS Waiters,    \* threads that wait
          Timed,      \* those of them that wait with a timeout
          Kinds,      \* the signals that are sent: "one", "all"
          Resets,     \* whether reset() is called
          MaxSignals  \* bound: signals

ASSUME WaitableAssumption ==
  /\ Timed \subseteq Waiters /\ IsFiniteSet(Waiters)
  /\ Kinds \subseteq {"one", "all"} /\ Resets \in BOOLEAN /\ MaxSignals \in Nat

VARIABLES
  ready,    \* iReady
  kind,     \* iSignalType, which no constructor sets
  waiting,  \* iTotalWaiting
  pc,       \* where each thread is in wait()
  signals,  \* signals so far
  granted,  \* history: waits that returned for a signal, counted up to
            \* one more than there can be signals
  called    \* history: threads that slept when signal_all() was called last

vars == <<ready, kind, waiting, pc, signals, granted, called>>

\* Threads between ++iTotalWaiting and --iTotalWaiting.
Inside == {t \in Waiters : pc[t] # "out"}
Awake == {t \in Waiters : pc[t] \in {"woken", "expired"}}
Asleep == {t \in Waiters : pc[t] = "asleep"}

TypeOK ==
  /\ ready \in BOOLEAN /\ kind \in {"one", "all"}
  /\ pc \in [Waiters -> {"out", "asleep", "woken", "expired"}]
  /\ waiting = Cardinality(Inside)
  /\ signals \in 0 .. MaxSignals /\ granted \in 0 .. MaxSignals + 1
  /\ called \subseteq Waiters

----------------------------------------------------------------------------
\* Mutant: no notification.
NotifyOne_Missing == UNCHANGED pc

NotifyOne ==
  \/ \E t \in Asleep : pc' = [pc EXCEPT ![t] = "woken"]
  \/ Asleep = {} /\ UNCHANGED pc

SignalOne ==
  /\ "one" \in Kinds /\ signals < MaxSignals
  /\ ready' = TRUE /\ kind' = "one" /\ signals' = signals + 1
  /\ NotifyOne
  /\ UNCHANGED <<waiting, granted, called>>

WokenByAll == Asleep

SignalAll ==
  /\ "all" \in Kinds /\ signals < MaxSignals
  /\ ready' = TRUE /\ kind' = "all" /\ signals' = signals + 1
  /\ pc' = [t \in Waiters |->
              IF Asleep # {} /\ t \in WokenByAll THEN "woken" ELSE pc[t]]
  /\ called' = Asleep
  /\ UNCHANGED <<waiting, granted>>

Reset ==
  /\ Resets /\ ready
  /\ ready' = FALSE
  /\ UNCHANGED <<kind, waiting, pc, signals, granted, called>>

\* Mutant: every signal is taken by the first thread that sees it.
Takes_Always(left, result) == TRUE

\* result && iSignalType == SignalOne || iTotalWaiting == 0
Takes(left, result) == (result /\ kind = "one") \/ left = 0

\* --iTotalWaiting and what follows; `left` is its new value.
Leave(left, result) ==
  /\ waiting' = left
  /\ ready' = (ready /\ ~Takes(left, result))
  /\ granted' = IF result /\ granted <= MaxSignals THEN granted + 1 ELSE granted

\* wait() that finds a signal, in one section
WaitReady(t) ==
  /\ pc[t] = "out" /\ ready
  /\ Leave(waiting, TRUE)
  /\ UNCHANGED <<kind, pc, signals, called>>

WaitAsleep(t) ==
  /\ pc[t] = "out" /\ ~ready
  /\ waiting' = waiting + 1
  /\ pc' = [pc EXCEPT ![t] = "asleep"]
  /\ UNCHANGED <<ready, kind, signals, granted, called>>

SpuriousWake(t) ==
  /\ pc[t] = "asleep"
  /\ pc' = [pc EXCEPT ![t] = "woken"]
  /\ UNCHANGED <<ready, kind, waiting, signals, granted, called>>

Expire(t) ==
  /\ pc[t] = "asleep" /\ t \in Timed
  /\ pc' = [pc EXCEPT ![t] = "expired"]
  /\ UNCHANGED <<ready, kind, waiting, signals, granted, called>>

\* Mutant: the predicate is not tested again.
Signalled_Assumed(t) == TRUE

\* wait() tests iReady in a loop, wait(aTimeout_ms) does not.
Signalled(t) == t \in Timed \/ ready

Resume(t) ==
  /\ pc[t] \in {"woken", "expired"}
  /\ IF Signalled(t)
     THEN /\ pc' = [pc EXCEPT ![t] = "out"]
          /\ Leave(waiting - 1, pc[t] = "woken")
          /\ called' = called \ {t}
     ELSE /\ pc' = [pc EXCEPT ![t] = "asleep"]
          /\ UNCHANGED <<ready, waiting, granted, called>>
  /\ UNCHANGED <<kind, signals>>

Init ==
  /\ ready = FALSE /\ kind \in {"one", "all"} /\ waiting = 0
  /\ pc = [t \in Waiters |-> "out"]
  /\ signals = 0 /\ granted = 0 /\ called = {}

Next ==
  \/ SignalOne \/ SignalAll \/ Reset
  \/ \E t \in Waiters :
       WaitReady(t) \/ WaitAsleep(t) \/ SpuriousWake(t) \/ Expire(t) \/ Resume(t)

Spec == Init /\ [][Next]_vars

\* A thread that is woken gets the mutex in the end.
FairSpec == Spec /\ \A t \in Waiters : WF_vars(Resume(t))

----------------------------------------------------------------------------
\* As long as a signal is there and threads wait for one, one of them is
\* awake and will look at it: no signal is slept through.
NotSleptThrough == ready /\ Inside # {} => Awake # {}

\* Without timeouts and signal_all(), no signal lets two waits return,
\* whatever wakes up spuriously.
OneWaitPerSignal == Timed = {} /\ Kinds = {"one"} => granted <= signals
=============================================================================
