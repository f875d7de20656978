---------------------------- MODULE ThreadProofs ----------------------------
(***************************************************************************)
(* Proofs about what stops, starts and signals threads, for any number of  *)
(* threads and callers: no thread sleeps through a signal of a             *)
(* waitable_event, no signal is lost or lets two waits return,             *)
(* async_thread ends no sooner than its work, and a system is paused as    *)
(* often as it is to be resumed, and sleeps for that only.                 *)
(***************************************************************************)
EXTENDS MCThread, FiniteSetTheorems, TLAPS

Woken == {t \in Waiters : pc[t] = "woken"}

\* While a signal is there nobody sleeps, or it is a signal for one and that
\* one, woken, has yet to take it: a thread that only timed out would leave
\* the others asleep.
Heeded ==
  /\ pc \in [Waiters -> {"out", "asleep", "woken", "expired"}]
  /\ kind \in {"one", "all"} /\ ready \in BOOLEAN
  /\ ready => Asleep = {} \/ (kind = "one" /\ Woken # {})

\* A thread leaving wait() takes a signal for one or leaves no sleeper to it.
LEMMA ResumeHeeds ==
  ASSUME Heeded, NEW t \in Waiters, Resume(t)
  PROVE  Heeded'
<1>1. CASE ~Signalled(t)
  <2>1. ~ready /\ ready' = ready /\ kind' = kind /\ pc' = [pc EXCEPT ![t] = "asleep"]
    BY <1>1 DEF Resume, Signalled
  <2>. QED BY <2>1 DEF Heeded
<1>2. CASE Signalled(t) /\ pc[t] = "woken"
  <2>1. /\ pc' = [pc EXCEPT ![t] = "out"] /\ kind' = kind
        /\ ready' = (ready /\ ~Takes(waiting - 1, TRUE))
    BY <1>2 DEF Resume, Leave
  <2>2. ready' => ready /\ kind # "one"
    BY <2>1 DEF Takes
  <2>3. ready' => Asleep = {}
    BY <2>2 DEF Heeded
  <2>4. Asleep' \subseteq Asleep
    BY <2>1 DEF Asleep, Heeded
  <2>. QED BY <2>1, <2>3, <2>4 DEF Heeded
<1>3. CASE Signalled(t) /\ pc[t] = "expired"
  <2>1. /\ pc' = [pc EXCEPT ![t] = "out"] /\ kind' = kind
        /\ ready' = (ready /\ ~Takes(waiting - 1, FALSE))
    BY <1>3 DEF Resume, Leave
  <2>2. Asleep' = Asleep /\ Woken' = Woken
    BY <1>3, <2>1 DEF Asleep, Woken, Heeded
  <2>. QED BY <2>1, <2>2 DEF Heeded
<1>. QED BY <1>1, <1>2, <1>3 DEF Resume

\* Every step of a signal or a wait keeps what Heeded says.
LEMMA HeededStep == Heeded /\ [Next]_vars => Heeded'
<1>. SUFFICES ASSUME Heeded, [Next]_vars PROVE Heeded'
  OBVIOUS
<1>1. CASE SignalOne
  <2>1. CASE Asleep = {} /\ UNCHANGED pc
    BY <1>1, <2>1 DEF SignalOne, Heeded, Asleep
  <2>2. ASSUME NEW t \in Asleep, pc' = [pc EXCEPT ![t] = "woken"]
        PROVE  Heeded'
    <3>1. t \in Woken'
      BY <2>2 DEF Asleep, Woken, Heeded
    <3>. QED BY <1>1, <2>2, <3>1 DEF SignalOne, Heeded, Asleep
  <2>. QED BY <1>1, <2>1, <2>2 DEF SignalOne, NotifyOne
<1>2. CASE SignalAll
  <2>1. Asleep' = {}
    BY <1>2 DEF SignalAll, WokenByAll, Asleep, Heeded
  <2>. QED BY <1>2, <2>1 DEF SignalAll, WokenByAll, Heeded
<1>3. CASE Reset
  BY <1>3 DEF Reset, Heeded
<1>4. ASSUME NEW t \in Waiters, WaitReady(t) PROVE Heeded'
  BY <1>4 DEF WaitReady, Leave, Heeded, Asleep, Woken
<1>5. ASSUME NEW t \in Waiters, WaitAsleep(t) PROVE Heeded'
  BY <1>5 DEF WaitAsleep, Heeded
<1>6. ASSUME NEW t \in Waiters, SpuriousWake(t) PROVE Heeded'
  BY <1>6 DEF SpuriousWake, Heeded, Asleep, Woken
<1>7. ASSUME NEW t \in Waiters, Expire(t) PROVE Heeded'
  <2>1. Asleep' \subseteq Asleep /\ Woken' = Woken
    BY <1>7 DEF Expire, Heeded, Asleep, Woken
  <2>. QED BY <1>7, <2>1 DEF Expire, Heeded
<1>8. ASSUME NEW t \in Waiters, Resume(t) PROVE Heeded'
  BY <1>8, ResumeHeeds
<1>9. CASE UNCHANGED vars
  BY <1>9 DEF vars, Heeded, Asleep, Woken
<1>. QED BY <1>1, <1>2, <1>3, <1>4, <1>5, <1>6, <1>7, <1>8, <1>9 DEF Next

\* As long as a signal is there and threads are inside wait(), one of them is
\* awake and will look at it.
THEOREM NoSignalSleptThrough == Spec => []NotSleptThrough
<1>1. Init => Heeded
  BY DEF Init, Heeded
<1>2. Heeded => NotSleptThrough
  BY DEF Heeded, NotSleptThrough, Inside, Awake, Asleep, Woken
<1>. QED BY <1>1, <1>2, HeededStep, PTL DEF Spec

----------------------------------------------------------------------------
(* What becomes of a signal.                                               *)

Places == [Waiters -> {"out", "asleep", "woken", "expired"}]
More == IF granted <= MaxSignals THEN granted + 1 ELSE granted

\* The moves that signals and waits are, whatever the constants allow.
Signals ==
  /\ signals < MaxSignals /\ signals' = signals + 1 /\ ready' = TRUE /\ kind' \in {"one", "all"}
  /\ waiting' = waiting /\ granted' = granted /\ called' \in {called, Asleep}
  /\ pc' \in Places /\ Inside' = Inside
Keeps ==
  /\ waiting' = waiting /\ signals' = signals /\ kind' = kind /\ granted' \in {granted, More}
  /\ ready' \in BOOLEAN /\ called' = called /\ pc' \in Places /\ Inside' = Inside
Enters(t) ==
  /\ pc[t] = "out" /\ pc' = [pc EXCEPT ![t] = "asleep"] /\ waiting' = waiting + 1
  /\ UNCHANGED <<ready, kind, signals, granted, called>>
Leaves(t) ==
  /\ pc[t] \in {"woken", "expired"} /\ pc' = [pc EXCEPT ![t] = "out"] /\ waiting' = waiting - 1
  /\ ready' \in BOOLEAN /\ granted' \in {granted, More} /\ called' = called \ {t}
  /\ UNCHANGED <<kind, signals>>
Moves == Signals \/ Keeps \/ \E t \in Waiters : Enters(t) \/ Leaves(t)

\* iTotalWaiting counts the threads inside wait().
LEMMA MovesCount == ASSUME TypeOK, Moves PROVE TypeOK'
<1> USE WaitableAssumption
<1>1. /\ ready \in BOOLEAN /\ kind \in {"one", "all"} /\ pc \in Places /\ waiting = Cardinality(Inside)
      /\ signals \in 0 .. MaxSignals /\ granted \in 0 .. MaxSignals + 1 /\ called \subseteq Waiters
  BY DEF TypeOK, Places
<1>2. IsFiniteSet(Inside) /\ Cardinality(Inside) \in Nat
  <2>1. Inside \subseteq Waiters
    BY DEF Inside
  <2> QED
    BY <2>1, FS_Subset, FS_CardinalityType
<1>3. More \in 0 .. MaxSignals + 1
  BY <1>1 DEF More
<1>4. CASE Signals
  <2>1. signals' \in 0 .. MaxSignals
    BY <1>1, <1>4 DEF Signals
  <2>2. waiting' = Cardinality(Inside')
    BY <1>1, <1>4 DEF Signals
  <2>3. called' \subseteq Waiters
    BY <1>1, <1>4 DEF Signals, Asleep
  <2> QED
    BY <1>1, <1>4, <2>1, <2>2, <2>3 DEF Signals, TypeOK, Places
<1>5. CASE Keeps
  <2>1. waiting' = Cardinality(Inside')
    BY <1>1, <1>5 DEF Keeps
  <2> QED
    BY <1>1, <1>3, <1>5, <2>1 DEF Keeps, TypeOK, Places
<1>6. ASSUME NEW t \in Waiters, Enters(t) PROVE TypeOK'
  <2>1. Inside' = Inside \cup {t} /\ t \notin Inside /\ pc' \in Places
    BY <1>1, <1>6 DEF Enters, Inside, Places
  <2>2. waiting' = Cardinality(Inside')
    BY <1>1, <1>2, <1>6, <2>1, FS_AddElement DEF Enters
  <2> QED
    BY <1>1, <1>6, <2>1, <2>2 DEF Enters, TypeOK, Places
<1>7. ASSUME NEW t \in Waiters, Leaves(t) PROVE TypeOK'
  <2>1. Inside' = Inside \ {t} /\ t \in Inside /\ pc' \in Places
    BY <1>1, <1>7 DEF Leaves, Inside, Places
  <2>2. waiting' = Cardinality(Inside')
    BY <1>1, <1>2, <1>7, <2>1, FS_RemoveElement DEF Leaves
  <2> QED
    BY <1>1, <1>3, <1>7, <2>1, <2>2 DEF Leaves, TypeOK, Places
<1> QED
  BY <1>4, <1>5, <1>6, <1>7 DEF Moves

\* Each signal and each wait is such a move.
LEMMA NextMoves == ASSUME TypeOK, Next PROVE Moves
<1>1. pc \in Places /\ ready \in BOOLEAN
  BY DEF TypeOK, Places
<1>2. CASE SignalOne
  <2>1. pc' \in Places /\ Inside' = Inside
    <3>1. CASE UNCHANGED pc
      BY <1>1, <3>1 DEF Inside
    <3>2. ASSUME NEW t \in Asleep, pc' = [pc EXCEPT ![t] = "woken"] PROVE pc' \in Places /\ Inside' = Inside
      BY <1>1, <3>2 DEF Inside, Asleep, Places
    <3> QED
      BY <1>2, <3>1, <3>2 DEF SignalOne, NotifyOne
  <2> QED
    BY <1>2, <2>1 DEF SignalOne, Moves, Signals
<1>3. CASE SignalAll
  <2>1. pc' \in Places /\ Inside' = Inside
    BY <1>1, <1>3 DEF SignalAll, WokenByAll, Asleep, Inside, Places
  <2> QED
    BY <1>3, <2>1 DEF SignalAll, Moves, Signals
<1>4. CASE Reset
  BY <1>1, <1>4 DEF Reset, Moves, Keeps, Inside
<1>5. ASSUME NEW t \in Waiters, WaitReady(t) PROVE Moves
  BY <1>1, <1>5 DEF WaitReady, Leave, Moves, Keeps, Inside, More
<1>6. ASSUME NEW t \in Waiters, WaitAsleep(t) PROVE Moves
  BY <1>6 DEF WaitAsleep, Moves, Enters
<1>7. ASSUME NEW t \in Waiters, SpuriousWake(t) \/ Expire(t) PROVE Moves
  <2>1. pc' \in Places /\ Inside' = Inside
    BY <1>1, <1>7 DEF SpuriousWake, Expire, Inside, Places
  <2> QED
    BY <1>1, <1>7, <2>1 DEF SpuriousWake, Expire, Moves, Keeps
<1>8. ASSUME NEW t \in Waiters, Resume(t) PROVE Moves
  <2>1. CASE Signalled(t)
    BY <1>1, <1>8, <2>1 DEF Resume, Leave, Moves, Leaves, More
  <2>2. CASE ~Signalled(t)
    <3>1. pc' \in Places /\ Inside' = Inside
      BY <1>1, <1>8, <2>2 DEF Resume, Inside, Places
    <3> QED
      BY <1>1, <1>8, <2>2, <3>1 DEF Resume, Moves, Keeps
  <2> QED
    BY <2>1, <2>2
<1> QED
  BY <1>2, <1>3, <1>4, <1>5, <1>6, <1>7, <1>8 DEF Next

\* The same with signal_one() alone and no timeouts.
LEMMA OneMoves == ASSUME TypeOK, One!Next PROVE Moves
<1>1. pc \in Places /\ ready \in BOOLEAN
  BY DEF TypeOK, Places
<1>2. CASE One!SignalOne
  <2>1. pc' \in Places /\ Inside' = Inside
    <3>1. CASE UNCHANGED pc
      BY <1>1, <3>1 DEF Inside
    <3>2. ASSUME NEW t \in Asleep, pc' = [pc EXCEPT ![t] = "woken"] PROVE pc' \in Places /\ Inside' = Inside
      BY <1>1, <3>2 DEF Inside, Asleep, Places
    <3> QED
      BY <1>2, <3>1, <3>2 DEF One!SignalOne, One!NotifyOne, One!Asleep, Asleep
  <2> QED
    BY <1>2, <2>1 DEF One!SignalOne, Moves, Signals
<1>3. CASE One!SignalAll
  <2>1. pc' \in Places /\ Inside' = Inside
    BY <1>1, <1>3 DEF One!SignalAll, One!WokenByAll, One!Asleep, Asleep, Inside, Places
  <2> QED
    BY <1>3, <2>1 DEF One!SignalAll, One!Asleep, Asleep, Moves, Signals
<1>4. CASE One!Reset
  BY <1>1, <1>4 DEF One!Reset, Moves, Keeps, Inside
<1>5. ASSUME NEW t \in Waiters, One!WaitReady(t) PROVE Moves
  BY <1>1, <1>5 DEF One!WaitReady, One!Leave, Moves, Keeps, Inside, More
<1>6. ASSUME NEW t \in Waiters, One!WaitAsleep(t) PROVE Moves
  BY <1>6 DEF One!WaitAsleep, Moves, Enters
<1>7. ASSUME NEW t \in Waiters, One!SpuriousWake(t) \/ One!Expire(t) PROVE Moves
  <2>1. pc' \in Places /\ Inside' = Inside
    BY <1>1, <1>7 DEF One!SpuriousWake, One!Expire, Inside, Places
  <2> QED
    BY <1>1, <1>7, <2>1 DEF One!SpuriousWake, One!Expire, Moves, Keeps
<1>8. ASSUME NEW t \in Waiters, One!Resume(t) PROVE Moves
  <2>1. CASE One!Signalled(t)
    BY <1>1, <1>8, <2>1 DEF One!Resume, One!Leave, Moves, Leaves, More
  <2>2. CASE ~One!Signalled(t)
    <3>1. pc' \in Places /\ Inside' = Inside
      BY <1>1, <1>8, <2>2 DEF One!Resume, Inside, Places
    <3> QED
      BY <1>1, <1>8, <2>2, <3>1 DEF One!Resume, Moves, Keeps
  <2> QED
    BY <2>1, <2>2
<1> QED
  BY <1>2, <1>3, <1>4, <1>5, <1>6, <1>7, <1>8 DEF One!Next

\* The same with signal_all() alone.
LEMMA AllMoves == ASSUME TypeOK, All!Next PROVE Moves
<1>1. pc \in Places /\ ready \in BOOLEAN
  BY DEF TypeOK, Places
<1>2. CASE All!SignalOne
  <2>1. pc' \in Places /\ Inside' = Inside
    <3>1. CASE UNCHANGED pc
      BY <1>1, <3>1 DEF Inside
    <3>2. ASSUME NEW t \in Asleep, pc' = [pc EXCEPT ![t] = "woken"] PROVE pc' \in Places /\ Inside' = Inside
      BY <1>1, <3>2 DEF Inside, Asleep, Places
    <3> QED
      BY <1>2, <3>1, <3>2 DEF All!SignalOne, All!NotifyOne, All!Asleep, Asleep
  <2> QED
    BY <1>2, <2>1 DEF All!SignalOne, Moves, Signals
<1>3. CASE All!SignalAll
  <2>1. pc' \in Places /\ Inside' = Inside
    BY <1>1, <1>3 DEF All!SignalAll, All!WokenByAll, All!Asleep, Asleep, Inside, Places
  <2> QED
    BY <1>3, <2>1 DEF All!SignalAll, All!Asleep, Asleep, Moves, Signals
<1>4. CASE All!Reset
  BY <1>1, <1>4 DEF All!Reset, Moves, Keeps, Inside
<1>5. ASSUME NEW t \in Waiters, All!WaitReady(t) PROVE Moves
  BY <1>1, <1>5 DEF All!WaitReady, All!Leave, Moves, Keeps, Inside, More
<1>6. ASSUME NEW t \in Waiters, All!WaitAsleep(t) PROVE Moves
  BY <1>6 DEF All!WaitAsleep, Moves, Enters
<1>7. ASSUME NEW t \in Waiters, All!SpuriousWake(t) \/ All!Expire(t) PROVE Moves
  <2>1. pc' \in Places /\ Inside' = Inside
    BY <1>1, <1>7 DEF All!SpuriousWake, All!Expire, Inside, Places
  <2> QED
    BY <1>1, <1>7, <2>1 DEF All!SpuriousWake, All!Expire, Moves, Keeps
<1>8. ASSUME NEW t \in Waiters, All!Resume(t) PROVE Moves
  <2>1. CASE All!Signalled(t)
    BY <1>1, <1>8, <2>1 DEF All!Resume, All!Leave, Moves, Leaves, More
  <2>2. CASE ~All!Signalled(t)
    <3>1. pc' \in Places /\ Inside' = Inside
      BY <1>1, <1>8, <2>2 DEF All!Resume, Inside, Places
    <3> QED
      BY <1>1, <1>8, <2>2, <3>1 DEF All!Resume, Moves, Keeps
  <2> QED
    BY <2>1, <2>2
<1> QED
  BY <1>2, <1>3, <1>4, <1>5, <1>6, <1>7, <1>8 DEF All!Next

\* A signal that is there has let no wait return, if each is for one.
Unspent ==
  /\ \A t \in Waiters : pc[t] # "expired"
  /\ granted <= signals /\ (ready => kind = "one" /\ granted < signals)

\* With signal_one() alone, a wait that returns takes the signal away.
LEMMA UnspentStep == ASSUME TypeOK, Unspent, One!Next PROVE Unspent'
<1> USE WaitableAssumption
<1>1. pc \in Places /\ signals \in Nat /\ granted \in Nat /\ signals <= MaxSignals /\ ready \in BOOLEAN
  BY DEF TypeOK, Places
<1>2. \A t \in Waiters : pc'[t] # "expired"
  BY <1>1 DEF Unspent, One!Next, One!SignalOne, One!SignalAll, One!NotifyOne, One!Asleep, One!WokenByAll, One!Reset,
     One!WaitReady, One!WaitAsleep, One!SpuriousWake, One!Expire, One!Resume, One!Leave, Places
<1>3. CASE One!SignalOne
  <2>1. signals' = signals + 1 /\ granted' = granted /\ kind' = "one"
    BY <1>3 DEF One!SignalOne
  <2>2. granted' < signals'
    BY <1>1, <2>1 DEF Unspent
  <2>3. granted' <= signals'
    BY <1>1, <2>1 DEF Unspent
  <2> QED
    BY <1>2, <2>1, <2>2, <2>3 DEF Unspent
<1>4. CASE One!Reset
  BY <1>2, <1>4 DEF One!Reset, Unspent
<1>5. ASSUME NEW t \in Waiters, One!WaitReady(t) PROVE Unspent'
  <2>1. ready /\ kind = "one" /\ granted < signals
    BY <1>5 DEF One!WaitReady, Unspent
  <2>2. ~ready' /\ granted' \in {granted, granted + 1} /\ signals' = signals
    BY <1>5, <2>1 DEF One!WaitReady, One!Leave, One!Takes
  <2>3. granted' <= signals'
    BY <1>1, <2>1, <2>2
  <2> QED
    BY <1>2, <2>2, <2>3 DEF Unspent
<1>6. ASSUME NEW t \in Waiters, One!WaitAsleep(t) \/ One!SpuriousWake(t) PROVE Unspent'
  BY <1>2, <1>6 DEF One!WaitAsleep, One!SpuriousWake, Unspent
<1>7. ASSUME NEW t \in Waiters, One!Resume(t) PROVE Unspent'
  <2>1. CASE ready
    <3>1. pc[t] = "woken" /\ kind = "one" /\ granted < signals
      BY <1>7, <2>1 DEF One!Resume, Unspent
    <3>2. ~ready' /\ granted' \in {granted, granted + 1} /\ signals' = signals
      BY <1>7, <2>1, <3>1 DEF One!Resume, One!Leave, One!Takes, One!Signalled
    <3>3. granted' <= signals'
      BY <1>1, <3>1, <3>2
    <3> QED
      BY <1>2, <3>2, <3>3 DEF Unspent
  <2>2. CASE ~ready
    BY <1>2, <1>7, <2>2 DEF One!Resume, One!Signalled, Unspent
  <2> QED
    BY <2>1, <2>2
<1> QED
  BY <1>3, <1>4, <1>5, <1>6, <1>7 DEF One!Next, One!SignalAll, One!Expire

\* A signal goes away with a wait that found it or was woken, or with the last.
Spent ==
  part = "both" /\ ready /\ ~ready' =>
    \/ Inside' = Inside
    \/ \E t \in Inside \ Inside' : pc[t] = "woken" \/ (pc[t] = "expired" /\ Inside = {t})

\* Every signal and every wait spends it so.
LEMMA SpentStep == ASSUME TypeOK, Next, ready, ~ready', Inside' # Inside
  PROVE  \E t \in Inside \ Inside' : pc[t] = "woken" \/ (pc[t] = "expired" /\ Inside = {t})
<1> USE WaitableAssumption
<1>1. pc \in Places /\ waiting = Cardinality(Inside) /\ IsFiniteSet(Inside)
  <2>1. Inside \subseteq Waiters
    BY DEF Inside
  <2> QED
    BY <2>1, FS_Subset DEF TypeOK, Places
<1>2. PICK t \in Waiters : Resume(t)
  BY DEF Next, SignalOne, SignalAll, Reset, WaitReady, WaitAsleep, SpuriousWake, Expire, Leave, Inside
<1>3. Signalled(t)
  BY <1>2 DEF Resume
<1>4. pc[t] \in {"woken", "expired"} /\ pc' = [pc EXCEPT ![t] = "out"] /\ Leave(waiting - 1, pc[t] = "woken")
  BY <1>2, <1>3 DEF Resume
<1>5. t \in Inside \ Inside'
  BY <1>1, <1>4 DEF Inside, Places
<1>6. CASE pc[t] = "expired"
  <2>1. waiting - 1 = 0
    BY <1>4, <1>6 DEF Leave, Takes
  <2>2. Cardinality(Inside) = 1
    <3>1. Cardinality(Inside) \in Nat
      BY <1>1, FS_CardinalityType
    <3> QED
      BY <1>1, <2>1, <3>1
  <2>3. Inside = {t}
    BY <1>1, <1>5, <2>2, FS_Singleton
  <2> QED
    BY <1>5, <1>6, <2>3
<1> QED
  BY <1>4, <1>5, <1>6

TakenInv == TypeOK /\ (part = "one" => Unspent)

\* No signal is lost or lets two waits return: it goes away with a wait that
\* found it or was woken for it, or with the last one, which timed out.
THEOREM SignalsAreTaken == ThreadSpec => SignalsTaken
<1> DEFINE Step == [WaitableStep \/ ThreadStep \/ SystemStep \/ MutexStep]_<<part, vars, threadVars, systemVars, mutexVars>>
<1>1. ThreadInit => TakenInv
  <2> SUFFICES ASSUME ThreadInit PROVE TakenInv
    OBVIOUS
  <2>1. Init
    BY DEF ThreadInit
  <2>2. Inside = {}
    BY <2>1 DEF Init, Inside
  <2>3. TypeOK
    <3>1. waiting = Cardinality(Inside)
      BY <2>1, <2>2, FS_EmptySet DEF Init
    <3>2. signals \in 0 .. MaxSignals /\ granted \in 0 .. MaxSignals + 1
      BY <2>1, WaitableAssumption DEF Init
    <3> QED
      BY <2>1, <3>1, <3>2 DEF Init, TypeOK
  <2> QED
    BY <2>1, <2>3, WaitableAssumption DEF Init, TakenInv, Unspent
<1>2. TakenInv /\ Step => TakenInv'
  <2> SUFFICES ASSUME TakenInv, Step PROVE TakenInv'
    OBVIOUS
  <2>1. CASE UNCHANGED <<part, vars>>
    <3>1. UNCHANGED <<part, ready, kind, waiting, pc, signals, granted, called>>
      BY <2>1 DEF vars
    <3> QED
      BY <3>1 DEF TakenInv, TypeOK, Inside, Unspent
  <2>2. CASE WaitableStep
    <3>1. TypeOK' /\ part' = part
      BY <2>2, MovesCount, NextMoves, OneMoves, AllMoves DEF WaitableStep, TakenInv
    <3>2. part = "one" => Unspent'
      BY <2>2, UnspentStep DEF WaitableStep, TakenInv
    <3> QED
      BY <3>1, <3>2 DEF TakenInv
  <2> QED
    BY <2>1, <2>2 DEF ThreadStep, SystemStep, MutexStep
<1>3. TakenInv => TypeOK /\ (part = "one" => One!OneWaitPerSignal)
  BY DEF TakenInv, Unspent, One!OneWaitPerSignal
<1>4. TakenInv /\ Step => [Spent]_vars
  <2> SUFFICES ASSUME TakenInv, Step, ~UNCHANGED vars, part = "both", ready, ~ready', Inside' # Inside PROVE Spent
    BY DEF Spent
  <2>1. Next
    BY DEF WaitableStep, ThreadStep, SystemStep, MutexStep
  <2> QED
    BY <2>1, SpentStep DEF TakenInv, Spent
<1> QED
  BY <1>1, <1>2, <1>3, <1>4, PTL DEF ThreadSpec, SignalsTaken, Spent

----------------------------------------------------------------------------
(* async_thread and its task.                                              *)

\* A run that was cancelled, or whose task was halted under it, may have lost
\* its services; none else.
TaskControl ==
  /\ worker \in {"loop", "work", "cancel", "end"} => task = "running" \/ halts
  /\ worker = "cancel" => own /\ cancelled
  /\ ~timers => cancelled

\* How far an abort() or the destructor has come tells what the thread is.
AbortControl ==
  \A c \in Callers :
    /\ at[c] \in {"spin", "destroy"} => cancelled
    /\ at[c] \in {"abort", "abortNoWait", "thread", "threadJoin"} => state # "ready"
    /\ at[c] = "abortNoWait" => early
    /\ at[c] \in {"join", "wait", "joined"} => A!Finished
    /\ at[c] = "joined" => early \/ worker = "ended"

ThreadInv ==
  /\ A!TypeOK /\ TaskControl /\ AbortControl
  /\ A!ServicesThere /\ A!FinishedForReason /\ A!DestroyedQuiet

\* What the thread and its handle agree on is kept.
LEMMA ThreadInvStep == ThreadInv /\ [A!Next]_A!vars => ThreadInv'
<1> SUFFICES ASSUME ThreadInv, [A!Next]_A!vars
             PROVE  ThreadInv'
  OBVIOUS
<1> USE PartsAssumption
    DEF ThreadInv, TaskControl, AbortControl, A!TypeOK, A!ServicesThere, A!FinishedForReason,
        A!DestroyedQuiet, A!Finished, A!WorkerAt, A!Goto, A!Call, A!CallersAssumption
<1>1. CASE A!Entry
  BY <1>1 DEF A!Entry, A!Startable
<1>2. CASE A!RunBegin
  BY <1>2 DEF A!RunBegin
<1>3. CASE A!Loop
  BY <1>3 DEF A!Loop, A!Over
<1>4. CASE A!Worked
  BY <1>4 DEF A!Worked
<1>5. CASE A!HandlerHalts
  BY <1>5 DEF A!HandlerHalts
<1>6. CASE A!HandlerCancels
  BY <1>6 DEF A!HandlerCancels
<1>7. CASE A!HandlerCancelled
  BY <1>7 DEF A!HandlerCancelled
<1>8. CASE A!RunEnd
  BY <1>8 DEF A!RunEnd
<1>9. CASE A!EntryEnd
  BY <1>9 DEF A!EntryEnd
<1>10. ASSUME NEW c \in Callers, A!Start(c) PROVE ThreadInv'
  BY <1>10 DEF A!Start, A!Destroying
<1>11. ASSUME NEW c \in Callers, A!Halt(c) PROVE ThreadInv'
  BY <1>11 DEF A!Halt
<1>12. ASSUME NEW c \in Callers, A!Cancel(c) PROVE ThreadInv'
  BY <1>12 DEF A!Cancel
<1>13. ASSUME NEW c \in Callers, A!Destroy(c) PROVE ThreadInv'
  BY <1>13 DEF A!Destroy
<1>14. ASSUME NEW c \in Callers, NEW wait \in BOOLEAN, A!Abort(c, wait) PROVE ThreadInv'
  BY <1>14 DEF A!Abort
<1>15. ASSUME NEW c \in Callers, A!AbortSet(c) PROVE ThreadInv'
  BY <1>15 DEF A!AbortSet
<1>16. ASSUME NEW c \in Callers, A!AbortJoin(c) PROVE ThreadInv'
  BY <1>16 DEF A!AbortJoin
<1>17. ASSUME NEW c \in Callers, A!AbortWaited(c) PROVE ThreadInv'
  BY <1>17 DEF A!AbortWaited
<1>26. ASSUME NEW c \in Callers, A!JoinThrows(c) PROVE ThreadInv'
  BY <1>26 DEF A!JoinThrows
<1>18. ASSUME NEW c \in Callers, A!AbortEnd(c) PROVE ThreadInv'
  BY <1>18 DEF A!AbortEnd
<1>19. ASSUME NEW c \in Callers, A!CancelEnd(c) PROVE ThreadInv'
  BY <1>19 DEF A!CancelEnd, A!Quiet
<1>20. ASSUME NEW c \in Callers, A!DestroyQuiet(c) PROVE ThreadInv'
  BY <1>20 DEF A!DestroyQuiet, A!Quiet
<1>21. ASSUME NEW c \in Callers, A!DestroyThread(c) PROVE ThreadInv'
  BY <1>21 DEF A!DestroyThread
<1>22. ASSUME NEW c \in Callers, A!DestroyAbort(c) PROVE ThreadInv'
  BY <1>22 DEF A!DestroyAbort
<1>23. ASSUME NEW c \in Callers, A!DestroyJoin(c) PROVE ThreadInv'
  BY <1>23 DEF A!DestroyJoin
<1>24. ASSUME NEW c \in Callers, A!DestroyEnd(c) PROVE ThreadInv'
  BY <1>24 DEF A!DestroyEnd, A!Joinable
<1>25. CASE UNCHANGED A!vars
  BY <1>25 DEF A!vars
<1> QED BY <1>1, <1>2, <1>3, <1>4, <1>5, <1>6, <1>7, <1>8, <1>9, <1>10, <1>11, <1>12, <1>13, <1>14,
           <1>15, <1>16, <1>17, <1>18, <1>19, <1>20, <1>21, <1>22, <1>23, <1>24, <1>25, <1>26
        DEF A!Next, A!WorkerNext, A!Finish

\* A task calls the services that are there, and async_thread says that it has
\* finished, and its destructor ends, only when its work has; two callers that
\* join the thread at once are on their own.
THEOREM ThreadIsSafe == A!Spec => []ThreadSafe
<1>1. A!Init => ThreadInv
  <2> SUFFICES ASSUME A!Init PROVE ThreadInv
    OBVIOUS
  <2>1. A!TypeOK
    <3>1. calls \in 0 .. MaxCalls
      BY PartsAssumption DEF A!Init, A!CallersAssumption
    <3> QED BY <3>1 DEF A!Init, A!TypeOK
  <2> QED BY <2>1 DEF A!Init, ThreadInv, TaskControl, AbortControl, A!ServicesThere,
                      A!FinishedForReason, A!DestroyedQuiet, A!Finished
<1>2. ThreadInv => ThreadSafe
  BY DEF ThreadInv, ThreadSafe
<1> QED BY <1>1, <1>2, ThreadInvStep, PTL DEF A!Spec

----------------------------------------------------------------------------
(* The pausing of a system.                                                *)

\* Counting up and down by one does not wrap below the width.
LEMMA ModSmall ==
  ASSUME NEW n \in Nat, NEW m \in Nat, m < n
  PROVE  m % n = m /\ (m + n) % n = m /\ (m > 0 => (m + n - 1) % n = m - 1)
OBVIOUS

\* A count has its width.
LEMMA ModIn ==
  ASSUME NEW n \in Nat \ {0}, NEW m \in Nat
  PROVE  m % n \in 0 .. n - 1
OBVIOUS

\* SystemPause counts with the library's own operator.
LEMMA SameCardinality == \A X : S!Cardinality(X) = Cardinality(X)
BY DEF S!Cardinality, Cardinality

\* What the assumptions say of the constants.
LEMMA SystemConstants ==
  IsFiniteSet(Callers) /\ MaxCalls \in Nat /\ Width \in Nat /\ MaxCalls + 1 < Width
<1>1. \A X : S!IsFiniteSet(X) = IsFiniteSet(X)
  BY DEF S!IsFiniteSet, IsFiniteSet
<1> QED BY <1>1, PartsAssumption DEF S!SystemAssumption

\* What is still paused: by those who have yet to resume it, and by all.
Owed == Cardinality(paysBack) + (IF all THEN 1 ELSE 0)

\* A pause that is owed was a call.
CallsInv ==
  /\ IsFiniteSet(paysBack) /\ Cardinality(paysBack) <= pauserCalls
  /\ \A p \in paysBack : p[2] <= pauserCalls

\* One controller at a time is in pause_all_systems() or resume_all_systems(),
\* and it finds the systems as it found them when it looked.
AllInv ==
  \A c \in Callers :
    /\ pauserAt[c] = "pauseAll" => ~all
    /\ pauserAt[c] = "resumeAll" => all
    /\ pauserAt[c] \in S!InAll => \A d \in Callers : pauserAt[d] \in S!InAll => d = c

CountInv == CallsInv /\ (~overlapped => AllInv /\ paused = Owed)

\* Steps that leave alone who pauses.
Still ==
  /\ UNCHANGED <<paused, all, paysBack, pauserCalls, overlapped>>
  /\ \A c \in Callers : pauserAt'[c] \in S!InAll \cup {"look"} => pauserAt'[c] = pauserAt[c]

Controlling ==
  \E c \in Callers : S!Pause(c) \/ S!Resume(c) \/ S!TestAll(c) \/ S!PauseAll(c) \/ S!ResumeAll(c)

\* A step is one of a caller of pause(), resume() or terminate(), or changes no counts.
LEMMA StillOrControlling ==
  ASSUME S!TypeOK, [S!Next]_S!vars
  PROVE  Still \/ Controlling
<1> USE DEF Still, S!TypeOK, S!WorkerOnly, S!control, S!InAll
<1>1. ASSUME S!WorkerNext PROVE Still
  BY <1>1 DEF S!WorkerNext, S!Apply, S!TimedWake, S!Test, S!WaitThrows, S!WaitChecked, S!Sleep,
              S!Wake, S!EndWork
<1>2. ASSUME S!TermNext \/ S!Terminate PROVE Still
  BY <1>2 DEF S!TermNext, S!Terminate, S!TermSignal, S!TermCancel, S!TermEnd, S!TermStep
<1>3. ASSUME NEW c \in Callers, S!Look(c) \/ S!Signal(c) PROVE Still
  BY <1>3 DEF S!Look, S!Signal, S!Goto
<1>4. ASSUME UNCHANGED S!vars PROVE Still
  BY <1>4 DEF S!vars
<1> QED BY <1>1, <1>2, <1>3, <1>4 DEF S!Next, S!Finish, Controlling

\* The types are kept.
LEMMA SystemTypeStep == S!TypeOK /\ [S!Next]_S!vars => S!TypeOK'
<1> SUFFICES ASSUME S!TypeOK, [S!Next]_S!vars PROVE S!TypeOK'
  OBVIOUS
<1> USE SystemConstants DEF S!TypeOK, S!WorkerOnly, S!control, S!InAll, S!WorkerStep, S!Goto, S!Late, S!Call
<1>1. S!Incremented \in 0 .. Width - 1 /\ S!Decremented \in 0 .. Width - 1
  BY ModIn DEF S!Incremented, S!Decremented
<1>2. CASE S!WorkerNext
  BY <1>2 DEF S!WorkerNext, S!Apply, S!TimedWake, S!Test, S!WaitThrows, S!WaitChecked, S!Sleep,
              S!Wake, S!EndWork
<1>3. CASE S!TermNext \/ S!Terminate
  BY <1>3 DEF S!TermNext, S!Terminate, S!TermSignal, S!TermCancel, S!TermEnd, S!TermStep
<1>4. ASSUME NEW c \in Callers, S!Look(c) \/ S!Signal(c) PROVE S!TypeOK'
  BY <1>4 DEF S!Look, S!Signal, S!Cleared
<1>5. ASSUME NEW c \in Callers, S!Pause(c) PROVE S!TypeOK'
  BY <1>1, <1>5 DEF S!Pause
<1>6. ASSUME NEW c \in Callers, S!Resume(c) PROVE S!TypeOK'
  BY <1>1, <1>6 DEF S!Resume
<1>7. ASSUME NEW c \in Callers, S!TestAll(c) PROVE S!TypeOK'
  BY <1>7 DEF S!TestAll, S!Overlap
<1>8. ASSUME NEW c \in Callers, S!PauseAll(c) \/ S!ResumeAll(c) PROVE S!TypeOK'
  BY <1>1, <1>8 DEF S!PauseAll, S!ResumeAll, S!ResumedAll
<1>9. CASE UNCHANGED S!vars
  BY <1>9 DEF S!vars
<1> QED BY <1>2, <1>3, <1>4, <1>5, <1>6, <1>7, <1>8, <1>9 DEF S!Next, S!Finish

\* A pause is one more that is owed, and a resume one less.
LEMMA CallsStep ==
  ASSUME S!TypeOK, CallsInv, Controlling
  PROVE  /\ CallsInv'
         /\ \A c \in Callers : S!Pause(c) => Cardinality(paysBack') = Cardinality(paysBack) + 1
         /\ \A c \in Callers : S!Resume(c) => Cardinality(paysBack') = Cardinality(paysBack) - 1
         /\ \A c \in Callers : S!TestAll(c) \/ S!PauseAll(c) \/ S!ResumeAll(c) => paysBack' = paysBack
<1> USE SystemConstants DEF CallsInv
<1>1. pauserCalls \in Nat /\ Cardinality(paysBack) \in Nat
  BY FS_CardinalityType DEF S!TypeOK
<1>2. ASSUME NEW c \in Callers, S!Pause(c)
      PROVE  CallsInv' /\ Cardinality(paysBack') = Cardinality(paysBack) + 1
  <2>1. /\ paysBack' = paysBack \cup {<<c, pauserCalls + 1>>} /\ pauserCalls' = pauserCalls + 1
        /\ <<c, pauserCalls + 1>> \notin paysBack
    BY <1>1, <1>2 DEF S!Pause, S!Call
  <2>2. IsFiniteSet(paysBack') /\ Cardinality(paysBack') = Cardinality(paysBack) + 1
    BY <2>1, FS_AddElement
  <2>3. \A p \in paysBack' : p[2] <= pauserCalls'
    BY <1>1, <2>1 DEF S!TypeOK
  <2> QED BY <1>1, <2>1, <2>2, <2>3
<1>3. ASSUME NEW c \in Callers, S!Resume(c)
      PROVE  CallsInv' /\ Cardinality(paysBack') = Cardinality(paysBack) - 1
  <2>1. PICK p \in paysBack : paysBack' = paysBack \ {p}
    BY <1>3 DEF S!Resume
  <2>2. IsFiniteSet(paysBack') /\ Cardinality(paysBack') = Cardinality(paysBack) - 1
    BY <2>1, FS_RemoveElement
  <2>3. pauserCalls' = pauserCalls
    BY <1>3 DEF S!Resume
  <2> QED BY <1>1, <2>1, <2>2, <2>3
<1>4. ASSUME NEW c \in Callers, S!TestAll(c) \/ S!PauseAll(c) \/ S!ResumeAll(c)
      PROVE  CallsInv' /\ paysBack' = paysBack
  <2>1. paysBack' = paysBack /\ pauserCalls' \in {pauserCalls, pauserCalls + 1}
    BY <1>4 DEF S!TestAll, S!PauseAll, S!ResumeAll, S!Call
  <2>2. \A p \in paysBack : p[2] <= pauserCalls'
    BY <1>1, <2>1 DEF S!TypeOK
  <2> QED BY <1>1, <2>1, <2>2
<1> QED BY <1>2, <1>3, <1>4 DEF Controlling

\* As long as no two are in the calls for all systems the count is exact, and
\* a pause makes it positive.
LEMMA CountStep ==
  ASSUME S!TypeOK, CountInv, [S!Next]_S!vars
  PROVE  CountInv'
<1> USE SystemConstants
<1>1. CASE Still
  <2>1. CallsInv' /\ Owed' = Owed
    BY <1>1 DEF Still, CountInv, CallsInv, Owed
  <2>2. AllInv => AllInv'
    BY <1>1 DEF Still, AllInv, S!InAll
  <2> QED BY <1>1, <2>1, <2>2 DEF Still, CountInv
<1>2. ASSUME Controlling, ~overlapped'
      PROVE  AllInv' /\ paused' = Owed'
  <2>1. ~overlapped
    <3> SUFFICES ASSUME overlapped PROVE overlapped'
      BY <1>2
    <3> QED BY <1>2, Zenon
            DEF Controlling, S!Pause, S!Resume, S!TestAll, S!PauseAll, S!ResumeAll, S!Overlap
  <2>10. AllInv /\ paused = Owed
    BY <2>1, Zenon DEF CountInv
  <2>2. /\ Cardinality(paysBack) \in Nat /\ pauserCalls \in Nat /\ pauserCalls <= MaxCalls
        /\ Cardinality(paysBack) <= pauserCalls
    BY FS_CardinalityType DEF CountInv, CallsInv, S!TypeOK
  <2>3. /\ all => paused = Cardinality(paysBack) + 1
        /\ ~all => paused = Cardinality(paysBack)
    BY <2>2, <2>10 DEF Owed
  <2>4. /\ all' => Owed' = Cardinality(paysBack') + 1
        /\ ~all' => Owed' = Cardinality(paysBack')
    BY <1>2, CallsStep, FS_CardinalityType DEF Owed, CountInv, CallsInv
  <2>5. ASSUME NEW c \in Callers, S!Pause(c)
        PROVE  AllInv' /\ paused' = Owed'
    <3>1. /\ all' = all /\ pauserAt' = pauserAt
          /\ paused' = (paused + 1) % Width /\ pauserCalls < MaxCalls
          /\ Cardinality(paysBack') = Cardinality(paysBack) + 1
      BY <2>5, <1>2, CallsStep DEF S!Pause, S!Incremented, S!Call, CountInv
    <3>2. AllInv'
      BY <2>10, <3>1 DEF AllInv
    <3> QED BY <2>2, <2>3, <2>4, <3>1, <3>2
  <2>6. ASSUME NEW c \in Callers, S!Resume(c)
        PROVE  AllInv' /\ paused' = Owed'
    <3>1. /\ all' = all /\ pauserAt[c] = "idle"
          /\ paused' = (paused + Width - 1) % Width
          /\ Cardinality(paysBack') = Cardinality(paysBack) - 1
      BY <2>6, <1>2, CallsStep DEF S!Resume, S!Decremented, CountInv
    <3>2. \A d \in Callers : pauserAt'[d] = pauserAt[d] \/ pauserAt'[d] \in {"look", "idle"}
      BY <2>6 DEF S!Resume, S!Goto, S!TypeOK
    <3>3. AllInv'
      BY <2>10, <3>1, <3>2 DEF AllInv, S!InAll
    <3>4. Cardinality(paysBack') \in Nat
      BY <2>6, <1>2, CallsStep, FS_CardinalityType DEF CallsInv, CountInv
    <3>5. paused \in Nat /\ paused < Width /\ paused > 0
      BY <2>2, <2>3, <3>1, <3>4
    <3>6. paused' = paused - 1
      BY <3>1, <3>5, ModSmall
    <3> QED BY <2>2, <2>3, <2>4, <3>1, <3>3, <3>6
  <2>7. ASSUME NEW c \in Callers, S!TestAll(c)
        PROVE  AllInv' /\ paused' = Owed'
    <3>1. UNCHANGED <<paused, all, paysBack>> /\ \A d \in Callers : pauserAt[d] \notin S!InAll
      BY <2>7, <1>2 DEF S!TestAll, S!Overlap
    <3>2. \A d \in Callers :
            pauserAt'[d] = IF d = c THEN (IF all THEN "resumeAll" ELSE "pauseAll") ELSE pauserAt[d]
      BY <2>7 DEF S!TestAll, S!Goto, S!TypeOK
    <3> QED BY <2>10, <3>1, <3>2 DEF AllInv, Owed, S!InAll
  <2>8. ASSUME NEW c \in Callers, S!PauseAll(c)
        PROVE  AllInv' /\ paused' = Owed'
    <3>1. /\ ~all /\ all' /\ pauserAt[c] = "pauseAll" /\ paused' = (paused + 1) % Width
          /\ Cardinality(paysBack') = Cardinality(paysBack)
      BY <2>10, <2>8 DEF S!PauseAll, S!Incremented, AllInv
    <3>2. \A d \in Callers : pauserAt'[d] = IF d = c THEN "idle" ELSE pauserAt[d]
      BY <2>8 DEF S!PauseAll, S!Goto, S!TypeOK
    <3>3. AllInv'
      BY <2>10, <3>1, <3>2 DEF AllInv, S!InAll
    <3> QED BY <2>2, <2>3, <2>4, <3>1, <3>3
  <2>9. ASSUME NEW c \in Callers, S!ResumeAll(c)
        PROVE  AllInv' /\ paused' = Owed'
    <3>1. /\ all /\ ~all' /\ pauserAt[c] = "resumeAll" /\ paused' = (paused + Width - 1) % Width
          /\ Cardinality(paysBack') = Cardinality(paysBack)
      BY <2>10, <2>9 DEF S!ResumeAll, S!ResumedAll, S!Decremented, AllInv
    <3>2. \A d \in Callers : pauserAt'[d] = pauserAt[d] \/ pauserAt'[d] \in {"look", "idle"}
      BY <2>9 DEF S!ResumeAll, S!Goto, S!TypeOK
    <3>4. pauserAt'[c] \in {"look", "idle"}
      BY <2>9 DEF S!ResumeAll, S!Goto, S!TypeOK
    <3>3. AllInv'
      BY <2>10, <3>1, <3>2, <3>4 DEF AllInv, S!InAll
    <3> QED BY <2>2, <2>3, <2>4, <3>1, <3>3
  <2> QED BY <1>2, <2>5, <2>6, <2>7, <2>8, <2>9 DEF Controlling
<1>3. CASE Controlling
  BY <1>2, <1>3, CallsStep DEF CountInv
<1> QED BY <1>1, <1>3, StillOrControlling

\* A call that pauses never takes the count to nothing.
LEMMA PauseCounts ==
  ASSUME S!TypeOK, CountInv, [S!Next]_S!vars, NEW c \in Callers, S!Pause(c) \/ S!PauseAll(c), ~overlapped'
  PROVE  paused' # 0
<1>1. CountInv' /\ Controlling
  BY CountStep DEF Controlling
<1>2. paused' = Owed'
  BY <1>1, Zenon DEF CountInv
<1>3. Cardinality(paysBack') \in Nat
  BY <1>1, FS_CardinalityType DEF CountInv, CallsInv
<1>4. ASSUME S!Pause(c) PROVE Cardinality(paysBack') > 0
  <2>1. Cardinality(paysBack) \in Nat /\ Cardinality(paysBack') = Cardinality(paysBack) + 1
    BY <1>1, <1>4, CallsStep, FS_CardinalityType DEF CountInv, CallsInv
  <2> QED BY <2>1
<1>5. ASSUME S!PauseAll(c) PROVE all' = TRUE
  BY <1>5 DEF S!PauseAll
<1>6. all' = TRUE => Owed' = Cardinality(paysBack') + 1
  BY Zenon DEF Owed
<1>7. all' # TRUE => Owed' \in {Cardinality(paysBack') + 1, Cardinality(paysBack') + 0}
  BY Zenon DEF Owed
<1>8. CASE S!Pause(c)
  <2>1. Owed' = Cardinality(paysBack') + 1 \/ Owed' = Cardinality(paysBack') + 0
    BY <1>6, <1>7
  <2> QED BY <1>2, <1>3, <1>4, <1>8, <2>1
<1>9. CASE S!PauseAll(c)
  <2>1. Owed' = Cardinality(paysBack') + 1
    BY <1>5, <1>6, <1>9
  <2> QED BY <1>2, <1>3, <2>1
<1> QED BY <1>8, <1>9

\* Why the system may be asleep: it is paused, or the wake-up was lost, or it
\* is told to end.
Why == paused # 0 \/ missed \/ overlapped \/ term # "no"

OnTheWay(places) == \E c \in Callers : pauserAt[c] \in places

\* The thread enters wait() with iWaiting clear, and for a reason that holds
\* until somebody has looked whether it is waiting; one that ends while paused
\* was paused, or entering wait(), when it was told to.
ReasonInv ==
  /\ systemWorker \in {"wait", "lock"} => ~systemWaiting
  /\ systemWorker \in {"wait", "lock"} => Why \/ OnTheWay({"look"})
  /\ systemWorker = "asleep" /\ systemWaiting => Why \/ OnTheWay({"look", "signal"})

KillInv ==
  /\ term # "no" /\ (paused # 0 \/ systemWorker \in {"wait", "lock"}) => pausedLate
  /\ S!KilledForReason

SystemInv == S!TypeOK /\ CountInv /\ ReasonInv /\ KillInv

\* The system thread does not wait but for a reason.
LEMMA ReasonStep ==
  ASSUME S!TypeOK, CountInv, ReasonInv, [S!Next]_S!vars
  PROVE  ReasonInv'
<1> USE DEF ReasonInv, Why, OnTheWay, S!TypeOK, S!WorkerOnly, S!control, S!WorkerStep, S!Goto
<1>1. CASE S!WorkerNext
  BY <1>1 DEF S!WorkerNext, S!Apply, S!TimedWake, S!Test, S!WaitThrows, S!WaitChecked, S!Sleep,
              S!Wake, S!EndWork, S!MustWait
<1>2. CASE S!TermNext \/ S!Terminate
  BY <1>2 DEF S!TermNext, S!Terminate, S!TermSignal, S!TermCancel, S!TermEnd, S!TermStep
<1>3. ASSUME NEW c \in Callers, S!Look(c) PROVE ReasonInv'
  BY <1>3 DEF S!Look
<1>4. ASSUME NEW c \in Callers, S!Signal(c) PROVE ReasonInv'
  BY <1>4 DEF S!Signal, S!Cleared
<1>5. ASSUME NEW c \in Callers, S!Pause(c) PROVE ReasonInv'
  <2>1. overlapped' \/ paused' # 0
    BY <1>5, PauseCounts
  <2>2. UNCHANGED <<systemWorker, systemWaiting>>
    BY <1>5 DEF S!Pause
  <2> QED BY <2>1, <2>2
<1>6. ASSUME NEW c \in Callers, S!PauseAll(c) PROVE ReasonInv'
  <2>1. overlapped' \/ paused' # 0
    BY <1>6, PauseCounts
  <2>2. UNCHANGED <<systemWorker, systemWaiting>>
    BY <1>6 DEF S!PauseAll
  <2> QED BY <2>1, <2>2
<1>7. ASSUME NEW c \in Callers, S!Resume(c) \/ S!ResumeAll(c) PROVE ReasonInv'
  <2>1. paused' # 0 \/ pauserAt'[c] = "look"
    BY <1>7 DEF S!Resume, S!ResumeAll
  <2>2. UNCHANGED <<systemWorker, systemWaiting>>
    BY <1>7 DEF S!Resume, S!ResumeAll
  <2> QED BY <2>1, <2>2
<1>8. ASSUME NEW c \in Callers, S!TestAll(c) PROVE ReasonInv'
  BY <1>8 DEF S!TestAll, S!Call, S!Overlap
<1>9. CASE UNCHANGED S!vars
  BY <1>9 DEF S!vars
<1> QED BY <1>1, <1>2, <1>3, <1>4, <1>5, <1>6, <1>7, <1>8, <1>9 DEF S!Next, S!Finish

\* Once it is terminated, no pause takes effect but a late one.
LEMMA KillStep ==
  ASSUME S!TypeOK, KillInv, [S!Next]_S!vars
  PROVE  KillInv'
<1> USE DEF KillInv, S!KilledForReason, S!TypeOK, S!WorkerOnly, S!control, S!WorkerStep, S!Late
<1>1. CASE S!WorkerNext
  BY <1>1 DEF S!WorkerNext, S!Apply, S!TimedWake, S!Test, S!WaitThrows, S!WaitChecked, S!Sleep,
              S!Wake, S!EndWork, S!MustWait, S!HaveThread
<1>2. CASE S!TermNext \/ S!Terminate
  BY <1>2 DEF S!TermNext, S!Terminate, S!TermSignal, S!TermCancel, S!TermEnd, S!TermStep
<1>3. ASSUME NEW c \in Callers, S!Look(c) \/ S!Signal(c) \/ S!TestAll(c) PROVE KillInv'
  BY <1>3 DEF S!Look, S!Signal, S!TestAll
<1>4. ASSUME NEW c \in Callers, S!Pause(c) \/ S!PauseAll(c) PROVE KillInv'
  BY <1>4 DEF S!Pause, S!PauseAll
<1>5. ASSUME NEW c \in Callers, S!Resume(c) \/ S!ResumeAll(c) PROVE KillInv'
  BY <1>5 DEF S!Resume, S!ResumeAll
<1>6. CASE UNCHANGED S!vars
  BY <1>6 DEF S!vars
<1> QED BY <1>1, <1>2, <1>3, <1>4, <1>5, <1>6 DEF S!Next, S!Finish

\* A system is paused as often as it is to be resumed, unless calls for all
\* systems overlap; its thread sleeps for a reason, and ends the program only
\* when the system is terminated while it is paused.
THEOREM SystemIsSafe == S!Spec => []SystemSafe
<1>1. S!Init => SystemInv
  <2> SUFFICES ASSUME S!Init PROVE SystemInv
    OBVIOUS
  <2> USE SystemConstants DEF S!Init
  <2>1. Cardinality({}) = 0 /\ IsFiniteSet({})
    BY FS_EmptySet
  <2>2. S!TypeOK
    <3>1. paused \in 0 .. Width - 1 /\ pauserCalls \in 0 .. MaxCalls
      OBVIOUS
    <3> QED BY <3>1 DEF S!TypeOK, S!InAll
  <2>3. Owed = 0
    BY <2>1 DEF Owed
  <2>4. CountInv
    BY <2>1, <2>3 DEF CountInv, CallsInv, AllInv, S!InAll
  <2> QED BY <2>2, <2>4 DEF SystemInv, ReasonInv, KillInv, S!KilledForReason
<1>2. SystemInv /\ [S!Next]_S!vars => SystemInv'
  BY SystemTypeStep, CountStep, ReasonStep, KillStep DEF SystemInv
<1>3. SystemInv => SystemSafe
  <2> SUFFICES ASSUME SystemInv PROVE SystemSafe
    OBVIOUS
  <2>1. S!PauseCount
    BY SameCardinality, Zenon DEF SystemInv, CountInv, Owed, S!PauseCount
  <2>2. S!AsleepForReason
    BY DEF SystemInv, ReasonInv, Why, OnTheWay, S!AsleepForReason
  <2> QED BY <2>1, <2>2 DEF SystemInv, KillInv, SystemSafe
<1> QED BY <1>1, <1>2, <1>3, PTL DEF S!Spec
=============================================================================
