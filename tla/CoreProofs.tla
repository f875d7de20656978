----------------------------- MODULE CoreProofs -----------------------------
(***************************************************************************)
(* Proofs about what the rest of the library is built from, each for any   *)
(* number of threads, objects, pointers, settings: the recursive mutex     *)
(* excludes and implements a recursive lock; an object is counted exactly, *)
(* lives while it is held and is found by its weak pointers; an object     *)
(* that threads share is destroyed once; settings are in the file when     *)
(* they say so; and a gap_vector is a vector, in its iterators and in the  *)
(* objects of its cells too.                                               *)
(***************************************************************************)
EXTENDS MCCore, Sequences, FiniteSetTheorems, SequenceTheorems, WellFoundedInduction, TLAPS

----------------------------------------------------------------------------
\* The recursive mutex.

\* The constructor leaves the mutex free.
LEMMA InitFree == Init => \A t \in Threads : ~Has(t)
<1> SUFFICES ASSUME Init, NEW t \in Threads PROVE ~Has(t)
  OBVIOUS
<1>1. held[t] = 0 /\ pc[t] = "outside"
  BY DEF Init
<1> QED
  BY <1>1 DEF Has

\* Nobody has the mutex at the start.
LEMMA InitMutexInv == Init => MutexInv
<1> SUFFICES ASSUME Init PROVE MutexInv
  OBVIOUS
<1>1. TypeOK
  <2>1. calls \in [Threads -> 0 .. MaxCalls]
    BY MutexAssumption DEF MutexAssumption, Init
  <2>2. held \in [Threads -> Nat] /\ pc \in [Threads -> PC]
    BY DEF Init, PC
  <2> QED
    BY <2>1, <2>2 DEF Init, TypeOK
<1>2. \A t \in Threads : ~Has(t)
  BY InitFree
<1>3. OneHasIt /\ FlagMeansTaken
  BY <1>2 DEF Init, OneHasIt, FlagMeansTaken
<1>4. HolderOwns /\ CountZero
  BY DEF Init, HolderOwns, CountZero
<1>5. OwnerHolds
  BY MutexAssumption DEF MutexAssumption, Init, OwnerHolds
<1> QED
  BY <1>1, <1>3, <1>4, <1>5 DEF MutexInv

\* Every step of lock(), try_lock() and unlock() keeps the types.
LEMMA TypeStep == MutexInv /\ [Next]_vars => TypeOK'
<1> SUFFICES ASSUME MutexInv, [Next]_vars PROVE TypeOK'
  OBVIOUS
<1> USE MutexAssumption DEF MutexAssumption, MutexInv, TypeOK, PC, Goto
<1>1. CASE UNCHANGED vars
  BY <1>1 DEF vars
<1>2. ASSUME NEW t \in Threads, Lock(t) PROVE TypeOK'
  BY <1>2 DEF Lock, Call
<1>3. ASSUME NEW t \in Threads, TryLock(t) PROVE TypeOK'
  BY <1>3 DEF TryLock, Call
<1>4. ASSUME NEW t \in Threads, Unlock(t) PROVE TypeOK'
  BY <1>4 DEF Unlock, HolderOwns
<1>5. ASSUME NEW t \in Threads, Compare(t) PROVE TypeOK'
  BY <1>5 DEF Compare, Reenter
<1>6. ASSUME NEW t \in Threads, Acquire(t) PROVE TypeOK'
  BY <1>6 DEF Acquire, TestAndSet
<1>7. ASSUME NEW t \in Threads, Spin(t) PROVE TypeOK'
  BY <1>7 DEF Spin, TestAndSet
<1>8. ASSUME NEW t \in Threads, Wait(t) PROVE TypeOK'
  BY <1>8 DEF Wait
<1>9. ASSUME NEW t \in Threads, Own(t) PROVE TypeOK'
  BY <1>9 DEF Own, Reenter
<1>10. ASSUME NEW t \in Threads, TryCompare(t) PROVE TypeOK'
  BY <1>10 DEF TryCompare, Reenter
<1>11. ASSUME NEW t \in Threads, TryAcquire(t) PROVE TypeOK'
  BY <1>11 DEF TryAcquire, TestAndSet
<1>12. ASSUME NEW t \in Threads, Disown(t) PROVE TypeOK'
  BY <1>12 DEF Disown
<1>13. ASSUME NEW t \in Threads, Clear(t) PROVE TypeOK'
  BY <1>13 DEF Clear
<1>14. ASSUME NEW t \in Threads, NotifyOne(t) PROVE TypeOK'
  BY <1>14 DEF NotifyOne
<1> QED
  BY <1>1, <1>2, <1>3, <1>4, <1>5, <1>6, <1>7, <1>8, <1>9, <1>10, <1>11,
     <1>12, <1>13, <1>14 DEF Next, Inside

Owning == OneHasIt /\ FlagMeansTaken /\ HolderOwns /\ OwnerHolds /\ CountZero

\* Every step keeps flag, owner and count together.
LEMMA OwningStep == MutexInv /\ [Next]_vars => Owning'
<1> SUFFICES ASSUME MutexInv, [Next]_vars PROVE Owning'
  OBVIOUS
<1> USE DEF MutexInv, Owning, TypeOK, PC, Goto, OneHasIt, FlagMeansTaken,
            HolderOwns, OwnerHolds, CountZero, Has
<1>1. CASE UNCHANGED vars
  BY <1>1 DEF vars
<1>2. ASSUME NEW t \in Threads, Lock(t) PROVE Owning'
  BY <1>2 DEF Lock, Call
<1>3. ASSUME NEW t \in Threads, TryLock(t) PROVE Owning'
  BY <1>3 DEF TryLock, Call
<1>4. ASSUME NEW t \in Threads, Unlock(t) PROVE Owning'
  BY <1>4 DEF Unlock
<1>5. ASSUME NEW t \in Threads, Compare(t) PROVE Owning'
  BY <1>5 DEF Compare, Reenter
<1>6. ASSUME NEW t \in Threads, Acquire(t) PROVE Owning'
  BY <1>6 DEF Acquire, TestAndSet
<1>7. ASSUME NEW t \in Threads, Spin(t) PROVE Owning'
  BY <1>7 DEF Spin, TestAndSet
<1>8. ASSUME NEW t \in Threads, Wait(t) PROVE Owning'
  BY <1>8 DEF Wait
<1>9. ASSUME NEW t \in Threads, Own(t) PROVE Owning'
  BY <1>9 DEF Own, Reenter
<1>10. ASSUME NEW t \in Threads, TryCompare(t) PROVE Owning'
  BY <1>10 DEF TryCompare, Reenter
<1>11. ASSUME NEW t \in Threads, TryAcquire(t) PROVE Owning'
  <2>1. CASE TestAndSet(t)
    BY <1>11, <2>1 DEF TryAcquire, TestAndSet
  <2>2. CASE ~TestAndSet(t)
    BY <1>11, <2>2 DEF TryAcquire
  <2> QED
    BY <2>1, <2>2
<1>12. ASSUME NEW t \in Threads, Disown(t) PROVE Owning'
  BY <1>12, MutexAssumption DEF MutexAssumption, Disown
<1>13. ASSUME NEW t \in Threads, Clear(t) PROVE Owning'
  BY <1>13 DEF Clear
<1>14. ASSUME NEW t \in Threads, NotifyOne(t) PROVE Owning'
  BY <1>14 DEF NotifyOne
<1> QED
  BY <1>1, <1>2, <1>3, <1>4, <1>5, <1>6, <1>7, <1>8, <1>9, <1>10, <1>11,
     <1>12, <1>13, <1>14 DEF Next, Inside

\* The inductive invariant holds throughout.
THEOREM MutexInvariant == Spec => []MutexInv
<1>1. MutexInv /\ [Next]_vars => MutexInv'
  BY TypeStep, OwningStep DEF MutexInv, Owning
<1> QED
  BY InitMutexInv, <1>1, PTL DEF Spec

\* However many threads lock it, and whichever of the three atomics another
\* thread has changed in between, only one has the mutex, and the owner and
\* the count stored in it are those of that thread.
THEOREM MutexExcludes == Spec => []MutualExclusion
<1>1. MutexInv => MutualExclusion
  BY DEF MutexInv, OneHasIt, HolderOwns, MutualExclusion
<1> QED
  BY <1>1, MutexInvariant, PTL

\* The three atomics, and every thread's place and locks, keep their types: in
\* particular iLockCount is never less than 0.
THEOREM MutexTypeCorrect == Spec => []TypeOK
<1>1. MutexInv => TypeOK
  BY DEF MutexInv
<1> QED
  BY <1>1, MutexInvariant, PTL

----------------------------------------------------------------------------
\* The refinement.

\* Who has the mutex, and how often, read off the thread that has it.
LEMMA HolderIs ==
  OneHasIt => \A t \in Threads :
    Has(t) => Holder = t /\ Level = IF held[t] > 0 THEN held[t] ELSE 1
<1> SUFFICES ASSUME OneHasIt, NEW t \in Threads, Has(t)
             PROVE  Holder = t /\ Level = IF held[t] > 0 THEN held[t] ELSE 1
  OBVIOUS
<1>1. Holder = t
  BY DEF Holder, OneHasIt
<1> QED
  BY <1>1, MutexAssumption DEF MutexAssumption, Level

\* When no thread has the mutex the abstract lock is free.
LEMMA NobodyHas ==
  (\A t \in Threads : ~Has(t)) => Holder = Nobody /\ Level = 0
BY DEF Holder, Level

\* A step that changes neither who has the mutex nor how often stutters.
LEMMA SameHolder ==
  ASSUME OneHasIt, OneHasIt',
         \A t \in Threads : Has(t)' <=> Has(t),
         \A t \in Threads : Has(t) =>
           (IF held'[t] > 0 THEN held'[t] ELSE 1)
             = (IF held[t] > 0 THEN held[t] ELSE 1)
  PROVE  UNCHANGED Lck!vars
<1>0. /\ OneHasIt' => \A t \in Threads : Has(t)' =>
           Holder' = t /\ Level' = IF held'[t] > 0 THEN held'[t] ELSE 1
      /\ (\A t \in Threads : ~Has(t)') => Holder' = Nobody /\ Level' = 0
  <2>1. (OneHasIt => \A t \in Threads : Has(t) =>
           Holder = t /\ Level = IF held[t] > 0 THEN held[t] ELSE 1)'
    BY HolderIs, PTL
  <2>2. ((\A t \in Threads : ~Has(t)) => Holder = Nobody /\ Level = 0)'
    BY NobodyHas, PTL
  <2> QED
    BY <2>1, <2>2
<1>1. CASE \E t \in Threads : Has(t)
  <2> PICK t \in Threads : Has(t)
    BY <1>1
  <2>1. Holder = t /\ Level = IF held[t] > 0 THEN held[t] ELSE 1
    BY HolderIs
  <2>2. Holder' = t /\ Level' = IF held'[t] > 0 THEN held'[t] ELSE 1
    BY <1>0
  <2> QED
    BY <2>1, <2>2 DEF Lck!vars
<1>2. CASE \A t \in Threads : ~Has(t)
  BY <1>0, <1>2, NobodyHas DEF Lck!vars
<1> QED
  BY <1>1, <1>2

\* Every step of the mutex is a lock, an unlock or nothing to the abstract
\* one: it is locked by test_and_set or by the shortcut, and unlocked by the
\* decrement of the count, the last time by clear().
LEMMA RefinesStep ==
  MutexInv /\ MutexInv' /\ [Next]_vars => [Lck!Next]_Lck!vars
<1> SUFFICES ASSUME MutexInv, MutexInv', [Next]_vars
             PROVE  [Lck!Next]_Lck!vars
  OBVIOUS
<1> USE DEF MutexInv, TypeOK, Goto
<1>1. (OneHasIt /\ OneHasIt')
  OBVIOUS
<1>0. /\ \A t \in Threads : Has(t)' =>
           Holder' = t /\ Level' = IF held'[t] > 0 THEN held'[t] ELSE 1
      /\ (\A t \in Threads : ~Has(t)') => Holder' = Nobody /\ Level' = 0
  <2>1. (OneHasIt => \A t \in Threads : Has(t) =>
           Holder = t /\ Level = IF held[t] > 0 THEN held[t] ELSE 1)'
    BY HolderIs, PTL
  <2>2. ((\A t \in Threads : ~Has(t)) => Holder = Nobody /\ Level = 0)'
    BY NobodyHas, PTL
  <2> QED
    BY <1>1, <2>1, <2>2
<1>2. CASE UNCHANGED vars
  BY <1>1, <1>2, SameHolder DEF vars, Has
<1>3. ASSUME NEW t \in Threads, Lock(t) PROVE UNCHANGED Lck!vars
  BY <1>1, <1>3, SameHolder DEF Lock, Call, Has
<1>4. ASSUME NEW t \in Threads, TryLock(t) PROVE UNCHANGED Lck!vars
  BY <1>1, <1>4, SameHolder DEF TryLock, Call, Has
<1>5. ASSUME NEW t \in Threads, Unlock(t) PROVE [Lck!Next]_Lck!vars
  <2>1. Has(t) /\ held[t] \in Nat /\ held'[t] = held[t] - 1
    BY <1>5 DEF Unlock, Has
  <2>2. Holder = t /\ Level = held[t]
    BY <1>1, <2>1, <1>5, HolderIs DEF Unlock
  <2>3. Has(t)'
    BY <1>5 DEF Unlock, Has, HolderOwns
  <2>4. Holder' = t /\ Level' = IF held[t] - 1 > 0 THEN held[t] - 1 ELSE 1
    BY <1>0, <2>1, <2>3
  <2>5. CASE held[t] = 1
    BY <2>2, <2>4, <2>5 DEF Lck!vars
  <2>6. CASE held[t] # 1
    <3>1. Lck!Unlock(t)
      BY <1>5, <2>2, <2>4, <2>6 DEF Lck!Unlock, Unlock
    <3> QED
      BY <3>1 DEF Lck!Next
  <2> QED
    BY <2>5, <2>6
<1>6. ASSUME NEW t \in Threads, Compare(t) \/ TryCompare(t)
      PROVE [Lck!Next]_Lck!vars
  <2>1. CASE lockingThread = t
    <3>1. held[t] > 0 /\ held[t] \in Nat /\ held'[t] = held[t] + 1
      BY <1>6, <2>1 DEF Compare, TryCompare, Reenter, OwnerHolds
    <3>2. Has(t) /\ Has(t)'
      BY <3>1 DEF Has
    <3>3. Holder = t /\ Level = held[t]
      BY <1>1, <3>1, <3>2, HolderIs
    <3>4. Holder' = t /\ Level' = held[t] + 1
      BY <1>0, <3>1, <3>2
    <3>5. Lck!Lock(t)
      BY <3>3, <3>4 DEF Lck!Lock
    <3> QED
      BY <3>5 DEF Lck!Next
  <2>2. CASE lockingThread # t
    BY <1>1, <1>6, <2>2, SameHolder DEF Compare, TryCompare, Has
  <2> QED
    BY <2>1, <2>2
<1>7. ASSUME NEW t \in Threads, TestAndSet(t) PROVE [Lck!Next]_Lck!vars
  <2>1. Holder = Nobody /\ Level = 0
    BY <1>7, NobodyHas DEF TestAndSet, FlagMeansTaken
  <2>2. Has(t)' /\ held'[t] = 0
    BY <1>7 DEF TestAndSet, FlagMeansTaken, Has
  <2>3. Holder' = t /\ Level' = 1
    BY <1>0, <2>2
  <2>4. Lck!Lock(t)
    BY <2>1, <2>3 DEF Lck!Lock
  <2> QED
    BY <2>4 DEF Lck!Next
<1>8. ASSUME NEW t \in Threads, Acquire(t) \/ Spin(t) \/ TryAcquire(t),
             ~TestAndSet(t)
      PROVE UNCHANGED Lck!vars
  BY <1>1, <1>8, SameHolder DEF Acquire, Spin, TryAcquire, Has
<1>9. ASSUME NEW t \in Threads, Wait(t) PROVE UNCHANGED Lck!vars
  BY <1>1, <1>9, SameHolder DEF Wait, Has
<1>10. ASSUME NEW t \in Threads, Own(t) PROVE UNCHANGED Lck!vars
  <2>1. held[t] = 0 /\ held'[t] = 1
    BY <1>10 DEF Own, Reenter, HolderOwns
  <2> QED
    BY <1>1, <1>10, <2>1, SameHolder DEF Own, Reenter, Has
<1>11. ASSUME NEW t \in Threads, Disown(t) PROVE UNCHANGED Lck!vars
  BY <1>1, <1>11, SameHolder DEF Disown, Has
<1>12. ASSUME NEW t \in Threads, Clear(t) PROVE [Lck!Next]_Lck!vars
  <2>1. Has(t) /\ held[t] = 0
    BY <1>12 DEF Clear, Has, HolderOwns
  <2>2. Holder = t /\ Level = 1
    BY <1>1, <2>1, HolderIs
  <2>3. \A u \in Threads : ~Has(u)'
    BY <1>12 DEF Clear, FlagMeansTaken
  <2>4. Lck!Unlock(t)
    BY <1>0, <2>2, <2>3 DEF Lck!Unlock
  <2> QED
    BY <2>4 DEF Lck!Next
<1>13. ASSUME NEW t \in Threads, NotifyOne(t) PROVE UNCHANGED Lck!vars
  BY <1>1, <1>13, SameHolder DEF NotifyOne, Has
<1> QED
  BY <1>2, <1>3, <1>4, <1>5, <1>6, <1>7, <1>8, <1>9, <1>10, <1>11, <1>12,
     <1>13 DEF Next, Inside

\* The flag, the owner and the count together are a recursive lock.
THEOREM ImplementsRecursiveLock == Spec => RecursiveLockSpec
<1>1. Init => Lck!Init
  <2> SUFFICES ASSUME Init PROVE Lck!Init
    OBVIOUS
  <2>1. \A t \in Threads : ~Has(t)
    BY InitFree
  <2> QED
    BY <2>1, NobodyHas DEF Lck!Init
<1> QED
  BY <1>1, RefinesStep, MutexInvariant, PTL DEF Spec, RecursiveLockSpec, Lck!Spec

----------------------------------------------------------------------------
\* Reference counting in one thread.

Counting(o) == {p \in Pointers : to[p] = o /\ counted[p]}
Watching(o) == {w \in WeakPointers : weak[w] = o}

\* The references that no pointer counts
Astray(o) == lost[o] - usurped[o]

\* The count is that of the pointers, and of what went astray.
CountInv == \A o \in Objects : count[o] = Cardinality(Counting(o)) + Astray(o)

\* What is released to somebody, or pinned, lives (the first unless it was
\* usurped), and what took a reference while it died does not; what was not made yet is referred to by nothing.
LifeInv ==
  /\ R!AliveWhileHeld
  /\ \A o \in loose : usurped[o] = 0 => life[o] = "alive" /\ count[o] = 0
  /\ \A o \in pinned : life[o] = "alive"
  /\ \A o \in revived : life[o] \in {"dying", "dead"}
  /\ \A o \in Objects : life[o] = "unborn" =>
       count[o] = 0 /\ (\A p \in Pointers : to[p] # o) /\ (\A w \in WeakPointers : weak[w] # o)

\* An object that is not dead has a block if anybody watches it, and one that
\* is not expired; one that is dead has one only as long as somebody watches.
WatchInv ==
  \A o \in Objects :
    /\ weakCount[o] = Cardinality(Watching(o))
    /\ life[o] # "dead" => block[o] \in {"none", "made"}
    /\ life[o] = "dead" => block[o] # "made"
    /\ life[o] = "unborn" => block[o] = "none"
    /\ (\E w \in WeakPointers : weak[w] = o) => block[o] = IF life[o] = "dead" THEN "expired" ELSE "made"
    /\ (\A w \in WeakPointers : weak[w] # o) => block[o] # "expired"

RefsInv == R!TypeOK /\ CountInv /\ LifeInv /\ WatchInv

\* RefPtr counts with the library's own operators.
LEMMA RefsCardinality == \A X : R!Cardinality(X) = Cardinality(X) /\ R!IsFiniteSet(X) = IsFiniteSet(X)
BY DEF R!Cardinality, Cardinality, R!IsFiniteSet, IsFiniteSet

\* What the assumptions say of the constants.
LEMMA RefsConstants ==
  /\ R!Null \notin Objects /\ IsFiniteSet(Pointers) /\ IsFiniteSet(WeakPointers) /\ MaxLost \in Nat
  /\ Cardinality(WeakPointers) \in Nat /\ R!Cardinality(WeakPointers) = Cardinality(WeakPointers)
<1>1. R!Null \notin Objects /\ IsFiniteSet(Pointers) /\ IsFiniteSet(WeakPointers) /\ MaxLost \in Nat
  BY RefsCardinality, PartsAssumption DEF R!RefPtrAssumption
<1> QED BY <1>1, RefsCardinality, FS_CardinalityType

\* A set with one element more, less, or another.
LEMMA Others ==
  ASSUME NEW X, IsFiniteSet(X), NEW x
  PROVE  /\ Cardinality(X) \in Nat
         /\ x \notin X => Cardinality(X \cup {x}) = Cardinality(X) + 1
         /\ x \in X => Cardinality(X \ {x}) = Cardinality(X) - 1 /\ Cardinality(X) > 0
<1>1. Cardinality(X) \in Nat /\ (Cardinality(X) = 0 <=> X = {})
  BY FS_CardinalityType, FS_EmptySet
<1>2. x \notin X => Cardinality(X \cup {x}) = Cardinality(X) + 1
  BY FS_AddElement
<1>3. x \in X => Cardinality(X \ {x}) = Cardinality(X) - 1
  BY FS_RemoveElement
<1> QED BY <1>1, <1>2, <1>3

\* Sets of pointers can be counted.
LEMMA CountingFinite ==
  \A X : (X \subseteq Pointers \/ X \subseteq WeakPointers) => IsFiniteSet(X) /\ Cardinality(X) \in Nat
BY RefsConstants, FS_Subset, FS_CardinalityType

\* What a pointer holds.
LEMMA HeldIs ==
  ASSUME R!TypeOK, CountInv, NEW p \in Pointers, NEW o \in Objects
  PROVE  /\ R!Held(p, o) \in {0, 1} /\ (R!Held(p, o) = 1 <=> p \in Counting(o))
         /\ count[o] \in Int /\ Astray(o) \in Int /\ Cardinality(Counting(o)) \in Nat
         /\ lost[o] \in Nat /\ usurped[o] \in Nat
         /\ usurped[o] = 0 => count[o] \in Nat /\ (p \in Counting(o) => count[o] > 0)
<1>1. R!Held(p, o) \in {0, 1} /\ (R!Held(p, o) = 1 <=> p \in Counting(o))
  BY DEF R!Held, Counting
<1>2. Counting(o) \subseteq Pointers
  BY DEF Counting
<1>3. /\ Cardinality(Counting(o)) \in Nat
      /\ p \in Counting(o) => Cardinality(Counting(o)) > 0
  BY <1>2, CountingFinite, Others
<1>4. count[o] \in Int /\ lost[o] \in Nat /\ usurped[o] \in Nat
  BY RefsConstants DEF R!TypeOK
<1>5. count[o] = Cardinality(Counting(o)) + (lost[o] - usurped[o])
  BY DEF CountInv, Astray
<1>6. usurped[o] = 0 => count[o] \in Nat /\ (p \in Counting(o) => count[o] > 0)
  BY <1>3, <1>4, <1>5
<1> QED BY <1>1, <1>3, <1>4, <1>6 DEF Astray

\* A count goes up by who comes and down by who leaves.
LEMMA Balance ==
  ASSUME NEW c \in Int, NEW m, NEW a \in {0, 1}, NEW h \in {0, 1}, m = c + a - h
  PROVE  /\ h = 1 /\ a = 0 => m = c - 1 /\ m \in Int
         /\ h = 0 /\ a = 1 => m = c + 1 /\ m \in Int
         /\ h = 0 /\ a = 0 => m = c /\ m \in Int
OBVIOUS

\* What watches stays, and nothing dies or is born.
LEMMA WatchStill ==
  ASSUME WatchInv, UNCHANGED <<block, weakCount, weak>>,
         \A o \in Objects : life'[o] = life[o] \/ (life[o] = "alive" /\ life'[o] = "dying")
  PROVE  WatchInv'
<1>1. ASSUME NEW o \in Objects PROVE Watching(o)' = Watching(o)
  BY DEF Watching
<1> QED BY <1>1 DEF WatchInv

\* reset() of a pointer to an object that is there, or to none
LEMMA ResetStep ==
  ASSUME RefsInv, NEW p \in Pointers, NEW now \in Objects \cup {R!Null}, NEW holds \in BOOLEAN,
         R!Reset(p, now, holds), now # R!Null => R!Exists(now), now = R!Null => ~holds
  PROVE  RefsInv'
<1> DEFINE n(o) == count[o] + R!Added(o, now, holds, TRUE) - R!Held(p, o)
<1>1. /\ to[p] # now /\ to' = [to EXCEPT ![p] = now] /\ counted' = [counted EXCEPT ![p] = holds]
      /\ loose' = (IF holds THEN loose \ {now} ELSE loose)
      /\ revived' = (IF now # R!Null /\ life[now] = "dying" THEN revived \cup {now} ELSE revived)
      /\ UNCHANGED <<pinned, block, weakCount, weak, lost, usurped>>
      /\ count' = [o \in Objects |-> n(o)]
      /\ life' = [o \in Objects |->
                    IF R!Held(p, o) = 1 /\ R!Doomed(o, n(o), pinned) THEN "dying" ELSE life[o]]
  BY DEF R!Reset, R!Replace, R!Same, R!weakly
<1> HIDE DEF n
<1>2. R!TypeOK /\ CountInv /\ LifeInv /\ WatchInv
  BY DEF RefsInv
<1>3. ASSUME NEW o \in Objects
      PROVE  /\ n(o) = IF p \in Counting(o) THEN count[o] - 1
                       ELSE IF o = now /\ holds THEN count[o] + 1 ELSE count[o]
             /\ n(o) \in Int
  <2>1. /\ R!Held(p, o) \in {0, 1} /\ (R!Held(p, o) = 1 <=> p \in Counting(o))
        /\ count[o] \in Int
    BY <1>2, HeldIs
  <2>2. R!Added(o, now, holds, TRUE) = IF o = now /\ holds THEN 1 ELSE 0
    BY DEF R!Added
  <2>3. p \in Counting(o) => o # now
    BY <1>1 DEF Counting
  <2>4. n(o) = count[o] + R!Added(o, now, holds, TRUE) - R!Held(p, o)
    BY DEF n
  <2>8. R!Added(o, now, holds, TRUE) \in {0, 1}
    BY <2>2
  <2>5. CASE p \in Counting(o)
    <3>1. R!Held(p, o) = 1 /\ R!Added(o, now, holds, TRUE) = 0
      BY <2>1, <2>2, <2>3, <2>5
    <3>2. n(o) = count[o] - 1 /\ n(o) \in Int
      BY <2>1, <2>4, <2>8, <3>1, Balance, Zenon
    <3> QED BY <2>5, <3>2
  <2>6. CASE p \notin Counting(o) /\ o = now /\ holds
    <3>1. R!Held(p, o) = 0 /\ R!Added(o, now, holds, TRUE) = 1
      BY <2>1, <2>2, <2>6
    <3>2. n(o) = count[o] + 1 /\ n(o) \in Int
      BY <2>1, <2>4, <2>8, <3>1, Balance, Zenon
    <3> QED BY <2>6, <3>2
  <2>7. CASE p \notin Counting(o) /\ ~(o = now /\ holds)
    <3>1. R!Held(p, o) = 0 /\ R!Added(o, now, holds, TRUE) = 0
      BY <2>1, <2>2, <2>7
    <3>2. n(o) = count[o] /\ n(o) \in Int
      BY <2>1, <2>4, <2>8, <3>1, Balance, Zenon
    <3> QED BY <2>7, <3>2
  <2> QED BY <2>5, <2>6, <2>7
<1>4. ASSUME NEW o \in Objects
      PROVE  Counting(o)' = IF p \in Counting(o) THEN Counting(o) \ {p}
                            ELSE IF o = now /\ holds THEN Counting(o) \cup {p} ELSE Counting(o)
  <2>1. p \in Counting(o) => o # now
    BY <1>1 DEF Counting
  <2>2. \A q \in Pointers : q # p => to'[q] = to[q] /\ counted'[q] = counted[q]
    BY <1>1, <1>2 DEF R!TypeOK
  <2>3. to'[p] = now /\ counted'[p] = holds
    BY <1>1, <1>2 DEF R!TypeOK
  <2>4. p \notin Counting(o) /\ o # now => p \notin Counting(o)'
    BY <2>3 DEF Counting
  <2> QED BY <2>1, <2>2, <2>3, <2>4 DEF Counting
<1>5. CountInv'
  <2> SUFFICES ASSUME NEW o \in Objects PROVE count'[o] = Cardinality(Counting(o)') + Astray(o)
    BY <1>1 DEF CountInv, Astray
  <2>1. count'[o] = n(o) /\ count[o] = Cardinality(Counting(o)) + Astray(o)
    BY <1>1, <1>2 DEF CountInv
  <2>2. count[o] \in Int /\ Astray(o) \in Int /\ Cardinality(Counting(o)) \in Nat
    BY <1>2, HeldIs
  <2>3. IsFiniteSet(Counting(o))
    BY CountingFinite DEF Counting
  <2>4. CASE p \in Counting(o)
    <3>1. Cardinality(Counting(o)') = Cardinality(Counting(o)) - 1 /\ Cardinality(Counting(o)) \in Nat
      BY <1>4, <2>3, <2>4, Others
    <3>2. n(o) = count[o] - 1
      BY <1>3, <2>4
    <3> QED BY <2>1, <2>2, <3>1, <3>2
  <2>5. CASE p \notin Counting(o) /\ o = now /\ holds
    <3>1. Cardinality(Counting(o)') = Cardinality(Counting(o)) + 1 /\ Cardinality(Counting(o)) \in Nat
      BY <1>4, <2>3, <2>5, Others
    <3>2. n(o) = count[o] + 1
      BY <1>3, <2>5
    <3> QED BY <2>1, <2>2, <3>1, <3>2
  <2>6. CASE p \notin Counting(o) /\ ~(o = now /\ holds)
    <3>1. Counting(o)' = Counting(o) /\ n(o) = count[o]
      BY <1>3, <1>4, <2>6
    <3> QED BY <2>1, <3>1
  <2> QED BY <2>4, <2>5, <2>6
<1>6. R!TypeOK'
  <2>1. count' \in [Objects -> Int]
    BY <1>1, <1>3
  <2>2. life' \in [Objects -> {"unborn", "alive", "dying", "dead"}]
    BY <1>1, <1>2 DEF R!TypeOK
  <2>3. /\ to' \in [Pointers -> Objects \cup {R!Null}] /\ counted' \in [Pointers -> BOOLEAN]
        /\ \A q \in Pointers : to'[q] = R!Null => ~counted'[q]
    BY <1>1, <1>2 DEF R!TypeOK
  <2>4. loose' \subseteq Objects /\ revived' \subseteq Objects
    BY <1>1, <1>2 DEF R!TypeOK
  <2> QED BY <1>1, <1>2, <2>1, <2>2, <2>3, <2>4 DEF R!TypeOK
<1>7. ASSUME NEW o \in Objects
      PROVE  /\ life'[o] = (IF p \in Counting(o) /\ life[o] = "alive" /\ o \notin pinned /\ n(o) <= 0
                            THEN "dying" ELSE life[o])
             /\ count'[o] = n(o)
  <2>1. R!Held(p, o) = 1 <=> p \in Counting(o)
    BY <1>2, HeldIs
  <2> QED BY <1>1, <2>1 DEF R!Doomed
<1>8. ASSUME NEW o \in Objects
      PROVE  /\ p \in Counting(o) => o # now /\ (usurped[o] = 0 => count[o] > 0)
             /\ usurped[o] = 0 => count[o] \in Nat
             /\ life'[o] = life[o] \/ (life[o] = "alive" /\ life'[o] = "dying" /\ o \notin pinned /\ p \in Counting(o))
             /\ (p \in Counting(o) => count'[o] = count[o] - 1)
             /\ (p \notin Counting(o) /\ ~(o = now /\ holds) => count'[o] = count[o])
             /\ (o = now /\ holds /\ usurped[o] = 0 => count'[o] > 0)
  <2>1. p \in Counting(o) => o # now
    BY <1>1 DEF Counting
  <2>2. usurped[o] = 0 => count[o] \in Nat /\ (p \in Counting(o) => count[o] > 0)
    BY <1>2, HeldIs
  <2>3. count'[o] = n(o)
    BY <1>7
  <2>4. /\ (p \in Counting(o) => count'[o] = count[o] - 1)
        /\ (p \notin Counting(o) /\ ~(o = now /\ holds) => count'[o] = count[o])
    BY <1>3, <2>1, <2>3
  <2>5. o = now /\ holds => count'[o] = count[o] + 1
    BY <1>3, <2>1, <2>3
  <2>6. o = now /\ holds /\ usurped[o] = 0 => count'[o] > 0
    BY <2>2, <2>5
  <2> QED BY <1>7, <2>1, <2>2, <2>4, <2>6
<1>9. LifeInv'
  <2>1. \A o \in loose' : usurped'[o] = 0 => life'[o] = "alive" /\ count'[o] = 0
    BY <1>1, <1>2, <1>8 DEF LifeInv, R!TypeOK
  <2>2. \A o \in pinned' : life'[o] = "alive"
    BY <1>1, <1>2, <1>8 DEF LifeInv, R!TypeOK
  <2>3. \A o \in revived' : life'[o] \in {"dying", "dead"}
    BY <1>1, <1>2, <1>8 DEF LifeInv, R!TypeOK
  <2>4. ASSUME NEW o \in Objects, life'[o] = "unborn"
        PROVE  count'[o] = 0 /\ (\A q \in Pointers : to'[q] # o) /\ (\A w \in WeakPointers : weak'[w] # o)
    <3>1. life[o] = "unborn"
      BY <1>8, <2>4
    <3>2. o # now /\ p \notin Counting(o)
      BY <1>2, <3>1, RefsConstants DEF LifeInv, R!Exists, Counting
    <3> QED BY <1>1, <1>2, <1>8, <3>1, <3>2 DEF LifeInv, R!TypeOK
  <2>5. ASSUME NEW o \in Objects \ (revived' \cup R!Usurped')
        PROVE  life'[o] = "alive" <=> count'[o] > 0 \/ (o \in pinned' \cup loose' /\ life'[o] # "unborn")
    <3>1. o \notin revived /\ o \notin R!Usurped /\ usurped[o] = 0
      <4>1. usurped[o] \in Nat
        BY <1>2, HeldIs
      <4> QED BY <1>1, <4>1 DEF R!Usurped
    <3>2. life[o] = "alive" <=> count[o] > 0 \/ (o \in pinned \cup loose /\ life[o] # "unborn")
      BY <1>2, <3>1 DEF LifeInv, R!AliveWhileHeld
    <3>3. CASE o = now /\ holds
      <4>1. life[o] = "alive"
        BY <1>1, <3>3, RefsConstants DEF R!Exists
      <4>2. p \notin Counting(o) /\ count'[o] > 0
        BY <1>8, <3>1, <3>3
      <4>3. life'[o] = life[o]
        BY <1>8, <4>2
      <4> QED BY <4>1, <4>2, <4>3
    <3>4. CASE p \notin Counting(o) /\ ~(o = now /\ holds)
      <4>1. count'[o] = count[o] /\ life'[o] = life[o] /\ (o \in loose' <=> o \in loose) /\ pinned' = pinned
        BY <1>1, <1>8, <3>4
      <4> QED BY <3>2, <4>1
    <3>5. CASE p \in Counting(o)
      <4>1. /\ count[o] > 0 /\ count'[o] = count[o] - 1 /\ count[o] \in Nat /\ o \notin loose
        BY <1>2, <1>8, <3>1, <3>5, HeldIs DEF LifeInv
      <4>2. life[o] = "alive"
        BY <3>2, <4>1
      <4>3. o \notin loose' /\ pinned' = pinned
        BY <1>1, <4>1
      <4>4. life'[o] = IF o \notin pinned /\ count'[o] <= 0 THEN "dying" ELSE "alive"
        BY <1>7, <3>5, <4>2
      <4> QED BY <4>1, <4>3, <4>4
    <3> QED BY <3>3, <3>4, <3>5
  <2> QED BY <2>1, <2>2, <2>3, <2>4, <2>5 DEF LifeInv, R!AliveWhileHeld
<1>10. WatchInv'
  BY <1>1, <1>2, <1>8, WatchStill
<1> QED BY <1>5, <1>6, <1>9, <1>10 DEF RefsInv

\* q gives up what it counts: lost, given to p, or released.
LEMMA LeaveCounting ==
  ASSUME R!TypeOK, NEW q \in Pointers,
         \A p \in Pointers \ {q} : to'[p] = to[p] /\ counted'[p] = counted[p], ~counted'[q]
  PROVE  \A o \in Objects : Counting(o)' = Counting(o) \ {q}
BY DEF Counting

\* A reference that nobody will release
LEMMA LoseStep ==
  ASSUME RefsInv, NEW q \in Pointers, to[q] # R!Null, counted[q] => lost[to[q]] < MaxLost,
         lost' = (IF counted[q] THEN [lost EXCEPT ![to[q]] = @ + 1] ELSE lost),
         to' = [to EXCEPT ![q] = R!Null], counted' = [counted EXCEPT ![q] = FALSE],
         UNCHANGED <<life, count, pinned, block, weakCount, weak, loose, usurped, revived>>
  PROVE  RefsInv'
<1>1. R!TypeOK /\ CountInv /\ LifeInv /\ WatchInv
  BY DEF RefsInv
<1>2. \A o \in Objects : Counting(o)' = Counting(o) \ {q}
  <2>1. ~counted'[q] /\ \A p \in Pointers \ {q} : to'[p] = to[p] /\ counted'[p] = counted[p]
    BY <1>1 DEF R!TypeOK
  <2> QED BY <1>1, <2>1, LeaveCounting
<1>3. to[q] \in Objects
  BY <1>1 DEF R!TypeOK
<1>4. CASE counted[q]
  <2>1. lost' = [lost EXCEPT ![to[q]] = @ + 1] /\ lost[to[q]] < MaxLost /\ lost \in [Objects -> 0 .. MaxLost]
    BY <1>1, <1>4 DEF R!TypeOK
  <2>2. lost' \in [Objects -> 0 .. MaxLost]
    BY <1>3, <2>1, RefsConstants
  <2>3. ASSUME NEW o \in Objects PROVE count'[o] = Cardinality(Counting(o)') + Astray(o)'
    <3>1. /\ count[o] = Cardinality(Counting(o)) + Astray(o) /\ IsFiniteSet(Counting(o)) /\ Astray(o) \in Int
          /\ lost[o] \in Nat /\ usurped[o] \in Nat /\ Cardinality(Counting(o)) \in Nat
          /\ count'[o] = count[o] /\ Counting(o)' = Counting(o) \ {q} /\ (q \in Counting(o) <=> o = to[q])
      BY <1>1, <1>2, <1>4, CountingFinite, HeldIs DEF CountInv, Counting
    <3>2. CASE o = to[q]
      <4>1. Cardinality(Counting(o)') = Cardinality(Counting(o)) - 1 /\ Cardinality(Counting(o)) \in Nat
        BY <3>1, <3>2, Others
      <4>2. Astray(o)' = Astray(o) + 1
        BY <2>1, <3>1, <3>2 DEF Astray
      <4> QED BY <3>1, <4>1, <4>2
    <3>3. CASE o # to[q]
      <4>1. Counting(o)' = Counting(o) /\ Astray(o)' = Astray(o)
        BY <2>1, <3>1, <3>3 DEF Astray
      <4> QED BY <3>1, <4>1
    <3> QED BY <3>2, <3>3
  <2>4. R!TypeOK'
    BY <1>1, <2>2 DEF R!TypeOK
  <2>5. LifeInv' /\ WatchInv'
    <3>1. LifeInv'
      BY <1>1, RefsConstants DEF LifeInv, R!AliveWhileHeld, R!Usurped, R!TypeOK
    <3>2. WatchInv'
      BY <1>1, WatchStill
    <3> QED BY <3>1, <3>2
  <2> QED BY <2>3, <2>4, <2>5 DEF RefsInv, CountInv
<1>5. CASE ~counted[q]
  <2>1. \A o \in Objects : Counting(o)' = Counting(o)
    BY <1>2, <1>5 DEF Counting
  <2>2. CountInv'
    BY <1>1, <1>5, <2>1 DEF CountInv, Astray
  <2>3. R!TypeOK'
    BY <1>1, <1>5 DEF R!TypeOK
  <2>4. LifeInv' /\ WatchInv'
    <3>1. LifeInv'
      BY <1>1, RefsConstants DEF LifeInv, R!AliveWhileHeld, R!Usurped, R!TypeOK
    <3>2. WatchInv'
      BY <1>1, WatchStill
    <3> QED BY <3>1, <3>2
  <2> QED BY <2>2, <2>3, <2>4 DEF RefsInv
<1> QED BY <1>4, <1>5

\* operator=(ref_ptr&&)
LEMMA MoveStep ==
  ASSUME RefsInv, NEW p \in Pointers, NEW q \in Pointers, R!MoveAssign(p, q)
  PROVE  RefsInv'
<1> USE RefsConstants
<1>1. R!TypeOK /\ CountInv /\ LifeInv /\ WatchInv
  BY DEF RefsInv
<1>2. CASE to[p] = to[q]
  BY <1>1, <1>2, LoseStep DEF R!MoveAssign, R!Same, R!weakly
<1>3. CASE to[p] # to[q]
  <2> DEFINE now == to[q]
             holds == counted[q]
             n(o) == count[o] + R!Added(o, now, holds, FALSE) - R!Held(p, o)
  <2>1. /\ p # q /\ now # R!Null
        /\ count' = [o \in Objects |-> n(o)]
        /\ life' = [o \in Objects |->
                      IF R!Held(p, o) = 1 /\ R!Doomed(o, n(o), pinned) THEN "dying" ELSE life[o]]
        /\ to' = [to EXCEPT ![p] = now, ![q] = R!Null]
        /\ counted' = [counted EXCEPT ![p] = holds, ![q] = FALSE]
        /\ UNCHANGED <<lost, pinned, block, weakCount, weak, loose, usurped, revived>>
    BY <1>3 DEF R!MoveAssign, R!Same, R!Replace, R!weakly
  <2>2. now \in Objects /\ holds \in BOOLEAN
    BY <1>1, <2>1 DEF R!TypeOK
  <2>3. ASSUME NEW o \in Objects
        PROVE  /\ (p \in Counting(o) => n(o) = count[o] - 1 /\ o # now)
               /\ (p \notin Counting(o) => n(o) = count[o])
               /\ n(o) \in Int
    <3>1. /\ R!Held(p, o) \in {0, 1} /\ (R!Held(p, o) = 1 <=> p \in Counting(o))
          /\ count[o] \in Int
      BY <1>1, HeldIs
    <3>2. R!Added(o, now, holds, FALSE) = 0
      BY DEF R!Added
    <3>3. p \in Counting(o) => o # now
      BY <1>3 DEF Counting
    <3>4. n(o) = count[o] + R!Added(o, now, holds, FALSE) - R!Held(p, o)
      OBVIOUS
    <3> HIDE DEF n, now, holds
    <3>5. CASE p \in Counting(o)
      BY <3>1, <3>2, <3>3, <3>4, <3>5, Balance, Zenon
    <3>6. CASE p \notin Counting(o)
      <4>1. R!Held(p, o) = 0
        BY <3>1, <3>6
      <4> QED BY <3>1, <3>2, <3>4, <3>6, <4>1, Balance, Zenon
    <3> QED BY <3>5, <3>6
  <2> HIDE DEF n
  <2>4. ASSUME NEW o \in Objects
        PROVE  Counting(o)' = (Counting(o) \ {p, q}) \cup (IF q \in Counting(o) THEN {p} ELSE {})
    <3>1. \A r \in Pointers : r # p /\ r # q => to'[r] = to[r] /\ counted'[r] = counted[r]
      BY <1>1, <2>1 DEF R!TypeOK
    <3>2. to'[p] = now /\ counted'[p] = holds /\ ~counted'[q]
      BY <1>1, <2>1 DEF R!TypeOK
    <3>3. q \in Counting(o) <=> o = now /\ holds
      BY DEF Counting
    <3>4. p \in Counting(o)' <=> q \in Counting(o)
      BY <3>2, <3>3 DEF Counting
    <3>5. q \notin Counting(o)'
      BY <3>2 DEF Counting
    <3>6. \A r \in Pointers \ {p, q} : r \in Counting(o)' <=> r \in Counting(o)
      BY <3>1 DEF Counting
    <3>7. Counting(o)' \subseteq Pointers /\ Counting(o) \subseteq Pointers
      BY DEF Counting
    <3> QED BY <3>4, <3>5, <3>6, <3>7
  <2>5. ASSUME NEW o \in Objects PROVE count'[o] = Cardinality(Counting(o)') + Astray(o)'
    <3>1. /\ count[o] = Cardinality(Counting(o)) + Astray(o) /\ IsFiniteSet(Counting(o)) /\ Astray(o) \in Int
          /\ count'[o] = n(o) /\ Astray(o)' = Astray(o) /\ Cardinality(Counting(o)) \in Nat
      <4>1. /\ count[o] = Cardinality(Counting(o)) + Astray(o) /\ Astray(o) \in Int
            /\ Cardinality(Counting(o)) \in Nat
        BY <1>1, HeldIs DEF CountInv
      <4>2. IsFiniteSet(Counting(o))
        BY CountingFinite DEF Counting
      <4>3. Astray(o)' = Astray(o)
        BY <2>1 DEF Astray
      <4> QED BY <2>1, <4>1, <4>2, <4>3
    <3>2. CASE p \in Counting(o)
      <4>1. q \notin Counting(o)
        BY <1>3, <3>2 DEF Counting
      <4>2. Counting(o)' = Counting(o) \ {p}
        BY <2>4, <4>1
      <4>3. Cardinality(Counting(o)') = Cardinality(Counting(o)) - 1
        BY <3>1, <3>2, <4>2, Others
      <4>4. n(o) = count[o] - 1
        BY <2>3, <3>2
      <4> QED BY <3>1, <4>3, <4>4
    <3>3. CASE p \notin Counting(o) /\ q \in Counting(o)
      <4>1. Counting(o)' = (Counting(o) \ {q}) \cup {p} /\ IsFiniteSet(Counting(o) \ {q})
        BY <2>4, <3>3, CountingFinite DEF Counting
      <4>2. /\ Cardinality(Counting(o) \ {q}) = Cardinality(Counting(o)) - 1
            /\ Cardinality(Counting(o)') = Cardinality(Counting(o) \ {q}) + 1
        BY <3>1, <3>3, <4>1, Others
      <4>3. n(o) = count[o]
        BY <2>3, <3>3
      <4> QED BY <3>1, <4>2, <4>3
    <3>4. CASE p \notin Counting(o) /\ q \notin Counting(o)
      <4>1. Counting(o)' = Counting(o) /\ n(o) = count[o]
        BY <2>3, <2>4, <3>4
      <4> QED BY <3>1, <4>1
    <3> QED BY <3>2, <3>3, <3>4
  <2>6. ASSUME NEW o \in Objects
        PROVE  /\ life'[o] = (IF p \in Counting(o) /\ life[o] = "alive" /\ o \notin pinned /\ n(o) <= 0
                              THEN "dying" ELSE life[o])
               /\ count'[o] = n(o)
               /\ usurped[o] = 0 =>
                    count[o] \in Nat /\ (p \in Counting(o) => count[o] > 0 /\ o \notin loose)
    <3>1. /\ R!Held(p, o) = 1 <=> p \in Counting(o)
          /\ usurped[o] = 0 => count[o] \in Nat /\ (p \in Counting(o) => count[o] > 0)
      BY <1>1, HeldIs
    <3>2. usurped[o] = 0 /\ p \in Counting(o) => o \notin loose
      BY <1>1, <3>1 DEF LifeInv
    <3> QED BY <2>1, <3>1, <3>2 DEF R!Doomed
  <2>7. R!TypeOK'
    <3>1. count' \in [Objects -> Int] /\ life' \in [Objects -> {"unborn", "alive", "dying", "dead"}]
      BY <1>1, <2>1, <2>3 DEF R!TypeOK
    <3>2. /\ to' \in [Pointers -> Objects \cup {R!Null}] /\ counted' \in [Pointers -> BOOLEAN]
          /\ \A r \in Pointers : to'[r] = R!Null => ~counted'[r]
      BY <1>1, <2>1 DEF R!TypeOK
    <3> QED BY <1>1, <2>1, <3>1, <3>2 DEF R!TypeOK
  <2>8. LifeInv'
    <3>1. /\ \A o \in loose' : usurped'[o] = 0 => life'[o] = "alive" /\ count'[o] = 0
          /\ \A o \in pinned' : life'[o] = "alive"
          /\ \A o \in revived' : life'[o] \in {"dying", "dead"}
      BY <1>1, <2>1, <2>3, <2>6 DEF LifeInv, R!TypeOK
    <3>2. ASSUME NEW o \in Objects, life'[o] = "unborn"
          PROVE  count'[o] = 0 /\ (\A r \in Pointers : to'[r] # o) /\ (\A w \in WeakPointers : weak'[w] # o)
      <4>1. life[o] = "unborn"
        BY <2>6, <3>2
      <4>2. o # now /\ p \notin Counting(o)
        BY <1>1, <4>1 DEF LifeInv, Counting
      <4>3. \A r \in Pointers : to'[r] # o
        BY <1>1, <2>1, <4>1, <4>2 DEF LifeInv, R!TypeOK
      <4> QED BY <1>1, <2>1, <2>3, <2>6, <4>1, <4>2, <4>3 DEF LifeInv
    <3>3. ASSUME NEW o \in Objects \ (revived' \cup R!Usurped')
          PROVE  life'[o] = "alive" <=> count'[o] > 0 \/ (o \in pinned' \cup loose' /\ life'[o] # "unborn")
      <4>4. usurped[o] = 0 /\ o \notin R!Usurped
        <5>1. usurped[o] \in Nat
          BY <1>1, HeldIs
        <5> QED BY <2>1, <5>1 DEF R!Usurped
      <4>1. life[o] = "alive" <=> count[o] > 0 \/ (o \in pinned \cup loose /\ life[o] # "unborn")
        BY <1>1, <2>1, <4>4 DEF LifeInv, R!AliveWhileHeld
      <4>2. CASE p \notin Counting(o)
        <5>1. count'[o] = count[o] /\ life'[o] = life[o]
          BY <2>3, <2>6, <4>2
        <5> QED BY <2>1, <4>1, <5>1
      <4>3. CASE p \in Counting(o)
        <5>1. count[o] > 0 /\ count'[o] = count[o] - 1 /\ count[o] \in Nat /\ o \notin loose /\ life[o] = "alive"
          BY <2>3, <2>6, <4>1, <4>3, <4>4
        <5>2. life'[o] = IF o \notin pinned /\ count'[o] <= 0 THEN "dying" ELSE "alive"
          BY <2>6, <4>3, <5>1
        <5> QED BY <2>1, <5>1, <5>2
      <4> QED BY <4>2, <4>3
    <3> QED BY <3>1, <3>2, <3>3 DEF LifeInv, R!AliveWhileHeld
  <2>9. WatchInv'
    BY <1>1, <2>1, <2>6, WatchStill
  <2> QED BY <2>5, <2>7, <2>8, <2>9 DEF RefsInv, CountInv
<1> QED BY <1>2, <1>3

\* make_ref()
LEMMA MakeStep ==
  ASSUME RefsInv, NEW p \in Pointers, NEW o \in Objects, R!Make(p, o)
  PROVE  RefsInv'
<1> USE RefsConstants DEF R!Make, R!weakly
<1>1. R!TypeOK /\ CountInv /\ LifeInv /\ WatchInv
  BY DEF RefsInv
<1>2. count[o] = 0 /\ Counting(o) = {} /\ Astray(o) \in Int /\ count[o] = Cardinality(Counting(o)) + Astray(o)
  BY <1>1, HeldIs DEF LifeInv, Counting, CountInv
<1>3. Astray(o) = 0
  BY <1>2, FS_EmptySet
<1>4. ASSUME NEW x \in Objects PROVE Counting(x)' = IF x = o THEN {p} ELSE Counting(x)
  <2>1. \A q \in Pointers : q # p => to'[q] = to[q] /\ counted'[q] = counted[q]
    BY <1>1 DEF R!TypeOK
  <2>2. to'[p] = o /\ counted'[p] /\ to[p] = R!Null
    BY <1>1 DEF R!TypeOK
  <2> QED BY <1>2, <2>1, <2>2 DEF Counting
<1>5. CountInv'
  <2>1. /\ count' = [count EXCEPT ![o] = 1] /\ Cardinality({p}) = 1
        /\ \A x \in Objects : Astray(x)' = Astray(x)
    BY FS_Singleton DEF Astray
  <2>2. ASSUME NEW x \in Objects PROVE count'[x] = Cardinality(Counting(x)') + Astray(x)'
    <3>1. CASE x = o
      <4>1. count'[x] = 1 /\ Astray(x)' = 0
        BY <1>1, <1>3, <2>1, <3>1 DEF R!TypeOK
      <4>2. Cardinality(Counting(x)') = 1
        BY <1>4, <2>1, <3>1
      <4> QED BY <4>1, <4>2
    <3>2. CASE x # o
      BY <1>1, <1>4, <2>1, <3>2 DEF R!TypeOK, CountInv
    <3> QED BY <3>1, <3>2
  <2> QED BY <2>2 DEF CountInv
<1>6. R!TypeOK'
  BY <1>1 DEF R!TypeOK
<1>7. LifeInv'
  <2>1. /\ life' = [life EXCEPT ![o] = "alive"] /\ count' = [count EXCEPT ![o] = 1] /\ life[o] = "unborn"
        /\ UNCHANGED <<pinned, loose, usurped, revived, weak>> /\ to' = [to EXCEPT ![p] = o]
    OBVIOUS
  <2>2. o \notin revived /\ (usurped[o] = 0 => o \notin loose)
    BY <1>1, <2>1 DEF LifeInv
  <2> QED BY <1>1, <2>1, <2>2 DEF LifeInv, R!AliveWhileHeld, R!Usurped, R!TypeOK
<1>8. WatchInv'
  <2>1. \A x \in Objects : Watching(x)' = Watching(x)
    BY DEF Watching
  <2>2. life[o] = "unborn" /\ life' = [life EXCEPT ![o] = "alive"] /\ UNCHANGED <<block, weak, weakCount>>
    OBVIOUS
  <2> QED BY <1>1, <2>1, <2>2 DEF WatchInv, LifeInv, R!TypeOK
<1> QED BY <1>5, <1>6, <1>7, <1>8 DEF RefsInv

\* release(), by the pointer that counts or by another one
LEMMA ReleaseStep ==
  ASSUME RefsInv, NEW p \in Pointers, R!Release(p)
  PROVE  RefsInv'
<1> USE RefsConstants DEF R!Release, R!weakly
<1> DEFINE o == to[p]
<1>1. R!TypeOK /\ CountInv /\ LifeInv /\ WatchInv
  BY DEF RefsInv
<1>2. /\ o \in Objects /\ life[o] = "alive" /\ count[o] = 1 /\ count' = [count EXCEPT ![o] = 0]
      /\ lost' = lost /\ loose' = loose \cup {o} /\ UNCHANGED <<life, pinned, revived, weak>>
      /\ usurped' = (IF counted[p] THEN usurped ELSE [usurped EXCEPT ![o] = @ + 1])
      /\ ~counted[p] => usurped[o] < MaxLost
      /\ to' = [to EXCEPT ![p] = R!Null] /\ counted' = [counted EXCEPT ![p] = FALSE]
  BY <1>1 DEF R!TypeOK
<1> HIDE DEF o
<1>3. \A x \in Objects : Counting(x)' = Counting(x) \ {p}
  <2>1. ~counted'[p] /\ \A q \in Pointers \ {p} : to'[q] = to[q] /\ counted'[q] = counted[q]
    BY <1>1, <1>2 DEF R!TypeOK
  <2> QED BY <1>1, <2>1, LeaveCounting
<1>8. \A x \in Objects : p \in Counting(x) <=> x = o /\ counted[p]
  BY DEF Counting, o
<1>4. CountInv'
  <2> SUFFICES ASSUME NEW x \in Objects PROVE count'[x] = Cardinality(Counting(x)') + Astray(x)'
    BY DEF CountInv
  <2>1. /\ count[x] = Cardinality(Counting(x)) + Astray(x) /\ IsFiniteSet(Counting(x))
        /\ Astray(x) \in Int /\ Cardinality(Counting(x)) \in Nat /\ lost[x] \in Nat /\ usurped[x] \in Nat
    <3>1. count[x] = Cardinality(Counting(x)) + Astray(x)
      BY <1>1 DEF CountInv
    <3>2. IsFiniteSet(Counting(x))
      BY CountingFinite DEF Counting
    <3> QED BY <1>1, <3>1, <3>2, HeldIs
  <2>2. CASE x = o /\ counted[p]
    <3>1. Cardinality(Counting(x)') = Cardinality(Counting(x)) - 1
      BY <1>3, <1>8, <2>1, <2>2, Others
    <3>2. count'[x] = 0 /\ count[x] = 1 /\ Astray(x)' = Astray(x)
      BY <1>1, <1>2, <2>2 DEF R!TypeOK, Astray
    <3> QED BY <2>1, <3>1, <3>2
  <2>3. CASE x = o /\ ~counted[p]
    <3>1. Counting(x)' = Counting(x)
      BY <1>3, <1>8, <2>3
    <3>2. count'[x] = 0 /\ count[x] = 1 /\ usurped'[x] = usurped[x] + 1 /\ lost'[x] = lost[x]
      BY <1>1, <1>2, <2>3 DEF R!TypeOK
    <3>3. Astray(x)' = Astray(x) - 1
      BY <2>1, <3>2 DEF Astray
    <3> QED BY <2>1, <3>1, <3>2, <3>3
  <2>4. CASE x # o
    <3>1. Counting(x)' = Counting(x)
      BY <1>3, <1>8, <2>4
    <3>2. count'[x] = count[x] /\ Astray(x)' = Astray(x)
      BY <1>1, <1>2, <2>4 DEF R!TypeOK, Astray
    <3> QED BY <2>1, <3>1, <3>2
  <2> QED BY <2>2, <2>3, <2>4
<1>5. R!TypeOK'
  <2>1. usurped' \in [Objects -> 0 .. MaxLost]
    BY <1>1, <1>2 DEF R!TypeOK
  <2> QED BY <1>1, <1>2, <2>1 DEF R!TypeOK
<1>6. LifeInv'
  <2>1. \A x \in Objects : usurped[x] \in Nat /\ usurped'[x] \in Nat
    BY <1>1, <1>5, RefsConstants DEF R!TypeOK
  <2>2. \A x \in Objects : usurped[x] > 0 => usurped'[x] > 0
    BY <1>2, <2>1
  <2>3. \A x \in Objects : usurped'[x] = 0 => usurped[x] = 0
    BY <2>1, <2>2
  <2>4. R!Usurped \subseteq R!Usurped'
    BY <2>2 DEF R!Usurped
  <2>5. R!AliveWhileHeld'
    BY <1>1, <1>2, <2>4 DEF LifeInv, R!AliveWhileHeld, R!TypeOK
  <2> QED BY <1>1, <1>2, <2>3, <2>5 DEF LifeInv, R!TypeOK
<1>7. WatchInv'
  BY <1>1, WatchStill
<1> QED BY <1>4, <1>5, <1>6, <1>7 DEF RefsInv

\* Pinning, unpinning and death leave the pointers alone.
LEMMA LifeStep ==
  ASSUME RefsInv, NEW o \in Objects, R!Pin(o) \/ R!Unpin(o) \/ R!Die(o)
  PROVE  RefsInv'
<1>1. R!TypeOK /\ CountInv /\ LifeInv /\ WatchInv
  BY DEF RefsInv
<1>2. UNCHANGED <<count, to, counted, lost, usurped>>
  BY DEF R!Pin, R!Unpin, R!Die, R!strong
<1>3. CountInv'
  <2>1. \A x \in Objects : Counting(x)' = Counting(x)
    BY <1>2 DEF Counting
  <2> QED BY <1>1, <1>2, <2>1 DEF CountInv, Astray
<1>4. R!TypeOK'
  BY <1>1 DEF R!TypeOK, R!Pin, R!Unpin, R!Die, R!strong, R!weakly, R!Expired
<1>5. LifeInv'
  <2>1. CASE R!Pin(o)
    BY <1>1, <1>2, <2>1 DEF LifeInv, R!AliveWhileHeld, R!Usurped, R!Pin, R!TypeOK, R!strong, R!weakly
  <2>2. CASE R!Unpin(o)
    <3>1. /\ life[o] = "alive" /\ count[o] \in Int /\ pinned' = pinned \ {o} /\ UNCHANGED <<weak, revived>>
          /\ life' = (IF count[o] <= 0 THEN [life EXCEPT ![o] = "dying"] ELSE life)
          /\ loose' = (IF count[o] <= 0 THEN loose \ {o} ELSE loose)
      BY <1>1, <2>2 DEF R!Unpin, R!Doomed, R!TypeOK, R!weakly
    <3>2. o \notin revived
      BY <1>1, <3>1 DEF LifeInv
    <3>3. CASE count[o] <= 0
      <4>1. usurped[o] = 0 => count[o] = 0
        <5>1. count[o] = Cardinality(Counting(o)) + (lost[o] - usurped[o]) /\ Cardinality(Counting(o)) \in Nat
          BY <1>1, CountingFinite DEF CountInv, Astray, Counting
        <5>2. lost[o] \in Nat
          BY <1>1, RefsConstants DEF R!TypeOK
        <5> QED BY <3>1, <3>3, <5>1, <5>2
      <4> QED BY <1>1, <1>2, <3>1, <3>2, <3>3, <4>1 DEF LifeInv, R!AliveWhileHeld, R!Usurped, R!TypeOK
    <3>4. CASE ~(count[o] <= 0)
      <4>1. count[o] > 0
        BY <3>1, <3>4
      <4> QED BY <1>1, <1>2, <3>1, <3>2, <3>4, <4>1 DEF LifeInv, R!AliveWhileHeld, R!Usurped, R!TypeOK
    <3> QED BY <3>3, <3>4
  <2>3. CASE R!Die(o)
    BY <1>1, <1>2, <2>3 DEF LifeInv, R!AliveWhileHeld, R!Usurped, R!Die, R!TypeOK
  <2> QED BY <2>1, <2>2, <2>3
<1>6. WatchInv'
  <2>1. CASE R!Pin(o) \/ R!Unpin(o)
    <3>1. /\ UNCHANGED <<block, weakCount, weak>>
          /\ \A x \in Objects : life'[x] = life[x] \/ (life[x] = "alive" /\ life'[x] = "dying")
      BY <1>1, <2>1 DEF R!Pin, R!Unpin, R!Doomed, R!strong, R!weakly, R!TypeOK
    <3> QED BY <1>1, <3>1, WatchStill
  <2>2. CASE R!Die(o)
    <3>1. \A x \in Objects : Watching(x)' = Watching(x)
      BY <2>2 DEF Watching, R!Die
    <3>2. /\ life[o] = "dying" /\ life' = [life EXCEPT ![o] = "dead"]
          /\ block' = [block EXCEPT ![o] = R!Expired(o)] /\ UNCHANGED <<weak, weakCount>>
      BY <2>2 DEF R!Die
    <3>3. (\E w \in WeakPointers : weak[w] = o) <=> weakCount[o] # 0
      <4>1. weakCount[o] = Cardinality(Watching(o)) /\ IsFiniteSet(Watching(o))
        BY <1>1, CountingFinite DEF WatchInv, Watching
      <4>2. weakCount[o] = 0 <=> Watching(o) = {}
        BY <4>1, FS_EmptySet
      <4> QED BY <4>2 DEF Watching
    <3>4. /\ block[o] = "made" /\ weakCount[o] = 0 => R!Expired(o) = "deleted"
          /\ block[o] = "made" /\ weakCount[o] # 0 => R!Expired(o) = "expired"
          /\ block[o] # "made" => R!Expired(o) = block[o]
      BY DEF R!Expired
    <3>5. block[o] \in {"none", "made"} /\ (weakCount[o] # 0 => block[o] = "made")
      BY <1>1, <3>2, <3>3 DEF WatchInv
    <3> QED BY <1>1, <3>1, <3>2, <3>3, <3>4, <3>5 DEF WatchInv, R!TypeOK
  <2> QED BY <2>1, <2>2
<1> QED BY <1>3, <1>4, <1>5, <1>6 DEF RefsInv

\* A weak pointer is made to watch another object, or none.
LEMMA BecomeStep ==
  ASSUME RefsInv, NEW w \in WeakPointers, NEW now \in Objects \cup {R!Null}, R!Become(w, now),
         now # R!Null => life[now] \in {"alive", "dying"}
  PROVE  RefsInv'
<1> DEFINE old == weak[w]
           n(o) == weakCount[o] + (IF now = o THEN 1 ELSE 0) - (IF old = o THEN 1 ELSE 0)
<1>1. R!TypeOK /\ CountInv /\ LifeInv /\ WatchInv
  BY DEF RefsInv
<1>2. /\ now # old /\ weak' = [weak EXCEPT ![w] = now] /\ weakCount' = [o \in Objects |-> n(o)]
      /\ block' = [o \in Objects |->
           IF o = now /\ block[o] = "none" THEN "made"
           ELSE IF o = old /\ n(o) <= 0 /\ block[o] = "expired" THEN "deleted" ELSE block[o]]
      /\ UNCHANGED <<life, count, to, counted, loose, lost, usurped, pinned, revived>>
  BY DEF R!Become, R!strong
<1>3. ASSUME NEW o \in Objects
      PROVE  /\ (o = now => Watching(o)' = Watching(o) \cup {w} /\ w \notin Watching(o))
             /\ (o = old => Watching(o)' = Watching(o) \ {w} /\ w \in Watching(o))
             /\ (o # now /\ o # old => Watching(o)' = Watching(o))
  <2>1. weak'[w] = now /\ \A v \in WeakPointers : v # w => weak'[v] = weak[v]
    BY <1>1, <1>2 DEF R!TypeOK
  <2> QED BY <1>2, <2>1 DEF Watching
<1>4. ASSUME NEW o \in Objects PROVE n(o) = Cardinality(Watching(o)') /\ n(o) \in 0 .. Cardinality(WeakPointers)
  <2>1. weakCount[o] = Cardinality(Watching(o)) /\ IsFiniteSet(Watching(o)) /\ weakCount[o] \in Nat
    BY <1>1, CountingFinite DEF WatchInv, Watching
  <2>2. n(o) = Cardinality(Watching(o)')
    <3>1. CASE o = now
      <4>1. n(o) = weakCount[o] + 1
        BY <1>2, <2>1, <3>1
      <4> QED BY <1>3, <2>1, <3>1, <4>1, Others
    <3>2. CASE o = old
      <4>1. n(o) = weakCount[o] - 1
        BY <1>2, <2>1, <3>2
      <4> QED BY <1>3, <2>1, <3>2, <4>1, Others
    <3>3. CASE o # now /\ o # old
      <4>1. n(o) = weakCount[o]
        BY <2>1, <3>3
      <4> QED BY <1>3, <2>1, <3>3, <4>1
    <3> QED BY <3>1, <3>2, <3>3
  <2> HIDE DEF n
  <2>3. Watching(o)' \subseteq WeakPointers
    BY DEF Watching
  <2>4. Cardinality(Watching(o)') \in Nat /\ Cardinality(Watching(o)') <= Cardinality(WeakPointers)
    BY <2>3, RefsConstants, CountingFinite, FS_Subset
  <2> QED BY <2>2, <2>4, RefsConstants
<1> HIDE DEF n
<1>5. ASSUME NEW o \in Objects PROVE n(o) <= 0 <=> \A v \in WeakPointers : weak'[v] # o
  <2>1. IsFiniteSet(Watching(o)') /\ n(o) = Cardinality(Watching(o)') /\ n(o) \in Nat
    <3>1. Watching(o)' \subseteq WeakPointers
      BY DEF Watching
    <3> QED BY <1>4, <3>1, CountingFinite
  <2>2. n(o) = 0 <=> Watching(o)' = {}
    BY <2>1, FS_EmptySet
  <2>3. n(o) <= 0 <=> n(o) = 0
    BY <2>1
  <2> QED BY <2>2, <2>3 DEF Watching
<1>6. R!TypeOK'
  <2>1. weakCount' \in [Objects -> 0 .. R!Cardinality(WeakPointers)]
    BY <1>2, <1>4, RefsConstants
  <2>2. weak' \in [WeakPointers -> Objects \cup {R!Null}]
    BY <1>1, <1>2 DEF R!TypeOK
  <2>3. block' \in [Objects -> {"none", "made", "expired", "deleted"}]
    BY <1>1, <1>2 DEF R!TypeOK
  <2> QED BY <1>1, <1>2, <2>1, <2>2, <2>3 DEF R!TypeOK
<1>7. CountInv'
  <2>1. \A x \in Objects : Counting(x)' = Counting(x)
    BY <1>2 DEF Counting
  <2> QED BY <1>1, <1>2, <2>1 DEF CountInv, Astray
<1>8. LifeInv'
  BY <1>1, <1>2, RefsConstants DEF LifeInv, R!AliveWhileHeld, R!Usurped, R!TypeOK
<1>9. WatchInv'
  <2> SUFFICES ASSUME NEW o \in Objects
               PROVE  /\ weakCount'[o] = Cardinality(Watching(o)')
                      /\ life[o] # "dead" => block'[o] \in {"none", "made"}
                      /\ life[o] = "dead" => block'[o] # "made"
                      /\ life[o] = "unborn" => block'[o] = "none"
                      /\ (\E v \in WeakPointers : weak'[v] = o) =>
                           block'[o] = IF life[o] = "dead" THEN "expired" ELSE "made"
                      /\ (\A v \in WeakPointers : weak'[v] # o) => block'[o] # "expired"
    BY <1>2 DEF WatchInv
  <2>1. weakCount'[o] = Cardinality(Watching(o)')
    BY <1>2, <1>4
  <2>2. block'[o] = IF o = now /\ block[o] = "none" THEN "made"
                    ELSE IF o = old /\ (\A v \in WeakPointers : weak'[v] # o) /\ block[o] = "expired" THEN "deleted"
                    ELSE block[o]
    BY <1>2, <1>5
  <2>3. /\ life[o] # "dead" => block[o] \in {"none", "made"}
        /\ life[o] = "dead" => block[o] # "made"
        /\ life[o] = "unborn" => block[o] = "none"
        /\ (\E v \in WeakPointers : weak[v] = o) => block[o] = IF life[o] = "dead" THEN "expired" ELSE "made"
        /\ (\A v \in WeakPointers : weak[v] # o) => block[o] # "expired"
    BY <1>1 DEF WatchInv
  <2>4. o = now => life[o] \in {"alive", "dying"}
    BY RefsConstants
  <2>5. weak'[w] = now /\ weak[w] = old /\ \A v \in WeakPointers : v # w => weak'[v] = weak[v]
    BY <1>1, <1>2 DEF R!TypeOK
  <2> QED BY <2>1, <2>2, <2>3, <2>4, <2>5
<1> QED BY <1>6, <1>7, <1>8, <1>9 DEF RefsInv

\* A reference-counted object is counted exactly, up to what release() took
\* from a pointer that counted; but for that it lives exactly as long as it is
\* held; and it is found by a weak pointer, or said to be gone.
THEOREM RefsAreSafe == R!Spec => []RefsSafe
<1>1. R!Init => RefsInv
  <2> SUFFICES ASSUME R!Init PROVE RefsInv
    OBVIOUS
  <2> USE RefsConstants DEF R!Init
  <2>1. R!TypeOK
    BY DEF R!TypeOK
  <2>2. \A o \in Objects : Counting(o) = {} /\ Watching(o) = {}
    BY DEF Counting, Watching
  <2>3. CountInv
    BY <2>2, FS_EmptySet DEF CountInv, Astray
  <2>4. LifeInv
    BY DEF LifeInv, R!AliveWhileHeld
  <2>5. WatchInv
    BY <2>2, FS_EmptySet DEF WatchInv
  <2> QED BY <2>1, <2>3, <2>4, <2>5 DEF RefsInv
<1>2. RefsInv /\ [R!Next]_R!vars => RefsInv'
  <2> SUFFICES ASSUME RefsInv, [R!Next]_R!vars PROVE RefsInv'
    OBVIOUS
  <2>0. R!TypeOK /\ LifeInv /\ WatchInv
    BY DEF RefsInv
  <2>1. ASSUME NEW p \in Pointers, NEW o \in Objects, R!Make(p, o) PROVE RefsInv'
    BY <2>1, MakeStep
  <2>2. ASSUME NEW p \in Pointers, NEW o \in Objects, R!Adopt(p, o) PROVE RefsInv'
    BY <2>2, ResetStep, RefsConstants DEF R!Adopt
  <2>3. ASSUME NEW p \in Pointers, NEW o \in Objects, R!Refer(p, o) PROVE RefsInv'
    <3>1. (count[o] > 0) \in BOOLEAN /\ R!Reset(p, o, count[o] > 0) /\ R!Exists(o) /\ o # R!Null
      BY <2>3, RefsConstants DEF R!Refer
    <3> QED BY <3>1, ResetStep
  <2>4. ASSUME NEW p \in Pointers, NEW q \in Pointers, R!Assign(p, q) PROVE RefsInv'
    <3>1. /\ R!Reset(p, to[q], counted[q]) /\ to[q] \in Objects \cup {R!Null} /\ counted[q] \in BOOLEAN
          /\ (to[q] # R!Null => R!Exists(to[q])) /\ (to[q] = R!Null => ~counted[q])
      BY <2>0, <2>4 DEF R!Assign, R!TypeOK
    <3> QED BY <3>1, ResetStep
  <2>5. ASSUME NEW p \in Pointers, NEW q \in Pointers, R!MoveAssign(p, q) PROVE RefsInv'
    BY <2>5, MoveStep
  <2>6. ASSUME NEW p \in Pointers, NEW w \in WeakPointers, R!Lock(p, w) PROVE RefsInv'
    <3>1. PICK o \in Objects : R!Adopt(p, o)
      BY <2>0, <2>6 DEF R!Lock, R!Found, R!TypeOK
    <3> QED BY <2>2, <3>1
  <2>7. ASSUME NEW p \in Pointers, R!Drop(p) PROVE RefsInv'
    BY <2>7, ResetStep DEF R!Drop
  <2>8. ASSUME NEW p \in Pointers, R!Detach(p) PROVE RefsInv'
    BY <2>8, LoseStep DEF R!Detach, R!weakly
  <2>9. ASSUME NEW p \in Pointers, R!Release(p) PROVE RefsInv'
    BY <2>9, ReleaseStep
  <2>10. ASSUME NEW o \in Objects, R!Pin(o) \/ R!Unpin(o) \/ R!Die(o) PROVE RefsInv'
    BY <2>10, LifeStep
  <2>11. ASSUME NEW w \in WeakPointers, NEW o \in Objects, R!Watch(w, o) PROVE RefsInv'
    <3>1. R!Become(w, o) /\ life[o] \in {"alive", "dying"}
      BY <2>11 DEF R!Watch, R!Exists
    <3> QED BY <3>1, BecomeStep
  <2>12. ASSUME NEW w \in WeakPointers, NEW v \in WeakPointers, R!CopyWeak(w, v) PROVE RefsInv'
    <3>1. R!Become(w, R!Found(v)) /\ R!Found(v) \in Objects \cup {R!Null}
      BY <2>0, <2>12 DEF R!CopyWeak, R!Found, R!TypeOK
    <3>2. R!Found(v) # R!Null => life[R!Found(v)] \in {"alive", "dying"}
      <4>1. ASSUME R!Found(v) # R!Null
            PROVE  weak[v] \in Objects /\ R!Found(v) = weak[v] /\ block[weak[v]] = "made"
        BY <2>0, <4>1 DEF R!Found, R!TypeOK
      <4> QED BY <2>0, <4>1 DEF WatchInv, R!TypeOK
    <3> QED BY <3>1, <3>2, BecomeStep
  <2>13. ASSUME NEW w \in WeakPointers, R!Unwatch(w) PROVE RefsInv'
    BY <2>13, BecomeStep DEF R!Unwatch
  <2>14. CASE UNCHANGED R!vars
    <3>1. \A o \in Objects : Counting(o)' = Counting(o) /\ Watching(o)' = Watching(o)
      BY <2>14 DEF R!vars, R!strong, R!weakly, Counting, Watching
    <3> QED BY <2>14, <3>1 DEF R!vars, R!strong, R!weakly, RefsInv, CountInv, Astray, LifeInv, WatchInv,
                               R!TypeOK, R!AliveWhileHeld, R!Usurped
  <2> QED BY <2>1, <2>2, <2>3, <2>4, <2>5, <2>6, <2>7, <2>8, <2>9, <2>10, <2>11, <2>12, <2>13, <2>14 DEF R!Next
<1>3. RefsInv => RefsSafe
  <2> SUFFICES ASSUME RefsInv PROVE R!TypeOK /\ R!CountExact /\ R!AliveWhileHeld /\ R!WeakFinds
    BY DEF RefsSafe
  <2>1. R!CountExact
    <3> SUFFICES ASSUME NEW o \in Objects
                 PROVE  count[o] = Cardinality(Counting(o)) + lost[o] - usurped[o]
      BY RefsCardinality DEF R!CountExact, Counting
    <3>1. /\ count[o] = Cardinality(Counting(o)) + (lost[o] - usurped[o])
          /\ lost[o] \in Nat /\ usurped[o] \in Nat /\ Cardinality(Counting(o)) \in Nat
      <4>1. Cardinality(Counting(o)) \in Nat
        BY CountingFinite DEF Counting
      <4> QED BY <4>1, RefsConstants DEF RefsInv, CountInv, Astray, R!TypeOK
    <3> QED BY <3>1
  <2>2. R!WeakFinds
    BY RefsCardinality DEF RefsInv, WatchInv, R!WeakFinds, Watching, R!TypeOK
  <2> QED BY <2>1, <2>2 DEF RefsInv, LifeInv
<1> QED BY <1>1, <1>2, <1>3, PTL DEF R!Spec

----------------------------------------------------------------------------
\* An object that threads share.

Dooming == {"destroy", "destructor", "expire", "expired"}
Weakening == {"make", "take", "add"}

\* The count is that of the threads that have a pointer, and so is the weak
\* count as long as no two threads met in it.
HasInv ==
  /\ sharedCount = Cardinality(has)
  /\ \A t \in Threads : at[t] \in Weakening => t \in has
  /\ \A t \in Threads : at[t] = "upgrade" => t \notin has

WeakInv ==
  /\ \A t \in Threads : at[t] \in {"make", "take", "add"} => t \notin sharedWeak
  /\ \A t \in Threads : at[t] = "leave" => t \in sharedWeak
  /\ \A t \in Threads : at[t] = "add" => seen[t] < Cardinality(Threads)
  /\ \A t \in Threads : at[t] = "leave" => seen[t] > 0
  /\ ~S!Undefined => sharedWeakCount = Cardinality(sharedWeak)

\* One thread destroys the object, and when nobody has it or pins it.
DoomInv ==
  races \cap {"unpin", "upgrade"} = {} =>
    /\ \A t, u \in Threads : at[t] \in Dooming /\ at[u] \in Dooming => t = u
    /\ \A t \in Threads : at[t] \in Dooming \cup {"released"} => has = {}
    /\ \A t, u \in Threads : at[t] = "released" /\ at[u] \in Dooming \cup {"released"} => t = u
    /\ \A t \in Threads : at[t] \in Dooming => ~sharedPinned
    /\ \A t \in Threads : at[t] \in {"released", "destroy"} => sharedLife = "alive"
    /\ \A t \in Threads : at[t] \in Dooming \ {"destroy"} => sharedLife = "dying"
    /\ sharedLife # "alive" => has = {} /\ ~sharedPinned

DestroysInv ==
  races \cap {"unpin", "upgrade"} = {} => destroys = IF sharedLife = "alive" THEN 0 ELSE 1

\* An object that nobody has or pins is gone, or somebody is about to destroy it.
LeakInv ==
  has = {} /\ ~sharedPinned =>
    sharedLife = "gone" \/ \E t \in Threads : at[t] \in Dooming \cup {"released", "unpinned"}

\* One thread makes the block, and the last to leave deletes it.
BlockInv ==
  races = {} =>
    /\ sharedWeak # {} => sharedBlock = "there"
    /\ \A t, u \in Threads : at[t] = "make" /\ at[u] = "make" => t = u
    /\ \A t \in Threads : at[t] = "make" => sharedBlock = "null" /\ controlled
    /\ \A t \in Threads : at[t] = "add" => sharedBlock = "there"
    /\ sharedLife = "alive" \/ (\E t \in Threads : at[t] = "destructor") =>
         /\ sharedBlock # "null" => controlled
         /\ controlled => sharedBlock # "null" \/ \E t \in Threads : at[t] = "make"
         /\ ~expired
    /\ \A t \in Threads : at[t] \in {"expire", "expired"} => sharedBlock = "there"
    /\ \A t \in Threads : at[t] = "expired" => expired
    /\ \A t \in Threads : at[t] = "expire" => ~expired
    /\ \A t, u \in Threads : at[t] = "left" => at[u] # "expired"
    /\ \A t \in Threads : at[t] = "left" /\ expired => sharedWeak = {}
    /\ sharedLife = "gone" /\ sharedBlock # "null" => expired
    /\ sharedBlock = "deleted" => expired /\ sharedWeak = {}
    /\ sharedBlock = "there" /\ sharedLife = "gone" =>
         sharedWeak # {} \/ \E t \in Threads : at[t] = "left"

SharedInv == S!TypeOK /\ HasInv /\ WeakInv /\ DoomInv /\ DestroysInv /\ LeakInv /\ BlockInv

\* SharedObject counts with the library's own operators.
LEMMA SharedCardinality == \A X : S!Cardinality(X) = Cardinality(X) /\ S!IsFiniteSet(X) = IsFiniteSet(X)
BY DEF S!Cardinality, Cardinality, S!IsFiniteSet, IsFiniteSet

\* What the assumptions say of the constants.
LEMMA SharedConstants ==
  /\ IsFiniteSet(Threads) /\ Threads # {} /\ Pinners \subseteq Threads
  /\ S!Cardinality(Threads) = Cardinality(Threads) /\ Cardinality(Threads) \in Nat \ {0}
<1>1. IsFiniteSet(Threads) /\ Threads # {} /\ Pinners \subseteq Threads
  BY SharedCardinality, PartsAssumption DEF S!SharedAssumption
<1> QED BY <1>1, SharedCardinality, FS_CardinalityType, FS_EmptySet

\* A set of threads one larger, one smaller.
LEMMA OneMore ==
  ASSUME NEW X, X \subseteq Threads, NEW t \in Threads
  PROVE  /\ Cardinality(X) \in 0 .. Cardinality(Threads)
         /\ t \notin X => Cardinality(X \cup {t}) = Cardinality(X) + 1 /\ Cardinality(X) < Cardinality(Threads)
         /\ t \in X => Cardinality(X \ {t}) = Cardinality(X) - 1 /\ Cardinality(X) > 0
         /\ Cardinality(X) = 0 <=> X = {}
<1>1. IsFiniteSet(X) /\ Cardinality(X) \in Nat /\ Cardinality(X) <= Cardinality(Threads)
  BY SharedConstants, FS_Subset, FS_CardinalityType
<1>2. t \notin X => Cardinality(X \cup {t}) = Cardinality(X) + 1
  BY <1>1, FS_AddElement
<1>3. X \cup {t} \subseteq Threads => Cardinality(X \cup {t}) <= Cardinality(Threads)
  BY SharedConstants, FS_Subset
<1>4. t \in X => Cardinality(X \ {t}) = Cardinality(X) - 1
  BY <1>1, FS_RemoveElement
<1>5. Cardinality(X) = 0 <=> X = {}
  BY <1>1, FS_EmptySet
<1> QED BY <1>1, <1>2, <1>3, <1>4, <1>5, SharedConstants

\* The types are kept, and what a thread has goes with its place.
LEMMA SharedTypeStep ==
  ASSUME S!TypeOK, HasInv, WeakInv, [S!Next]_S!vars
  PROVE  S!TypeOK' /\ HasInv'
<1> USE SharedConstants DEF S!TypeOK, HasInv, Weakening, S!Goes, S!At, S!Raced, S!Races, S!object, S!control
<1>1. ASSUME NEW t \in Threads, NEW u \in Threads, S!Copy(t, u) PROVE S!TypeOK' /\ HasInv'
  <2>1. sharedCount' = Cardinality(has') /\ sharedCount' \in 0 .. Cardinality(Threads)
    <3>1. has \subseteq Threads /\ has' = has \cup {u} /\ u \notin has /\ sharedCount' = sharedCount + 1
      BY <1>1 DEF S!Copy
    <3> HIDE DEF S!TypeOK
    <3> QED BY <3>1, OneMore
  <2> QED BY <1>1, <2>1 DEF S!Copy
<1>2. ASSUME NEW t \in Threads, S!Drop(t) PROVE S!TypeOK' /\ HasInv'
  <2>1. sharedCount' = Cardinality(has') /\ sharedCount' \in 0 .. Cardinality(Threads)
    <3>1. has \subseteq Threads /\ has' = has \ {t} /\ t \in has /\ sharedCount' = sharedCount - 1
      BY <1>2 DEF S!Drop
    <3> HIDE DEF S!TypeOK
    <3> QED BY <3>1, OneMore
  <2> QED BY <1>2, <2>1 DEF S!Drop
<1>3. ASSUME NEW t \in Threads, S!Released(t) PROVE S!TypeOK' /\ HasInv'
  BY <1>3 DEF S!Released
<1>4. ASSUME NEW t \in Threads, S!Pin(t) PROVE S!TypeOK' /\ HasInv'
  BY <1>4 DEF S!Pin
<1>5. ASSUME NEW t \in Threads, S!Unpin(t) PROVE S!TypeOK' /\ HasInv'
  BY <1>5 DEF S!Unpin
<1>6. ASSUME NEW t \in Threads, S!Unpinned(t) PROVE S!TypeOK' /\ HasInv'
  BY <1>6 DEF S!Unpinned
<1>7. ASSUME NEW t \in Threads, S!Destroy(t) PROVE S!TypeOK' /\ HasInv'
  <2>1. destroys' \in Nat
    <3>1. destroys' = destroys + 1 /\ destroys \in Nat
      BY <1>7 DEF S!Destroy
    <3> HIDE DEF S!TypeOK
    <3> QED BY <3>1
  <2> QED BY <1>7, <2>1 DEF S!Destroy
<1>8. ASSUME NEW t \in Threads, S!Destructor(t) PROVE S!TypeOK' /\ HasInv'
  BY <1>8 DEF S!Destructor
<1>9. ASSUME NEW t \in Threads, S!Expire(t) PROVE S!TypeOK' /\ HasInv'
  BY <1>9 DEF S!Expire
<1>10. ASSUME NEW t \in Threads, S!Expired(t) PROVE S!TypeOK' /\ HasInv'
  BY <1>10 DEF S!Expired
<1>11. ASSUME NEW t \in Threads, S!Weaken(t) PROVE S!TypeOK' /\ HasInv'
  BY <1>11 DEF S!Weaken
<1>12. ASSUME NEW t \in Threads, S!Make(t) PROVE S!TypeOK' /\ HasInv'
  BY <1>12 DEF S!Make
<1>13. ASSUME NEW t \in Threads, S!Take(t) PROVE S!TypeOK' /\ HasInv'
  BY <1>13 DEF S!Take
<1>14. ASSUME NEW t \in Threads, S!Add(t) PROVE S!TypeOK' /\ HasInv'
  <2>1. seen[t] + 1 \in 0 .. Cardinality(Threads)
    <3>1. seen[t] \in 0 .. Cardinality(Threads) /\ seen[t] < Cardinality(Threads)
      BY <1>14 DEF S!Add, WeakInv
    <3> HIDE DEF S!TypeOK
    <3> QED BY <3>1
  <2> QED BY <1>14, <2>1 DEF S!Add
<1>15. ASSUME NEW t \in Threads, S!Leave(t) PROVE S!TypeOK' /\ HasInv'
  BY <1>15 DEF S!Leave
<1>16. ASSUME NEW t \in Threads, S!Left(t) PROVE S!TypeOK' /\ HasInv'
  <2>1. seen[t] - 1 \in 0 .. Cardinality(Threads)
    <3>1. seen[t] \in 0 .. Cardinality(Threads) /\ seen[t] > 0
      BY <1>16 DEF S!Left, WeakInv
    <3> HIDE DEF S!TypeOK
    <3> QED BY <3>1
  <2> QED BY <1>16, <2>1 DEF S!Left, S!Fewer
<1>17. ASSUME NEW t \in Threads, S!Deleted(t) PROVE S!TypeOK' /\ HasInv'
  BY <1>17 DEF S!Deleted
<1>18. ASSUME NEW t \in Threads, S!Lock(t) PROVE S!TypeOK' /\ HasInv'
  BY <1>18 DEF S!Lock
<1>19. ASSUME NEW t \in Threads, S!Upgrade(t) PROVE S!TypeOK' /\ HasInv'
  <2>1. sharedCount' = Cardinality(has') /\ sharedCount' \in 0 .. Cardinality(Threads)
    <3>1. has \subseteq Threads /\ has' = has \cup {t} /\ t \notin has /\ sharedCount' = sharedCount + 1
      BY <1>19 DEF S!Upgrade
    <3> HIDE DEF S!TypeOK
    <3> QED BY <3>1, OneMore
  <2> QED BY <1>19, <2>1 DEF S!Upgrade
<1>20. CASE UNCHANGED S!vars
  BY <1>20 DEF S!vars
<1> HIDE DEF S!TypeOK, HasInv
<1> QED BY <1>1, <1>2, <1>3, <1>4, <1>5, <1>6, <1>7, <1>8, <1>9, <1>10, <1>11, <1>12, <1>13, <1>14,
           <1>15, <1>16, <1>17, <1>18, <1>19, <1>20 DEF S!Next

\* What the counts say.
LEMMA NoneIn ==
  ASSUME NEW X, X \subseteq Threads, NEW n, n = Cardinality(X)
  PROVE  (n <= 0 <=> X = {}) /\ (S!Last(n) <=> X = {}) /\ (S!BlockUnused(n) <=> X = {})
<1>1. PICK t \in Threads : TRUE
  BY SharedConstants
<1>2. Cardinality(X) \in Nat /\ (Cardinality(X) = 0 <=> X = {})
  <2>1. Cardinality(X) \in 0 .. Cardinality(Threads) /\ (Cardinality(X) = 0 <=> X = {})
    BY <1>1, OneMore, Zenon
  <2>2. Cardinality(Threads) \in Nat \ {0}
    BY SharedConstants
  <2> QED BY <2>1, <2>2
<1>3. Cardinality(X) <= 0 <=> Cardinality(X) = 0
  BY <1>2
<1> QED BY <1>2, <1>3 DEF S!Last, S!BlockUnused

WeakPlaces == Weakening \cup {"leave"}

\* A step in which nobody begins or ends to use the weak count
LEMMA WeakStill ==
  ASSUME WeakInv, ~S!Undefined, UNCHANGED <<sharedWeakCount, sharedWeak, seen>>,
         \A t \in Threads : at'[t] \in WeakPlaces => at'[t] = at[t]
  PROVE  WeakInv'
BY DEF WeakInv, WeakPlaces, Weakening

\* The count of those that watch stays right, until a race.
LEMMA WeakStep ==
  ASSUME S!TypeOK, WeakInv, [S!Next]_S!vars
  PROVE  WeakInv'
<1> USE DEF S!Goes, S!At, S!object, S!control
<1>0. S!Next => ~S!Undefined
  BY DEF S!Next
<1>1. ASSUME NEW t \in Threads, ~S!Undefined,
             \/ \E u \in Threads : S!Copy(t, u)
             \/ S!Drop(t) \/ S!Released(t) \/ S!Pin(t) \/ S!Unpin(t) \/ S!Unpinned(t)
             \/ S!Destroy(t) \/ S!Destructor(t) \/ S!Expire(t) \/ S!Expired(t)
             \/ S!Deleted(t) \/ S!Lock(t) \/ S!Upgrade(t)
      PROVE  WeakInv'
  <2>1. /\ UNCHANGED <<sharedWeakCount, sharedWeak, seen>>
        /\ \A u \in Threads : at'[u] \in WeakPlaces => at'[u] = at[u]
    BY <1>1 DEF S!Copy, S!Drop, S!Released, S!Pin, S!Unpin, S!Unpinned, S!Destroy, S!Destructor, S!Expire,
                S!Expired, S!Deleted, S!Lock, S!Upgrade, S!TypeOK, WeakPlaces, Weakening
  <2> QED BY <1>1, <2>1, WeakStill
<1>2. ASSUME NEW t \in Threads, ~S!Undefined, S!Weaken(t) \/ S!Make(t) PROVE WeakInv'
  BY <1>2 DEF S!Weaken, S!Make, S!TypeOK, WeakInv
<1>3. ASSUME NEW t \in Threads, ~S!Undefined, S!Take(t) PROVE WeakInv'
  <2>1. t \notin sharedWeak /\ sharedWeakCount = Cardinality(sharedWeak) /\ sharedWeak \subseteq Threads
    BY <1>3 DEF S!Take, WeakInv, S!TypeOK
  <2>2. sharedWeakCount < Cardinality(Threads)
    BY <2>1, OneMore
  <2> QED BY <1>3, <2>1, <2>2 DEF S!Take, S!TypeOK, WeakInv
<1>4. ASSUME NEW t \in Threads, ~S!Undefined, S!Add(t) PROVE WeakInv'
  <2>1. t \notin sharedWeak /\ sharedWeakCount = Cardinality(sharedWeak) /\ sharedWeak \subseteq Threads
        /\ sharedWeakCount' = seen[t] + 1 /\ sharedWeak' = sharedWeak \cup {t}
        /\ (~S!Undefined' => seen[t] = sharedWeakCount)
    BY <1>4 DEF S!Add, WeakInv, S!TypeOK, S!Raced, S!Undefined
  <2>2. ~S!Undefined' => sharedWeakCount' = Cardinality(sharedWeak')
    BY <2>1, OneMore
  <2> QED BY <1>4, <2>1, <2>2 DEF S!Add, S!TypeOK, WeakInv
<1>5. ASSUME NEW t \in Threads, ~S!Undefined, S!Leave(t) PROVE WeakInv'
  <2>1. t \in sharedWeak /\ sharedWeakCount = Cardinality(sharedWeak) /\ sharedWeak \subseteq Threads
    BY <1>5 DEF S!Leave, WeakInv, S!TypeOK
  <2>2. sharedWeakCount > 0
    BY <2>1, OneMore
  <2> QED BY <1>5, <2>1, <2>2 DEF S!Leave, S!TypeOK, WeakInv
<1>6. ASSUME NEW t \in Threads, ~S!Undefined, S!Left(t) PROVE WeakInv'
  <2>1. t \in sharedWeak /\ sharedWeakCount = Cardinality(sharedWeak) /\ sharedWeak \subseteq Threads
        /\ sharedWeakCount' = seen[t] - 1 /\ sharedWeak' = sharedWeak \ {t}
        /\ (~S!Undefined' => seen[t] = sharedWeakCount)
    BY <1>6 DEF S!Left, WeakInv, S!TypeOK, S!Undefined, S!Fewer
  <2>2. ~S!Undefined' => sharedWeakCount' = Cardinality(sharedWeak')
    BY <2>1, OneMore
  <2> QED BY <1>6, <2>1, <2>2 DEF S!Left, S!TypeOK, WeakInv
<1>7. CASE UNCHANGED S!vars
  BY <1>7 DEF S!vars, WeakInv, S!Undefined
<1> QED BY <1>0, <1>1, <1>2, <1>3, <1>4, <1>5, <1>6, <1>7 DEF S!Next

\* A race that was met stays on record.
LEMMA RacesGrow ==
  ASSUME [S!Next]_S!vars
  PROVE  races \subseteq races'
<1> USE DEF S!Raced, S!object, S!control
<1> QED BY DEF S!Next, S!vars, S!Copy, S!Drop, S!Released, S!Pin, S!Unpin, S!Unpinned, S!Destroy, S!Destructor,
               S!Expire, S!Expired, S!Weaken, S!Make, S!Take, S!Add, S!Leave, S!Left, S!Deleted, S!Lock, S!Upgrade

\* Steps that leave alone who has the object and who destroys it.
DoomPlaces == Dooming \cup {"released"}

\* A step by which nobody comes closer to destroying the object.
LEMMA DoomStill ==
  ASSUME DoomInv, races \subseteq races', UNCHANGED <<sharedPinned, sharedLife>>, has = {} => has' = {},
         \A t \in Threads : at'[t] \in DoomPlaces => at'[t] = at[t]
  PROVE  DoomInv'
BY DEF DoomInv, DoomPlaces, Dooming

\* At most one thread is about to destroy the object, unless pinning raced.
LEMMA DoomStep ==
  ASSUME S!TypeOK, HasInv, WeakInv, DoomInv, [S!Next]_S!vars
  PROVE  DoomInv'
<1> USE DEF S!Goes, S!At, S!object, S!control
<1>a. races \subseteq races'
  BY RacesGrow
<1>b. (S!Last(sharedCount) <=> has = {}) /\ (sharedCount <= 0 <=> has = {})
  <2>1. has \subseteq Threads /\ sharedCount = Cardinality(has)
    BY DEF S!TypeOK, HasInv
  <2> QED BY <2>1, NoneIn
<1>1. ASSUME NEW t \in Threads,
             \/ \E u \in Threads : S!Copy(t, u)
             \/ S!Weaken(t) \/ S!Make(t) \/ S!Take(t) \/ S!Add(t) \/ S!Leave(t) \/ S!Left(t)
             \/ S!Deleted(t) \/ S!Lock(t)
      PROVE  DoomInv'
  <2>1. /\ UNCHANGED <<sharedPinned, sharedLife>> /\ (has = {} => has' = {})
        /\ \A u \in Threads : at'[u] \in DoomPlaces => at'[u] = at[u]
    BY <1>1 DEF S!Copy, S!Weaken, S!Make, S!Take, S!Add, S!Leave, S!Left, S!Deleted, S!Lock,
                S!TypeOK, DoomPlaces, Dooming
  <2> QED BY <1>a, <2>1, DoomStill
<1>2. ASSUME NEW t \in Threads, S!Drop(t) PROVE DoomInv'
  <2>1. S!Last(sharedCount') <=> has' = {}
    <3>1. S!TypeOK' /\ HasInv'
      BY SharedTypeStep
    <3>2. has' \subseteq Threads /\ sharedCount' = Cardinality(has')
      BY <3>1 DEF S!TypeOK, HasInv
    <3> QED BY <3>2, NoneIn
  <2> QED BY <1>a, <1>2, <2>1 DEF S!Drop, DoomInv, Dooming, S!TypeOK
<1>3. ASSUME NEW t \in Threads, S!Released(t) PROVE DoomInv'
  BY <1>a, <1>3 DEF S!Released, DoomInv, Dooming, S!TypeOK
<1>4. ASSUME NEW t \in Threads, S!Pin(t) PROVE DoomInv'
  BY <1>a, <1>4 DEF S!Pin, DoomInv, Dooming, S!TypeOK
<1>5. ASSUME NEW t \in Threads, S!Unpin(t) PROVE DoomInv'
  BY <1>a, <1>5 DEF S!Unpin, DoomInv, Dooming, S!TypeOK, S!Raced
<1>6. ASSUME NEW t \in Threads, S!Unpinned(t) PROVE DoomInv'
  <2>1. at' = [at EXCEPT ![t] = IF has = {} THEN "destroy" ELSE "ready"]
    BY <1>b, <1>6 DEF S!Unpinned
  <2>2. races' \cap {"unpin", "upgrade"} = {} =>
          /\ \A u \in Threads \ {t} : at[u] \notin Dooming \cup {"released"}
          /\ sharedLife = "alive" /\ ~sharedPinned
    BY <1>6 DEF S!Unpinned, S!Raced, Dooming
  <2>3. at[t] = "unpinned" /\ UNCHANGED <<sharedPinned, sharedLife, has>>
    BY <1>6 DEF S!Unpinned
  <2> QED BY <1>a, <2>1, <2>2, <2>3 DEF DoomInv, Dooming, S!TypeOK
<1>7. ASSUME NEW t \in Threads, S!Destroy(t) PROVE DoomInv'
  BY <1>a, <1>7 DEF S!Destroy, DoomInv, Dooming, S!TypeOK
<1>8. ASSUME NEW t \in Threads, S!Destructor(t) PROVE DoomInv'
  BY <1>a, <1>8 DEF S!Destructor, DoomInv, Dooming, S!TypeOK
<1>9. ASSUME NEW t \in Threads, S!Expire(t) PROVE DoomInv'
  BY <1>a, <1>9 DEF S!Expire, DoomInv, Dooming, S!TypeOK
<1>10. ASSUME NEW t \in Threads, S!Expired(t) PROVE DoomInv'
  BY <1>a, <1>10 DEF S!Expired, DoomInv, Dooming, S!TypeOK
<1>11. ASSUME NEW t \in Threads, S!Upgrade(t) PROVE DoomInv'
  BY <1>a, <1>b, <1>11 DEF S!Upgrade, DoomInv, Dooming, S!TypeOK, S!Raced
<1>12. CASE UNCHANGED S!vars
  BY <1>12 DEF S!vars, DoomInv
<1> QED BY <1>1, <1>2, <1>3, <1>4, <1>5, <1>6, <1>7, <1>8, <1>9, <1>10, <1>11, <1>12 DEF S!Next

\* The object is destroyed once, unless a race was met.
LEMMA DestroysStep ==
  ASSUME S!TypeOK, DoomInv, DestroysInv, [S!Next]_S!vars
  PROVE  DestroysInv'
<1> USE DEF S!object, S!control, S!Goes, S!At
<1>a. races \subseteq races'
  BY RacesGrow
<1>1. ASSUME NEW t \in Threads, S!Destroy(t) PROVE DestroysInv'
  <2> SUFFICES ASSUME races' \cap {"unpin", "upgrade"} = {} PROVE destroys' = 1 /\ sharedLife' = "dying"
    BY DEF DestroysInv
  <2>1. races \cap {"unpin", "upgrade"} = {}
    BY <1>a
  <2>2. sharedLife = "alive"
    BY <1>1, <2>1 DEF S!Destroy, DoomInv, Dooming
  <2>3. destroys = 0 /\ destroys' = destroys + 1 /\ sharedLife' = "dying"
    BY <1>1, <2>1, <2>2 DEF S!Destroy, DestroysInv
  <2> QED BY <2>3
<1>2. ASSUME NEW t \in Threads, S!Destructor(t) \/ S!Expired(t) PROVE DestroysInv'
  <2> SUFFICES ASSUME races' \cap {"unpin", "upgrade"} = {}
               PROVE  destroys' = destroys /\ destroys = 1 /\ sharedLife' # "alive"
    BY DEF DestroysInv
  <2>1. races \cap {"unpin", "upgrade"} = {}
    BY <1>a
  <2>2. sharedLife = "dying"
    BY <1>2, <2>1 DEF S!Destructor, S!Expired, DoomInv, Dooming
  <2> QED BY <1>2, <2>1, <2>2 DEF S!Destructor, S!Expired, DestroysInv
<1>3. ASSUME NEW t \in Threads,
             \/ \E u \in Threads : S!Copy(t, u)
             \/ S!Drop(t) \/ S!Released(t) \/ S!Pin(t) \/ S!Unpin(t) \/ S!Unpinned(t) \/ S!Expire(t)
             \/ S!Weaken(t) \/ S!Make(t) \/ S!Take(t) \/ S!Add(t) \/ S!Leave(t) \/ S!Left(t)
             \/ S!Deleted(t) \/ S!Lock(t) \/ S!Upgrade(t)
      PROVE  DestroysInv'
  <2>1. destroys' = destroys /\ sharedLife' = sharedLife
    BY <1>3 DEF S!Copy, S!Drop, S!Released, S!Pin, S!Unpin, S!Unpinned, S!Expire, S!Weaken, S!Make, S!Take,
                S!Add, S!Leave, S!Left, S!Deleted, S!Lock, S!Upgrade
  <2> QED BY <1>a, <2>1 DEF DestroysInv
<1>4. CASE UNCHANGED S!vars
  BY <1>4 DEF S!vars, DestroysInv
<1> QED BY <1>1, <1>2, <1>3, <1>4 DEF S!Next

\* The object that nobody has is destroyed or about to be.
LEMMA LeakStep ==
  ASSUME S!TypeOK, HasInv, WeakInv, LeakInv, [S!Next]_S!vars
  PROVE  LeakInv'
<1> USE DEF S!Goes, S!At, S!object, S!control, S!TypeOK, LeakInv, Dooming
<1>1. ASSUME NEW t \in Threads,
             \/ \E u \in Threads : S!Copy(t, u)
             \/ S!Weaken(t) \/ S!Make(t) \/ S!Take(t) \/ S!Add(t) \/ S!Leave(t) \/ S!Left(t)
             \/ S!Deleted(t) \/ S!Lock(t) \/ S!Upgrade(t)
      PROVE  LeakInv'
  <2>1. /\ UNCHANGED <<sharedPinned, sharedLife>> /\ (has' = {} => has = {})
        /\ \A u \in Threads :
             at[u] \in {"destroy", "destructor", "expire", "expired", "released", "unpinned"} => at'[u] = at[u]
    BY <1>1 DEF S!Copy, S!Weaken, S!Make, S!Take, S!Add, S!Leave, S!Left, S!Deleted, S!Lock, S!Upgrade
  <2> QED BY <2>1
<1>2. ASSUME NEW t \in Threads, S!Drop(t) PROVE LeakInv'
  <2>1. S!Last(sharedCount') <=> has' = {}
    <3>1. S!TypeOK' /\ HasInv'
      BY SharedTypeStep
    <3>2. has' \subseteq Threads /\ sharedCount' = Cardinality(has')
      BY <3>1 DEF HasInv
    <3> QED BY <3>2, NoneIn
  <2> QED BY <1>2, <2>1 DEF S!Drop
<1>3. ASSUME NEW t \in Threads, S!Released(t) \/ S!Pin(t) \/ S!Unpin(t) PROVE LeakInv'
  BY <1>3 DEF S!Released, S!Pin, S!Unpin
<1>4. ASSUME NEW t \in Threads, S!Unpinned(t) PROVE LeakInv'
  <2>1. has \subseteq Threads /\ sharedCount = Cardinality(has)
    BY DEF HasInv
  <2>2. sharedCount <= 0 <=> has = {}
    BY <2>1, NoneIn
  <2> QED BY <1>4, <2>2 DEF S!Unpinned
<1>5. ASSUME NEW t \in Threads, S!Destroy(t) \/ S!Destructor(t) \/ S!Expire(t) \/ S!Expired(t) PROVE LeakInv'
  BY <1>5 DEF S!Destroy, S!Destructor, S!Expire, S!Expired
<1>6. CASE UNCHANGED S!vars
  BY <1>6 DEF S!vars
<1> QED BY <1>1, <1>2, <1>3, <1>4, <1>5, <1>6 DEF S!Next

\* The control block is deleted once, by the last to leave it.
LEMMA BlockStep ==
  ASSUME S!TypeOK, HasInv, WeakInv, DoomInv, BlockInv, [S!Next]_S!vars
  PROVE  BlockInv'
<1> SUFFICES ASSUME races' = {} PROVE BlockInv'
  BY DEF BlockInv
<1> USE DEF S!Goes, S!At, S!object, S!control, S!TypeOK, BlockInv, Dooming, Weakening, S!Raced
<1>a. races = {} /\ ~S!Undefined /\ ~S!Undefined'
  BY RacesGrow DEF S!Undefined
<1>b. /\ \A t, u \in Threads : at[t] \in Dooming /\ at[u] \in Dooming => t = u
      /\ \A t \in Threads : at[t] \in Dooming => has = {}
      /\ \A t \in Threads : at[t] \in Dooming \ {"destroy"} => sharedLife = "dying"
      /\ \A t \in Threads : at[t] = "destroy" => sharedLife = "alive"
      /\ sharedLife # "alive" => has = {}
      /\ \A t \in Threads : at[t] \in Weakening => t \in has
  BY <1>a DEF DoomInv, HasInv
<1>c. S!BlockUnused(sharedWeakCount) <=> sharedWeak = {}
  BY <1>a, NoneIn DEF WeakInv
<1>d. S!BlockUnused(sharedWeakCount') <=> sharedWeak' = {}
  <2>1. S!TypeOK' /\ WeakInv'
    BY SharedTypeStep, WeakStep
  <2>2. sharedWeak' \subseteq Threads /\ sharedWeakCount' = Cardinality(sharedWeak')
    BY <1>a, <2>1 DEF WeakInv
  <2> QED BY <2>2, NoneIn
<1>1. ASSUME NEW t \in Threads,
             \/ \E u \in Threads : S!Copy(t, u)
             \/ S!Drop(t) \/ S!Released(t) \/ S!Pin(t) \/ S!Unpin(t) \/ S!Unpinned(t)
             \/ S!Leave(t) \/ S!Lock(t) \/ S!Upgrade(t)
      PROVE  BlockInv'
  <2>1. /\ UNCHANGED <<sharedLife, controlled, sharedBlock, expired, sharedWeak>>
        /\ \A u \in Threads : at'[u] \in {"make", "add", "destructor", "expire", "expired", "left"} =>
             at'[u] = at[u]
        /\ \A u \in Threads : at[u] \in {"make", "left"} => at'[u] = at[u]
    BY <1>1 DEF S!Copy, S!Drop, S!Released, S!Pin, S!Unpin, S!Unpinned, S!Leave, S!Lock, S!Upgrade
  <2> QED BY <1>a, <2>1
<1>2. ASSUME NEW t \in Threads, S!Destroy(t) PROVE BlockInv'
  BY <1>2, <1>a, <1>b DEF S!Destroy
<1>3. ASSUME NEW t \in Threads, S!Destructor(t) PROVE BlockInv'
  BY <1>3, <1>a, <1>b DEF S!Destructor
<1>4. ASSUME NEW t \in Threads, S!Expire(t) PROVE BlockInv'
  BY <1>4, <1>a, <1>b DEF S!Expire
<1>5. ASSUME NEW t \in Threads, S!Expired(t) PROVE BlockInv'
  BY <1>5, <1>a, <1>b, <1>c DEF S!Expired
<1>6. ASSUME NEW t \in Threads, S!Weaken(t) PROVE BlockInv'
  BY <1>6, <1>a, <1>b DEF S!Weaken
<1>7. ASSUME NEW t \in Threads, S!Make(t) PROVE BlockInv'
  BY <1>7, <1>a, <1>b DEF S!Make
<1>8. ASSUME NEW t \in Threads, S!Take(t) PROVE BlockInv'
  BY <1>8, <1>a, <1>b DEF S!Take
<1>9. ASSUME NEW t \in Threads, S!Add(t) PROVE BlockInv'
  BY <1>9, <1>a, <1>b DEF S!Add
<1>10. ASSUME NEW t \in Threads, S!Left(t) PROVE BlockInv'
  BY <1>10, <1>a, <1>b, <1>d DEF S!Left, WeakInv
<1>11. ASSUME NEW t \in Threads, S!Deleted(t) PROVE BlockInv'
  BY <1>11, <1>a, <1>b DEF S!Deleted
<1>12. CASE UNCHANGED S!vars
  BY <1>12, <1>a DEF S!vars
<1> QED BY <1>1, <1>2, <1>3, <1>4, <1>5, <1>6, <1>7, <1>8, <1>9, <1>10, <1>11, <1>12 DEF S!Next

\* An object that threads share is destroyed once and its block once, after all
\* that use them, and does not leak, but for the races that the code has.
THEOREM SharedIsSafe == S!Spec => []SharedSafe
<1>1. S!Init => SharedInv
  <2> SUFFICES ASSUME S!Init PROVE SharedInv
    OBVIOUS
  <2>1. PICK t \in Threads : has = {t}
    BY DEF S!Init
  <2>2. Cardinality(has) = 1 /\ Cardinality({}) = 0
    BY <2>1, FS_Singleton, FS_EmptySet
  <2>3. sharedCount = 1 /\ 1 \in 0 .. Cardinality(Threads) /\ 0 \in 0 .. Cardinality(Threads)
    BY SharedConstants DEF S!Init
  <2>4. S!TypeOK
    BY <2>1, <2>3, SharedConstants DEF S!Init, S!TypeOK, S!Races
  <2>5. HasInv
    BY <2>2, <2>3 DEF S!Init, HasInv, Weakening
  <2>6. WeakInv
    BY <2>2 DEF S!Init, WeakInv
  <2>7. BlockInv
    BY DEF S!Init, BlockInv
  <2>8. DestroysInv
    BY DEF S!Init, DestroysInv
  <2> QED BY <2>1, <2>4, <2>5, <2>6, <2>7, <2>8 DEF S!Init, SharedInv, DoomInv, Dooming, LeakInv
<1>2. SharedInv /\ [S!Next]_S!vars => SharedInv'
  BY SharedTypeStep, WeakStep, DoomStep, DestroysStep, LeakStep, BlockStep DEF SharedInv
<1>3. SharedInv => SharedSafe
  <2> SUFFICES ASSUME SharedInv PROVE S!TypeOK /\ S!DestroyedOnce /\ S!BlockThere /\ S!NoneLeaks
    BY DEF SharedSafe
  <2>1. races \cap {"unpin", "upgrade"} = {} => destroys <= 1
    <3>1. DestroysInv
      BY DEF SharedInv
    <3>2. ASSUME races \cap {"unpin", "upgrade"} = {} PROVE destroys \in {0, 1}
      BY <3>1, <3>2 DEF DestroysInv
    <3> QED BY <3>2
  <2>2. S!DestroyedOnce
    BY <2>1 DEF S!DestroyedOnce, SharedInv, DoomInv
  <2>3. races = {} /\ sharedWeak = {} => sharedWeakCount = 0
    <3>1. races = {} => sharedWeakCount = Cardinality(sharedWeak)
      BY DEF SharedInv, WeakInv, S!Undefined
    <3> QED BY <3>1, FS_EmptySet
  <2>4. S!BlockThere
    BY <2>3 DEF S!BlockThere, SharedInv, BlockInv, S!At
  <2>5. S!NoneLeaks
    BY DEF S!NoneLeaks, SharedInv, LeakInv, S!At, Dooming
  <2> QED BY <2>2, <2>4, <2>5 DEF SharedInv
<1> QED BY <1>1, <1>2, <1>3, PTL DEF S!Spec

----------------------------------------------------------------------------
\* Settings.

\* The file has the value of a setting, or the default that it is meant to have.
InFile(k) == file[k] = value[k] \/ (value[k] = C!Unset /\ file[k] = default[k])

\* What is to be written, or was read, is what the settings are; outside save()
\* the file is what was read or written last.
StoreInv ==
  /\ saving => saves # <<>> /\ \A k \in Keys : store[k] = C!Kept(k)
  /\ ~saving => store = file

CleanInv == ~saving /\ ~modified /\ ~unsaved => \A k \in registered : InFile(k)

\* The file has what was saved of the settings that are not forgotten, and
\* those not registered are forgotten when the others are saved.
FileInv ==
  /\ saving => Keys \ registered \subseteq forgotten
  /\ ~saving => \A k \in Keys \ forgotten : file[k] = saved[k]

FreshInv == (\A k \in fresh : new[k] = C!Nothing) /\ C!Remembered

SettingsInv == C!TypeOK /\ StoreInv /\ CleanInv /\ FileInv /\ FreshInv

\* What the assumptions say of the constants.
LEMMA SettingsConstants ==
  /\ Keys \subseteq Nat \ {0} /\ Values # {} /\ MaxRuns \in Nat /\ MaxDepth \in Nat /\ MaxChanges \in Nat
  /\ C!Behind \in Nat /\ \A k \in Keys : k < C!Behind
<1> USE PartsAssumption DEF C!SettingsAssumption
<1>1. CASE Keys = {}
  BY <1>1 DEF C!Behind
<1>2. CASE Keys # {}
  <2> DEFINE last == CHOOSE k \in Keys : \A j \in Keys : j <= k
  <2>1. last \in Keys /\ \A j \in Keys : j <= last
    BY <1>2
  <2>2. C!Behind = last + 1
    BY <1>2 DEF C!Behind
  <2> HIDE DEF last
  <2> QED BY <2>1, <2>2
<1> QED BY <1>1, <1>2

\* The values of setting k are those it may have.
LEMMA AppliedType ==
  ASSUME C!TypeOK, NEW k \in registered, C!AppliedTo(k), new[k] # C!Nothing
  PROVE  /\ value' \in C!Stored /\ new' \in [Keys -> Values \cup {C!Unset, C!Nothing}]
         /\ modified' \in BOOLEAN /\ unsaved' = unsaved
         /\ \A j \in Keys \ registered : value'[j] = value[j] /\ new'[j] = new[j]
BY DEF C!TypeOK, C!AppliedTo, C!Stored

\* The types are kept.
LEMMA SettingsTypeStep == C!TypeOK /\ [C!Next]_C!vars => C!TypeOK'
<1> SUFFICES ASSUME C!TypeOK, [C!Next]_C!vars PROVE C!TypeOK'
  OBVIOUS
<1> USE SettingsConstants DEF C!TypeOK, C!Stored, C!setting, C!history, C!Call, C!MayCall
<1>1. ASSUME NEW k \in Keys, NEW v \in Values, C!Register(k, v) PROVE C!TypeOK'
  BY <1>1 DEF C!Register
<1>2. ASSUME NEW k \in Keys, NEW v \in Values, C!SetValue(k, v) PROVE C!TypeOK'
  BY <1>2 DEF C!SetValue, C!NewFor
<1>3. ASSUME NEW k \in Keys, NEW v \in Values, C!SetDefault(k, v) PROVE C!TypeOK'
  BY <1>3 DEF C!SetDefault
<1>4. ASSUME NEW k \in Keys, NEW v \in Values, C!Change(k, v) PROVE C!TypeOK'
  <2>1. saves' \in Seq(0 .. C!Behind) /\ Len(saves') <= MaxDepth
    BY <1>4 DEF C!Change
  <2> QED BY <1>4, <2>1 DEF C!Change, C!NewFor
<1>5. ASSUME NEW k \in Keys, C!Clear(k) PROVE C!TypeOK'
  BY <1>5 DEF C!Clear
<1>6. ASSUME NEW k \in Keys, C!SetEnabled(k) PROVE C!TypeOK'
  BY <1>6 DEF C!SetEnabled
<1>7. ASSUME NEW k \in Keys, C!Delete(k) PROVE C!TypeOK'
  <2>1. saves' \in Seq(0 .. C!Behind) /\ Len(saves') <= MaxDepth
    BY <1>7 DEF C!Delete
  <2> QED BY <1>7, <2>1 DEF C!Delete
<1>8. ASSUME NEW k \in Keys, C!ApplyNext(k) PROVE C!TypeOK'
  <2>1. saves' \in Seq(0 .. C!Behind) /\ Len(saves') <= MaxDepth
    BY <1>8 DEF C!ApplyNext
  <2>2. k \in registered /\ new[k] # C!Nothing
    BY <1>8 DEF C!ApplyNext, C!Turn, C!Ahead
  <2> QED BY <1>8, <2>1, <2>2, AppliedType DEF C!ApplyNext
<1>9. ASSUME NEW k \in Keys, C!ApplyThrows(k) PROVE C!TypeOK'
  <2>1. saves' \in Seq(0 .. C!Behind) /\ Len(saves') <= MaxDepth
    BY <1>9 DEF C!ApplyThrows
  <2>2. k \in registered /\ new[k] # C!Nothing
    BY <1>9 DEF C!ApplyThrows, C!Turn, C!Ahead
  <2> QED BY <1>9, <2>1, <2>2, AppliedType DEF C!ApplyThrows
<1>10. CASE C!Discard
  BY <1>10 DEF C!Discard
<1>11. CASE C!Apply
  <2>1. saves' \in Seq(0 .. C!Behind) /\ Len(saves') <= MaxDepth
    BY <1>11 DEF C!Apply
  <2> QED BY <1>11, <2>1 DEF C!Apply
<1>12. CASE C!Announce
  <2>1. saves' \in Seq(0 .. C!Behind) /\ Len(saves') <= MaxDepth
    BY <1>12 DEF C!Announce
  <2> QED BY <1>12, <2>1 DEF C!Announce
<1>13. CASE C!Save
  BY <1>13 DEF C!Save, C!Kept
<1>14. CASE C!Saved
  <2>1. saves' \in Seq(0 .. C!Behind) /\ Len(saves') <= MaxDepth
    BY <1>14 DEF C!Saved, C!Front
  <2> QED BY <1>14, <2>1 DEF C!Saved
<1>15. CASE C!Restart
  <2>1. saves' \in Seq(0 .. C!Behind) /\ Len(saves') <= MaxDepth
    BY <1>15 DEF C!Restart
  <2>2. runs' \in 0 .. MaxRuns
    BY <1>15 DEF C!Restart
  <2>3. store' \in C!Stored /\ file' \in C!Stored /\ forgotten' \subseteq Keys
    BY <1>15 DEF C!Restart
  <2> QED BY <1>15, <2>1, <2>2, <2>3 DEF C!Restart
<1>16. CASE UNCHANGED C!vars
  BY <1>16 DEF C!vars
<1> QED BY <1>1, <1>2, <1>3, <1>4, <1>5, <1>6, <1>7, <1>8, <1>9, <1>10, <1>11, <1>12, <1>13, <1>14,
           <1>15, <1>16 DEF C!Next

\* The store, the file and the settings saved go together, and what is new is remembered.
LEMMA SettingsInvStep ==
  ASSUME SettingsInv, [C!Next]_C!vars
  PROVE  StoreInv' /\ CleanInv' /\ FileInv' /\ FreshInv'
<1> USE DEF SettingsInv, StoreInv, CleanInv, FileInv, FreshInv, InFile, C!Remembered, C!ValueOf, C!Kept,
            C!TypeOK, C!Stored, C!setting, C!history, C!MayCall, C!Call
<1>1. ASSUME NEW k \in Keys, NEW v \in Values, C!Register(k, v)
      PROVE  StoreInv' /\ CleanInv' /\ FileInv' /\ FreshInv'
  BY <1>1 DEF C!Register
<1>2. ASSUME NEW k \in Keys, NEW v \in Values, C!SetValue(k, v)
      PROVE  StoreInv' /\ CleanInv' /\ FileInv' /\ FreshInv'
  BY <1>2 DEF C!SetValue
<1>3. ASSUME NEW k \in Keys, NEW v \in Values, C!SetDefault(k, v)
      PROVE  StoreInv' /\ CleanInv' /\ FileInv' /\ FreshInv'
  BY <1>3 DEF C!SetDefault
<1>4. ASSUME NEW k \in Keys, NEW v \in Values, C!Change(k, v)
      PROVE  StoreInv' /\ CleanInv' /\ FileInv' /\ FreshInv'
  BY <1>4 DEF C!Change
<1>5. ASSUME NEW k \in Keys, C!Clear(k) \/ C!SetEnabled(k)
      PROVE  StoreInv' /\ CleanInv' /\ FileInv' /\ FreshInv'
  BY <1>5 DEF C!Clear, C!SetEnabled
<1>7. ASSUME NEW k \in Keys, C!Delete(k)
      PROVE  StoreInv' /\ CleanInv' /\ FileInv' /\ FreshInv'
  BY <1>7 DEF C!Delete
<1>8. ASSUME NEW k \in Keys, C!ApplyNext(k) \/ C!ApplyThrows(k)
      PROVE  StoreInv' /\ CleanInv' /\ FileInv' /\ FreshInv'
  <2>1. k \in registered /\ new[k] # C!Nothing /\ k \notin fresh
    BY <1>8 DEF C!ApplyNext, C!ApplyThrows, C!Turn, C!Ahead
  <2>2. /\ UNCHANGED <<registered, default, saving, store, file, saved, fresh, forgotten>> /\ ~saving
        /\ value' = [value EXCEPT ![k] = new[k]] /\ new' = [new EXCEPT ![k] = C!Nothing]
    BY <1>8 DEF C!ApplyNext, C!ApplyThrows, C!AppliedTo
  <2>3. ~modified' /\ ~unsaved' => ~modified /\ ~unsaved /\ value[k] = new[k]
    BY <1>8 DEF C!ApplyNext, C!ApplyThrows, C!AppliedTo
  <2>4. CleanInv'
    BY <2>1, <2>2, <2>3
  <2> QED BY <2>1, <2>2, <2>4
<1>10. CASE C!Discard
  BY <1>10 DEF C!Discard
<1>11. CASE C!Apply \/ C!Announce
  BY <1>11 DEF C!Apply, C!Announce
<1>13. CASE C!Save
  BY <1>13 DEF C!Save
<1>14. CASE C!Saved
  BY <1>14 DEF C!Saved
<1>15. CASE C!Restart
  BY <1>15 DEF C!Restart
<1>16. CASE UNCHANGED C!vars
  BY <1>16 DEF C!vars
<1> HIDE DEF StoreInv, CleanInv, FileInv, FreshInv, InFile, C!TypeOK
<1> QED BY <1>1, <1>2, <1>3, <1>4, <1>5, <1>7, <1>8, <1>10, <1>11, <1>13, <1>14, <1>15, <1>16 DEF C!Next

\* Settings that say they are not modified are in the file, and a setting has
\* the value that was saved last, whatever handlers call and whenever the
\* program ends.
THEOREM SettingsAreSafe == C!Spec => []SettingsSafe
<1>1. C!Init => SettingsInv
  <2> SUFFICES ASSUME C!Init PROVE SettingsInv
    OBVIOUS
  <2>1. (CHOOSE v \in Values : TRUE) \in Values
    BY SettingsConstants
  <2>2. C!TypeOK
    <3>1. saves \in Seq(0 .. C!Behind) /\ Len(saves) <= MaxDepth
      BY SettingsConstants DEF C!Init
    <3>2. runs \in 0 .. MaxRuns /\ changes \in 0 .. MaxChanges
      BY SettingsConstants DEF C!Init
    <3> QED BY <2>1, <3>1, <3>2 DEF C!Init, C!TypeOK, C!Stored
  <2> QED BY <2>2 DEF C!Init, SettingsInv, StoreInv, CleanInv, FileInv, FreshInv, C!Remembered
<1>2. SettingsInv /\ [C!Next]_C!vars => SettingsInv'
  <2> SUFFICES ASSUME SettingsInv, [C!Next]_C!vars PROVE SettingsInv'
    OBVIOUS
  <2>1. StoreInv' /\ CleanInv' /\ FileInv' /\ FreshInv'
    BY SettingsInvStep
  <2> QED BY <2>1, SettingsTypeStep DEF SettingsInv
<1>3. SettingsInv => SettingsSafe
  BY DEF SettingsInv, SettingsSafe, StoreInv, CleanInv, InFile, FreshInv, C!CleanIsSaved, C!ValueOf, C!Changed
<1> QED BY <1>1, <1>2, <1>3, PTL DEF C!Spec

----------------------------------------------------------------------------
(* The gap vector.                                                         *)

Vec(cells, cap, end, begin, stop) ==
  [cell |-> cells, cap |-> cap, end |-> end, from |-> begin, to |-> stop]

\* A vector's members, as records have them, and its gap in its data.
Placed(v) ==
  /\ v = Vec(v.cell, v.cap, v.end, v.from, v.to)
  /\ v.cap \in Nat /\ v.end \in Nat /\ v.end <= v.cap /\ v.from \in Nat /\ v.to \in Nat
  /\ v.from # v.to => v.from < v.to /\ v.to <= v.end

\* Item i is in the cell Spot(v, i); behind the last item is the end.
Spot(v, i) == IF i < G!Size(v) THEN G!Index(v, i) ELSE G!End(v)

\* What is to be in the cell k of v when the items are f: "raw" stands for no
\* object, or one that was moved from.
Wanted(v, f, k) ==
  IF k < v.end /\ (v.from = v.to \/ k < v.from) THEN f[k]
  ELSE IF k < v.end /\ k >= v.to THEN f[k - (v.to - v.from)]
  ELSE "raw"

Alike(c, d) == IF d \in Values THEN c = d ELSE c \in {"raw", "moved"}

Items(n) == [0 .. n - 1 -> Values]
Places(n) == [0 .. n - 1 -> Values \cup {"raw"}]

\* The cells of v hold f, whose places for items yet to be constructed are
\* "raw", and no other object that was not moved from.
Holds(v, f) ==
  /\ Placed(v) /\ v.cell \in G!Storage(v.cap)
  /\ f \in Places(G!Size(v))
  /\ \A k \in 0 .. v.cap - 1 : Alike(v.cell[k], Wanted(v, f, k))

LEMMA GapConstants ==
  /\ "raw" \notin Values /\ "moved" \notin Values /\ "bad" \notin Values
  /\ DefaultGapSize \in Nat /\ DefaultGapSize > 0 /\ NearnessFactor \in Nat
  /\ MaxInsert \in Nat /\ MaxEach \in Nat /\ MaxSize \in Nat /\ Reservations \subseteq Nat
BY PartsAssumption DEF G!GapAssumption

LEMMA SizeIs ==
  ASSUME NEW v, Placed(v)
  PROVE  /\ G!Size(v) \in Nat /\ G!Size(v) <= v.end
         /\ v.from = v.to => G!Size(v) = v.end
         /\ v.from # v.to => G!Size(v) = v.end - (v.to - v.from)
BY DEF Placed, G!Size, G!Gap

\* Iterators: += from the beginning, ...
LEMMA PlusFromBegin ==
  ASSUME NEW v, Placed(v), NEW i \in 0 .. G!Size(v)
  PROVE  G!Plus(v, G!Begin(v), i) = Spot(v, i)
BY DEF Placed, G!Size, G!Gap, G!Plus, G!Begin, G!Active, G!Index, G!End, Spot

\* ... and each of the others from any item.
LEMMA IteratorsMeet ==
  ASSUME NEW v, Placed(v), NEW i \in 0 .. G!Size(v), NEW j \in 0 .. G!Size(v), i <= j
  PROVE  /\ j = G!Size(v) <=> Spot(v, j) = G!End(v)
         /\ G!Plus(v, Spot(v, i), j - i) = Spot(v, j)
         /\ G!Minus(v, Spot(v, j), j - i) = Spot(v, i)
         /\ G!Distance(v, Spot(v, j), Spot(v, i)) = j - i
         /\ G!Distance(v, Spot(v, i), Spot(v, j)) = i - j
<1>1. j = G!Size(v) <=> Spot(v, j) = G!End(v)
  BY DEF Placed, G!Size, G!Gap, G!Active, G!Index, G!End, Spot
<1>2. G!Plus(v, Spot(v, i), j - i) = Spot(v, j)
  BY DEF Placed, G!Size, G!Gap, G!Plus, G!Active, G!Index, G!End, Spot
<1>3. G!Minus(v, Spot(v, j), j - i) = Spot(v, i)
  BY DEF Placed, G!Size, G!Gap, G!Minus, G!Active, G!Index, G!End, Spot
<1>4. PICK p, q : p = Spot(v, i) /\ q = Spot(v, j)
  OBVIOUS
<1>5. ASSUME v.from = v.to PROVE G!Distance(v, q, p) = j - i /\ G!Distance(v, p, q) = i - j
  BY <1>4, <1>5 DEF Placed, G!Size, G!Gap, G!Distance, G!Before, G!After, G!Active, G!Index, G!End, Spot
<1>6. ASSUME v.from # v.to PROVE G!Distance(v, q, p) = j - i /\ G!Distance(v, p, q) = i - j
  <2>1. /\ v.from \in Nat /\ v.to \in Nat /\ v.end \in Nat /\ v.from < v.to /\ v.to <= v.end
        /\ G!Size(v) = v.end - (v.to - v.from)
    BY <1>6 DEF Placed, G!Size, G!Gap
  <2>2. /\ i < v.from => p = i /\ p < v.from
        /\ i > v.from => p = i + (v.to - v.from) /\ p >= v.to
        /\ i = v.from => (p = v.from /\ v.to = v.end /\ v.from # 0) \/ p = v.to
    BY <1>4, <2>1, <1>6 DEF G!Gap, G!Active, G!Index, G!End, Spot
  <2>3. /\ j < v.from => q = j /\ q < v.from
        /\ j > v.from => q = j + (v.to - v.from) /\ q >= v.to
        /\ j = v.from => (q = v.from /\ v.to = v.end /\ v.from # 0) \/ q = v.to
    BY <1>4, <2>1, <1>6 DEF G!Gap, G!Active, G!Index, G!End, Spot
  <2>4. i = j => p = q
    BY <1>4
  <2>5. v.to = v.end => G!Size(v) = v.from
    BY <2>1
  <2>6. G!Distance(v, q, p) = j - i
    BY <2>1, <2>2, <2>3, <2>4, <2>5, <1>6 DEF G!Gap, G!Distance, G!Before, G!After, G!Active
  <2>7. G!Distance(v, p, q) = i - j
    BY <2>1, <2>2, <2>3, <2>4, <2>5, <1>6 DEF G!Gap, G!Distance, G!Before, G!After, G!Active
  <2> QED BY <2>6, <2>7
<1> QED BY <1>1, <1>2, <1>3, <1>4, <1>5, <1>6

LEMMA SpotWithin ==
  ASSUME NEW v, Placed(v), NEW i \in 0 .. G!Size(v)
  PROVE  Spot(v, i) \in 0 .. v.end
BY DEF Placed, G!Size, G!Gap, G!Active, G!Index, G!End, Spot

\* What is to be in the cell k when the objects in the cells from `first` up
\* to `last` were moved to `dest`, and those from `low` up to `high`
\* destroyed.
Shifted(v, f, first, last, dest, low, high, k) ==
  IF k >= low /\ k < high THEN "raw"
  ELSE IF k >= dest /\ k < dest + (last - first) THEN Wanted(v, f, first + (k - dest))
  ELSE IF k >= first /\ k < last THEN "raw"
  ELSE Wanted(v, f, k)

\* Every operation moves objects, to cells that have none, where they are
\* constructed, or that have one, where they are assigned, and destroys some.
LEMMA ShiftedCells ==
  ASSUME NEW v, NEW f, Holds(v, f), NEW unused,
         NEW first \in Int, NEW last \in Int, NEW dest \in Int, NEW low \in Int, NEW high \in Int,
         0 <= first, first <= last, last <= v.cap, 0 <= dest, dest + (last - first) <= v.cap,
         0 <= low, high <= v.cap,
         \A k \in 0 .. v.cap - 1 : k >= first /\ k < last => Wanted(v, f, k) \in Values,
         \A k \in 0 .. v.cap - 1 : k >= dest /\ k < dest + (last - first) =>
           IF k \in unused THEN Wanted(v, f, k) \notin Values ELSE Wanted(v, f, k) \in Values,
         \A k \in 0 .. v.cap - 1 : k >= low /\ k < high =>
           \/ k >= dest /\ k < dest + (last - first)
           \/ k >= first /\ k < last
           \/ Wanted(v, f, k) \in Values,
         NEW c, c = G!Destroyed(G!Moved(v, first, last, dest, unused), low, high)
  PROVE  /\ c \in G!Storage(v.cap)
         /\ \A k \in 0 .. v.cap - 1 :
              Alike(c[k], Shifted(v, f, first, last, dest, low, high, k))
<1>1. PICK b : b = G!Moved(v, first, last, dest, unused)
  OBVIOUS
<1>c. v.cap \in Nat
  BY DEF Holds, Placed
<1>2. DOMAIN b = 0 .. v.cap - 1
  BY <1>1 DEF G!Moved, G!Positions
<1>3. \A k \in 0 .. v.cap - 1 :
        b[k] = IF k \in dest .. dest + (last - first) - 1
               THEN IF /\ v.cell[first + (k - dest)] \in Values
                       /\ IF k \in unused THEN v.cell[k] \in {"raw", "moved"} ELSE v.cell[k] \notin {"raw", "bad"}
                    THEN v.cell[first + (k - dest)] ELSE "bad"
               ELSE IF k \in first .. last - 1 THEN "moved" ELSE v.cell[k]
  BY <1>1 DEF G!Moved, G!Positions
<1>4. c = [k \in 0 .. v.cap - 1 |->
            IF k \in low .. high - 1 THEN (IF b[k] \in {"raw", "bad"} THEN "bad" ELSE "raw") ELSE b[k]]
  BY <1>1, <1>2 DEF G!Destroyed
<1>h. \A k \in 0 .. v.cap - 1 : Alike(v.cell[k], Wanted(v, f, k))
  BY DEF Holds
<1>5. ASSUME NEW k \in 0 .. v.cap - 1
      PROVE  /\ Alike(c[k], Shifted(v, f, first, last, dest, low, high, k))
             /\ c[k] \in Values \cup {"raw", "moved", "bad"}
  <2>1. /\ k \in dest .. dest + (last - first) - 1 <=> k >= dest /\ k < dest + (last - first)
        /\ k \in first .. last - 1 <=> k >= first /\ k < last
        /\ k \in low .. high - 1 <=> k >= low /\ k < high
    BY <1>c
  <2>2. IF Wanted(v, f, k) \in Values THEN v.cell[k] = Wanted(v, f, k) ELSE v.cell[k] \in {"raw", "moved"}
    BY <1>h DEF Alike
  <2>3. CASE k >= dest /\ k < dest + (last - first)
    <3>1. PICK j : j = first + (k - dest)
      OBVIOUS
    <3>2. j \in 0 .. v.cap - 1 /\ j >= first /\ j < last
      BY <3>1, <2>3, <1>c
    <3>3. Wanted(v, f, j) \in Values /\ v.cell[j] = Wanted(v, f, j)
      BY <3>2, <1>h DEF Alike
    <3>4. IF k \in unused THEN v.cell[k] \in {"raw", "moved"} ELSE v.cell[k] \notin {"raw", "bad"}
      BY <2>2, <2>3, GapConstants
    <3>5. b[k] = Wanted(v, f, j)
      BY <1>3, <2>1, <2>3, <3>1, <3>3, <3>4
    <3>6. CASE k >= low /\ k < high
      <4>1. c[k] = "raw"
        BY <1>4, <2>1, <3>3, <3>5, <3>6, GapConstants
      <4> QED BY <4>1, <3>6, GapConstants DEF Alike, Shifted
    <3>7. CASE ~ (k >= low /\ k < high)
      <4>1. c[k] = Wanted(v, f, j)
        BY <1>4, <2>1, <3>5, <3>7
      <4> QED BY <4>1, <3>1, <3>3, <3>7, <2>3 DEF Alike, Shifted
    <3> QED BY <3>6, <3>7
  <2>4. CASE ~ (k >= dest /\ k < dest + (last - first)) /\ k >= first /\ k < last
    <3>1. b[k] = "moved"
      BY <1>3, <2>1, <2>4
    <3>2. CASE k >= low /\ k < high
      <4>1. c[k] = "raw"
        BY <1>4, <2>1, <3>1, <3>2
      <4> QED BY <4>1, <3>2, GapConstants DEF Alike, Shifted
    <3>3. CASE ~ (k >= low /\ k < high)
      <4>1. c[k] = "moved"
        BY <1>4, <2>1, <3>1, <3>3
      <4> QED BY <4>1, <3>3, <2>4, GapConstants DEF Alike, Shifted
    <3> QED BY <3>2, <3>3
  <2>5. CASE ~ (k >= dest /\ k < dest + (last - first)) /\ ~ (k >= first /\ k < last)
    <3>1. b[k] = v.cell[k]
      BY <1>3, <2>1, <2>5
    <3>2. CASE k >= low /\ k < high
      <4>1. Wanted(v, f, k) \in Values
        BY <2>5, <3>2
      <4>2. c[k] = "raw"
        BY <1>4, <2>1, <2>2, <3>1, <3>2, <4>1, GapConstants
      <4> QED BY <4>2, <3>2, GapConstants DEF Alike, Shifted
    <3>3. CASE ~ (k >= low /\ k < high)
      <4>1. c[k] = v.cell[k]
        BY <1>4, <2>1, <3>1, <3>3
      <4> QED BY <4>1, <3>3, <2>2, <2>5 DEF Alike, Shifted
    <3> QED BY <3>2, <3>3
  <2> QED BY <2>3, <2>4, <2>5
<1>6. c \in G!Storage(v.cap)
  BY <1>4, <1>5 DEF G!Storage
<1> QED BY <1>5, <1>6

\* A vector with these members.
LEMMA VecPlaced ==
  ASSUME NEW cap \in Nat, NEW end \in Nat, NEW begin \in Nat, NEW stop \in Nat, end <= cap,
         begin <= stop, begin # stop => stop <= end, NEW c, NEW w,
         w = Vec(c, cap, end, begin, stop)
  PROVE  /\ w.cell = c /\ w.cap = cap /\ w.end = end /\ w.from = begin /\ w.to = stop
         /\ Placed(w) /\ G!Size(w) = end - (stop - begin) /\ G!Size(w) \in Nat
<1>1. w.cell = c /\ w.cap = cap /\ w.end = end /\ w.from = begin /\ w.to = stop
  BY DEF Vec
<1>2. Placed(w)
  BY <1>1 DEF Placed
<1> QED BY <1>1, <1>2, SizeIs

LEMMA HoldsIs ==
  ASSUME NEW w, Placed(w), NEW c, w.cell = c, NEW cap, w.cap = cap, NEW m, G!Size(w) = m,
         c \in G!Storage(cap), NEW g \in Places(m),
         \A k \in 0 .. cap - 1 : Alike(c[k], Wanted(w, g, k))
  PROVE  Holds(w, g)
BY DEF Holds

\* data() and others: the gap goes, and nothing else changes.
LEMMA UnsplitHolds ==
  ASSUME NEW v, NEW f \in Items(G!Size(v)), Holds(v, f)
  PROVE  /\ Holds(G!Unsplit(v), f)
         /\ G!Unsplit(v).cap = v.cap /\ G!Unsplit(v).end = G!Size(v)
         /\ G!Unsplit(v).from = G!Unsplit(v).to /\ G!Size(G!Unsplit(v)) = G!Size(v)
<1>1. PICK m : m = G!Size(v)
  OBVIOUS
<1>2. Placed(v) /\ m \in Nat
  BY <1>1, SizeIs DEF Holds
<1>3. CASE v.from = v.to
  BY <1>1, <1>2, <1>3, SizeIs DEF G!Unsplit, G!Active
<1>4. CASE v.from # v.to
  <2>1. /\ v.cap \in Nat /\ v.end \in Nat /\ v.end <= v.cap /\ v.from \in Nat /\ v.to \in Nat
        /\ v.from < v.to /\ v.to <= v.end /\ m = v.end - (v.to - v.from) /\ G!Gap(v) = v.to - v.from
    BY <1>1, <1>2, <1>4, SizeIs DEF Placed, G!Gap
  <2>2. PICK low : low = G!MaxOf(m, v.to)
    OBVIOUS
  <2>3. low \in Int /\ low >= m /\ low >= v.to /\ (low = m \/ low = v.to)
    BY <2>1, <2>2, <1>2 DEF G!MaxOf
  <2>4. PICK c : c = G!Destroyed(G!Moved(v, v.to, v.end, v.from, 0 .. v.to - 1), low, v.end)
    OBVIOUS
  <2>5. PICK u : u = G!Unsplit(v)
    OBVIOUS
  <2>6. u = Vec(c, v.cap, m, 0, 0)
    BY <1>4, <2>1, <2>2, <2>4, <2>5 DEF G!Unsplit, G!Active, Vec
  <2>7. \A k \in 0 .. v.cap - 1 :
          /\ k < v.from => Wanted(v, f, k) = f[k] /\ f[k] \in Values
          /\ k >= v.to /\ k < v.end =>
               /\ Wanted(v, f, k) = f[k - (v.to - v.from)]
               /\ f[k - (v.to - v.from)] \in Values
          /\ (k >= v.from /\ k < v.to) \/ k >= v.end => Wanted(v, f, k) = "raw"
    <3>1. \A j \in 0 .. m - 1 : f[j] \in Values
      BY <1>1 DEF Items
    <3>2. ASSUME NEW k \in 0 .. v.cap - 1, k < v.from PROVE k \in 0 .. m - 1 /\ k < v.end
      BY <2>1, <3>2
    <3>3. ASSUME NEW k \in 0 .. v.cap - 1, k >= v.to, k < v.end
          PROVE  k - (v.to - v.from) \in 0 .. m - 1 /\ ~ (k < v.from)
      BY <2>1, <3>3
    <3> QED BY <2>1, <3>1, <3>2, <3>3, <1>4 DEF Wanted
  <2>8. /\ c \in G!Storage(v.cap)
        /\ \A k \in 0 .. v.cap - 1 :
             Alike(c[k], Shifted(v, f, v.to, v.end, v.from, low, v.end, k))
    <3>1. \A k \in 0 .. v.cap - 1 : k \in 0 .. v.to - 1 <=> k < v.to
      BY <2>1
    <3>2. /\ v.to \in Int /\ v.end \in Int /\ v.from \in Int /\ low \in Int
          /\ 0 <= v.to /\ v.to <= v.end /\ v.end <= v.cap /\ 0 <= v.from
          /\ v.from + (v.end - v.to) <= v.cap /\ 0 <= low
      BY <2>1, <2>3
    <3>3. \A k \in 0 .. v.cap - 1 : k >= v.to /\ k < v.end => Wanted(v, f, k) \in Values
      BY <2>7
    <3>4. ASSUME NEW k \in 0 .. v.cap - 1, k >= v.from, k < v.from + (v.end - v.to)
          PROVE  IF k \in 0 .. v.to - 1 THEN Wanted(v, f, k) \notin Values ELSE Wanted(v, f, k) \in Values
      BY <2>1, <2>7, <3>1, <3>4, GapConstants
    <3>5. ASSUME NEW k \in 0 .. v.cap - 1, k >= low, k < v.end
          PROVE  k >= v.to /\ k < v.end
      BY <2>1, <2>3, <3>5
    <3> QED BY <2>4, <3>2, <3>3, <3>4, <3>5, ShiftedCells
  <2>9. ASSUME NEW k \in 0 .. v.cap - 1
        PROVE  Shifted(v, f, v.to, v.end, v.from, low, v.end, k) = Wanted(u, f, k)
    <3>1. Wanted(u, f, k) = IF k < m THEN f[k] ELSE "raw"
      BY <2>6, <1>2 DEF Wanted, Vec
    <3>2. CASE k >= v.from /\ k < m
      <4>1. PICK j : j = v.to + (k - v.from)
        OBVIOUS
      <4>2. j \in 0 .. v.cap - 1 /\ j >= v.to /\ j < v.end /\ j - (v.to - v.from) = k
        BY <2>1, <3>2, <4>1
      <4>3. Wanted(v, f, j) = f[k]
        BY <4>2, <2>7
      <4> QED BY <2>1, <2>3, <3>1, <3>2, <4>1, <4>3 DEF Shifted
    <3>3. CASE k < v.from
      BY <2>1, <2>3, <2>7, <3>1, <3>3 DEF Shifted
    <3>4. CASE k >= m
      BY <2>1, <2>3, <2>7, <3>1, <3>4 DEF Shifted
    <3> QED BY <2>1, <3>2, <3>3, <3>4
  <2>10. Holds(u, f) /\ G!Size(u) = m
    <3>1. f \in Places(m)
      BY <1>1 DEF Items, Places
    <3>2. \A k \in 0 .. v.cap - 1 : Alike(c[k], Wanted(u, f, k))
      BY <2>8, <2>9
    <3>3. m \in Nat /\ m <= v.cap /\ v.cap \in Nat /\ m - (0 - 0) = m
      BY <2>1, <1>2
    <3>4. Placed(u) /\ G!Size(u) = m /\ u.cell = c /\ u.cap = v.cap
      BY <3>3, <2>6, VecPlaced
    <3> QED BY <2>8, <3>1, <3>2, <3>4 DEF Holds
  <2> QED BY <1>1, <2>5, <2>6, <2>10 DEF Vec
<1> QED BY <1>3, <1>4

\* reserve() moves the items to a new storage, if it is to be larger.
LEMMA ReserveHolds ==
  ASSUME NEW v, NEW f \in Items(G!Size(v)), Holds(v, f), NEW cap \in Nat
  PROVE  /\ Holds(G!Reserve(v, cap), f)
         /\ G!Size(G!Reserve(v, cap)) = G!Size(v)
         /\ cap > v.cap => /\ G!Reserve(v, cap).cap = cap
                           /\ G!Reserve(v, cap).from = G!Reserve(v, cap).to
<1>1. CASE cap <= v.cap
  BY <1>1 DEF G!Reserve, Holds, Placed
<1>2. CASE cap > v.cap
  <2>1. PICK u : u = G!Unsplit(v)
    OBVIOUS
  <2>2. PICK m : m = G!Size(v)
    OBVIOUS
  <2>3. Holds(u, f) /\ u.cap = v.cap /\ u.end = m /\ u.from = u.to /\ Placed(u)
    BY <2>1, <2>2, UnsplitHolds DEF Holds
  <2>4. v.cap \in Nat /\ m \in Nat /\ m <= v.cap /\ u.from \in Nat
    BY <2>3 DEF Placed
  <2>5. \A k \in 0 .. v.cap - 1 :
          IF k < m THEN u.cell[k] = f[k] /\ f[k] \in Values ELSE u.cell[k] \in {"raw", "moved"}
    <3>1. \A k \in 0 .. v.cap - 1 : Wanted(u, f, k) = IF k < m THEN f[k] ELSE "raw"
      BY <2>3, <2>4 DEF Wanted
    <3>2. \A k \in 0 .. v.cap - 1 : Alike(u.cell[k], Wanted(u, f, k))
      BY <2>3 DEF Holds
    <3>3. \A k \in 0 .. v.cap - 1 : k < m => f[k] \in Values
      BY <2>2, <2>4 DEF Items
    <3> QED BY <3>1, <3>2, <3>3, GapConstants DEF Alike
  <2>6. G!Sound(u)
    BY <2>3, <2>5, GapConstants DEF G!Sound, G!Positions
  <2>7. PICK w : w = G!Reserve(v, cap)
    OBVIOUS
  <2>8. PICK c : c = [k \in 0 .. cap - 1 |-> IF k < m THEN u.cell[k] ELSE "raw"]
    OBVIOUS
  <2>9. w = Vec(c, cap, m, u.from, u.to)
    <3>1. ~ (cap <= v.cap)
      BY <1>2, <2>4
    <3>2. w = [u EXCEPT !.cap = cap,
                        !.cell = [k \in 0 .. cap - 1 |-> IF k < u.end THEN u.cell[k] ELSE "raw"]]
      BY <3>1, <2>1, <2>6, <2>7 DEF G!Reserve
    <3>3. w = [u EXCEPT !.cap = cap, !.cell = c]
      BY <3>2, <2>3, <2>8
    <3> QED BY <3>3, <2>3 DEF Placed, Vec
  <2>10. c \in G!Storage(cap) /\ \A k \in 0 .. cap - 1 : c[k] = IF k < m THEN f[k] ELSE "raw"
    BY <2>4, <2>5, <2>8, <1>2 DEF G!Storage
  <2>11. \A k \in 0 .. cap - 1 : Alike(c[k], Wanted(w, f, k))
    <3>1. \A k \in 0 .. cap - 1 : Wanted(w, f, k) = IF k < m THEN f[k] ELSE "raw"
      BY <2>3, <2>4, <2>9 DEF Wanted, Vec
    <3>2. ASSUME NEW k \in 0 .. cap - 1 PROVE Alike(c[k], Wanted(w, f, k))
      <4>1. c[k] = Wanted(w, f, k)
        BY <3>1, <2>10
      <4>2. k < m => c[k] \in Values
        <5>1. k < m => k \in 0 .. v.cap - 1
          BY <2>4
        <5> QED BY <5>1, <2>5, <2>8
      <4>3. ~ (k < m) => c[k] = "raw"
        BY <2>10
      <4> QED BY <4>1, <4>2, <4>3 DEF Alike
    <3> QED BY <3>2
  <2>12. Holds(w, f) /\ G!Size(w) = m
    <3>1. f \in Places(m)
      BY <2>2 DEF Items, Places
    <3>2. m <= cap /\ u.from <= u.to /\ u.to \in Nat /\ m - (u.to - u.from) = m
      BY <2>3, <2>4, <1>2
    <3>3. Placed(w) /\ G!Size(w) = m /\ w.cell = c /\ w.cap = cap
      BY <3>2, <2>3, <2>4, <2>9, VecPlaced
    <3> QED BY <2>10, <2>11, <3>1, <3>3 DEF Holds
  <2> QED BY <2>2, <2>3, <2>7, <2>9, <2>12, <1>2 DEF Vec
<1> QED BY <1>1, <1>2 DEF Holds, Placed

\* Where the items of v are.
LEMMA WantedSplit ==
  ASSUME NEW v, Placed(v), v.from # v.to, NEW f \in Items(G!Size(v)), NEW k \in 0 .. v.cap - 1
  PROVE  /\ k < v.from => Wanted(v, f, k) = f[k] /\ f[k] \in Values
         /\ k >= v.to /\ k < v.end => /\ Wanted(v, f, k) = f[k - (v.to - v.from)]
                                      /\ f[k - (v.to - v.from)] \in Values
         /\ (k >= v.from /\ k < v.to) \/ k >= v.end => Wanted(v, f, k) = "raw"
<1>1. /\ v.cap \in Nat /\ v.end \in Nat /\ v.end <= v.cap /\ v.from \in Nat /\ v.to \in Nat
      /\ v.from < v.to /\ v.to <= v.end /\ G!Size(v) = v.end - (v.to - v.from)
  BY SizeIs DEF Placed
<1>2. \A j \in 0 .. (v.end - (v.to - v.from)) - 1 : f[j] \in Values
  BY <1>1 DEF Items
<1>3. k < v.from => k \in 0 .. (v.end - (v.to - v.from)) - 1 /\ k < v.end
  BY <1>1
<1>4. k >= v.to /\ k < v.end =>
        k - (v.to - v.from) \in 0 .. (v.end - (v.to - v.from)) - 1 /\ ~ (k < v.from)
  BY <1>1
<1> QED BY <1>1, <1>2, <1>3, <1>4 DEF Wanted

LEMMA WantedFlat ==
  ASSUME NEW v, Placed(v), v.from = v.to, NEW f \in Items(G!Size(v)), NEW k \in 0 .. v.cap - 1
  PROVE  IF k < v.end THEN Wanted(v, f, k) = f[k] /\ f[k] \in Values ELSE Wanted(v, f, k) = "raw"
<1>1. G!Size(v) = v.end /\ v.end \in Nat
  BY SizeIs DEF Placed
<1>2. k < v.end => k \in 0 .. v.end - 1
  BY <1>1
<1> QED BY <1>1, <1>2 DEF Wanted, Items

LEMMA ActiveIs ==
  ASSUME NEW v, Placed(v), v.from # v.to
  PROVE  /\ v.cap \in Nat /\ v.end \in Nat /\ v.end <= v.cap /\ v.from \in Nat /\ v.to \in Nat
         /\ v.from < v.to /\ v.to <= v.end
         /\ G!Size(v) = v.end - (v.to - v.from) /\ G!Size(v) \in Nat /\ G!Gap(v) = v.to - v.from
BY SizeIs DEF Placed, G!Gap

\* The m items f with room for n before item i
Opened(f, m, i, n) ==
  [j \in 0 .. m + n - 1 |-> IF j < i THEN f[j] ELSE IF j < i + n THEN "raw" ELSE f[j - n]]

LEMMA OpenedPlaces ==
  ASSUME NEW m \in Nat, NEW f \in Items(m), NEW i \in 0 .. m, NEW n \in Nat
  PROVE  Opened(f, m, i, n) \in Places(m + n)
<1>1. ASSUME NEW j \in 0 .. m + n - 1
      PROVE  (j < i => f[j] \in Values) /\ (j >= i + n => f[j - n] \in Values)
  <2>1. j < i => j \in 0 .. m - 1
    OBVIOUS
  <2>2. j >= i + n => j - n \in 0 .. m - 1
    OBVIOUS
  <2> QED BY <2>1, <2>2 DEF Items
<1> QED BY <1>1 DEF Opened, Places

\* The n items from item i on are in the cells of w from `spot` on.
Together(w, i, n, spot) ==
  /\ spot \in Nat /\ spot + n <= w.end
  /\ \/ spot = i /\ (w.from = w.to \/ i + n <= w.from)
     \/ w.from # w.to /\ spot = i + (w.to - w.from) /\ i >= w.from

\* There is room in w for n items before item i of f, from the cell `spot` on.
RoomIn(w, spot, f, m, i, n) ==
  /\ Holds(w, Opened(f, m, i, n)) /\ G!Size(w) = m + n /\ Together(w, i, n, spot)

LEMMA RoomBeforeMade ==
  ASSUME NEW v, NEW m, m = G!Size(v), NEW f \in Items(m), Holds(v, f),
         NEW i \in 0 .. m, NEW n \in Nat,
         v.from # v.to, i < v.from, n <= v.to - v.from, NEW a, a = G!RoomBefore(v, i, n)
  PROVE  RoomIn(a.vec, a.at, f, m, i, n)
<1>1. /\ v.cap \in Nat /\ v.end \in Nat /\ v.end <= v.cap /\ v.from \in Nat /\ v.to \in Nat
      /\ v.from < v.to /\ v.to <= v.end /\ m = v.end - (v.to - v.from) /\ m \in Nat /\ Placed(v)
  BY ActiveIs DEF Holds
<1>2. PICK high : high = G!MinOf(i + n, v.from)
  OBVIOUS
<1>3. high \in Int /\ high <= i + n /\ high <= v.from /\ (high = i + n \/ high = v.from)
  BY <1>1, <1>2 DEF G!MinOf
<1>4. PICK c : c = G!Destroyed(G!Moved(v, i, v.from, i + n, v.from .. v.cap - 1), i, high)
  OBVIOUS
<1>5. PICK w : w = [v EXCEPT !.cell = c, !.from = v.from + n]
  OBVIOUS
<1>v. w = Vec(c, v.cap, v.end, v.from + n, v.to)
  BY <1>1, <1>5 DEF Placed, Vec
<1>6. a.at = i /\ a.vec = w
  BY <1>2, <1>4, <1>5 DEF G!RoomBefore
<1>7. \A k \in 0 .. v.cap - 1 :
        /\ k < v.from => Wanted(v, f, k) = f[k] /\ f[k] \in Values
        /\ k >= v.to /\ k < v.end => /\ Wanted(v, f, k) = f[k - (v.to - v.from)]
                                     /\ f[k - (v.to - v.from)] \in Values
        /\ (k >= v.from /\ k < v.to) \/ k >= v.end => Wanted(v, f, k) = "raw"
  BY <1>1, WantedSplit
<1>8. /\ c \in G!Storage(v.cap)
      /\ \A k \in 0 .. v.cap - 1 : Alike(c[k], Shifted(v, f, i, v.from, i + n, i, high, k))
  <2>1. /\ i \in Int /\ v.from \in Int /\ i + n \in Int /\ high \in Int
        /\ 0 <= i /\ i <= v.from /\ v.from <= v.cap /\ 0 <= i + n
        /\ (i + n) + (v.from - i) <= v.cap /\ high <= v.cap
    BY <1>1, <1>3
  <2>2. \A k \in 0 .. v.cap - 1 : k >= i /\ k < v.from => Wanted(v, f, k) \in Values
    BY <1>7
  <2>3. ASSUME NEW k \in 0 .. v.cap - 1, k >= i + n, k < (i + n) + (v.from - i)
        PROVE  IF k \in v.from .. v.cap - 1 THEN Wanted(v, f, k) \notin Values ELSE Wanted(v, f, k) \in Values
    <3>1. k >= v.from => k < v.to
      BY <1>1, <2>3
    <3>2. k \in v.from .. v.cap - 1 <=> k >= v.from
      BY <1>1
    <3> QED BY <1>1, <1>7, <3>1, <3>2, GapConstants
  <2>4. ASSUME NEW k \in 0 .. v.cap - 1, k >= i, k < high
        PROVE  k >= i /\ k < v.from
    BY <1>1, <1>3, <2>4
  <2> QED BY <1>4, <2>1, <2>2, <2>3, <2>4, ShiftedCells
<1>9. /\ Placed(w) /\ G!Size(w) = m + n /\ w.cell = c /\ w.cap = v.cap /\ w.end = v.end
      /\ w.from = v.from + n /\ w.to = v.to
  <2>1. PICK b : b = v.from + n
    OBVIOUS
  <2>2. /\ b \in Nat /\ b <= v.to /\ v.end - (v.to - b) = m + n
        /\ v.to \in Nat /\ v.end \in Nat /\ v.cap \in Nat /\ v.end <= v.cap /\ v.to <= v.end
    BY <1>1, <2>1
  <2>3. w = Vec(c, v.cap, v.end, b, v.to)
    BY <1>v, <2>1
  <2> QED BY <2>1, <2>2, <2>3, VecPlaced
<1>10. PICK g : g = Opened(f, m, i, n)
  OBVIOUS
<1>11. /\ g \in Places(m + n)
       /\ \A j \in 0 .. m + n - 1 :
            /\ j < i => g[j] = f[j]
            /\ j >= i /\ j < i + n => g[j] = "raw"
            /\ j >= i + n => g[j] = f[j - n]
  <2>1. g \in Places(m + n)
    BY <1>1, <1>10, OpenedPlaces
  <2>2. ASSUME NEW j \in 0 .. m + n - 1
        PROVE  /\ j < i => g[j] = f[j]
               /\ j >= i /\ j < i + n => g[j] = "raw"
               /\ j >= i + n => g[j] = f[j - n]
    BY <1>10 DEF Opened
  <2> QED BY <2>1, <2>2
<1>12. ASSUME NEW k \in 0 .. v.cap - 1
       PROVE  Shifted(v, f, i, v.from, i + n, i, high, k) = Wanted(w, g, k)
  <2>1. CASE k < v.from + n
    <3>1. Wanted(w, g, k) = g[k] /\ k \in 0 .. m + n - 1
      BY <2>1, <1>1, <1>9 DEF Wanted
    <3>2. CASE k < i
      <4>1. Wanted(v, f, k) = f[k] /\ g[k] = f[k]
        BY <3>1, <3>2, <1>1, <1>7, <1>11
      <4> QED BY <4>1, <3>1, <3>2, <1>1, <1>3 DEF Shifted
    <3>3. CASE k >= i /\ k < i + n
      <4>1. g[k] = "raw"
        BY <3>1, <3>3, <1>11
      <4>2. k < high \/ (k >= v.from /\ k < v.to)
        BY <2>1, <3>3, <1>1, <1>3
      <4>3. k >= v.from /\ k < v.to => Wanted(v, f, k) = "raw"
        BY <1>7
      <4> QED BY <4>1, <4>2, <4>3, <3>1, <3>3, <1>1, <1>3 DEF Shifted
    <3>4. CASE k >= i + n
      <4>1. PICK j : j = i + (k - (i + n))
        OBVIOUS
      <4>2. j = k - n /\ j \in 0 .. v.cap - 1 /\ j < v.from
        BY <4>1, <3>4, <2>1, <1>1
      <4>3. Wanted(v, f, j) = f[j]
        BY <4>2, <1>7
      <4> QED BY <4>1, <4>2, <4>3, <3>1, <3>4, <2>1, <1>1, <1>3, <1>11 DEF Shifted
    <3> QED BY <3>2, <3>3, <3>4, <1>1
  <2>2. CASE k >= v.from + n /\ k < v.to
    <3>1. Wanted(w, g, k) = "raw"
      BY <2>2, <1>1, <1>9 DEF Wanted
    <3> QED BY <2>2, <3>1, <1>1, <1>3, <1>7 DEF Shifted
  <2>3. CASE k >= v.to /\ k < v.end
    <3>1. PICK j : j = k - (v.to - (v.from + n))
      OBVIOUS
    <3>2. j \in 0 .. m + n - 1 /\ j >= i + n /\ j - n = k - (v.to - v.from) /\ (v.from + n = v.to => j = k)
      BY <3>1, <2>3, <1>1
    <3>3. Wanted(w, g, k) = g[j]
      BY <3>1, <3>2, <2>3, <1>1, <1>9 DEF Wanted
    <3>4. g[j] = f[k - (v.to - v.from)]
      BY <3>2, <1>11
    <3> QED BY <2>3, <3>3, <3>4, <1>1, <1>3, <1>7 DEF Shifted
  <2>4. CASE k >= v.end
    <3>1. Wanted(w, g, k) = "raw"
      BY <2>4, <1>1, <1>9 DEF Wanted
    <3> QED BY <2>4, <3>1, <1>1, <1>3, <1>7 DEF Shifted
  <2> QED BY <2>1, <2>2, <2>3, <2>4, <1>1
<1>13. Holds(w, g)
  <2>1. \A k \in 0 .. v.cap - 1 : Alike(c[k], Wanted(w, g, k))
    BY <1>8, <1>12
  <2> QED BY <2>1, <1>8, <1>9, <1>11, HoldsIs
<1>14. Together(w, i, n, i)
  BY <1>1, <1>9 DEF Together
<1> QED BY <1>6, <1>9, <1>10, <1>13, <1>14 DEF RoomIn

LEMMA RoomAfterMade ==
  ASSUME NEW v, NEW m, m = G!Size(v), NEW f \in Items(m), Holds(v, f),
         NEW i \in 0 .. m, NEW n \in Nat, NEW p, p = i + (v.to - v.from),
         v.from # v.to, i >= v.from, n <= v.to - v.from, NEW a, a = G!RoomAfter(v, p, n)
  PROVE  RoomIn(a.vec, a.at, f, m, i, n)
<1>1. /\ v.cap \in Nat /\ v.end \in Nat /\ v.end <= v.cap /\ v.from \in Nat /\ v.to \in Nat
      /\ v.from < v.to /\ v.to <= v.end /\ m = v.end - (v.to - v.from) /\ m \in Nat /\ Placed(v)
      /\ p \in Nat /\ v.to <= p /\ p <= v.end
  BY ActiveIs DEF Holds
<1>2. PICK low : low = G!MaxOf(p - n, v.to)
  OBVIOUS
<1>3. low \in Int /\ low >= p - n /\ low >= v.to /\ (low = p - n \/ low = v.to)
  BY <1>1, <1>2 DEF G!MaxOf
<1>4. PICK c : c = G!Destroyed(G!Moved(v, v.to, p, v.to - n, 0 .. v.to - 1), low, p)
  OBVIOUS
<1>5. PICK w : w = [v EXCEPT !.cell = c, !.to = v.to - n]
  OBVIOUS
<1>v. w = Vec(c, v.cap, v.end, v.from, v.to - n)
  BY <1>1, <1>5 DEF Placed, Vec
<1>6. a.at = p - n /\ a.vec = w
  BY <1>2, <1>4, <1>5 DEF G!RoomAfter
<1>7. \A k \in 0 .. v.cap - 1 :
        /\ k < v.from => Wanted(v, f, k) = f[k] /\ f[k] \in Values
        /\ k >= v.to /\ k < v.end => /\ Wanted(v, f, k) = f[k - (v.to - v.from)]
                                     /\ f[k - (v.to - v.from)] \in Values
        /\ (k >= v.from /\ k < v.to) \/ k >= v.end => Wanted(v, f, k) = "raw"
  BY <1>1, WantedSplit
<1>8. /\ c \in G!Storage(v.cap)
      /\ \A k \in 0 .. v.cap - 1 : Alike(c[k], Shifted(v, f, v.to, p, v.to - n, low, p, k))
  <2>1. /\ v.to \in Int /\ p \in Int /\ v.to - n \in Int /\ low \in Int
        /\ 0 <= v.to /\ v.to <= p /\ p <= v.cap /\ 0 <= v.to - n
        /\ (v.to - n) + (p - v.to) <= v.cap /\ 0 <= low
    BY <1>1, <1>3
  <2>2. \A k \in 0 .. v.cap - 1 : k >= v.to /\ k < p => Wanted(v, f, k) \in Values
    BY <1>1, <1>7
  <2>3. ASSUME NEW k \in 0 .. v.cap - 1, k >= v.to - n, k < (v.to - n) + (p - v.to)
        PROVE  IF k \in 0 .. v.to - 1 THEN Wanted(v, f, k) \notin Values ELSE Wanted(v, f, k) \in Values
    <3>1. k >= v.from /\ (k >= v.to => k < v.end)
      BY <1>1, <2>3
    <3>2. k \in 0 .. v.to - 1 <=> ~ (k >= v.to)
      BY <1>1
    <3> QED BY <1>1, <1>7, <3>1, <3>2, GapConstants
  <2>4. ASSUME NEW k \in 0 .. v.cap - 1, k >= low, k < p
        PROVE  k >= v.to /\ k < p
    BY <1>1, <1>3, <2>4
  <2> QED BY <1>4, <2>1, <2>2, <2>3, <2>4, ShiftedCells
<1>9. /\ Placed(w) /\ G!Size(w) = m + n /\ w.cell = c /\ w.cap = v.cap /\ w.end = v.end
      /\ w.from = v.from /\ w.to = v.to - n
  <2>1. PICK s : s = v.to - n
    OBVIOUS
  <2>2. /\ s \in Nat /\ v.from <= s /\ v.end - (s - v.from) = m + n /\ s <= v.end
        /\ v.from \in Nat /\ v.end \in Nat /\ v.cap \in Nat /\ v.end <= v.cap
    BY <1>1, <2>1
  <2>3. w = Vec(c, v.cap, v.end, v.from, s)
    BY <1>v, <2>1
  <2>4. /\ Placed(w) /\ G!Size(w) = v.end - (s - v.from) /\ w.cell = c /\ w.cap = v.cap
        /\ w.end = v.end /\ w.from = v.from /\ w.to = s
    BY <2>2, <2>3, VecPlaced
  <2> QED BY <2>1, <2>2, <2>4
<1>10. PICK g : g = Opened(f, m, i, n)
  OBVIOUS
<1>11. /\ g \in Places(m + n)
       /\ \A j \in 0 .. m + n - 1 :
            /\ j < i => g[j] = f[j]
            /\ j >= i /\ j < i + n => g[j] = "raw"
            /\ j >= i + n => g[j] = f[j - n]
  <2>1. g \in Places(m + n)
    BY <1>1, <1>10, OpenedPlaces
  <2>2. ASSUME NEW j \in 0 .. m + n - 1
        PROVE  /\ j < i => g[j] = f[j]
               /\ j >= i /\ j < i + n => g[j] = "raw"
               /\ j >= i + n => g[j] = f[j - n]
    BY <1>10 DEF Opened
  <2> QED BY <2>1, <2>2
<1>12. ASSUME NEW k \in 0 .. v.cap - 1
       PROVE  Shifted(v, f, v.to, p, v.to - n, low, p, k) = Wanted(w, g, k)
  <2>1. CASE k < v.from
    <3>1. Wanted(w, g, k) = g[k] /\ k \in 0 .. m + n - 1
      BY <2>1, <1>1, <1>9 DEF Wanted
    <3>2. Wanted(v, f, k) = f[k] /\ g[k] = f[k]
      BY <3>1, <2>1, <1>1, <1>7, <1>11
    <3> QED BY <3>1, <3>2, <2>1, <1>1, <1>3 DEF Shifted
  <2>2. CASE k >= v.from /\ k < v.to - n
    <3>1. Wanted(w, g, k) = "raw"
      BY <2>2, <1>1, <1>9 DEF Wanted
    <3> QED BY <2>2, <3>1, <1>1, <1>3, <1>7 DEF Shifted
  <2>3. CASE k >= v.to - n /\ k < v.end
    <3>1. PICK j : j = k - ((v.to - n) - v.from)
      OBVIOUS
    <3>2. j \in 0 .. m + n - 1 /\ (v.from = v.to - n => j = k)
      BY <3>1, <2>3, <1>1
    <3>3. Wanted(w, g, k) = g[j]
      BY <3>1, <3>2, <2>3, <1>1, <1>9 DEF Wanted
    <3>4. CASE k < p - n
      <4>1. PICK h : h = v.to + (k - (v.to - n))
        OBVIOUS
      <4>2. /\ h \in 0 .. v.cap - 1 /\ h >= v.to /\ h < v.end /\ h - (v.to - v.from) = j
            /\ j < i /\ ~ (k >= low)
        BY <4>1, <3>4, <3>1, <2>3, <1>1, <1>3
      <4>3. Wanted(v, f, h) = f[j] /\ g[j] = f[j]
        BY <4>2, <3>2, <1>7, <1>11
      <4> QED BY <4>1, <4>2, <4>3, <3>3, <3>4, <2>3, <1>1 DEF Shifted
    <3>5. CASE k >= p - n /\ k < p
      <4>1. g[j] = "raw"
        <5>1. j >= i /\ j < i + n
          BY <3>1, <3>5, <1>1
        <5> QED BY <5>1, <3>2, <1>11
      <4>2. (k >= low /\ k < p) \/ (k >= v.from /\ k < v.to)
        BY <3>5, <2>3, <1>1, <1>3
      <4>3. k >= v.from /\ k < v.to => Wanted(v, f, k) = "raw"
        BY <1>7
      <4> QED BY <4>1, <4>2, <4>3, <3>3, <3>5, <1>1, <1>3 DEF Shifted
    <3>6. CASE k >= p
      <4>1. j >= i + n /\ j - n = k - (v.to - v.from) /\ k >= v.to
        BY <3>1, <3>6, <1>1
      <4>2. g[j] = f[k - (v.to - v.from)]
        BY <4>1, <3>2, <1>11
      <4>3. Wanted(v, f, k) = f[k - (v.to - v.from)]
        BY <4>1, <2>3, <1>7
      <4> QED BY <4>2, <4>3, <3>3, <3>6, <1>1, <1>3 DEF Shifted
    <3> QED BY <3>4, <3>5, <3>6, <1>1
  <2>4. CASE k >= v.end
    <3>1. Wanted(w, g, k) = "raw"
      BY <2>4, <1>1, <1>9 DEF Wanted
    <3> QED BY <2>4, <3>1, <1>1, <1>3, <1>7 DEF Shifted
  <2> QED BY <2>1, <2>2, <2>3, <2>4, <1>1
<1>13. Holds(w, g)
  <2>1. \A k \in 0 .. v.cap - 1 : Alike(c[k], Wanted(w, g, k))
    BY <1>8, <1>12
  <2> QED BY <2>1, <1>8, <1>9, <1>11, HoldsIs
<1>14. Together(w, i, n, p - n)
  BY <1>1, <1>9 DEF Together
<1> QED BY <1>6, <1>9, <1>10, <1>13, <1>14 DEF RoomIn

\* At the end of the items, before a gap that nothing follows
LEMMA RoomThereMade ==
  ASSUME NEW v, NEW m, m = G!Size(v), NEW f \in Items(m), Holds(v, f), NEW n \in Nat,
         v.from # v.to, m = v.from, n <= v.to - v.from, NEW a, a = G!RoomThere(v, m, n)
  PROVE  RoomIn(a.vec, a.at, f, m, m, n)
<1>1. /\ v.cap \in Nat /\ v.end \in Nat /\ v.end <= v.cap /\ v.from \in Nat /\ v.to \in Nat
      /\ v.from < v.to /\ v.to = v.end /\ m \in Nat /\ Placed(v) /\ v.cell \in G!Storage(v.cap)
  <2>1. Placed(v) /\ v.cell \in G!Storage(v.cap)
    BY DEF Holds
  <2>2. /\ v.cap \in Nat /\ v.end \in Nat /\ v.end <= v.cap /\ v.from \in Nat /\ v.to \in Nat
        /\ v.from < v.to /\ v.to <= v.end
        /\ G!Size(v) = v.end - (v.to - v.from) /\ G!Size(v) \in Nat
    BY <2>1, ActiveIs
  <2>3. m \in Nat /\ m = v.end - (v.to - v.from) /\ m = v.from
    BY <2>2
  <2>4. v.to = v.end
    BY <2>2, <2>3
  <2> QED BY <2>1, <2>2, <2>3, <2>4
<1>2. PICK w : w = [v EXCEPT !.from = v.from + n]
  OBVIOUS
<1>v. w = Vec(v.cell, v.cap, v.end, v.from + n, v.to)
  BY <1>1, <1>2 DEF Placed, Vec
<1>3. a.at = m /\ a.vec = w
  BY <1>2 DEF G!RoomThere
<1>4. /\ Placed(w) /\ G!Size(w) = m + n /\ w.cell = v.cell /\ w.cap = v.cap /\ w.end = v.end
      /\ w.from = v.from + n /\ w.to = v.to
  <2>1. PICK b : b = v.from + n
    OBVIOUS
  <2>2. /\ b \in Nat /\ b <= v.to /\ v.end - (v.to - b) = m + n
        /\ v.to \in Nat /\ v.end \in Nat /\ v.cap \in Nat /\ v.end <= v.cap /\ v.to <= v.end
    BY <1>1, <2>1
  <2>3. w = Vec(v.cell, v.cap, v.end, b, v.to)
    BY <1>v, <2>1
  <2>4. /\ Placed(w) /\ G!Size(w) = v.end - (v.to - b) /\ w.cell = v.cell /\ w.cap = v.cap
        /\ w.end = v.end /\ w.from = b /\ w.to = v.to
    BY <2>2, <2>3, VecPlaced
  <2> QED BY <2>1, <2>2, <2>4
<1>p. \A k \in 0 .. v.cap - 1 : Wanted(v, f, k) = IF k < m THEN f[k] ELSE "raw"
  <2>1. ASSUME NEW k \in 0 .. v.cap - 1
        PROVE  /\ k < v.from => Wanted(v, f, k) = f[k]
               /\ (k >= v.from /\ k < v.to) \/ k >= v.end => Wanted(v, f, k) = "raw"
    BY <1>1, WantedSplit
  <2> QED BY <2>1, <1>1
<1>5. PICK g : g = Opened(f, m, m, n)
  OBVIOUS
<1>6. g \in Places(m + n)
  BY <1>1, <1>5, OpenedPlaces
<1>7. ASSUME NEW k \in 0 .. v.cap - 1
      PROVE  Wanted(v, f, k) = Wanted(w, g, k)
  <2>1. CASE k < v.from + n
    <3>1. Wanted(w, g, k) = g[k] /\ k \in 0 .. m + n - 1
      BY <2>1, <1>1, <1>4 DEF Wanted
    <3>2. g[k] = IF k < m THEN f[k] ELSE "raw"
      BY <2>1, <3>1, <1>1, <1>5 DEF Opened
    <3>3. Wanted(v, f, k) = IF k < m THEN f[k] ELSE "raw"
      BY <1>p
    <3> QED BY <3>1, <3>2, <3>3
  <2>2. CASE k >= v.from + n
    <3>1. Wanted(w, g, k) = "raw"
      BY <2>2, <1>1, <1>4 DEF Wanted
    <3>2. Wanted(v, f, k) = "raw"
      BY <2>2, <1>1, <1>p
    <3> QED BY <3>1, <3>2
  <2> QED BY <2>1, <2>2, <1>1
<1>8. Holds(w, g)
  <2>1. \A k \in 0 .. v.cap - 1 : Alike(v.cell[k], Wanted(w, g, k))
    BY <1>7 DEF Holds
  <2> QED BY <2>1, <1>1, <1>4, <1>6, HoldsIs
<1>9. Together(w, m, n, m)
  BY <1>1, <1>4 DEF Together
<1> QED BY <1>3, <1>4, <1>5, <1>8, <1>9 DEF RoomIn

LEMMA GrowHolds ==
  ASSUME NEW v, NEW m, m = G!Size(v), NEW f \in Items(m), Holds(v, f), NEW n \in Nat,
         n <= DefaultGapSize, NEW u, u = G!Unsplit(v),
         NEW w, w = IF u.cap - G!Size(u) < n THEN G!Grow(u, n) ELSE u
  PROVE  /\ Holds(w, f) /\ Placed(w) /\ w.from = w.to /\ w.end = m /\ m \in Nat
         /\ G!Size(w) = m /\ m + n <= w.cap /\ w.cap \in Nat
<1>1. /\ Holds(u, f) /\ Placed(u) /\ u.end = m /\ u.from = u.to /\ G!Size(u) = m
      /\ u.cap \in Nat /\ m \in Nat /\ m <= u.cap
  <2>1. Holds(u, f) /\ u.end = m /\ u.from = u.to /\ G!Size(u) = m
    BY UnsplitHolds
  <2> QED BY <2>1 DEF Holds, Placed
<1>2. CASE ~ (u.cap - G!Size(u) < n)
  BY <1>1, <1>2
<1>3. CASE u.cap - G!Size(u) < n
  <2>1. PICK cap : cap = ((u.cap + DefaultGapSize + n) * 3) \div 2
    OBVIOUS
  <2>2. cap \in Nat /\ cap >= u.cap + DefaultGapSize + n /\ cap > u.cap /\ m + n <= cap
    BY <1>1, <2>1, GapConstants
  <2>3. w = G!Reserve(u, cap)
    BY <1>3, <2>1 DEF G!Grow
  <2>f. f \in Items(G!Size(u))
    BY <1>1
  <2>4. Holds(w, f) /\ G!Size(w) = m /\ w.cap = cap /\ w.from = w.to
    <3>1. /\ Holds(G!Reserve(u, cap), f) /\ G!Size(G!Reserve(u, cap)) = G!Size(u)
          /\ cap > u.cap => /\ G!Reserve(u, cap).cap = cap
                            /\ G!Reserve(u, cap).from = G!Reserve(u, cap).to
      BY <1>1, <2>2, <2>f, ReserveHolds
    <3> QED BY <3>1, <1>1, <2>2, <2>3
  <2>5. Placed(w)
    BY <2>4 DEF Holds
  <2>6. w.end = m
    BY <2>4, <2>5, SizeIs
  <2> QED BY <1>1, <2>2, <2>4, <2>5, <2>6
<1> QED BY <1>2, <1>3

LEMMA SpotFromBegin ==
  ASSUME NEW v, Placed(v), NEW i \in 0 .. G!Size(v)
  PROVE  G!Distance(v, Spot(v, i), G!Begin(v)) = i
<1>1. G!Size(v) \in Nat
  BY SizeIs
<1>2. 0 \in 0 .. G!Size(v) /\ 0 <= i /\ i - 0 = i
  BY <1>1
<1>3. G!Plus(v, G!Begin(v), 0) = Spot(v, 0)
  BY <1>2, PlusFromBegin
<1>4. G!Plus(v, G!Begin(v), 0) = G!Begin(v)
  BY DEF Placed, G!Plus, G!Begin
<1> QED BY <1>2, <1>3, <1>4, IteratorsMeet

LEMMA RoomAnewMade ==
  ASSUME NEW v, NEW m, m = G!Size(v), NEW f \in Items(m), Holds(v, f),
         NEW i \in 0 .. m, NEW n \in Nat, n <= DefaultGapSize,
         NEW a, a = G!RoomAnew(v, Spot(v, i), n)
  PROVE  RoomIn(a.vec, a.at, f, m, i, n)
<1>1. PICK x : x = G!Unsplit(v)
  OBVIOUS
<1>2. PICK u : u = IF x.cap - G!Size(x) < n THEN G!Grow(x, n) ELSE x
  OBVIOUS
<1>3. /\ Holds(u, f) /\ Placed(u) /\ u.from = u.to /\ u.end = m /\ m \in Nat
      /\ G!Size(u) = m /\ m + n <= u.cap /\ u.cap \in Nat
  BY <1>1, <1>2, GrowHolds
<1>4. PICK gap : gap = G!GapFor(u)
  OBVIOUS
<1>5. gap \in Nat /\ n <= gap /\ m + gap <= u.cap
  BY <1>3, <1>4, GapConstants DEF G!GapFor, G!MinOf
<1>6. PICK high : high = i + G!MinOf(n, m - i)
  OBVIOUS
<1>7. high \in Int /\ high <= m /\ high <= i + n /\ (high = i + n \/ high = m)
  BY <1>3, <1>6 DEF G!MinOf
<1>8. G!Distance(v, Spot(v, i), G!Begin(v)) = i
  BY SpotFromBegin DEF Holds
<1>9. PICK c : c = G!Destroyed(G!Moved(u, i, m, i + gap, m .. u.cap - 1), i, high)
  OBVIOUS
<1>10. PICK w : w = [u EXCEPT !.cell = c, !.end = m + gap, !.from = i + n, !.to = i + gap]
  OBVIOUS
<1>11. w = Vec(c, u.cap, m + gap, i + n, i + gap)
  BY <1>3, <1>10 DEF Placed, Vec
<1>12. a.at = i /\ a.vec = w
  BY <1>1, <1>2, <1>3, <1>4, <1>6, <1>8, <1>9, <1>10 DEF G!RoomAnew
<1>13. \A k \in 0 .. u.cap - 1 :
         IF k < m THEN Wanted(u, f, k) = f[k] /\ f[k] \in Values ELSE Wanted(u, f, k) = "raw"
  BY <1>3, WantedFlat
<1>14. /\ c \in G!Storage(u.cap)
       /\ \A k \in 0 .. u.cap - 1 : Alike(c[k], Shifted(u, f, i, m, i + gap, i, high, k))
  <2>1. /\ i \in Int /\ m \in Int /\ i + gap \in Int /\ high \in Int
        /\ 0 <= i /\ i <= m /\ m <= u.cap /\ 0 <= i + gap
        /\ (i + gap) + (m - i) <= u.cap /\ high <= u.cap
    BY <1>3, <1>5, <1>7
  <2>2. \A k \in 0 .. u.cap - 1 : k >= i /\ k < m => Wanted(u, f, k) \in Values
    BY <1>13
  <2>3. ASSUME NEW k \in 0 .. u.cap - 1, k >= i + gap, k < (i + gap) + (m - i)
        PROVE  IF k \in m .. u.cap - 1 THEN Wanted(u, f, k) \notin Values ELSE Wanted(u, f, k) \in Values
    <3>1. k \in m .. u.cap - 1 <=> ~ (k < m)
      BY <1>3
    <3> QED BY <1>13, <3>1, GapConstants
  <2>4. ASSUME NEW k \in 0 .. u.cap - 1, k >= i, k < high
        PROVE  k >= i /\ k < m
    BY <1>3, <1>7, <2>4
  <2> QED BY <1>3, <1>9, <2>1, <2>2, <2>3, <2>4, ShiftedCells
<1>15. /\ Placed(w) /\ G!Size(w) = m + n /\ w.cell = c /\ w.cap = u.cap /\ w.end = m + gap
       /\ w.from = i + n /\ w.to = i + gap
  <2>1. PICK e, b, s : e = m + gap /\ b = i + n /\ s = i + gap
    OBVIOUS
  <2>2. /\ e \in Nat /\ b \in Nat /\ s \in Nat /\ u.cap \in Nat /\ e <= u.cap /\ b <= s /\ s <= e
        /\ e - (s - b) = m + n
    BY <1>3, <1>5, <2>1
  <2>3. w = Vec(c, u.cap, e, b, s)
    BY <1>11, <2>1
  <2>4. /\ Placed(w) /\ G!Size(w) = e - (s - b) /\ w.cell = c /\ w.cap = u.cap
        /\ w.end = e /\ w.from = b /\ w.to = s
    BY <2>2, <2>3, VecPlaced
  <2> QED BY <2>1, <2>2, <2>4
<1>16. PICK g : g = Opened(f, m, i, n)
  OBVIOUS
<1>17. /\ g \in Places(m + n)
       /\ \A j \in 0 .. m + n - 1 :
            /\ j < i => g[j] = f[j]
            /\ j >= i /\ j < i + n => g[j] = "raw"
            /\ j >= i + n => g[j] = f[j - n]
  <2>1. g \in Places(m + n)
    BY <1>3, <1>16, OpenedPlaces
  <2>2. ASSUME NEW j \in 0 .. m + n - 1
        PROVE  /\ j < i => g[j] = f[j]
               /\ j >= i /\ j < i + n => g[j] = "raw"
               /\ j >= i + n => g[j] = f[j - n]
    BY <1>16 DEF Opened
  <2> QED BY <2>1, <2>2
<1>18. ASSUME NEW k \in 0 .. u.cap - 1
       PROVE  Shifted(u, f, i, m, i + gap, i, high, k) = Wanted(w, g, k)
  <2>1. CASE k < i
    <3>1. Wanted(w, g, k) = g[k] /\ k \in 0 .. m + n - 1
      BY <2>1, <1>3, <1>5, <1>15 DEF Wanted
    <3>2. Wanted(u, f, k) = f[k] /\ g[k] = f[k]
      BY <3>1, <2>1, <1>3, <1>13, <1>17
    <3> QED BY <3>1, <3>2, <2>1, <1>3, <1>5, <1>7 DEF Shifted
  <2>2. CASE k >= i /\ k < i + n
    <3>1. Wanted(w, g, k) = g[k] /\ k \in 0 .. m + n - 1
      BY <2>2, <1>3, <1>5, <1>15 DEF Wanted
    <3>2. g[k] = "raw"
      BY <3>1, <2>2, <1>17
    <3>3. k < high \/ k >= m
      BY <2>2, <1>3, <1>7
    <3>4. k >= m => Wanted(u, f, k) = "raw"
      BY <1>3, <1>13
    <3> QED BY <3>1, <3>2, <3>3, <3>4, <2>2, <1>3, <1>5, <1>7 DEF Shifted
  <2>3. CASE k >= i + n /\ k < i + gap
    <3>1. Wanted(w, g, k) = "raw"
      BY <2>3, <1>3, <1>5, <1>15 DEF Wanted
    <3>2. k >= m => Wanted(u, f, k) = "raw"
      BY <1>3, <1>13
    <3> QED BY <3>1, <3>2, <2>3, <1>3, <1>5, <1>7 DEF Shifted
  <2>4. CASE k >= i + gap /\ k < m + gap
    <3>1. PICK j : j = k - ((i + gap) - (i + n))
      OBVIOUS
    <3>2. j \in 0 .. m + n - 1 /\ (i + n = i + gap => j = k) /\ j >= i + n
      BY <3>1, <2>4, <1>3, <1>5
    <3>3. Wanted(w, g, k) = g[j]
      BY <3>1, <3>2, <2>4, <1>3, <1>5, <1>15 DEF Wanted
    <3>4. PICK h : h = i + (k - (i + gap))
      OBVIOUS
    <3>5. h = j - n /\ h \in 0 .. u.cap - 1 /\ h < m
      BY <3>1, <3>4, <2>4, <1>3, <1>5
    <3>6. g[j] = f[h] /\ Wanted(u, f, h) = f[h]
      BY <3>2, <3>5, <1>13, <1>17
    <3>7. ~ (k < high)
      BY <2>4, <1>3, <1>5, <1>7
    <3> QED BY <3>3, <3>4, <3>6, <3>7, <2>4, <1>3, <1>5 DEF Shifted
  <2>5. CASE k >= m + gap
    <3>1. Wanted(w, g, k) = "raw"
      BY <2>5, <1>3, <1>5, <1>15 DEF Wanted
    <3>2. Wanted(u, f, k) = "raw"
      BY <2>5, <1>3, <1>5, <1>13
    <3> QED BY <3>1, <3>2, <2>5, <1>3, <1>5, <1>7 DEF Shifted
  <2> QED BY <2>1, <2>2, <2>3, <2>4, <2>5, <1>3, <1>5
<1>19. Holds(w, g)
  <2>1. \A k \in 0 .. u.cap - 1 : Alike(c[k], Wanted(w, g, k))
    BY <1>14, <1>18
  <2> QED BY <2>1, <1>14, <1>15, <1>17, HoldsIs
<1>20. Together(w, i, n, i)
  BY <1>3, <1>5, <1>15 DEF Together
<1> QED BY <1>12, <1>15, <1>16, <1>19, <1>20 DEF RoomIn

\* allocate_from_gap(), wherever the gap is
LEMMA RoomMade ==
  ASSUME NEW v, NEW m, m = G!Size(v), NEW f \in Items(m), Holds(v, f),
         NEW i \in 0 .. m, NEW n \in Nat, n <= DefaultGapSize,
         NEW a, a = G!AllocateFromGap(v, Spot(v, i), n)
  PROVE  RoomIn(a.vec, a.at, f, m, i, n)
<1>p. PICK p : p = Spot(v, i)
  OBVIOUS
<1>1. CASE ~ (G!Near(v, p) /\ n <= G!Gap(v))
  <2>1. a = G!RoomAnew(v, p, n)
    BY <1>1, <1>p DEF G!AllocateFromGap
  <2> QED BY <2>1, <1>p, RoomAnewMade
<1>2. CASE G!Near(v, p) /\ n <= G!Gap(v)
  <2>1. Placed(v) /\ v.from # v.to
    BY <1>2 DEF Holds, G!Near, G!Active
  <2>2. /\ v.end \in Nat /\ v.from \in Nat /\ v.to \in Nat
        /\ v.from < v.to /\ v.to <= v.end
        /\ m = v.end - (v.to - v.from) /\ m \in Nat /\ G!Gap(v) = v.to - v.from
    BY <2>1, ActiveIs
  <2>3. \/ i < v.from /\ p = i
        \/ i >= v.from /\ p = i + (v.to - v.from)
        \/ i = v.from /\ i = m /\ p = i
    BY <1>p, <2>1, <2>2 DEF Spot, G!Index, G!End, G!Active
  <2>4. CASE i < v.from /\ p = i
    <3>1. G!Before(v, p)
      BY <2>1, <2>4 DEF G!Before, G!Active
    <3>2. a = G!RoomBefore(v, p, n)
      BY <1>2, <1>p, <3>1 DEF G!AllocateFromGap
    <3> QED BY <1>2, <2>1, <2>2, <2>4, <3>2, RoomBeforeMade
  <2>5. CASE i >= v.from /\ p = i + (v.to - v.from)
    <3>1. ~ G!Before(v, p) /\ G!After(v, p)
      BY <2>1, <2>2, <2>5 DEF G!Before, G!After, G!Active
    <3>2. a = G!RoomAfter(v, p, n)
      BY <1>2, <1>p, <3>1 DEF G!AllocateFromGap
    <3> QED BY <1>2, <2>1, <2>2, <2>5, <3>2, RoomAfterMade
  <2>6. CASE i = v.from /\ i = m /\ p = i
    <3>1. ~ G!Before(v, p) /\ ~ G!After(v, p)
      BY <2>1, <2>2, <2>6 DEF G!Before, G!After, G!Active
    <3>2. a = G!RoomThere(v, p, n)
      BY <1>2, <1>p, <3>1 DEF G!AllocateFromGap
    <3> QED BY <1>2, <2>1, <2>2, <2>6, <3>2, RoomThereMade
  <2> QED BY <2>3, <2>4, <2>5, <2>6
<1> QED BY <1>1, <1>2

\* The m items f with the first n of `list` before item i
Joined(f, m, i, list, n) ==
  [j \in 0 .. m + n - 1 |-> IF j < i THEN f[j] ELSE IF j < i + n THEN list[j - i + 1] ELSE f[j - n]]

LEMMA JoinedItems ==
  ASSUME NEW m \in Nat, NEW f \in Items(m), NEW i \in 0 .. m, NEW n \in Nat, NEW list,
         \A j \in 1 .. n : list[j] \in Values
  PROVE  Joined(f, m, i, list, n) \in Items(m + n)
<1>1. ASSUME NEW j \in 0 .. m + n - 1
      PROVE  (IF j < i THEN f[j] ELSE IF j < i + n THEN list[j - i + 1] ELSE f[j - n]) \in Values
  <2>1. j < i => j \in 0 .. m - 1
    OBVIOUS
  <2>2. j >= i + n => j - n \in 0 .. m - 1
    OBVIOUS
  <2>3. j >= i /\ j < i + n => j - i + 1 \in 1 .. n
    OBVIOUS
  <2> QED BY <2>1, <2>2, <2>3 DEF Items
<1> QED BY <1>1 DEF Joined, Items

\* Items go where there is room for them.
LEMMA ConstructedHolds ==
  ASSUME NEW w, NEW m \in Nat, NEW f \in Items(m), NEW i \in 0 .. m, NEW list \in Seq(Values),
         NEW n, n = Len(list), n > 0, NEW spot, RoomIn(w, spot, f, m, i, n),
         NEW x, x = [w EXCEPT !.cell = G!Constructed(w.cell, spot, list)]
  PROVE  /\ Holds(x, Joined(f, m, i, list, Len(list))) /\ G!Size(x) = m + n /\ spot = Spot(x, i)
<1>1. PICK g, h : g = Opened(f, m, i, n) /\ h = Joined(f, m, i, list, n)
  OBVIOUS
<1>2. n \in Nat /\ \A j \in 1 .. n : list[j] \in Values
  OBVIOUS
<1>3. /\ Placed(w) /\ w.cell \in G!Storage(w.cap) /\ G!Size(w) = m + n /\ Together(w, i, n, spot)
      /\ \A k \in 0 .. w.cap - 1 : Alike(w.cell[k], Wanted(w, g, k))
  BY <1>1 DEF RoomIn, Holds
<1>4. /\ w.cap \in Nat /\ w.end \in Nat /\ w.end <= w.cap /\ w.from \in Nat /\ w.to \in Nat
      /\ w.from # w.to => w.from < w.to /\ w.to <= w.end
      /\ w.from = w.to => w.end = m + n
      /\ w.from # w.to => m + n = w.end - (w.to - w.from)
      /\ w = Vec(w.cell, w.cap, w.end, w.from, w.to)
  BY <1>3, SizeIs DEF Placed
<1>5. PICK c : c = G!Constructed(w.cell, spot, list)
  OBVIOUS
<1>6. x = Vec(c, w.cap, w.end, w.from, w.to)
  BY <1>4, <1>5 DEF Vec
<1>7. /\ x.cell = c /\ x.cap = w.cap /\ x.end = w.end /\ x.from = w.from /\ x.to = w.to
  BY <1>6 DEF Vec
<1>8. Placed(x) /\ G!Size(x) = m + n
  BY <1>3, <1>6, <1>7 DEF Placed, G!Size, G!Gap
<1>9. /\ spot \in Nat /\ spot + n <= w.end
      /\ \/ spot = i /\ (w.from = w.to \/ i + n <= w.from)
         \/ w.from # w.to /\ spot = i + (w.to - w.from) /\ i >= w.from
  BY <1>3 DEF Together
<1>10. DOMAIN w.cell = 0 .. w.cap - 1
  BY <1>3 DEF G!Storage
<1>11. c = [k \in 0 .. w.cap - 1 |->
             IF k \in spot .. spot + n - 1
             THEN IF w.cell[k] \in {"raw", "moved"} THEN list[k - spot + 1] ELSE "bad"
             ELSE w.cell[k]]
  BY <1>5, <1>10 DEF G!Constructed
<1>12. \A j \in 0 .. m + n - 1 :
         /\ j < i => h[j] = f[j] /\ g[j] = f[j]
         /\ j >= i /\ j < i + n => g[j] = "raw" /\ h[j] = list[j - i + 1]
         /\ j >= i + n => h[j] = f[j - n] /\ g[j] = f[j - n]
  BY <1>1, <1>2 DEF Opened, Joined
<1>13. ASSUME NEW k \in 0 .. w.cap - 1
       PROVE  Alike(c[k], Wanted(x, h, k)) /\ c[k] \in Values \cup {"raw", "moved", "bad"}
  <2>0. Alike(w.cell[k], Wanted(w, g, k)) /\ w.cell[k] \in Values \cup {"raw", "moved", "bad"}
    BY <1>3 DEF G!Storage
  <2>1. CASE k >= spot /\ k < spot + n
    <3>1. PICK j : j = i + (k - spot)
      OBVIOUS
    <3>2. /\ j \in 0 .. m + n - 1 /\ j >= i /\ j < i + n /\ j - i + 1 = k - spot + 1
          /\ k - spot + 1 \in 1 .. n
      BY <3>1, <2>1, <1>2, <1>9
    <3>3. Wanted(w, g, k) = g[j] /\ Wanted(x, h, k) = h[j]
      <4>1. CASE spot = i /\ (w.from = w.to \/ i + n <= w.from)
        <5>1. j = k /\ k < w.end /\ (w.from = w.to \/ k < w.from)
          BY <4>1, <3>1, <2>1, <1>2, <1>4, <1>9
        <5> QED BY <5>1, <1>7 DEF Wanted
      <4>2. CASE w.from # w.to /\ spot = i + (w.to - w.from) /\ i >= w.from
        <5>1. k >= w.to
          BY <4>2, <2>1, <1>4
        <5>2. k < w.end /\ ~ (k < w.from)
          BY <5>1, <4>2, <2>1, <1>2, <1>4, <1>9
        <5>3. j = k - (w.to - w.from)
          BY <4>2, <3>1, <1>4
        <5> QED BY <5>1, <5>2, <5>3, <4>2, <1>7 DEF Wanted
      <4> QED BY <4>1, <4>2, <1>9
    <3>4. w.cell[k] \in {"raw", "moved"}
      BY <3>2, <3>3, <2>0, <1>12, GapConstants DEF Alike
    <3>5. c[k] = list[k - spot + 1]
      <4>1. k \in spot .. spot + n - 1
        BY <2>1, <1>2, <1>9
      <4> QED BY <4>1, <3>4, <1>11
    <3>6. h[j] = list[k - spot + 1] /\ list[k - spot + 1] \in Values
      BY <3>2, <1>2, <1>12
    <3> QED BY <3>3, <3>5, <3>6 DEF Alike
  <2>2. CASE ~ (k >= spot /\ k < spot + n)
    <3>1. c[k] = w.cell[k]
      <4>1. k \notin spot .. spot + n - 1
        BY <2>2, <1>2, <1>9
      <4> QED BY <4>1, <1>11
    <3>2. Wanted(w, g, k) = Wanted(x, h, k)
      <4>1. CASE k < w.end /\ (w.from = w.to \/ k < w.from)
        <5>1. Wanted(w, g, k) = g[k] /\ Wanted(x, h, k) = h[k] /\ k \in 0 .. m + n - 1
          BY <4>1, <1>2, <1>4, <1>7 DEF Wanted
        <5>2. ~ (k >= i /\ k < i + n)
          BY <4>1, <2>2, <1>2, <1>4, <1>9
        <5> QED BY <5>1, <5>2, <1>2, <1>12
      <4>2. CASE w.from # w.to /\ k < w.end /\ k >= w.to
        <5>1. PICK j : j = k - (w.to - w.from)
          OBVIOUS
        <5>2. Wanted(w, g, k) = g[j] /\ Wanted(x, h, k) = h[j] /\ j \in 0 .. m + n - 1
          <6>1. ~ (k < w.from) /\ j \in 0 .. m + n - 1
            BY <5>1, <4>2, <1>2, <1>4
          <6> QED BY <5>1, <6>1, <4>2, <1>7 DEF Wanted
        <5>3. ~ (j >= i /\ j < i + n)
          BY <5>1, <4>2, <2>2, <1>2, <1>4, <1>9
        <5> QED BY <5>2, <5>3, <1>2, <1>12
      <4>3. CASE k >= w.end \/ (w.from # w.to /\ k >= w.from /\ k < w.to)
        BY <4>3, <1>4, <1>7 DEF Wanted
      <4> QED BY <4>1, <4>2, <4>3, <1>4
    <3> QED BY <3>1, <3>2, <2>0
  <2> QED BY <2>1, <2>2
<1>14. c \in G!Storage(w.cap)
  BY <1>11, <1>13 DEF G!Storage
<1>15. h \in Places(m + n)
  BY <1>1, <1>2, JoinedItems DEF Items, Places
<1>16. Holds(x, h)
  BY <1>7, <1>8, <1>13, <1>14, <1>15, HoldsIs
<1>17. spot = Spot(x, i)
  BY <1>2, <1>4, <1>7, <1>8, <1>9 DEF Spot, G!Index, G!Gap, G!Active
<1> QED BY <1>1, <1>8, <1>16, <1>17

\* What insert() is to return
Grown(r, f, m, i, list) ==
  /\ Holds(r.vec, Joined(f, m, i, list, Len(list))) /\ G!Size(r.vec) = m + Len(list)
  /\ r.at = Spot(r.vec, i)

LEMMA InsertedHolds ==
  ASSUME NEW v, NEW m, m = G!Size(v), NEW f \in Items(m), Holds(v, f),
         NEW i \in 0 .. m, NEW list \in Seq(Values), Len(list) > 0, Len(list) <= DefaultGapSize,
         NEW r, r = G!Inserted(v, i, list)
  PROVE  Grown(r, f, m, i, list)
<1>1. PICK n : n = Len(list)
  OBVIOUS
<1>2. n \in Nat /\ n > 0 /\ n <= DefaultGapSize /\ m \in Nat
  BY <1>1, SizeIs DEF Holds
<1>3. G!Plus(v, G!Begin(v), i) = Spot(v, i)
  BY PlusFromBegin DEF Holds
<1>4. PICK a : a = G!AllocateFromGap(v, Spot(v, i), n)
  OBVIOUS
<1>5. RoomIn(a.vec, a.at, f, m, i, n)
  BY <1>2, <1>4, RoomMade
<1>6. PICK x : x = [a.vec EXCEPT !.cell = G!Constructed(a.vec.cell, a.at, list)]
  OBVIOUS
<1>7. r.vec = x /\ r.at = a.at
  BY <1>1, <1>3, <1>4, <1>6 DEF G!Inserted
<1>8. Holds(x, Joined(f, m, i, list, Len(list))) /\ G!Size(x) = m + n /\ a.at = Spot(x, i)
  BY <1>1, <1>2, <1>5, <1>6, ConstructedHolds
<1> QED BY <1>1, <1>7, <1>8 DEF Grown

\* Natural numbers have a first, ...
LEMMA FirstOf ==
  ASSUME NEW T, T \subseteq Nat, T # {}
  PROVE  \E x \in T : \A y \in T : ~ (y < x)
<1>1. PICK less : less = OpToRel(<, Nat)
  OBVIOUS
<1>2. IsWellFoundedOn(less, Nat)
  BY <1>1, NatLessThanWellFounded
<1>3. PICK x \in T : \A y \in T : ~ (<<y, x>> \in less)
  BY <1>2, WFMin
<1>4. \A y, z \in T : y < z => <<y, z>> \in less
  BY <1>1 DEF OpToRel
<1> QED BY <1>3, <1>4

\* ... which is how what holds from one to the next holds up to any.
LEMMA OneByOne ==
  ASSUME NEW n \in Nat, NEW done, 0 \in done, \A k \in 0 .. n - 1 : k \in done => k + 1 \in done
  PROVE  \A k \in 0 .. n : k \in done
<1> SUFFICES ASSUME NEW k \in 0 .. n, k \notin done PROVE FALSE
  OBVIOUS
<1>1. PICK T : T = (0 .. n) \ done
  OBVIOUS
<1>2. T \subseteq Nat /\ T # {}
  BY <1>1
<1>3. PICK x \in T : \A y \in T : ~ (y < x)
  BY <1>2, FirstOf
<1>4. x # 0 /\ x - 1 \in 0 .. n - 1
  BY <1>1, <1>3
<1>5. x - 1 \in done
  BY <1>1, <1>3, <1>4
<1>6. (x - 1) + 1 \in done
  BY <1>4, <1>5
<1>7. (x - 1) + 1 = x
  BY <1>1, <1>4
<1> QED BY <1>1, <1>3, <1>6, <1>7

\* Items inserted one by one: the vector after k of them.
After(v, i, list, h, n) ==
  h = [k \in 0 .. n |-> IF k = 0 THEN v ELSE G!Inserted(h[k - 1], i + k - 1, <<list[k]>>).vec]

LEMMA AfterExists ==
  ASSUME NEW v, NEW i, NEW list, NEW n \in Nat
  PROVE  \E h : After(v, i, list, h, n)
<1>1. PICK done : done = {k \in 0 .. n : \E h : After(v, i, list, h, k)}
  OBVIOUS
<1>2. 0 \in done
  <2>1. PICK h : h = [k \in 0 .. 0 |-> v]
    OBVIOUS
  <2>2. After(v, i, list, h, 0)
    BY <2>1 DEF After
  <2> QED BY <2>2, <1>1
<1>3. ASSUME NEW k \in 0 .. n - 1, k \in done PROVE k + 1 \in done
  <2>1. PICK h : After(v, i, list, h, k)
    BY <1>1, <1>3
  <2>2. PICK g : g = [j \in 0 .. k + 1 |->
                       IF j = k + 1 THEN G!Inserted(h[k], i + (k + 1) - 1, <<list[k + 1]>>).vec ELSE h[j]]
    OBVIOUS
  <2>3. ASSUME NEW j \in 0 .. k + 1
        PROVE  g[j] = IF j = 0 THEN v ELSE G!Inserted(g[j - 1], i + j - 1, <<list[j]>>).vec
    <3>1. CASE j = k + 1
      <4>1. j # 0 /\ j - 1 = k /\ k \in 0 .. k + 1 /\ k # k + 1
        BY <3>1
      <4>2. g[k] = h[k]
        BY <4>1, <2>2
      <4> QED BY <4>1, <4>2, <3>1, <2>2
    <3>2. CASE j # k + 1
      <4>1. j \in 0 .. k
        BY <3>2
      <4>2. h[j] = IF j = 0 THEN v ELSE G!Inserted(h[j - 1], i + j - 1, <<list[j]>>).vec
        BY <4>1, <2>1 DEF After
      <4>3. j # 0 => j - 1 \in 0 .. k + 1 /\ j - 1 # k + 1
        BY <4>1
      <4>4. j # 0 => g[j - 1] = h[j - 1]
        BY <4>3, <2>2
      <4> QED BY <4>2, <4>4, <3>2, <2>2
    <3> QED BY <3>1, <3>2
  <2>4. After(v, i, list, g, k + 1)
    BY <2>2, <2>3 DEF After
  <2> QED BY <2>4, <1>1
<1>4. n \in done
  BY <1>2, <1>3, OneByOne
<1> QED BY <1>1, <1>4

LEMMA InsertedEachIs ==
  ASSUME NEW v, NEW i, NEW list, \E h : After(v, i, list, h, Len(list))
  PROVE  \E h : After(v, i, list, h, Len(list)) /\ G!InsertedEach(v, i, list) = h[Len(list)]
BY Zenon DEF G!InsertedEach, After

LEMMA JoinedOneMore ==
  ASSUME NEW m \in Nat, NEW f \in Items(m), NEW i \in 0 .. m, NEW list, NEW k \in Nat
  PROVE  Joined(Joined(f, m, i, list, k), m + k, i + k, <<list[k + 1]>>, 1) = Joined(f, m, i, list, k + 1)
<1>1. PICK g : g = Joined(f, m, i, list, k)
  OBVIOUS
<1>2. \A j \in 0 .. m + k - 1 :
        g[j] = IF j < i THEN f[j] ELSE IF j < i + k THEN list[j - i + 1] ELSE f[j - k]
  BY <1>1 DEF Joined
<1>3. ASSUME NEW j \in 0 .. (m + k) + 1 - 1
      PROVE  (IF j < i + k THEN g[j] ELSE IF j < (i + k) + 1 THEN <<list[k + 1]>>[j - (i + k) + 1] ELSE g[j - 1])
             = (IF j < i THEN f[j] ELSE IF j < i + (k + 1) THEN list[j - i + 1] ELSE f[j - (k + 1)])
  <2>1. CASE j < i + k
    <3>1. j \in 0 .. m + k - 1
      BY <2>1
    <3> QED BY <3>1, <2>1, <1>2
  <2>2. CASE j = i + k
    <3>1. j - (i + k) + 1 = 1 /\ j - i + 1 = k + 1
      BY <2>2
    <3> QED BY <3>1, <2>2
  <2>3. CASE j > i + k
    <3>1. j - 1 \in 0 .. m + k - 1 /\ ~ (j - 1 < i) /\ ~ (j - 1 < i + k) /\ (j - 1) - k = j - (k + 1)
      BY <2>3
    <3>2. g[j - 1] = f[j - (k + 1)]
      BY <3>1, <1>2
    <3> QED BY <3>2, <2>3
  <2> QED BY <2>1, <2>2, <2>3
<1>4. (m + k) + 1 - 1 = m + (k + 1) - 1
  OBVIOUS
<1>5. Joined(g, m + k, i + k, <<list[k + 1]>>, 1) =
        [j \in 0 .. (m + k) + 1 - 1 |->
          IF j < i + k THEN g[j] ELSE IF j < (i + k) + 1 THEN <<list[k + 1]>>[j - (i + k) + 1] ELSE g[j - 1]]
  BY Zenon DEF Joined
<1>6. Joined(f, m, i, list, k + 1) =
        [j \in 0 .. m + (k + 1) - 1 |->
          IF j < i THEN f[j] ELSE IF j < i + (k + 1) THEN list[j - i + 1] ELSE f[j - (k + 1)]]
  BY Zenon DEF Joined
<1> QED BY <1>1, <1>3, <1>4, <1>5, <1>6

LEMMA JoinedNone ==
  ASSUME NEW m \in Nat, NEW f \in Items(m), NEW i \in 0 .. m, NEW list
  PROVE  Joined(f, m, i, list, 0) = f
<1>1. ASSUME NEW j \in 0 .. m + 0 - 1
      PROVE  (IF j < i THEN f[j] ELSE IF j < i + 0 THEN list[j - i + 1] ELSE f[j - 0]) = f[j]
  OBVIOUS
<1>2. f = [j \in 0 .. m + 0 - 1 |-> f[j]]
  BY DEF Items
<1> QED BY <1>1, <1>2 DEF Joined

LEMMA InsertedEachHolds ==
  ASSUME NEW v, NEW m, m = G!Size(v), NEW f \in Items(m), Holds(v, f),
         NEW i \in 0 .. m, NEW list \in Seq(Values), NEW x, x = G!InsertedEach(v, i, list)
  PROVE  Holds(x, Joined(f, m, i, list, Len(list))) /\ G!Size(x) = m + Len(list)
<1>1. PICK n : n = Len(list)
  OBVIOUS
<1>2. n \in Nat /\ m \in Nat /\ \A j \in 1 .. n : list[j] \in Values
  BY <1>1, SizeIs DEF Holds
<1>3. \E h : After(v, i, list, h, n)
  BY <1>2, AfterExists
<1>4. PICK h : After(v, i, list, h, n) /\ x = h[n]
  BY <1>1, <1>3, InsertedEachIs
<1>5. PICK done : done = {k \in 0 .. n : Holds(h[k], Joined(f, m, i, list, k)) /\ G!Size(h[k]) = m + k}
  OBVIOUS
<1>6. 0 \in done
  <2>1. h[0] = v
    BY <1>2, <1>4 DEF After
  <2>2. Joined(f, m, i, list, 0) = f
    BY <1>2, JoinedNone
  <2> QED BY <2>1, <2>2, <1>2, <1>5
<1>7. ASSUME NEW k \in 0 .. n - 1, k \in done PROVE k + 1 \in done
  <2>1. PICK g : g = Joined(f, m, i, list, k)
    OBVIOUS
  <2>2. Holds(h[k], g) /\ G!Size(h[k]) = m + k /\ k \in Nat
    BY <2>1, <1>5, <1>7
  <2>3. g \in Items(m + k)
    <3>1. \A j \in 1 .. k : list[j] \in Values
      BY <1>2
    <3> QED BY <3>1, <2>1, <2>2, <1>2, JoinedItems
  <2>4. PICK one : one = <<list[k + 1]>>
    OBVIOUS
  <2>5. one \in Seq(Values) /\ Len(one) = 1
    <3>1. list[k + 1] \in Values
      BY <1>2
    <3> QED BY <3>1, <2>4
  <2>6. PICK r : r = G!Inserted(h[k], i + k, one)
    OBVIOUS
  <2>7. Holds(r.vec, Joined(g, m + k, i + k, one, 1)) /\ G!Size(r.vec) = (m + k) + 1
    <3>1. i + k \in 0 .. m + k /\ 1 <= DefaultGapSize /\ 1 > 0
      BY <1>2, <2>2, GapConstants
    <3>2. Holds(r.vec, Joined(g, m + k, i + k, one, Len(one))) /\ G!Size(r.vec) = (m + k) + Len(one)
      <4>1. PICK u, q, p : u = h[k] /\ q = m + k /\ p = i + k
        OBVIOUS
      <4>2. /\ q = G!Size(u) /\ g \in Items(q) /\ Holds(u, g) /\ p \in 0 .. q
            /\ Len(one) > 0 /\ Len(one) <= DefaultGapSize /\ r = G!Inserted(u, p, one)
        BY <4>1, <3>1, <2>2, <2>3, <2>5, <2>6
      <4>3. Grown(r, g, q, p, one)
        BY <4>2, <2>5, InsertedHolds
      <4> QED BY <4>1, <4>3 DEF Grown
    <3> QED BY <3>2, <2>5
  <2>8. h[k + 1] = r.vec
    <3>1. k + 1 \in 0 .. n /\ k + 1 # 0 /\ (k + 1) - 1 = k /\ i + (k + 1) - 1 = i + k
      BY <1>2
    <3>2. h[k + 1] = G!Inserted(h[(k + 1) - 1], i + (k + 1) - 1, <<list[k + 1]>>).vec
      BY <3>1, <1>4 DEF After
    <3> QED BY <3>1, <3>2, <2>4, <2>6
  <2>9. Joined(g, m + k, i + k, one, 1) = Joined(f, m, i, list, k + 1)
    BY <2>1, <2>2, <2>4, <1>2, JoinedOneMore
  <2>10. k + 1 \in 0 .. n /\ (m + k) + 1 = m + (k + 1)
    BY <1>2, <2>2
  <2> QED BY <2>7, <2>8, <2>9, <2>10, <1>5
<1>8. \A k \in 0 .. n - 1 : k \in done => k + 1 \in done
  BY <1>7
<1>9. \A k \in 0 .. n : k \in done
  BY <1>2, <1>6, <1>8, OneByOne
<1>10. n \in done
  BY <1>2, <1>9
<1> QED BY <1>1, <1>4, <1>5, <1>10

\* The m items f without n of them from item i on
Without(f, m, i, n) == [k \in 0 .. (m - n) - 1 |-> IF k < i THEN f[k] ELSE f[k + n]]

LEMMA WithoutItems ==
  ASSUME NEW m \in Nat, NEW f \in Items(m), NEW i \in 0 .. m, NEW n \in Nat, i + n <= m
  PROVE  Without(f, m, i, n) \in Items(m - n)
<1>1. ASSUME NEW k \in 0 .. (m - n) - 1
      PROVE  (IF k < i THEN f[k] ELSE f[k + n]) \in Values
  <2>1. k \in 0 .. m - 1 /\ k + n \in 0 .. m - 1
    OBVIOUS
  <2> QED BY <2>1 DEF Items
<1> QED BY <1>1 DEF Without, Items

\* The vector x has lost the n items from item i on.
Shrunk(x, f, m, i, n) == Holds(x, Without(f, m, i, n)) /\ G!Size(x) = m - n

LEMMA ErasedFar ==
  ASSUME NEW v, NEW m, m = G!Size(v), NEW f \in Items(m), Holds(v, f),
         NEW i \in 0 .. m, NEW n \in Nat, i + n <= m, NEW x, x = G!EraseFar(v, i, n)
  PROVE  Shrunk(x, f, m, i, n)
<1>1. PICK u : u = G!Unsplit(v)
  OBVIOUS
<1>2. /\ Holds(u, f) /\ Placed(u) /\ u.end = m /\ u.from = u.to /\ G!Size(u) = m
      /\ u.cap \in Nat /\ m \in Nat /\ m <= u.cap /\ u.from \in Nat
  <2>1. Holds(u, f) /\ u.end = m /\ u.from = u.to /\ G!Size(u) = m
    BY <1>1, UnsplitHolds
  <2> QED BY <2>1 DEF Holds, Placed
<1>3. PICK c : c = G!Destroyed(G!Moved(u, i + n, m, i, {}), m - n, m)
  OBVIOUS
<1>4. x = [u EXCEPT !.cell = c, !.end = m - n]
  BY <1>1, <1>2, <1>3 DEF G!EraseFar
<1>5. x = Vec(c, u.cap, m - n, u.from, u.to)
  BY <1>2, <1>4 DEF Placed, Vec
<1>6. /\ Placed(x) /\ G!Size(x) = m - n /\ x.cell = c /\ x.cap = u.cap /\ x.end = m - n
      /\ x.from = u.from /\ x.to = u.to
  <2>1. PICK e : e = m - n
    OBVIOUS
  <2>2. /\ e \in Nat /\ u.from \in Nat /\ u.to \in Nat /\ u.cap \in Nat /\ e <= u.cap
        /\ u.from <= u.to /\ e - (u.to - u.from) = e
    BY <1>2, <2>1
  <2>3. x = Vec(c, u.cap, e, u.from, u.to)
    BY <1>5, <2>1
  <2>4. /\ Placed(x) /\ G!Size(x) = e - (u.to - u.from) /\ x.cell = c /\ x.cap = u.cap
        /\ x.end = e /\ x.from = u.from /\ x.to = u.to
    BY <1>2, <2>2, <2>3, VecPlaced
  <2> QED BY <2>1, <2>2, <2>4
<1>7. \A k \in 0 .. u.cap - 1 :
        IF k < m THEN Wanted(u, f, k) = f[k] /\ f[k] \in Values ELSE Wanted(u, f, k) = "raw"
  BY <1>2, WantedFlat
<1>8. /\ c \in G!Storage(u.cap)
      /\ \A k \in 0 .. u.cap - 1 : Alike(c[k], Shifted(u, f, i + n, m, i, m - n, m, k))
  <2>1. /\ i + n \in Int /\ m \in Int /\ i \in Int /\ m - n \in Int
        /\ 0 <= i + n /\ i + n <= m /\ m <= u.cap /\ 0 <= i
        /\ i + (m - (i + n)) <= u.cap /\ 0 <= m - n
    BY <1>2
  <2>2. \A k \in 0 .. u.cap - 1 : k >= i + n /\ k < m => Wanted(u, f, k) \in Values
    BY <1>7
  <2>3. ASSUME NEW k \in 0 .. u.cap - 1, k >= i, k < i + (m - (i + n))
        PROVE  IF k \in {} THEN Wanted(u, f, k) \notin Values ELSE Wanted(u, f, k) \in Values
    <3>1. k < m
      BY <1>2, <2>3
    <3> QED BY <1>7, <3>1
  <2>4. ASSUME NEW k \in 0 .. u.cap - 1, k >= m - n, k < m
        PROVE  Wanted(u, f, k) \in Values
    BY <1>7, <2>4
  <2> QED BY <1>2, <1>3, <2>1, <2>2, <2>3, <2>4, ShiftedCells
<1>9. PICK h : h = Without(f, m, i, n)
  OBVIOUS
<1>10. /\ h \in Places(m - n)
       /\ \A k \in 0 .. (m - n) - 1 : h[k] = IF k < i THEN f[k] ELSE f[k + n]
  <2>1. h \in Items(m - n)
    BY <1>2, <1>9, WithoutItems
  <2> QED BY <2>1, <1>9 DEF Items, Places, Without
<1>11. ASSUME NEW k \in 0 .. u.cap - 1
       PROVE  Shifted(u, f, i + n, m, i, m - n, m, k) = Wanted(x, h, k)
  <2>1. CASE k < m - n
    <3>1. Wanted(x, h, k) = h[k] /\ k \in 0 .. (m - n) - 1
      BY <2>1, <1>2, <1>6 DEF Wanted
    <3>2. CASE k < i
      <4>1. Wanted(u, f, k) = f[k]
        BY <3>2, <1>2, <1>7
      <4> QED BY <4>1, <3>1, <3>2, <2>1, <1>2, <1>10 DEF Shifted
    <3>3. CASE k >= i
      <4>1. PICK j : j = (i + n) + (k - i)
        OBVIOUS
      <4>2. j = k + n /\ j \in 0 .. u.cap - 1 /\ j < m
        BY <4>1, <2>1, <1>2
      <4>3. Wanted(u, f, j) = f[k + n]
        BY <4>2, <1>7
      <4> QED BY <4>1, <4>3, <3>1, <3>3, <2>1, <1>2, <1>10 DEF Shifted
    <3> QED BY <3>2, <3>3
  <2>2. CASE k >= m - n
    <3>1. Wanted(x, h, k) = "raw"
      BY <2>2, <1>2, <1>6 DEF Wanted
    <3>2. k >= m => Wanted(u, f, k) = "raw"
      BY <1>2, <1>7
    <3> QED BY <3>1, <3>2, <2>2, <1>2 DEF Shifted
  <2> QED BY <2>1, <2>2, <1>2
<1>12. Holds(x, h)
  <2>1. \A k \in 0 .. u.cap - 1 : Alike(c[k], Wanted(x, h, k))
    BY <1>8, <1>11
  <2> QED BY <2>1, <1>6, <1>8, <1>10, HoldsIs
<1> QED BY <1>6, <1>9, <1>12 DEF Shrunk

LEMMA ErasedBefore ==
  ASSUME NEW v, NEW m, m = G!Size(v), NEW f \in Items(m), Holds(v, f),
         NEW i \in 0 .. m, NEW j \in 0 .. m, i < j, NEW n, n = j - i,
         v.from # v.to, j <= v.from, NEW x, x = G!EraseBefore(v, i, j, n)
  PROVE  Shrunk(x, f, m, i, n)
<1>1. /\ v.cap \in Nat /\ v.end \in Nat /\ v.end <= v.cap /\ v.from \in Nat /\ v.to \in Nat
      /\ v.from < v.to /\ v.to <= v.end /\ m = v.end - (v.to - v.from) /\ m \in Nat /\ Placed(v)
      /\ n \in Nat /\ n > 0
  BY ActiveIs DEF Holds
<1>2. PICK c : c = G!Destroyed(G!Moved(v, j, v.from, i, {}), v.from - n, v.from)
  OBVIOUS
<1>3. x = [v EXCEPT !.cell = c, !.from = v.from - n]
  BY <1>2 DEF G!EraseBefore
<1>4. x = Vec(c, v.cap, v.end, v.from - n, v.to)
  BY <1>1, <1>3 DEF Placed, Vec
<1>5. /\ Placed(x) /\ G!Size(x) = m - n /\ x.cell = c /\ x.cap = v.cap /\ x.end = v.end
      /\ x.from = v.from - n /\ x.to = v.to
  <2>1. PICK b : b = v.from - n
    OBVIOUS
  <2>2. /\ b \in Nat /\ b <= v.to /\ v.end - (v.to - b) = m - n
        /\ v.to \in Nat /\ v.end \in Nat /\ v.cap \in Nat /\ v.end <= v.cap /\ v.to <= v.end
    BY <1>1, <2>1
  <2>3. x = Vec(c, v.cap, v.end, b, v.to)
    BY <1>4, <2>1
  <2>4. /\ Placed(x) /\ G!Size(x) = v.end - (v.to - b) /\ x.cell = c /\ x.cap = v.cap
        /\ x.end = v.end /\ x.from = b /\ x.to = v.to
    BY <2>2, <2>3, VecPlaced
  <2> QED BY <2>1, <2>2, <2>4
<1>7. \A k \in 0 .. v.cap - 1 :
        /\ k < v.from => Wanted(v, f, k) = f[k] /\ f[k] \in Values
        /\ k >= v.to /\ k < v.end => /\ Wanted(v, f, k) = f[k - (v.to - v.from)]
                                     /\ f[k - (v.to - v.from)] \in Values
        /\ (k >= v.from /\ k < v.to) \/ k >= v.end => Wanted(v, f, k) = "raw"
  BY <1>1, WantedSplit
<1>8. /\ c \in G!Storage(v.cap)
      /\ \A k \in 0 .. v.cap - 1 : Alike(c[k], Shifted(v, f, j, v.from, i, v.from - n, v.from, k))
  <2>1. /\ j \in Int /\ v.from \in Int /\ i \in Int /\ v.from - n \in Int
        /\ 0 <= j /\ j <= v.from /\ v.from <= v.cap /\ 0 <= i
        /\ i + (v.from - j) <= v.cap /\ 0 <= v.from - n
    BY <1>1
  <2>2. \A k \in 0 .. v.cap - 1 : k >= j /\ k < v.from => Wanted(v, f, k) \in Values
    BY <1>7
  <2>3. ASSUME NEW k \in 0 .. v.cap - 1, k >= i, k < i + (v.from - j)
        PROVE  IF k \in {} THEN Wanted(v, f, k) \notin Values ELSE Wanted(v, f, k) \in Values
    <3>1. k < v.from
      BY <1>1, <2>3
    <3> QED BY <1>7, <3>1
  <2>4. ASSUME NEW k \in 0 .. v.cap - 1, k >= v.from - n, k < v.from
        PROVE  Wanted(v, f, k) \in Values
    BY <1>7, <2>4
  <2> QED BY <1>2, <2>1, <2>2, <2>3, <2>4, ShiftedCells
<1>9. PICK h : h = Without(f, m, i, n)
  OBVIOUS
<1>10. /\ h \in Places(m - n)
       /\ \A k \in 0 .. (m - n) - 1 : h[k] = IF k < i THEN f[k] ELSE f[k + n]
  <2>1. h \in Items(m - n)
    BY <1>1, <1>9, WithoutItems
  <2> QED BY <2>1, <1>9 DEF Items, Places, Without
<1>11. ASSUME NEW k \in 0 .. v.cap - 1
       PROVE  Shifted(v, f, j, v.from, i, v.from - n, v.from, k) = Wanted(x, h, k)
  <2>1. CASE k < v.from - n
    <3>1. Wanted(x, h, k) = h[k] /\ k \in 0 .. (m - n) - 1
      BY <2>1, <1>1, <1>5 DEF Wanted
    <3>2. CASE k < i
      <4>1. Wanted(v, f, k) = f[k]
        BY <3>2, <1>1, <1>7
      <4> QED BY <4>1, <3>1, <3>2, <2>1, <1>1, <1>10 DEF Shifted
    <3>3. CASE k >= i
      <4>1. PICK q : q = j + (k - i)
        OBVIOUS
      <4>2. q = k + n /\ q \in 0 .. v.cap - 1 /\ q < v.from
        BY <4>1, <2>1, <1>1
      <4>3. Wanted(v, f, q) = f[k + n]
        BY <4>2, <1>7
      <4> QED BY <4>1, <4>3, <3>1, <3>3, <2>1, <1>1, <1>10 DEF Shifted
    <3> QED BY <3>2, <3>3
  <2>2. CASE k >= v.from - n /\ k < v.to
    <3>1. Wanted(x, h, k) = "raw"
      BY <2>2, <1>1, <1>5 DEF Wanted
    <3>2. k >= v.from => Wanted(v, f, k) = "raw"
      BY <2>2, <1>7
    <3> QED BY <3>1, <3>2, <2>2, <1>1 DEF Shifted
  <2>3. CASE k >= v.to /\ k < v.end
    <3>1. PICK q : q = k - (v.to - (v.from - n))
      OBVIOUS
    <3>2. q \in 0 .. (m - n) - 1 /\ ~ (q < i) /\ q + n = k - (v.to - v.from) /\ ~ (k < v.from - n)
      BY <3>1, <2>3, <1>1
    <3>3. Wanted(x, h, k) = h[q]
      <4>1. x.from # x.to
        BY <1>1, <1>5
      <4> QED BY <4>1, <3>1, <3>2, <2>3, <1>5 DEF Wanted
    <3>4. h[q] = f[k - (v.to - v.from)]
      BY <3>2, <1>10
    <3> QED BY <2>3, <3>3, <3>4, <1>1, <1>7 DEF Shifted
  <2>4. CASE k >= v.end
    <3>1. Wanted(x, h, k) = "raw"
      BY <2>4, <1>1, <1>5 DEF Wanted
    <3> QED BY <2>4, <3>1, <1>1, <1>7 DEF Shifted
  <2> QED BY <2>1, <2>2, <2>3, <2>4, <1>1
<1>12. Holds(x, h)
  <2>1. \A k \in 0 .. v.cap - 1 : Alike(c[k], Wanted(x, h, k))
    BY <1>8, <1>11
  <2> QED BY <2>1, <1>5, <1>8, <1>10, HoldsIs
<1> QED BY <1>5, <1>9, <1>12 DEF Shrunk

LEMMA ErasedAfter ==
  ASSUME NEW v, NEW m, m = G!Size(v), NEW f \in Items(m), Holds(v, f),
         NEW i \in 0 .. m, NEW j \in 0 .. m, i < j, NEW n, n = j - i,
         v.from # v.to, i >= v.from, NEW first, first = i + (v.to - v.from), NEW last,
         NEW x, x = G!EraseAfter(v, first, last, n)
  PROVE  Shrunk(x, f, m, i, n)
<1>1. /\ v.cap \in Nat /\ v.end \in Nat /\ v.end <= v.cap /\ v.from \in Nat /\ v.to \in Nat
      /\ v.from < v.to /\ v.to <= v.end /\ m = v.end - (v.to - v.from) /\ m \in Nat /\ Placed(v)
      /\ n \in Nat /\ n > 0 /\ first \in Nat /\ v.to <= first /\ first + n <= v.end
  BY ActiveIs DEF Holds
<1>2. PICK c : c = G!Destroyed(G!Moved(v, v.to, first, v.to + n, {}), v.to, v.to + n)
  OBVIOUS
<1>3. x = [v EXCEPT !.cell = c, !.to = v.to + n]
  BY <1>2 DEF G!EraseAfter
<1>4. x = Vec(c, v.cap, v.end, v.from, v.to + n)
  BY <1>1, <1>3 DEF Placed, Vec
<1>5. /\ Placed(x) /\ G!Size(x) = m - n /\ x.cell = c /\ x.cap = v.cap /\ x.end = v.end
      /\ x.from = v.from /\ x.to = v.to + n
  <2>1. PICK s : s = v.to + n
    OBVIOUS
  <2>2. /\ s \in Nat /\ v.from <= s /\ v.end - (s - v.from) = m - n /\ s <= v.end
        /\ v.from \in Nat /\ v.end \in Nat /\ v.cap \in Nat /\ v.end <= v.cap
    BY <1>1, <2>1
  <2>3. x = Vec(c, v.cap, v.end, v.from, s)
    BY <1>4, <2>1
  <2>4. /\ Placed(x) /\ G!Size(x) = v.end - (s - v.from) /\ x.cell = c /\ x.cap = v.cap
        /\ x.end = v.end /\ x.from = v.from /\ x.to = s
    BY <2>2, <2>3, VecPlaced
  <2> QED BY <2>1, <2>2, <2>4
<1>7. \A k \in 0 .. v.cap - 1 :
        /\ k < v.from => Wanted(v, f, k) = f[k] /\ f[k] \in Values
        /\ k >= v.to /\ k < v.end => /\ Wanted(v, f, k) = f[k - (v.to - v.from)]
                                     /\ f[k - (v.to - v.from)] \in Values
        /\ (k >= v.from /\ k < v.to) \/ k >= v.end => Wanted(v, f, k) = "raw"
  BY <1>1, WantedSplit
<1>8. /\ c \in G!Storage(v.cap)
      /\ \A k \in 0 .. v.cap - 1 : Alike(c[k], Shifted(v, f, v.to, first, v.to + n, v.to, v.to + n, k))
  <2>1. /\ v.to \in Int /\ first \in Int /\ v.to + n \in Int
        /\ 0 <= v.to /\ v.to <= first /\ first <= v.cap /\ 0 <= v.to + n
        /\ (v.to + n) + (first - v.to) <= v.cap /\ v.to + n <= v.cap
    BY <1>1
  <2>2. \A k \in 0 .. v.cap - 1 : k >= v.to /\ k < first => Wanted(v, f, k) \in Values
    BY <1>1, <1>7
  <2>3. ASSUME NEW k \in 0 .. v.cap - 1, k >= v.to + n, k < (v.to + n) + (first - v.to)
        PROVE  IF k \in {} THEN Wanted(v, f, k) \notin Values ELSE Wanted(v, f, k) \in Values
    <3>1. k >= v.to /\ k < v.end
      BY <1>1, <2>3
    <3> QED BY <1>7, <3>1
  <2>4. ASSUME NEW k \in 0 .. v.cap - 1, k >= v.to, k < v.to + n
        PROVE  Wanted(v, f, k) \in Values
    <3>1. k < v.end
      BY <1>1, <2>4
    <3> QED BY <1>7, <2>4, <3>1
  <2> QED BY <1>2, <2>1, <2>2, <2>3, <2>4, ShiftedCells
<1>9. PICK h : h = Without(f, m, i, n)
  OBVIOUS
<1>10. /\ h \in Places(m - n)
       /\ \A k \in 0 .. (m - n) - 1 : h[k] = IF k < i THEN f[k] ELSE f[k + n]
  <2>0. i + n <= m /\ n \in Nat /\ m \in Nat
    BY <1>1
  <2>1. h \in Items(m - n)
    BY <2>0, <1>9, WithoutItems
  <2> QED BY <2>1, <1>9 DEF Items, Places, Without
<1>11. ASSUME NEW k \in 0 .. v.cap - 1
       PROVE  Shifted(v, f, v.to, first, v.to + n, v.to, v.to + n, k) = Wanted(x, h, k)
  <2>1. CASE k < v.from
    <3>1. Wanted(x, h, k) = h[k] /\ k \in 0 .. (m - n) - 1
      BY <2>1, <1>1, <1>5 DEF Wanted
    <3>2. h[k] = f[k]
      BY <3>1, <2>1, <1>1, <1>10
    <3> QED BY <3>1, <3>2, <2>1, <1>1, <1>7 DEF Shifted
  <2>2. CASE k >= v.from /\ k < v.to + n
    <3>1. Wanted(x, h, k) = "raw"
      BY <2>2, <1>1, <1>5 DEF Wanted
    <3>2. k < v.to => Wanted(v, f, k) = "raw"
      BY <2>2, <1>7
    <3> QED BY <3>1, <3>2, <2>2, <1>1 DEF Shifted
  <2>3. CASE k >= v.to + n /\ k < v.end
    <3>1. PICK q : q = k - ((v.to + n) - v.from)
      OBVIOUS
    <3>2. q \in 0 .. (m - n) - 1 /\ q + n = k - (v.to - v.from) /\ ~ (k < v.from) /\ k >= v.to
      BY <3>1, <2>3, <1>1
    <3>3. Wanted(x, h, k) = h[q]
      <4>1. x.from # x.to
        BY <1>1, <1>5
      <4> QED BY <4>1, <3>1, <3>2, <2>3, <1>5 DEF Wanted
    <3>4. CASE k < first + n
      <4>1. q < i
        BY <3>1, <3>4, <1>1
      <4>2. h[q] = f[q]
        BY <4>1, <3>2, <1>10
      <4>3. PICK p : p = v.to + (k - (v.to + n))
        OBVIOUS
      <4>4. p \in 0 .. v.cap - 1 /\ p >= v.to /\ p < v.end /\ p - (v.to - v.from) = q
        BY <4>3, <3>1, <2>3, <1>1
      <4>5. Wanted(v, f, p) = f[q]
        BY <4>4, <1>7
      <4> QED BY <4>2, <4>3, <4>5, <3>3, <3>4, <2>3, <1>1 DEF Shifted
    <3>5. CASE k >= first + n
      <4>1. ~ (q < i)
        BY <3>1, <3>5, <1>1
      <4>2. h[q] = f[k - (v.to - v.from)]
        BY <4>1, <3>2, <1>10
      <4>3. Wanted(v, f, k) = f[k - (v.to - v.from)]
        BY <3>2, <2>3, <1>7
      <4> QED BY <4>2, <4>3, <3>3, <3>5, <2>3, <1>1 DEF Shifted
    <3> QED BY <3>4, <3>5, <1>1
  <2>4. CASE k >= v.end
    <3>1. Wanted(x, h, k) = "raw"
      BY <2>4, <1>1, <1>5 DEF Wanted
    <3> QED BY <2>4, <3>1, <1>1, <1>7 DEF Shifted
  <2> QED BY <2>1, <2>2, <2>3, <2>4, <1>1
<1>12. Holds(x, h)
  <2>1. \A k \in 0 .. v.cap - 1 : Alike(c[k], Wanted(x, h, k))
    BY <1>8, <1>11
  <2> QED BY <2>1, <1>5, <1>8, <1>10, HoldsIs
<1> QED BY <1>5, <1>9, <1>12 DEF Shrunk

\* Items are destroyed where they are.
LEMMA DestroyedCells ==
  ASSUME NEW cap \in Nat, NEW d \in G!Storage(cap), NEW low \in Int, NEW high \in Int,
         \A k \in 0 .. cap - 1 : k >= low /\ k < high => d[k] \in Values,
         NEW c, c = G!Destroyed(d, low, high)
  PROVE  /\ c \in G!Storage(cap)
         /\ \A k \in 0 .. cap - 1 : c[k] = IF k >= low /\ k < high THEN "raw" ELSE d[k]
<1>1. DOMAIN d = 0 .. cap - 1 /\ \A k \in 0 .. cap - 1 : d[k] \in Values \cup {"raw", "moved", "bad"}
  BY DEF G!Storage
<1>2. c = [k \in 0 .. cap - 1 |->
            IF k \in low .. high - 1 THEN (IF d[k] \in {"raw", "bad"} THEN "bad" ELSE "raw") ELSE d[k]]
  BY <1>1 DEF G!Destroyed
<1>3. ASSUME NEW k \in 0 .. cap - 1
      PROVE  c[k] = IF k >= low /\ k < high THEN "raw" ELSE d[k]
  <2>1. k \in low .. high - 1 <=> k >= low /\ k < high
    OBVIOUS
  <2>2. k >= low /\ k < high => ~ (d[k] \in {"raw", "bad"})
    BY GapConstants
  <2> QED BY <1>2, <2>1, <2>2
<1>4. c \in G!Storage(cap)
  BY <1>1, <1>2, <1>3 DEF G!Storage
<1> QED BY <1>3, <1>4

LEMMA ErasedAround ==
  ASSUME NEW v, NEW m, m = G!Size(v), NEW f \in Items(m), Holds(v, f),
         NEW i \in 0 .. m, NEW j \in 0 .. m, i < j, NEW n, n = j - i,
         v.from # v.to, i < v.from, NEW last, last = j + (v.to - v.from), j >= v.from,
         NEW x, x = G!EraseAround(v, i, last)
  PROVE  Shrunk(x, f, m, i, n)
<1>1. /\ v.cap \in Nat /\ v.end \in Nat /\ v.end <= v.cap /\ v.from \in Nat /\ v.to \in Nat
      /\ v.from < v.to /\ v.to <= v.end /\ m = v.end - (v.to - v.from) /\ m \in Nat /\ Placed(v)
      /\ n \in Nat /\ n > 0 /\ last \in Nat /\ v.to <= last /\ last <= v.end
  BY ActiveIs DEF Holds
<1>2. PICK b, c : b = G!Destroyed(v.cell, i, v.from) /\ c = G!Destroyed(b, v.to, last)
  OBVIOUS
<1>3. x = [v EXCEPT !.cell = c, !.from = i, !.to = last]
  BY <1>2 DEF G!EraseAround
<1>4. x = Vec(c, v.cap, v.end, i, last)
  BY <1>1, <1>3 DEF Placed, Vec
<1>5. /\ Placed(x) /\ G!Size(x) = m - n /\ x.cell = c /\ x.cap = v.cap /\ x.end = v.end
      /\ x.from = i /\ x.to = last
  <2>1. /\ last \in Nat /\ i <= last /\ v.end - (last - i) = m - n /\ i \in Nat
        /\ v.end \in Nat /\ v.cap \in Nat /\ v.end <= v.cap /\ last <= v.end
    BY <1>1
  <2>2. /\ Placed(x) /\ G!Size(x) = v.end - (last - i) /\ x.cell = c /\ x.cap = v.cap
        /\ x.end = v.end /\ x.from = i /\ x.to = last
    BY <1>4, <2>1, VecPlaced
  <2> QED BY <2>1, <2>2
<1>6. \A k \in 0 .. v.cap - 1 : Alike(v.cell[k], Wanted(v, f, k))
  BY DEF Holds
<1>7. \A k \in 0 .. v.cap - 1 :
        /\ k < v.from => Wanted(v, f, k) = f[k] /\ f[k] \in Values
        /\ k >= v.to /\ k < v.end => /\ Wanted(v, f, k) = f[k - (v.to - v.from)]
                                     /\ f[k - (v.to - v.from)] \in Values
        /\ (k >= v.from /\ k < v.to) \/ k >= v.end => Wanted(v, f, k) = "raw"
  BY <1>1, WantedSplit
<1>8. \A k \in 0 .. v.cap - 1 :
        k < v.from \/ (k >= v.to /\ k < v.end) => v.cell[k] \in Values
  BY <1>6, <1>7 DEF Alike
<1>9. /\ b \in G!Storage(v.cap)
      /\ \A k \in 0 .. v.cap - 1 : b[k] = IF k >= i /\ k < v.from THEN "raw" ELSE v.cell[k]
  <2>1. v.cell \in G!Storage(v.cap)
    BY DEF Holds
  <2>2. \A k \in 0 .. v.cap - 1 : k >= i /\ k < v.from => v.cell[k] \in Values
    BY <1>8
  <2> QED BY <2>1, <2>2, <1>1, <1>2, DestroyedCells
<1>10. /\ c \in G!Storage(v.cap)
       /\ \A k \in 0 .. v.cap - 1 : c[k] = IF k >= v.to /\ k < last THEN "raw" ELSE b[k]
  <2>1. ASSUME NEW k \in 0 .. v.cap - 1, k >= v.to, k < last PROVE b[k] \in Values
    <3>1. k < v.end /\ ~ (k < v.from)
      BY <2>1, <1>1
    <3> QED BY <3>1, <2>1, <1>8, <1>9
  <2> QED BY <2>1, <1>1, <1>2, <1>9, DestroyedCells
<1>11. PICK h : h = Without(f, m, i, n)
  OBVIOUS
<1>12. /\ h \in Places(m - n)
       /\ \A k \in 0 .. (m - n) - 1 : h[k] = IF k < i THEN f[k] ELSE f[k + n]
  <2>1. h \in Items(m - n)
    BY <1>1, <1>11, WithoutItems
  <2> QED BY <2>1, <1>11 DEF Items, Places, Without
<1>13. ASSUME NEW k \in 0 .. v.cap - 1
       PROVE  Alike(c[k], Wanted(x, h, k))
  <2>1. CASE k < i
    <3>1. Wanted(x, h, k) = h[k] /\ k \in 0 .. (m - n) - 1
      BY <2>1, <1>1, <1>5 DEF Wanted
    <3>2. h[k] = f[k] /\ c[k] = v.cell[k] /\ Wanted(v, f, k) = f[k]
      BY <3>1, <2>1, <1>1, <1>7, <1>9, <1>10, <1>12
    <3> QED BY <3>1, <3>2, <1>6
  <2>2. CASE k >= i /\ k < last
    <3>1. Wanted(x, h, k) = "raw"
      BY <2>2, <1>1, <1>5 DEF Wanted
    <3>2. c[k] \in {"raw", "moved"}
      <4>1. CASE k < v.from \/ k >= v.to
        <5>1. c[k] = "raw"
          BY <4>1, <2>2, <1>1, <1>9, <1>10
        <5> QED BY <5>1
      <4>2. CASE k >= v.from /\ k < v.to
        <5>1. c[k] = v.cell[k] /\ Wanted(v, f, k) = "raw"
          BY <4>2, <2>2, <1>1, <1>7, <1>9, <1>10
        <5> QED BY <5>1, <1>6, GapConstants DEF Alike
      <4> QED BY <4>1, <4>2, <1>1
    <3> QED BY <3>1, <3>2, GapConstants DEF Alike
  <2>3. CASE k >= last /\ k < v.end
    <3>1. PICK q : q = k - (last - i)
      OBVIOUS
    <3>2. q \in 0 .. (m - n) - 1 /\ ~ (q < i) /\ q + n = k - (v.to - v.from) /\ ~ (k < i) /\ k >= v.to
      BY <3>1, <2>3, <1>1
    <3>3. Wanted(x, h, k) = h[q]
      <4>1. x.from # x.to
        BY <1>1, <1>5
      <4> QED BY <4>1, <3>1, <3>2, <2>3, <1>5 DEF Wanted
    <3>4. h[q] = f[k - (v.to - v.from)]
      BY <3>2, <1>12
    <3>5. Wanted(v, f, k) = f[k - (v.to - v.from)]
      BY <3>2, <2>3, <1>7
    <3>6. c[k] = v.cell[k]
      BY <3>2, <2>3, <1>1, <1>9, <1>10
    <3> QED BY <3>3, <3>4, <3>5, <3>6, <1>6
  <2>4. CASE k >= v.end
    <3>1. Wanted(x, h, k) = "raw"
      BY <2>4, <1>1, <1>5 DEF Wanted
    <3>2. c[k] = v.cell[k] /\ Wanted(v, f, k) = "raw"
      BY <2>4, <1>1, <1>7, <1>9, <1>10
    <3> QED BY <3>1, <3>2, <1>6
  <2> QED BY <2>1, <2>2, <2>3, <2>4, <1>1
<1>14. Holds(x, h)
  BY <1>5, <1>10, <1>12, <1>13, HoldsIs
<1> QED BY <1>5, <1>11, <1>14 DEF Shrunk

\* erase(), wherever the gap is
LEMMA ErasedHolds ==
  ASSUME NEW v, NEW m, m = G!Size(v), NEW f \in Items(m), Holds(v, f),
         NEW i \in 0 .. m, NEW j \in 0 .. m, i < j, NEW x, x = G!Erased(v, i, j)
  PROVE  Shrunk(x, f, m, i, j - i)
<1>p. PICK p, q, n : p = Spot(v, i) /\ q = Spot(v, j) /\ n = j - i
  OBVIOUS
<1>0. m \in Nat /\ n \in Nat /\ i + n <= m /\ Placed(v)
  BY <1>p, SizeIs DEF Holds
<1>r. G!Plus(v, G!Begin(v), i) = p /\ G!Plus(v, G!Begin(v), j) = q
  BY <1>0, <1>p, PlusFromBegin
<1>1. CASE ~ (G!Near(v, p) \/ G!Near(v, q))
  <2>1. x = G!EraseFar(v, i, n)
    BY <1>1, <1>p, <1>r DEF G!Erased
  <2>2. Shrunk(x, f, m, i, n)
    BY <1>0, <2>1, ErasedFar
  <2> QED BY <2>2, <1>p
<1>2. CASE G!Near(v, p) \/ G!Near(v, q)
  <2>1. v.from # v.to
    BY <1>2 DEF G!Near, G!Active
  <2>2. /\ v.end \in Nat /\ v.from \in Nat /\ v.to \in Nat
        /\ v.from < v.to /\ v.to <= v.end /\ m = v.end - (v.to - v.from) /\ G!Gap(v) = v.to - v.from
    BY <1>0, <2>1, ActiveIs
  <2>3. IF i < v.from THEN p = i ELSE p = i + (v.to - v.from)
    BY <1>p, <2>1, <2>2 DEF Spot, G!Index, G!Active
  <2>4. \/ j <= v.from /\ q = j
        \/ j >= v.from /\ q = j + (v.to - v.from)
    BY <1>p, <2>1, <2>2 DEF Spot, G!Index, G!End, G!Active
  <2>5. CASE j <= v.from /\ q = j
    <3>1. G!Before(v, q - 1) /\ p = i
      BY <2>1, <2>2, <2>3, <2>5 DEF G!Before, G!Active
    <3>2. x = G!EraseBefore(v, i, j, n)
      BY <1>2, <1>p, <1>r, <2>5, <3>1 DEF G!Erased
    <3>3. Shrunk(x, f, m, i, n)
      BY <1>p, <2>1, <2>5, <3>2, ErasedBefore
    <3> QED BY <3>3, <1>p
  <2>6. CASE j >= v.from /\ q = j + (v.to - v.from)
    <3>1. ~ G!Before(v, q - 1)
      BY <2>1, <2>2, <2>6 DEF G!Before, G!Active
    <3>2. CASE i >= v.from
      <4>1. G!After(v, p)
        BY <2>1, <2>2, <2>3, <3>2 DEF G!After, G!Active
      <4>2. x = G!EraseAfter(v, p, q, n)
        BY <1>2, <1>p, <1>r, <3>1, <4>1 DEF G!Erased
      <4>3. p = i + (v.to - v.from)
        BY <2>2, <2>3, <3>2
      <4>4. Shrunk(x, f, m, i, n)
        BY <1>p, <2>1, <3>2, <4>2, <4>3, ErasedAfter
      <4> QED BY <4>4, <1>p
    <3>3. CASE i < v.from
      <4>1. ~ G!After(v, p) /\ p = i
        BY <2>1, <2>2, <2>3, <3>3 DEF G!After, G!Active
      <4>2. x = G!EraseAround(v, i, q)
        BY <1>2, <1>p, <1>r, <3>1, <4>1 DEF G!Erased
      <4>3. Shrunk(x, f, m, i, n)
        BY <1>p, <2>1, <2>6, <3>3, <4>2, ErasedAround
      <4> QED BY <4>3, <1>p
    <3> QED BY <3>2, <3>3, <2>2
  <2> QED BY <2>4, <2>5, <2>6
<1> QED BY <1>1, <1>2

LEMMA ClearedHolds ==
  ASSUME NEW v, NEW f \in Items(G!Size(v)), Holds(v, f), NEW x, x = G!Cleared(v)
  PROVE  G!Size(x) = 0 /\ \E h \in Items(0) : Holds(x, h)
<1>1. PICK u, m : u = G!Unsplit(v) /\ m = G!Size(v)
  OBVIOUS
<1>2. /\ Holds(u, f) /\ Placed(u) /\ u.end = m /\ u.from = u.to /\ f \in Items(m) /\ G!Size(u) = m
      /\ u.cap \in Nat /\ m \in Nat /\ m <= u.cap /\ u.from \in Nat
  <2>1. Holds(u, f) /\ u.end = m /\ u.from = u.to /\ G!Size(u) = m
    BY <1>1, UnsplitHolds
  <2> QED BY <1>1, <2>1 DEF Holds, Placed
<1>3. PICK c : c = G!Destroyed(u.cell, 0, m)
  OBVIOUS
<1>4. x = [u EXCEPT !.cell = c, !.end = 0]
  BY <1>1, <1>2, <1>3 DEF G!Cleared
<1>5. x = Vec(c, u.cap, 0, u.from, u.to)
  BY <1>2, <1>4 DEF Placed, Vec
<1>6. x.cell = c /\ x.cap = u.cap /\ x.end = 0 /\ x.from = u.from /\ x.to = u.to
  BY <1>5 DEF Vec
<1>7. Placed(x) /\ G!Size(x) = 0
  BY <1>2, <1>5, <1>6 DEF Placed, G!Size, G!Gap
<1>8. \A k \in 0 .. u.cap - 1 :
        IF k < m THEN u.cell[k] \in Values ELSE u.cell[k] \in {"raw", "moved"}
  <2>1. ASSUME NEW k \in 0 .. u.cap - 1
        PROVE  IF k < m THEN Wanted(u, f, k) \in Values ELSE Wanted(u, f, k) = "raw"
    BY <1>2, WantedFlat
  <2>2. \A k \in 0 .. u.cap - 1 : Alike(u.cell[k], Wanted(u, f, k))
    BY <1>2 DEF Holds
  <2> QED BY <2>1, <2>2, GapConstants DEF Alike
<1>9. /\ c \in G!Storage(u.cap)
      /\ \A k \in 0 .. u.cap - 1 : c[k] = IF k >= 0 /\ k < m THEN "raw" ELSE u.cell[k]
  <2>1. u.cell \in G!Storage(u.cap)
    BY <1>2 DEF Holds
  <2>2. \A k \in 0 .. u.cap - 1 : k >= 0 /\ k < m => u.cell[k] \in Values
    BY <1>8
  <2>3. 0 \in Int /\ m \in Int
    BY <1>2
  <2> QED BY <2>1, <2>2, <2>3, <1>2, <1>3, DestroyedCells
<1>10. PICK h : h = [k \in 0 .. 0 - 1 |-> "raw"]
  OBVIOUS
<1>11. h \in Items(0) /\ h \in Places(0)
  BY <1>10 DEF Items, Places
<1>12. ASSUME NEW k \in 0 .. u.cap - 1 PROVE Alike(c[k], Wanted(x, h, k))
  <2>1. Wanted(x, h, k) = "raw"
    BY <1>6 DEF Wanted
  <2>2. c[k] \in {"raw", "moved"}
    BY <1>8, <1>9
  <2> QED BY <2>1, <2>2, GapConstants DEF Alike
<1>13. Holds(x, h)
  BY <1>6, <1>7, <1>9, <1>11, <1>12, HoldsIs
<1> QED BY <1>7, <1>11, <1>13

LEMMA EmptyHolds ==
  /\ G!Size(G!Empty) = 0 /\ \E h \in Items(0) : Holds(G!Empty, h)
  /\ Spot(G!Empty, 0) = 0
<1>1. PICK x, c : c = [k \in 0 .. -1 |-> "raw"] /\ x = Vec(c, 0, 0, 0, 0)
  OBVIOUS
<1>2. x = G!Empty
  BY <1>1 DEF G!Empty, Vec
<1>3. x.cell = c /\ x.cap = 0 /\ x.end = 0 /\ x.from = 0 /\ x.to = 0
  BY <1>1 DEF Vec
<1>4. Placed(x) /\ G!Size(x) = 0
  BY <1>1, <1>3 DEF Placed, G!Size, G!Gap
<1>5. PICK h : h = [k \in 0 .. 0 - 1 |-> "raw"]
  OBVIOUS
<1>6. h \in Items(0) /\ h \in Places(0) /\ c \in G!Storage(0)
  BY <1>1, <1>5 DEF Items, Places, G!Storage
<1>7. \A k \in 0 .. 0 - 1 : Alike(c[k], Wanted(x, h, k))
  OBVIOUS
<1>8. Holds(x, h)
  BY <1>3, <1>4, <1>6, <1>7, HoldsIs
<1>9. Spot(x, 0) = 0
  BY <1>3, <1>4 DEF Spot, G!End, G!Active
<1> QED BY <1>2, <1>4, <1>6, <1>8, <1>9

\* The items are where they can be found, and nothing else is there.
LEMMA CellsHold ==
  ASSUME NEW v, NEW m, m = G!Size(v), NEW f \in Items(m), Holds(v, f)
  PROVE  /\ \A i \in 0 .. m - 1 : /\ G!Index(v, i) \in 0 .. v.cap - 1
                                  /\ v.cell[G!Index(v, i)] = f[i] /\ f[i] \in Values
         /\ \A k \in 0 .. v.cap - 1 :
              (\A i \in 0 .. m - 1 : k # G!Index(v, i)) => v.cell[k] \in {"raw", "moved"}
<1>1. /\ Placed(v) /\ m \in Nat /\ v.cap \in Nat /\ v.end \in Nat /\ v.end <= v.cap
      /\ v.from \in Nat /\ v.to \in Nat /\ (v.from # v.to => v.from < v.to /\ v.to <= v.end)
      /\ v.from = v.to => m = v.end
      /\ v.from # v.to => m = v.end - (v.to - v.from)
  <2>1. Placed(v)
    BY DEF Holds
  <2> QED BY <2>1, SizeIs DEF Placed
<1>2. \A k \in 0 .. v.cap - 1 : Alike(v.cell[k], Wanted(v, f, k))
  BY DEF Holds
<1>3. ASSUME NEW i \in 0 .. m - 1
      PROVE  /\ G!Index(v, i) \in 0 .. v.cap - 1
             /\ v.cell[G!Index(v, i)] = f[i] /\ f[i] \in Values
  <2>1. f[i] \in Values
    BY DEF Items
  <2>2. PICK k : k = G!Index(v, i)
    OBVIOUS
  <2>3. k \in 0 .. v.cap - 1 /\ Wanted(v, f, k) = f[i]
    <3>1. CASE v.from = v.to
      BY <3>1, <2>2, <1>1 DEF G!Index, G!Active, Wanted
    <3>2. CASE v.from # v.to /\ i < v.from
      BY <3>2, <2>2, <1>1 DEF G!Index, G!Active, Wanted
    <3>3. CASE v.from # v.to /\ ~ (i < v.from)
      <4>1. k = i + (v.to - v.from)
        BY <3>3, <2>2 DEF G!Index, G!Active, G!Gap
      <4>2. k \in 0 .. v.cap - 1 /\ k < v.end /\ ~ (k < v.from) /\ k >= v.to /\ k - (v.to - v.from) = i
        BY <4>1, <3>3, <1>1
      <4> QED BY <4>2, <3>3 DEF Wanted
    <3> QED BY <3>1, <3>2, <3>3
  <2> QED BY <2>1, <2>2, <2>3, <1>2 DEF Alike
<1>4. ASSUME NEW k \in 0 .. v.cap - 1, \A i \in 0 .. m - 1 : k # G!Index(v, i)
      PROVE  v.cell[k] \in {"raw", "moved"}
  <2>1. ~ (k < v.end /\ (v.from = v.to \/ k < v.from))
    <3>1. k < v.end /\ (v.from = v.to \/ k < v.from) => k \in 0 .. m - 1 /\ G!Index(v, k) = k
      BY <1>1 DEF G!Index, G!Active
    <3> QED BY <3>1, <1>4
  <2>2. ~ (v.from # v.to /\ k < v.end /\ k >= v.to)
    <3>1. PICK i : i = k - (v.to - v.from)
      OBVIOUS
    <3>2. v.from # v.to /\ k < v.end /\ k >= v.to =>
            i \in 0 .. m - 1 /\ ~ (i < v.from) /\ i + (v.to - v.from) = k
      BY <3>1, <1>1
    <3>3. v.from # v.to /\ k < v.end /\ k >= v.to => G!Index(v, i) = k
      BY <3>2 DEF G!Index, G!Active, G!Gap
    <3> QED BY <3>2, <3>3, <1>4
  <2>3. Wanted(v, f, k) = "raw"
    BY <2>1, <2>2, <1>1 DEF Wanted
  <2> QED BY <2>3, <1>2, GapConstants DEF Alike
<1> QED BY <1>3, <1>4

LEMMA ItemsAre ==
  ASSUME NEW v, NEW m, m = G!Size(v), NEW f \in Items(m), Holds(v, f)
  PROVE  /\ G!Items(v) \in Seq(Values) /\ Len(G!Items(v)) = m
         /\ \A k \in 1 .. m : G!Items(v)[k] = f[k - 1]
<1>1. m \in Nat
  BY SizeIs DEF Holds
<1>2. ASSUME NEW k \in 1 .. m
      PROVE  v.cell[G!Index(v, k - 1)] = f[k - 1] /\ f[k - 1] \in Values
  <2>1. k - 1 \in 0 .. m - 1
    BY <1>1
  <2> QED BY <2>1, CellsHold
<1>3. PICK s : s = G!Items(v)
  OBVIOUS
<1>4. s = [k \in 1 .. m |-> f[k - 1]]
  BY <1>2, <1>3 DEF G!Items
<1>5. s \in [1 .. m -> Values]
  BY <1>2, <1>4
<1>6. s \in Seq(Values) /\ Len(s) = m
  BY <1>1, <1>5, SeqDef, LenProperties
<1> QED BY <1>3, <1>4, <1>6

\* What becomes of the m items s when those behind i, up to j, are replaced by
\* the n of `list`.
Replaced(s, t, list, m, n, i, j) ==
  /\ Len(t) = (m - (j - i)) + n
  /\ \A k \in 1 .. (m - (j - i)) + n :
       t[k] = IF k <= i THEN s[k] ELSE IF k <= i + n THEN list[k - i] ELSE s[(k - n) + (j - i)]

Splice(s, list, i, j) == (SubSeq(s, 1, i) \o list) \o SubSeq(s, j + 1, Len(s))

LEMMA Spliced ==
  ASSUME NEW s \in Seq(Values), NEW t \in Seq(Values), NEW list \in Seq(Values),
         NEW i \in 0 .. Len(s), NEW j \in i .. Len(s), Replaced(s, t, list, Len(s), Len(list), i, j)
  PROVE  t = Splice(s, list, i, j)
<1>0. PICK m, n : m = Len(s) /\ n = Len(list)
  OBVIOUS
<1>1. /\ m \in Nat /\ n \in Nat /\ i \in 0 .. m /\ j \in i .. m
      /\ \A k \in 1 .. m : s[k] \in Values
  BY <1>0
<1>2. PICK a, b, c, d : a = SubSeq(s, 1, i) /\ b = SubSeq(s, j + 1, m) /\ c = a \o list /\ d = c \o b
  OBVIOUS
<1>c. c = a \o list
  BY <1>2
<1>d. d = c \o b
  BY <1>2
<1>n. Len(list) = n
  BY <1>0
<1>3. a \in Seq(Values) /\ Len(a) = i /\ \A k \in 1 .. i : a[k] = s[k]
  <2>1. /\ 1 \in Int /\ i \in Int /\ (\A k \in 1 .. i : s[k] \in Values)
        /\ i - 1 + 1 = i /\ (~ (1 <= i) => i = 0)
    BY <1>1
  <2>2. /\ a \in Seq(Values) /\ Len(a) = IF 1 <= i THEN i - 1 + 1 ELSE 0
        /\ \A k \in 1 .. i - 1 + 1 : a[k] = s[1 + k - 1]
    BY <2>1, <1>2, SubSeqProperties
  <2>3. ASSUME NEW k \in 1 .. i PROVE a[k] = s[k]
    <3>1. k \in 1 .. i - 1 + 1 /\ 1 + k - 1 = k
      BY <2>1
    <3>2. a[k] = s[1 + k - 1]
      BY <3>1, <2>2
    <3> QED BY <3>1, <3>2
  <2>4. Len(a) = i
    BY <2>1, <2>2
  <2> QED BY <2>2, <2>3, <2>4
<1>4. b \in Seq(Values) /\ Len(b) = m - j /\ \A k \in 1 .. m - j : b[k] = s[j + k]
  <2>1. /\ j + 1 \in Int /\ m \in Int /\ (\A k \in j + 1 .. m : s[k] \in Values)
        /\ m - (j + 1) + 1 = m - j /\ (~ (j + 1 <= m) => m - j = 0)
    BY <1>1
  <2>2. /\ b \in Seq(Values) /\ Len(b) = IF j + 1 <= m THEN m - (j + 1) + 1 ELSE 0
        /\ \A k \in 1 .. m - (j + 1) + 1 : b[k] = s[(j + 1) + k - 1]
    BY <2>1, <1>2, SubSeqProperties
  <2>3. ASSUME NEW k \in 1 .. m - j PROVE b[k] = s[j + k]
    <3>1. k \in 1 .. m - (j + 1) + 1 /\ (j + 1) + k - 1 = j + k
      BY <2>1
    <3>2. b[k] = s[(j + 1) + k - 1]
      BY <3>1, <2>2
    <3> QED BY <3>1, <3>2
  <2>4. Len(b) = m - j
    BY <2>1, <2>2
  <2> QED BY <2>2, <2>3, <2>4
<1>5. /\ c \in Seq(Values) /\ Len(c) = i + n
      /\ \A k \in 1 .. i + n : c[k] = IF k <= i THEN a[k] ELSE list[k - i]
  <2>1. /\ c \in Seq(Values) /\ Len(c) = Len(a) + Len(list)
        /\ \A k \in 1 .. Len(a) + Len(list) : c[k] = IF k <= Len(a) THEN a[k] ELSE list[k - Len(a)]
    BY <1>c, <1>3, ConcatProperties
  <2> QED BY <2>1, <1>3, <1>n
<1>6. /\ d \in Seq(Values) /\ Len(d) = (i + n) + (m - j)
      /\ \A k \in 1 .. (i + n) + (m - j) : d[k] = IF k <= i + n THEN c[k] ELSE b[k - (i + n)]
  <2>1. /\ d \in Seq(Values) /\ Len(d) = Len(c) + Len(b)
        /\ \A k \in 1 .. Len(c) + Len(b) : d[k] = IF k <= Len(c) THEN c[k] ELSE b[k - Len(c)]
    BY <1>d, <1>4, <1>5, ConcatProperties
  <2> QED BY <2>1, <1>4, <1>5
<1>7. (i + n) + (m - j) = (m - (j - i)) + n
  BY <1>1
<1>r. /\ Len(t) = (m - (j - i)) + n
      /\ \A k \in 1 .. (m - (j - i)) + n :
           t[k] = IF k <= i THEN s[k] ELSE IF k <= i + n THEN list[k - i] ELSE s[(k - n) + (j - i)]
  BY <1>0 DEF Replaced
<1>8. ASSUME NEW k \in 1 .. (m - (j - i)) + n PROVE t[k] = d[k]
  <2>1. CASE k <= i
    <3>1. k \in 1 .. i /\ k \in 1 .. i + n /\ k <= i + n
      BY <2>1, <1>1
    <3> QED BY <3>1, <2>1, <1>3, <1>5, <1>6, <1>7, <1>r
  <2>2. CASE k > i /\ k <= i + n
    <3>1. k \in 1 .. i + n /\ ~ (k <= i)
      BY <2>2, <1>1
    <3> QED BY <3>1, <2>2, <1>5, <1>6, <1>7, <1>r
  <2>3. CASE k > i + n
    <3>1. /\ k - (i + n) \in 1 .. m - j /\ ~ (k <= i) /\ ~ (k <= i + n)
          /\ j + (k - (i + n)) = (k - n) + (j - i)
      BY <2>3, <1>1
    <3> QED BY <3>1, <1>4, <1>6, <1>7, <1>r
  <2> QED BY <2>1, <2>2, <2>3, <1>1
<1>9. t = d
  BY <1>6, <1>7, <1>8, <1>r, SeqEqual
<1> QED BY <1>0, <1>2, <1>9 DEF Splice

\* The items are as many as may be, and the iterator that was returned is
\* where it was said to be.
VecInv ==
  /\ G!Size(vec) <= MaxSize
  /\ returned.index \in 0 .. G!Size(vec) /\ returned.at = Spot(vec, returned.index)
  /\ \E f \in Items(G!Size(vec)) : Holds(vec, f)

LEMMA VecBecomes ==
  ASSUME NEW x, NEW f \in Items(G!Size(x)), Holds(x, f), G!Size(x) <= MaxSize,
         NEW i \in 0 .. G!Size(x), vec' = x, returned' = [at |-> Spot(x, i), index |-> i]
  PROVE  VecInv'
<1>1. returned'.index = i /\ returned'.at = Spot(x, i)
  OBVIOUS
<1>2. /\ G!Size(vec') <= MaxSize
      /\ returned'.index \in 0 .. G!Size(vec') /\ returned'.at = Spot(vec', returned'.index)
      /\ \E h \in Items(G!Size(vec')) : Holds(vec', h)
  BY <1>1
<1> QED BY <1>2 DEF VecInv

LEMMA BeginIs ==
  ASSUME NEW v, Placed(v)
  PROVE  G!Begin(v) = Spot(v, 0) /\ 0 \in 0 .. G!Size(v)
<1>1. G!Size(v) \in Nat
  BY SizeIs
<1>2. 0 \in 0 .. G!Size(v)
  BY <1>1
<1>3. G!Plus(v, G!Begin(v), 0) = Spot(v, 0)
  BY <1>2, PlusFromBegin
<1>4. G!Plus(v, G!Begin(v), 0) = G!Begin(v)
  BY DEF Placed, G!Plus, G!Begin
<1> QED BY <1>2, <1>3, <1>4

\* Operations that leave the items alone
LEMMA VecStill ==
  ASSUME VecInv, NEW x, NEW f \in Items(G!Size(vec)), Holds(vec, f), Holds(x, f),
         G!Size(x) = G!Size(vec), vec' = x, returned' = [at |-> G!Begin(x), index |-> 0]
  PROVE  VecInv' /\ G!Items(vec') = G!Items(vec)
<1>1. PICK m : m = G!Size(vec)
  OBVIOUS
<1>2. Placed(x) /\ G!Size(x) = m /\ f \in Items(m) /\ m <= MaxSize
  BY <1>1 DEF Holds, VecInv
<1>3. G!Begin(x) = Spot(x, 0) /\ 0 \in 0 .. G!Size(x)
  BY <1>2, BeginIs
<1>4. VecInv'
  BY <1>2, <1>3, VecBecomes
<1>5. /\ G!Items(vec) \in Seq(Values) /\ Len(G!Items(vec)) = m
      /\ \A k \in 1 .. m : G!Items(vec)[k] = f[k - 1]
  BY <1>1, <1>2, ItemsAre
<1>6. /\ G!Items(x) \in Seq(Values) /\ Len(G!Items(x)) = m
      /\ \A k \in 1 .. m : G!Items(x)[k] = f[k - 1]
  BY <1>2, ItemsAre
<1>7. G!Items(x) = G!Items(vec)
  BY <1>5, <1>6, SeqEqual
<1> QED BY <1>4, <1>7

\* Operations that insert
LEMMA VecGrown ==
  ASSUME VecInv, NEW f \in Items(G!Size(vec)), Holds(vec, f), NEW i \in 0 .. G!Size(vec),
         NEW n \in 1 .. MaxSize - G!Size(vec), NEW list \in [1 .. n -> Values],
         NEW x, Holds(x, Joined(f, G!Size(vec), i, list, n)), G!Size(x) = G!Size(vec) + n,
         vec' = x, returned' = [at |-> Spot(x, i), index |-> i]
  PROVE  VecInv' /\ G!Promised!Next
<1>1. PICK m, s, t, h : /\ m = G!Size(vec) /\ s = G!Items(vec) /\ t = G!Items(x)
                        /\ h = Joined(f, m, i, list, n)
  OBVIOUS
<1>2. m \in Nat /\ n \in Nat /\ n > 0 /\ m + n <= MaxSize /\ G!Size(x) = m + n /\ Holds(x, h) /\ Placed(vec)
  BY <1>1, SizeIs, GapConstants DEF Holds
<1>3. list \in Seq(Values) /\ Len(list) = n
  BY <1>2, SeqDef, LenProperties
<1>4. h \in Items(m + n)
  BY <1>1, <1>2, JoinedItems
<1>5. VecInv'
  <2>1. i \in 0 .. m + n
    BY <1>1, <1>2
  <2> QED BY <2>1, <1>2, <1>4, VecBecomes
<1>6. s \in Seq(Values) /\ Len(s) = m /\ \A k \in 1 .. m : s[k] = f[k - 1]
  BY <1>1, ItemsAre
<1>7. t \in Seq(Values) /\ Len(t) = m + n /\ \A k \in 1 .. m + n : t[k] = h[k - 1]
  BY <1>1, <1>2, <1>4, ItemsAre
<1>8. ASSUME NEW k \in 1 .. m + n
      PROVE  t[k] = IF k <= i THEN s[k] ELSE IF k <= i + n THEN list[k - i] ELSE s[(k - n) + (i - i)]
  <2>1. PICK q : q = k - 1
    OBVIOUS
  <2>2. t[k] = IF q < i THEN f[q] ELSE IF q < i + n THEN list[q - i + 1] ELSE f[q - n]
    <3>1. q \in 0 .. m + n - 1
      BY <2>1, <1>2
    <3>2. t[k] = h[q]
      BY <2>1, <1>7
    <3> QED BY <3>1, <3>2, <1>1 DEF Joined
  <2>3. CASE k <= i
    <3>1. q < i /\ k \in 1 .. m
      BY <2>1, <2>3, <1>1, <1>2
    <3>2. s[k] = f[q]
      BY <3>1, <2>1, <1>6
    <3> QED BY <3>1, <3>2, <2>2, <2>3
  <2>4. CASE k > i /\ k <= i + n
    <3>1. ~ (q < i) /\ q < i + n /\ q - i + 1 = k - i /\ ~ (k <= i)
      BY <2>1, <2>4, <1>1, <1>2
    <3> QED BY <3>1, <2>2, <2>4
  <2>5. CASE k > i + n
    <3>1. /\ ~ (q < i) /\ ~ (q < i + n) /\ ~ (k <= i) /\ ~ (k <= i + n)
          /\ (k - n) + (i - i) = k - n /\ k - n \in 1 .. m /\ (k - n) - 1 = q - n
      BY <2>1, <2>5, <1>1, <1>2
    <3>2. s[k - n] = f[q - n]
      BY <3>1, <1>6
    <3> QED BY <3>1, <3>2, <2>2
  <2> QED BY <2>3, <2>4, <2>5, <1>1, <1>2
<1>9. t = (SubSeq(s, 1, i) \o list) \o SubSeq(s, i + 1, m)
  <2>1. i \in 0 .. m /\ i \in i .. m /\ (m - (i - i)) + n = m + n
    BY <1>1, <1>2
  <2>2. /\ Len(t) = (m - (i - i)) + n
        /\ \A k \in 1 .. (m - (i - i)) + n :
             t[k] = IF k <= i THEN s[k] ELSE IF k <= i + n THEN list[k - i] ELSE s[(k - n) + (i - i)]
    BY <2>1, <1>7, <1>8
  <2>3. n = Len(list) /\ m = Len(s)
    BY <1>3, <1>6
  <2>4. Replaced(s, t, list, Len(s), Len(list), i, i)
    BY <2>2, <2>3 DEF Replaced
  <2>5. i \in 0 .. Len(s) /\ i \in i .. Len(s)
    BY <2>1, <2>3
  <2>6. s \in Seq(Values) /\ t \in Seq(Values) /\ list \in Seq(Values)
    BY <1>3, <1>6, <1>7
  <2>7. t = Splice(s, list, i, i)
    BY <2>4, <2>5, <2>6, Spliced
  <2> QED BY <2>3, <2>7 DEF Splice
<1>10. G!Promised!Insert
  <2>1. i \in 0 .. Len(s) /\ n \in 1 .. MaxSize - Len(s)
    BY <1>1, <1>2, <1>6
  <2>2. t = SubSeq(s, 1, i) \o list \o SubSeq(s, i + 1, Len(s))
    BY <1>6, <1>9
  <2>3. G!Items(vec') = t
    BY <1>1
  <2> QED BY <2>1, <2>2, <2>3, <1>1 DEF G!Promised!Insert, G!Promised!Inserted
<1> QED BY <1>5, <1>10 DEF G!Promised!Next

\* Operations that erase
LEMMA VecShrunk ==
  ASSUME VecInv, NEW f \in Items(G!Size(vec)), Holds(vec, f),
         NEW i \in 0 .. G!Size(vec), NEW j \in 0 .. G!Size(vec), i < j,
         NEW x, NEW h \in Items(G!Size(vec) - (j - i)), Holds(x, h), G!Size(x) = G!Size(vec) - (j - i),
         \A k \in 0 .. (G!Size(vec) - (j - i)) - 1 : h[k] = IF k < i THEN f[k] ELSE f[k + (j - i)],
         vec' = x, returned' = [at |-> Spot(x, i), index |-> i]
  PROVE  VecInv' /\ G!Promised!Next
<1>1. PICK m, s, t, n : m = G!Size(vec) /\ s = G!Items(vec) /\ t = G!Items(x) /\ n = j - i
  OBVIOUS
<1>2. /\ m \in Nat /\ n \in Nat /\ i + n = j /\ j <= m /\ m <= MaxSize /\ G!Size(x) = m - n
      /\ h \in Items(m - n) /\ m - n \in Nat
  <2>1. Placed(vec)
    BY DEF Holds
  <2>2. m \in Nat /\ m <= MaxSize
    BY <1>1, <2>1, SizeIs DEF VecInv
  <2> QED BY <1>1, <2>2
<1>3. VecInv'
  <2>1. i \in 0 .. m - n /\ m - n <= MaxSize
    BY <1>1, <1>2, GapConstants
  <2> QED BY <2>1, <1>2, VecBecomes
<1>4. s \in Seq(Values) /\ Len(s) = m /\ \A k \in 1 .. m : s[k] = f[k - 1]
  BY <1>1, ItemsAre
<1>5. t \in Seq(Values) /\ Len(t) = m - n /\ \A k \in 1 .. m - n : t[k] = h[k - 1]
  BY <1>1, <1>2, ItemsAre
<1>6. PICK none : none = <<>>
  OBVIOUS
<1>7. none \in Seq(Values) /\ Len(none) = 0
  BY <1>6
<1>8. ASSUME NEW k \in 1 .. (m - (j - i)) + 0
      PROVE  t[k] = IF k <= i THEN s[k] ELSE IF k <= i + 0 THEN none[k - i] ELSE s[(k - 0) + (j - i)]
  <2>1. PICK q : q = k - 1
    OBVIOUS
  <2>2. k \in 1 .. m - n /\ q \in 0 .. (m - n) - 1
    BY <2>1, <1>1, <1>2
  <2>3. t[k] = IF q < i THEN f[q] ELSE f[q + n]
    BY <2>1, <2>2, <1>1, <1>5
  <2>4. CASE k <= i
    <3>1. q < i /\ k \in 1 .. m
      BY <2>1, <2>4, <1>1, <1>2
    <3>2. s[k] = f[q]
      BY <3>1, <2>1, <1>4
    <3> QED BY <3>1, <3>2, <2>3, <2>4
  <2>5. CASE k > i
    <3>1. /\ ~ (q < i) /\ ~ (k <= i) /\ ~ (k <= i + 0)
          /\ (k - 0) + (j - i) = k + n /\ k + n \in 1 .. m /\ (k + n) - 1 = q + n
      BY <2>1, <2>2, <2>5, <1>1, <1>2
    <3>2. s[k + n] = f[q + n]
      BY <3>1, <1>4
    <3> QED BY <3>1, <3>2, <2>3
  <2> QED BY <2>4, <2>5, <2>2
<1>9. t = (SubSeq(s, 1, i) \o none) \o SubSeq(s, j + 1, m)
  <2>1. i \in 0 .. m /\ j \in i .. m /\ (m - (j - i)) + 0 = m - n
    BY <1>1, <1>2
  <2>2. Len(t) = (m - (j - i)) + 0 /\ 0 = Len(none) /\ m = Len(s)
    BY <2>1, <1>4, <1>5, <1>7
  <2>3. Replaced(s, t, none, Len(s), Len(none), i, j)
    BY <2>2, <1>8 DEF Replaced
  <2>4. i \in 0 .. Len(s) /\ j \in i .. Len(s)
    BY <2>1, <2>2
  <2>5. s \in Seq(Values) /\ t \in Seq(Values) /\ none \in Seq(Values)
    BY <1>4, <1>5, <1>7
  <2>6. t = Splice(s, none, i, j)
    BY <2>3, <2>4, <2>5, Spliced
  <2> QED BY <2>2, <2>6 DEF Splice
<1>10. SubSeq(s, 1, i) \o none = SubSeq(s, 1, i)
  <2>1. \A k \in 1 .. i : s[k] \in Values
    BY <1>1, <1>2, <1>4
  <2>2. 1 \in Int /\ i \in Int
    OBVIOUS
  <2>3. SubSeq(s, 1, i) \in Seq(Values)
    BY <2>1, <2>2, SubSeqProperties
  <2> QED BY <2>3, <1>6, ConcatEmptySeq
<1>11. G!Promised!Erase
  <2>1. i \in 0 .. Len(s) /\ j \in 0 .. Len(s)
    BY <1>1, <1>4
  <2>2. t = SubSeq(s, 1, i) \o SubSeq(s, j + 1, Len(s))
    BY <1>4, <1>9, <1>10
  <2>3. G!Items(vec') = t
    BY <1>1
  <2> QED BY <2>1, <2>2, <2>3, <1>1 DEF G!Promised!Erase, G!Promised!Erased
<1> QED BY <1>3, <1>11 DEF G!Promised!Next

LEMMA ListsAre ==
  ASSUME NEW most \in Nat, NEW list \in G!Lists(vec, most), Placed(vec)
  PROVE  \E n \in 1 .. MaxSize - G!Size(vec) : n <= most /\ list \in [1 .. n -> Values]
<1>1. PICK n \in 1 .. G!MinOf(most, MaxSize - G!Size(vec)) : list \in [1 .. n -> Values]
  BY DEF G!Lists
<1>2. G!Size(vec) \in Nat
  BY SizeIs
<1>3. n \in 1 .. MaxSize - G!Size(vec) /\ n <= most
  BY <1>1, <1>2, GapConstants DEF G!MinOf
<1> QED BY <1>1, <1>3

LEMMA VecInsert ==
  ASSUME MaxInsert <= DefaultGapSize, VecInv, G!Insert
  PROVE  VecInv' /\ G!Promised!Next
<1>1. PICK i \in 0 .. G!Size(vec), list \in G!Lists(vec, MaxInsert) :
        /\ vec' = G!Inserted(vec, i, list).vec
        /\ returned' = [at |-> G!Inserted(vec, i, list).at, index |-> i]
  BY DEF G!Insert
<1>2. PICK f \in Items(G!Size(vec)) : Holds(vec, f)
  BY DEF VecInv
<1>3. PICK n \in 1 .. MaxSize - G!Size(vec) : n <= MaxInsert /\ list \in [1 .. n -> Values]
  <2>1. Placed(vec) /\ MaxInsert \in Nat
    BY <1>2, GapConstants DEF Holds
  <2> QED BY <2>1, ListsAre
<1>4. list \in Seq(Values) /\ Len(list) = n /\ n \in Nat /\ n > 0 /\ n <= DefaultGapSize
  <2>1. n \in Nat /\ n > 0 /\ n <= DefaultGapSize
    BY <1>3, GapConstants
  <2> QED BY <2>1, <1>3, SeqDef, LenProperties
<1>5. PICK a : a = G!Inserted(vec, i, list)
  OBVIOUS
<1>6. PICK m : m = G!Size(vec)
  OBVIOUS
<1>7. Grown(a, f, m, i, list)
  BY <1>2, <1>4, <1>5, <1>6, InsertedHolds
<1>8. PICK x : x = a.vec
  OBVIOUS
<1>9. Holds(x, Joined(f, m, i, list, n)) /\ G!Size(x) = m + n /\ a.at = Spot(x, i)
  BY <1>4, <1>7, <1>8 DEF Grown
<1>10. vec' = x /\ returned' = [at |-> Spot(x, i), index |-> i]
  BY <1>1, <1>5, <1>8, <1>9
<1>11. Holds(x, Joined(f, G!Size(vec), i, list, n)) /\ G!Size(x) = G!Size(vec) + n
  BY <1>6, <1>9
<1> QED BY <1>2, <1>3, <1>10, <1>11, VecGrown

LEMMA VecInsertEach ==
  ASSUME VecInv, G!InsertEach
  PROVE  VecInv' /\ G!Promised!Next
<1>1. PICK i \in 0 .. G!Size(vec), list \in G!Lists(vec, MaxEach) :
        /\ vec' = G!InsertedEach(vec, i, list)
        /\ returned' = [at |-> G!Plus(vec', G!Begin(vec'), i), index |-> i]
  BY DEF G!InsertEach
<1>2. PICK f \in Items(G!Size(vec)) : Holds(vec, f)
  BY DEF VecInv
<1>3. PICK n \in 1 .. MaxSize - G!Size(vec) : n <= MaxEach /\ list \in [1 .. n -> Values]
  <2>1. Placed(vec) /\ MaxEach \in Nat
    BY <1>2, GapConstants DEF Holds
  <2> QED BY <2>1, ListsAre
<1>4. list \in Seq(Values) /\ Len(list) = n /\ n \in Nat /\ n > 0
  <2>1. n \in Nat /\ n > 0
    BY <1>3
  <2> QED BY <2>1, <1>3, SeqDef, LenProperties
<1>5. PICK x, m : x = G!InsertedEach(vec, i, list) /\ m = G!Size(vec)
  OBVIOUS
<1>6. Holds(x, Joined(f, m, i, list, Len(list))) /\ G!Size(x) = m + Len(list)
  BY <1>2, <1>4, <1>5, InsertedEachHolds
<1>7. G!Plus(x, G!Begin(x), i) = Spot(x, i)
  <2>1. Placed(x) /\ m \in Nat
    BY <1>2, <1>5, <1>6, SizeIs DEF Holds
  <2>2. i \in 0 .. G!Size(x)
    BY <2>1, <1>4, <1>5, <1>6
  <2> QED BY <2>1, <2>2, PlusFromBegin
<1>8. vec' = x /\ returned' = [at |-> Spot(x, i), index |-> i]
  BY <1>1, <1>5, <1>7
<1>9. Holds(x, Joined(f, G!Size(vec), i, list, n)) /\ G!Size(x) = G!Size(vec) + n
  BY <1>4, <1>5, <1>6
<1> QED BY <1>2, <1>3, <1>8, <1>9, VecGrown

LEMMA VecErase ==
  ASSUME VecInv, G!Erase
  PROVE  VecInv' /\ G!Promised!Next
<1>1. PICK i \in 0 .. G!Size(vec), j \in 0 .. G!Size(vec) :
        i < j /\ vec' = G!Erased(vec, i, j) /\ returned' = [at |-> G!ErasedAt(vec, i, j), index |-> i]
  BY DEF G!Erase
<1>2. PICK f \in Items(G!Size(vec)) : Holds(vec, f)
  BY DEF VecInv
<1>3. PICK x, m, h : x = G!Erased(vec, i, j) /\ m = G!Size(vec) /\ h = Without(f, m, i, j - i)
  OBVIOUS
<1>4. Shrunk(x, f, m, i, j - i)
  BY <1>1, <1>2, <1>3, ErasedHolds
<1>5. Holds(x, h) /\ G!Size(x) = m - (j - i) /\ Placed(x)
  BY <1>3, <1>4 DEF Shrunk, Holds
<1>6. m \in Nat /\ i \in 0 .. m /\ j \in 0 .. m /\ j - i \in Nat /\ i + (j - i) <= m /\ f \in Items(m)
  <2>1. Placed(vec)
    BY <1>2 DEF Holds
  <2>2. m \in Nat
    BY <2>1, <1>3, SizeIs
  <2> QED BY <2>2, <1>1, <1>2, <1>3
<1>7. h \in Items(m - (j - i)) /\ \A k \in 0 .. (m - (j - i)) - 1 : h[k] = IF k < i THEN f[k] ELSE f[k + (j - i)]
  <2>1. h \in Items(m - (j - i))
    BY <1>3, <1>6, WithoutItems
  <2> QED BY <2>1, <1>3 DEF Without
<1>8. G!Plus(x, G!Begin(x), i) = Spot(x, i)
  <2>1. i \in 0 .. G!Size(x)
    BY <1>1, <1>5, <1>6
  <2> QED BY <2>1, <1>5, PlusFromBegin
<1>9. vec' = x /\ returned' = [at |-> Spot(x, i), index |-> i]
  BY <1>1, <1>3, <1>8 DEF G!ErasedAt
<1>10. /\ h \in Items(G!Size(vec) - (j - i)) /\ Holds(x, h) /\ G!Size(x) = G!Size(vec) - (j - i)
       /\ \A k \in 0 .. (G!Size(vec) - (j - i)) - 1 : h[k] = IF k < i THEN f[k] ELSE f[k + (j - i)]
  BY <1>3, <1>5, <1>7
<1> QED BY <1>1, <1>2, <1>9, <1>10, VecShrunk

LEMMA VecClear ==
  ASSUME VecInv, G!Clear
  PROVE  VecInv' /\ (G!Promised!Next \/ G!Items(vec') = G!Items(vec))
<1>1. PICK x : x = G!Cleared(vec)
  OBVIOUS
<1>2. vec' = x /\ returned' = [at |-> G!Begin(x), index |-> 0]
  BY <1>1 DEF G!Clear, G!Became
<1>3. PICK f \in Items(G!Size(vec)) : Holds(vec, f)
  BY DEF VecInv
<1>4. G!Size(x) = 0 /\ \E h \in Items(0) : Holds(x, h)
  BY <1>1, <1>3, ClearedHolds
<1>5. PICK h \in Items(0) : Holds(x, h)
  BY <1>4
<1>6. PICK m : m = G!Size(vec)
  OBVIOUS
<1>7. m \in Nat
  BY <1>3, <1>6, SizeIs DEF Holds
<1>8. CASE m = 0
  <2>1. f = h
    BY <1>3, <1>5, <1>6, <1>8 DEF Items
  <2>2. Holds(x, f) /\ G!Size(x) = G!Size(vec)
    BY <2>1, <1>4, <1>5, <1>6, <1>8
  <2> QED BY <2>2, <1>2, <1>3, VecStill
<1>9. CASE m # 0
  <2>1. m - (m - 0) = 0 /\ 0 < m /\ 0 \in 0 .. m /\ m \in 0 .. m
    BY <1>7, <1>9
  <2>2. G!Begin(x) = Spot(x, 0)
    BY <1>5, BeginIs DEF Holds
  <2>3. /\ h \in Items(m - (m - 0)) /\ G!Size(x) = m - (m - 0)
        /\ \A k \in 0 .. (m - (m - 0)) - 1 : h[k] = IF k < 0 THEN f[k] ELSE f[k + (m - 0)]
    BY <2>1, <1>4, <1>5, <1>7
  <2>4. returned' = [at |-> Spot(x, 0), index |-> 0]
    BY <2>2, <1>2
  <2> QED BY <2>1, <2>3, <2>4, <1>2, <1>3, <1>5, <1>6, VecShrunk
<1> QED BY <1>8, <1>9

LEMMA VecKeeps ==
  ASSUME VecInv, G!Data \/ G!ReserveMore \/ G!ShrinkToFit
  PROVE  VecInv' /\ G!Items(vec') = G!Items(vec)
<1>1. PICK f \in Items(G!Size(vec)) : Holds(vec, f)
  BY DEF VecInv
<1>2. CASE G!Data
  <2>1. PICK x : x = G!Unsplit(vec)
    OBVIOUS
  <2>2. vec' = x /\ returned' = [at |-> G!Begin(x), index |-> 0]
    BY <1>2, <2>1 DEF G!Data, G!Became
  <2>3. Holds(x, f) /\ G!Size(x) = G!Size(vec)
    BY <1>1, <2>1, UnsplitHolds
  <2> QED BY <1>1, <2>2, <2>3, VecStill
<1>3. CASE G!ReserveMore
  <2>1. PICK cap \in Reservations : G!Became(G!Reserve(vec, cap))
    BY <1>3 DEF G!ReserveMore
  <2>2. PICK x : x = G!Reserve(vec, cap)
    OBVIOUS
  <2>3. vec' = x /\ returned' = [at |-> G!Begin(x), index |-> 0]
    BY <2>1, <2>2 DEF G!Became
  <2>4. Holds(x, f) /\ G!Size(x) = G!Size(vec)
    <3>1. cap \in Nat
      BY GapConstants
    <3> QED BY <3>1, <1>1, <2>2, ReserveHolds
  <2> QED BY <1>1, <2>3, <2>4, VecStill
<1>4. CASE G!ShrinkToFit
  <2>1. PICK x, s, m : x = G!InsertedEach(G!Empty, 0, s) /\ s = G!Items(vec) /\ m = G!Size(vec)
    OBVIOUS
  <2>2. vec' = x /\ returned' = [at |-> G!Begin(x), index |-> 0]
    BY <1>4, <2>1 DEF G!ShrinkToFit, G!Became
  <2>3. s \in Seq(Values) /\ Len(s) = m /\ (\A k \in 1 .. m : s[k] = f[k - 1]) /\ f \in Items(m)
    BY <1>1, <2>1, ItemsAre
  <2>m. m \in Nat
    BY <1>1, <2>1, SizeIs DEF Holds
  <2>4. PICK h \in Items(0) : Holds(G!Empty, h)
    BY EmptyHolds
  <2>5. PICK e : e = G!Empty
    OBVIOUS
  <2>6. 0 = G!Size(e) /\ Holds(e, h) /\ x = G!InsertedEach(e, 0, s) /\ 0 \in 0 .. 0
    BY <2>1, <2>4, <2>5, EmptyHolds
  <2>7. Holds(x, Joined(h, 0, 0, s, Len(s))) /\ G!Size(x) = 0 + Len(s)
    BY <2>3, <2>4, <2>6, InsertedEachHolds
  <2>8. Joined(h, 0, 0, s, m) = f
    <3>1. ASSUME NEW k \in 0 .. 0 + m - 1
          PROVE  (IF k < 0 THEN h[k] ELSE IF k < 0 + m THEN s[k - 0 + 1] ELSE h[k - m]) = f[k]
      <4>1. k - 0 + 1 \in 1 .. m /\ (k - 0 + 1) - 1 = k /\ ~ (k < 0) /\ k < 0 + m
        BY <2>m
      <4>2. s[k - 0 + 1] = f[k]
        BY <4>1, <2>3
      <4> QED BY <4>1, <4>2
    <3>2. f = [k \in 0 .. 0 + m - 1 |-> f[k]]
      <4>1. 0 + m - 1 = m - 1
        BY <2>m
      <4>2. f = [k \in 0 .. m - 1 |-> f[k]]
        BY <2>3 DEF Items
      <4> QED BY <4>1, <4>2
    <3> QED BY <3>1, <3>2 DEF Joined
  <2>9. Holds(x, f) /\ G!Size(x) = G!Size(vec)
    BY <2>1, <2>3, <2>7, <2>8, <2>m
  <2> QED BY <1>1, <2>2, <2>9, VecStill
<1> QED BY <1>2, <1>3, <1>4

LEMMA VecInit == G!Init => VecInv /\ G!Items(vec) = <<>>
<1> SUFFICES ASSUME G!Init PROVE VecInv /\ G!Items(vec) = <<>>
  OBVIOUS
<1>1. vec = G!Empty /\ returned = [at |-> 0, index |-> 0]
  BY DEF G!Init
<1>2. PICK e : e = G!Empty
  OBVIOUS
<1>3. G!Size(e) = 0 /\ (\E h \in Items(0) : Holds(e, h)) /\ Spot(e, 0) = 0
  BY <1>2, EmptyHolds
<1>4. vec = e /\ returned.at = 0 /\ returned.index = 0
  BY <1>1, <1>2
<1>5. VecInv
  BY <1>3, <1>4, GapConstants DEF VecInv
<1>6. G!Items(e) \in Seq(Values) /\ Len(G!Items(e)) = 0
  BY <1>3, ItemsAre
<1> QED BY <1>4, <1>5, <1>6

LEMMA VecStep ==
  ASSUME MaxInsert <= DefaultGapSize, VecInv, [G!Next]_G!vars
  PROVE  VecInv' /\ (G!Promised!Next \/ G!Items(vec') = G!Items(vec))
<1>1. CASE UNCHANGED G!vars
  <2>1. vec' = vec /\ returned' = returned
    BY <1>1 DEF G!vars
  <2> QED BY <2>1 DEF VecInv
<1> QED BY <1>1, VecInsert, VecInsertEach, VecErase, VecClear, VecKeeps DEF G!Next

\* A gap_vector's iterators go from item to item, and the one that was
\* returned is where it should be; and its cells have objects exactly where
\* items are, as long as lists of no more items than a gap has are inserted.
THEOREM VectorIsSafe ==
  ASSUME MaxInsert <= DefaultGapSize
  PROVE  G!Spec => []VectorSafe
<1>1. G!Init => VecInv
  BY VecInit
<1>2. VecInv /\ [G!Next]_G!vars => VecInv'
  BY VecStep
<1>3. VecInv => VectorSafe
  <2> SUFFICES ASSUME VecInv
               PROVE  G!TypeOK /\ G!IteratorsAgree /\ G!ReturnedThere /\ G!LifetimesExact
    BY DEF VectorSafe
  <2>1. PICK f \in Items(G!Size(vec)) : Holds(vec, f)
    BY DEF VecInv
  <2>2. Placed(vec) /\ vec.cell \in G!Storage(vec.cap) /\ G!Size(vec) \in Nat
    BY <2>1, SizeIs DEF Holds
  <2>3. G!TypeOK
    <3>1. returned.at \in 0 .. vec.end
      BY <2>2, SpotWithin DEF VecInv
    <3>2. returned.index \in 0 .. MaxSize
      BY <2>2, GapConstants DEF VecInv
    <3>3. /\ vec.cap \in Nat /\ vec.end \in 0 .. vec.cap /\ vec.from \in Nat /\ vec.to \in Nat
          /\ (vec.from # vec.to => vec.from < vec.to /\ vec.to <= vec.end)
      BY <2>2 DEF Placed
    <3> QED BY <3>1, <3>2, <3>3, <2>2 DEF G!TypeOK
  <2>4. ASSUME NEW i \in 0 .. G!Size(vec), NEW j \in 0 .. G!Size(vec), i <= j,
               NEW p, p = G!Plus(vec, G!Begin(vec), i), NEW q, q = G!Plus(vec, G!Begin(vec), j)
        PROVE  /\ j = G!Size(vec) <=> q = G!End(vec)
               /\ j < G!Size(vec) => q = G!Index(vec, j)
               /\ G!Plus(vec, p, j - i) = q /\ G!Minus(vec, q, j - i) = p
               /\ G!Distance(vec, q, p) = j - i /\ G!Distance(vec, p, q) = i - j
    <3>1. p = Spot(vec, i) /\ q = Spot(vec, j)
      BY <2>2, <2>4, PlusFromBegin
    <3>2. j < G!Size(vec) => q = G!Index(vec, j)
      BY <3>1 DEF Spot
    <3>3. /\ j = G!Size(vec) <=> Spot(vec, j) = G!End(vec)
          /\ G!Plus(vec, Spot(vec, i), j - i) = Spot(vec, j)
          /\ G!Minus(vec, Spot(vec, j), j - i) = Spot(vec, i)
          /\ G!Distance(vec, Spot(vec, j), Spot(vec, i)) = j - i
          /\ G!Distance(vec, Spot(vec, i), Spot(vec, j)) = i - j
      BY <2>2, <2>4, IteratorsMeet
    <3> QED BY <3>1, <3>2, <3>3
  <2>5. G!IteratorsAgree
    BY <2>4 DEF G!IteratorsAgree
  <2>6. G!ReturnedThere
    BY <2>2, PlusFromBegin DEF VecInv, G!ReturnedThere
  <2>7. G!LifetimesExact
    <3>1. PICK m, items : m = G!Size(vec) /\ items = {G!Index(vec, i) : i \in 0 .. m - 1}
      OBVIOUS
    <3>2. /\ \A i \in 0 .. m - 1 : vec.cell[G!Index(vec, i)] = f[i] /\ f[i] \in Values
          /\ \A k \in 0 .. vec.cap - 1 :
               (\A i \in 0 .. m - 1 : k # G!Index(vec, i)) => vec.cell[k] \in {"raw", "moved"}
      BY <2>1, <3>1, CellsHold
    <3>3. \A k \in 0 .. vec.cap - 1 :
            IF k \in items THEN vec.cell[k] \in Values ELSE vec.cell[k] \in {"raw", "moved"}
      BY <3>1, <3>2
    <3> QED BY <3>1, <3>3 DEF G!LifetimesExact, G!Positions
  <2> QED BY <2>3, <2>5, <2>6, <2>7
<1> QED BY <1>1, <1>2, <1>3, PTL DEF G!Spec

\* A gap_vector is a vector: its items are those that were inserted, in their
\* places, and not erased, wherever its gap was and goes, as long as lists of
\* no more items than a gap has are inserted.
THEOREM VectorImplements ==
  ASSUME MaxInsert <= DefaultGapSize
  PROVE  G!Spec => VectorSpec
<1>1. G!Init => VecInv /\ G!Promised!Init
  BY VecInit DEF G!Promised!Init
<1>2. VecInv /\ [G!Next]_G!vars => VecInv' /\ [G!Promised!Next]_(G!Items(vec))
  BY VecStep
<1> QED BY <1>1, <1>2, PTL DEF G!Spec, VectorSpec, G!VectorSpec, G!Promised!Spec
=============================================================================
