-------------------------- MODULE ThreadPoolProofs --------------------------
(***************************************************************************)
(* Theorems about the thread pool, for any number of threads, tasks and    *)
(* clients: what inserting into a thread's task queue does; PoolInv is an  *)
(* inductive invariant of Spec; stop() and the destructor leave no thread  *)
(* that runs; and the pool loses and doubles no task, runs each once, and  *)
(* behaves as one queue in the order of priority (module CentralQueue).    *)
(***************************************************************************)
EXTENDS ThreadPool, SequenceTheorems, WellFoundedInduction, TLAPS

----------------------------------------------------------------------------
(* The queue of tasks of a thread.                                         *)

\* std::upper_bound has an answer for every queue, sorted or not: the CHOOSE
\* of UpperBound never ranges over an empty set.
LEMMA UpperBoundExists ==
  ASSUME NEW q \in Seq(Tasks), NEW p \in Int
  PROVE  /\ UpperBound(q, p) \in 1 .. Len(q) + 1
         /\ \A i \in 1 .. UpperBound(q, p) - 1 : Priority[q[i]] >= p
         /\ UpperBound(q, p) <= Len(q) => Priority[q[UpperBound(q, p)]] < p
<1> USE PriorityAssumption
<1> DEFINE T == {k \in 1 .. Len(q) + 1 : k <= Len(q) => Priority[q[k]] < p}
<1>1. Len(q) \in Nat /\ (\A i \in 1 .. Len(q) : Priority[q[i]] \in Int)
  BY ElementOfSeq, LenProperties
<1>2. T \subseteq Nat /\ T # {}
  <2>1. Len(q) + 1 \in T
    BY <1>1
  <2> QED BY <2>1, <1>1
<1>3. PICK k \in T : \A j \in T : ~ (<<j, k>> \in OpToRel(<, Nat))
  <2> HIDE DEF T
  <2> QED BY <1>2, NatLessThanWellFounded, WFMin
<1>4. \A j \in T : ~ (j < k)
  BY <1>2, <1>3 DEF OpToRel
<1>5. \A i \in 1 .. k - 1 : Priority[q[i]] >= p
  <2> SUFFICES ASSUME NEW i \in 1 .. k - 1
               PROVE  Priority[q[i]] >= p
    OBVIOUS
  <2>1. i \notin T /\ i \in 1 .. Len(q)
    BY <1>1, <1>4
  <2> QED BY <1>1, <2>1
<1> QED BY <1>1, <1>5 DEF UpperBound

\* add() puts the task into the queue, once, and leaves the entries that were
\* there in their order: those before the insertion point where they were,
\* the others one further back.
LEMMA InsertProperties ==
  ASSUME NEW q \in Seq(Tasks), NEW t \in Tasks
  PROVE  LET k == UpperBound(q, Priority[t])
             r == Insert(q, t)
         IN  /\ r \in Seq(Tasks)
             /\ Len(r) = Len(q) + 1
             /\ \A i \in 1 .. Len(r) :
                  r[i] = IF i < k THEN q[i] ELSE IF i = k THEN t ELSE q[i - 1]
<1> DEFINE k == UpperBound(q, Priority[t])
           front == SubSeq(q, 1, k - 1)
           back == SubSeq(q, k, Len(q))
<1>1. Priority[t] \in Int /\ Len(q) \in Nat /\ (\A i \in 1 .. Len(q) : q[i] \in Tasks)
  BY PriorityAssumption, ElementOfSeq, LenProperties
<1>2. k \in 1 .. Len(q) + 1
  BY <1>1, UpperBoundExists
<1> HIDE DEF k
<1>3. /\ front \in Seq(Tasks) /\ Len(front) = k - 1
      /\ \A i \in 1 .. k - 1 : front[i] = q[i]
  <2>1. k - 1 \in Int /\ \A i \in 1 .. k - 1 : q[i] \in Tasks
    BY <1>1, <1>2
  <2> HIDE DEF front
  <2>2. /\ front \in Seq(Tasks)
        /\ Len(front) = IF 1 <= k - 1 THEN k - 1 - 1 + 1 ELSE 0
        /\ \A i \in 1 .. k - 1 - 1 + 1 : front[i] = q[1 + i - 1]
    BY <2>1, SubSeqProperties DEF front
  <2> QED BY <1>2, <2>2
<1>4. /\ back \in Seq(Tasks) /\ Len(back) = Len(q) - k + 1
      /\ \A i \in 1 .. Len(q) - k + 1 : back[i] = q[k + i - 1]
  <2>1. k \in Int /\ Len(q) \in Int /\ \A i \in k .. Len(q) : q[i] \in Tasks
    BY <1>1, <1>2
  <2> HIDE DEF back
  <2>2. /\ back \in Seq(Tasks)
        /\ Len(back) = IF k <= Len(q) THEN Len(q) - k + 1 ELSE 0
        /\ \A i \in 1 .. Len(q) - k + 1 : back[i] = q[k + i - 1]
    BY <2>1, SubSeqProperties DEF back
  <2> QED BY <1>1, <1>2, <2>2
<1> HIDE DEF front, back
<1>5. <<t>> \in Seq(Tasks) /\ Len(<<t>>) = 1 /\ <<t>>[1] = t
  OBVIOUS
<1>6. /\ front \o <<t>> \in Seq(Tasks) /\ Len(front \o <<t>>) = k
      /\ \A i \in 1 .. k :
           (front \o <<t>>)[i] = IF i <= k - 1 THEN front[i] ELSE <<t>>[i - (k - 1)]
  BY <1>2, <1>3, <1>5, ConcatProperties
<1> DEFINE upTo == front \o <<t>>
<1>7. /\ upTo \o back \in Seq(Tasks)
      /\ Len(upTo \o back) = Len(q) + 1
      /\ \A i \in 1 .. Len(q) + 1 :
           (upTo \o back)[i] = IF i <= k THEN upTo[i] ELSE back[i - k]
  <2>1. upTo \in Seq(Tasks) /\ Len(upTo) = k
    BY <1>6
  <2> HIDE DEF upTo
  <2>2. /\ upTo \o back \in Seq(Tasks)
        /\ Len(upTo \o back) = Len(upTo) + Len(back)
        /\ \A i \in 1 .. Len(upTo) + Len(back) :
             (upTo \o back)[i] =
                IF i <= Len(upTo) THEN upTo[i] ELSE back[i - Len(upTo)]
    BY <1>4, <2>1, ConcatProperties
  <2>3. Len(upTo) + Len(back) = Len(q) + 1
    BY <1>1, <1>2, <1>4, <2>1
  <2> QED BY <2>1, <2>2, <2>3
<1>8. Insert(q, t) = (front \o <<t>>) \o back
  BY DEF Insert, InsertAt, k, front, back
<1>9. ASSUME NEW i \in 1 .. Len(q) + 1
      PROVE  Insert(q, t)[i] =
               IF i < k THEN q[i] ELSE IF i = k THEN t ELSE q[i - 1]
  <2>1. CASE i < k
    BY <2>1, <1>2, <1>3, <1>6, <1>7, <1>8
  <2>2. CASE i = k
    BY <2>2, <1>2, <1>5, <1>6, <1>7, <1>8
  <2>3. CASE i > k
    <3>1. Insert(q, t)[i] = back[i - k]
      BY <2>3, <1>2, <1>7, <1>8
    <3>2. i - k \in 1 .. Len(q) - k + 1 /\ k + (i - k) - 1 = i - 1
      BY <2>3, <1>1, <1>2
    <3>3. back[i - k] = q[k + (i - k) - 1]
      BY <1>4, <3>2
    <3>4. ~ (i < k) /\ i # k
      BY <2>3, <1>2
    <3> QED BY <3>1, <3>2, <3>3, <3>4
  <2> QED BY <1>2, <2>1, <2>2, <2>3
<1> QED BY <1>7, <1>8, <1>9 DEF k

\* The queue then holds what it held and the task, no matter where it went.
LEMMA InsertElements ==
  ASSUME NEW q \in Seq(Tasks), NEW t \in Tasks
  PROVE  ToSet(Insert(q, t)) = ToSet(q) \cup {t}
<1> DEFINE k == UpperBound(q, Priority[t])
           r == Insert(q, t)
<1>1. /\ r \in Seq(Tasks) /\ Len(r) = Len(q) + 1 /\ Len(q) \in Nat
      /\ \A i \in 1 .. Len(r) :
           r[i] = IF i < k THEN q[i] ELSE IF i = k THEN t ELSE q[i - 1]
  BY InsertProperties, LenProperties
<1>2. k \in 1 .. Len(q) + 1
  BY UpperBoundExists, PriorityAssumption
<1>3. DOMAIN r = 1 .. Len(r) /\ DOMAIN q = 1 .. Len(q)
  BY <1>1, LenProperties
<1> HIDE DEF k, r
<1>4. ASSUME NEW x \in ToSet(r) PROVE x \in ToSet(q) \cup {t}
  <2>1. PICK i \in 1 .. Len(r) : x = r[i]
    BY <1>3 DEF ToSet
  <2>2. CASE i = k
    BY <2>1, <2>2, <1>1
  <2>3. CASE i < k
    BY <2>1, <2>3, <1>1, <1>2, <1>3 DEF ToSet
  <2>4. CASE i > k
    <3>1. i - 1 \in 1 .. Len(q) /\ x = q[i - 1]
      BY <2>1, <2>4, <1>1, <1>2
    <3> QED BY <3>1, <1>3 DEF ToSet
  <2> QED BY <2>1, <2>2, <2>3, <2>4, <1>1, <1>2
<1>5. ASSUME NEW x \in ToSet(q) PROVE x \in ToSet(r)
  <2>1. PICK i \in 1 .. Len(q) : x = q[i]
    BY <1>3 DEF ToSet
  <2>2. CASE i < k
    <3>1. i \in 1 .. Len(r) /\ x = r[i]
      BY <2>1, <2>2, <1>1
    <3> QED BY <3>1, <1>3 DEF ToSet
  <2>3. CASE i >= k
    <3>1. i + 1 \in 1 .. Len(r) /\ ~ (i + 1 < k) /\ i + 1 # k /\ (i + 1) - 1 = i
      BY <2>1, <2>3, <1>1, <1>2
    <3>2. x = r[i + 1]
      BY <3>1, <2>1, <1>1
    <3> QED BY <3>1, <3>2, <1>3 DEF ToSet
  <2> QED BY <2>1, <2>2, <2>3, <1>2
<1>6. t \in ToSet(r)
  <2>1. k \in 1 .. Len(r) /\ r[k] = t
    BY <1>1, <1>2
  <2> QED BY <2>1, <1>3 DEF ToSet
<1>7. ToSet(r) = ToSet(q) \cup {t}
  BY <1>4, <1>5, <1>6
<1> QED BY <1>7 DEF r

\* A queue in descending order of priority stays in that order: taking the
\* front of a thread's queue is taking a task of its highest priority.
THEOREM InsertKeepsOrder ==
  ASSUME NEW q \in Seq(Tasks), NEW t \in Tasks, Descending(q)
  PROVE  Descending(Insert(q, t))
<1> DEFINE k == UpperBound(q, Priority[t])
           r == Insert(q, t)
<1>1. /\ r \in Seq(Tasks) /\ Len(r) = Len(q) + 1 /\ Len(q) \in Nat
      /\ \A i \in 1 .. Len(r) :
           r[i] = IF i < k THEN q[i] ELSE IF i = k THEN t ELSE q[i - 1]
  BY InsertProperties, LenProperties
<1>2. /\ k \in 1 .. Len(q) + 1
      /\ \A i \in 1 .. k - 1 : Priority[q[i]] >= Priority[t]
      /\ k <= Len(q) => Priority[q[k]] < Priority[t]
  BY UpperBoundExists, PriorityAssumption
<1>3. /\ Priority[t] \in Int
      /\ \A i \in 1 .. Len(q) : q[i] \in Tasks /\ Priority[q[i]] \in Int
  BY PriorityAssumption, ElementOfSeq
<1>4. \A i, j \in 1 .. Len(q) : i < j => Priority[q[i]] >= Priority[q[j]]
  BY DEF Descending
<1> HIDE DEF k, r
<1>5. \A i \in 1 .. Len(q) : k <= i => Priority[q[i]] <= Priority[t]
  <2> SUFFICES ASSUME NEW i \in 1 .. Len(q), k <= i
               PROVE  Priority[q[i]] <= Priority[t]
    OBVIOUS
  <2>1. k \in 1 .. Len(q) /\ Priority[q[k]] < Priority[t]
    BY <1>1, <1>2
  <2>2. i = k \/ Priority[q[k]] >= Priority[q[i]]
    BY <2>1, <1>1, <1>4
  <2> QED BY <2>1, <2>2, <1>3
<1>6. ASSUME NEW i \in 1 .. Len(r), NEW j \in 1 .. Len(r), i < j
      PROVE  Priority[r[i]] >= Priority[r[j]]
  <2>1. CASE j < k
    <3>1. i \in Int /\ j \in Int /\ k \in Int /\ i < j /\ j < k
      BY <2>1, <1>1, <1>2, <1>6
    <3>2. i < k
      BY <3>1
    <3>3. r[i] = q[i] /\ r[j] = q[j]
      BY <2>1, <3>2, <1>1
    <3>4. i \in 1 .. Len(q) /\ j \in 1 .. Len(q)
      BY <2>1, <1>1, <1>2, <1>6
    <3> QED BY <3>3, <3>4, <1>4, <1>6
  <2>2. CASE j = k
    BY <2>2, <1>1, <1>2, <1>6
  <2>3. CASE j > k /\ i < k
    <3>1. r[i] = q[i] /\ r[j] = q[j - 1] /\ i \in 1 .. k - 1 /\ j - 1 \in 1 .. Len(q)
      BY <2>3, <1>1, <1>2
    <3>2. Priority[q[i]] >= Priority[t] /\ Priority[q[j - 1]] <= Priority[t]
      BY <2>3, <3>1, <1>1, <1>2, <1>5
    <3>3. i \in 1 .. Len(q)
      BY <3>1, <1>1, <1>2
    <3> QED BY <3>1, <3>2, <3>3, <1>3
  <2>4. CASE j > k /\ i = k
    <3>1. r[i] = t /\ r[j] = q[j - 1] /\ j - 1 \in 1 .. Len(q) /\ k <= j - 1
      BY <2>4, <1>1, <1>2
    <3> QED BY <3>1, <1>3, <1>5
  <2>5. CASE j > k /\ i > k
    <3>1. r[i] = q[i - 1] /\ r[j] = q[j - 1]
      BY <2>5, <1>1, <1>2
    <3>2. i - 1 \in 1 .. Len(q) /\ j - 1 \in 1 .. Len(q) /\ i - 1 < j - 1
      BY <2>5, <1>1, <1>2, <1>6
    <3> QED BY <3>1, <3>2, <1>4
  <2> QED BY <2>1, <2>2, <2>3, <2>4, <2>5, <1>1, <1>2
<1>7. Descending(r)
  BY <1>6 DEF Descending
<1> QED BY <1>7 DEF r

\* Into an empty queue the task goes alone.
LEMMA InsertIntoEmpty ==
  ASSUME NEW t \in Tasks
  PROVE  Insert(<<>>, t) = <<t>> /\ Head(<<t>>) = t /\ Tail(<<t>>) = <<>>
<1> DEFINE empty == <<>>
<1>1. empty \in Seq(Tasks) /\ Len(empty) = 0 /\ Priority[t] \in Int
  BY PriorityAssumption
<1> HIDE DEF empty
<1>2. UpperBound(empty, Priority[t]) = 1
  <2>1. UpperBound(empty, Priority[t]) \in 1 .. Len(empty) + 1
    BY <1>1, UpperBoundExists
  <2> QED BY <1>1, <2>1
<1>3. /\ Insert(empty, t) \in Seq(Tasks) /\ Len(Insert(empty, t)) = 1
      /\ Insert(empty, t)[1] = t
  <2> DEFINE r == Insert(empty, t)
             k == UpperBound(empty, Priority[t])
  <2>1. /\ r \in Seq(Tasks) /\ Len(r) = Len(empty) + 1
        /\ \A i \in 1 .. Len(r) :
             r[i] = IF i < k THEN empty[i] ELSE IF i = k THEN t ELSE empty[i - 1]
    BY <1>1, InsertProperties
  <2> HIDE DEF r, k
  <2>2. Len(r) = 1 /\ r[1] = IF 1 < k THEN empty[1] ELSE IF 1 = k THEN t ELSE empty[0]
    BY <1>1, <2>1
  <2>3. k = 1
    BY <1>2 DEF k
  <2>4. ~ (1 < k) /\ 1 = k
    BY <2>3
  <2>5. r[1] = t
    BY <2>2, <2>4
  <2>6. r \in Seq(Tasks) /\ Len(r) = 1 /\ r[1] = t
    BY <2>1, <2>2, <2>5
  <2> QED BY <2>6 DEF r
<1>4. Insert(empty, t) = <<t>>
  <2>1. /\ <<t>> \in Seq(Tasks) /\ Len(<<t>>) = Len(Insert(empty, t))
        /\ \A i \in 1 .. Len(<<t>>) : Insert(empty, t)[i] = <<t>>[i]
    BY <1>3
  <2> QED BY <1>3, <2>1, SeqEqual
<1> QED BY <1>4 DEF empty

\* What a queue holds is its front and the rest.
LEMMA HeadTailElements ==
  ASSUME NEW S, NEW q \in Seq(S), q # <<>>
  PROVE  ToSet(q) = {Head(q)} \cup ToSet(Tail(q))
<1>1. /\ Len(q) \in Nat \ {0} /\ DOMAIN q = 1 .. Len(q)
      /\ Tail(q) \in Seq(S) /\ Len(Tail(q)) = Len(q) - 1
      /\ \A i \in 1 .. Len(q) - 1 : Tail(q)[i] = q[i + 1]
  BY HeadTailProperties, LenProperties, EmptySeq
<1>2. DOMAIN Tail(q) = 1 .. Len(q) - 1 /\ Head(q) = q[1]
  BY <1>1, LenProperties
<1>3. ASSUME NEW x \in ToSet(q) PROVE x \in {Head(q)} \cup ToSet(Tail(q))
  <2>1. PICK i \in 1 .. Len(q) : x = q[i]
    BY <1>1 DEF ToSet
  <2>2. CASE i # 1
    <3>1. i - 1 \in 1 .. Len(q) - 1 /\ Tail(q)[i - 1] = x
      BY <1>1, <2>1, <2>2
    <3> QED BY <1>2, <3>1 DEF ToSet
  <2> QED BY <1>2, <2>1, <2>2
<1>4. ASSUME NEW x \in ToSet(Tail(q)) PROVE x \in ToSet(q)
  <2>1. PICK i \in 1 .. Len(q) - 1 : x = Tail(q)[i]
    BY <1>2 DEF ToSet
  <2>2. i + 1 \in 1 .. Len(q) /\ x = q[i + 1]
    BY <1>1, <2>1
  <2> QED BY <1>1, <2>2 DEF ToSet
<1>5. Head(q) \in ToSet(q)
  BY <1>1, <1>2 DEF ToSet
<1> QED BY <1>3, <1>4, <1>5

\* What a queue has once a task joins it.
LEMMA AppendElements ==
  ASSUME NEW S, NEW q \in Seq(S), NEW t \in S
  PROVE  ToSet(Append(q, t)) = ToSet(q) \cup {t}
<1>1. /\ Append(q, t) \in Seq(S) /\ Len(q) \in Nat /\ Len(Append(q, t)) = Len(q) + 1
      /\ \A i \in 1 .. Len(q) : Append(q, t)[i] = q[i]
      /\ Append(q, t)[Len(q) + 1] = t
  BY AppendProperties, LenProperties
<1>2. DOMAIN Append(q, t) = 1 .. Len(q) + 1 /\ DOMAIN q = 1 .. Len(q)
  BY <1>1, LenProperties
<1>3. ASSUME NEW x \in ToSet(Append(q, t)) PROVE x \in ToSet(q) \cup {t}
  BY <1>1, <1>2 DEF ToSet
<1>4. ASSUME NEW x \in ToSet(q) PROVE x \in ToSet(Append(q, t))
  BY <1>1, <1>2 DEF ToSet
<1>5. t \in ToSet(Append(q, t))
  BY <1>1, <1>2 DEF ToSet
<1> QED BY <1>3, <1>4, <1>5

\* A queue without tasks is empty.
LEMMA EmptyElements ==
  ASSUME NEW S, NEW q \in Seq(S)
  PROVE  ToSet(q) = {} <=> q = <<>>
<1>1. CASE q = <<>>
  BY <1>1 DEF ToSet
<1>2. CASE q # <<>>
  BY <1>2, HeadTailElements
<1> QED BY <1>1, <1>2

----------------------------------------------------------------------------
(* The threads start() and steal_work() choose.                            *)

\* Among thread numbers there is a least.
LEMMA LeastExists ==
  ASSUME NEW S, S \subseteq Nat, S # {}
  PROVE  \E m \in S : \A n \in S : m <= n
<1>1. PICK m \in S : \A n \in S : ~ (<<n, m>> \in OpToRel(<, Nat))
  BY NatLessThanWellFounded, WFMin
<1>2. ASSUME NEW n \in S PROVE m <= n
  <2>1. <<n, m>> \in Nat \X Nat /\ <<n, m>> \notin OpToRel(<, Nat)
    BY <1>1
  <2>2. ~ (n < m)
    BY <2>1 DEF OpToRel
  <2> QED BY <2>2
<1> QED BY <1>2

\* With at least one thread start() picks an existing one, and an active one
\* only if all are active.
LEMMA TargetProperties ==
  ASSUME TypeOK, size > 0
  PROVE  /\ Target \in Existing /\ Target \in Threads
         /\ active[Target] # None => \A w \in Existing : active[w] # None
         /\ (\A w \in Existing : active[w] # None) => Target = 1
<1> DEFINE inactive == {w \in Existing : active[w] = None}
<1>1. size \in Nat /\ size <= MaxThreads /\ MaxThreads \in Nat /\ Existing \subseteq Threads
  BY PoolAssumption DEF TypeOK, Existing, Threads
<1>2. CASE inactive = {}
  BY <1>1, <1>2 DEF Target, Existing
<1>3. CASE inactive # {}
  <2>1. \E w \in inactive : \A v \in inactive : w <= v
    <3>1. inactive \subseteq Nat
      BY <1>1 DEF Existing
    <3> HIDE DEF inactive
    <3> QED BY <1>3, <3>1, LeastExists
  <2>2. Target \in inactive
    BY <2>1, <1>3 DEF Target
  <2>3. Target \in Existing /\ active[Target] = None
    BY <2>2
  <2> QED BY <1>1, <2>3
<1> QED BY <1>2, <1>3

\* A thief takes from another existing thread whose queue is not empty.
LEMMA VictimProperties ==
  ASSUME TypeOK, NEW w \in Threads, Victims(w) # {}
  PROVE  Victim(w) \in Threads /\ Victim(w) # w /\ waiting[Victim(w)] # <<>>
<1>1. Victims(w) \subseteq Nat /\ Victims(w) \subseteq Threads
  BY PoolAssumption DEF TypeOK, Victims, Existing, Threads
<1>2. \E v \in Victims(w) : \A u \in Victims(w) : v <= u
  BY <1>1, LeastExists
<1>3. Victim(w) \in Victims(w)
  BY <1>2 DEF Victim
<1> QED BY <1>1, <1>3 DEF Victims

----------------------------------------------------------------------------
(* Types                                                                   *)

\* For leaves that treat it as a truth value.
LEMMA AllIdleIsBoolean == AllIdle \in BOOLEAN
BY DEF AllIdle

\* Waking somebody up leaves everyone at a place.
LEMMA NotifyTypes ==
  ASSUME NEW pcs \in [Clients -> ClientPC], NEW next \in Notify(pcs)
  PROVE  next \in [Clients -> ClientPC]
BY DEF Notify, ClientPC

\* Waking moves only those who sleep.
LEMMA NotifyOnlyWakes ==
  ASSUME NEW pcs \in [Clients -> ClientPC], NEW next \in Notify(pcs), NEW c \in Clients
  PROVE  next[c] = pcs[c] \/ (pcs[c] = "asleep" /\ next[c] = "waitcheck")
BY DEF Notify

\* The types are kept.
LEMMA TypeStep == TypeOK /\ ControlOK /\ [Next]_vars => TypeOK'
<1> SUFFICES ASSUME TypeOK, ControlOK, [Next]_vars
             PROVE  TypeOK'
  OBVIOUS
<1> USE PoolAssumption DEF TypeOK, threadVars, clientVars, history, ClientPC, WorkerPC
<1>1. ASSUME NEW c \in Clients, NEW t \in Tasks, Start(c, t)
      PROVE  TypeOK'
  BY <1>1 DEF Start
<1>2. ASSUME NEW c \in Clients, NEW t \in Tasks, TryStart(c, t)
      PROVE  TypeOK'
  BY <1>2 DEF TryStart
<1>3. ASSUME NEW t \in Tasks, Cancel(t)
      PROVE  TypeOK'
  BY <1>3 DEF Cancel
<1>4. ASSUME NEW n \in ReserveSizes, Reserve(n)
      PROVE  TypeOK'
  BY <1>4 DEF Reserve, Grown
<1>5. ASSUME NEW c \in Clients, Wait(c)
      PROVE  TypeOK'
  BY <1>5 DEF Wait, BeginWait
<1>6. ASSUME NEW c \in Clients, Stop(c)
      PROVE  TypeOK'
  BY <1>6 DEF Stop
<1>7. ASSUME NEW c \in Clients, Destroy(c)
      PROVE  TypeOK'
  BY <1>7 DEF Destroy, BeginWait
<1>8. ASSUME NEW c \in Clients, TryAvailable(c)
      PROVE  TypeOK'
  BY <1>8 DEF TryAvailable
<1>9. ASSUME NEW c \in Clients, StartThrows(c)
      PROVE  TypeOK'
  BY <1>9 DEF StartThrows
<1>10. ASSUME NEW c \in Clients, AddBehind(c)
      PROVE  TypeOK'
  <2>1. Target \in Threads /\ task[c] \in Tasks
    BY <1>10, TargetProperties DEF AddBehind, ControlOK
  <2>2. Insert(waiting[Target], task[c]) \in Seq(Tasks)
    BY <2>1, InsertProperties
  <2> QED BY <1>10, <2>1, <2>2 DEF AddBehind
<1>11. ASSUME NEW c \in Clients, AddActivate(c)
      PROVE  TypeOK'
  <2>1. Target \in Threads /\ task[c] \in Tasks
    BY <1>11, TargetProperties DEF AddActivate, ControlOK
  <2> DEFINE q == Insert(waiting[Target], task[c])
  <2>2. q \in Seq(Tasks) /\ Len(q) = Len(waiting[Target]) + 1
    BY <2>1, InsertProperties
  <2>3. q # <<>>
    BY <2>1, <2>2, LenProperties, EmptySeq
  <2> HIDE DEF q
  <2>4. Head(q) \in Tasks /\ Tail(q) \in Seq(Tasks)
    BY <2>2, <2>3, HeadTailProperties
  <2>5. /\ active' = [active EXCEPT ![Target] = Head(q)]
        /\ waiting' = [waiting EXCEPT ![Target] = Tail(q)]
    BY <1>11 DEF AddActivate, q, PopFront
  <2>6. worker' \in [Threads -> WorkerPC] /\ client' \in [Clients -> ClientPC]
    BY <1>11 DEF AddActivate, Wake
  <2>7. accepted' \in Seq(Tasks)
    BY <1>11, <2>1 DEF AddActivate
  <2>8. UNCHANGED <<size, maxThreads, threadStopped, idle, stopped, task, at,
                   destroyer, cancelled, runs, finished, contested>>
    BY <1>11 DEF AddActivate
  <2>9. active' \in [Threads -> Tasks \cup {None}] /\ waiting' \in [Threads -> Seq(Tasks)]
    BY <2>1, <2>4, <2>5
  <2> QED BY <2>6, <2>7, <2>8, <2>9
<1>12. ASSUME NEW c \in Clients, PublishStart(c)
      PROVE  TypeOK'
  BY <1>12, AllIdleIsBoolean DEF PublishStart
<1>13. ASSUME NEW c \in Clients, WaitCheck(c)
      PROVE  TypeOK'
  BY <1>13 DEF WaitCheck
<1>14. ASSUME NEW c \in Clients, SpuriousWaiter(c)
      PROVE  TypeOK'
  BY <1>14 DEF SpuriousWaiter
<1>15. ASSUME NEW c \in Clients, Waited(c)
      PROVE  TypeOK'
  <2>1. CASE destroyer = c
    <3>1. /\ client' = [client EXCEPT ![c] = "stopping"]
          /\ at' = [at EXCEPT ![c] = 1]
          /\ UNCHANGED <<size, maxThreads, threadVars, idle, stopped, task,
                         destroyer, cancelled, history>>
      BY <1>15, <2>1 DEF Waited
    <3> QED BY <3>1
  <2>2. CASE destroyer # c
    BY <1>15, <2>2 DEF Waited
  <2> QED BY <2>1, <2>2
<1>16. ASSUME NEW c \in Clients, StopThread(c)
      PROVE  TypeOK'
  <2>1. at[c] \in Threads
    BY <1>16 DEF StopThread, ControlOK, Threads
  <2> QED BY <1>16, <2>1 DEF StopThread, Wake
<1>17. ASSUME NEW c \in Clients, SkipThread(c)
      PROVE  TypeOK'
  BY <1>17 DEF SkipThread
<1>18. ASSUME NEW c \in Clients, Joined(c)
      PROVE  TypeOK'
  BY <1>18 DEF Joined, ControlOK
<1>30. ASSUME NEW c \in Clients, FindUnstopped(c)
      PROVE  TypeOK'
  BY <1>30 DEF FindUnstopped
<1>31. ASSUME NEW c \in Clients, JoinThrows(c)
      PROVE  TypeOK'
  BY <1>31 DEF JoinThrows
<1>19. ASSUME NEW c \in Clients, StopDone(c)
      PROVE  TypeOK'
  BY <1>19, NotifyTypes DEF StopDone
<1>20. ASSUME NEW c \in Clients, Destroyed(c)
      PROVE  TypeOK'
  BY <1>20 DEF Destroyed
<1>21. ASSUME NEW w \in Threads, Check(w)
      PROVE  TypeOK'
  BY <1>21 DEF Check
<1>22. ASSUME NEW w \in Threads, SpuriousWake(w)
      PROVE  TypeOK'
  BY <1>22 DEF SpuriousWake
<1>23. ASSUME NEW w \in Threads, Run(w)
      PROVE  TypeOK'
  BY <1>23 DEF Run, ControlOK
<1>24. ASSUME NEW w \in Threads, NextOwn(w)
       PROVE  TypeOK'
  <2>1. Head(waiting[w]) \in Tasks /\ Tail(waiting[w]) \in Seq(Tasks)
    BY <1>24, HeadTailProperties DEF NextOwn
  <2> QED BY <1>24, <2>1 DEF NextOwn, PopFront, ControlOK
<1>25. ASSUME NEW w \in Threads, NextStolen(w)
       PROVE  TypeOK'
  <2>1. Victim(w) \in Threads /\ waiting[Victim(w)] # <<>>
    BY <1>25, VictimProperties DEF NextStolen
  <2>2. Head(waiting[Victim(w)]) \in Tasks /\ Tail(waiting[Victim(w)]) \in Seq(Tasks)
    BY <2>1, HeadTailProperties
  <2> QED BY <1>25, <2>1, <2>2 DEF NextStolen, PopFront, ControlOK
<1>26. ASSUME NEW w \in Threads, NextNone(w)
      PROVE  TypeOK'
  BY <1>26 DEF NextNone, ControlOK
<1>27. ASSUME NEW w \in Threads, PublishBusy(w)
      PROVE  TypeOK'
  BY <1>27, AllIdleIsBoolean DEF PublishBusy
<1>28. ASSUME NEW w \in Threads, PublishIdle(w)
      PROVE  TypeOK'
  BY <1>28, AllIdleIsBoolean, NotifyTypes DEF PublishIdle
<1>29. CASE UNCHANGED vars
  BY <1>29 DEF vars
<1> QED BY <1>1, <1>2, <1>3, <1>4, <1>5, <1>6, <1>7, <1>8, <1>9, <1>10, <1>11, <1>12,
           <1>13, <1>14, <1>15, <1>16, <1>17, <1>18, <1>19, <1>20, <1>21, <1>22, <1>23, <1>24,
           <1>25, <1>26, <1>27, <1>28, <1>29, <1>30, <1>31
        DEF Next, ClientStep, WorkerStep

----------------------------------------------------------------------------
(* Control                                                                 *)

\* The places of all the threads and the fields go together.
LEMMA ControlStep == TypeOK /\ ControlOK /\ [Next]_vars => ControlOK'
<1> SUFFICES ASSUME TypeOK, ControlOK, [Next]_vars
             PROVE  ControlOK'
  OBVIOUS
<1> USE PoolAssumption DEF TypeOK, ControlOK, threadVars, clientVars, history, Threads
<1>1. ASSUME NEW c \in Clients, NEW t \in Tasks, Start(c, t)
      PROVE  ControlOK'
  BY <1>1 DEF Start
<1>2. ASSUME NEW c \in Clients, NEW t \in Tasks, TryStart(c, t)
      PROVE  ControlOK'
  BY <1>2 DEF TryStart
<1>3. ASSUME NEW t \in Tasks, Cancel(t)
      PROVE  ControlOK'
  BY <1>3 DEF Cancel
<1>4. ASSUME NEW n \in ReserveSizes, Reserve(n)
      PROVE  ControlOK'
  <2>1. n \in Nat /\ size \in Nat /\ size' \in Nat /\ size <= size'
    BY <1>4 DEF Reserve, Grown
  <2>2. \A w \in Threads :
          worker'[w] = IF size < w /\ w <= size' THEN "check" ELSE worker[w]
    BY <1>4, <2>1 DEF Reserve
  <2>3. UNCHANGED <<active, waiting, threadStopped, client, task, at>>
    BY <1>4 DEF Reserve
  <2>4. ASSUME NEW w \in Threads
        PROVE /\ worker'[w] \in {"claimed", "running", "publishBusy"} => active'[w] # None
              /\ w > size' <=> worker'[w] = "none"
              /\ w > size' => active'[w] = None /\ waiting'[w] = <<>> /\ ~threadStopped'[w]
    <3>1. w \in Nat /\ active'[w] = active[w] /\ waiting'[w] = waiting[w]
          /\ threadStopped'[w] = threadStopped[w]
      BY <2>3
    <3>2. CASE size < w /\ w <= size'
      <4>1. worker'[w] = "check"
        BY <2>2, <3>2
      <4> QED BY <2>1, <3>1, <3>2, <4>1
    <3>3. CASE w <= size \/ w > size'
      <4>1. ~ (size < w /\ w <= size')
        BY <2>1, <3>1, <3>3
      <4>2. worker'[w] = worker[w]
        BY <2>2, <4>1
      <4> QED BY <2>1, <3>1, <3>3, <4>2
    <3> QED BY <2>1, <3>1, <3>2, <3>3
  <2>5. ASSUME NEW d \in Clients
        PROVE client'[d] \in {"telling", "joining"} => at'[d] <= size'
    BY <2>1, <2>3
  <2> QED BY <2>3, <2>4, <2>5
<1>5. ASSUME NEW c \in Clients, Wait(c)
      PROVE  ControlOK'
  BY <1>5 DEF Wait, BeginWait
<1>6. ASSUME NEW c \in Clients, Stop(c)
      PROVE  ControlOK'
  BY <1>6 DEF Stop
<1>7. ASSUME NEW c \in Clients, Destroy(c)
      PROVE  ControlOK'
  BY <1>7 DEF Destroy, BeginWait
<1>8. ASSUME NEW c \in Clients, TryAvailable(c)
      PROVE  ControlOK'
  BY <1>8 DEF TryAvailable
<1>9. ASSUME NEW c \in Clients, StartThrows(c)
      PROVE  ControlOK'
  BY <1>9 DEF StartThrows
<1>10. ASSUME NEW c \in Clients, AddBehind(c)
       PROVE  ControlOK'
  <2>1. Target \in Threads /\ Target <= size
    BY <1>10, TargetProperties DEF AddBehind, Existing
  <2> QED BY <1>10, <2>1 DEF AddBehind
<1>11. ASSUME NEW c \in Clients, AddActivate(c)
       PROVE  ControlOK'
  <2>1. Target \in Threads /\ Target <= size /\ task[c] \in Tasks
    BY <1>11, TargetProperties DEF AddActivate, Existing
  <2>2. active'[Target] \in Tasks
    <3> DEFINE q == Insert(waiting[Target], task[c])
    <3>1. q \in Seq(Tasks) /\ Len(q) = Len(waiting[Target]) + 1
      BY <2>1, InsertProperties
    <3>2. q # <<>>
      BY <2>1, <3>1, LenProperties, EmptySeq
    <3> HIDE DEF q
    <3>3. Head(q) \in Tasks
      BY <3>1, <3>2, HeadTailProperties
    <3> QED BY <1>11, <2>1, <3>3 DEF AddActivate, q
  <2>3. \A w \in Threads : w # Target =>
           active'[w] = active[w] /\ waiting'[w] = waiting[w] /\ worker'[w] = worker[w]
    BY <1>11, <2>1 DEF AddActivate
  <2>4. worker'[Target] = Wake(worker[Target])
    BY <1>11, <2>1 DEF AddActivate
  <2>5. /\ size' = size /\ threadStopped' = threadStopped /\ at' = at /\ task' = task
        /\ client' = [client EXCEPT ![c] = "publish"] /\ client[c] = "starting"
    BY <1>11 DEF AddActivate
  <2>6. ASSUME NEW w \in Threads
        PROVE /\ worker'[w] \in {"claimed", "running", "publishBusy"} => active'[w] # None
              /\ w > size' <=> worker'[w] = "none"
              /\ w > size' => active'[w] = None /\ waiting'[w] = <<>> /\ ~threadStopped'[w]
    <3>1. CASE w = Target
      BY <2>1, <2>2, <2>4, <2>5, <3>1 DEF Wake
    <3>2. CASE w # Target
      BY <2>3, <2>5, <3>2
    <3> QED BY <3>1, <3>2
  <2>7. ASSUME NEW d \in Clients
        PROVE /\ client'[d] \in {"trying", "starting", "publish"} <=> task'[d] # None
              /\ client'[d] \in {"telling", "joining"} => at'[d] <= size'
    BY <2>1, <2>5
  <2> QED BY <2>6, <2>7
<1>12. ASSUME NEW c \in Clients, PublishStart(c)
       PROVE  ControlOK'
  BY <1>12 DEF PublishStart
<1>13. ASSUME NEW c \in Clients, WaitCheck(c)
       PROVE  ControlOK'
  BY <1>13 DEF WaitCheck
<1>14. ASSUME NEW c \in Clients, SpuriousWaiter(c)
       PROVE  ControlOK'
  BY <1>14 DEF SpuriousWaiter
<1>15. ASSUME NEW c \in Clients, Waited(c)
       PROVE  ControlOK'
  <2>1. /\ client[c] = "waited"
        /\ \/ client' = [client EXCEPT ![c] = "stopping"]
           \/ client' = [client EXCEPT ![c] = "ready"]
        /\ \A d \in Clients : d # c => at'[d] = at[d]
        /\ UNCHANGED <<size, active, waiting, threadStopped, worker, task>>
    BY <1>15 DEF Waited
  <2> QED BY <2>1
<1>16. ASSUME NEW c \in Clients, StopThread(c)
       PROVE  ControlOK'
  BY <1>16 DEF StopThread, Wake
<1>17. ASSUME NEW c \in Clients, SkipThread(c)
       PROVE  ControlOK'
  BY <1>17 DEF SkipThread
<1>18. ASSUME NEW c \in Clients, Joined(c)
       PROVE  ControlOK'
  BY <1>18 DEF Joined
<1>30. ASSUME NEW c \in Clients, FindUnstopped(c)
       PROVE  ControlOK'
  BY <1>30 DEF FindUnstopped
<1>31. ASSUME NEW c \in Clients, JoinThrows(c)
       PROVE  ControlOK'
  BY <1>31 DEF JoinThrows
<1>19. ASSUME NEW c \in Clients, StopDone(c)
       PROVE  ControlOK'
  <2> DEFINE pcs == [client EXCEPT ![c] = "ready"]
  <2>1. client[c] = "stopping" /\ client' \in Notify(pcs)
    BY <1>19 DEF StopDone
  <2>2. /\ pcs \in [Clients -> ClientPC] /\ pcs[c] = "ready"
        /\ \A d \in Clients \ {c} : pcs[d] = client[d]
    BY DEF ClientPC
  <2> HIDE DEF pcs
  <2>3. ASSUME NEW d \in Clients
        PROVE  client'[d] = pcs[d] \/ (pcs[d] = "asleep" /\ client'[d] = "waitcheck")
    <3>1. client' \in Notify(pcs) /\ pcs \in [Clients -> ClientPC]
      BY <2>1, <2>2
    <3> QED BY <3>1, NotifyOnlyWakes
  <2>4. \A d \in Clients :
          client'[d] \in {"trying", "starting", "publish", "telling", "joining"}
            => client'[d] = client[d]
    BY <2>1, <2>2, <2>3
  <2>5. \A d \in Clients :
          client[d] \in {"trying", "starting", "publish"} => client'[d] = client[d]
    BY <2>1, <2>2, <2>3
  <2>6. UNCHANGED <<size, active, waiting, threadStopped, task, at>>
    BY <1>19 DEF StopDone
  <2>7. \A w \in Threads :
          worker'[w] = worker[w] \/ (worker[w] = "publishIdle" /\ worker'[w] = "check")
    BY <1>19 DEF StopDone
  <2> QED BY <2>4, <2>5, <2>6, <2>7
<1>20. ASSUME NEW c \in Clients, Destroyed(c)
       PROVE  ControlOK'
  BY <1>20 DEF Destroyed
<1>21. ASSUME NEW w \in Threads, Check(w)
       PROVE  ControlOK'
  BY <1>21 DEF Check
<1>22. ASSUME NEW w \in Threads, SpuriousWake(w)
       PROVE  ControlOK'
  BY <1>22 DEF SpuriousWake
<1>23. ASSUME NEW w \in Threads, Run(w)
       PROVE  ControlOK'
  BY <1>23 DEF Run
<1>24. ASSUME NEW w \in Threads, NextOwn(w)
       PROVE  ControlOK'
  <2>1. Head(waiting[w]) \in Tasks
    BY <1>24, HeadTailProperties DEF NextOwn
  <2> QED BY <1>24, <2>1 DEF NextOwn
<1>25. ASSUME NEW w \in Threads, NextStolen(w)
       PROVE  ControlOK'
  <2>1. Victim(w) \in Threads /\ waiting[Victim(w)] # <<>>
    BY <1>25, VictimProperties DEF NextStolen
  <2>2. Head(waiting[Victim(w)]) \in Tasks
    BY <2>1, HeadTailProperties
  <2> QED BY <1>25, <2>1, <2>2 DEF NextStolen
<1>26. ASSUME NEW w \in Threads, NextNone(w)
       PROVE  ControlOK'
  BY <1>26 DEF NextNone
<1>27. ASSUME NEW w \in Threads, PublishBusy(w)
       PROVE  ControlOK'
  BY <1>27 DEF PublishBusy
<1>28. ASSUME NEW w \in Threads, PublishIdle(w)
       PROVE  ControlOK'
  <2>1. client' \in Notify(client) /\ client \in [Clients -> ClientPC]
    BY <1>28 DEF PublishIdle
  <2>2. \A d \in Clients :
          client'[d] = client[d] \/ (client[d] = "asleep" /\ client'[d] = "waitcheck")
    BY <2>1, NotifyOnlyWakes
  <2>3. UNCHANGED <<size, active, waiting, threadStopped, task, at>>
    BY <1>28 DEF PublishIdle
  <2>4. \A v \in Threads :
          worker'[v] = worker[v] \/ (worker[v] = "publishIdle" /\ worker'[v] = "check")
    BY <1>28 DEF PublishIdle
  <2> QED BY <2>2, <2>3, <2>4
<1>29. CASE UNCHANGED vars
  BY <1>29 DEF vars
<1> QED BY <1>1, <1>2, <1>3, <1>4, <1>5, <1>6, <1>7, <1>8, <1>9, <1>10, <1>11,
           <1>12, <1>13, <1>14, <1>15, <1>16, <1>17, <1>18, <1>19, <1>20,
           <1>21, <1>22, <1>23, <1>24, <1>25, <1>26, <1>27, <1>28, <1>29, <1>30, <1>31
        DEF Next, ClientStep, WorkerStep

----------------------------------------------------------------------------
(* Most steps neither move a task nor touch what wait() relies on.         *)

Quiet ==
  /\ UNCHANGED <<active, waiting, idle, accepted, finished>>
  /\ \A w \in Threads : Publishing(w)' <=> Publishing(w)
  /\ \A c \in Clients :
       /\ client'[c] = "publish" <=> client[c] = "publish"
       /\ client[c] = "publish" => task'[c] = task[c]

Loud ==
  \/ \E c \in Clients : AddBehind(c) \/ AddActivate(c) \/ PublishStart(c)
  \/ \E w \in Threads : \/ NextOwn(w) \/ NextStolen(w) \/ NextNone(w)
                        \/ PublishBusy(w) \/ PublishIdle(w)

\* A step ends somebody's work and wakes the waiters, or makes nobody idle.
LEMMA LoudOrQuiet == TypeOK /\ ControlOK /\ [Next]_vars => Loud \/ Quiet
<1> SUFFICES ASSUME TypeOK, ControlOK, [Next]_vars
             PROVE  Loud \/ Quiet
  OBVIOUS
<1> USE DEF TypeOK, Quiet, Publishing, threadVars, clientVars, history
<1>1. ASSUME NEW c \in Clients, NEW t \in Tasks, Start(c, t)
      PROVE  Quiet
  BY <1>1 DEF Start
<1>2. ASSUME NEW c \in Clients, NEW t \in Tasks, TryStart(c, t)
      PROVE  Quiet
  BY <1>2 DEF TryStart
<1>3. ASSUME NEW t \in Tasks, Cancel(t)
      PROVE  Quiet
  BY <1>3 DEF Cancel
<1>4. ASSUME NEW n \in ReserveSizes, Reserve(n)
      PROVE  Quiet
  <2>1. /\ UNCHANGED <<active, waiting, idle, accepted, finished, client, task>>
        /\ \A w \in Threads : worker'[w] = "check" \/ worker'[w] = worker[w]
        /\ \A w \in Threads : ~Publishing(w)
    BY <1>4 DEF Reserve, MutexFree
  <2> QED BY <2>1
<1>5. ASSUME NEW c \in Clients, Wait(c)
      PROVE  Quiet
  BY <1>5 DEF Wait, BeginWait
<1>6. ASSUME NEW c \in Clients, Stop(c)
      PROVE  Quiet
  BY <1>6 DEF Stop
<1>7. ASSUME NEW c \in Clients, Destroy(c)
      PROVE  Quiet
  BY <1>7 DEF Destroy, BeginWait
<1>8. ASSUME NEW c \in Clients, TryAvailable(c)
      PROVE  Quiet
  BY <1>8 DEF TryAvailable
<1>9. ASSUME NEW c \in Clients, StartThrows(c)
      PROVE  Quiet
  BY <1>9 DEF StartThrows
<1>10. ASSUME NEW c \in Clients, WaitCheck(c)
       PROVE  Quiet
  BY <1>10 DEF WaitCheck
<1>11. ASSUME NEW c \in Clients, SpuriousWaiter(c)
       PROVE  Quiet
  BY <1>11 DEF SpuriousWaiter
<1>12. ASSUME NEW c \in Clients, Waited(c)
       PROVE  Quiet
  BY <1>12 DEF Waited
<1>13. ASSUME NEW c \in Clients, StopThread(c)
       PROVE  Quiet
  BY <1>13 DEF StopThread, Wake
<1>14. ASSUME NEW c \in Clients, SkipThread(c)
       PROVE  Quiet
  BY <1>14 DEF SkipThread
<1>15. ASSUME NEW c \in Clients, Joined(c)
       PROVE  Quiet
  BY <1>15 DEF Joined
<1>22. ASSUME NEW c \in Clients, FindUnstopped(c) \/ JoinThrows(c)
       PROVE  Quiet
  BY <1>22 DEF FindUnstopped, JoinThrows
<1>16. ASSUME NEW c \in Clients, StopDone(c)
       PROVE  Quiet
  <2> DEFINE pcs == [client EXCEPT ![c] = "ready"]
  <2>1. /\ client[c] = "stopping" /\ client' \in Notify(pcs)
        /\ UNCHANGED <<active, waiting, idle, accepted, finished, worker, task>>
    BY <1>16 DEF StopDone
  <2>2. /\ pcs \in [Clients -> ClientPC] /\ pcs[c] = "ready"
        /\ \A d \in Clients \ {c} : pcs[d] = client[d]
    BY DEF ClientPC
  <2> HIDE DEF pcs
  <2>3. ASSUME NEW d \in Clients
        PROVE  client'[d] = pcs[d] \/ (pcs[d] = "asleep" /\ client'[d] = "waitcheck")
    <3>1. client' \in Notify(pcs) /\ pcs \in [Clients -> ClientPC]
      BY <2>1, <2>2
    <3> QED BY <3>1, NotifyOnlyWakes
  <2> QED BY <2>1, <2>2, <2>3
<1>17. ASSUME NEW c \in Clients, Destroyed(c)
       PROVE  Quiet
  BY <1>17 DEF Destroyed
<1>18. ASSUME NEW w \in Threads, Check(w)
       PROVE  Quiet
  BY <1>18 DEF Check
<1>19. ASSUME NEW w \in Threads, SpuriousWake(w)
       PROVE  Quiet
  BY <1>19 DEF SpuriousWake
<1>20. ASSUME NEW w \in Threads, Run(w)
       PROVE  Quiet
  BY <1>20 DEF Run
<1>21. CASE UNCHANGED vars
  BY <1>21 DEF vars
<1> QED BY <1>1, <1>2, <1>3, <1>4, <1>5, <1>6, <1>7, <1>8, <1>9, <1>10, <1>11,
           <1>12, <1>13, <1>14, <1>15, <1>16, <1>17, <1>18, <1>19, <1>20, <1>21,
           <1>22, PoolAssumption
        DEF Next, Loud, ClientStep, WorkerStep

\* What add() does when it activates the task: the thread had no queue, so
\* its next task is the new one, and no queue changes.
LEMMA ActivateEffect ==
  ASSUME TypeOK, ControlOK, FirstHasQueue, NEW c \in Clients, AddActivate(c)
  PROVE  /\ Target \in Threads /\ active[Target] = None
         /\ task[c] \in Tasks /\ task[c] # None
         /\ active' = [active EXCEPT ![Target] = task[c]]
         /\ waiting' = waiting
<1>1. Target \in Threads /\ active[Target] = None
  BY TargetProperties DEF AddActivate
<1>2. waiting[Target] = <<>>
  BY <1>1 DEF FirstHasQueue
<1>3. task[c] \in Tasks /\ task[c] # None
  BY DEF AddActivate, ControlOK, TypeOK
<1>4. Head(Insert(waiting[Target], task[c])) = task[c]
      /\ Tail(Insert(waiting[Target], task[c])) = <<>>
  BY <1>2, <1>3, InsertIntoEmpty
<1>5. /\ active' = [active EXCEPT ![Target] = task[c]]
      /\ waiting' = [waiting EXCEPT ![Target] = <<>>]
  BY <1>4 DEF AddActivate, PopFront
<1>6. waiting' = waiting
  BY <1>1, <1>2, <1>5 DEF TypeOK
<1> QED BY <1>1, <1>3, <1>5, <1>6

----------------------------------------------------------------------------
(* Locking and queues                                                      *)

\* The pool mutex excludes.
LEMMA OneInsideStep ==
  TypeOK /\ ControlOK /\ OneInside /\ [Next]_vars => OneInside'
<1> SUFFICES ASSUME TypeOK, ControlOK, OneInside, [Next]_vars
             PROVE  OneInside'
  OBVIOUS
<1> USE DEF TypeOK, OneInside, Publishing, MutexFree
<1>1. CASE Quiet
  BY <1>1 DEF Quiet
<1>2. ASSUME NEW c \in Clients, AddBehind(c)
      PROVE  OneInside'
  BY <1>2 DEF AddBehind
<1>3. ASSUME NEW c \in Clients, AddActivate(c)
      PROVE  OneInside'
  <2>1. \A w \in Threads : worker'[w] \notin {"publishBusy", "publishIdle"}
    BY <1>3 DEF AddActivate, Wake
  <2> QED BY <1>3, <2>1 DEF AddActivate
<1>4. ASSUME NEW c \in Clients, PublishStart(c)
      PROVE  OneInside'
  BY <1>4 DEF PublishStart, threadVars
<1>5. ASSUME NEW w \in Threads, NextOwn(w)
      PROVE  OneInside'
  BY <1>5 DEF NextOwn, clientVars
<1>6. ASSUME NEW w \in Threads, NextStolen(w)
      PROVE  OneInside'
  BY <1>6 DEF NextStolen, clientVars
<1>7. ASSUME NEW w \in Threads, NextNone(w)
      PROVE  OneInside'
  BY <1>7 DEF NextNone, clientVars
<1>8. ASSUME NEW w \in Threads, PublishBusy(w)
      PROVE  OneInside'
  BY <1>8 DEF PublishBusy, clientVars
<1>9. ASSUME NEW w \in Threads, PublishIdle(w)
      PROVE  OneInside'
  <2>1. \A c \in Clients : client'[c] = "publish" => client[c] = "publish"
    BY <1>9, NotifyOnlyWakes DEF PublishIdle
  <2> QED BY <1>9, <2>1 DEF PublishIdle
<1> QED BY <1>1, <1>2, <1>3, <1>4, <1>5, <1>6, <1>7, <1>8, <1>9, LoudOrQuiet DEF Loud

\* Only the first thread has a queue, and only while it is active.
LEMMA FirstHasQueueStep ==
  TypeOK /\ ControlOK /\ FirstHasQueue /\ [Next]_vars => FirstHasQueue'
<1> SUFFICES ASSUME TypeOK, ControlOK, FirstHasQueue, [Next]_vars
             PROVE  FirstHasQueue'
  OBVIOUS
<1> USE PoolAssumption DEF TypeOK, FirstHasQueue, PopFront
<1>1. CASE UNCHANGED <<active, waiting>>
  BY <1>1
<1>2. ASSUME NEW c \in Clients, AddBehind(c)
      PROVE  FirstHasQueue'
  <2>1. Target \in Threads /\ Target = 1 /\ active[1] # None
    BY <1>2, TargetProperties DEF AddBehind
  <2> QED BY <1>2, <2>1 DEF AddBehind
<1>3. ASSUME NEW c \in Clients, AddActivate(c)
      PROVE  FirstHasQueue'
  BY <1>3, ActivateEffect
<1>4. ASSUME NEW w \in Threads, NextOwn(w)
      PROVE  FirstHasQueue'
  <2>1. w = 1 /\ Head(waiting[w]) \in Tasks
    BY <1>4, HeadTailProperties DEF NextOwn
  <2> QED BY <1>4, <2>1 DEF NextOwn
<1>5. ASSUME NEW w \in Threads, NextStolen(w)
      PROVE  FirstHasQueue'
  <2>1. Victim(w) = 1 /\ w # 1 /\ 1 \in Threads /\ active[1] # None
    BY <1>5, VictimProperties DEF NextStolen
  <2>2. waiting[w] = <<>>
    BY <1>5 DEF NextStolen
  <2> QED BY <1>5, <2>1, <2>2 DEF NextStolen
<1>6. ASSUME NEW w \in Threads, NextNone(w)
      PROVE  FirstHasQueue'
  BY <1>6 DEF NextNone
<1> QED BY <1>1, <1>2, <1>3, <1>4, <1>5, <1>6, LoudOrQuiet
        DEF Loud, Quiet, PublishStart, PublishBusy, PublishIdle, threadVars

----------------------------------------------------------------------------
(* iIdle                                                                   *)

IdleInv == IdleSound /\ IdleFalse /\ IdleExact

\* update_idle() looks at the threads there are; the others have no work.
LEMMA AllIdleMeans ==
  ASSUME TypeOK, ControlOK
  PROVE  /\ AllIdle <=> Queued = {} /\ Serving = {}
         /\ AllIdle => \A w \in Threads : active[w] = None /\ waiting[w] = <<>>
<1>1. /\ \A w \in Threads : w \in Existing \/ w > size
      /\ Existing \subseteq Threads
  BY PoolAssumption DEF TypeOK, Existing, Threads
<1>2. \A w \in Threads : ToSet(waiting[w]) = {} <=> waiting[w] = <<>>
  BY EmptyElements DEF TypeOK
<1>3. AllIdle <=> \A w \in Threads : active[w] = None /\ waiting[w] = <<>>
  BY <1>1 DEF AllIdle, ControlOK
<1>4. Queued = {} <=> \A w \in Threads : waiting[w] = <<>>
  BY <1>2 DEF Queued
<1>5. Serving = {} <=> \A w \in Threads : active[w] = None
  BY DEF Serving
<1> QED BY <1>3, <1>4, <1>5

\* iIdle is what the threads are.
LEMMA IdleStep ==
  /\ TypeOK /\ ControlOK /\ OneInside /\ FirstHasQueue /\ IdleInv
  /\ [Next]_vars
  => IdleInv'
<1> SUFFICES ASSUME TypeOK, ControlOK, OneInside, FirstHasQueue, IdleInv, [Next]_vars
             PROVE  IdleInv'
  OBVIOUS
<1> USE DEF IdleInv
\* Between two critical sections a thread with a task keeps iIdle unset.
<1>1. MutexFree => \A w \in Threads : active[w] # None => ~idle
  BY DEF MutexFree, IdleSound
<1>2. CASE Quiet
  <2>1. IdleSound' /\ IdleFalse'
    BY <1>2 DEF Quiet, IdleSound, IdleFalse
  <2>2. MutexFree' <=> MutexFree
    BY <1>2 DEF Quiet, MutexFree, Publishing
  <2>3. IdleExact'
    BY <1>2, <2>2 DEF Quiet, IdleExact, Queued, Serving
  <2> QED BY <2>1, <2>3
<1>3. ASSUME NEW c \in Clients, AddBehind(c)
      PROVE  IdleInv'
  <2>1. Target \in Threads /\ active[Target] # None /\ MutexFree
    BY <1>3, TargetProperties DEF AddBehind
  <2>2. ~idle' /\ active' = active
    BY <1>1, <1>3, <2>1 DEF AddBehind
  <2>3. Serving' # {}
    BY <2>1, <2>2 DEF Serving
  <2> QED BY <2>2, <2>3 DEF IdleSound, IdleFalse, IdleExact
<1>4. ASSUME NEW c \in Clients, AddActivate(c)
      PROVE  IdleInv'
  <2>1. /\ Target \in Threads /\ active' = [active EXCEPT ![Target] = task[c]]
        /\ waiting' = waiting
    BY <1>4, ActivateEffect
  <2>2. /\ idle' = idle /\ task' = task /\ client' = [client EXCEPT ![c] = "publish"]
        /\ MutexFree
    BY <1>4 DEF AddActivate
  <2>3. client'[c] = "publish"
    BY <2>2 DEF TypeOK
  <2>4. IdleSound'
    <3> SUFFICES ASSUME idle, NEW w \in Threads
                 PROVE  /\ waiting[w] = <<>>
                        /\ active'[w] # None => task[c] = active'[w]
      BY <2>1, <2>2, <2>3 DEF IdleSound
    <3>1. waiting[w] = <<>> /\ active[w] = None
      BY <1>1, <2>2 DEF IdleSound
    <3>2. active'[w] = IF w = Target THEN task[c] ELSE active[w]
      BY <2>1 DEF TypeOK
    <3> QED BY <3>1, <3>2
  <2>5. IdleFalse'
    <3>1. \A w \in Threads : ~Publishing(w)'
      BY <1>4, <2>2 DEF AddActivate, MutexFree, Publishing, Wake, TypeOK
    <3> QED BY <3>1 DEF IdleFalse
  <2>6. IdleExact'
    BY <2>3 DEF IdleExact, MutexFree
  <2> QED BY <2>4, <2>5, <2>6
<1>5. ASSUME NEW w \in Threads, NextOwn(w) \/ NextStolen(w) \/ NextNone(w)
      PROVE  IdleInv'
  <2>1. MutexFree /\ active[w] # None /\ idle' = idle
    BY <1>5 DEF NextOwn, NextStolen, NextNone, ControlOK
  <2>2. ~idle'
    BY <1>1, <2>1
  <2>3. worker'[w] \in {"publishBusy", "publishIdle"}
    BY <1>5 DEF NextOwn, NextStolen, NextNone, TypeOK
  <2>4. ~MutexFree'
    BY <2>3 DEF MutexFree
  <2> QED BY <2>2, <2>4 DEF IdleSound, IdleFalse, IdleExact
<1>6. ASSUME idle' = AllIdle, UNCHANGED <<active, waiting>>,
             \A w \in Threads : ~Publishing(w)'
      PROVE  IdleInv'
  <2>1. IdleSound'
    BY <1>6, AllIdleMeans DEF IdleSound
  <2>2. IdleFalse'
    BY <1>6 DEF IdleFalse
  <2>3. Queued' = Queued /\ Serving' = Serving
    BY <1>6 DEF Queued, Serving
  <2>4. IdleExact'
    BY <1>6, <2>3, AllIdleMeans DEF IdleExact
  <2> QED BY <2>1, <2>2, <2>4
<1>7. ASSUME NEW c \in Clients, PublishStart(c)
      PROVE  IdleInv'
  <2>1. \A w \in Threads : ~Publishing(w)'
    BY <1>7 DEF PublishStart, OneInside, Publishing, threadVars
  <2> QED BY <1>6, <1>7, <2>1 DEF PublishStart, threadVars
<1>8. ASSUME NEW w \in Threads, PublishBusy(w) \/ PublishIdle(w)
      PROVE  IdleInv'
  <2>1. \A v \in Threads : ~Publishing(v)'
    BY <1>8 DEF PublishBusy, PublishIdle, OneInside, Publishing, TypeOK
  <2> QED BY <1>6, <1>8, <2>1 DEF PublishBusy, PublishIdle
<1> QED BY <1>2, <1>3, <1>4, <1>5, <1>7, <1>8, LoudOrQuiet DEF Loud

----------------------------------------------------------------------------
(* Wakeups                                                                 *)

\* A thread that sleeps has no task, and was not told to stop.
LEMMA WakeupStep ==
  TypeOK /\ ControlOK /\ FirstHasQueue /\ NoMissedWakeup /\ [Next]_vars => NoMissedWakeup'
<1> SUFFICES ASSUME TypeOK, ControlOK, FirstHasQueue, NoMissedWakeup, [Next]_vars
             PROVE  NoMissedWakeup'
  OBVIOUS
<1> USE DEF TypeOK, NoMissedWakeup, Wake, threadVars
<1>1. CASE UNCHANGED threadVars
  BY <1>1
<1>2. ASSUME NEW n \in ReserveSizes, Reserve(n)
      PROVE  NoMissedWakeup'
  <2>1. /\ \A w \in Threads : worker'[w] = "check" \/ worker'[w] = worker[w]
        /\ UNCHANGED <<active, threadStopped>>
    BY <1>2 DEF Reserve
  <2> QED BY <2>1
<1>3. ASSUME NEW c \in Clients, AddBehind(c)
      PROVE  NoMissedWakeup'
  BY <1>3 DEF AddBehind
<1>4. ASSUME NEW c \in Clients, AddActivate(c)
      PROVE  NoMissedWakeup'
  <2>1. Target \in Threads
    BY <1>4, ActivateEffect
  <2>2. /\ \A w \in Threads \ {Target} : active'[w] = active[w] /\ worker'[w] = worker[w]
        /\ worker'[Target] # "asleep"
        /\ threadStopped' = threadStopped
    BY <1>4, <2>1 DEF AddActivate
  <2> QED BY <2>2
<1>5. ASSUME NEW c \in Clients, StopThread(c)
      PROVE  NoMissedWakeup'
  BY <1>5 DEF StopThread
<1>6. ASSUME NEW w \in Threads, Check(w)
      PROVE  NoMissedWakeup'
  BY <1>6 DEF Check
<1>7. ASSUME NEW w \in Threads, SpuriousWake(w)
      PROVE  NoMissedWakeup'
  BY <1>7 DEF SpuriousWake
<1>8. ASSUME NEW w \in Threads, Run(w)
      PROVE  NoMissedWakeup'
  BY <1>8 DEF Run
<1>9. ASSUME NEW w \in Threads, NextOwn(w) \/ NextStolen(w) \/ NextNone(w)
      PROVE  NoMissedWakeup'
  BY <1>9 DEF NextOwn, NextStolen, NextNone
<1>10. ASSUME NEW w \in Threads, PublishBusy(w) \/ PublishIdle(w)
       PROVE  NoMissedWakeup'
  BY <1>10 DEF PublishBusy, PublishIdle
<1>11. \/ UNCHANGED threadVars
       \/ \E n \in ReserveSizes : Reserve(n)
       \/ \E c \in Clients : AddBehind(c) \/ AddActivate(c) \/ StopThread(c)
       \/ \E w \in Threads : WorkerStep(w) \/ SpuriousWake(w)
  BY DEF Next, vars, ClientStep, Start, TryStart, Cancel, Wait, Stop, Destroy,
         TryAvailable, StartThrows, PublishStart, WaitCheck, SpuriousWaiter,
         Waited, FindUnstopped, SkipThread, Joined, JoinThrows, StopDone, Destroyed
<1> QED BY <1>1, <1>2, <1>3, <1>4, <1>5, <1>6, <1>7, <1>8, <1>9, <1>10, <1>11
        DEF WorkerStep

----------------------------------------------------------------------------
(* Tasks                                                                   *)

\* A task that was accepted waits, is served or has finished.
LEMMA KeptStep ==
  TypeOK /\ ControlOK /\ FirstHasQueue /\ Kept /\ [Next]_vars => Kept'
<1> SUFFICES ASSUME TypeOK, ControlOK, FirstHasQueue, Kept, [Next]_vars
             PROVE  Kept'
  OBVIOUS
<1> USE DEF Kept
<1>1. ASSUME UNCHANGED <<active, waiting, accepted, finished>>
      PROVE  Kept'
  BY <1>1 DEF Queued, Serving
<1>2. ASSUME NEW c \in Clients, AddBehind(c)
      PROVE  Kept'
  <2>1. /\ Target \in Threads /\ task[c] \in Tasks
    BY <1>2, TargetProperties DEF AddBehind, ControlOK, TypeOK
  <2>2. ToSet(accepted') = ToSet(accepted) \cup {task[c]}
    BY <1>2, <2>1, AppendElements DEF AddBehind, TypeOK
  <2>3. \A w \in Threads : ToSet(waiting'[w]) =
          IF w = Target THEN ToSet(waiting[w]) \cup {task[c]} ELSE ToSet(waiting[w])
    BY <1>2, <2>1, InsertElements DEF AddBehind, TypeOK
  <2>4. Queued' = Queued \cup {task[c]}
    BY <2>1, <2>3 DEF Queued
  <2>5. Serving' = Serving /\ finished' = finished
    BY <1>2 DEF AddBehind, Serving
  <2> QED BY <2>2, <2>4, <2>5
<1>3. ASSUME NEW c \in Clients, AddActivate(c)
      PROVE  Kept'
  <2>1. /\ Target \in Threads /\ active[Target] = None
        /\ task[c] \in Tasks /\ task[c] # None
        /\ active' = [active EXCEPT ![Target] = task[c]]
        /\ waiting' = waiting
    BY <1>3, ActivateEffect
  <2>2. ToSet(accepted') = ToSet(accepted) \cup {task[c]}
    BY <1>3, <2>1, AppendElements DEF AddActivate, TypeOK
  <2>3. Serving' = Serving \cup {task[c]}
    BY <2>1 DEF Serving, TypeOK
  <2>4. Queued' = Queued /\ finished' = finished
    BY <1>3, <2>1 DEF AddActivate, Queued
  <2> QED BY <2>2, <2>3, <2>4
<1>4. ASSUME NEW w \in Threads, NextOwn(w)
      PROVE  Kept'
  <2>1. /\ waiting[w] \in Seq(Tasks) /\ waiting[w] # <<>>
        /\ active[w] \in Tasks
        /\ active' = [active EXCEPT ![w] = Head(waiting[w])]
        /\ waiting' = [waiting EXCEPT ![w] = Tail(@)]
        /\ finished' = finished \cup {active[w]} /\ accepted' = accepted
    BY <1>4 DEF NextOwn, PopFront, TypeOK, ControlOK
  <2>2. /\ ToSet(waiting[w]) = {Head(waiting[w])} \cup ToSet(Tail(waiting[w]))
        /\ Head(waiting[w]) \in Tasks
    BY <2>1, HeadTailElements, HeadTailProperties
  <2>3. Queued \subseteq Queued' \cup {Head(waiting[w])}
    BY <2>1, <2>2 DEF Queued, TypeOK
  <2>4. Serving \subseteq Serving' \cup {active[w]} /\ Head(waiting[w]) \in Serving'
    BY <2>1, <2>2, PoolAssumption DEF Serving, TypeOK
  <2> QED BY <2>1, <2>3, <2>4
<1>5. ASSUME NEW w \in Threads, NextStolen(w)
      PROVE  Kept'
  <2> DEFINE v == Victim(w)
  <2>1. /\ v \in Threads /\ waiting[v] \in Seq(Tasks) /\ waiting[v] # <<>>
        /\ active[w] \in Tasks
        /\ active' = [active EXCEPT ![w] = Head(waiting[v])]
        /\ waiting' = [waiting EXCEPT ![v] = Tail(@)]
        /\ finished' = finished \cup {active[w]} /\ accepted' = accepted
    BY <1>5, VictimProperties DEF NextStolen, PopFront, TypeOK, ControlOK
  <2> HIDE DEF v
  <2>2. /\ ToSet(waiting[v]) = {Head(waiting[v])} \cup ToSet(Tail(waiting[v]))
        /\ Head(waiting[v]) \in Tasks
    BY <2>1, HeadTailElements, HeadTailProperties
  <2>3. Queued \subseteq Queued' \cup {Head(waiting[v])}
    BY <2>1, <2>2 DEF Queued, TypeOK
  <2>4. Serving \subseteq Serving' \cup {active[w]} /\ Head(waiting[v]) \in Serving'
    BY <2>1, <2>2, PoolAssumption DEF Serving, TypeOK
  <2> QED BY <2>1, <2>3, <2>4
<1>6. ASSUME NEW w \in Threads, NextNone(w)
      PROVE  Kept'
  <2>1. Queued' = Queued /\ accepted' = accepted /\ finished' = finished \cup {active[w]}
    BY <1>6 DEF NextNone, Queued
  <2>2. Serving \subseteq Serving' \cup {active[w]}
    BY <1>6 DEF NextNone, Serving, TypeOK
  <2> QED BY <2>1, <2>2
<1> QED BY <1>1, <1>2, <1>3, <1>4, <1>5, <1>6, LoudOrQuiet
        DEF Loud, Quiet, PublishStart, PublishBusy, PublishIdle, threadVars, history

----------------------------------------------------------------------------
(* The theorems                                                            *)

\* The pool starts idle.
LEMMA InitPoolInv == Init => PoolInv
<1> SUFFICES ASSUME Init
             PROVE  PoolInv
  OBVIOUS
<1> USE PoolAssumption DEF Init
<1>1. TypeOK
  <2>1. size \in 0 .. MaxThreads /\ maxThreads \in 0 .. MaxThreads
    OBVIOUS
  <2>2. accepted \in Seq(Tasks) /\ waiting \in [Threads -> Seq(Tasks)]
    BY EmptySeq
  <2>3. worker \in [Threads -> WorkerPC] /\ client \in [Clients -> ClientPC]
    BY DEF ClientPC, WorkerPC
  <2>4. at \in [Clients -> 1 .. MaxThreads + 1] /\ runs \in [Tasks -> Nat]
    OBVIOUS
  <2> QED BY <2>1, <2>2, <2>3, <2>4 DEF TypeOK
<1>2. ControlOK
  BY DEF ControlOK, Threads
<1>3. OneInside /\ FirstHasQueue /\ IdleSound /\ IdleFalse /\ NoMissedWakeup
  BY DEF OneInside, FirstHasQueue, IdleSound, IdleFalse, NoMissedWakeup, Publishing
<1>4. Queued = {} /\ Serving = {} /\ ToSet(accepted) = {}
  BY DEF Queued, Serving, ToSet
<1> QED BY <1>1, <1>2, <1>3, <1>4 DEF PoolInv, IdleExact, Kept

\* All of it is kept together.
LEMMA NextPoolInv == PoolInv /\ [Next]_vars => PoolInv'
BY TypeStep, ControlStep, OneInsideStep, FirstHasQueueStep, IdleStep, WakeupStep,
   KeptStep
   DEF PoolInv, IdleInv

\* PoolInv holds in every state the pool reaches.
THEOREM PoolInvariant == Spec => []PoolInv
<1> QED BY InitPoolInv, NextPoolInv, PTL DEF Spec

\* Every variable of the pool keeps its type.
THEOREM TypeCorrect == Spec => []TypeOK
<1>1. PoolInv => TypeOK
  BY DEF PoolInv
<1> QED BY <1>1, PoolInvariant, PTL

\* Whenever the pool's mutex is free iIdle tells whether any thread has work.
THEOREM IdleIsExact == Spec => []IdleExact
<1>1. PoolInv => IdleExact
  BY DEF PoolInv
<1> QED BY <1>1, PoolInvariant, PTL

\* No thread sleeps with a task given to it or through its stop.
THEOREM NoWakeupIsMissed == Spec => []NoMissedWakeup
<1>1. PoolInv => NoMissedWakeup
  BY DEF PoolInv
<1> QED BY <1>1, PoolInvariant, PTL

\* wait() lets its caller go only when everything started before is done, or
\* the pool has been stopped.
THEOREM WaitIsSound == Spec => WaitMeansDone
<1> DEFINE Sound == \A c \in Clients :
                      client[c] # "waited" /\ client'[c] = "waited" /\ ~stopped
                        => Started \subseteq finished
<1>1. PoolInv /\ [Next]_vars => Sound
  <2> SUFFICES ASSUME PoolInv, [Next]_vars, NEW c \in Clients,
                      client[c] # "waited", client'[c] = "waited", ~stopped
               PROVE  Started \subseteq finished
    OBVIOUS
  <2>1. idle
    <3> USE DEF PoolInv, TypeOK
    <3>1. ASSUME NEW d \in Clients, ClientStep(d) PROVE idle
      <4>1. CASE StopDone(d)
        <5> DEFINE pcs == [client EXCEPT ![d] = "ready"]
        <5>1. pcs \in [Clients -> ClientPC] /\ pcs[c] # "waited" /\ client' \in Notify(pcs)
          BY <4>1 DEF StopDone, ClientPC
        <5> HIDE DEF pcs
        <5> QED BY <5>1, NotifyOnlyWakes
      <4>2. CASE WaitCheck(d)
        BY <4>2 DEF WaitCheck
      <4>3. CASE TryAvailable(d) \/ StartThrows(d) \/ AddBehind(d) \/ AddActivate(d)
                 \/ PublishStart(d)
        BY <4>3 DEF TryAvailable, StartThrows, AddBehind, AddActivate, PublishStart
      <4>4. CASE Waited(d)
        BY <4>4 DEF Waited
      <4>5. CASE StopThread(d) \/ SkipThread(d) \/ Joined(d) \/ Destroyed(d)
        BY <4>5 DEF StopThread, SkipThread, Joined, Destroyed
      <4>6. CASE FindUnstopped(d) \/ JoinThrows(d)
        BY <4>6 DEF FindUnstopped, JoinThrows
      <4> QED BY <3>1, <4>1, <4>2, <4>3, <4>4, <4>5, <4>6 DEF ClientStep
    <3>2. ASSUME NEW w \in Threads, PublishIdle(w) PROVE idle
      BY <3>2, NotifyOnlyWakes DEF PublishIdle
    <3>3. ASSUME NEW w \in Threads, WorkerStep(w) \/ SpuriousWake(w), ~PublishIdle(w)
          PROVE  idle
      BY <3>3 DEF WorkerStep, SpuriousWake, Check, Run, NextOwn, NextStolen, NextNone,
                  PublishBusy, clientVars
    <3>4. ASSUME NEW d \in Clients, Wait(d) \/ Destroy(d) PROVE idle
      BY <3>4 DEF Wait, Destroy, BeginWait
    <3>5. ASSUME NEW d \in Clients, NEW t \in Tasks,
                 Start(d, t) \/ TryStart(d, t) \/ Stop(d) \/ SpuriousWaiter(d)
          PROVE  idle
      BY <3>5 DEF Start, TryStart, Stop, SpuriousWaiter
    <3>6. ASSUME NEW d \in Clients, Stop(d) \/ SpuriousWaiter(d) PROVE idle
      BY <3>6 DEF Stop, SpuriousWaiter
    <3>7. ASSUME NEW t \in Tasks, Cancel(t) PROVE idle
      BY <3>7 DEF Cancel, clientVars
    <3>8. ASSUME NEW n \in ReserveSizes, Reserve(n) PROVE idle
      BY <3>8 DEF Reserve, clientVars
    <3>9. CASE UNCHANGED vars
      BY <3>9 DEF vars, clientVars
    <3> QED BY <3>1, <3>2, <3>3, <3>4, <3>5, <3>6, <3>7, <3>8, <3>9, PoolAssumption
            DEF Next
  <2>2. Queued = {} /\ Serving \subseteq {task[d] : d \in Clients}
    <3>1. \A w \in Threads : waiting[w] = <<>>
      BY <2>1 DEF PoolInv, IdleSound
    <3>2. Queued = {}
      BY <3>1, EmptyElements DEF Queued, PoolInv, TypeOK
    <3>3. Serving \subseteq {task[d] : d \in Clients}
      BY <2>1 DEF PoolInv, IdleSound, Serving
    <3> QED BY <3>2, <3>3
  <2> QED BY <2>2 DEF PoolInv, Kept, Started
<1>2. PoolInv /\ [Next]_vars => [Sound]_vars
  BY <1>1
<1>3. []PoolInv /\ [][Next]_vars => [][Sound]_vars
  BY <1>2, PTL
<1> QED BY <1>3, PoolInvariant, PTL DEF Spec, WaitMeansDone

----------------------------------------------------------------------------
(* stop() and the destructor                                               *)

\* What a step does that neither stops a thread nor counts one as stopped.
Unstopping ==
  /\ threadStopped' = threadStopped
  /\ \A w \in Threads : worker[w] = "exited" => worker'[w] = "exited"
  /\ \A c \in Clients : at'[c] = at[c] \/ (at'[c] = 1 /\ client[c] \in {"ready", "waited"})
  /\ \A c \in Clients : client[c] = "joining" => client'[c] = "joining" /\ at'[c] = at[c]

\* stop() ends, and may wake one client that waits.
LEMMA StopDoneWakes ==
  ASSUME TypeOK, NEW c \in Clients, StopDone(c), NEW d \in Clients
  PROVE  \/ client'[d] = IF d = c THEN "ready" ELSE client[d]
         \/ d # c /\ client[d] = "asleep" /\ client'[d] = "waitcheck"
<1> DEFINE pcs == [client EXCEPT ![c] = "ready"]
<1>1. /\ pcs \in [Clients -> ClientPC]
      /\ pcs[d] = IF d = c THEN "ready" ELSE client[d]
  BY DEF TypeOK, ClientPC
<1>2. client' \in Notify(pcs)
  BY DEF StopDone
<1> HIDE DEF pcs
<1>3. client'[d] = pcs[d] \/ (pcs[d] = "asleep" /\ client'[d] = "waitcheck")
  BY <1>1, <1>2, NotifyOnlyWakes
<1> QED BY <1>1, <1>3

\* What concerns stop() in a step.
LEMMA StoppingOrNot ==
  ASSUME TypeOK, ControlOK, [Next]_vars
  PROVE  \/ Unstopping
         \/ \E c \in Clients : StopThread(c) \/ SkipThread(c) \/ Joined(c) \/ JoinThrows(c)
<1> USE DEF TypeOK, Unstopping, threadVars, clientVars
<1>1. ASSUME NEW c \in Clients, NEW t \in Tasks, Start(c, t) \/ TryStart(c, t)
      PROVE  Unstopping
  BY <1>1 DEF Start, TryStart
<1>2. ASSUME NEW t \in Tasks, Cancel(t)
      PROVE  Unstopping
  BY <1>2 DEF Cancel
<1>3. ASSUME NEW n \in ReserveSizes, Reserve(n)
      PROVE  Unstopping
  <2>1. UNCHANGED <<threadStopped, client, at>>
    BY <1>3 DEF Reserve
  <2>2. ASSUME NEW w \in Threads, worker[w] = "exited" PROVE worker'[w] = "exited"
    <3>1. w \notin size + 1 .. Grown(n)
      BY <2>2, PoolAssumption DEF ControlOK, Threads
    <3> QED BY <1>3, <2>2, <3>1 DEF Reserve
  <2> QED BY <2>1, <2>2
<1>4. ASSUME NEW c \in Clients, Wait(c) \/ Stop(c) \/ Destroy(c) \/ SpuriousWaiter(c)
      PROVE  Unstopping
  BY <1>4 DEF Wait, Stop, Destroy, SpuriousWaiter, BeginWait
<1>5. ASSUME NEW c \in Clients, TryAvailable(c) \/ StartThrows(c) \/ AddBehind(c) \/ PublishStart(c)
      PROVE  Unstopping
  BY <1>5 DEF TryAvailable, StartThrows, AddBehind, PublishStart
<1>6. ASSUME NEW c \in Clients, AddActivate(c)
      PROVE  Unstopping
  BY <1>6, TargetProperties DEF AddActivate, Wake
<1>7. ASSUME NEW c \in Clients, WaitCheck(c) \/ Waited(c) \/ FindUnstopped(c) \/ Destroyed(c)
      PROVE  Unstopping
  BY <1>7 DEF WaitCheck, Waited, FindUnstopped, Destroyed
<1>8. ASSUME NEW c \in Clients, StopDone(c)
      PROVE  Unstopping
  <2>2. \A d \in Clients : client[d] = "joining" => client'[d] = "joining"
    BY <1>8, StopDoneWakes DEF StopDone
  <2> QED BY <1>8, <2>2 DEF StopDone
<1>9. ASSUME NEW w \in Threads, Check(w) \/ SpuriousWake(w) \/ Run(w)
      PROVE  Unstopping
  BY <1>9 DEF Check, SpuriousWake, Run
<1>10. ASSUME NEW w \in Threads, NextOwn(w) \/ NextStolen(w) \/ NextNone(w) \/ PublishBusy(w)
      PROVE  Unstopping
  BY <1>10 DEF NextOwn, NextStolen, NextNone, PublishBusy
<1>11. ASSUME NEW w \in Threads, PublishIdle(w)
      PROVE  Unstopping
  <2>1. \A d \in Clients : client[d] = "joining" => client'[d] = "joining"
    BY <1>11, NotifyOnlyWakes DEF PublishIdle
  <2> QED BY <1>11, <2>1 DEF PublishIdle
<1>12. CASE UNCHANGED vars
  BY <1>12 DEF vars
<1> QED BY <1>1, <1>2, <1>3, <1>4, <1>5, <1>6, <1>7, <1>8, <1>9, <1>10, <1>11, <1>12,
           PoolAssumption
        DEF Next, ClientStep, WorkerStep

\* A thread that was told to stop goes on to its end.
LEMMA StoppedExitsStep ==
  ASSUME TypeOK, ControlOK, StoppedExits, [Next]_vars
  PROVE  StoppedExits'
<1> USE DEF TypeOK
<1>0. StoppedExits
  OBVIOUS
<1> SUFFICES ASSUME NEW w \in Threads, threadStopped'[w], worker'[w] # "exited"
             PROVE  \E c \in Clients : client'[c] = "joining" /\ at'[c] = w
  BY DEF StoppedExits
<1> DEFINE Joins(d) == client[d] = "joining" /\ at[d] = w
<1>1. CASE Unstopping
  <2>1. threadStopped[w] /\ worker[w] # "exited"
    BY <1>1 DEF Unstopping
  <2>2. PICK d \in Clients : Joins(d)
    BY <1>0, <2>1 DEF StoppedExits
  <2> QED BY <1>1, <2>2 DEF Unstopping
<1>2. ASSUME NEW c \in Clients, StopThread(c)
      PROVE  \E d \in Clients : client'[d] = "joining" /\ at'[d] = w
  <2>1. /\ client' = [client EXCEPT ![c] = "joining"] /\ at' = at /\ client[c] = "telling"
        /\ threadStopped' = [threadStopped EXCEPT ![at[c]] = TRUE]
    BY <1>2 DEF StopThread
  <2>2. worker[w] # "exited"
    BY <1>2 DEF StopThread, Wake
  <2>3. CASE at[c] = w
    BY <2>1, <2>3
  <2>4. CASE at[c] # w
    <3>1. threadStopped[w]
      BY <2>1, <2>4
    <3>2. PICK d \in Clients : Joins(d)
      BY <1>0, <2>2, <3>1 DEF StoppedExits
    <3>3. d # c
      BY <2>1, <3>2
    <3> QED BY <2>1, <3>2, <3>3
  <2> QED BY <2>3, <2>4
<1>3. ASSUME NEW c \in Clients, SkipThread(c)
      PROVE  \E d \in Clients : client'[d] = "joining" /\ at'[d] = w
  <2>1. client' = client /\ threadStopped' = threadStopped /\ worker' = worker
        /\ client[c] = "stopping" /\ \A d \in Clients \ {c} : at'[d] = at[d]
    BY <1>3 DEF SkipThread, threadVars
  <2>2. PICK d \in Clients : Joins(d)
    BY <1>0, <2>1 DEF StoppedExits
  <2> QED BY <2>1, <2>2
<1>4. ASSUME NEW c \in Clients, Joined(c)
      PROVE  \E d \in Clients : client'[d] = "joining" /\ at'[d] = w
  <2>1. threadStopped' = threadStopped /\ worker' = worker /\ worker[at[c]] = "exited"
    BY <1>4 DEF Joined, threadVars
  <2>2. \A d \in Clients \ {c} : client'[d] = client[d] /\ at'[d] = at[d]
    BY <1>4 DEF Joined
  <2>3. PICK d \in Clients : Joins(d)
    BY <1>0, <2>1 DEF StoppedExits
  <2> QED BY <2>1, <2>2, <2>3
<1>5. ASSUME NEW c \in Clients, JoinThrows(c)
      PROVE  \E d \in Clients : client'[d] = "joining" /\ at'[d] = w
  <2>1. threadStopped' = threadStopped /\ worker' = worker
    BY <1>5 DEF JoinThrows, threadVars
  <2>2. at' = at /\ \A d \in Clients \ {c} : client'[d] = client[d]
    BY <1>5 DEF JoinThrows
  <2>3. PICK d \in Clients : Joins(d)
    BY <1>0, <2>1 DEF StoppedExits
  <2>4. CASE d = c
    <3>1. PICK e \in Clients : e # c /\ client[e] = "joining" /\ at[e] = at[c]
      BY <1>5 DEF JoinThrows, Joining
    <3> QED BY <2>2, <2>3, <2>4, <3>1
  <2> QED BY <2>2, <2>3, <2>4
<1> QED BY <1>1, <1>2, <1>3, <1>4, <1>5, StoppingOrNot

\* The destructor stays alone with the pool.
LEMMA DestroyerAloneStep ==
  ASSUME TypeOK, DestroyerAlone, [Next]_vars
  PROVE  DestroyerAlone'
<1> USE PoolAssumption DEF TypeOK, DestroyerAlone, threadVars, clientVars
<1>1. ASSUME NEW c \in Clients, NEW t \in Tasks, Start(c, t) \/ TryStart(c, t)
      PROVE  DestroyerAlone'
  BY <1>1 DEF Start, TryStart
<1>2. ASSUME NEW t \in Tasks, Cancel(t)
      PROVE  DestroyerAlone'
  BY <1>2 DEF Cancel
<1>3. ASSUME NEW n \in ReserveSizes, Reserve(n)
      PROVE  DestroyerAlone'
  BY <1>3 DEF Reserve
<1>4. ASSUME NEW c \in Clients, Wait(c) \/ Stop(c) \/ SpuriousWaiter(c)
      PROVE  DestroyerAlone'
  BY <1>4 DEF Wait, Stop, SpuriousWaiter, BeginWait
<1>5. ASSUME NEW c \in Clients, Destroy(c)
      PROVE  DestroyerAlone'
  BY <1>5 DEF Destroy, BeginWait
<1>6. ASSUME NEW c \in Clients, TryAvailable(c) \/ StartThrows(c) \/ PublishStart(c)
      PROVE  DestroyerAlone'
  BY <1>6 DEF TryAvailable, StartThrows, PublishStart
<1>15. ASSUME NEW c \in Clients, AddBehind(c) \/ AddActivate(c)
      PROVE  DestroyerAlone'
  BY <1>15 DEF AddBehind, AddActivate
<1>7. ASSUME NEW c \in Clients, WaitCheck(c)
      PROVE  DestroyerAlone'
  BY <1>7 DEF WaitCheck
<1>8. ASSUME NEW c \in Clients, Waited(c)
      PROVE  DestroyerAlone'
  BY <1>8 DEF Waited
<1>9. ASSUME NEW c \in Clients,
             FindUnstopped(c) \/ StopThread(c) \/ SkipThread(c) \/ Joined(c) \/ Destroyed(c)
      PROVE  DestroyerAlone'
  BY <1>9 DEF FindUnstopped, StopThread, SkipThread, Joined, Destroyed
<1>14. ASSUME NEW c \in Clients, JoinThrows(c)
      PROVE  DestroyerAlone'
  <2>1. PICK e \in Clients : e # c /\ client[e] = "joining"
    BY <1>14 DEF JoinThrows, Joining
  <2>2. destroyer # c
    BY <2>1
  <2> QED BY <1>14, <2>2 DEF JoinThrows
<1>10. ASSUME NEW c \in Clients, StopDone(c)
      PROVE  DestroyerAlone'
  <2>1. destroyer # c /\ client[c] = "stopping" /\ destroyer' = destroyer
    BY <1>10 DEF StopDone
  <2>2. destroyer = None
    BY <2>1
  <2>3. \A d \in Clients : client'[d] # "destroyed"
    BY <1>10, <2>2, StopDoneWakes
  <2> QED BY <2>1, <2>2, <2>3
<1>11. ASSUME NEW w \in Threads, PublishIdle(w)
      PROVE  DestroyerAlone'
  <2>1. destroyer' = destroyer /\ client' \in Notify(client)
    BY <1>11 DEF PublishIdle
  <2>2. \A d \in Clients : client'[d] = client[d] \/ (client[d] = "asleep" /\ client'[d] = "waitcheck")
    BY <2>1, NotifyOnlyWakes
  <2> QED BY <2>1, <2>2
<1>12. ASSUME NEW w \in Threads, WorkerStep(w) \/ SpuriousWake(w), ~PublishIdle(w)
      PROVE  DestroyerAlone'
  BY <1>12 DEF WorkerStep, SpuriousWake, Check, Run, NextOwn, NextStolen, NextNone, PublishBusy
<1>13. CASE UNCHANGED vars
  BY <1>13 DEF vars
<1> QED BY <1>1, <1>2, <1>3, <1>4, <1>5, <1>6, <1>7, <1>8, <1>9, <1>10, <1>11, <1>12, <1>13,
           <1>14, <1>15
        DEF Next, ClientStep

\* While the destructor is on its way, nothing it relies on is taken back.
LEMMA DestroyerKeeps ==
  ASSUME PoolInv, StopInv, [Next]_vars, NEW c \in Clients, destroyer = c
  PROVE  /\ destroyer' = c /\ size' = size /\ stopped' = stopped
         /\ (idle => idle')
         /\ \A d \in Clients \ {c} : client'[d] = client[d] /\ at'[d] = at[d]
         /\ \/ WaitCheck(c) \/ Waited(c)
            \/ FindUnstopped(c) \/ StopThread(c) \/ SkipThread(c) \/ Joined(c) \/ Destroyed(c)
            \/ client'[c] \in {client[c], "waitcheck"} /\ at'[c] = at[c]
<1> USE PoolAssumption DEF PoolInv, StopInv, TypeOK, DestroyerAlone, threadVars, clientVars
<1>0. destroyer # None
  OBVIOUS
<1>1. ASSUME NEW d \in Clients
      PROVE  /\ ~Wait(d) /\ ~Stop(d) /\ ~Destroy(d)
             /\ \A t \in Tasks : ~Start(d, t) /\ ~TryStart(d, t)
  BY <1>0 DEF Start, TryStart, Wait, Stop, Destroy
<1>2. ASSUME NEW n \in ReserveSizes, Reserve(n)
      PROVE  FALSE
  BY <1>0, <1>2 DEF Reserve
<1>3. ASSUME NEW d \in Clients, ClientStep(d) \/ SpuriousWaiter(d)
      PROVE  /\ UNCHANGED <<destroyer, size, stopped, idle>>
             /\ \A e \in Clients \ {c} : client'[e] = client[e] /\ at'[e] = at[e]
             /\ \/ WaitCheck(c) \/ Waited(c)
                \/ FindUnstopped(c) \/ StopThread(c) \/ SkipThread(c) \/ Joined(c) \/ Destroyed(c)
                \/ client'[c] = "waitcheck" /\ at'[c] = at[c]
  <2>1. ~ (TryAvailable(d) \/ StartThrows(d) \/ AddBehind(d) \/ AddActivate(d) \/ PublishStart(d))
    BY <1>0 DEF TryAvailable, StartThrows, AddBehind, AddActivate, PublishStart
  <2>2. d = c
    BY <1>0, <1>3, <2>1 DEF ClientStep, SpuriousWaiter, WaitCheck, Waited, FindUnstopped,
         StopThread, SkipThread, Joined, JoinThrows, StopDone, Destroyed
  <2>3. ~StopDone(d)
    BY <2>2 DEF StopDone
  <2>4. ~JoinThrows(d)
    BY <1>0, <2>2 DEF JoinThrows, Joining
  <2> QED BY <1>3, <2>1, <2>2, <2>3, <2>4 DEF ClientStep, SpuriousWaiter, WaitCheck, Waited,
         FindUnstopped, StopThread, SkipThread, Joined, Destroyed
<1>4. ASSUME NEW w \in Threads, PublishIdle(w)
      PROVE  /\ UNCHANGED <<destroyer, size, stopped, at>> /\ ~idle
             /\ \A e \in Clients \ {c} : client'[e] = client[e]
             /\ client'[c] \in {client[c], "waitcheck"}
  <2>1. \A e \in Clients \ {c} : client[e] = "ready"
    BY <1>0
  <2>2. \A e \in Clients : client'[e] = client[e] \/ (client[e] = "asleep" /\ client'[e] = "waitcheck")
    BY <1>4, NotifyOnlyWakes DEF PublishIdle
  <2>3. ~idle
    BY <1>4 DEF IdleFalse, Publishing, PublishIdle
  <2> QED BY <1>4, <2>1, <2>2, <2>3 DEF PublishIdle
<1>5. ASSUME NEW w \in Threads, PublishBusy(w)
      PROVE  /\ UNCHANGED <<destroyer, size, stopped, at, client>> /\ ~idle
  BY <1>5 DEF IdleFalse, Publishing, PublishBusy
<1>6. ASSUME NEW w \in Threads, Check(w) \/ SpuriousWake(w) \/ Run(w) \/ NextOwn(w) \/ NextStolen(w) \/ NextNone(w)
      PROVE  UNCHANGED <<destroyer, size, stopped, at, client, idle>>
  BY <1>6 DEF Check, SpuriousWake, Run, NextOwn, NextStolen, NextNone
<1>7. ASSUME NEW t \in Tasks, Cancel(t)
      PROVE  UNCHANGED <<destroyer, size, stopped, at, client, idle>>
  BY <1>7 DEF Cancel
<1>8. ASSUME UNCHANGED vars
      PROVE  UNCHANGED <<destroyer, size, stopped, at, client, idle>>
  BY <1>8 DEF vars
<1> HIDE DEF PoolInv, StopInv, TypeOK, DestroyerAlone, threadVars, clientVars
<1>9. ASSUME NEW w \in Threads, WorkerStep(w) \/ SpuriousWake(w)
      PROVE  /\ UNCHANGED <<destroyer, size, stopped>> /\ (idle => idle')
             /\ \A e \in Clients \ {c} : client'[e] = client[e] /\ at'[e] = at[e]
             /\ client'[c] \in {client[c], "waitcheck"} /\ at'[c] = at[c]
  BY <1>4, <1>5, <1>6, <1>9 DEF WorkerStep
<1> DEFINE Quietly ==
      /\ UNCHANGED <<destroyer, size, stopped>> /\ (idle => idle')
      /\ \A e \in Clients \ {c} : client'[e] = client[e] /\ at'[e] = at[e]
      /\ \/ WaitCheck(c) \/ Waited(c)
         \/ FindUnstopped(c) \/ StopThread(c) \/ SkipThread(c) \/ Joined(c) \/ Destroyed(c)
         \/ client'[c] \in {client[c], "waitcheck"} /\ at'[c] = at[c]
<1>10. ASSUME NEW d \in Clients, ClientStep(d) \/ SpuriousWaiter(d)
       PROVE  Quietly
  BY <1>3, <1>10
<1>11. ASSUME NEW t \in Tasks, Cancel(t)
       PROVE  Quietly
  BY <1>7, <1>11
<1>12. ASSUME UNCHANGED vars
       PROVE  Quietly
  BY <1>8, <1>12
<1>13. ASSUME NEW w \in Threads, WorkerStep(w) \/ SpuriousWake(w)
       PROVE  Quietly
  BY <1>9, <1>13
<1> HIDE DEF Quietly
<1>14. Quietly
  <2>1. ~ \E d \in Clients, t \in Tasks : Start(d, t) \/ TryStart(d, t)
    BY <1>1
  <2>2. /\ ~ \E n \in ReserveSizes : Reserve(n)
        /\ ~ \E d \in Waiters : Wait(d)
        /\ ~ \E d \in Stoppers : Stop(d)
        /\ ~ \E d \in Destroyers : Destroy(d)
    BY <1>1, <1>2, PoolAssumption
  <2> QED BY <2>1, <2>2, <1>10, <1>11, <1>12, <1>13 DEF Next
<1> QED BY <1>14, Zenon DEF Quietly

\* The destructor goes past a thread only when it has exited: the threads
\* stopped before have, as no other client is joining one.
LEMMA DestroyerDoneStep ==
  ASSUME PoolInv, StopInv, [Next]_vars
  PROVE  DestroyerDone'
<1> USE PoolAssumption DEF PoolInv, TypeOK, threadVars, clientVars
<1>1. DestroyerAlone /\ StoppedExits /\ DestroyerDone /\ DestroyerAlone'
  BY DestroyerAloneStep DEF StopInv
<1> SUFFICES ASSUME NEW c \in Clients, destroyer' = c
             PROVE  /\ client'[c] \in {"waited", "stopping", "telling", "joining", "destroyed"} => stopped' \/ idle'
                    /\ client'[c] \in {"stopping", "telling", "joining", "destroyed"} =>
                         \A w \in 1 .. at'[c] - 1 : worker'[w] = "exited"
                    /\ client'[c] = "destroyed" => at'[c] > size'
  BY DEF DestroyerDone
<1>2. CASE destroyer # c
  <2>1. PICK d \in Clients : Destroy(d)
    BY <1>2 DEF Next, ClientStep, WorkerStep, vars, Start, TryStart, Cancel, Reserve, Wait, Stop,
         TryAvailable, StartThrows, AddBehind, AddActivate, PublishStart, WaitCheck, SpuriousWaiter,
         Waited, FindUnstopped, StopThread, SkipThread, Joined, JoinThrows, StopDone, Destroyed,
         Check, SpuriousWake, Run,
         NextOwn, NextStolen, NextNone, PublishBusy, PublishIdle
  <2> QED BY <2>1 DEF Destroy, BeginWait
<1>3. CASE destroyer = c
  <2>1. /\ size' = size /\ stopped' = stopped /\ (idle => idle')
        /\ \/ WaitCheck(c) \/ Waited(c)
           \/ FindUnstopped(c) \/ StopThread(c) \/ SkipThread(c) \/ Joined(c) \/ Destroyed(c)
           \/ client'[c] \in {client[c], "waitcheck"} /\ at'[c] = at[c]
    BY <1>3, DestroyerKeeps
  <2>2. \A w \in Threads : worker[w] = "exited" => worker'[w] = "exited"
    <3>1. ASSUME NEW d \in Clients, StopThread(d) \/ SkipThread(d) \/ Joined(d) \/ JoinThrows(d)
          PROVE  \A w \in Threads : worker[w] = "exited" => worker'[w] = "exited"
      BY <3>1 DEF StopThread, SkipThread, Joined, JoinThrows, Wake
    <3> QED BY <3>1, StoppingOrNot DEF Unstopping
  <2>3. at[c] \in Nat /\ at[c] <= MaxThreads + 1 /\ size \in Nat /\ size <= MaxThreads
    OBVIOUS
  <2>11. client[c] \in {"waited", "stopping", "telling", "joining", "destroyed"} => stopped' \/ idle'
    BY <1>1, <1>3, <2>1, Zenon DEF DestroyerDone
  <2>4. CASE WaitCheck(c)
    BY <2>1, <2>4 DEF WaitCheck
  <2>5. CASE Waited(c)
    BY <1>1, <1>3, <2>1, <2>5 DEF Waited, DestroyerDone
  <2>6. CASE StopThread(c)
    BY <1>1, <1>3, <2>1, <2>2, <2>3, <2>6 DEF StopThread, DestroyerDone, Threads
  <2>12. CASE FindUnstopped(c)
    BY <1>1, <1>3, <2>1, <2>2, <2>3, <2>12 DEF FindUnstopped, DestroyerDone, Threads
  <2>7. CASE SkipThread(c)
    <3>1. worker[at[c]] = "exited"
      <4>1. at[c] \in Threads /\ threadStopped[at[c]] /\ client[c] = "stopping"
        BY <2>3, <2>7 DEF SkipThread, Threads
      <4>2. ~ \E d \in Clients : client[d] = "joining"
        BY <1>1, <1>3, <4>1 DEF DestroyerAlone
      <4> QED BY <1>1, <4>1, <4>2 DEF StoppedExits
    <3>2. /\ client' = client /\ client[c] = "stopping" /\ at'[c] = at[c] + 1
          /\ worker' = worker
      BY <2>7 DEF SkipThread
    <3>3. \A w \in 1 .. at[c] - 1 : worker[w] = "exited"
      BY <1>1, <1>3, <3>2 DEF DestroyerDone
    <3>4. \A w \in 1 .. at'[c] - 1 : worker'[w] = "exited"
      BY <2>3, <3>1, <3>2, <3>3
    <3>5. stopped' \/ idle'
      BY <2>11, <3>2
    <3> QED BY <3>2, <3>4, <3>5
  <2>8. CASE Joined(c)
    <3>1. /\ client[c] = "joining" /\ client'[c] = "stopping" /\ at'[c] = at[c] + 1
          /\ worker' = worker /\ worker[at[c]] = "exited"
      BY <2>8 DEF Joined
    <3>2. \A w \in 1 .. at[c] - 1 : worker[w] = "exited"
      BY <1>1, <1>3, <3>1 DEF DestroyerDone
    <3>3. \A w \in 1 .. at'[c] - 1 : worker'[w] = "exited"
      BY <2>3, <3>1, <3>2
    <3>4. stopped' \/ idle'
      BY <2>11, <3>1
    <3> QED BY <3>1, <3>3, <3>4
  <2>9. CASE Destroyed(c)
    BY <1>1, <1>3, <2>1, <2>9 DEF Destroyed, DestroyerDone
  <2>10. CASE client'[c] \in {client[c], "waitcheck"} /\ at'[c] = at[c]
    <3>1. ASSUME client'[c] = client[c], client[c] \in {"stopping", "telling", "joining", "destroyed"},
                 NEW w \in 1 .. at[c] - 1
          PROVE  worker'[w] = "exited"
      <4>1. w \in Threads /\ worker[w] = "exited"
        BY <1>1, <1>3, <2>3, <3>1 DEF DestroyerDone, Threads
      <4> QED BY <2>2, <4>1
    <3>2. client'[c] \in {"waited", "stopping", "telling", "joining", "destroyed"} => stopped' \/ idle'
      BY <2>10, <2>11
    <3>3. client'[c] = "destroyed" => at'[c] > size'
      <4>1. client[c] = "destroyed" => at[c] > size
        BY <1>1, <1>3 DEF DestroyerDone
      <4> QED BY <2>1, <2>10, <4>1
    <3> QED BY <2>10, <3>1, <3>2, <3>3
  <2> QED BY <2>1, <2>4, <2>5, <2>6, <2>7, <2>8, <2>9, <2>10, <2>12
<1> QED BY <1>2, <1>3

\* Nobody has called stop() at the start.
LEMMA InitStopInv == Init => StopInv
BY PoolAssumption DEF Init, StopInv, DestroyerAlone, StoppedExits, DestroyerDone

\* What stop() and the destructor rely on holds in every state.
THEOREM StopInvariant == Spec => [](PoolInv /\ StopInv)
<1>1. Init => PoolInv /\ StopInv
  BY InitPoolInv, InitStopInv
<1>2. PoolInv /\ StopInv /\ [Next]_vars => (PoolInv /\ StopInv)'
  BY NextPoolInv, StoppedExitsStep, DestroyerAloneStep, DestroyerDoneStep DEF PoolInv, StopInv
<1> QED BY <1>1, <1>2, PTL DEF Spec

\* While the destructor runs nobody is handing over a task: what iIdle says is
\* then true of the tasks accepted.
LEMMA DestroyedIsClean == PoolInv /\ StopInv => DestroyedClean
<1> SUFFICES ASSUME PoolInv, StopInv, NEW c \in Clients, client[c] = "destroyed"
             PROVE  /\ \A w \in Existing : worker[w] = "exited"
                    /\ ~stopped => ToSet(accepted) \subseteq finished
  BY DEF DestroyedClean
<1>1. destroyer = c /\ at[c] > size
  BY DEF StopInv, DestroyerAlone, DestroyerDone
<1>2. \A w \in Existing : worker[w] = "exited"
  BY <1>1 DEF StopInv, DestroyerDone, PoolInv, TypeOK, Existing
<1>3. ASSUME ~stopped PROVE ToSet(accepted) \subseteq finished
  <2>1. idle
    BY <1>1, <1>3 DEF StopInv, DestroyerDone
  <2>2. \A d \in Clients : client[d] # "publish"
    BY <1>1, PoolAssumption DEF StopInv, DestroyerAlone
  <2>3. \A w \in Threads : waiting[w] = <<>> /\ active[w] = None
    BY <2>1, <2>2 DEF PoolInv, IdleSound
  <2>4. Queued = {}
    BY <2>3, EmptyElements DEF Queued, PoolInv, TypeOK
  <2>5. Serving = {}
    BY <2>3 DEF Serving
  <2> QED BY <2>4, <2>5 DEF PoolInv, Kept
<1> QED BY <1>2, <1>3

\* With one client that calls stop(), and the destructor, which runs alone,
\* two never go through the threads at a time.
LEMMA OneAtATime ==
  ASSUME OneStopper, StopInv, OneStopping, NEW c \in Clients, NEW d \in Clients,
         client[c] \in {"stopping", "telling", "joining"}, client[d] \in {"stopping", "telling", "joining"}
  PROVE  c = d
<1>1. CASE destroyer = None
  BY <1>1, PoolAssumption DEF OneStopper, OneStopping
<1>2. CASE destroyer # None
  BY <1>2 DEF StopInv, DestroyerAlone
<1> QED BY <1>1, <1>2

\* With one stopper a single client at a time goes through the threads.
LEMMA OneStoppingStep ==
  ASSUME OneStopper, PoolInv, StopInv, OneStopping, [Next]_vars
  PROVE  OneStopping'
<1> USE PoolAssumption DEF PoolInv, TypeOK, threadVars, clientVars
<1>1. ASSUME NEW c \in Clients, client'[c] \in {"stopping", "telling", "joining"}
      PROVE  c \in Stoppers \/ c = destroyer'
  <2>1. \/ client[c] \in {"stopping", "telling", "joining"}
        \/ Stop(c) /\ c \in Stoppers
        \/ destroyer = c
    <3> USE <1>1
    <3>1. ASSUME NEW d \in Clients, StopDone(d) PROVE client[c] \in {"stopping", "telling", "joining"}
      BY <3>1, StopDoneWakes
    <3>2. ASSUME NEW w \in Threads, PublishIdle(w) PROVE client[c] \in {"stopping", "telling", "joining"}
      BY <3>2, NotifyOnlyWakes DEF PublishIdle
    <3>3. ASSUME NEW d \in Clients, Waited(d)
          PROVE client[c] \in {"stopping", "telling", "joining"} \/ destroyer = c
      BY <3>3 DEF Waited
    <3>4. ASSUME NEW d \in Clients,
                 FindUnstopped(d) \/ StopThread(d) \/ SkipThread(d) \/ Joined(d) \/ JoinThrows(d)
                   \/ Destroyed(d)
          PROVE  client[c] \in {"stopping", "telling", "joining"}
      BY <3>4 DEF FindUnstopped, StopThread, SkipThread, Joined, JoinThrows, Destroyed
    <3>5. ASSUME NEW d \in Clients, TryAvailable(d) \/ StartThrows(d) \/ AddBehind(d) \/
                 AddActivate(d) \/ PublishStart(d) \/ WaitCheck(d) \/ SpuriousWaiter(d)
          PROVE  client[c] \in {"stopping", "telling", "joining"}
      BY <3>5 DEF TryAvailable, StartThrows, AddBehind, AddActivate, PublishStart, WaitCheck, SpuriousWaiter
    <3>6. ASSUME NEW d \in Clients, NEW t \in Tasks,
                 Start(d, t) \/ TryStart(d, t)
          PROVE  client[c] \in {"stopping", "telling", "joining"}
      BY <3>6 DEF Start, TryStart
    <3>7. ASSUME NEW d \in Clients, Wait(d) \/ Destroy(d)
          PROVE  client[c] \in {"stopping", "telling", "joining"}
      BY <3>7 DEF Wait, Destroy, BeginWait
    <3>8. ASSUME NEW d \in Stoppers, Stop(d)
          PROVE  client[c] \in {"stopping", "telling", "joining"} \/ (Stop(c) /\ c \in Stoppers)
      BY <3>8 DEF Stop
    <3>9. ASSUME NEW w \in Threads, WorkerStep(w) \/ SpuriousWake(w), ~PublishIdle(w)
          PROVE  client[c] \in {"stopping", "telling", "joining"}
      BY <3>9 DEF WorkerStep, SpuriousWake, Check, Run, NextOwn, NextStolen, NextNone, PublishBusy
    <3>10. ASSUME NEW t \in Tasks, Cancel(t) PROVE client[c] \in {"stopping", "telling", "joining"}
      BY <3>10 DEF Cancel
    <3>11. ASSUME NEW n \in ReserveSizes, Reserve(n) PROVE client[c] \in {"stopping", "telling", "joining"}
      BY <3>11 DEF Reserve
    <3>12. CASE UNCHANGED vars
      BY <3>12 DEF vars
    <3> QED BY <3>1, <3>2, <3>3, <3>4, <3>5, <3>6, <3>7, <3>8, <3>9, <3>10, <3>11, <3>12
            DEF Next, ClientStep
  <2>2. destroyer = c => destroyer' = c
    BY DestroyerKeeps
  <2> QED BY <2>1, <2>2 DEF OneStopping
<1>2. ASSUME NEW c \in Clients, NEW w \in 1 .. at'[c] - 1
      PROVE  worker'[w] = "exited"
  <2>1. /\ \A v \in 1 .. at[c] - 1 : v \in Threads /\ worker[v] = "exited"
        /\ at[c] \in Nat
    BY DEF OneStopping, StopQuiesces, Threads
  <2>2. CASE Unstopping
    <3>1. at'[c] \in {at[c], 1}
      BY <2>2 DEF Unstopping
    <3>2. w \in 1 .. at[c] - 1
      BY <2>1, <3>1
    <3> QED BY <2>1, <2>2, <3>2 DEF Unstopping
  <2>3. ASSUME NEW d \in Clients, StopThread(d)
        PROVE  worker'[w] = "exited"
    <3>1. at' = at /\ \A v \in Threads : worker[v] = "exited" => worker'[v] = "exited"
      BY <2>3 DEF StopThread, Wake
    <3> QED BY <2>1, <3>1
  <2>4. ASSUME NEW d \in Clients, SkipThread(d) \/ Joined(d)
        PROVE  worker'[w] = "exited"
    <3>1. worker[at[d]] = "exited"
      <4>1. CASE Joined(d)
        BY <4>1 DEF Joined
      <4>2. CASE SkipThread(d)
        <5>1. at[d] \in Threads /\ threadStopped[at[d]] /\ client[d] = "stopping"
          BY <4>2 DEF SkipThread, Threads
        <5>2. ~ \E e \in Clients : client[e] = "joining"
          BY <5>1, OneAtATime
        <5> QED BY <5>1, <5>2 DEF StopInv, StoppedExits
      <4> QED BY <2>4, <4>1, <4>2
    <3>2. worker' = worker /\ at' = [at EXCEPT ![d] = @ + 1]
      BY <2>4 DEF SkipThread, Joined
    <3>3. w \in 1 .. at[c] - 1 \/ (c = d /\ w = at[d])
      BY <2>1, <3>2
    <3> QED BY <2>1, <3>1, <3>2, <3>3
  <2>5. ASSUME NEW d \in Clients, JoinThrows(d)
        PROVE  worker'[w] = "exited"
    <3>1. at' = at /\ worker' = worker
      BY <2>5 DEF JoinThrows
    <3> QED BY <2>1, <3>1
  <2> QED BY <2>2, <2>3, <2>4, <2>5, StoppingOrNot
<1> QED BY <1>1, <1>2 DEF OneStopping, StopQuiesces

\* If one client calls stop(), a thread that stop() or the destructor went
\* past has exited, and the destructor leaves no task undone.
THEOREM PoolQuiesces == OneStopper /\ Spec => []Quiescent
<1> SUFFICES ASSUME OneStopper
             PROVE  Spec => []Quiescent
  OBVIOUS
<1>1. Init => OneStopping
  BY PoolAssumption DEF Init, OneStopping, StopQuiesces
<1>2. PoolInv /\ StopInv /\ OneStopping /\ [Next]_vars => OneStopping'
  BY OneStoppingStep
<1>3. PoolInv /\ StopInv /\ OneStopping => Quiescent
  BY DestroyedIsClean DEF OneStopping, Quiescent
<1> QED BY <1>1, <1>2, <1>3, StopInvariant, PTL DEF Spec

\* However many call stop(), and whenever, as long as no two of them have
\* joined one thread, which is undefined: the destructor leaves no thread that
\* runs and, but for stop(), no task undone.
THEOREM DestructorIsClean == Spec => []DestroyedClean
<1> QED BY DestroyedIsClean, StopInvariant, PTL

----------------------------------------------------------------------------
(* Queues without repetitions                                              *)

\* A task that is not in the queue can go in without being there twice.
LEMMA InsertInjective ==
  ASSUME NEW q \in Seq(Tasks), NEW t \in Tasks, t \notin ToSet(q), IsInjective(q)
  PROVE  IsInjective(Insert(q, t))
<1> DEFINE k == UpperBound(q, Priority[t])
           r == Insert(q, t)
<1>1. /\ r \in Seq(Tasks) /\ Len(r) = Len(q) + 1 /\ Len(q) \in Nat
      /\ \A i \in 1 .. Len(r) : r[i] = IF i < k THEN q[i] ELSE IF i = k THEN t ELSE q[i - 1]
  BY InsertProperties, LenProperties
<1>2. k \in 1 .. Len(q) + 1
  BY UpperBoundExists, PriorityAssumption
<1>3. DOMAIN r = 1 .. Len(q) + 1 /\ DOMAIN q = 1 .. Len(q)
  BY <1>1, LenProperties
<1>4. /\ \A i \in 1 .. Len(q) : q[i] # t
      /\ \A i, j \in 1 .. Len(q) : q[i] = q[j] => i = j
  BY <1>3 DEF IsInjective, ToSet
<1> HIDE DEF k, r
<1>5. ASSUME NEW i \in 1 .. Len(q) + 1, NEW j \in 1 .. Len(q) + 1, r[i] = r[j]
      PROVE  i = j
  <2>1. /\ r[i] = IF i < k THEN q[i] ELSE IF i = k THEN t ELSE q[i - 1]
        /\ r[j] = IF j < k THEN q[j] ELSE IF j = k THEN t ELSE q[j - 1]
    BY <1>1
  <2>2. /\ i < k => i \in 1 .. Len(q)
        /\ j < k => j \in 1 .. Len(q)
        /\ i > k => i - 1 \in 1 .. Len(q)
        /\ j > k => j - 1 \in 1 .. Len(q)
    BY <1>1, <1>2
  <2>3. i \in Int /\ j \in Int /\ k \in Int
    BY <1>1, <1>2
  <2>4. CASE i = k \/ j = k
    <3>1. ASSUME i = k, j # k PROVE r[j] # t /\ r[i] = t
      BY <1>4, <2>1, <2>2, <2>3, <3>1
    <3>2. ASSUME j = k, i # k PROVE r[i] # t /\ r[j] = t
      BY <1>4, <2>1, <2>2, <2>3, <3>2
    <3> QED BY <1>5, <2>4, <3>1, <3>2
  <2>5. CASE i < k /\ j < k
    BY <1>4, <1>5, <2>1, <2>2, <2>5
  <2>6. CASE i > k /\ j > k
    <3>1. r[i] = q[i - 1] /\ r[j] = q[j - 1]
      BY <2>1, <2>3, <2>6
    <3>2. i - 1 = j - 1
      BY <1>4, <1>5, <2>2, <2>6, <3>1
    <3> QED BY <2>3, <3>2
  <2>7. CASE (i < k /\ j > k) \/ (i > k /\ j < k)
    <3>1. CASE i < k /\ j > k
      <4>1. r[i] = q[i] /\ r[j] = q[j - 1]
        BY <2>1, <2>3, <3>1
      <4>2. i = j - 1
        BY <1>4, <1>5, <2>2, <3>1, <4>1
      <4> QED BY <2>3, <3>1, <4>2
    <3>2. CASE i > k /\ j < k
      <4>1. r[i] = q[i - 1] /\ r[j] = q[j]
        BY <2>1, <2>3, <3>2
      <4>2. i - 1 = j
        BY <1>4, <1>5, <2>2, <3>2, <4>1
      <4> QED BY <2>3, <3>2, <4>2
    <3> QED BY <2>7, <3>1, <3>2
  <2> QED BY <2>3, <2>4, <2>5, <2>6, <2>7
<1> QED BY <1>3, <1>5 DEF IsInjective, r

\* The task at the front is gone from the rest of the queue.
LEMMA HeadTailInjective ==
  ASSUME NEW S, NEW q \in Seq(S), q # <<>>, IsInjective(q)
  PROVE  Head(q) \notin ToSet(Tail(q)) /\ IsInjective(Tail(q))
<1>1. /\ Len(q) \in Nat \ {0} /\ DOMAIN q = 1 .. Len(q)
      /\ Tail(q) \in Seq(S) /\ Len(Tail(q)) = Len(q) - 1
      /\ \A i \in 1 .. Len(q) - 1 : Tail(q)[i] = q[i + 1]
  BY HeadTailProperties, LenProperties, EmptySeq
<1>2. DOMAIN Tail(q) = 1 .. Len(q) - 1 /\ Head(q) = q[1]
  BY <1>1, LenProperties
<1>3. \A i, j \in 1 .. Len(q) : q[i] = q[j] => i = j
  BY <1>1 DEF IsInjective
<1>4. \A i \in 1 .. Len(q) - 1 : i + 1 \in 1 .. Len(q) /\ Tail(q)[i] # q[1]
  BY <1>1, <1>3
<1>5. ASSUME NEW i \in 1 .. Len(q) - 1, NEW j \in 1 .. Len(q) - 1, Tail(q)[i] = Tail(q)[j]
      PROVE  i = j
  BY <1>1, <1>3, <1>4, <1>5
<1> QED BY <1>2, <1>4, <1>5 DEF IsInjective, ToSet

----------------------------------------------------------------------------
(* What the pool does to its tasks, in five ways.  Only the first thread   *)
(* has a queue.                                                            *)

Same == UNCHANGED <<active, waiting, accepted, finished>>

\* Task t, which is new, goes behind those that wait.
Joins(t) ==
  /\ t \in Tasks /\ t \notin ToSet(accepted) /\ 1 \in Threads
  /\ Existing # {} /\ \A w \in Existing : active[w] # None
  /\ accepted' = Append(accepted, t)
  /\ waiting' = [waiting EXCEPT ![1] = Insert(@, t)]
  /\ UNCHANGED <<active, finished>>

\* Task t, which is new, is given to thread w.
Begins(t, w) ==
  /\ t \in Tasks /\ t \notin ToSet(accepted)
  /\ w \in Existing /\ active[w] = None
  /\ accepted' = Append(accepted, t)
  /\ active' = [active EXCEPT ![w] = t]
  /\ UNCHANGED <<waiting, finished>>

\* Thread w ends its task and gets the next one.
GoesOn(w) ==
  /\ w \in Threads /\ 1 \in Threads /\ active[w] \in Tasks /\ waiting[1] # <<>>
  /\ finished' = finished \cup {active[w]}
  /\ active' = [active EXCEPT ![w] = Head(waiting[1])]
  /\ waiting' = [waiting EXCEPT ![1] = Tail(@)]
  /\ UNCHANGED accepted

\* Thread w ends its task, and there is none that waits.
Rests(w) ==
  /\ w \in Threads /\ active[w] \in Tasks /\ Queued = {}
  /\ finished' = finished \cup {active[w]}
  /\ active' = [active EXCEPT ![w] = None]
  /\ UNCHANGED <<waiting, accepted>>

\* A step of the pool moves at most one task: into the queue, to a thread or away.
LEMMA Moves ==
  ASSUME TypeOK, ControlOK, FirstHasQueue, HandedOver, [Next]_vars
  PROVE  \/ Same
         \/ \E t \in Tasks : Joins(t) \/ \E w \in Threads : Begins(t, w)
         \/ \E w \in Threads : GoesOn(w) \/ Rests(w)
<1>1. CASE Quiet
  BY <1>1 DEF Quiet, Same
<1>2. ASSUME NEW c \in Clients, AddBehind(c)
      PROVE  Joins(task[c])
  <2>1. Target \in Existing /\ Target = 1 /\ 1 \in Threads
        /\ \A w \in Existing : active[w] # None
    BY <1>2, TargetProperties DEF AddBehind
  <2>2. task[c] \in Tasks /\ task[c] \notin ToSet(accepted)
    BY <1>2 DEF AddBehind, ControlOK, TypeOK, HandedOver
  <2> QED BY <1>2, <2>1, <2>2 DEF AddBehind, Joins
<1>3. ASSUME NEW c \in Clients, AddActivate(c)
      PROVE  Begins(task[c], Target) /\ Target \in Threads /\ task[c] \in Tasks
  <2>1. Target \in Existing /\ task[c] \notin ToSet(accepted)
    BY <1>3, TargetProperties DEF AddActivate, HandedOver
  <2> QED BY <1>3, <2>1, ActivateEffect DEF AddActivate, Begins
<1>4. ASSUME NEW w \in Threads, NextOwn(w)
      PROVE  GoesOn(w)
  <2>1. w = 1 /\ active[w] \in Tasks
    BY <1>4 DEF NextOwn, FirstHasQueue, TypeOK, ControlOK
  <2> QED BY <1>4, <2>1 DEF NextOwn, GoesOn, PopFront
<1>5. ASSUME NEW w \in Threads, NextStolen(w)
      PROVE  GoesOn(w)
  <2>1. Victim(w) = 1 /\ 1 \in Threads /\ waiting[1] # <<>>
    BY <1>5, VictimProperties DEF NextStolen, FirstHasQueue
  <2>2. active[w] \in Tasks
    BY <1>5 DEF NextStolen, TypeOK, ControlOK
  <2> QED BY <1>5, <2>1, <2>2 DEF NextStolen, GoesOn, PopFront
<1>6. ASSUME NEW w \in Threads, NextNone(w)
      PROVE  Rests(w)
  <2>1. active[w] \in Tasks
    BY <1>6 DEF NextNone, TypeOK, ControlOK
  <2>2. \A v \in Threads : v \in Existing \/ v > size
    BY PoolAssumption DEF TypeOK, Existing, Threads
  <2>3. \A v \in Threads : waiting[v] = <<>>
    BY <1>6, <2>2 DEF NextNone, Victims, ControlOK
  <2>4. Queued = {}
    BY <2>3, EmptyElements DEF Queued, TypeOK
  <2> QED BY <1>6, <2>1, <2>4 DEF NextNone, Rests
<1>7. ASSUME NEW c \in Clients, PublishStart(c)
      PROVE  Same
  BY <1>7 DEF PublishStart, Same, threadVars, history
<1>8. ASSUME NEW w \in Threads, PublishBusy(w) \/ PublishIdle(w)
      PROVE  Same
  BY <1>8 DEF PublishBusy, PublishIdle, Same, history
<1>9. \A c \in Clients : AddBehind(c) => task[c] \in Tasks
  BY DEF AddBehind, ControlOK, TypeOK
<1> QED BY <1>1, <1>2, <1>3, <1>4, <1>5, <1>6, <1>7, <1>8, <1>9, LoudOrQuiet DEF Loud

----------------------------------------------------------------------------
(* Every task is in one place.                                             *)

\* The first thread's queue is the only one with tasks.
LEMMA QueuedIsFirst ==
  ASSUME FirstHasQueue, 1 \in Threads
  PROVE  Queued = ToSet(waiting[1])
<1>1. \A w \in Threads : w # 1 => ToSet(waiting[w]) = {}
  BY DEF FirstHasQueue, ToSet
<1> QED BY <1>1 DEF Queued

\* TaskAccounted, of the queue and the threads.
Placed(q, act, acc, fin) ==
  /\ ToSet(acc) = ToSet(q) \cup ({act[w] : w \in Threads} \ {None}) \cup fin
  /\ \A w \in Threads : act[w] = None \/ act[w] \notin ToSet(q) \cup fin
  /\ ToSet(q) \cap fin = {}
  /\ \A w, v \in Threads : w # v /\ act[w] = act[v] => act[w] = None
  /\ IsInjective(q)

\* TaskAccounted speaks of the first thread's queue alone.
LEMMA AccountedIsPlaced ==
  FirstHasQueue /\ TypeOK /\ 1 \in Threads
    => (TaskAccounted <=> Placed(waiting[1], active, accepted, finished))
<1> SUFFICES ASSUME FirstHasQueue, TypeOK, 1 \in Threads
             PROVE  TaskAccounted <=> Placed(waiting[1], active, accepted, finished)
  OBVIOUS
<1>1. Queued = ToSet(waiting[1])
  BY QueuedIsFirst
<1>2. \A w, v \in Threads : w # v => ToSet(waiting[w]) \cap ToSet(waiting[v]) = {}
  BY DEF FirstHasQueue, ToSet
<1>3. \A w \in Threads : w # 1 => IsInjective(waiting[w])
  BY DEF FirstHasQueue, IsInjective
<1>4. Queued \cap Serving = {} /\ finished \cap (Queued \cup Serving) = {} <=>
        /\ \A w \in Threads : active[w] = None \/ active[w] \notin ToSet(waiting[1]) \cup finished
        /\ ToSet(waiting[1]) \cap finished = {}
  <2>1. None \notin Queued \cup finished
    BY <1>1, PoolAssumption, ElementOfSeq, LenProperties DEF TypeOK, ToSet
  <2> QED BY <1>1, <2>1 DEF Serving
<1> QED BY <1>1, <1>2, <1>3, <1>4 DEF TaskAccounted, Placed, Serving

\* A task that moves is again at one place.
LEMMA PlacedStep ==
  ASSUME TypeOK, FirstHasQueue, 1 \in Threads,
         Placed(waiting[1], active, accepted, finished),
         \/ \E t \in Tasks : Joins(t) \/ \E w \in Threads : Begins(t, w)
         \/ \E w \in Threads : GoesOn(w) \/ Rests(w)
  PROVE  Placed(waiting[1], active, accepted, finished)'
<1> DEFINE q == waiting[1]
<1>1. q \in Seq(Tasks) /\ accepted \in Seq(Tasks) /\ IsInjective(q)
      /\ active \in [Threads -> Tasks \cup {None}] /\ None \notin Tasks
  BY PoolAssumption DEF TypeOK, Placed
<1>2. ASSUME NEW t \in Tasks, Joins(t)
      PROVE  Placed(waiting[1], active, accepted, finished)'
  <2>1. t \notin ToSet(q)
    BY <1>2 DEF Joins, Placed
  <2>2. /\ waiting'[1] = Insert(q, t) /\ active' = active /\ finished' = finished
        /\ accepted' = Append(accepted, t)
    BY <1>2 DEF Joins, TypeOK
  <2>3. ToSet(Insert(q, t)) = ToSet(q) \cup {t} /\ IsInjective(Insert(q, t))
    BY <1>1, <2>1, InsertElements, InsertInjective
  <2>4. ToSet(accepted') = ToSet(accepted) \cup {t}
    BY <1>1, <2>2, AppendElements
  <2>5. t \notin finished /\ \A w \in Threads : active[w] # t
    BY <1>1, <1>2 DEF Joins, Placed
  <2> QED BY <2>2, <2>3, <2>4, <2>5 DEF Placed
<1>3. ASSUME NEW t \in Tasks, NEW v \in Threads, Begins(t, v)
      PROVE  Placed(waiting[1], active, accepted, finished)'
  <2>1. t \notin ToSet(q) /\ t \notin finished /\ \A w \in Threads : active[w] # t
    BY <1>1, <1>3 DEF Begins, Placed
  <2>2. /\ waiting' = waiting /\ finished' = finished /\ accepted' = Append(accepted, t)
        /\ active[v] = None
        /\ \A w \in Threads : active'[w] = IF w = v THEN t ELSE active[w]
    BY <1>1, <1>3 DEF Begins
  <2>3. ToSet(accepted') = ToSet(accepted) \cup {t}
    BY <1>1, <2>2, AppendElements
  <2>4. {active'[w] : w \in Threads} \ {None} = ({active[w] : w \in Threads} \ {None}) \cup {t}
    BY <1>1, <2>2
  <2> QED BY <1>1, <2>1, <2>2, <2>3, <2>4 DEF Placed
<1>4. ASSUME NEW v \in Threads, GoesOn(v)
      PROVE  Placed(waiting[1], active, accepted, finished)'
  <2> DEFINE h == Head(q)
             a == active[v]
  <2>1. /\ q # <<>> /\ a \in Tasks /\ waiting'[1] = Tail(q)
        /\ accepted' = accepted /\ finished' = finished \cup {a}
        /\ \A w \in Threads : active'[w] = IF w = v THEN h ELSE active[w]
    BY <1>1, <1>4 DEF GoesOn, TypeOK
  <2>2. /\ ToSet(q) = {h} \cup ToSet(Tail(q)) /\ h \notin ToSet(Tail(q)) /\ h \in Tasks
        /\ IsInjective(Tail(q))
    BY <1>1, <2>1, HeadTailElements, HeadTailInjective, HeadTailProperties
  <2> HIDE DEF q, h, a
  <2>3. a \notin ToSet(q) /\ a \notin finished /\ h \notin finished
        /\ \A w \in Threads : active[w] # h
    BY <1>1, <2>1, <2>2 DEF Placed, q, a
  <2>4. \A w \in Threads : w # v => active[w] # a
    BY <1>1, <2>1 DEF Placed, a
  <2>5. {active'[w] : w \in Threads} \ {None} = (({active[w] : w \in Threads} \ {None}) \ {a}) \cup {h}
    BY <1>1, <2>1, <2>2, <2>3, <2>4 DEF a
  <2>6. a \in {active[w] : w \in Threads} \ {None}
    BY <1>1, <2>1 DEF a
  <2>7. ToSet(accepted') = ToSet(waiting'[1]) \cup ({active'[w] : w \in Threads} \ {None}) \cup finished'
    BY <2>1, <2>2, <2>3, <2>5, <2>6 DEF Placed, q
  <2>8. \A w \in Threads : active'[w] = None \/ active'[w] \notin ToSet(waiting'[1]) \cup finished'
    BY <2>1, <2>2, <2>3, <2>4 DEF Placed, q
  <2>9. ToSet(waiting'[1]) \cap finished' = {}
    BY <2>1, <2>2, <2>3 DEF Placed, q
  <2>10. \A w, u \in Threads : w # u /\ active'[w] = active'[u] => active'[w] = None
    BY <2>1, <2>3 DEF Placed
  <2> QED BY <2>1, <2>2, <2>7, <2>8, <2>9, <2>10 DEF Placed
<1>5. ASSUME NEW v \in Threads, Rests(v)
      PROVE  Placed(waiting[1], active, accepted, finished)'
  <2> DEFINE a == active[v]
  <2>1. /\ a \in Tasks /\ waiting' = waiting /\ ToSet(q) = {}
        /\ accepted' = accepted /\ finished' = finished \cup {a}
        /\ \A w \in Threads : active'[w] = IF w = v THEN None ELSE active[w]
    BY <1>1, <1>5, QueuedIsFirst DEF Rests
  <2>2. \A w \in Threads : w # v => active[w] # a
    BY <1>1, <2>1 DEF Placed
  <2>3. {active'[w] : w \in Threads} \ {None} = ({active[w] : w \in Threads} \ {None}) \ {a}
    BY <1>1, <2>1, <2>2
  <2>4. a \in {active[w] : w \in Threads} \ {None}
    BY <1>1, <2>1
  <2>5. ToSet(accepted') = ToSet(waiting'[1]) \cup ({active'[w] : w \in Threads} \ {None}) \cup finished'
    BY <2>1, <2>3, <2>4 DEF Placed
  <2>6. \A w \in Threads : active'[w] = None \/ active'[w] \notin ToSet(waiting'[1]) \cup finished'
    BY <2>1, <2>2 DEF Placed
  <2> QED BY <2>1, <2>5, <2>6 DEF Placed
<1> QED BY <1>2, <1>3, <1>4, <1>5

\* Each task stays accounted for.
LEMMA AccountedStep ==
  TypeOK /\ ControlOK /\ FirstHasQueue /\ HandedOver /\ TaskAccounted /\ [Next]_vars
    => TaskAccounted'
<1> SUFFICES ASSUME TypeOK, ControlOK, FirstHasQueue, HandedOver, TaskAccounted, [Next]_vars
             PROVE  TaskAccounted'
  OBVIOUS
<1>1. CASE Same
  BY <1>1 DEF Same, TaskAccounted, Queued, Serving
<1>2. CASE ~Same
  <2>1. \/ \E t \in Tasks : Joins(t) \/ \E w \in Threads : Begins(t, w)
        \/ \E w \in Threads : GoesOn(w) \/ Rests(w)
    BY <1>2, Moves
  <2>2. 1 \in Threads
    BY <2>1, PoolAssumption DEF Threads, Joins
  <2>3. FirstHasQueue' /\ TypeOK' /\ (1 \in Threads)'
    BY <2>2, FirstHasQueueStep, TypeStep DEF Threads
  <2>4. Placed(waiting[1], active, accepted, finished)
    BY <2>2, AccountedIsPlaced
  <2>5. Placed(waiting[1], active, accepted, finished)'
    BY <2>1, <2>2, <2>4, PlacedStep
  <2>6. (TaskAccounted <=> Placed(waiting[1], active, accepted, finished))'
    BY <2>3, AccountedIsPlaced, PTL
  <2> QED BY <2>5, <2>6
<1> QED BY <1>1, <1>2

----------------------------------------------------------------------------
(* Clients hand over tasks of their own.                                   *)

\* A task on its way into the pool is nobody else's.
LEMMA HandedOverStep ==
  TypeOK /\ ControlOK /\ FirstHasQueue /\ HandedOver /\ [Next]_vars => HandedOver'
<1> SUFFICES ASSUME TypeOK, ControlOK, FirstHasQueue, HandedOver, [Next]_vars
             PROVE  HandedOver'
  OBVIOUS
\* A step that accepts no task and begins no start() leaves fewer tasks on
\* their way.
<1> DEFINE Fewer ==
      /\ accepted' = accepted
      /\ \A c \in Clients :
           /\ task'[c] = task[c] \/ task'[c] = None
           /\ client'[c] \in {"trying", "starting"} =>
                client[c] \in {"trying", "starting"} /\ task'[c] = task[c]
<1>1. Fewer => HandedOver'
  BY DEF HandedOver
<1> USE DEF TypeOK, threadVars, clientVars, history
<1>2. ASSUME NEW c \in Clients, NEW t \in Tasks, Start(c, t) \/ TryStart(c, t)
      PROVE  HandedOver'
  <2>1. /\ t \notin ToSet(accepted) /\ \A d \in Clients : task[d] # t
        /\ task' = [task EXCEPT ![c] = t] /\ accepted' = accepted
        /\ \A d \in Clients : d # c => client'[d] = client[d]
    BY <1>2 DEF Start, TryStart, Taken
  <2> QED BY <2>1 DEF HandedOver
<1>3. ASSUME NEW c \in Clients, AddBehind(c) \/ AddActivate(c)
      PROVE  HandedOver'
  <2>1. /\ task[c] \in Tasks /\ task[c] # None /\ client'[c] \notin {"trying", "starting"}
        /\ accepted' = Append(accepted, task[c])
        /\ \A d \in Clients : task'[d] = task[d] \/ task'[d] = None
        /\ \A d \in Clients : d # c => client'[d] = client[d] /\ task'[d] = task[d]
    BY <1>3 DEF AddBehind, AddActivate, ControlOK
  <2>2. ToSet(accepted') = ToSet(accepted) \cup {task[c]}
    BY <2>1, AppendElements
  <2> QED BY <2>1, <2>2 DEF HandedOver
<1>4. ASSUME NEW c \in Clients,
             TryAvailable(c) \/ StartThrows(c) \/ PublishStart(c) \/ WaitCheck(c) \/ SpuriousWaiter(c)
               \/ Waited(c) \/ FindUnstopped(c) \/ StopThread(c) \/ SkipThread(c) \/ Joined(c)
               \/ JoinThrows(c) \/ Destroyed(c)
      PROVE  Fewer
  BY <1>4 DEF TryAvailable, StartThrows, PublishStart, WaitCheck, SpuriousWaiter, Waited,
              FindUnstopped, StopThread, SkipThread, Joined, JoinThrows, Destroyed
<1>5. ASSUME NEW c \in Clients, Wait(c) \/ Stop(c) \/ Destroy(c)
      PROVE  Fewer
  BY <1>5 DEF Wait, BeginWait, Stop, Destroy
<1>6. ASSUME NEW c \in Clients, StopDone(c)
      PROVE  Fewer
  <2> DEFINE pcs == [client EXCEPT ![c] = "ready"]
  <2>1. /\ pcs \in [Clients -> ClientPC] /\ client' \in Notify(pcs)
        /\ task' = task /\ accepted' = accepted
        /\ \A d \in Clients : pcs[d] = client[d] \/ pcs[d] = "ready"
    BY <1>6 DEF StopDone, ClientPC
  <2> HIDE DEF pcs
  <2>2. \A d \in Clients : client'[d] = pcs[d] \/ client'[d] = "waitcheck"
    BY <2>1, NotifyOnlyWakes
  <2> QED BY <2>1, <2>2
<1>7. ASSUME NEW w \in Threads, PublishIdle(w)
      PROVE  Fewer
  BY <1>7, NotifyOnlyWakes DEF PublishIdle
<1>8. ASSUME NEW w \in Threads,
             Check(w) \/ Run(w) \/ NextOwn(w) \/ NextStolen(w) \/ NextNone(w) \/ PublishBusy(w)
               \/ SpuriousWake(w)
      PROVE  Fewer
  BY <1>8 DEF Check, Run, NextOwn, NextStolen, NextNone, PublishBusy, SpuriousWake
<1>9. ASSUME NEW t \in Tasks, Cancel(t)
      PROVE  Fewer
  BY <1>9 DEF Cancel
<1>10. ASSUME NEW n \in ReserveSizes, Reserve(n)
       PROVE  Fewer
  BY <1>10 DEF Reserve
<1>11. CASE UNCHANGED vars
  BY <1>11 DEF vars, HandedOver
<1> HIDE DEF Fewer
<1> QED BY <1>1, <1>2, <1>3, <1>4, <1>5, <1>6, <1>7, <1>8, <1>9, <1>10, <1>11, PoolAssumption
        DEF Next, ClientStep, WorkerStep

----------------------------------------------------------------------------
(* Every task runs once.                                                   *)

\* No task begins or ends.
Still ==
  /\ runs' = runs /\ finished' = finished /\ cancelled \subseteq cancelled'
  /\ \A w \in Threads :
       /\ worker'[w] = "running" <=> worker[w] = "running"
       /\ worker[w] = "running" => active'[w] = active[w]

\* Thread w ends its task.
Ends(w) ==
  /\ worker[w] = "running" /\ worker'[w] # "running"
  /\ finished' = finished \cup {active[w]}
  /\ runs' = runs /\ cancelled' = cancelled
  /\ \A v \in Threads : v # w => worker'[v] = worker[v] /\ active'[v] = active[v]

\* A step begins or ends the run of at most one task.
LEMMA RunMoves ==
  ASSUME TypeOK, ControlOK, FirstHasQueue, [Next]_vars
  PROVE  Still \/ \E w \in Threads : Run(w) \/ Ends(w)
<1> USE DEF TypeOK, Still, threadVars, clientVars, history
<1>1. ASSUME NEW c \in Clients, NEW t \in Tasks, Start(c, t) \/ TryStart(c, t)
      PROVE  Still
  BY <1>1 DEF Start, TryStart
<1>2. ASSUME NEW c \in Clients,
             TryAvailable(c) \/ StartThrows(c) \/ PublishStart(c) \/ WaitCheck(c) \/ SpuriousWaiter(c)
               \/ Waited(c) \/ FindUnstopped(c) \/ SkipThread(c) \/ Joined(c) \/ JoinThrows(c)
               \/ StopDone(c) \/ Destroyed(c)
      PROVE  Still
  BY <1>2 DEF TryAvailable, StartThrows, PublishStart, WaitCheck, SpuriousWaiter, Waited,
              FindUnstopped, SkipThread, Joined, JoinThrows, StopDone, Destroyed
<1>3. ASSUME NEW c \in Clients, AddBehind(c) \/ StopThread(c)
      PROVE  Still
  BY <1>3 DEF AddBehind, StopThread, Wake
<1>4. ASSUME NEW c \in Clients, AddActivate(c)
      PROVE  Still
  <2>1. /\ Target \in Threads /\ active[Target] = None
        /\ active' = [active EXCEPT ![Target] = task[c]]
    BY <1>4, ActivateEffect
  <2>2. worker[Target] # "running"
    BY <2>1 DEF ControlOK
  <2> HIDE DEF TypeOK
  <2>3. /\ worker' = [worker EXCEPT ![Target] = Wake(@)] /\ worker \in [Threads -> WorkerPC]
        /\ active \in [Threads -> Tasks \cup {None}]
        /\ runs' = runs /\ finished' = finished /\ cancelled' = cancelled
    BY <1>4 DEF AddActivate, TypeOK
  <2> QED BY <2>1, <2>2, <2>3 DEF Wake
<1>5. ASSUME NEW c \in Clients, Wait(c) \/ Stop(c) \/ Destroy(c)
      PROVE  Still
  BY <1>5 DEF Wait, BeginWait, Stop, Destroy
<1>6. ASSUME NEW w \in Threads, NextOwn(w) \/ NextStolen(w) \/ NextNone(w)
      PROVE  Ends(w)
  BY <1>6 DEF NextOwn, NextStolen, NextNone, Ends
<1>7. ASSUME NEW w \in Threads, Check(w) \/ PublishBusy(w) \/ PublishIdle(w) \/ SpuriousWake(w)
      PROVE  Still
  BY <1>7 DEF Check, PublishBusy, PublishIdle, SpuriousWake
<1>8. ASSUME NEW t \in Tasks, Cancel(t)
      PROVE  Still
  BY <1>8 DEF Cancel
<1>9. ASSUME NEW n \in ReserveSizes, Reserve(n)
      PROVE  Still
  <2>1. size \in Nat /\ \A w \in Threads : w \in size + 1 .. Grown(n) => worker[w] = "none"
    BY <1>9, PoolAssumption DEF ControlOK, Grown, Threads
  <2> QED BY <1>9, <2>1 DEF Reserve
<1>10. CASE UNCHANGED vars
  BY <1>10 DEF vars
<1> HIDE DEF Still, TypeOK
<1> QED BY <1>1, <1>2, <1>3, <1>4, <1>5, <1>6, <1>7, <1>8, <1>9, <1>10, PoolAssumption
        DEF Next, ClientStep, WorkerStep

\* A task that has run does not run again.
LEMMA RunsStep ==
  /\ TypeOK /\ ControlOK /\ FirstHasQueue /\ TaskAccounted /\ RunsOnce /\ RunningBegan
  /\ [Next]_vars
  => RunsOnce' /\ RunningBegan'
<1> SUFFICES ASSUME TypeOK, ControlOK, FirstHasQueue, TaskAccounted, RunsOnce, RunningBegan,
                    [Next]_vars
             PROVE  RunsOnce' /\ RunningBegan'
  OBVIOUS
<1>1. CASE Still
  BY <1>1 DEF Still, RunsOnce, RunningBegan
<1>2. ASSUME NEW w \in Threads, Run(w)
      PROVE  RunsOnce' /\ RunningBegan'
  <2> DEFINE a == active[w]
  <2>1. /\ a \in Tasks /\ runs \in [Tasks -> Nat] /\ worker[w] = "claimed" /\ active' = active
        /\ finished' = finished /\ cancelled' = cancelled
        /\ worker'[w] = "running" /\ \A v \in Threads : v # w => worker'[v] = worker[v]
        /\ runs' = IF a \in cancelled THEN runs ELSE [runs EXCEPT ![a] = @ + 1]
    BY <1>2 DEF Run, TypeOK, ControlOK
  <2>2. a \notin finished /\ \A v \in Threads : active[v] = a => v = w
    BY <2>1, PoolAssumption DEF TaskAccounted, Serving
  <2>3. runs[a] = 0
    BY <2>1, <2>2 DEF RunsOnce
  <2>4. \A t \in Tasks : runs'[t] = IF t = a /\ a \notin cancelled THEN 1 ELSE runs[t]
    BY <2>1, <2>3
  <2>5. RunsOnce'
    BY <2>1, <2>2, <2>3, <2>4 DEF RunsOnce
  <2>6. ASSUME NEW v \in Threads, worker'[v] = "running"
        PROVE  runs'[active'[v]] = 1 \/ active'[v] \in cancelled'
    <3>1. CASE v = w
      BY <2>1, <2>4, <3>1
    <3>2. CASE v # w
      <4>1. worker[v] = "running" /\ active[v] \in Tasks /\ active[v] # a
        BY <2>1, <2>2, <2>6, <3>2 DEF TypeOK, ControlOK
      <4> QED BY <2>1, <2>4, <4>1 DEF RunningBegan
    <3> QED BY <3>1, <3>2
  <2> QED BY <2>5, <2>6 DEF RunningBegan
<1>3. ASSUME NEW w \in Threads, Ends(w)
      PROVE  RunsOnce' /\ RunningBegan'
  <2>1. RunningBegan'
    BY <1>3 DEF Ends, RunningBegan
  <2>2. active[w] \in Tasks /\ (runs[active[w]] = 1 \/ active[w] \in cancelled)
    BY <1>3 DEF Ends, RunningBegan, TypeOK, ControlOK
  <2>3. ASSUME NEW t \in Tasks, runs[t] = 1, t \notin finished'
        PROVE  \E v \in Threads : active'[v] = t /\ worker'[v] = "running"
    <3>1. PICK v \in Threads : active[v] = t /\ worker[v] = "running"
      BY <1>3, <2>3 DEF Ends, RunsOnce
    <3>2. v # w
      BY <1>3, <2>3, <3>1 DEF Ends
    <3> QED BY <1>3, <3>1, <3>2 DEF Ends
  <2>4. RunsOnce'
    BY <1>3, <2>2, <2>3 DEF Ends, RunsOnce
  <2> QED BY <2>1, <2>4
<1> QED BY <1>1, <1>2, <1>3, RunMoves

----------------------------------------------------------------------------
(* The first queue is in the order of one central queue.                   *)

\* InOrder, of a queue and the tasks accepted so far.
InOrderOf(q, acc) ==
  \A i, j \in 1 .. Len(q) : i < j =>
    \/ Priority[q[i]] > Priority[q[j]]
    \/ /\ Priority[q[i]] = Priority[q[j]]
       /\ \E k, l \in 1 .. Len(acc) : k < l /\ acc[k] = q[i] /\ acc[l] = q[j]

\* What is accepted later changes the order of nothing before.
LEMMA AppendKeepsOrder ==
  ASSUME NEW q \in Seq(Tasks), NEW acc \in Seq(Tasks), NEW t \in Tasks, InOrderOf(q, acc)
  PROVE  InOrderOf(q, Append(acc, t))
<1> DEFINE now == Append(acc, t)
           Goes(x, y) == \/ Priority[x] > Priority[y]
                         \/ /\ Priority[x] = Priority[y]
                            /\ \E m, n \in 1 .. Len(now) : m < n /\ now[m] = x /\ now[n] = y
<1>1. /\ Len(acc) \in Nat /\ Len(now) = Len(acc) + 1
      /\ \A i \in 1 .. Len(acc) : now[i] = acc[i]
  BY AppendProperties, LenProperties
<1> HIDE DEF now, Goes
<1>2. 1 .. Len(acc) \subseteq 1 .. Len(now)
  BY <1>1
<1>3. ASSUME NEW i \in 1 .. Len(q), NEW j \in 1 .. Len(q), i < j
      PROVE  Goes(q[i], q[j])
  <2>1. CASE Priority[q[i]] > Priority[q[j]]
    BY <2>1 DEF Goes
  <2>2. CASE ~ (Priority[q[i]] > Priority[q[j]])
    <3>1. Priority[q[i]] = Priority[q[j]]
      BY <1>3, <2>2 DEF InOrderOf
    <3>2. PICK k \in 1 .. Len(acc), l \in 1 .. Len(acc) : k < l /\ acc[k] = q[i] /\ acc[l] = q[j]
      BY <1>3, <2>2 DEF InOrderOf
    <3>3. k < l /\ now[k] = q[i] /\ now[l] = q[j]
      BY <1>1, <3>2
    <3>4. k \in 1 .. Len(now) /\ l \in 1 .. Len(now)
      BY <1>2
    <3> QED BY <3>1, <3>3, <3>4 DEF Goes
  <2> QED BY <2>1, <2>2
<1>4. InOrderOf(q, now)
  BY <1>3 DEF InOrderOf, Goes
<1> QED BY <1>4 DEF now

\* A task joins behind those of its priority, which were accepted before it.
LEMMA InsertInOrder ==
  ASSUME NEW q \in Seq(Tasks), NEW acc \in Seq(Tasks), NEW t \in Tasks,
         InOrderOf(q, acc), ToSet(q) \subseteq ToSet(acc)
  PROVE  InOrderOf(Insert(q, t), Append(acc, t))
<1> DEFINE k == UpperBound(q, Priority[t])
           r == Insert(q, t)
           now == Append(acc, t)
           Goes(x, y) == \/ Priority[x] > Priority[y]
                         \/ /\ Priority[x] = Priority[y]
                            /\ \E m, n \in 1 .. Len(now) : m < n /\ now[m] = x /\ now[n] = y
<1>1. /\ r \in Seq(Tasks) /\ Len(r) = Len(q) + 1 /\ Len(q) \in Nat
      /\ \A i \in 1 .. Len(r) : r[i] = IF i < k THEN q[i] ELSE IF i = k THEN t ELSE q[i - 1]
  BY InsertProperties, LenProperties
<1>2. /\ k \in 1 .. Len(q) + 1
      /\ \A i \in 1 .. k - 1 : Priority[q[i]] >= Priority[t]
      /\ k <= Len(q) => Priority[q[k]] < Priority[t]
  BY UpperBoundExists, PriorityAssumption
<1>3. /\ Priority[t] \in Int
      /\ \A i \in 1 .. Len(q) : q[i] \in Tasks /\ Priority[q[i]] \in Int
  BY PriorityAssumption, ElementOfSeq
<1>4. ASSUME NEW i \in 1 .. Len(q), NEW j \in 1 .. Len(q), i < j
      PROVE  Goes(q[i], q[j])
  BY <1>4, AppendKeepsOrder DEF InOrderOf
<1>5. ASSUME NEW i \in 1 .. Len(q), k <= i
      PROVE  Priority[t] > Priority[q[i]]
  <2>1. k \in 1 .. Len(q) /\ Priority[q[k]] < Priority[t]
    BY <1>1, <1>2, <1>5
  <2>2. i = k \/ Priority[q[k]] >= Priority[q[i]]
    BY <1>1, <1>3, <1>4, <1>5, <2>1
  <2> QED BY <1>3, <2>1, <2>2
<1>6. ASSUME NEW i \in 1 .. Len(q), i < k
      PROVE  Goes(q[i], t)
  <2>1. /\ Len(acc) \in Nat /\ Len(now) = Len(acc) + 1
        /\ \A m \in 1 .. Len(acc) : now[m] = acc[m]
        /\ now[Len(acc) + 1] = t
    BY AppendProperties, LenProperties
  <2>2. q[i] \in ToSet(acc)
    BY LenProperties DEF ToSet
  <2>3. PICK m \in 1 .. Len(acc) : acc[m] = q[i]
    BY <2>2, LenProperties DEF ToSet
  <2> HIDE DEF now
  <2>4. m \in 1 .. Len(now) /\ Len(now) \in 1 .. Len(now) /\ m < Len(now)
        /\ now[m] = q[i] /\ now[Len(now)] = t
    BY <2>1, <2>3
  <2>5. Priority[q[i]] >= Priority[t] /\ Priority[q[i]] \in Int
    BY <1>1, <1>2, <1>3, <1>6
  <2> QED BY <1>3, <2>4, <2>5
<1> HIDE DEF k, r, Goes
<1>7. ASSUME NEW i \in 1 .. Len(r), NEW j \in 1 .. Len(r), i < j
      PROVE  Goes(r[i], r[j])
  <2>1. /\ i \in Int /\ j \in Int /\ k \in Int
        /\ r[i] = IF i < k THEN q[i] ELSE IF i = k THEN t ELSE q[i - 1]
        /\ r[j] = IF j < k THEN q[j] ELSE IF j = k THEN t ELSE q[j - 1]
    BY <1>1, <1>2
  <2>2. /\ i < k => i \in 1 .. Len(q)
        /\ j < k => j \in 1 .. Len(q)
        /\ i > k => i - 1 \in 1 .. Len(q)
        /\ j > k => j - 1 \in 1 .. Len(q)
    BY <1>1, <1>2
  <2>3. CASE j < k
    <3>1. i < k /\ r[i] = q[i] /\ r[j] = q[j]
      BY <1>7, <2>1, <2>3
    <3> QED BY <1>4, <1>7, <2>2, <2>3, <3>1
  <2>4. CASE j = k
    <3>1. i < k /\ r[i] = q[i] /\ r[j] = t
      BY <1>7, <2>1, <2>4
    <3> QED BY <1>6, <2>2, <3>1
  <2>5. CASE j > k /\ i < k
    <3>1. r[i] = q[i] /\ r[j] = q[j - 1] /\ i < j - 1
      BY <2>1, <2>5
    <3> QED BY <1>4, <2>2, <2>5, <3>1
  <2>6. CASE j > k /\ i = k
    <3>1. r[i] = t /\ r[j] = q[j - 1] /\ k <= j - 1
      BY <2>1, <2>6
    <3> QED BY <1>5, <2>2, <2>6, <3>1 DEF Goes
  <2>7. CASE j > k /\ i > k
    <3>1. r[i] = q[i - 1] /\ r[j] = q[j - 1] /\ i - 1 < j - 1
      BY <1>7, <2>1, <2>7
    <3> QED BY <1>4, <2>2, <2>7, <3>1
  <2> QED BY <1>7, <2>1, <2>3, <2>4, <2>5, <2>6, <2>7
<1> QED BY <1>7 DEF InOrderOf, Goes, r

\* Taking the front leaves the others in order.
LEMMA TailInOrder ==
  ASSUME NEW q \in Seq(Tasks), NEW acc, q # <<>>, InOrderOf(q, acc)
  PROVE  InOrderOf(Tail(q), acc)
<1>1. /\ Len(q) \in Nat \ {0} /\ Len(Tail(q)) = Len(q) - 1
      /\ \A i \in 1 .. Len(q) - 1 : Tail(q)[i] = q[i + 1]
  BY HeadTailProperties, LenProperties, EmptySeq
<1>2. ASSUME NEW i \in 1 .. Len(q) - 1, NEW j \in 1 .. Len(q) - 1, i < j
      PROVE  i + 1 \in 1 .. Len(q) /\ j + 1 \in 1 .. Len(q) /\ i + 1 < j + 1
             /\ Tail(q)[i] = q[i + 1] /\ Tail(q)[j] = q[j + 1]
  BY <1>1, <1>2
<1> QED BY <1>1, <1>2 DEF InOrderOf


\* Each queue has the most urgent first, and those accepted earlier.
LEMMA InOrderStep ==
  /\ TypeOK /\ ControlOK /\ FirstHasQueue /\ HandedOver /\ TaskAccounted
  /\ (\A w \in Threads : InOrder(waiting[w])) /\ [Next]_vars
  => \A w \in Threads : InOrder(waiting[w])'
<1> SUFFICES ASSUME TypeOK, ControlOK, FirstHasQueue, HandedOver, TaskAccounted,
                    \A w \in Threads : InOrder(waiting[w]), [Next]_vars, NEW w \in Threads
             PROVE  InOrder(waiting[w])'
  OBVIOUS
<1> DEFINE q == waiting[w]
<1>1. /\ InOrder(waiting[w]) <=> InOrderOf(q, accepted)
      /\ InOrder(waiting[w])' <=> InOrderOf(waiting'[w], accepted')
  BY DEF InOrder, Central!Before, InOrderOf
<1>2. q \in Seq(Tasks) /\ accepted \in Seq(Tasks) /\ InOrderOf(q, accepted)
  BY <1>1 DEF TypeOK
<1>3. ToSet(q) \subseteq ToSet(accepted)
  BY DEF TaskAccounted, Queued
<1> HIDE DEF q
<1>4. ASSUME waiting'[w] = q,
             accepted' = accepted \/ \E t \in Tasks : accepted' = Append(accepted, t)
      PROVE  InOrderOf(waiting'[w], accepted')
  BY <1>2, <1>4, AppendKeepsOrder
<1>5. ASSUME NEW t \in Tasks, Joins(t)
      PROVE  InOrderOf(waiting'[w], accepted')
  <2>1. /\ accepted' = Append(accepted, t)
        /\ waiting'[w] = IF w = 1 THEN Insert(q, t) ELSE q
    BY <1>5 DEF Joins, TypeOK, q
  <2> QED BY <1>2, <1>3, <1>4, <2>1, InsertInOrder
<1>6. ASSUME NEW t \in Tasks, NEW v \in Threads, Begins(t, v)
      PROVE  InOrderOf(waiting'[w], accepted')
  BY <1>4, <1>6 DEF Begins, q
<1>7. ASSUME NEW v \in Threads, GoesOn(v)
      PROVE  InOrderOf(waiting'[w], accepted')
  <2>1. /\ accepted' = accepted
        /\ waiting'[w] = IF w = 1 THEN Tail(q) ELSE q
        /\ w = 1 => q # <<>>
    BY <1>7 DEF GoesOn, TypeOK, q
  <2> QED BY <1>2, <1>4, <2>1, TailInOrder
<1>8. ASSUME NEW v \in Threads, Rests(v)
      PROVE  InOrderOf(waiting'[w], accepted')
  BY <1>4, <1>8 DEF Rests, q
<1>9. CASE Same
  BY <1>1, <1>4, <1>9 DEF Same, q
<1> QED BY <1>1, <1>5, <1>6, <1>7, <1>8, <1>9, Moves

----------------------------------------------------------------------------
(* The invariant                                                           *)

\* The pool starts with no tasks.
LEMMA InitTaskInv == Init => TaskInv
<1> SUFFICES ASSUME Init
             PROVE  TaskInv
  OBVIOUS
<1> USE PoolAssumption DEF Init
<1>1. /\ \A w \in Threads : waiting[w] = <<>> /\ active[w] = None /\ worker[w] # "running"
      /\ ToSet(accepted) = {} /\ finished = {}
  BY DEF ToSet
<1>2. Queued = {} /\ Serving = {}
  BY <1>1 DEF Queued, Serving, ToSet
<1>3. TaskAccounted
  BY <1>1, <1>2 DEF TaskAccounted, ToSet, IsInjective
<1>4. HandedOver /\ RunsOnce /\ RunningBegan
  BY <1>1 DEF HandedOver, RunsOnce, RunningBegan
<1>5. \A w \in Threads : InOrder(waiting[w])
  BY <1>1 DEF InOrder
<1> QED BY <1>3, <1>4, <1>5 DEF TaskInv

\* All of what the queue relies on is kept together.
LEMMA NextTaskInv == PoolInv /\ TaskInv /\ [Next]_vars => TaskInv'
BY AccountedStep, HandedOverStep, RunsStep, InOrderStep DEF PoolInv, TaskInv

\* What the queue relies on holds in every state.
LEMMA TaskInvariant == Spec => []TaskInv
<1> QED BY InitTaskInv, NextTaskInv, PoolInvariant, PTL DEF Spec

\* Every task the pool accepted is in one place, the queue, one thread or done,
\* and whichever thread takes it, or steals it, runs it once.
THEOREM NoTaskLostOrDoubled == Spec => []TasksKept
<1>1. TaskInv => TasksKept
  BY DEF TaskInv, TasksKept
<1> QED BY <1>1, TaskInvariant, PTL

----------------------------------------------------------------------------
(* The pool implements one central queue.                                  *)

\* Threads are only ever added, and then no task moves.
LEMMA SizeStep ==
  ASSUME TypeOK, [Next]_vars
  PROVE  size' = size \/ (Existing \subseteq Existing' /\ Existing' \subseteq Threads /\ Same)
<1> USE DEF threadVars, clientVars, history
<1>1. ASSUME NEW n \in ReserveSizes, Reserve(n)
      PROVE  Existing \subseteq Existing' /\ Existing' \subseteq Threads /\ Same
  <2>1. /\ size \in Nat /\ size' \in Nat /\ size <= size' /\ size' <= MaxThreads
    BY <1>1, PoolAssumption DEF Reserve, Grown, TypeOK
  <2>2. Existing \subseteq Existing' /\ Existing' \subseteq Threads
    BY <2>1, PoolAssumption DEF Existing, Threads
  <2> QED BY <1>1, <2>2 DEF Reserve, Same
<1>2. ASSUME NEW c \in Clients, NEW t \in Tasks, Start(c, t) \/ TryStart(c, t)
      PROVE  size' = size
  BY <1>2 DEF Start, TryStart
<1>3. ASSUME NEW c \in Clients, ClientStep(c) \/ SpuriousWaiter(c)
      PROVE  size' = size
  BY <1>3 DEF ClientStep, TryAvailable, StartThrows, AddBehind, AddActivate, PublishStart,
              WaitCheck, SpuriousWaiter, Waited, FindUnstopped, StopThread, SkipThread, Joined,
              JoinThrows, StopDone, Destroyed
<1>4. ASSUME NEW c \in Clients, Wait(c) \/ Stop(c) \/ Destroy(c)
      PROVE  size' = size
  BY <1>4 DEF Wait, Stop, Destroy
<1>5. ASSUME NEW w \in Threads, WorkerStep(w) \/ SpuriousWake(w)
      PROVE  size' = size
  BY <1>5 DEF WorkerStep, Check, Run, NextOwn, NextStolen, NextNone, PublishBusy, PublishIdle,
              SpuriousWake
<1>6. ASSUME NEW t \in Tasks, Cancel(t)
      PROVE  size' = size
  BY <1>6 DEF Cancel
<1>7. CASE UNCHANGED vars
  BY <1>7 DEF vars
<1> QED BY <1>1, <1>2, <1>3, <1>4, <1>5, <1>6, <1>7, PoolAssumption DEF Next


\* The first entry of the queue is the task the central queue would serve.
LEMMA HeadMostUrgent ==
  ASSUME TypeOK, FirstHasQueue, 1 \in Threads, waiting[1] # <<>>, InOrder(waiting[1])
  PROVE  Head(waiting[1]) \in Queued /\ Central!MostUrgent(Head(waiting[1]))
<1> DEFINE q == waiting[1]
<1>1. q \in Seq(Tasks) /\ Queued = ToSet(q)
  BY QueuedIsFirst DEF TypeOK
<1> HIDE DEF q
<1>2. /\ Len(q) \in Nat \ {0} /\ DOMAIN q = 1 .. Len(q) /\ Head(q) = q[1]
  BY <1>1, HeadTailProperties, LenProperties, EmptySeq DEF q
<1>3. ASSUME NEW u \in Queued, u # Head(q)
      PROVE  \/ Priority[Head(q)] > Priority[u]
             \/ Priority[Head(q)] = Priority[u] /\ Central!Before(Head(q), u)
  <2>1. PICK j \in 1 .. Len(q) : q[j] = u
    BY <1>1, <1>2 DEF ToSet
  <2>2. 1 \in 1 .. Len(q) /\ 1 < j
    BY <1>2, <1>3, <2>1
  <2> QED BY <1>2, <2>1, <2>2 DEF InOrder, q
<1>4. Head(q) \in Queued
  BY <1>1, <1>2 DEF ToSet
<1> QED BY <1>3, <1>4 DEF Central!MostUrgent, q

\* Each step of the pool is one of the central queue, or none.
LEMMA CentralStep ==
  ASSUME PoolInv, TaskInv, [Next]_vars
  PROVE  [Central!Next]_(Central!vars)
<1> USE DEF PoolInv, TaskInv, Central!vars
<1>1. CASE size' # size
  <2>1. Existing \subseteq Existing' /\ Existing' \subseteq Threads /\ Same
    BY <1>1, SizeStep
  <2>2. Central!Open(Existing')
    BY <2>1 DEF Same, Queued, Central!Open
  <2> QED BY <2>1, <2>2 DEF Central!Next
<1>2. CASE Same /\ size' = size
  BY <1>2 DEF Same, Queued, Existing
<1>3. ASSUME NEW t \in Tasks, Joins(t), size' = size
      PROVE  Central!Submit(t)
  <2>1. waiting'[1] = Insert(waiting[1], t) /\ waiting[1] \in Seq(Tasks)
        /\ \A w \in Threads : w # 1 => waiting'[w] = waiting[w]
    BY <1>3 DEF Joins, TypeOK
  <2>2. Queued' = Queued \cup {t}
    <3>1. Queued = ToSet(waiting[1]) /\ Queued' = ToSet(waiting'[1])
      BY <1>3, <2>1, QueuedIsFirst DEF Joins, Queued, FirstHasQueue, ToSet
    <3> QED BY <2>1, <3>1, InsertElements
  <2>3. \A i \in 1 .. Len(accepted) : accepted[i] # t
    BY <1>3, LenProperties DEF Joins, TypeOK, ToSet
  <2>4. Existing' = Existing
    BY <1>3 DEF Existing
  <2> QED BY <1>3, <2>2, <2>3, <2>4 DEF Joins, Central!Submit
<1>4. ASSUME NEW t \in Tasks, NEW w \in Threads, Begins(t, w), size' = size
      PROVE  Central!Submit(t)
  <2>1. \A i \in 1 .. Len(accepted) : accepted[i] # t
    BY <1>4, LenProperties DEF Begins, TypeOK, ToSet
  <2>2. Existing' = Existing /\ Queued' = Queued
    BY <1>4 DEF Begins, Existing, Queued
  <2> QED BY <1>4, <2>1, <2>2 DEF Begins, Central!Submit
<1>5. ASSUME NEW w \in Threads, GoesOn(w), size' = size
      PROVE  Central!Complete(w)
  <2> DEFINE h == Head(waiting[1])
  <2>1. waiting'[1] = Tail(waiting[1]) /\ waiting[1] \in Seq(Tasks) /\ 1 \in Threads
        /\ waiting[1] # <<>> /\ IsInjective(waiting[1])
        /\ \A v \in Threads : v # 1 => waiting'[v] = waiting[v]
    BY <1>5 DEF GoesOn, TypeOK, TaskAccounted
  <2>2. Queued = ToSet(waiting[1]) /\ Queued' = ToSet(waiting'[1])
    <3>1. \A v \in Threads : v # 1 => ToSet(waiting'[v]) = {}
      BY <2>1 DEF FirstHasQueue, ToSet
    <3>2. Queued = ToSet(waiting[1])
      BY <2>1, QueuedIsFirst
    <3>3. Queued' = ToSet(waiting'[1])
      BY <2>1, <3>1, ZenonT(30) DEF Queued
    <3> QED BY <3>2, <3>3
  <2>3. Queued' = Queued \ {h}
    BY <2>1, <2>2, HeadTailElements, HeadTailInjective
  <2>4. h \in Queued /\ Central!MostUrgent(h)
    BY <2>1, HeadMostUrgent
  <2>5. Existing' = Existing /\ active[w] # None /\ active' = [active EXCEPT ![w] = h]
        /\ finished' = finished \cup {active[w]} /\ accepted' = accepted
    BY <1>5, PoolAssumption DEF GoesOn, Existing
  <2> HIDE DEF h
  <2> QED BY <2>3, <2>4, <2>5 DEF Central!Complete
<1>6. ASSUME NEW w \in Threads, Rests(w), size' = size
      PROVE  Central!Complete(w)
  <2>1. Existing' = Existing /\ Queued' = Queued /\ active[w] # None
    BY <1>6, PoolAssumption DEF Rests, Existing, Queued
  <2> QED BY <1>6, <2>1 DEF Rests, Central!Complete
<1> QED BY <1>1, <1>2, <1>3, <1>4, <1>5, <1>6, Moves DEF Central!Next

\* All threads and their queues together behave as one set of pending tasks:
\* a task is queued only if every thread has one when it is started, and a
\* thread that is done takes the most urgent of those queued, for any number
\* of threads, tasks and priorities.
THEOREM ImplementsCentralQueue == Spec => CentralQueueSpec
<1>1. Init => Central!Init
  BY PoolAssumption DEF Init, Central!Init, Queued, Existing, Threads, ToSet
<1> QED BY <1>1, CentralStep, PoolInvariant, TaskInvariant, PTL
        DEF Spec, CentralQueueSpec, Central!Spec
=============================================================================
