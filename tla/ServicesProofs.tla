--------------------------- MODULE ServicesProofs ---------------------------
(***************************************************************************)
(* Proofs about what a program gets from the library ready-made:           *)
(*   - services: all threads get one service, and only one that has met    *)
(*     set_service_provider() uses what is destroyed;                      *)
(*   - the log: no message is lost, doubled or out of its thread's order,  *)
(*     and finalize() returns when those logged before are written;        *)
(*   - packet connections: whatever the owner does in its handlers, the    *)
(*     packets exist, and one is written at a time;                        *)
(*   - HTTP: a request ends once, and never as completed, for the line     *)
(*     ends of the answer never come to where it is read.                  *)
(* All are for any number of threads, messages, packets and callbacks.     *)
(***************************************************************************)
EXTENDS MCServices, Sequences, SequenceTheorems, TLAPS

\* Services: what the fields hold.
Types ==
  /\ pc \in [Threads -> {"out", "get", "lock", "look", "start", "unlock", "done", "migrate", "set"}]
  /\ instance \in {Own, Other} /\ instanceBy \in Threads \cup {Nobody}
  /\ providerBy \in [{Own, Other} -> Threads \cup {Nobody}]
  /\ found \in [Threads -> {Own, Other}] /\ registered \in [{Own, Other} -> {None, Own, Other}]
  /\ pointer \in {None, Own, Other} /\ starts \in Nat
  /\ result \in [Threads -> {None, Own, Other}]
  /\ gone \in BOOLEAN /\ touched \in BOOLEAN /\ crossed \in BOOLEAN

Inside(t) == pc[t] \in {"look", "start", "unlock"}

\* Where set_service_provider() is, the provider and the mutexes are.
Control ==
  /\ pc[Setter] \in {"out", "migrate", "set"}
  /\ \A t \in Threads : t # Setter => pc[t] \notin {"migrate", "set"}
  /\ instance = Own <=> pc[Setter] = "out"
  /\ instanceBy # Nobody <=> pc[Setter] = "migrate"
  /\ gone <=> pc[Setter] = "set"
  /\ pc[Setter] = "out" => ~crossed

Holding == \A t \in Threads : Inside(t) => providerBy[found[t]] = t

\* Who has not met it has the provider that is in use.
Current == ~crossed => \A t \in Threads : Inside(t) \/ pc[t] = "lock" => found[t] = instance

\* The pointer leads to the service of the provider in use, or of the one
\* that is about to hand it over.
Pointing ==
  /\ pointer # None => registered[IF pc[Setter] = "migrate" THEN Own ELSE instance] = pointer
  /\ pointer = None => registered[Own] = None /\ starts = 0
  /\ gone => registered[Own] = None

\* A thread about to register a service replaces no other.
Starting ==
  \A t \in Threads : pc[t] = "start" =>
    /\ pc[Setter] = "migrate" \/ registered[instance] \in {None, Own}
    /\ ~crossed => starts = 0

Results ==
  \A t \in Threads :
    /\ pc[t] = "unlock" => pointer # None
    /\ result[t] # None => result[t] = pointer

Once == (starts > 1 => crossed) /\ (touched => crossed)

IInv == Types /\ Control /\ Holding /\ Current /\ Pointing /\ Starting /\ Results /\ Once

\* At the start nobody is inside service() and nothing has been destroyed.
LEMMA InitIInv == ASSUME Init PROVE IInv
<1>1. Types
  BY DEF Init, Types
<1>2. Control
  BY ServicesAssumption DEF Init, Control, ServicesAssumption
<1>3. Holding
  BY DEF Init, Inside, Holding
<1>4. Current
  BY DEF Init, Current
<1>5. Pointing
  BY DEF Init, Pointing
<1>6. Starting
  BY DEF Init, Starting
<1>7. Results
  BY DEF Init, Results
<1>8. Once
  BY DEF Init, Once
<1> QED
  BY <1>1, <1>2, <1>3, <1>4, <1>5, <1>6, <1>7, <1>8 DEF IInv

\* service() with a pointer that is set.
LEMMA FastStep == ASSUME IInv, NEW t \in Threads, Fast(t) PROVE IInv'
<1>1. Types'
  BY DEF Fast, Goes, mutexes, past, IInv, Types
<1>2. Control'
  BY ServicesAssumption DEF Fast, Goes, mutexes, past, IInv, Types, Control,
     ServicesAssumption
<1>3. Holding'
  BY DEF Fast, Goes, mutexes, IInv, Types, Holding, Inside
<1>4. Current'
  BY DEF Fast, Goes, IInv, Types, Current, Inside
<1>5. Pointing'
  BY ServicesAssumption DEF Fast, Goes, past, IInv, Types, Pointing,
     ServicesAssumption
<1>6. Starting'
  BY ServicesAssumption DEF Fast, Goes, IInv, Types, Starting,
     ServicesAssumption
<1>7. Results'
  BY DEF Fast, Goes, IInv, Types, Results
<1>8. Once'
  BY DEF Fast, past, IInv, Once
<1> QED
  BY <1>1, <1>2, <1>3, <1>4, <1>5, <1>6, <1>7, <1>8 DEF IInv

\* set_service_provider() takes the mutex of the instance and replaces it.
LEMMA SetProviderStep == ASSUME IInv, NEW t \in Threads, SetProvider(t) PROVE IInv'
<1>1. Types'
  BY DEF SetProvider, Goes, past, IInv, Types
<1>2. Control'
  BY ServicesAssumption DEF SetProvider, Goes, past, Own, Other, IInv, Types,
     Control, ServicesAssumption
<1>3. Holding'
  BY DEF SetProvider, Goes, IInv, Holding, Inside
<1>4. Current'
  BY DEF SetProvider, Goes, InService, IInv, Types, Current, Inside
<1>5. Pointing'
  BY DEF SetProvider, Goes, past, IInv, Types, Control, Pointing
<1>6. Starting'
  BY DEF SetProvider, Goes, IInv, Types, Control, Starting
<1>7. Results'
  BY DEF SetProvider, Goes, IInv, Results
<1>8. Once'
  BY DEF SetProvider, past, IInv, Control, Once
<1> QED
  BY <1>1, <1>2, <1>3, <1>4, <1>5, <1>6, <1>7, <1>8 DEF IInv

\* get_service_provider().
LEMMA GetStep == ASSUME IInv, NEW t \in Threads, Get(t) PROVE IInv'
<1>1. Types'
  BY DEF Get, Goes, Provider, mutexes, past, IInv, Types
<1>2. Control'
  BY DEF Get, Goes, mutexes, past, IInv, Control
<1>3. Holding'
  BY DEF Get, Goes, mutexes, IInv, Holding, Inside
<1>4. Current'
  BY DEF Get, Goes, Provider, IInv, Types, Current, Inside
<1>5. Pointing'
  BY DEF Get, Goes, past, IInv, Pointing
<1>6. Starting'
  BY DEF Get, Goes, IInv, Starting
<1>7. Results'
  BY DEF Get, Goes, IInv, Results
<1>8. Once'
  BY DEF Get, past, IInv, Once
<1> QED
  BY <1>1, <1>2, <1>3, <1>4, <1>5, <1>6, <1>7, <1>8 DEF IInv

\* The lock of the provider that was found.
LEMMA LockStep == ASSUME IInv, NEW t \in Threads, Lock(t) PROVE IInv'
<1>1. Types'
  BY DEF Lock, Goes, IInv, Types
<1>2. Control'
  BY DEF Lock, Goes, IInv, Control
<1>3. Holding'
  BY ServicesAssumption DEF Lock, Goes, LockFree, IInv, Types, Holding,
     Inside, ServicesAssumption
<1>4. Current'
  BY DEF Lock, Goes, IInv, Current, Inside
<1>5. Pointing'
  BY DEF Lock, Goes, IInv, Pointing
<1>6. Starting'
  BY DEF Lock, Goes, IInv, Starting
<1>7. Results'
  BY DEF Lock, Goes, IInv, Results
<1>8. Once'
  BY DEF Lock, IInv, Control, Current, Once
<1> QED
  BY <1>1, <1>2, <1>3, <1>4, <1>5, <1>6, <1>7, <1>8 DEF IInv

\* The look for a registered service.
LEMMA LookStep == ASSUME IInv, NEW t \in Threads, Look(t) PROVE IInv'
<1>1. Types'
  BY DEF Look, Goes, mutexes, past, IInv, Types
<1>2. Control'
  BY ServicesAssumption DEF Look, Goes, mutexes, past, IInv, Types, Control,
     ServicesAssumption
<1>3. Holding'
  BY DEF Look, Goes, mutexes, IInv, Types, Holding, Inside
<1>4. Current'
  BY DEF Look, Goes, IInv, Types, Current, Inside
<1>5. Pointing'
  BY ServicesAssumption DEF Look, Goes, past, IInv, Types, Control, Pointing,
     ServicesAssumption
<1>6. Starting'
  BY DEF Look, Goes, Unregistered, IInv, Types, Control, Starting, Pointing
<1>7. Results'
  BY DEF Look, Goes, Unregistered, IInv, Types, Control, Results, Pointing
<1>8. Once'
  BY DEF Look, past, IInv, Once
<1> QED
  BY <1>1, <1>2, <1>3, <1>4, <1>5, <1>6, <1>7, <1>8 DEF IInv

\* start_service() and register_service().
LEMMA RegisterStep == ASSUME IInv, NEW t \in Threads, Register(t) PROVE IInv'
<1>1. Types'
  BY DEF Register, Goes, mutexes, past, IInv, Types
<1>2. Control'
  BY DEF Register, Goes, mutexes, past, IInv, Control
<1>3. Holding'
  BY DEF Register, Goes, mutexes, IInv, Holding, Inside
<1>4. Current'
  BY DEF Register, Goes, IInv, Current, Inside
<1>5. Pointing'
  BY DEF Register, Goes, past, None, Own, IInv, Types, Control, Pointing
<1>6. Starting'
  BY DEF Register, Goes, IInv, Types, Holding, Current, Starting, Inside
<1>7. Results'
  BY DEF Register, None, Own, IInv, Control, Starting, Results, Pointing
<1>8. Once'
  BY DEF Register, past, IInv, Starting, Once
<1> QED
  BY <1>1, <1>2, <1>3, <1>4, <1>5, <1>6, <1>7, <1>8 DEF IInv

\* The end of service().
LEMMA UnlockStep == ASSUME IInv, NEW t \in Threads, Unlock(t) PROVE IInv'
<1>1. Types'
  BY DEF Unlock, Goes, Released, past, IInv, Types
<1>2. Control'
  BY DEF Unlock, Goes, past, IInv, Control
<1>3. Holding'
  BY DEF Unlock, Goes, Released, IInv, Types, Holding, Inside
<1>4. Current'
  BY DEF Unlock, Goes, IInv, Current, Inside
<1>5. Pointing'
  BY DEF Unlock, Goes, past, IInv, Pointing
<1>6. Starting'
  BY DEF Unlock, Goes, IInv, Starting
<1>7. Results'
  BY DEF Unlock, IInv, Results
<1>8. Once'
  BY DEF Unlock, past, IInv, Once
<1> QED
  BY <1>1, <1>2, <1>3, <1>4, <1>5, <1>6, <1>7, <1>8 DEF IInv

\* migrate_to(), and the end of the first provider.
LEMMA MigrateStep == ASSUME IInv, NEW t \in Threads, Migrate(t) PROVE IInv'
<1>1. Types'
  BY DEF Migrate, Goes, Migrated, IInv, Types
<1>2. Control'
  BY DEF Migrate, Goes, IInv, Types, Control
<1>3. Holding'
  BY DEF Migrate, Goes, IInv, Holding, Inside
<1>4. Current'
  BY DEF Migrate, Goes, IInv, Current, Inside
<1>5. Pointing'
  BY DEF Migrate, Goes, Migrated, IInv, Types, Control, Pointing
<1>6. Starting'
  BY ServicesAssumption DEF Migrate, Goes, IInv, Types, Holding, Starting,
     Inside, ServicesAssumption
<1>7. Results'
  BY DEF Migrate, Goes, IInv, Results
<1>8. Once'
  BY DEF Migrate, IInv, Once
<1> QED
  BY <1>1, <1>2, <1>3, <1>4, <1>5, <1>6, <1>7, <1>8 DEF IInv

----------------------------------------------------------------------------
\* What holds of the pointer, the mutexes and the registered service holds
\* throughout, wherever set_service_provider() comes in between.
THEOREM ServicesInvariant == Spec => []IInv
<1>1. IInv /\ [Next]_vars => IInv'
  <2> SUFFICES ASSUME IInv, [Next]_vars PROVE IInv'
    OBVIOUS
  <2>1. CASE Next
    BY <2>1, FastStep, SetProviderStep, GetStep, LockStep, LookStep, RegisterStep, UnlockStep, MigrateStep DEF Next, Step
  <2>2. CASE UNCHANGED vars
    BY <2>2 DEF vars, IInv, Types, Control, Holding, Current, Pointing, Starting, Results, Once, Inside
  <2> QED
    BY <2>1, <2>2
<1> QED
  BY InitIInv, <1>1, PTL DEF Spec

\* service(): all threads get the same service, the provider keeps it, and it
\* is started once, unless one of them meets set_service_provider().
THEOREM OneForAll == Spec => []OneService
<1>1. IInv => OneService
  BY DEF IInv, Control, Pointing, Results, Once, OneService
<1> QED
  BY <1>1, ServicesInvariant, PTL

\* set_service_provider(): only a thread it has met in service() can use the
\* provider that it destroys.
THEOREM ProviderLeftAlone == Spec => []NoUseAfterDestroy
<1>1. IInv => NoUseAfterDestroy
  BY DEF IInv, Once, NoUseAfterDestroy
<1> QED
  BY <1>1, ServicesInvariant, PTL

\* The provider that is destroyed has handed its service over.
THEOREM ServicesTypeCorrect == Spec => []TypeOK
<1>1. IInv => TypeOK
  BY DEF IInv, Types, Pointing, TypeOK
<1> QED
  BY <1>1, ServicesInvariant, PTL

----------------------------------------------------------------------------
\* The log.

\* Messages of one thread are in order in s, and those in s before those in r.
InOrder(s) == \A i, j \in 1 .. Len(s) : i < j /\ s[i].from = s[j].from => s[i].n < s[j].n
Behind(s, r) == \A i \in 1 .. Len(s), j \in 1 .. Len(r) : s[i].from = r[j].from => s[i].n < r[j].n

\* What is not swapped, collected and written is in no thread's second buffer.
IdleInv == L!Reading = {} => temp = <<>> /\ \A t \in Loggers : back[t] = <<>>

OrderInv ==
  /\ InOrder(log) /\ InOrder(temp) /\ Behind(log, temp)
  /\ \A t \in Loggers :
       /\ InOrder(back[t]) /\ InOrder(front[t]) /\ Behind(back[t], front[t])
       /\ Behind(log, back[t]) /\ Behind(temp, back[t]) /\ Behind(log, front[t]) /\ Behind(temp, front[t])

\* The buffers of a thread have messages of that thread only, and none that it
\* has not sent.
OwnInv ==
  /\ \A t \in Loggers : /\ \A i \in 1 .. Len(back[t]) : back[t][i].from = t
                        /\ \A i \in 1 .. Len(front[t]) : front[t][i].from = t
  /\ \A m \in L!ToSet(log) \cup L!ToSet(temp) : m.n <= flushed[m.from]
  /\ \A t \in Loggers : \A m \in L!ToSet(back[t]) \cup L!ToSet(front[t]) : m.n <= flushed[t]

Logged == L!ToSet(log) \cup left
Passed(t) == L!ToSet(log) \cup L!ToSet(temp) \cup L!ToSet(back[t]) \cup left
Kept(t) == Passed(t) \cup L!ToSet(front[t])
KeptInv == \A t \in Loggers : \A n \in 1 .. flushed[t] : [from |-> t, n |-> n] \in Kept(t)

\* Where finalize() is, the logging thread is, and what was logged before has
\* been swapped, and written, by then.
FinalControl ==
  /\ at[LoggingThread] \in {"none", "out", "committing", "ended"}
  /\ at[Main] \in {"out", "committing", "finalizing", "waited", "joining", "last", "finalized"}
  /\ at[Main] \in {"finalizing", "waited", "joining"} => L!HasService
  /\ destroying => at[Main] \in {"joining", "last", "finalized"}
  /\ at[Main] = "last" => ~L!HasService
  /\ at[LoggingThread] = "ended" => destroying
  /\ created => L!HasService /\ left = {}

FinalMessages ==
  \A t \in Loggers : \A n \in 1 .. before[t] :
    /\ at[Main] = "joining" /\ at[LoggingThread] = "committing" => [from |-> t, n |-> n] \in Passed(t)
    /\ at[Main] = "last" => [from |-> t, n |-> n] \in Passed(t)
    /\ at[Main] = "joining" /\ at[LoggingThread] = "ended" => [from |-> t, n |-> n] \in Logged
    /\ at[Main] = "finalized" => [from |-> t, n |-> n] \in Logged

FinalInv == FinalControl /\ FinalMessages /\ \A t \in Loggers : before[t] <= flushed[t]

LogInv == L!TypeOK /\ (~undefined => IdleInv /\ OrderInv /\ OwnInv /\ KeptInv /\ FinalInv)

LogHas == Main \in Loggers /\ LoggingThread \notin Loggers /\ MaxMessages \in Nat

\* What the assumption says of the constants.
LEMMA LogConstants == LogHas
  BY PartsAssumption DEF L!LoggerAssumption, LogHas

\* What put together is in order.
LEMMA OrderOfBoth ==
  ASSUME NEW M, NEW s \in Seq(M), NEW r \in Seq(M), InOrder(s), InOrder(r), Behind(s, r)
  PROVE  InOrder(s \o r)
<1> SUFFICES ASSUME NEW i \in 1 .. Len(s \o r), NEW j \in 1 .. Len(s \o r), i < j,
                    (s \o r)[i].from = (s \o r)[j].from
             PROVE  (s \o r)[i].n < (s \o r)[j].n
  BY DEF InOrder
<1>1. /\ Len(s) \in Nat /\ Len(r) \in Nat /\ Len(s \o r) = Len(s) + Len(r)
      /\ \A k \in 1 .. Len(s) + Len(r) : (s \o r)[k] = IF k <= Len(s) THEN s[k] ELSE r[k - Len(s)]
  OBVIOUS
<1>2. CASE j <= Len(s)
  BY <1>1, <1>2 DEF InOrder
<1>3. CASE i <= Len(s) /\ j > Len(s)
  BY <1>1, <1>3 DEF Behind
<1>4. CASE i > Len(s)
  <2>1. i - Len(s) \in 1 .. Len(r) /\ j - Len(s) \in 1 .. Len(r) /\ i - Len(s) < j - Len(s)
    BY <1>1, <1>4
  <2>2. (s \o r)[i] = r[i - Len(s)] /\ (s \o r)[j] = r[j - Len(s)]
    BY <1>1, <1>4
  <2> QED
    BY <2>1, <2>2 DEF InOrder
<1> QED
  BY <1>1, <1>2, <1>3, <1>4

\* What is behind two sequences is behind both together, and the other way round.
LEMMA BehindBoth ==
  ASSUME NEW M, NEW s \in Seq(M), NEW r \in Seq(M), NEW q \in Seq(M)
  PROVE  /\ Behind(s, q) /\ Behind(r, q) => Behind(s \o r, q)
         /\ Behind(q, s) /\ Behind(q, r) => Behind(q, s \o r)
<1>1. /\ Len(s) \in Nat /\ Len(r) \in Nat /\ Len(s \o r) = Len(s) + Len(r)
      /\ \A k \in 1 .. Len(s) + Len(r) : (s \o r)[k] = IF k <= Len(s) THEN s[k] ELSE r[k - Len(s)]
  OBVIOUS
<1>2. \A k \in 1 .. Len(s \o r) :
        \/ k \in 1 .. Len(s) /\ (s \o r)[k] = s[k]
        \/ k - Len(s) \in 1 .. Len(r) /\ (s \o r)[k] = r[k - Len(s)]
  BY <1>1
<1>3. ASSUME Behind(s, q), Behind(r, q) PROVE Behind(s \o r, q)
  BY <1>2, <1>3 DEF Behind
<1>4. ASSUME Behind(q, s), Behind(q, r) PROVE Behind(q, s \o r)
  BY <1>2, <1>4 DEF Behind
<1> QED
  BY <1>3, <1>4

\* The messages of two sequences together.
LEMMA SetOfBoth ==
  ASSUME NEW M, NEW s \in Seq(M), NEW r \in Seq(M)
  PROVE  L!ToSet(s \o r) = L!ToSet(s) \cup L!ToSet(r)
<1>1. /\ Len(s) \in Nat /\ Len(r) \in Nat /\ Len(s \o r) = Len(s) + Len(r)
      /\ \A k \in 1 .. Len(s) + Len(r) : (s \o r)[k] = IF k <= Len(s) THEN s[k] ELSE r[k - Len(s)]
      /\ DOMAIN s = 1 .. Len(s) /\ DOMAIN r = 1 .. Len(r) /\ DOMAIN (s \o r) = 1 .. Len(s \o r)
  OBVIOUS
<1>2. ASSUME NEW x \in L!ToSet(s \o r) PROVE x \in L!ToSet(s) \cup L!ToSet(r)
  <2>1. PICK k \in 1 .. Len(s) + Len(r) : x = (s \o r)[k]
    BY <1>1, <1>2 DEF L!ToSet
  <2>2. k \in 1 .. Len(s) \/ k - Len(s) \in 1 .. Len(r)
    BY <1>1
  <2> QED
    BY <1>1, <2>1, <2>2 DEF L!ToSet
<1>3. ASSUME NEW x \in L!ToSet(s) PROVE x \in L!ToSet(s \o r)
  <2>1. PICK k \in 1 .. Len(s) : x = s[k]
    BY <1>1, <1>3 DEF L!ToSet
  <2> QED
    BY <1>1, <2>1 DEF L!ToSet
<1>4. ASSUME NEW x \in L!ToSet(r) PROVE x \in L!ToSet(s \o r)
  <2>1. PICK k \in 1 .. Len(r) : x = r[k]
    BY <1>1, <1>4 DEF L!ToSet
  <2>2. k + Len(s) \in 1 .. Len(s) + Len(r) /\ (s \o r)[k + Len(s)] = r[k]
    BY <1>1
  <2> QED
    BY <1>1, <2>1, <2>2 DEF L!ToSet
<1> QED
  BY <1>2, <1>3, <1>4

\* A message has a thread and a number.
LEMMA MessagesOf ==
  ASSUME NEW s \in Seq(L!Messages), NEW x \in L!ToSet(s)
  PROVE  x.from \in Loggers /\ x.n \in Int /\ x \in L!Messages
<1>1. x \in L!Messages
  BY DEF L!ToSet
<1> QED
  BY <1>1, LogConstants DEF L!Messages, LogHas

\* No messages are in order, and behind any.
LEMMA OfNothing ==
  ASSUME NEW M, NEW s \in Seq(M)
  PROVE  /\ InOrder(<<>>) /\ Behind(<<>>, s) /\ Behind(s, <<>>)
         /\ L!ToSet(<<>>) = {} /\ <<>> \in Seq(M)
<1>1. <<>> \in Seq(M) /\ Len(<<>>) = 0 /\ DOMAIN <<>> = 1 .. 0
  OBVIOUS
<1> QED
  BY <1>1 DEF InOrder, Behind, L!ToSet

\* A message that comes after those of its thread is put behind them.
LEMMA OfAppended ==
  ASSUME NEW M, NEW s \in Seq(M), NEW m \in M
  PROVE  /\ L!Appended(s, m) \in Seq(M) /\ L!ToSet(L!Appended(s, m)) = L!ToSet(s) \cup {m}
         /\ InOrder(s) /\ (\A k \in 1 .. Len(s) : s[k].from = m.from => s[k].n < m.n)
              => InOrder(L!Appended(s, m))
         /\ \A q \in Seq(M) :
              Behind(q, s) /\ (\A k \in 1 .. Len(q) : q[k].from = m.from => q[k].n < m.n)
                => Behind(q, L!Appended(s, m))
<1>1. /\ Append(s, m) \in Seq(M) /\ Len(s) \in Nat /\ Len(Append(s, m)) = Len(s) + 1
      /\ \A k \in 1 .. Len(s) + 1 : Append(s, m)[k] = IF k <= Len(s) THEN s[k] ELSE m
      /\ DOMAIN s = 1 .. Len(s) /\ DOMAIN Append(s, m) = 1 .. Len(s) + 1
  OBVIOUS
<1>2. \A k \in 1 .. Len(s) + 1 : k \in 1 .. Len(s) \/ k = Len(s) + 1
  BY <1>1
<1>3. L!ToSet(Append(s, m)) = L!ToSet(s) \cup {m}
  <2>1. L!ToSet(s) = {s[k] : k \in 1 .. Len(s)}
    BY <1>1 DEF L!ToSet
  <2>2. L!ToSet(Append(s, m)) = {Append(s, m)[k] : k \in 1 .. Len(s) + 1}
    BY <1>1 DEF L!ToSet
  <2>3. 1 .. Len(s) + 1 = (1 .. Len(s)) \cup {Len(s) + 1} /\ Len(s) + 1 \notin 1 .. Len(s)
    BY <1>1
  <2>4. (\A k \in 1 .. Len(s) : Append(s, m)[k] = s[k]) /\ Append(s, m)[Len(s) + 1] = m
    BY <1>1
  <2> QED
    BY <2>1, <2>2, <2>3, <2>4, Zenon
<1>4. ASSUME InOrder(s), \A k \in 1 .. Len(s) : s[k].from = m.from => s[k].n < m.n
      PROVE  InOrder(Append(s, m))
  BY <1>1, <1>2, <1>4 DEF InOrder
<1>5. ASSUME NEW q \in Seq(M), Behind(q, s),
             \A k \in 1 .. Len(q) : q[k].from = m.from => q[k].n < m.n
      PROVE  Behind(q, Append(s, m))
  BY <1>1, <1>2, <1>5 DEF Behind
<1> QED
  BY <1>1, <1>3, <1>4, <1>5 DEF L!Appended

----------------------------------------------------------------------------
\* What follows from the types.
Places == {"none", "out", "committing", "exiting", "gone", "finalizing", "waited", "joining", "last",
           "finalized", "ended"}
LogTyped ==
  /\ at \in [L!Committers -> Places] /\ entries \subseteq Loggers
  /\ front \in [Loggers -> Seq(L!Messages)] /\ back \in [Loggers -> Seq(L!Messages)]
  /\ temp \in Seq(L!Messages) /\ log \in Seq(L!Messages) /\ flushed \in [Loggers -> 0 .. MaxMessages]
  /\ \A t \in Loggers \ entries : front[t] = <<>> /\ back[t] = <<>>

\* The part of the type invariant that the steps need.
LEMMA LogTypes == L!TypeOK => LogTyped
  BY DEF L!TypeOK, LogTyped, Places

\* The logger starts with nothing logged.
LEMMA LogInit == L!Init => LogInv
<1> SUFFICES ASSUME L!Init PROVE LogInv
  OBVIOUS
<1> USE LogConstants DEF LogHas
<1>1. <<>> \in Seq(L!Messages) /\ Len(<<>>) = 0 /\ L!ToSet(<<>>) = {}
  <2>1. <<>> \in Seq(L!Messages) /\ Len(<<>>) = 0
    OBVIOUS
  <2> QED
    BY <2>1, OfNothing
<1>2. L!TypeOK
  <2>1. at \in [L!Committers -> {"none", "out", "committing", "exiting", "gone", "finalizing", "waited",
                                 "joining", "last", "finalized", "ended"}]
    BY DEF L!Init, L!Committers
  <2>2. front \in [Loggers -> Seq(L!Messages)] /\ back \in [Loggers -> Seq(L!Messages)]
    BY <1>1 DEF L!Init
  <2>3. flushed \in [Loggers -> 0 .. MaxMessages] /\ before \in [Loggers -> 0 .. MaxMessages]
    BY DEF L!Init
  <2> QED
    BY <1>1, <2>1, <2>2, <2>3 DEF L!Init, L!TypeOK
<1>3. IdleInv
  BY DEF L!Init, IdleInv
<1>4. OrderInv
  BY <1>1 DEF L!Init, OrderInv, InOrder, Behind
<1>5. OwnInv
  BY <1>1 DEF L!Init, OwnInv
<1>6. KeptInv
  BY DEF L!Init, KeptInv
<1>7. FinalInv
  <2>1. \A t \in Loggers : before[t] = 0 /\ flushed[t] = 0
    BY DEF L!Init
  <2>2. at[Main] = "out" /\ at[LoggingThread] = IF created THEN "out" ELSE "none"
    BY DEF L!Init, L!Committers
  <2>3. ~destroying /\ left = {}
    BY DEF L!Init
  <2> QED
    BY <2>1, <2>2, <2>3 DEF FinalInv, FinalControl, FinalMessages, L!HasService
<1> QED
  BY <1>2, <1>3, <1>4, <1>5, <1>6, <1>7 DEF LogInv

\* A step that touches no message.
LEMMA StillStep ==
  ASSUME LogInv, ~undefined, UNCHANGED <<front, back, temp, log, flushed, left>>,
         L!Reading' # {} \/ L!Reading = {}
  PROVE  (IdleInv /\ OrderInv /\ OwnInv /\ KeptInv)'
<1>1. IdleInv /\ OrderInv /\ OwnInv /\ KeptInv
  BY DEF LogInv
<1>2. IdleInv'
  BY <1>1 DEF IdleInv
<1>3. OrderInv'
  BY <1>1 DEF OrderInv
<1>4. OwnInv'
  BY <1>1 DEF OwnInv
<1>5. KeptInv'
  BY <1>1 DEF KeptInv, Kept, Passed
<1> QED
  BY <1>2, <1>3, <1>4, <1>5

\* A thread that goes elsewhere, and neither reads nor did.
LEMMA ReadingStill ==
  ASSUME at \in [L!Committers -> Places], NEW c \in L!Committers, NEW where, L!Goes(c, where),
         at[c] \notin {"committing", "last"}, where \notin {"committing", "last"}
  PROVE  L!Reading' = L!Reading
  BY DEF L!Goes, L!Reading

----------------------------------------------------------------------------
\* flush(): the message is behind all others of its thread.
LEMMA FlushStep ==
  ASSUME LogInv, ~undefined, NEW t \in Loggers, L!Flush(t)
  PROVE  L!TypeOK' /\ (IdleInv /\ OrderInv /\ OwnInv /\ KeptInv /\ FinalInv)'
<1> USE LogConstants DEF LogHas
<1> DEFINE m == [from |-> t, n |-> flushed[t] + 1]
<1>1. LogTyped /\ IdleInv /\ OrderInv /\ OwnInv /\ KeptInv /\ FinalInv /\ L!TypeOK
  BY LogTypes DEF LogInv
<1>2. /\ at[t] = "out" /\ at[LoggingThread] # "committing" /\ flushed[t] < MaxMessages
      /\ flushed' = [flushed EXCEPT ![t] = flushed[t] + 1] /\ entries' = entries \cup {t}
      /\ front' = [front EXCEPT ![t] = L!Appended(front[t], m)]
      /\ UNCHANGED <<at, back, temp, log, destroying, created, before, left>>
  BY <1>1 DEF L!Flush, L!SignalFree, LogTyped
<1>3. /\ m \in L!Messages /\ front[t] \in Seq(L!Messages) /\ back[t] \in Seq(L!Messages)
      /\ flushed[t] \in Nat /\ flushed'[t] = flushed[t] + 1
      /\ front'[t] = L!Appended(front[t], m)
      /\ \A u \in Loggers : u # t => front'[u] = front[u] /\ flushed'[u] = flushed[u]
  <2>1. flushed[t] \in 0 .. MaxMessages /\ flushed[t] + 1 \in 1 .. MaxMessages
    BY <1>1, <1>2 DEF LogTyped
  <2>2. m \in L!Messages
    BY <2>1 DEF L!Messages
  <2> QED
    BY <1>1, <1>2, <2>1, <2>2 DEF LogTyped
<1>4. /\ L!Appended(front[t], m) \in Seq(L!Messages)
      /\ L!ToSet(L!Appended(front[t], m)) = L!ToSet(front[t]) \cup {m}
  BY <1>3, OfAppended
<1>5. L!TypeOK'
  <2>1. front' \in [Loggers -> Seq(L!Messages)]
    BY <1>1, <1>2, <1>4 DEF LogTyped
  <2>2. flushed' \in [Loggers -> 0 .. MaxMessages]
    BY <1>1, <1>2 DEF LogTyped
  <2>3. \A u \in Loggers \ entries' : front'[u] = <<>> /\ back'[u] = <<>>
    BY <1>1, <1>2, <1>3 DEF LogTyped
  <2>4. undefined' \in BOOLEAN
    BY DEF L!Flush
  <2> QED
    BY <1>1, <1>2, <2>1, <2>2, <2>3, <2>4 DEF L!TypeOK
<1>6. IdleInv'
  BY <1>1, <1>2 DEF IdleInv, L!Reading
<1>7. /\ \A x \in L!ToSet(log) \cup L!ToSet(temp) : x.from = t => x.n < m.n
      /\ \A x \in L!ToSet(back[t]) \cup L!ToSet(front[t]) : x.n < m.n
  <2>1. \A x \in L!ToSet(log) \cup L!ToSet(temp) \cup L!ToSet(back[t]) \cup L!ToSet(front[t]) : x.n \in Int
    BY <1>1, <1>3, MessagesOf DEF LogTyped
  <2> QED
    BY <1>1, <1>3, <2>1 DEF OwnInv
<1>8. \A q \in Seq(L!Messages) : \A k \in 1 .. Len(q) : q[k] \in L!ToSet(q)
  BY DEF L!ToSet
<1> HIDE DEF m
<1>9. OrderInv'
  <2>1. InOrder(L!Appended(front[t], m))
    <3>1. InOrder(front[t]) /\ \A k \in 1 .. Len(front[t]) : front[t][k].n < m.n
      BY <1>1, <1>3, <1>7, <1>8 DEF OrderInv
    <3> QED
      BY <1>3, <3>1, OfAppended
  <2>2. /\ Behind(log, L!Appended(front[t], m)) /\ Behind(temp, L!Appended(front[t], m))
        /\ Behind(back[t], L!Appended(front[t], m))
    <3>1. /\ \A k \in 1 .. Len(log) : log[k].from = t => log[k].n < m.n
          /\ \A k \in 1 .. Len(temp) : temp[k].from = t => temp[k].n < m.n
          /\ \A k \in 1 .. Len(back[t]) : back[t][k].n < m.n
      BY <1>1, <1>3, <1>7, <1>8 DEF LogTyped
    <3>2. m.from = t
      BY DEF m
    <3>3. Behind(log, front[t]) /\ Behind(temp, front[t]) /\ Behind(back[t], front[t])
      BY <1>1 DEF OrderInv
    <3>4. log \in Seq(L!Messages) /\ temp \in Seq(L!Messages)
      BY <1>1 DEF LogTyped
    <3> QED
      BY <1>3, <3>1, <3>2, <3>3, <3>4, OfAppended
  <2> QED
    BY <1>1, <1>2, <1>3, <2>1, <2>2 DEF OrderInv
<1>10. OwnInv'
  <2>1. m.from = t /\ m.n = flushed[t] + 1
    BY DEF m
  <2>2. \A i \in 1 .. Len(front'[t]) : front'[t][i].from = t
    <3>1. \A x \in L!ToSet(front[t]) : x.from = t
      BY <1>1, <1>3 DEF OwnInv, L!ToSet
    <3>2. \A x \in L!ToSet(front'[t]) : x.from = t
      BY <1>3, <1>4, <2>1, <3>1
    <3> QED
      BY <1>3, <1>4, <1>8, <3>2
  <2>3. \A x \in L!ToSet(log) \cup L!ToSet(temp) : x.n <= flushed'[x.from]
    <3>1. \A x \in L!ToSet(log) \cup L!ToSet(temp) : x.from \in Loggers /\ x.n \in Int
      BY <1>1, MessagesOf DEF LogTyped
    <3>2. \A u \in Loggers : flushed[u] \in Int /\ flushed'[u] \in Int /\ flushed[u] <= flushed'[u]
      BY <1>1, <1>2, <1>3 DEF LogTyped
    <3> QED
      BY <1>1, <3>1, <3>2 DEF OwnInv
  <2>4. \A x \in L!ToSet(back[t]) \cup L!ToSet(front'[t]) : x.n <= flushed'[t]
    <3>1. \A x \in L!ToSet(back[t]) \cup L!ToSet(front[t]) : x.n \in Int /\ x.n <= flushed[t]
      BY <1>1, <1>3, MessagesOf DEF OwnInv
    <3> QED
      BY <1>3, <1>4, <2>1, <3>1
  <2> QED
    BY <1>1, <1>2, <1>3, <2>2, <2>3, <2>4 DEF OwnInv
<1>11. KeptInv'
  <2> SUFFICES ASSUME NEW u \in Loggers, NEW k \in 1 .. flushed'[u] PROVE [from |-> u, n |-> k] \in Kept(u)'
    BY DEF KeptInv
  <2>1. k \in 1 .. flushed[u] \/ (u = t /\ k = flushed[t] + 1)
    BY <1>3
  <2>2. CASE k \in 1 .. flushed[u]
    <3>1. [from |-> u, n |-> k] \in Kept(u)
      BY <1>1, <2>2 DEF KeptInv
    <3>2. L!ToSet(front[u]) \subseteq L!ToSet(front'[u])
      BY <1>3, <1>4
    <3> QED
      BY <1>2, <3>1, <3>2 DEF Kept, Passed
  <2>3. CASE u = t /\ k = flushed[t] + 1
    BY <1>3, <1>4, <2>3 DEF Kept, m
  <2> QED
    BY <2>1, <2>2, <2>3
<1>12. FinalInv'
  <2>1. \A u \in Loggers : before'[u] = before[u] /\ before[u] <= flushed'[u]
    BY <1>1, <1>2, <1>3 DEF FinalInv, L!TypeOK
  <2>2. Logged' = Logged /\ \A u \in Loggers : Passed(u)' = Passed(u)
    BY <1>2 DEF Logged, Passed
  <2>3. at' = at /\ destroying' = destroying /\ created' = created /\ left' = left
    BY <1>2
  <2> QED
    BY <1>1, <2>1, <2>2, <2>3 DEF FinalInv, FinalControl, FinalMessages, L!HasService
<1> QED
  BY <1>5, <1>6, <1>9, <1>10, <1>11, <1>12

Data ==
  /\ entries \subseteq Loggers
  /\ front \in [Loggers -> Seq(L!Messages)] /\ back \in [Loggers -> Seq(L!Messages)]
  /\ temp \in Seq(L!Messages) /\ log \in Seq(L!Messages) /\ flushed \in [Loggers -> 0 .. MaxMessages]
  /\ left \subseteq L!Messages
  /\ \A t \in Loggers \ entries : front[t] = <<>> /\ back[t] = <<>>

\* commit() swaps the buffers: what all threads have sent is then to be collected.
LEMMA SwapStep ==
  ASSUME LogInv, ~undefined, NEW c \in L!Committers, NEW where \in {"committing", "last"},
         L!Swap, L!Goes(c, where)
  PROVE  /\ Data'
         /\ ~undefined' => /\ (IdleInv /\ OrderInv /\ OwnInv /\ KeptInv)'
                           /\ \A t \in Loggers : \A k \in 1 .. flushed[t] : [from |-> t, n |-> k] \in Passed(t)'
                           /\ Logged' = Logged /\ \A t \in Loggers : Passed(t) \subseteq Passed(t)'
<1>1. LogTyped /\ IdleInv /\ OrderInv /\ OwnInv /\ KeptInv /\ left \subseteq L!Messages
  BY LogTypes DEF LogInv, L!TypeOK
<1>2. /\ front' = back /\ back' = front /\ (~undefined' => L!Reading = {})
      /\ UNCHANGED <<entries, temp, log, flushed, left>>
  BY DEF L!Swap
<1>3. Data'
  BY <1>1, <1>2 DEF LogTyped, Data
<1>4. ASSUME ~undefined'
      PROVE  /\ (IdleInv /\ OrderInv /\ OwnInv /\ KeptInv)'
             /\ \A t \in Loggers : \A k \in 1 .. flushed[t] : [from |-> t, n |-> k] \in Passed(t)'
             /\ Logged' = Logged /\ \A t \in Loggers : Passed(t) \subseteq Passed(t)'
  <2>1. temp = <<>> /\ \A t \in Loggers : back[t] = <<>>
    BY <1>1, <1>2, <1>4 DEF IdleInv
  <2>2. c \in L!Reading'
    BY <1>1 DEF L!Goes, L!Reading, LogTyped
  <2>3. IdleInv'
    BY <2>2 DEF IdleInv
  <2>4. \A t \in Loggers : front[t] \in Seq(L!Messages) /\ back[t] \in Seq(L!Messages)
    BY <1>1 DEF LogTyped
  <2>5. OrderInv'
    <3>1. \A t \in Loggers : Behind(front[t], back[t])
      BY <2>1, <2>4, OfNothing
    <3> QED
      BY <1>1, <1>2, <3>1 DEF OrderInv
  <2>6. OwnInv'
    BY <1>1, <1>2 DEF OwnInv
  <2>7. \A t \in Loggers : \A k \in 1 .. flushed[t] : [from |-> t, n |-> k] \in Passed(t)'
    <3>1. \A t \in Loggers : Kept(t) = L!ToSet(log) \cup L!ToSet(temp) \cup left \cup L!ToSet(front[t])
      <4>1. L!ToSet(<<>>) = {}
        BY <2>4, OfNothing, LogConstants DEF LogHas
      <4> QED
        BY <2>1, <4>1 DEF Kept, Passed
    <3> QED
      BY <1>1, <1>2, <3>1 DEF KeptInv, Passed
  <2>8. KeptInv'
    BY <1>2, <2>7 DEF KeptInv, Kept
  <2>9. Logged' = Logged /\ \A t \in Loggers : Passed(t) \subseteq Passed(t)'
    <3>1. L!ToSet(<<>>) = {}
      BY <2>4, OfNothing, LogConstants DEF LogHas
    <3> QED
      BY <1>2, <2>1, <3>1 DEF Logged, Passed
  <2> QED
    BY <2>3, <2>5, <2>6, <2>7, <2>8, <2>9
<1> QED
  BY <1>3, <1>4

\* What was swapped away is collected.
LEMMA CollectStep ==
  ASSUME LogInv, ~undefined, NEW t \in Loggers, L!Collect(t), L!Reading # {}
  PROVE  /\ Data' /\ (IdleInv /\ OrderInv /\ OwnInv /\ KeptInv)'
         /\ Logged' = Logged /\ \A u \in Loggers : Passed(u) \subseteq Passed(u)'
<1>1. LogTyped /\ IdleInv /\ OrderInv /\ OwnInv /\ KeptInv /\ left \subseteq L!Messages
  BY LogTypes DEF LogInv, L!TypeOK
<1>2. /\ temp' = temp \o back[t] /\ back' = [back EXCEPT ![t] = <<>>]
      /\ UNCHANGED <<at, entries, front, log, flushed, left>>
  BY DEF L!Collect, L!history
<1>3. /\ back[t] \in Seq(L!Messages) /\ back'[t] = <<>> /\ \A u \in Loggers : u # t => back'[u] = back[u]
      /\ temp \in Seq(L!Messages) /\ log \in Seq(L!Messages)
      /\ \A u \in Loggers : back[u] \in Seq(L!Messages) /\ front[u] \in Seq(L!Messages)
  BY <1>1, <1>2 DEF LogTyped
<1>4. <<>> \in Seq(L!Messages) /\ L!ToSet(<<>>) = {} /\ temp' \in Seq(L!Messages)
  BY <1>2, <1>3, OfNothing
<1>5. Data'
  <2>1. back' \in [Loggers -> Seq(L!Messages)]
    BY <1>1, <1>2, <1>4 DEF LogTyped
  <2> QED
    BY <1>1, <1>2, <1>3, <1>4, <2>1 DEF LogTyped, Data
<1>6. IdleInv'
  BY <1>2 DEF IdleInv, L!Reading
<1>7. L!ToSet(temp') = L!ToSet(temp) \cup L!ToSet(back[t])
  BY <1>2, <1>3, SetOfBoth
<1>8. OrderInv'
  <2>1. InOrder(temp') /\ Behind(log, temp')
    BY <1>1, <1>2, <1>3, OrderOfBoth, BehindBoth DEF OrderInv
  <2>2. \A u \in Loggers : u # t => Behind(back[t], back[u]) /\ Behind(back[t], front[u])
    BY <1>1 DEF OwnInv, Behind
  <2>3. Behind(back[t], front[t])
    BY <1>1 DEF OrderInv
  <2>4. \A u \in Loggers : /\ InOrder(back'[u]) /\ Behind(back'[u], front[u]) /\ Behind(log, back'[u])
                           /\ Behind(back[t], back'[u]) /\ Behind(temp, back'[u])
    <3> SUFFICES ASSUME NEW u \in Loggers
                 PROVE  /\ InOrder(back'[u]) /\ Behind(back'[u], front[u]) /\ Behind(log, back'[u])
                        /\ Behind(back[t], back'[u]) /\ Behind(temp, back'[u])
      OBVIOUS
    <3>1. CASE u = t
      BY <1>3, <3>1, OfNothing
    <3>2. CASE u # t
      BY <1>1, <1>3, <2>2, <3>2 DEF OrderInv
    <3> QED
      BY <3>1, <3>2
  <2>5. \A u \in Loggers : Behind(temp', back'[u]) /\ Behind(temp', front[u])
    <3>1. \A u \in Loggers : Behind(temp, front[u]) /\ Behind(back[t], front[u]) /\ back'[u] \in Seq(L!Messages)
      BY <1>1, <1>3, <1>4, <2>2, <2>3 DEF OrderInv
    <3> QED
      BY <1>2, <1>3, <2>4, <3>1, BehindBoth
  <2> QED
    BY <1>1, <1>2, <2>1, <2>4, <2>5 DEF OrderInv
<1>9. OwnInv'
  <2>1. \A i \in 1 .. Len(back'[t]) : back'[t][i].from = t
    BY <1>3
  <2>2. \A x \in L!ToSet(back[t]) : x.from = t
    BY <1>1, <1>3 DEF OwnInv, L!ToSet
  <2>3. \A x \in L!ToSet(temp') : x.n <= flushed[x.from]
    BY <1>1, <1>7, <2>2 DEF OwnInv
  <2>4. \A u \in Loggers : \A x \in L!ToSet(back'[u]) : x.n <= flushed[u]
    BY <1>1, <1>3, <1>4 DEF OwnInv
  <2> QED
    BY <1>1, <1>2, <1>3, <2>1, <2>3, <2>4 DEF OwnInv
<1>10. Logged' = Logged /\ \A u \in Loggers : Passed(u) \subseteq Passed(u)'
  <2>1. \A u \in Loggers : L!ToSet(back[u]) \subseteq L!ToSet(back'[u]) \cup L!ToSet(temp')
    BY <1>3, <1>7
  <2> QED
    BY <1>2, <1>7, <2>1 DEF Logged, Passed
<1>11. KeptInv'
  BY <1>1, <1>2, <1>10 DEF KeptInv, Kept
<1> QED
  BY <1>5, <1>6, <1>8, <1>9, <1>10, <1>11

\* What was collected is written.
LEMMA WriteStep ==
  ASSUME LogInv, ~undefined, L!Write
  PROVE  /\ Data' /\ (IdleInv /\ OrderInv /\ OwnInv /\ KeptInv)'
         /\ Logged \subseteq Logged' /\ \A u \in Loggers : Passed(u) \subseteq Logged'
<1>1. LogTyped /\ IdleInv /\ OrderInv /\ OwnInv /\ KeptInv /\ left \subseteq L!Messages
  BY LogTypes DEF LogInv, L!TypeOK
<1>2. /\ log' = log \o temp /\ temp' = <<>> /\ \A t \in Loggers : back[t] = <<>>
      /\ UNCHANGED <<entries, front, back, flushed, left>>
  BY <1>1 DEF L!Write, L!history, LogTyped
<1>3. /\ temp \in Seq(L!Messages) /\ log \in Seq(L!Messages)
      /\ \A u \in Loggers : back[u] \in Seq(L!Messages) /\ front[u] \in Seq(L!Messages)
  BY <1>1 DEF LogTyped
<1>4. <<>> \in Seq(L!Messages) /\ L!ToSet(<<>>) = {} /\ log' \in Seq(L!Messages)
  BY <1>2, <1>3, OfNothing
<1>5. Data'
  BY <1>1, <1>2, <1>4 DEF LogTyped, Data
<1>6. IdleInv'
  BY <1>2 DEF IdleInv
<1>7. L!ToSet(log') = L!ToSet(log) \cup L!ToSet(temp)
  BY <1>2, <1>3, SetOfBoth
<1>8. OrderInv'
  <2>1. InOrder(log')
    BY <1>1, <1>2, <1>3, OrderOfBoth DEF OrderInv
  <2>2. InOrder(temp') /\ Behind(log', temp')
    BY <1>2, <1>4, OfNothing
  <2>3. \A u \in Loggers : /\ Behind(log', back[u]) /\ Behind(log', front[u])
                           /\ Behind(temp', back[u]) /\ Behind(temp', front[u])
    BY <1>1, <1>2, <1>3, BehindBoth, OfNothing DEF OrderInv
  <2> QED
    BY <1>1, <1>2, <2>1, <2>2, <2>3 DEF OrderInv
<1>9. OwnInv'
  BY <1>1, <1>2, <1>4, <1>7 DEF OwnInv
<1>10. Logged \subseteq Logged' /\ \A u \in Loggers : Passed(u) \subseteq Logged'
  <2>1. \A u \in Loggers : L!ToSet(back[u]) = {}
    BY <1>2, <1>4
  <2> QED
    BY <1>2, <1>7, <2>1 DEF Logged, Passed
<1>11. KeptInv'
  BY <1>1, <1>2, <1>10 DEF KeptInv, Kept, Passed, Logged
<1> QED
  BY <1>5, <1>6, <1>8, <1>9, <1>10, <1>11

\* The buffers of a thread that ends are erased.
LEMMA ExitedStep ==
  ASSUME LogInv, ~undefined, NEW t \in Loggers, L!Exited(t)
  PROVE  /\ Data'
         /\ ~undefined' => /\ (IdleInv /\ OrderInv /\ OwnInv /\ KeptInv)'
                           /\ Logged \subseteq Logged' /\ \A u \in Loggers : Passed(u) \subseteq Passed(u)'
                           /\ L!HasService => left' = left
<1>1. LogTyped /\ IdleInv /\ OrderInv /\ OwnInv /\ KeptInv /\ left \subseteq L!Messages
  BY LogTypes DEF LogInv, L!TypeOK
<1>2. /\ entries' = entries \ {t} /\ front' = [front EXCEPT ![t] = <<>>] /\ back' = [back EXCEPT ![t] = <<>>]
      /\ left' = left \cup L!ToSet(front[t]) \cup L!ToSet(back[t])
      /\ UNCHANGED <<temp, log, flushed>>
      /\ (~undefined' => L!Reading = {})
      /\ (L!HasService => ~L!Available)
      /\ L!Goes(t, "gone") /\ at[t] = "exiting"
  BY DEF L!Exited, L!Erase
<1>3. /\ temp \in Seq(L!Messages) /\ log \in Seq(L!Messages)
      /\ \A u \in Loggers : back[u] \in Seq(L!Messages) /\ front[u] \in Seq(L!Messages)
      /\ front'[t] = <<>> /\ back'[t] = <<>>
      /\ \A u \in Loggers : u # t => front'[u] = front[u] /\ back'[u] = back[u]
  BY <1>1, <1>2 DEF LogTyped
<1>4. <<>> \in Seq(L!Messages) /\ L!ToSet(<<>>) = {}
  BY <1>3, OfNothing
<1>5. Data'
  <2>1. front' \in [Loggers -> Seq(L!Messages)] /\ back' \in [Loggers -> Seq(L!Messages)]
    BY <1>1, <1>2, <1>4 DEF LogTyped
  <2>2. left' \subseteq L!Messages
    BY <1>1, <1>2, <1>3, MessagesOf
  <2>3. \A u \in Loggers \ entries' : front'[u] = <<>> /\ back'[u] = <<>>
    BY <1>1, <1>2, <1>3 DEF LogTyped
  <2> QED
    BY <1>1, <1>2, <2>1, <2>2, <2>3 DEF LogTyped, Data
<1>6. ASSUME ~undefined'
      PROVE  /\ (IdleInv /\ OrderInv /\ OwnInv /\ KeptInv)'
             /\ Logged \subseteq Logged' /\ \A u \in Loggers : Passed(u) \subseteq Passed(u)'
             /\ L!HasService => left' = left
  <2>1. temp = <<>> /\ \A u \in Loggers : back[u] = <<>>
    BY <1>1, <1>2, <1>6 DEF IdleInv
  <2>2. IdleInv'
    BY <1>2, <1>3, <2>1 DEF IdleInv
  <2>3. OrderInv'
    <3>1. /\ InOrder(<<>>) /\ Behind(log, <<>>) /\ Behind(temp, <<>>) /\ Behind(<<>>, <<>>)
      BY <1>3, <1>4, OfNothing
    <3> QED
      BY <1>1, <1>2, <1>3, <3>1 DEF OrderInv
  <2>4. OwnInv'
    <3>1. \A u \in Loggers : /\ \A i \in 1 .. Len(back'[u]) : back'[u][i].from = u
                             /\ \A i \in 1 .. Len(front'[u]) : front'[u][i].from = u
      <4>1. \A i \in 1 .. Len(<<>>) : FALSE
        OBVIOUS
      <4> QED
        BY <1>1, <1>3, <4>1 DEF OwnInv
    <3>2. \A u \in Loggers : \A x \in L!ToSet(back'[u]) \cup L!ToSet(front'[u]) : x.n <= flushed[u]
      BY <1>1, <1>3, <1>4 DEF OwnInv
    <3> QED
      BY <1>1, <1>2, <3>1, <3>2 DEF OwnInv
  <2>5. Logged \subseteq Logged' /\ \A u \in Loggers : Passed(u) \subseteq Passed(u)'
    BY <1>2, <1>3, <1>4, <2>1 DEF Logged, Passed
  <2>6. \A u \in Loggers : Kept(u) \subseteq Kept(u)'
    BY <1>2, <1>3, <2>5 DEF Kept, Passed
  <2>7. KeptInv'
    BY <1>1, <1>2, <2>6 DEF KeptInv
  <2>8. L!HasService => left' = left
    <3>1. L!HasService => front[t] = <<>>
      BY <1>1, <1>2 DEF L!Available, LogTyped
    <3> QED
      BY <1>2, <1>4, <2>1, <3>1
  <2> QED
    BY <2>2, <2>3, <2>4, <2>5, <2>7, <2>8
<1> QED
  BY <1>5, <1>6

----------------------------------------------------------------------------
\* Every step keeps the types.
LEMMA LogTypesStep ==
  ASSUME LogInv, ~undefined, L!Next, Data', undefined' \in BOOLEAN
  PROVE  L!TypeOK'
<1> USE LogConstants DEF LogHas
<1>1. L!TypeOK
  BY DEF LogInv
<1>2. at' \in [L!Committers -> Places]
  <2>1. at \in [L!Committers -> Places] /\ Loggers \subseteq L!Committers /\ LoggingThread \in L!Committers
    BY <1>1 DEF L!TypeOK, Places, L!Committers
  <2>2. at' = at \/ \E c \in L!Committers, where \in Places : L!Goes(c, where)
    BY <2>1 DEF L!Next, L!Flush, L!Commit, L!Exit, L!Client, L!Committed, L!Exited, L!CreateService, L!Collects, L!Collect,
       L!Serving, L!Serve, L!Served, L!Finalize, L!FinalizeAlone, L!Finalizing, L!Waited, L!SetDestroying, L!Join,
       L!LastWritten, Places
  <2> QED
    BY <2>1, <2>2 DEF L!Goes
<1>3. destroying' \in BOOLEAN /\ created' \in BOOLEAN /\ before' \in [Loggers -> 0 .. MaxMessages]
  <2>1. /\ destroying' = destroying \/ destroying' = TRUE
        /\ created' = created /\ before' \in {before, flushed}
    BY DEF L!Next, L!Flush, L!Commit, L!Swap, L!history, L!Exit, L!Client, L!Committed, L!Write, L!Exited, L!CreateService,
       L!Collects, L!Collect, L!Serving, L!Serve, L!Served, L!Finalize, L!FinalizeAlone, L!Finalizing, L!Waited,
       L!SetDestroying, L!Join, L!LastWritten
  <2> QED
    BY <1>1, <2>1 DEF L!TypeOK
<1> QED
  BY <1>2, <1>3 DEF L!TypeOK, Data, Places

\* A step of a thread that is neither the one that finalizes nor the logging
\* thread loses nothing that is on its way.
LEMMA FinalStill ==
  ASSUME FinalInv, UNCHANGED <<destroying, before, created, flushed>>,
         at'[Main] = at[Main], at'[LoggingThread] = at[LoggingThread], created => left' = {},
         Logged \subseteq Logged', \A u \in Loggers : Passed(u) \subseteq Passed(u)'
  PROVE  FinalInv'
<1>1. FinalControl'
  BY DEF FinalInv, FinalControl, L!HasService
<1>2. FinalMessages'
  BY DEF FinalInv, FinalMessages
<1>3. \A t \in Loggers : before'[t] <= flushed'[t]
  BY DEF FinalInv
<1> QED
  BY <1>1, <1>2, <1>3 DEF FinalInv

\* What a thread's going elsewhere does to the others.
LEMMA GoesElsewhere ==
  ASSUME at \in [L!Committers -> Places], NEW c \in L!Committers, NEW where, L!Goes(c, where)
  PROVE  at'[c] = where /\ \A d \in L!Committers : d # c => at'[d] = at[d]
  BY DEF L!Goes

\* commit(), up to its wait for the logging thread
LEMMA CommitStep ==
  ASSUME LogInv, ~undefined, NEW t \in Loggers, L!Commit(t)
  PROVE  Data' /\ (~undefined' => (IdleInv /\ OrderInv /\ OwnInv /\ KeptInv /\ FinalInv)')
<1> USE LogConstants DEF LogHas
<1>1. LogTyped /\ FinalInv /\ t \in L!Committers /\ Main \in L!Committers /\ LoggingThread \in L!Committers
  BY LogTypes DEF LogInv, L!Committers
<1>2. /\ at[t] = "out" /\ ~L!HasService /\ L!Swap /\ L!Goes(t, "committing")
      /\ UNCHANGED <<destroying, created, before, flushed, left>>
  BY DEF L!Commit, L!Swap
<1>3. at'[t] = "committing" /\ \A d \in L!Committers : d # t => at'[d] = at[d]
  BY <1>1, <1>2, GoesElsewhere DEF LogTyped
<1>4. ASSUME ~undefined' PROVE FinalInv'
  <2>1. Logged' = Logged /\ \A u \in Loggers : Passed(u) \subseteq Passed(u)'
    BY <1>1, <1>2, <1>4, SwapStep
  <2>2. CASE t # Main
    <3>1. at'[Main] = at[Main] /\ at'[LoggingThread] = at[LoggingThread]
      BY <1>1, <1>3, <2>2
    <3>2. created => left' = {}
      BY <1>1, <1>2 DEF FinalInv, FinalControl
    <3> QED
      BY <1>1, <1>2, <2>1, <3>1, <3>2, FinalStill
  <2>3. CASE t = Main
    <3>1. at'[Main] = "committing" /\ at'[LoggingThread] = at[LoggingThread]
      BY <1>1, <1>3, <2>3
    <3>2. FinalControl'
      BY <1>1, <1>2, <2>3, <3>1 DEF FinalInv, FinalControl, L!HasService
    <3>3. FinalMessages'
      BY <3>1 DEF FinalMessages
    <3> QED
      BY <1>1, <1>2, <3>2, <3>3 DEF FinalInv
  <2> QED
    BY <2>2, <2>3
<1> QED
  BY <1>1, <1>2, <1>4, SwapStep

\* ... and its return
LEMMA CommittedStep ==
  ASSUME LogInv, ~undefined, NEW t \in Loggers, L!Committed(t)
  PROVE  Data' /\ (IdleInv /\ OrderInv /\ OwnInv /\ KeptInv /\ FinalInv)'
<1> USE LogConstants DEF LogHas
<1>1. LogTyped /\ FinalInv /\ t \in L!Committers /\ Main \in L!Committers /\ LoggingThread \in L!Committers
  BY LogTypes DEF LogInv, L!Committers
<1>2. /\ at[t] = "committing" /\ L!Write /\ L!Goes(t, "out")
      /\ UNCHANGED <<destroying, created, before, flushed, left>>
  BY DEF L!Committed, L!Write, L!history
<1>3. at'[t] = "out" /\ \A d \in L!Committers : d # t => at'[d] = at[d]
  BY <1>1, <1>2, GoesElsewhere DEF LogTyped
<1>4. Logged \subseteq Logged' /\ \A u \in Loggers : Passed(u) \subseteq Passed(u)'
  BY <1>2, WriteStep DEF Passed, Logged
<1>5. CASE t # Main
  <2>1. at'[Main] = at[Main] /\ at'[LoggingThread] = at[LoggingThread]
    BY <1>1, <1>3, <1>5
  <2>2. created => left' = {}
    BY <1>1, <1>2 DEF FinalInv, FinalControl
  <2> QED
    BY <1>1, <1>2, <1>4, <2>1, <2>2, FinalStill, WriteStep
<1>6. CASE t = Main
  <2>1. at'[Main] = "out" /\ at'[LoggingThread] = at[LoggingThread]
    BY <1>1, <1>3, <1>6
  <2>2. FinalControl'
    BY <1>1, <1>2, <1>6, <2>1 DEF FinalInv, FinalControl, L!HasService
  <2>3. FinalMessages'
    BY <2>1 DEF FinalMessages
  <2> QED
    BY <1>1, <1>2, <2>2, <2>3, WriteStep DEF FinalInv
<1> QED
  BY <1>5, <1>6

\* The logging thread wakes up to swap the buffers,
LEMMA ServeStep ==
  ASSUME LogInv, ~undefined, L!Serve
  PROVE  Data' /\ (~undefined' => (IdleInv /\ OrderInv /\ OwnInv /\ KeptInv /\ FinalInv)')
<1> USE LogConstants DEF LogHas
<1>1. LogTyped /\ L!TypeOK /\ FinalInv /\ Main \in L!Committers /\ LoggingThread \in L!Committers
  BY LogTypes DEF LogInv, L!Committers
<1>2. /\ at[LoggingThread] = "out" /\ L!Swap /\ L!Goes(LoggingThread, "committing")
      /\ UNCHANGED <<destroying, created, before, flushed, left>>
  BY DEF L!Serve, L!Swap
<1>3. at'[LoggingThread] = "committing" /\ at'[Main] = at[Main]
  BY <1>1, <1>2, GoesElsewhere DEF LogTyped
<1>4. ASSUME ~undefined' PROVE FinalInv'
  <2>1. FinalControl'
    BY <1>1, <1>2, <1>3 DEF FinalInv, FinalControl, L!HasService
  <2>2. FinalMessages'
    <3> SUFFICES ASSUME NEW u \in Loggers, NEW k \in 1 .. before[u]
                 PROVE  /\ [from |-> u, n |-> k] \in Passed(u)'
                        /\ at[Main] # "last"
                        /\ at[Main] = "finalized" => [from |-> u, n |-> k] \in Logged'
      BY <1>2, <1>3 DEF FinalMessages
    <3>1. k \in 1 .. flushed[u]
      <4>1. before[u] <= flushed[u] /\ before[u] \in Int /\ flushed[u] \in Int
        BY <1>1 DEF FinalInv, L!TypeOK
      <4> QED
        BY <4>1
    <3>2. [from |-> u, n |-> k] \in Passed(u)'
      BY <1>1, <1>2, <1>4, <3>1, SwapStep
    <3>3. at[Main] # "last"
      BY <1>1, <1>2 DEF FinalInv, FinalControl, L!HasService
    <3>4. at[Main] = "finalized" => [from |-> u, n |-> k] \in Logged'
      <4>1. Logged' = Logged
        BY <1>1, <1>2, <1>4, SwapStep
      <4> QED
        BY <1>1, <4>1 DEF FinalInv, FinalMessages
    <3> QED
      BY <3>2, <3>3, <3>4
  <2> QED
    BY <1>1, <1>2, <2>1, <2>2 DEF FinalInv
<1> QED
  BY <1>1, <1>2, <1>4, SwapStep

\* ... and has written what it swapped.
LEMMA ServedStep ==
  ASSUME LogInv, ~undefined, L!Served
  PROVE  Data' /\ (IdleInv /\ OrderInv /\ OwnInv /\ KeptInv /\ FinalInv)'
<1> USE LogConstants DEF LogHas
<1>1. LogTyped /\ FinalInv /\ Main \in L!Committers /\ LoggingThread \in L!Committers
  BY LogTypes DEF LogInv, L!Committers
<1>2. /\ at[LoggingThread] = "committing" /\ L!Write
      /\ L!Goes(LoggingThread, IF destroying THEN "ended" ELSE "out")
      /\ UNCHANGED <<destroying, created, before, flushed, left>>
  BY DEF L!Served, L!Write, L!history
<1>3. at'[LoggingThread] = (IF destroying THEN "ended" ELSE "out") /\ at'[Main] = at[Main]
  BY <1>1, <1>2, GoesElsewhere DEF LogTyped
<1>4. Logged \subseteq Logged' /\ \A u \in Loggers : Passed(u) \subseteq Logged'
  BY <1>2, WriteStep
<1>5. FinalControl'
  BY <1>1, <1>2, <1>3 DEF FinalInv, FinalControl, L!HasService
<1>6. FinalMessages'
  <2>1. at[Main] # "last" /\ at'[LoggingThread] # "committing"
    BY <1>1, <1>2, <1>3 DEF FinalInv, FinalControl, L!HasService
  <2> QED
    BY <1>1, <1>2, <1>3, <1>4, <2>1 DEF FinalInv, FinalMessages
<1> QED
  BY <1>1, <1>2, <1>5, <1>6, WriteStep DEF FinalInv

\* It takes over the second buffer of one thread.
LEMMA CollectsStep ==
  ASSUME LogInv, ~undefined, L!Collects
  PROVE  Data' /\ (IdleInv /\ OrderInv /\ OwnInv /\ KeptInv /\ FinalInv)'
<1>1. PICK t \in entries : L!Collect(t)
  BY DEF L!Collects
<1>2. t \in Loggers /\ L!Reading # {} /\ FinalInv
  BY LogTypes DEF L!Collects, LogInv, LogTyped
<1>3. UNCHANGED <<at, destroying, before, created, flushed, left>>
  BY <1>1 DEF L!Collect, L!history
<1>4. created => left' = {}
  BY <1>2, <1>3 DEF FinalInv, FinalControl
<1> QED
  BY <1>1, <1>2, <1>3, <1>4, CollectStep, FinalStill

\* A thread that has logged ends.
LEMMA ExitStep ==
  ASSUME LogInv, ~undefined, NEW t \in Loggers, L!Exit(t)
  PROVE  Data' /\ (IdleInv /\ OrderInv /\ OwnInv /\ KeptInv /\ FinalInv)'
<1> USE LogConstants DEF LogHas
<1>1. /\ LogTyped /\ L!TypeOK /\ FinalInv /\ Main \in L!Committers /\ LoggingThread \in L!Committers
      /\ \A u \in Loggers : u \in L!Committers
  BY LogTypes DEF LogInv, L!Committers
<1>2. /\ at[t] = "out" /\ t # Main /\ L!Goes(t, IF t \in entries THEN "exiting" ELSE "gone")
      /\ UNCHANGED <<entries, front, back, temp, log, destroying, created, flushed, before, left>>
  BY DEF L!Exit, L!buffers, L!history
<1>3. at'[Main] = at[Main] /\ at'[LoggingThread] = at[LoggingThread]
  BY <1>1, <1>2, GoesElsewhere DEF LogTyped
<1>4. L!Reading' = L!Reading
  BY <1>1, <1>2, ReadingStill DEF LogTyped
<1>5. created => left' = {}
  BY <1>1, <1>2 DEF FinalInv, FinalControl
<1>6. FinalInv'
  BY <1>1, <1>2, <1>3, <1>5, FinalStill DEF Logged, Passed
<1>7. Data'
  BY <1>1, <1>2 DEF LogTyped, Data, L!TypeOK
<1> QED
  BY <1>2, <1>4, <1>6, <1>7, StillStep

\* What finalize() relies on outlives the logging thread.
LEMMA ExitedFinal ==
  ASSUME LogInv, ~undefined, NEW t \in Loggers, L!Exited(t), ~undefined'
  PROVE  FinalInv'
<1> USE LogConstants DEF LogHas
<1>1. /\ LogTyped /\ L!TypeOK /\ FinalInv /\ Main \in L!Committers /\ LoggingThread \in L!Committers
      /\ \A u \in Loggers : u \in L!Committers
  BY LogTypes DEF LogInv, L!Committers
<1>2. /\ at[t] = "exiting" /\ L!Goes(t, "gone") /\ UNCHANGED <<destroying, created, flushed, before>>
  BY DEF L!Exited
<1>3. t # Main
  BY <1>1, <1>2 DEF FinalInv, FinalControl
<1>4. at'[Main] = at[Main] /\ at'[LoggingThread] = at[LoggingThread]
  BY <1>1, <1>2, <1>3, GoesElsewhere DEF LogTyped
<1>5. created => left' = {}
  BY <1>1, ExitedStep DEF FinalInv, FinalControl
<1> QED
  BY <1>1, <1>2, <1>4, <1>5, ExitedStep, FinalStill

\* The steps of finalize(), and of the thread's creation, that touch no message.
LEMMA ControlStep ==
  ASSUME LogInv, ~undefined,
         L!CreateService \/ L!Finalize \/ L!Waited \/ L!SetDestroying \/ L!Join
  PROVE  Data' /\ (IdleInv /\ OrderInv /\ OwnInv /\ KeptInv /\ FinalInv)'
<1> USE LogConstants DEF LogHas
<1>1. /\ LogTyped /\ L!TypeOK /\ FinalInv /\ Main \in L!Committers /\ LoggingThread \in L!Committers
      /\ \A u \in Loggers : u \in L!Committers
  BY LogTypes DEF LogInv, L!Committers
<1> DEFINE Untouched == UNCHANGED <<entries, front, back, temp, log, created, flushed, left>>
<1>2. ASSUME Untouched, L!Reading' = L!Reading PROVE Data' /\ (IdleInv /\ OrderInv /\ OwnInv /\ KeptInv)'
  <2>1. Data'
    BY <1>1, <1>2 DEF LogTyped, Data, L!TypeOK
  <2> QED
    BY <1>2, <2>1, StillStep
<1>3. Untouched => Logged' = Logged /\ \A u \in Loggers : Passed(u)' = Passed(u)
  BY DEF Logged, Passed
<1>4. CASE L!CreateService
  <2>1. /\ at[LoggingThread] = "none" /\ at[Main] = "out" /\ L!Goes(LoggingThread, "out")
        /\ Untouched /\ UNCHANGED <<destroying, before>>
    BY <1>4 DEF L!CreateService, L!HasService, L!buffers, L!history
  <2>2. at'[LoggingThread] = "out" /\ at'[Main] = "out"
    BY <1>1, <2>1, GoesElsewhere DEF LogTyped
  <2>3. L!Reading' = L!Reading
    BY <1>1, <2>1, ReadingStill DEF LogTyped
  <2>4. FinalControl'
    BY <1>1, <2>1, <2>2 DEF FinalInv, FinalControl, L!HasService
  <2>5. FinalMessages'
    BY <2>2 DEF FinalMessages
  <2> QED
    BY <1>1, <1>2, <2>1, <2>3, <2>4, <2>5 DEF FinalInv
<1>5. CASE L!Finalize
  <2>1. /\ at[Main] = "out" /\ L!HasService /\ L!Goes(Main, "finalizing")
        /\ Untouched /\ UNCHANGED <<destroying, before>>
    BY <1>5 DEF L!Finalize, L!buffers, L!history
  <2>2. at'[LoggingThread] = at[LoggingThread] /\ at'[Main] = "finalizing"
    BY <1>1, <2>1, GoesElsewhere DEF LogTyped
  <2>3. L!Reading' = L!Reading
    BY <1>1, <2>1, ReadingStill DEF LogTyped
  <2>4. FinalControl'
    BY <1>1, <2>1, <2>2 DEF FinalInv, FinalControl, L!HasService
  <2>5. FinalMessages'
    BY <2>2 DEF FinalMessages
  <2> QED
    BY <1>1, <1>2, <2>1, <2>3, <2>4, <2>5 DEF FinalInv
<1>6. CASE L!Waited
  <2>1. /\ at[Main] = "finalizing" /\ L!Goes(Main, "waited")
        /\ Untouched /\ UNCHANGED <<destroying, before>>
    BY <1>6 DEF L!Waited, L!buffers, L!history
  <2>2. at'[LoggingThread] = at[LoggingThread] /\ at'[Main] = "waited"
    BY <1>1, <2>1, GoesElsewhere DEF LogTyped
  <2>3. L!Reading' = L!Reading
    BY <1>1, <2>1, ReadingStill DEF LogTyped
  <2>4. FinalControl'
    BY <1>1, <2>1, <2>2 DEF FinalInv, FinalControl, L!HasService
  <2>5. FinalMessages'
    BY <2>2 DEF FinalMessages
  <2> QED
    BY <1>1, <1>2, <2>1, <2>3, <2>4, <2>5 DEF FinalInv
<1>7. CASE L!SetDestroying
  <2>1. /\ at[Main] = "waited" /\ at[LoggingThread] # "committing" /\ L!Goes(Main, "joining")
        /\ Untouched /\ destroying' = TRUE /\ before' = flushed
    BY <1>7 DEF L!SetDestroying, L!SignalFree, L!buffers
  <2>2. at'[LoggingThread] = at[LoggingThread] /\ at'[Main] = "joining"
    BY <1>1, <2>1, GoesElsewhere DEF LogTyped
  <2>3. L!Reading' = L!Reading
    BY <1>1, <2>1, ReadingStill DEF LogTyped
  <2>4. at[LoggingThread] = "out"
    BY <1>1, <2>1 DEF FinalInv, FinalControl, L!HasService
  <2>5. FinalControl'
    BY <1>1, <2>1, <2>2, <2>4 DEF FinalInv, FinalControl, L!HasService
  <2>6. FinalMessages'
    BY <2>2, <2>4 DEF FinalMessages
  <2>7. \A u \in Loggers : before'[u] <= flushed'[u]
    BY <1>1, <2>1 DEF LogTyped
  <2> QED
    BY <1>2, <2>1, <2>3, <2>5, <2>6, <2>7 DEF FinalInv
<1>8. CASE L!Join
  <2>1. /\ at[Main] = "joining" /\ at[LoggingThread] = "ended" /\ L!Goes(Main, "finalized")
        /\ Untouched /\ UNCHANGED <<destroying, before>>
    BY <1>8 DEF L!Join, L!buffers, L!history
  <2>2. at'[LoggingThread] = "ended" /\ at'[Main] = "finalized"
    BY <1>1, <2>1, GoesElsewhere DEF LogTyped
  <2>3. L!Reading' = L!Reading
    BY <1>1, <2>1, ReadingStill DEF LogTyped
  <2>4. FinalControl'
    BY <1>1, <2>1, <2>2 DEF FinalInv, FinalControl, L!HasService
  <2>5. FinalMessages'
    BY <1>1, <1>3, <2>1, <2>2 DEF FinalInv, FinalMessages
  <2> QED
    BY <1>1, <1>2, <2>1, <2>3, <2>4, <2>5 DEF FinalInv
<1> QED
  BY <1>4, <1>5, <1>6, <1>7, <1>8

\* finalize() without a logging thread.
LEMMA FinalizeAloneStep ==
  ASSUME LogInv, ~undefined, L!FinalizeAlone
  PROVE  Data' /\ (~undefined' => (IdleInv /\ OrderInv /\ OwnInv /\ KeptInv /\ FinalInv)')
<1> USE LogConstants DEF LogHas
<1>1. /\ LogTyped /\ L!TypeOK /\ FinalInv /\ Main \in L!Committers /\ LoggingThread \in L!Committers
      /\ \A u \in Loggers : u \in L!Committers
  BY LogTypes DEF LogInv, L!Committers
<1>2. /\ at[Main] = "out" /\ ~L!HasService /\ L!Swap /\ L!Goes(Main, "last")
      /\ destroying' = TRUE /\ before' = flushed
      /\ UNCHANGED <<created, flushed, left>>
  BY DEF L!FinalizeAlone, L!Swap
<1>3. at'[Main] = "last" /\ at'[LoggingThread] = at[LoggingThread]
  BY <1>1, <1>2, GoesElsewhere DEF LogTyped
<1>4. ASSUME ~undefined' PROVE FinalInv'
  <2>1. FinalControl'
    BY <1>1, <1>2, <1>3 DEF FinalInv, FinalControl, L!HasService
  <2>2. FinalMessages'
    BY <1>1, <1>2, <1>3, <1>4, SwapStep DEF FinalMessages
  <2>3. \A u \in Loggers : before'[u] <= flushed'[u]
    BY <1>1, <1>2 DEF LogTyped
  <2> QED
    BY <2>1, <2>2, <2>3 DEF FinalInv
<1> QED
  BY <1>1, <1>2, <1>4, SwapStep

\* finalize() has written what was left.
LEMMA LastWrittenStep ==
  ASSUME LogInv, ~undefined, L!LastWritten
  PROVE  Data' /\ (IdleInv /\ OrderInv /\ OwnInv /\ KeptInv /\ FinalInv)'
<1> USE LogConstants DEF LogHas
<1>1. /\ LogTyped /\ L!TypeOK /\ FinalInv /\ Main \in L!Committers /\ LoggingThread \in L!Committers
      /\ \A u \in Loggers : u \in L!Committers
  BY LogTypes DEF LogInv, L!Committers
<1>2. /\ at[Main] = "last" /\ L!Write /\ L!Goes(Main, "finalized")
      /\ UNCHANGED <<destroying, created, before, flushed, left>>
  BY DEF L!LastWritten, L!Write, L!history
<1>3. at'[Main] = "finalized" /\ at'[LoggingThread] = at[LoggingThread]
  BY <1>1, <1>2, GoesElsewhere DEF LogTyped
<1>4. FinalControl'
  BY <1>1, <1>2, <1>3 DEF FinalInv, FinalControl, L!HasService
<1>5. FinalMessages'
  BY <1>1, <1>2, <1>3, WriteStep DEF FinalInv, FinalMessages
<1> QED
  BY <1>1, <1>2, <1>4, <1>5, WriteStep DEF FinalInv

----------------------------------------------------------------------------
\* What LogInv says holds throughout.
LEMMA LogInvariant == L!Spec => []LogInv
<1>1. LogInv /\ [L!Next]_(L!vars) => LogInv'
  <2> SUFFICES ASSUME LogInv, [L!Next]_(L!vars) PROVE LogInv'
    OBVIOUS
  <2>1. CASE UNCHANGED L!vars
    BY <2>1 DEF L!vars, LogInv, L!TypeOK, IdleInv, L!Reading, OrderInv, OwnInv, KeptInv, Kept, Passed, Logged,
       FinalInv, FinalControl, FinalMessages, L!HasService
  <2>2. CASE L!Next
    <3>1. ~undefined
      BY <2>2 DEF L!Next
    <3>2. /\ Data' \/ L!TypeOK'
          /\ ~undefined' => (IdleInv /\ OrderInv /\ OwnInv /\ KeptInv /\ FinalInv)'
      <4>1. CASE \E t \in Loggers : L!Flush(t)
        BY <3>1, <4>1, FlushStep
      <4>2. CASE \E t \in Loggers : L!Commit(t) \/ L!Exit(t) \/ L!Client(t)
        BY <3>1, <4>2, CommitStep, ExitStep, CommittedStep, ExitedStep, ExitedFinal DEF L!Client
      <4>3. CASE L!CreateService \/ L!Collects \/ L!Serving \/ L!Finalize \/ L!FinalizeAlone \/ L!Finalizing
        BY <3>1, <4>3, ControlStep, CollectsStep, ServeStep, ServedStep, FinalizeAloneStep, LastWrittenStep
           DEF L!Serving, L!Finalizing
      <4> QED
        BY <2>2, <4>1, <4>2, <4>3 DEF L!Next
    <3>3. undefined' \in BOOLEAN
      <4>1. undefined \in BOOLEAN
        BY DEF LogInv, L!TypeOK
      <4> QED
        BY <2>2, <4>1 DEF L!Next, L!Flush, L!Commit, L!Swap, L!history, L!Exit, L!Client, L!Committed, L!Write, L!Exited,
           L!CreateService, L!Collects, L!Collect, L!Serving, L!Serve, L!Served, L!Finalize, L!FinalizeAlone,
           L!Finalizing, L!Waited, L!SetDestroying, L!Join, L!LastWritten
    <3> QED
      BY <2>2, <3>1, <3>2, <3>3, LogTypesStep DEF LogInv
  <2> QED
    BY <2>1, <2>2
<1> QED
  BY LogInit, <1>1, PTL DEF L!Spec

\* flush() and commit(): no message is lost, doubled or out of its thread's
\* order, and finalize() returns when those logged before are written.
THEOREM LogIsSafe == L!Spec => []LogSafe
<1>1. ASSUME LogInv PROVE LogSafe
  <2> USE LogConstants DEF LogHas
  <2>1. L!TypeOK /\ LogTyped
    BY <1>1, LogTypes DEF LogInv
  <2>2. ASSUME ~undefined PROVE L!NoneLost
    <3>1. OrderInv /\ OwnInv /\ KeptInv /\ FinalInv
      BY <1>1, <2>2 DEF LogInv
    <3> SUFFICES ASSUME NEW t \in Loggers
                 PROVE  /\ \A i, j \in 1 .. Len(L!Stream(t)) :
                             i < j /\ L!Stream(t)[i].from = t /\ L!Stream(t)[j].from = t
                               => L!Stream(t)[i].n < L!Stream(t)[j].n
                        /\ \A k \in 1 .. flushed[t] : [from |-> t, n |-> k] \in L!ToSet(L!Stream(t)) \cup left
                        /\ created => left = {}
      BY <2>2 DEF L!NoneLost
    <3> DEFINE a == log \o temp
               b == back[t] \o front[t]
    <3>2. /\ log \in Seq(L!Messages) /\ temp \in Seq(L!Messages) /\ back[t] \in Seq(L!Messages)
          /\ front[t] \in Seq(L!Messages)
      BY <2>1 DEF LogTyped
    <3>3. a \in Seq(L!Messages) /\ b \in Seq(L!Messages) /\ a \o back[t] \in Seq(L!Messages)
      BY <3>2
    <3>4. InOrder(a) /\ Behind(a, back[t]) /\ Behind(a, front[t])
      BY <3>1, <3>2, OrderOfBoth, BehindBoth DEF OrderInv
    <3>5. InOrder(a \o back[t]) /\ Behind(a \o back[t], front[t])
      <4> HIDE DEF a
      <4>1. InOrder(back[t]) /\ Behind(back[t], front[t])
        BY <3>1 DEF OrderInv
      <4>2. InOrder(a \o back[t])
        BY <3>2, <3>3, <3>4, <4>1, OrderOfBoth
      <4>3. Behind(a \o back[t], front[t])
        BY <3>2, <3>3, <3>4, <4>1, BehindBoth
      <4> QED
        BY <4>2, <4>3
    <3>6. InOrder((a \o back[t]) \o front[t])
      <4> HIDE DEF a
      <4>1. InOrder(front[t])
        BY <3>1 DEF OrderInv
      <4> QED
        BY <3>2, <3>3, <3>5, <4>1, OrderOfBoth
    <3>7. L!Stream(t) = (a \o back[t]) \o front[t]
      BY DEF L!Stream
    <3>8. L!ToSet(L!Stream(t)) = L!ToSet(log) \cup L!ToSet(temp) \cup L!ToSet(back[t]) \cup L!ToSet(front[t])
      <4>1. L!ToSet(a) = L!ToSet(log) \cup L!ToSet(temp)
        BY <3>2, SetOfBoth
      <4> HIDE DEF a
      <4>2. L!ToSet(a \o back[t]) = L!ToSet(a) \cup L!ToSet(back[t])
        BY <3>2, <3>3, SetOfBoth
      <4>3. L!ToSet((a \o back[t]) \o front[t]) = L!ToSet(a \o back[t]) \cup L!ToSet(front[t])
        <5> DEFINE both == a \o back[t]
        <5>1. both \in Seq(L!Messages)
          BY <3>3
        <5> HIDE DEF both
        <5>2. L!ToSet(both \o front[t]) = L!ToSet(both) \cup L!ToSet(front[t])
          BY <3>2, <5>1, SetOfBoth
        <5> QED
          BY <5>2 DEF both
      <4> QED
        BY <3>7, <4>1, <4>2, <4>3
    <3>9. \A k \in 1 .. flushed[t] : [from |-> t, n |-> k] \in L!ToSet(L!Stream(t)) \cup left
      BY <3>1, <3>8 DEF KeptInv, Kept, Passed
    <3>10. created => left = {}
      BY <3>1 DEF FinalInv, FinalControl
    <3>11. InOrder(L!Stream(t))
      BY <3>6, <3>7
    <3> QED
      BY <3>9, <3>10, <3>11 DEF InOrder
  <2>3. ASSUME undefined PROVE L!NoneLost
    BY <2>3 DEF L!NoneLost
  <2>4. L!FinalizedWritten
    BY <1>1 DEF LogInv, FinalInv, FinalMessages, L!FinalizedWritten, Logged
  <2> QED
    BY <2>1, <2>2, <2>3, <2>4 DEF LogSafe
<1> QED
  BY <1>1, LogInvariant, PTL

----------------------------------------------------------------------------
\* Packet connections.

\* The kinds of operations that are under way, and the packets of c.
Under(c) == {k \in P!Kinds : c.own[k] # 0}
HeldBy(c) == P!ToSet(c.queue) \cup ({c.sent} \ {NoPacket})

\* No packet is twice in the queue, or sent while it is.
Distinct(c) ==
  /\ \A i, j \in 1 .. Len(c.queue) : i # j => c.queue[i] # c.queue[j]
  /\ c.sent \notin P!ToSet(c.queue)

\* The packets that a connection has are nobody's to send, and exist.
PacketInv ==
  /\ Distinct(conn) /\ HeldBy(conn) \cap fresh = {}
  /\ life = "alive" => HeldBy(conn) \subseteq stored \cup freed

\* What the outermost callback is; those inside it end with nothing to do.
Pending(cs) == IF cs = <<>> THEN "none" ELSE cs[1][1]
Nested(cs) == \A i \in 2 .. Len(cs) : cs[i][1] = "nothing"

\* Which operations can be under way with one another and with a callback.
Phase(c, what, e) ==
  /\ \A k \in P!Kinds : c.own[k] \in {0, 1}
  /\ c.connected => Under(c) \subseteq {"handshake", "read", "write"}
  /\ ~c.connected => Under(c) \subseteq {"resolve", "connect", "accept"} /\ \A j, k \in Under(c) : j = k
  /\ "handshake" \in Under(c) => "read" \notin Under(c)
  /\ c.connected /\ what \in {"established", "arrived"} => Under(c) \subseteq {"write"}
  /\ "handshake" \in Under(c) /\ ("write" \in Under(c) \/ what = "sent") => e

\* A packet is being sent as long as its write is under way, unless x.
Sending(c, x) ==
  /\ "write" \in Under(c) => c.sent # NoPacket
  /\ x \/ (c.sent # NoPacket => "write" \in Under(c))

Good(c, what, e, x) == Phase(c, what, e) /\ Sending(c, x)

PhaseInv == mixed \/ Good(conn, Pending(calls), early, cut \/ life = "dead")

ConnInv == P!TypeOK /\ used \subseteq {"resolve"} /\ PacketInv /\ Nested(calls) /\ PhaseInv

----------------------------------------------------------------------------
\* What the functions of a connection do to it.
Conns == [opened : BOOLEAN, connected : BOOLEAN, queue : Seq(Packets),
          sent : Packets \cup {NoPacket}, own : [P!Kinds -> Nat], stale : [P!Kinds -> Nat]]

PacketConstants == NoPacket \notin Packets /\ MaxOpens \in Nat /\ MaxArrivals \in Nat /\ MaxDepth \in Nat \ {0}

\* What the assumption says of the constants.
LEMMA ConnConstants == PacketConstants
  BY PartsAssumption DEF P!PacketConnectionAssumption, PacketConstants

\* Nothing is under way when all counts are zero.
LEMMA NoneUnder ==
  ASSUME NEW c \in Conns PROVE c.own = P!NoOps <=> Under(c) = {}
<1>1. c.own \in [P!Kinds -> Nat]
  BY DEF Conns
<1> QED
  BY <1>1 DEF P!NoOps, Under

\* An operation starts.
LEMMA StartOf ==
  ASSUME NEW c \in Conns, NEW k \in P!Kinds
  PROVE  /\ P!Start(c, k) \in Conns
         /\ P!Start(c, k).opened = c.opened /\ P!Start(c, k).connected = c.connected
         /\ P!Start(c, k).queue = c.queue /\ P!Start(c, k).sent = c.sent
         /\ P!Start(c, k).own[k] = c.own[k] + 1
         /\ \A j \in P!Kinds : j # k => P!Start(c, k).own[j] = c.own[j]
         /\ Under(P!Start(c, k)) = Under(c) \cup {k}
<1> DEFINE d == P!Start(c, k)
<1>1. c.own \in [P!Kinds -> Nat]
  BY DEF Conns
<1>2. d = [c EXCEPT !.own = [c.own EXCEPT ![k] = c.own[k] + 1]]
  BY DEF P!Start
<1>3. d \in Conns
  <2>1. c.own[k] + 1 \in Nat
    BY <1>1
  <2>2. [c.own EXCEPT ![k] = c.own[k] + 1] \in [P!Kinds -> Nat]
    BY <1>1, <2>1
  <2> QED
    BY <1>2, <2>2 DEF Conns
<1>4. /\ d.opened = c.opened /\ d.connected = c.connected /\ d.queue = c.queue /\ d.sent = c.sent
      /\ d.own = [c.own EXCEPT ![k] = c.own[k] + 1]
  BY <1>2 DEF Conns
<1>5. d.own[k] = c.own[k] + 1 /\ \A j \in P!Kinds : j # k => d.own[j] = c.own[j]
  BY <1>1, <1>4
<1>6. d.own[k] # 0
  BY <1>1, <1>5
<1> HIDE DEF d
<1>7. Under(d) = Under(c) \cup {k}
  BY <1>5, <1>6 DEF Under
<1> QED
  BY <1>3, <1>4, <1>5, <1>7 DEF d

\* One that was under way completes.
LEMMA DoneOf ==
  ASSUME conn \in Conns, NEW k \in P!Kinds, conn.own[k] > 0
  PROVE  /\ P!Done(k) \in Conns
         /\ P!Done(k).opened = conn.opened /\ P!Done(k).connected = conn.connected
         /\ P!Done(k).queue = conn.queue /\ P!Done(k).sent = conn.sent
         /\ \A j \in P!Kinds : j # k => P!Done(k).own[j] = conn.own[j]
         /\ Under(P!Done(k)) \subseteq Under(conn) /\ Under(conn) \subseteq Under(P!Done(k)) \cup {k}
         /\ k \in Under(conn)
         /\ conn.own[k] = 1 => P!Done(k).own[k] = 0
<1> DEFINE d == P!Done(k)
<1>1. conn.own \in [P!Kinds -> Nat]
  BY DEF Conns
<1>2. d = [conn EXCEPT !.own = [conn.own EXCEPT ![k] = conn.own[k] - 1]]
  BY DEF P!Done
<1>3. d \in Conns
  <2>1. conn.own[k] - 1 \in Nat
    BY <1>1
  <2>2. [conn.own EXCEPT ![k] = conn.own[k] - 1] \in [P!Kinds -> Nat]
    BY <1>1, <2>1
  <2> QED
    BY <1>2, <2>2 DEF Conns
<1>4. /\ d.opened = conn.opened /\ d.connected = conn.connected /\ d.queue = conn.queue /\ d.sent = conn.sent
      /\ d.own = [conn.own EXCEPT ![k] = conn.own[k] - 1]
  BY <1>2 DEF Conns
<1>5. d.own[k] = conn.own[k] - 1 /\ \A j \in P!Kinds : j # k => d.own[j] = conn.own[j]
  BY <1>1, <1>4
<1>6. k \in Under(conn) /\ (conn.own[k] = 1 => d.own[k] = 0)
  BY <1>1, <1>5 DEF Under
<1> HIDE DEF d
<1>7. Under(d) \subseteq Under(conn) /\ Under(conn) \subseteq Under(d) \cup {k}
  BY <1>5, <1>6 DEF Under
<1> QED
  BY <1>3, <1>4, <1>5, <1>6, <1>7 DEF d

\* receive_any() starts a read, if it is connected.
LEMMA ReceiveAnyOf ==
  ASSUME NEW c \in Conns
  PROVE  /\ c.connected => P!ReceiveAny(c) = P!Start(c, "read")
         /\ ~c.connected => P!ReceiveAny(c) = c
  BY DEF P!ReceiveAny

\* close() leaves nothing under way but what has been orphaned.
LEMMA ClosedOf ==
  ASSUME NEW c \in Conns
  PROVE  /\ P!Closed(c) \in Conns /\ ~P!Closed(c).opened /\ ~P!Closed(c).connected
         /\ P!Closed(c).queue = c.queue /\ P!Closed(c).sent = c.sent
         /\ Under(P!Closed(c)) = {} /\ P!Closed(c).own = P!NoOps
<1>1. c.own \in [P!Kinds -> Nat] /\ c.stale \in [P!Kinds -> Nat]
  BY DEF Conns
<1>2. P!NoOps \in [P!Kinds -> Nat] /\ [k \in P!Kinds |-> c.stale[k] + c.own[k]] \in [P!Kinds -> Nat]
  BY <1>1 DEF P!NoOps
<1> DEFINE o == P!Orphaned(c)
<1>3. /\ o \in Conns /\ o.queue = c.queue /\ o.sent = c.sent /\ o.own = P!NoOps
  BY <1>2 DEF P!Orphaned, Conns
<1>4. P!Closed(c) = [o EXCEPT !.opened = FALSE, !.connected = FALSE]
  BY DEF P!Closed
<1> HIDE DEF o
<1>5. /\ P!Closed(c) \in Conns /\ ~P!Closed(c).opened /\ ~P!Closed(c).connected
      /\ P!Closed(c).queue = o.queue /\ P!Closed(c).sent = o.sent /\ P!Closed(c).own = o.own
  BY <1>3, <1>4 DEF Conns
<1>6. Under(P!Closed(c)) = {}
  BY <1>3, <1>5, NoneUnder
<1> QED
  BY <1>3, <1>5, <1>6

\* send_any() starts a write with the first packet, or does nothing.
LEMMA SendAnyOf ==
  ASSUME NEW c \in Conns, Distinct(c)
  PROVE  /\ P!SendAny(c) \in Conns
         /\ P!SendAny(c).opened = c.opened /\ P!SendAny(c).connected = c.connected
         /\ Distinct(P!SendAny(c)) /\ HeldBy(P!SendAny(c)) = HeldBy(c)
         /\ \/ P!SendAny(c) = c
            \/ /\ c.connected /\ c.sent = NoPacket /\ P!SendAny(c).sent # NoPacket
               /\ Under(P!SendAny(c)) = Under(c) \cup {"write"}
               /\ P!SendAny(c).own["write"] = c.own["write"] + 1
               /\ \A j \in P!Kinds : j # "write" => P!SendAny(c).own[j] = c.own[j]
<1>1. CASE ~(c.connected /\ c.queue # <<>> /\ c.sent = NoPacket)
  BY <1>1 DEF P!SendAny
<1>2. CASE c.connected /\ c.queue # <<>> /\ c.sent = NoPacket
  <2> DEFINE d == [c EXCEPT !.sent = Head(c.queue), !.queue = Tail(c.queue)]
  <2>1. /\ c.queue \in Seq(Packets) /\ c.queue # <<>> /\ Len(c.queue) \in Nat \ {0}
        /\ Tail(c.queue) \in Seq(Packets) /\ Head(c.queue) \in Packets /\ Head(c.queue) = c.queue[1]
        /\ Len(Tail(c.queue)) = Len(c.queue) - 1
        /\ \A i \in 1 .. Len(c.queue) - 1 : Tail(c.queue)[i] = c.queue[i + 1]
        /\ DOMAIN c.queue = 1 .. Len(c.queue) /\ DOMAIN Tail(c.queue) = 1 .. Len(c.queue) - 1
    BY <1>2 DEF Conns
  <2>2. d \in Conns
    BY <2>1 DEF Conns
  <2>3. /\ d.opened = c.opened /\ d.connected = c.connected /\ d.own = c.own
        /\ d.sent = c.queue[1] /\ d.queue = Tail(c.queue)
    BY <2>1 DEF Conns
  <2>4. \A i \in 1 .. Len(c.queue) : i = 1 \/ (i - 1 \in 1 .. Len(c.queue) - 1 /\ c.queue[i] = Tail(c.queue)[i - 1])
    BY <2>1
  <2>5. \A i \in 1 .. Len(c.queue) - 1 : i + 1 \in 1 .. Len(c.queue) /\ i + 1 # 1
    BY <2>1
  <2>6. P!ToSet(c.queue) = {c.queue[1]} \cup P!ToSet(Tail(c.queue))
    <3>1. ASSUME NEW x \in P!ToSet(c.queue) PROVE x \in {c.queue[1]} \cup P!ToSet(Tail(c.queue))
      <4>1. PICK i \in 1 .. Len(c.queue) : x = c.queue[i]
        BY <2>1, <3>1 DEF P!ToSet
      <4>2. CASE i = 1
        BY <4>1, <4>2
      <4>3. CASE i # 1
        <5>1. i - 1 \in DOMAIN Tail(c.queue) /\ x = Tail(c.queue)[i - 1]
          BY <2>1, <2>4, <4>1, <4>3
        <5> QED
          BY <5>1 DEF P!ToSet
      <4> QED
        BY <4>2, <4>3
    <3>2. ASSUME NEW x \in P!ToSet(Tail(c.queue)) PROVE x \in P!ToSet(c.queue)
      BY <2>1, <2>5, <3>2 DEF P!ToSet
    <3>3. c.queue[1] \in P!ToSet(c.queue)
      BY <2>1 DEF P!ToSet
    <3> QED
      BY <3>1, <3>2, <3>3
  <2>7. Distinct(d)
    <3>1. c.queue[1] \notin P!ToSet(Tail(c.queue))
      BY <2>1, <2>5 DEF Distinct, P!ToSet
    <3>2. \A i, j \in 1 .. Len(Tail(c.queue)) : i # j => Tail(c.queue)[i] # Tail(c.queue)[j]
      <4> SUFFICES ASSUME NEW i \in 1 .. Len(c.queue) - 1, NEW j \in 1 .. Len(c.queue) - 1, i # j
                   PROVE  Tail(c.queue)[i] # Tail(c.queue)[j]
        BY <2>1
      <4>1. i + 1 \in 1 .. Len(c.queue) /\ j + 1 \in 1 .. Len(c.queue) /\ i + 1 # j + 1
        BY <2>1
      <4> QED
        BY <2>1, <4>1 DEF Distinct
    <3> QED
      BY <2>3, <3>1, <3>2 DEF Distinct
  <2>8. HeldBy(d) = HeldBy(c)
    <3>1. d.sent # NoPacket /\ c.sent = NoPacket
      BY <1>2, <2>1, <2>3, ConnConstants DEF PacketConstants
    <3> QED
      BY <2>3, <2>6, <3>1 DEF HeldBy
  <2>9. P!SendAny(c) = P!Start(d, "write")
    BY <1>2 DEF P!SendAny
  <2>10. d.sent # NoPacket /\ "write" \in P!Kinds
    BY <2>1, <2>3, ConnConstants DEF PacketConstants, P!Kinds
  <2>11. Under(d) = Under(c)
    BY <2>3 DEF Under
  <2> HIDE DEF d
  <2>12. /\ P!Start(d, "write") \in Conns
         /\ P!Start(d, "write").opened = d.opened /\ P!Start(d, "write").connected = d.connected
         /\ P!Start(d, "write").queue = d.queue /\ P!Start(d, "write").sent = d.sent
         /\ P!Start(d, "write").own["write"] = d.own["write"] + 1
         /\ \A j \in P!Kinds : j # "write" => P!Start(d, "write").own[j] = d.own[j]
         /\ Under(P!Start(d, "write")) = Under(d) \cup {"write"}
    BY <2>2, <2>10, StartOf
  <2>13. Distinct(P!Start(d, "write")) /\ HeldBy(P!Start(d, "write")) = HeldBy(d)
    BY <2>7, <2>12 DEF Distinct, HeldBy
  <2> QED
    BY <1>2, <2>3, <2>8, <2>9, <2>10, <2>11, <2>12, <2>13
<1> QED
  BY <1>1, <1>2

----------------------------------------------------------------------------
\* What they do to the phases.
LEMMA KindsAre == P!Kinds = {"resolve", "connect", "handshake", "read", "write", "accept"}
  BY DEF P!Kinds

\* The end of a callback allows what it allowed.
LEMMA GoodAfter ==
  ASSUME NEW c, NEW what, NEW e \in BOOLEAN, NEW x \in BOOLEAN, Good(c, what, e, x),
         NEW next, next \notin {"established", "arrived", "sent"} \/ next = what
  PROVE  Good(c, next, e, x)
  BY DEF Good, Phase

\* With nothing under way any callback may run.
LEMMA GoodEmpty ==
  ASSUME NEW c \in Conns, Under(c) = {}, NEW what, NEW e \in BOOLEAN, NEW x \in BOOLEAN,
         x \/ c.sent = NoPacket
  PROVE  Good(c, what, e, x)
<1>1. \A k \in P!Kinds : c.own[k] \in {0, 1}
  BY DEF Under
<1> QED
  BY <1>1 DEF Good, Phase, Sending

\* ... as after close().
LEMMA GoodClosed ==
  ASSUME NEW c \in Conns, NEW what, NEW e \in BOOLEAN, NEW x \in BOOLEAN, x \/ c.sent = NoPacket
  PROVE  Good(P!Closed(c), what, e, x)
  BY ClosedOf, GoodEmpty

\* Only what the owner sends is written into a handshake.
LEMMA GoodSendAny ==
  ASSUME NEW c \in Conns, Distinct(c), NEW what, NEW e \in BOOLEAN, NEW x \in BOOLEAN, Good(c, what, e, x),
         "handshake" \in Under(c) => e
  PROVE  Good(P!SendAny(c), what, e, x)
<1> DEFINE d == P!SendAny(c)
<1>1. CASE d = c
  BY <1>1
<1>2. CASE d # c
  <2>1. /\ c.connected /\ d.connected /\ c.sent = NoPacket /\ d.sent # NoPacket
        /\ Under(d) = Under(c) \cup {"write"} /\ d.own["write"] = c.own["write"] + 1
        /\ \A j \in P!Kinds : j # "write" => d.own[j] = c.own[j]
    BY <1>2, SendAnyOf
  <2> HIDE DEF d
  <2>2. c.own["write"] = 0
    BY <2>1, KindsAre DEF Good, Sending, Under
  <2>3. \A j \in P!Kinds : d.own[j] \in {0, 1}
    BY <2>1, <2>2 DEF Good, Phase
  <2>4. Phase(d, what, e)
    BY <2>1, <2>3 DEF Good, Phase
  <2> QED
    BY <2>1, <2>4 DEF Good, Sending, d
<1> QED
  BY <1>1, <1>2

\* A read is started where none can be under way.
LEMMA GoodReceiveAny ==
  ASSUME NEW c \in Conns, NEW what, NEW e \in BOOLEAN, NEW x \in BOOLEAN, Good(c, what, e, x),
         c.connected => Under(c) \subseteq {"write"}
  PROVE  Good(P!ReceiveAny(c), "none", e, x)
<1> DEFINE d == P!ReceiveAny(c)
<1>1. CASE ~c.connected
  BY <1>1, ReceiveAnyOf, GoodAfter
<1>2. CASE c.connected
  <2>1. /\ d.connected /\ d.sent = c.sent /\ Under(d) = Under(c) \cup {"read"} /\ d.own["read"] = c.own["read"] + 1
        /\ \A j \in P!Kinds : j # "read" => d.own[j] = c.own[j]
    BY <1>2, ReceiveAnyOf, StartOf, KindsAre
  <2> HIDE DEF d
  <2>2. c.own["read"] = 0
    BY <1>2, KindsAre DEF Under
  <2>3. \A j \in P!Kinds : d.own[j] \in {0, 1}
    BY <2>1, <2>2 DEF Good, Phase
  <2>4. Phase(d, "none", e)
    BY <1>2, <2>1, <2>3 DEF Phase
  <2> QED
    BY <2>1, <2>4 DEF Good, Sending, d
<1> QED
  BY <1>1, <1>2

\* An operation that completes is under way no more, and nothing else changes.
LEMMA GoodDone ==
  ASSUME conn \in Conns, NEW k \in P!Kinds, conn.own[k] > 0, NEW what, NEW e, NEW x, Good(conn, what, e, x)
  PROVE  Under(P!Done(k)) = Under(conn) \ {k} /\ \A j \in P!Kinds : P!Done(k).own[j] \in {0, 1}
<1>1. conn.own[k] = 1 /\ \A j \in P!Kinds : conn.own[j] \in {0, 1}
  BY DEF Good, Phase
<1>2. P!Done(k).own[k] = 0 /\ \A j \in P!Kinds : j # k => P!Done(k).own[j] = conn.own[j]
  BY <1>1, DoneOf
<1> QED
  BY <1>1, <1>2 DEF Under

----------------------------------------------------------------------------
\* Callbacks.
LEMMA Called ==
  ASSUME NEW C, NEW cs \in Seq(C), NEW y \in C
  PROVE  /\ Append(cs, y) \in Seq(C) /\ Len(Append(cs, y)) = Len(cs) + 1
         /\ Pending(Append(cs, y)) = IF cs = <<>> THEN y[1] ELSE Pending(cs)
         /\ Nested(cs) /\ (cs = <<>> \/ y[1] = "nothing") => Nested(Append(cs, y))
<1>1. /\ Append(cs, y) \in Seq(C) /\ Len(cs) \in Nat /\ Len(Append(cs, y)) = Len(cs) + 1
      /\ \A i \in 1 .. Len(cs) + 1 : Append(cs, y)[i] = IF i <= Len(cs) THEN cs[i] ELSE y
      /\ (cs = <<>> <=> Len(cs) = 0)
  OBVIOUS
<1>2. Append(cs, y) # <<>>
  BY <1>1
<1>3. Pending(Append(cs, y)) = IF cs = <<>> THEN y[1] ELSE Pending(cs)
  <2>1. Append(cs, y)[1] = IF cs = <<>> THEN y ELSE cs[1]
    BY <1>1
  <2> QED
    BY <1>2, <2>1 DEF Pending
<1>4. ASSUME Nested(cs), cs = <<>> \/ y[1] = "nothing" PROVE Nested(Append(cs, y))
  <2> SUFFICES ASSUME NEW i \in 2 .. Len(cs) + 1 PROVE Append(cs, y)[i][1] = "nothing"
    BY <1>1 DEF Nested
  <2>1. CASE i <= Len(cs)
    BY <1>1, <1>4, <2>1 DEF Nested
  <2>2. CASE i = Len(cs) + 1
    <3>1. Append(cs, y)[i] = y /\ cs # <<>>
      BY <1>1, <2>2
    <3> QED
      BY <1>4, <3>1
  <2> QED
    BY <1>1, <2>1, <2>2
<1> QED
  BY <1>1, <1>3, <1>4

\* A callback returns: the outermost is what was pending, the others have nothing to do.
LEMMA Returned ==
  ASSUME NEW C, NEW cs \in Seq(C), cs # <<>>, Nested(cs)
  PROVE  /\ P!Front(cs) \in Seq(C) /\ Len(P!Front(cs)) = Len(cs) - 1 /\ P!Last(cs) \in C
         /\ Nested(P!Front(cs)) /\ Pending(P!Front(cs)) \in {"none", Pending(cs)}
         /\ \/ P!Front(cs) = <<>> /\ P!Last(cs)[1] = Pending(cs)
            \/ P!Last(cs)[1] = "nothing"
<1>1. Len(cs) \in Nat \ {0} /\ P!Last(cs) = cs[Len(cs)] /\ cs[Len(cs)] \in C
  BY DEF P!Last
<1>2. /\ P!Front(cs) \in Seq(C) /\ Len(P!Front(cs)) = Len(cs) - 1
      /\ \A i \in 1 .. Len(cs) - 1 : P!Front(cs)[i] = cs[i]
  <2>1. P!Front(cs) = SubSeq(cs, 1, Len(cs) - 1)
    BY DEF P!Front
  <2>2. \A i \in 1 .. Len(cs) - 1 : cs[i] \in C
    BY <1>1
  <2> QED
    <3> DEFINE n == Len(cs) - 1
               f == SubSeq(cs, 1, n)
    <3>1. n \in Nat
      <4>1. Len(cs) \in Nat \ {0}
        BY <1>1
      <4> QED
        BY <4>1
    <3>2. \A i \in 1 .. n : cs[i] \in C
      BY <2>2
    <3> HIDE DEF n
    <3>3. f \in Seq(C) /\ Len(f) = (IF 1 <= n THEN n - 1 + 1 ELSE 0) /\ \A i \in 1 .. n - 1 + 1 : f[i] = cs[1 + i - 1]
      BY <3>1, <3>2, SubSeqProperties
    <3>4. Len(f) = n
      BY <3>1, <3>3
    <3>5. \A i \in 1 .. n : f[i] = cs[i]
      BY <3>1, <3>3
    <3> QED
      BY <2>1, <3>3, <3>4, <3>5 DEF n
<1>3. Nested(P!Front(cs))
  BY <1>1, <1>2 DEF Nested
<1>4. CASE Len(cs) = 1
  <2>1. P!Front(cs) = <<>>
    BY <1>2, <1>4
  <2> QED
    BY <1>1, <1>2, <1>3, <1>4, <2>1 DEF Pending
<1>5. CASE Len(cs) # 1
  <2>1. P!Front(cs) # <<>> /\ P!Front(cs)[1] = cs[1] /\ cs[Len(cs)][1] = "nothing"
    BY <1>1, <1>2, <1>5 DEF Nested
  <2> QED
    BY <1>1, <1>2, <1>3, <2>1 DEF Pending
<1> QED
  BY <1>4, <1>5

----------------------------------------------------------------------------
\* The types, and what goes with them.
Shape(c, l) ==
  /\ c \in Conns /\ (c.connected => c.opened)
  /\ Under(c) # {} => l = "alive" /\ c.opened

Rest ==
  /\ life \in {"alive", "dead"} /\ secure \in BOOLEAN
  /\ stored \subseteq Packets /\ fresh \subseteq Packets /\ stored \cap fresh = {}
  /\ calls \in Seq(P!Continuations) /\ Len(calls) <= MaxDepth
  /\ opens \in 0 .. MaxOpens
  /\ mixed \in BOOLEAN /\ cut \in BOOLEAN /\ early \in BOOLEAN
  /\ freed \subseteq Packets

\* What ConnInv says of the types, in the form that the steps need,
LEMMA ConnHas == ConnInv => Shape(conn, life) /\ Rest /\ life \in {"alive", "dead"}
<1> SUFFICES ASSUME ConnInv PROVE Shape(conn, life) /\ Rest
  BY DEF Rest
<1>1. P!TypeOK
  BY DEF ConnInv
<1>2. conn \in Conns
  BY <1>1 DEF P!TypeOK, Conns
<1> QED
  BY <1>1, <1>2, NoneUnder DEF P!TypeOK, Shape, Rest

\* ... and back.
LEMMA Assembled ==
  ASSUME Shape(conn', life'), Rest', used' \subseteq {"resolve"}, PacketInv', Nested(calls'), PhaseInv'
  PROVE  ConnInv'
<1>1. conn' \in Conns
  BY DEF Shape
<1>2. P!TypeOK'
  BY <1>1, NoneUnder DEF P!TypeOK, Shape, Rest, Conns
<1> QED
  BY <1>2 DEF ConnInv

\* Nothing of what matters to the phases differs.
LEMMA GoodSame ==
  ASSUME NEW c, NEW d, d.own = c.own, d.connected = c.connected, d.sent = c.sent,
         NEW what, NEW e, NEW x, Good(c, what, e, x)
  PROVE  Good(d, what, e, x)
<1>1. Under(d) = Under(c)
  BY DEF Under
<1> QED
  BY <1>1 DEF Good, Phase, Sending

\* The first operation of a connection that is opened.
LEMMA GoodStart ==
  ASSUME NEW c \in Conns, Under(c) = {}, ~c.connected, NEW k \in {"resolve", "connect", "accept"},
         NEW what, NEW e, NEW x \in BOOLEAN, x \/ c.sent = NoPacket
  PROVE  Good(P!Start(c, k), what, e, x)
<1> DEFINE d == P!Start(c, k)
<1>1. /\ Under(d) = {k} /\ ~d.connected /\ d.sent = c.sent /\ d.own[k] = c.own[k] + 1
      /\ \A j \in P!Kinds : j # k => d.own[j] = c.own[j]
  BY StartOf, KindsAre
<1>2. \A j \in P!Kinds : c.own[j] = 0
  BY DEF Under
<1> HIDE DEF d
<1>3. \A j \in P!Kinds : d.own[j] \in {0, 1}
  BY <1>1, <1>2, KindsAre
<1> QED
  BY <1>1, <1>3 DEF Good, Phase, Sending, d

\* The shape of what send_any() and receive_any() leave.
LEMMA ReceivedShape ==
  ASSUME NEW c \in Conns, NEW l, Shape(c, l), l = "alive"
  PROVE  /\ P!ReceiveAny(c) \in Conns /\ Shape(P!ReceiveAny(c), l)
         /\ P!ReceiveAny(c).queue = c.queue /\ P!ReceiveAny(c).sent = c.sent
<1>1. "read" \in P!Kinds
  BY KindsAre
<1>2. CASE c.connected
  BY <1>1, <1>2, ReceiveAnyOf, StartOf DEF Shape
<1>3. CASE ~c.connected
  BY <1>3, ReceiveAnyOf
<1> QED
  BY <1>2, <1>3

\* The same of send_any().
LEMMA SentShape ==
  ASSUME NEW c \in Conns, NEW l, Shape(c, l), l = "alive", Distinct(c)
  PROVE  /\ P!SendAny(c) \in Conns /\ Shape(P!SendAny(c), l) /\ P!SendAny(c).connected = c.connected
         /\ Distinct(P!SendAny(c)) /\ HeldBy(P!SendAny(c)) = HeldBy(c)
  BY SendAnyOf DEF Shape

\* What can follow a callback.
LEMMA Continues ==
  /\ <<"nothing", 0>> \in P!Continuations /\ <<"established", 0>> \in P!Continuations
  /\ <<"sent", 0>> \in P!Continuations /\ <<"failed", 0>> \in P!Continuations
  /\ \A n \in 0 .. MaxArrivals : <<"arrived", n>> \in P!Continuations
  BY ConnConstants DEF P!Continuations, PacketConstants

\* open()
LEMMA OpenStep == ASSUME ConnInv, P!Open PROVE ConnInv'
<1> USE ConnConstants DEF PacketConstants
<1> DEFINE c == [conn EXCEPT !.opened = TRUE]
           what == Pending(calls)
           x == cut \/ life = "dead"
<1>1. Shape(conn, life) /\ Rest /\ PacketInv /\ Nested(calls) /\ PhaseInv /\ used \subseteq {"resolve"}
  BY ConnHas DEF ConnInv
<1>2. /\ life = "alive" /\ ~conn.opened /\ opens < MaxOpens /\ opens' = opens + 1
      /\ UNCHANGED <<life, secure, stored, fresh, mixed, cut, freed, early, used>>
      /\ conn' \in {P!Start(c, "resolve"), P!Start(c, "accept"), c}
      /\ calls' = calls \/ (Len(calls) < MaxDepth /\ calls' = Append(calls, <<"nothing", 0>>))
  BY DEF P!Open, P!Call, P!history
<1>3. /\ c \in Conns /\ c.opened /\ ~conn.connected /\ c.connected = conn.connected /\ c.sent = conn.sent
      /\ c.queue = conn.queue /\ c.own = conn.own /\ Under(conn) = {}
  BY <1>1, <1>2 DEF Shape, Conns
<1>4. Under(c) = {}
  BY <1>3 DEF Under
<1> HIDE DEF c
<1>5. /\ calls' \in Seq(P!Continuations) /\ Len(calls') <= MaxDepth /\ Nested(calls')
      /\ Pending(calls') \in {what, "nothing"}
  <2>1. CASE calls' = calls
    BY <1>1, <2>1 DEF Rest
  <2>2. CASE Len(calls) < MaxDepth /\ calls' = Append(calls, <<"nothing", 0>>)
    <3>1. calls \in Seq(P!Continuations) /\ Len(calls) \in Nat
      BY <1>1 DEF Rest
    <3> QED
      BY <1>1, <2>2, <3>1, Called, Continues
  <2> QED
    BY <1>2, <2>1, <2>2
<1>6. Shape(conn', life') /\ conn'.queue = conn.queue /\ conn'.sent = conn.sent
  <2>1. CASE conn' = c
    BY <1>2, <1>3, <1>4, <2>1 DEF Shape
  <2>2. CASE conn' = P!Start(c, "resolve")
    BY <1>2, <1>3, <2>2, StartOf, KindsAre DEF Shape
  <2>3. CASE conn' = P!Start(c, "accept")
    BY <1>2, <1>3, <2>3, StartOf, KindsAre DEF Shape
  <2> QED
    BY <1>2, <2>1, <2>2, <2>3
<1>7. Rest'
  <2>1. opens' \in 0 .. MaxOpens
    BY <1>1, <1>2 DEF Rest
  <2> QED
    BY <1>1, <1>2, <1>5, <2>1 DEF Rest
<1>8. PacketInv'
  BY <1>1, <1>2, <1>6 DEF PacketInv, Distinct, HeldBy
<1>9. PhaseInv'
  <2>1. ASSUME ~mixed PROVE Good(conn', Pending(calls'), early, x)
    <3>1. x \/ c.sent = NoPacket
      BY <1>1, <1>3, <2>1 DEF PhaseInv, Good, Sending
    <3>2. x \in BOOLEAN /\ early \in BOOLEAN
      BY <1>1 DEF Rest
    <3> QED
      BY <1>2, <1>3, <1>4, <3>1, <3>2, GoodEmpty, GoodStart
  <2> QED
    BY <1>2, <2>1 DEF PhaseInv
<1> QED
  BY <1>1, <1>2, <1>5, <1>6, <1>7, <1>8, <1>9, Assembled

\* send_packet(): the packet is nobody's before.
LEMMA SendPacketStep == ASSUME ConnInv, NEW q \in Packets, P!SendPacket(q) PROVE ConnInv'
<1> USE ConnConstants DEF PacketConstants
<1> DEFINE x == cut \/ life = "dead"
<1>1. Shape(conn, life) /\ Rest /\ PacketInv /\ Nested(calls) /\ PhaseInv /\ used \subseteq {"resolve"}
  BY ConnHas DEF ConnInv
<1>2. PICK queue \in {<<q>> \o conn.queue, Append(conn.queue, q)} : conn' = P!SendAny([conn EXCEPT !.queue = queue])
  BY DEF P!SendPacket
<1> DEFINE c == [conn EXCEPT !.queue = queue]
<1>3. /\ life = "alive" /\ q \in fresh /\ fresh' = fresh \ {q} /\ stored' = stored \cup {q}
      /\ early' = (early \/ conn.own["handshake"] > 0)
      /\ UNCHANGED <<life, secure, calls, opens, mixed, cut, freed, used>>
  BY DEF P!SendPacket
<1>4. /\ conn \in Conns /\ conn.queue \in Seq(Packets) /\ Len(conn.queue) \in Nat
      /\ DOMAIN conn.queue = 1 .. Len(conn.queue)
  BY <1>1 DEF Shape, Conns
<1>5. /\ q \notin P!ToSet(conn.queue) /\ q # conn.sent
      /\ \A i \in 1 .. Len(conn.queue) : q # conn.queue[i]
  BY <1>1, <1>3, <1>4 DEF PacketInv, HeldBy, P!ToSet
<1>6. /\ queue \in Seq(Packets) /\ P!ToSet(queue) = P!ToSet(conn.queue) \cup {q}
      /\ \A i, j \in 1 .. Len(queue) : i # j => queue[i] # queue[j]
  <2>1. CASE queue = Append(conn.queue, q)
    <3>1. /\ queue \in Seq(Packets) /\ Len(queue) = Len(conn.queue) + 1 /\ DOMAIN queue = 1 .. Len(conn.queue) + 1
          /\ \A i \in 1 .. Len(conn.queue) + 1 :
               \/ i \in 1 .. Len(conn.queue) /\ queue[i] = conn.queue[i]
               \/ i = Len(conn.queue) + 1 /\ queue[i] = q
      BY <1>4, <2>1
    <3>2. \A i \in 1 .. Len(conn.queue) : i \in 1 .. Len(conn.queue) + 1 /\ queue[i] = conn.queue[i]
      BY <1>4, <2>1
    <3>3. Len(conn.queue) + 1 \in 1 .. Len(conn.queue) + 1 /\ queue[Len(conn.queue) + 1] = q
      BY <1>4, <2>1
    <3>4. P!ToSet(queue) = P!ToSet(conn.queue) \cup {q}
      <4>1. \A y \in P!ToSet(queue) : y \in P!ToSet(conn.queue) \cup {q}
        BY <1>4, <3>1 DEF P!ToSet
      <4>2. \A y \in P!ToSet(conn.queue) \cup {q} : y \in P!ToSet(queue)
        BY <1>4, <3>1, <3>2, <3>3 DEF P!ToSet
      <4> QED
        BY <4>1, <4>2
    <3>5. \A i, j \in 1 .. Len(queue) : i # j => queue[i] # queue[j]
      BY <1>1, <1>4, <1>5, <3>1 DEF PacketInv, Distinct
    <3> QED
      BY <3>1, <3>4, <3>5
  <2>2. CASE queue = <<q>> \o conn.queue
    <3>1. /\ queue \in Seq(Packets) /\ Len(queue) = Len(conn.queue) + 1 /\ DOMAIN queue = 1 .. Len(conn.queue) + 1
          /\ \A i \in 1 .. Len(conn.queue) + 1 :
               \/ i - 1 \in 1 .. Len(conn.queue) /\ queue[i] = conn.queue[i - 1]
               \/ i = 1 /\ queue[i] = q
      BY <1>4, <2>2
    <3>2. \A i \in 1 .. Len(conn.queue) : i + 1 \in 1 .. Len(conn.queue) + 1 /\ queue[i + 1] = conn.queue[i]
      BY <1>4, <2>2
    <3>3. 1 \in 1 .. Len(conn.queue) + 1 /\ queue[1] = q
      BY <1>4, <2>2
    <3>4. P!ToSet(queue) = P!ToSet(conn.queue) \cup {q}
      <4>1. \A y \in P!ToSet(queue) : y \in P!ToSet(conn.queue) \cup {q}
        BY <1>4, <3>1 DEF P!ToSet
      <4>2. \A y \in P!ToSet(conn.queue) \cup {q} : y \in P!ToSet(queue)
        BY <1>4, <3>1, <3>2, <3>3 DEF P!ToSet
      <4> QED
        BY <4>1, <4>2
    <3>5. \A i, j \in 1 .. Len(queue) : i # j => queue[i] # queue[j]
      <4> SUFFICES ASSUME NEW i \in 1 .. Len(conn.queue) + 1, NEW j \in 1 .. Len(conn.queue) + 1, i # j
                   PROVE  queue[i] # queue[j]
        BY <3>1
      <4>1. \A k, m \in 1 .. Len(conn.queue) : k # m => conn.queue[k] # conn.queue[m]
        BY <1>1 DEF PacketInv, Distinct
      <4>2. i - 1 # j - 1 /\ ~(i = 1 /\ j = 1)
        BY <1>4
      <4> QED
        BY <1>5, <3>1, <4>1, <4>2
    <3> QED
      BY <3>1, <3>4, <3>5
  <2> QED
    BY <1>2, <2>1, <2>2
<1>7. /\ c \in Conns /\ c.opened = conn.opened /\ c.connected = conn.connected /\ c.sent = conn.sent
      /\ c.queue = queue /\ c.own = conn.own
  BY <1>4, <1>6 DEF Conns
<1>8. Under(c) = Under(conn)
  BY <1>7 DEF Under
<1> HIDE DEF c
<1>9. Distinct(c) /\ HeldBy(c) = HeldBy(conn) \cup {q}
  <2>1. conn.sent \notin P!ToSet(conn.queue) /\ q # NoPacket
    BY <1>1 DEF PacketInv, Distinct
  <2> QED
    BY <1>5, <1>6, <1>7, <2>1 DEF Distinct, HeldBy
<1>10. conn' = P!SendAny(c)
  BY <1>2 DEF c
<1>11. Shape(conn', life')
  <2>1. Shape(c, life)
    BY <1>1, <1>7, <1>8 DEF Shape
  <2> QED
    BY <1>3, <1>9, <1>10, <2>1, SendAnyOf DEF Shape
<1>12. Rest'
  BY <1>1, <1>3 DEF Rest
<1>13. PacketInv'
  BY <1>1, <1>3, <1>7, <1>9, <1>10, SendAnyOf DEF PacketInv
<1>14. PhaseInv'
  <2>1. ASSUME ~mixed PROVE Good(conn', Pending(calls), early', x)
    <3>1. x \in BOOLEAN /\ early' \in BOOLEAN /\ (early => early')
      BY <1>1, <1>3 DEF Rest
    <3>2. Good(conn, Pending(calls), early', x)
      BY <1>1, <2>1, <3>1 DEF PhaseInv, Good, Phase
    <3>3. Good(c, Pending(calls), early', x)
      BY <1>7, <3>2, GoodSame
    <3>4. "handshake" \in Under(c) => early'
      <4>1. "handshake" \in Under(conn) => conn.own["handshake"] > 0
        <5>1. conn.own \in [P!Kinds -> Nat]
          BY <1>4 DEF Conns
        <5> QED
          BY <5>1 DEF Under
      <4> QED
        BY <1>3, <1>8, <4>1
    <3> QED
      BY <1>7, <1>9, <1>10, <3>1, <3>3, <3>4, GoodSendAny
  <2> QED
    BY <1>3, <2>1 DEF PhaseInv
<1> QED
  BY <1>1, <1>3, <1>11, <1>12, <1>13, <1>14, Assembled

\* connection().close(), packet_stream::close(), and those for it.
LEMMA ClosePart ==
  ASSUME ConnInv, NEW c \in Conns, c.queue = conn.queue, c.sent = conn.sent, NEW outer \in Seq(P!Continuations),
         P!Close(c, outer), c.connected => Len(outer) < MaxDepth, Len(outer) <= MaxDepth, Nested(outer)
  PROVE  /\ Shape(conn', life') /\ conn'.queue = conn.queue /\ conn'.sent = conn.sent
         /\ calls' \in Seq(P!Continuations) /\ Len(calls') <= MaxDepth /\ Nested(calls') /\ cut' \in BOOLEAN
         /\ Good(conn', Pending(calls'), early, cut' \/ life' = "dead")
<1>1. Rest
  BY ConnHas
<1>2. /\ conn' = P!Closed(c) /\ cut' = (cut \/ c.sent # NoPacket)
      /\ calls' = IF c.connected THEN Append(outer, <<"nothing", 0>>) ELSE outer
  BY DEF P!Close
<1>3. Shape(conn', life') /\ conn'.queue = conn.queue /\ conn'.sent = conn.sent
  BY <1>2, ClosedOf DEF Shape
<1>4. calls' \in Seq(P!Continuations) /\ Len(calls') <= MaxDepth /\ Nested(calls')
  <2>1. CASE c.connected
    <3>1. Len(outer) < MaxDepth /\ Len(outer) \in Nat /\ MaxDepth \in Nat
      BY <2>1, ConnConstants DEF PacketConstants
    <3> QED
      BY <1>2, <2>1, <3>1, Called, Continues
  <2>2. CASE ~c.connected
    BY <1>2, <2>2
  <2> QED
    BY <2>1, <2>2
<1>5. cut' \in BOOLEAN
  BY <1>1, <1>2 DEF Rest
<1>6. Good(conn', Pending(calls'), early, cut' \/ life' = "dead")
  <2>1. cut' \/ c.sent = NoPacket
    BY <1>2
  <2>2. early \in BOOLEAN
    BY <1>1 DEF Rest
  <2> QED
    BY <1>2, <1>5, <2>1, <2>2, GoodClosed
<1> QED
  BY <1>3, <1>4, <1>5, <1>6

\* The owner closes the connection or the stream, or destroys them.
LEMMA OwnerCloses ==
  ASSUME ConnInv, P!ConnectionClose \/ P!StreamClose \/ P!Destroy PROVE ConnInv'
<1>1. Shape(conn, life) /\ Rest /\ PacketInv /\ Nested(calls) /\ PhaseInv /\ used \subseteq {"resolve"}
  BY ConnHas DEF ConnInv
<1>2. conn \in Conns /\ calls \in Seq(P!Continuations)
  BY <1>1 DEF Shape, Rest
<1>3. CASE P!ConnectionClose
  <2>1. /\ life = "alive" /\ Len(calls) < MaxDepth /\ P!Close(conn, calls)
        /\ UNCHANGED <<life, secure, stored, fresh, opens, mixed, freed, early, used>>
    BY <1>3 DEF P!ConnectionClose
  <2>2. /\ Shape(conn', life') /\ conn'.queue = conn.queue /\ conn'.sent = conn.sent
        /\ calls' \in Seq(P!Continuations) /\ Len(calls') <= MaxDepth /\ Nested(calls') /\ cut' \in BOOLEAN
        /\ Good(conn', Pending(calls'), early, cut' \/ life' = "dead")
    BY <1>1, <1>2, <2>1, ClosePart DEF Rest
  <2>3. Rest'
    BY <1>1, <2>1, <2>2 DEF Rest
  <2>4. PacketInv'
    BY <1>1, <2>1, <2>2 DEF PacketInv, Distinct, HeldBy
  <2>5. PhaseInv'
    BY <2>1, <2>2 DEF PhaseInv
  <2> QED
    BY <1>1, <2>1, <2>2, <2>3, <2>4, <2>5, Assembled
<1>4. CASE P!StreamClose
  <2>1. /\ life = "alive" /\ Len(calls) < MaxDepth /\ P!Close(conn, calls)
        /\ stored' = {} /\ freed' = freed \cup stored
        /\ UNCHANGED <<life, secure, fresh, opens, mixed, early, used>>
    BY <1>4 DEF P!StreamClose
  <2>2. /\ Shape(conn', life') /\ conn'.queue = conn.queue /\ conn'.sent = conn.sent
        /\ calls' \in Seq(P!Continuations) /\ Len(calls') <= MaxDepth /\ Nested(calls') /\ cut' \in BOOLEAN
        /\ Good(conn', Pending(calls'), early, cut' \/ life' = "dead")
    BY <1>1, <1>2, <2>1, ClosePart DEF Rest
  <2>3. Rest'
    BY <1>1, <2>1, <2>2 DEF Rest
  <2>4. PacketInv'
    BY <1>1, <2>1, <2>2 DEF PacketInv, Distinct, HeldBy
  <2>5. PhaseInv'
    BY <2>1, <2>2 DEF PhaseInv
  <2> QED
    BY <1>1, <2>1, <2>2, <2>3, <2>4, <2>5, Assembled
<1>5. CASE P!Destroy
  <2>1. /\ life' = "dead" /\ stored' = {} /\ conn' = P!Closed(conn)
        /\ UNCHANGED <<secure, fresh, calls, opens, mixed, cut, freed, early, used>>
    BY <1>5 DEF P!Destroy, P!history
  <2>2. Shape(conn', life') /\ conn'.queue = conn.queue /\ conn'.sent = conn.sent
    BY <1>2, <2>1, ClosedOf DEF Shape
  <2>3. Rest'
    BY <1>1, <2>1 DEF Rest
  <2>4. PacketInv'
    BY <1>1, <2>1, <2>2 DEF PacketInv, Distinct, HeldBy
  <2>5. PhaseInv'
    <3>1. cut' \/ life' = "dead"
      BY <2>1
    <3>2. Good(conn', Pending(calls), early, TRUE)
      BY <1>1, <1>2, <2>1, GoodClosed DEF Rest
    <3> QED
      BY <2>1, <3>1, <3>2 DEF PhaseInv, Good, Sending
  <2> QED
    BY <1>1, <2>1, <2>2, <2>3, <2>4, <2>5, Assembled
<1> QED
  BY <1>3, <1>4, <1>5

----------------------------------------------------------------------------
\* Operations that complete: the callback that they make, if any, is the outermost.
LEMMA CallPart ==
  ASSUME calls = <<>>, NEW y \in P!Continuations, P!Call(y)
  PROVE  calls' \in Seq(P!Continuations) /\ Len(calls') <= MaxDepth /\ Nested(calls') /\ Pending(calls') = y[1]
<1>1. calls \in Seq(P!Continuations) /\ Len(calls) = 0 /\ Nested(calls)
  BY DEF Nested
<1>2. calls' = Append(calls, y)
  BY DEF P!Call
<1>3. /\ calls' \in Seq(P!Continuations) /\ Len(calls') = Len(calls) + 1
      /\ Pending(calls') = y[1] /\ Nested(calls')
  BY <1>1, <1>2, Called
<1>4. Len(calls') <= MaxDepth
  BY <1>1, <1>3, ConnConstants DEF PacketConstants
<1> QED
  BY <1>3, <1>4

\* ... and if it makes none.
LEMMA NoCallPart ==
  ASSUME calls = <<>>, calls' = calls
  PROVE  calls' \in Seq(P!Continuations) /\ Len(calls') <= MaxDepth /\ Nested(calls') /\ Pending(calls') = "none"
<1>1. <<>> \in Seq(P!Continuations) /\ Len(<<>>) = 0 /\ 0 <= MaxDepth /\ \A i \in 2 .. Len(<<>>) : FALSE
  BY ConnConstants DEF PacketConstants
<1> QED
  BY <1>1 DEF Nested, Pending

\* handle_resolve(), for a connection that is still there.
LEMMA ResolvedPart ==
  ASSUME calls = <<>>, NEW c \in Conns, Shape(c, life), life = "alive", P!Resolved(c)
  PROVE  /\ Shape(conn', life) /\ conn'.queue = c.queue /\ conn'.sent = c.sent
         /\ calls' \in Seq(P!Continuations) /\ Len(calls') <= MaxDepth /\ Nested(calls')
         /\ Pending(calls') \in {"none", "nothing"}
         /\ conn' = c \/ conn' = P!Start(c, "connect")
<1>1. \/ conn' = c /\ calls' = calls
      \/ c.opened /\ conn' = P!Start(c, "connect") /\ calls' = calls
      \/ conn' = c /\ P!Call(<<"nothing", 0>>)
  BY DEF P!Resolved
<1>2. CASE conn' = c /\ calls' = calls
  BY <1>2, NoCallPart
<1>3. CASE c.opened /\ conn' = P!Start(c, "connect") /\ calls' = calls
  BY <1>3, NoCallPart, StartOf, KindsAre DEF Shape
<1>4. CASE conn' = c /\ P!Call(<<"nothing", 0>>)
  BY <1>4, CallPart, Continues
<1> QED
  BY <1>1, <1>2, <1>3, <1>4

\* What an operation of the connection's own says about it, when it completes.
LEMMA HandledPart ==
  ASSUME ConnInv, NEW k \in P!Kinds, P!Handled(k)
  PROVE  /\ calls = <<>> /\ life = "alive" /\ conn \in Conns /\ conn.own[k] > 0 /\ k \in Under(conn)
         /\ conn.opened /\ P!Done(k) \in Conns /\ Shape(P!Done(k), life)
         /\ P!Done(k).opened = conn.opened /\ P!Done(k).connected = conn.connected
         /\ P!Done(k).queue = conn.queue /\ P!Done(k).sent = conn.sent
         /\ ~mixed => /\ Good(conn, "none", early, cut) /\ Under(P!Done(k)) = Under(conn) \ {k}
                      /\ \A j \in P!Kinds : P!Done(k).own[j] \in {0, 1}
<1>1. Shape(conn, life) /\ Rest /\ PhaseInv
  BY ConnHas DEF ConnInv
<1>2. calls = <<>> /\ conn.own[k] > 0
  BY DEF P!Handled, P!InLoop
<1>3. conn \in Conns
  BY <1>1 DEF Shape
<1>4. /\ P!Done(k) \in Conns
      /\ P!Done(k).opened = conn.opened /\ P!Done(k).connected = conn.connected
      /\ P!Done(k).queue = conn.queue /\ P!Done(k).sent = conn.sent
      /\ Under(P!Done(k)) \subseteq Under(conn) /\ k \in Under(conn)
  BY <1>2, <1>3, DoneOf
<1>5. life = "alive" /\ conn.opened
  BY <1>1, <1>4 DEF Shape
<1>6. Shape(P!Done(k), life)
  BY <1>1, <1>4, <1>5 DEF Shape
<1>7. ASSUME ~mixed
      PROVE  /\ Good(conn, "none", early, cut) /\ Under(P!Done(k)) = Under(conn) \ {k}
             /\ \A j \in P!Kinds : P!Done(k).own[j] \in {0, 1}
  <2>1. Good(conn, "none", early, cut \/ life = "dead")
    BY <1>1, <1>2, <1>7 DEF PhaseInv, Pending
  <2>2. Good(conn, "none", early, cut)
    BY <1>5, <2>1 DEF Good, Sending
  <2> QED
    BY <1>2, <1>3, <2>2, GoodDone
<1> QED
  BY <1>2, <1>3, <1>4, <1>5, <1>6, <1>7

\* handle_resolve() of the operation that is under way
LEMMA HandleResolveStep == ASSUME ConnInv, P!HandleResolve PROVE ConnInv'
<1> DEFINE d == P!Done("resolve")
<1>1. Rest /\ PacketInv /\ used \subseteq {"resolve"}
  BY ConnHas DEF ConnInv
<1>2. /\ P!Handled("resolve") /\ P!Resolved(d)
      /\ UNCHANGED <<life, secure, stored, fresh, opens, mixed, cut, freed, early, used>>
  BY DEF P!HandleResolve, P!history
<1>3. /\ calls = <<>> /\ life = "alive" /\ "resolve" \in Under(conn)
      /\ d \in Conns /\ Shape(d, life) /\ d.connected = conn.connected /\ d.queue = conn.queue /\ d.sent = conn.sent
      /\ ~mixed => Good(conn, "none", early, cut) /\ Under(d) = Under(conn) \ {"resolve"}
  BY <1>2, HandledPart, KindsAre
<1> HIDE DEF d
<1>4. /\ Shape(conn', life) /\ conn'.queue = conn.queue /\ conn'.sent = conn.sent
      /\ calls' \in Seq(P!Continuations) /\ Len(calls') <= MaxDepth /\ Nested(calls')
      /\ Pending(calls') \in {"none", "nothing"}
      /\ conn' = d \/ conn' = P!Start(d, "connect")
  BY <1>2, <1>3, ResolvedPart
<1>5. Rest'
  BY <1>1, <1>2, <1>4 DEF Rest
<1>6. PacketInv'
  BY <1>1, <1>2, <1>4 DEF PacketInv, Distinct, HeldBy
<1>7. PhaseInv'
  <2>1. ASSUME ~mixed PROVE Good(conn', Pending(calls'), early, cut)
    <3>1. ~d.connected /\ Under(d) = {}
      BY <1>3, <2>1 DEF Good, Phase
    <3>2. cut \/ d.sent = NoPacket
      BY <1>3, <2>1, <3>1 DEF Good, Phase, Sending
    <3>3. cut \in BOOLEAN /\ early \in BOOLEAN
      BY <1>1 DEF Rest
    <3> QED
      BY <1>3, <1>4, <3>1, <3>2, <3>3, GoodEmpty, GoodStart
  <2> QED
    BY <1>2, <1>3, <2>1 DEF PhaseInv, Good, Sending
<1> QED
  BY <1>1, <1>2, <1>4, <1>5, <1>6, <1>7, Assembled

\* The result for an operation that close() has orphaned.
LEMMA StaleStep ==
  ASSUME ConnInv, P!HandleStaleResolve \/ (\E k \in P!Kinds : P!Forgotten(k)) PROVE ConnInv'
<1>1. Shape(conn, life) /\ Rest /\ PacketInv /\ Nested(calls) /\ PhaseInv /\ used \subseteq {"resolve"}
  BY ConnHas DEF ConnInv
<1>2. conn \in Conns /\ conn.stale \in [P!Kinds -> Nat]
  BY <1>1 DEF Shape, Conns
<1> DEFINE old(k) == [conn EXCEPT !.stale[k] = @ - 1]
<1>3. ASSUME NEW k \in P!Kinds, conn.stale[k] > 0
      PROVE  /\ old(k) \in Conns /\ Shape(old(k), life) /\ old(k).own = conn.own /\ old(k).connected = conn.connected
             /\ old(k).queue = conn.queue /\ old(k).sent = conn.sent /\ old(k).opened = conn.opened
  <2>1. conn.stale[k] - 1 \in Nat
    BY <1>2, <1>3
  <2>2. [conn.stale EXCEPT ![k] = conn.stale[k] - 1] \in [P!Kinds -> Nat]
    BY <1>2, <2>1
  <2>3. old(k) = [conn EXCEPT !.stale = [conn.stale EXCEPT ![k] = conn.stale[k] - 1]]
    OBVIOUS
  <2>4. /\ old(k) \in Conns /\ old(k).own = conn.own /\ old(k).connected = conn.connected
        /\ old(k).queue = conn.queue /\ old(k).sent = conn.sent /\ old(k).opened = conn.opened
    BY <1>2, <2>2, <2>3 DEF Conns
  <2>5. Under(old(k)) = Under(conn)
    BY <2>4 DEF Under
  <2> QED
    BY <1>1, <2>4, <2>5 DEF Shape
<1>4. ASSUME NEW k \in P!Kinds, conn.stale[k] > 0, conn' = old(k),
             UNCHANGED <<life, secure, stored, fresh, calls, opens, mixed, cut, freed, early>>,
             used' \subseteq {"resolve"}
      PROVE  ConnInv'
  <2> HIDE DEF old
  <2>1. Rest'
    BY <1>1, <1>4 DEF Rest
  <2>2. PacketInv'
    BY <1>1, <1>3, <1>4 DEF PacketInv, Distinct, HeldBy
  <2>3. PhaseInv'
    BY <1>1, <1>3, <1>4, GoodSame DEF PhaseInv
  <2> QED
    BY <1>1, <1>3, <1>4, <2>1, <2>2, <2>3, Assembled
<1>5. CASE \E k \in P!Kinds : P!Forgotten(k)
  <2>1. PICK k \in P!Kinds : P!Forgotten(k)
    BY <1>5
  <2>2. /\ conn.stale[k] > 0 /\ conn' = old(k)
        /\ UNCHANGED <<life, secure, stored, fresh, calls, opens, mixed, cut, freed, early, used>>
    BY <2>1 DEF P!Forgotten, P!history
  <2> QED
    BY <1>1, <1>4, <2>2
<1>6. CASE P!HandleStaleResolve
  <2> DEFINE c == old("resolve")
  <2>1. /\ calls = <<>> /\ conn.stale["resolve"] > 0
        /\ UNCHANGED <<life, secure, stored, fresh, opens, cut, freed, early>>
        /\ \/ conn' = c /\ used' = used \cup {"resolve"} /\ UNCHANGED <<calls, mixed>>
           \/ /\ life = "alive" /\ P!Resolved(c) /\ used' = used
              /\ mixed' = (mixed \/ conn'.own["connect"] > c.own["connect"])
    BY <1>6 DEF P!HandleStaleResolve, P!InLoop
  <2>2. CASE conn' = c /\ used' = used \cup {"resolve"} /\ UNCHANGED <<calls, mixed>>
    BY <1>1, <1>4, <2>1, <2>2, KindsAre
  <2>3. CASE /\ life = "alive" /\ P!Resolved(c) /\ used' = used
             /\ mixed' = (mixed \/ conn'.own["connect"] > c.own["connect"])
    <3>1. /\ c \in Conns /\ Shape(c, life) /\ c.own = conn.own /\ c.connected = conn.connected
          /\ c.queue = conn.queue /\ c.sent = conn.sent
      BY <1>3, <2>1, KindsAre
    <3> HIDE DEF c
    <3>2. /\ Shape(conn', life) /\ conn'.queue = conn.queue /\ conn'.sent = conn.sent
          /\ calls' \in Seq(P!Continuations) /\ Len(calls') <= MaxDepth /\ Nested(calls')
          /\ Pending(calls') \in {"none", "nothing"}
          /\ conn' = c \/ conn' = P!Start(c, "connect")
      BY <2>1, <2>3, <3>1, ResolvedPart
    <3>3. mixed' \in BOOLEAN
      BY <1>1, <2>3 DEF Rest
    <3>4. Rest'
      BY <1>1, <2>1, <3>2, <3>3 DEF Rest
    <3>5. PacketInv'
      BY <1>1, <2>1, <3>2 DEF PacketInv, Distinct, HeldBy
    <3>6. PhaseInv'
      <4>1. CASE conn' = P!Start(c, "connect")
        <5>1. "connect" \in P!Kinds
          BY KindsAre
        <5>2. conn'.own["connect"] = c.own["connect"] + 1
          BY <3>1, <4>1, <5>1, StartOf
        <5>3. c.own \in [P!Kinds -> Nat]
          BY <3>1 DEF Conns
        <5>4. c.own["connect"] \in Nat
          BY <5>1, <5>3
        <5>5. conn'.own["connect"] > c.own["connect"]
          BY <5>2, <5>4
        <5> QED
          BY <2>3, <5>5 DEF PhaseInv
      <4>2. CASE conn' = c
        <5>1. ASSUME ~mixed' PROVE Good(conn', Pending(calls'), early, cut \/ life = "dead")
          <6>1. Good(conn, Pending(calls), early, cut \/ life = "dead")
            BY <1>1, <2>3, <5>1 DEF PhaseInv
          <6>2. Good(c, Pending(calls), early, cut \/ life = "dead")
            BY <3>1, <6>1, GoodSame
          <6>3. early \in BOOLEAN /\ cut \in BOOLEAN
            BY <1>1 DEF Rest
          <6> QED
            BY <3>2, <4>2, <6>2, <6>3, GoodAfter
        <5> QED
          BY <2>1, <5>1 DEF PhaseInv
      <4> QED
        BY <3>2, <4>1, <4>2
    <3> QED
      BY <1>1, <2>1, <2>3, <3>2, <3>4, <3>5, <3>6, Assembled
  <2> QED
    BY <2>1, <2>2, <2>3
<1> QED
  BY <1>5, <1>6

\* The callback that an operation ends in, with nothing else for the connection.
LEMMA CallsPart ==
  ASSUME calls = <<>>,
         calls' = calls \/ (\E y \in P!Continuations : P!Call(y))
  PROVE  calls' \in Seq(P!Continuations) /\ Len(calls') <= MaxDepth /\ Nested(calls')
  BY CallPart, NoCallPart

\* handle_connect()
LEMMA HandleConnectStep == ASSUME ConnInv, P!HandleConnect PROVE ConnInv'
<1> DEFINE d == P!Done("connect")
           e == [d EXCEPT !.connected = TRUE]
<1>1. Rest /\ PacketInv /\ used \subseteq {"resolve"}
  BY ConnHas DEF ConnInv
<1>2. /\ P!Handled("connect")
      /\ UNCHANGED <<life, secure, stored, fresh, opens, mixed, cut, freed, early, used>>
      /\ \/ conn' = P!Start(e, "handshake") /\ calls' = calls
         \/ conn' = e /\ P!Call(<<"established", 0>>)
         \/ conn' = d /\ P!Call(<<"nothing", 0>>)
  BY DEF P!HandleConnect, P!Connected, P!history
<1>3. /\ calls = <<>> /\ life = "alive" /\ "connect" \in Under(conn) /\ conn.opened
      /\ d \in Conns /\ Shape(d, life) /\ d.opened = conn.opened /\ d.connected = conn.connected
      /\ d.queue = conn.queue /\ d.sent = conn.sent
      /\ ~mixed => Good(conn, "none", early, cut) /\ Under(d) = Under(conn) \ {"connect"}
  BY <1>2, HandledPart, KindsAre
<1> HIDE DEF d
<1>4. /\ e \in Conns /\ e.opened /\ e.connected /\ e.queue = conn.queue /\ e.sent = conn.sent /\ e.own = d.own
  BY <1>3 DEF Conns
<1>5. Under(e) = Under(d)
  BY <1>4 DEF Under
<1> HIDE DEF e
<1>6. /\ calls' \in Seq(P!Continuations) /\ Len(calls') <= MaxDepth /\ Nested(calls')
      /\ \/ conn' = P!Start(e, "handshake") /\ Pending(calls') = "none"
         \/ conn' = e /\ Pending(calls') = "established"
         \/ conn' = d /\ Pending(calls') = "nothing"
  BY <1>2, <1>3, CallPart, NoCallPart, Continues
<1>7. Shape(conn', life') /\ conn'.queue = conn.queue /\ conn'.sent = conn.sent
  <2>1. "handshake" \in P!Kinds
    BY KindsAre
  <2>2. CASE conn' = P!Start(e, "handshake")
    BY <1>2, <1>3, <1>4, <2>1, <2>2, StartOf DEF Shape
  <2>3. CASE conn' = e
    BY <1>2, <1>3, <1>4, <2>3 DEF Shape
  <2>4. CASE conn' = d
    BY <1>2, <1>3, <2>4
  <2> QED
    BY <1>6, <2>2, <2>3, <2>4
<1>8. Rest'
  BY <1>1, <1>2, <1>6 DEF Rest
<1>9. PacketInv'
  BY <1>1, <1>2, <1>7 DEF PacketInv, Distinct, HeldBy
<1>10. PhaseInv'
  <2>1. ASSUME ~mixed PROVE Good(conn', Pending(calls'), early, cut)
    <3>1. ~conn.connected /\ Under(d) = {}
      BY <1>3, <2>1 DEF Good, Phase
    <3>2. cut \/ conn.sent = NoPacket
      BY <1>3, <2>1, <3>1 DEF Good, Phase, Sending
    <3>3. cut \in BOOLEAN /\ early \in BOOLEAN
      BY <1>1 DEF Rest
    <3>4. CASE conn' = P!Start(e, "handshake") /\ Pending(calls') = "none"
      <4>1. "handshake" \in P!Kinds
        BY KindsAre
      <4>2. /\ conn'.connected /\ conn'.sent = conn.sent /\ Under(conn') = {"handshake"}
            /\ conn'.own["handshake"] = e.own["handshake"] + 1
            /\ \A j \in P!Kinds : j # "handshake" => conn'.own[j] = e.own[j]
        BY <1>4, <1>5, <3>1, <3>4, <4>1, StartOf
      <4>3. \A j \in P!Kinds : e.own[j] = 0
        BY <1>5, <3>1 DEF Under
      <4>4. \A j \in P!Kinds : conn'.own[j] \in {0, 1}
        BY <4>1, <4>2, <4>3
      <4> QED
        BY <3>2, <3>4, <4>2, <4>4 DEF Good, Phase, Sending
    <3>5. CASE conn' = e
      BY <1>4, <1>5, <3>1, <3>2, <3>3, <3>5, GoodEmpty
    <3>6. CASE conn' = d
      BY <1>3, <3>1, <3>2, <3>3, <3>6, GoodEmpty
    <3> QED
      BY <1>6, <3>4, <3>5, <3>6
  <2> QED
    BY <1>2, <1>3, <2>1 DEF PhaseInv, Good, Sending
<1> QED
  BY <1>1, <1>2, <1>6, <1>7, <1>8, <1>9, <1>10, Assembled

\* handle_handshake()
LEMMA HandleHandshakeStep == ASSUME ConnInv, P!HandleHandshake PROVE ConnInv'
<1> DEFINE d == P!Done("handshake")
<1>1. Rest /\ PacketInv /\ used \subseteq {"resolve"}
  BY ConnHas DEF ConnInv
<1>2. /\ P!Handled("handshake") /\ conn' = d
      /\ UNCHANGED <<life, secure, stored, fresh, opens, mixed, cut, freed, early, used>>
      /\ P!Call(<<"established", 0>>) \/ P!Call(<<"nothing", 0>>)
  BY DEF P!HandleHandshake, P!history
<1>3. /\ calls = <<>> /\ life = "alive" /\ "handshake" \in Under(conn)
      /\ d \in Conns /\ Shape(d, life) /\ d.connected = conn.connected
      /\ d.queue = conn.queue /\ d.sent = conn.sent
      /\ ~mixed => /\ Good(conn, "none", early, cut) /\ Under(d) = Under(conn) \ {"handshake"}
                   /\ \A j \in P!Kinds : d.own[j] \in {0, 1}
  BY <1>2, HandledPart, KindsAre
<1> HIDE DEF d
<1>4. /\ calls' \in Seq(P!Continuations) /\ Len(calls') <= MaxDepth /\ Nested(calls')
      /\ Pending(calls') \in {"established", "nothing"}
  BY <1>2, <1>3, CallPart, Continues
<1>5. Rest'
  BY <1>1, <1>2, <1>4 DEF Rest
<1>6. PacketInv'
  BY <1>1, <1>2, <1>3 DEF PacketInv, Distinct, HeldBy
<1>7. PhaseInv'
  <2>1. ASSUME ~mixed PROVE Good(d, Pending(calls'), early, cut)
    <3>1. /\ Under(d) = Under(conn) \ {"handshake"} /\ \A j \in P!Kinds : d.own[j] \in {0, 1}
          /\ Good(conn, "none", early, cut)
      BY <1>3, <2>1
    <3>2. d.connected /\ Under(d) \subseteq {"write"}
      BY <1>3, <3>1 DEF Good, Phase
    <3>3. Phase(d, Pending(calls'), early)
      BY <3>1, <3>2 DEF Phase
    <3>4. Sending(d, cut)
      BY <1>3, <3>1 DEF Good, Sending
    <3> QED
      BY <3>3, <3>4 DEF Good
  <2> QED
    BY <1>2, <1>3, <2>1 DEF PhaseInv, Good, Sending
<1> QED
  BY <1>1, <1>2, <1>3, <1>4, <1>5, <1>6, <1>7, Assembled

\* server_accept()
LEMMA ServerAcceptStep == ASSUME ConnInv, P!ServerAccept PROVE ConnInv'
<1> DEFINE d == P!Done("accept")
           e == [d EXCEPT !.connected = TRUE]
           s == P!SendAny(e)
<1>1. Rest /\ PacketInv /\ used \subseteq {"resolve"}
  BY ConnHas DEF ConnInv
<1>2. /\ P!Handled("accept") /\ conn' = P!ReceiveAny(s)
      /\ UNCHANGED <<life, secure, stored, fresh, calls, opens, mixed, cut, freed, early, used>>
  BY DEF P!ServerAccept, P!history
<1>3. /\ calls = <<>> /\ life = "alive" /\ "accept" \in Under(conn) /\ conn.opened
      /\ d \in Conns /\ Shape(d, life) /\ d.opened = conn.opened /\ d.connected = conn.connected
      /\ d.queue = conn.queue /\ d.sent = conn.sent
      /\ ~mixed => Good(conn, "none", early, cut) /\ Under(d) = Under(conn) \ {"accept"}
  BY <1>2, HandledPart, KindsAre
<1> HIDE DEF d
<1>4. /\ e \in Conns /\ e.opened /\ e.connected /\ e.queue = conn.queue /\ e.sent = conn.sent /\ e.own = d.own
  BY <1>3 DEF Conns
<1>5. Under(e) = Under(d) /\ Distinct(e) /\ HeldBy(e) = HeldBy(conn)
  BY <1>1, <1>4 DEF Under, PacketInv, Distinct, HeldBy
<1> HIDE DEF e
<1>6. s \in Conns /\ s.opened /\ s.connected /\ Distinct(s) /\ HeldBy(s) = HeldBy(conn)
  BY <1>4, <1>5, SendAnyOf
<1>7. /\ conn' \in Conns /\ conn'.opened /\ conn'.queue = s.queue /\ conn'.sent = s.sent
  <2>1. "read" \in P!Kinds /\ P!ReceiveAny(s) = P!Start(s, "read")
    BY <1>6, ReceiveAnyOf, KindsAre
  <2> QED
    BY <1>2, <1>6, <2>1, StartOf
<1>8. Shape(conn', life')
  BY <1>2, <1>3, <1>7 DEF Shape
<1>9. /\ calls' \in Seq(P!Continuations) /\ Len(calls') <= MaxDepth /\ Nested(calls') /\ Pending(calls') = "none"
  BY <1>2, <1>3, NoCallPart
<1>10. Rest'
  BY <1>1, <1>2, <1>9 DEF Rest
<1>11. PacketInv'
  <2>1. Distinct(conn') /\ HeldBy(conn') = HeldBy(conn)
    BY <1>6, <1>7 DEF Distinct, HeldBy
  <2> QED
    BY <1>1, <1>2, <2>1 DEF PacketInv
<1>12. PhaseInv'
  <2>1. ASSUME ~mixed PROVE Good(conn', "none", early, cut)
    <3>1. Under(e) = {}
      BY <1>3, <1>5, <2>1 DEF Good, Phase
    <3>2. cut \/ e.sent = NoPacket
      BY <1>3, <1>4, <2>1 DEF Good, Phase, Sending
    <3>3. cut \in BOOLEAN /\ early \in BOOLEAN
      BY <1>1 DEF Rest
    <3>4. Good(e, "none", early, cut)
      BY <1>4, <3>1, <3>2, <3>3, GoodEmpty
    <3>5. Good(s, "none", early, cut)
      BY <1>4, <1>5, <3>1, <3>3, <3>4, GoodSendAny
    <3>6. Under(s) \subseteq {"write"}
      BY <1>4, <1>5, <3>1, SendAnyOf
    <3> QED
      BY <1>2, <1>6, <3>3, <3>5, <3>6, GoodReceiveAny
  <2> QED
    BY <1>2, <1>3, <1>9, <2>1 DEF PhaseInv, Good, Sending
<1> QED
  BY <1>1, <1>2, <1>8, <1>9, <1>10, <1>11, <1>12, Assembled

\* handle_write(): the packet that was sent is in the queue no more.
LEMMA HandleWriteStep == ASSUME ConnInv, P!HandleWrite PROVE ConnInv'
<1> DEFINE d == P!Done("write")
           w == P!Wrote(d)
<1>1. Rest /\ PacketInv /\ used \subseteq {"resolve"}
  BY ConnHas DEF ConnInv
<1>2. /\ P!Handled("write") /\ conn' = w /\ stored' = stored \ {conn.sent}
      /\ UNCHANGED <<life, secure, fresh, opens, mixed, cut, freed, early, used>>
      /\ P!Call(<<"sent", 0>>) \/ P!Call(<<"failed", 0>>)
  BY DEF P!HandleWrite, P!history
<1>3. /\ calls = <<>> /\ life = "alive" /\ "write" \in Under(conn)
      /\ d \in Conns /\ Shape(d, life) /\ d.opened = conn.opened /\ d.connected = conn.connected
      /\ d.queue = conn.queue /\ d.sent = conn.sent
      /\ ~mixed => /\ Good(conn, "none", early, cut) /\ Under(d) = Under(conn) \ {"write"}
                   /\ \A j \in P!Kinds : d.own[j] \in {0, 1}
  BY <1>2, HandledPart, KindsAre
<1> HIDE DEF d
<1>4. /\ w \in Conns /\ w.opened = d.opened /\ w.connected = d.connected /\ w.queue = conn.queue
      /\ w.sent = NoPacket /\ w.own = d.own
  BY <1>3 DEF Conns, P!Wrote
<1>5. Under(w) = Under(d)
  BY <1>4 DEF Under
<1> HIDE DEF w
<1>6. /\ calls' \in Seq(P!Continuations) /\ Len(calls') <= MaxDepth /\ Nested(calls')
      /\ Pending(calls') \in {"sent", "failed"}
  BY <1>2, <1>3, CallPart, Continues
<1>7. Shape(conn', life')
  BY <1>2, <1>3, <1>4, <1>5 DEF Shape
<1>8. Rest'
  BY <1>1, <1>2, <1>6 DEF Rest
<1>9. PacketInv'
  <2>1. NoPacket \notin P!ToSet(conn.queue)
    <3>1. conn.queue \in Seq(Packets)
      BY <1>3 DEF Conns
    <3>2. P!ToSet(conn.queue) \subseteq Packets
      BY <3>1 DEF P!ToSet
    <3> QED
      BY <3>2, ConnConstants DEF PacketConstants
  <2>2. Distinct(w) /\ HeldBy(w) = P!ToSet(conn.queue)
    BY <1>1, <1>4, <2>1 DEF PacketInv, Distinct, HeldBy
  <2>3. HeldBy(w) \subseteq HeldBy(conn) /\ conn.sent \notin HeldBy(w)
    BY <1>1, <2>2 DEF PacketInv, Distinct, HeldBy
  <2> QED
    BY <1>1, <1>2, <2>2, <2>3 DEF PacketInv
<1>10. PhaseInv'
  <2>1. ASSUME ~mixed PROVE Good(w, Pending(calls'), early, cut)
    <3>1. /\ Under(w) = Under(conn) \ {"write"} /\ \A j \in P!Kinds : w.own[j] \in {0, 1}
          /\ Good(conn, "none", early, cut) /\ w.connected = conn.connected
      BY <1>3, <1>4, <1>5, <2>1
    <3>2. "handshake" \in Under(w) => early
      BY <1>3, <3>1 DEF Good, Phase
    <3>3. Phase(w, Pending(calls'), early)
      BY <1>6, <3>1, <3>2 DEF Good, Phase
    <3> QED
      BY <1>4, <3>1, <3>3 DEF Good, Sending
  <2> QED
    BY <1>2, <1>3, <2>1 DEF PhaseInv, Good, Sending
<1> QED
  BY <1>1, <1>2, <1>6, <1>7, <1>8, <1>9, <1>10, Assembled

\* handle_read(), and that of the end of the stream
LEMMA HandleReadStep == ASSUME ConnInv, P!HandleRead PROVE ConnInv'
<1> DEFINE d == P!Done("read")
<1>1. Rest /\ PacketInv /\ used \subseteq {"resolve"}
  BY ConnHas DEF ConnInv
<1>2. /\ P!Handled("read")
      /\ UNCHANGED <<life, secure, stored, fresh, opens, mixed, cut, freed, early, used>>
      /\ \/ conn' = P!ReceiveAny(d) /\ calls' = calls
         \/ conn' = d /\ P!Call(<<"failed", 0>>)
         \/ conn' = d /\ \E n \in 1 .. MaxArrivals : P!Call(<<"arrived", n - 1>>)
  BY DEF P!HandleRead, P!history
<1>3. /\ calls = <<>> /\ life = "alive" /\ "read" \in Under(conn) /\ conn.opened
      /\ d \in Conns /\ Shape(d, life) /\ d.opened = conn.opened /\ d.connected = conn.connected
      /\ d.queue = conn.queue /\ d.sent = conn.sent
      /\ ~mixed => /\ Good(conn, "none", early, cut) /\ Under(d) = Under(conn) \ {"read"}
                   /\ \A j \in P!Kinds : d.own[j] \in {0, 1}
  BY <1>2, HandledPart, KindsAre
<1> HIDE DEF d
<1>4. /\ calls' \in Seq(P!Continuations) /\ Len(calls') <= MaxDepth /\ Nested(calls')
      /\ \/ conn' = P!ReceiveAny(d) /\ Pending(calls') = "none"
         \/ conn' = d /\ Pending(calls') \in {"failed", "arrived"}
  <2>1. CASE conn' = P!ReceiveAny(d) /\ calls' = calls
    BY <1>3, <2>1, NoCallPart
  <2>2. CASE conn' = d /\ P!Call(<<"failed", 0>>)
    BY <1>3, <2>2, CallPart, Continues
  <2>3. CASE conn' = d /\ \E n \in 1 .. MaxArrivals : P!Call(<<"arrived", n - 1>>)
    <3>1. PICK n \in 1 .. MaxArrivals : P!Call(<<"arrived", n - 1>>)
      BY <2>3
    <3>2. n - 1 \in 0 .. MaxArrivals
      BY ConnConstants DEF PacketConstants
    <3>3. <<"arrived", n - 1>> \in P!Continuations
      BY <3>2, Continues
    <3> QED
      BY <1>3, <2>3, <3>1, <3>3, CallPart
  <2> QED
    BY <1>2, <2>1, <2>2, <2>3
<1>5. Shape(conn', life') /\ conn'.queue = conn.queue /\ conn'.sent = conn.sent
  <2>1. "read" \in P!Kinds
    BY KindsAre
  <2>2. CASE conn' = d
    BY <1>2, <1>3, <2>2
  <2>3. CASE conn' = P!Start(d, "read")
    BY <1>2, <1>3, <2>1, <2>3, StartOf DEF Shape
  <2> QED
    BY <1>2, <1>3, <2>2, <2>3, ReceiveAnyOf
<1>6. Rest'
  BY <1>1, <1>2, <1>4 DEF Rest
<1>7. PacketInv'
  BY <1>1, <1>2, <1>5 DEF PacketInv, Distinct, HeldBy
<1>8. PhaseInv'
  <2>1. ASSUME ~mixed PROVE Good(conn', Pending(calls'), early, cut)
    <3>1. /\ Under(d) = Under(conn) \ {"read"} /\ \A j \in P!Kinds : d.own[j] \in {0, 1}
          /\ Good(conn, "none", early, cut)
      BY <1>3, <2>1
    <3>2. d.connected /\ Under(d) \subseteq {"write"}
      BY <1>3, <3>1 DEF Good, Phase
    <3>3. Good(d, Pending(calls'), early, cut) /\ Good(d, "none", early, cut)
      BY <1>3, <3>1, <3>2 DEF Good, Phase, Sending
    <3>4. cut \in BOOLEAN /\ early \in BOOLEAN
      BY <1>1 DEF Rest
    <3> QED
      BY <1>3, <1>4, <3>2, <3>3, <3>4, GoodReceiveAny
  <2> QED
    BY <1>2, <1>3, <2>1 DEF PhaseInv, Good, Sending
<1> QED
  BY <1>1, <1>2, <1>4, <1>5, <1>6, <1>7, <1>8, Assembled

\* handle_read() at the end of the stream, which closes
LEMMA HandleEofStep == ASSUME ConnInv, P!HandleEof PROVE ConnInv'
<1> DEFINE d == P!Done("read")
<1>1. Rest /\ PacketInv /\ used \subseteq {"resolve"}
  BY ConnHas DEF ConnInv
<1>2. /\ P!Handled("read") /\ P!Close(d, calls)
      /\ UNCHANGED <<life, secure, stored, fresh, opens, mixed, freed, early, used>>
  BY DEF P!HandleEof
<1>3. calls = <<>> /\ life = "alive" /\ d \in Conns /\ d.queue = conn.queue /\ d.sent = conn.sent
  BY <1>2, HandledPart, KindsAre
<1> HIDE DEF d
<1>4. calls \in Seq(P!Continuations) /\ Len(calls) < MaxDepth /\ Len(calls) <= MaxDepth /\ Nested(calls)
  <2>1. Len(calls) = 0 /\ Nested(calls)
    BY <1>3 DEF Nested
  <2> QED
    BY <1>1, <2>1, ConnConstants DEF PacketConstants, Rest
<1>5. /\ Shape(conn', life') /\ conn'.queue = conn.queue /\ conn'.sent = conn.sent
      /\ calls' \in Seq(P!Continuations) /\ Len(calls') <= MaxDepth /\ Nested(calls') /\ cut' \in BOOLEAN
      /\ Good(conn', Pending(calls'), early, cut' \/ life' = "dead")
  BY <1>2, <1>3, <1>4, ClosePart
<1>6. Rest'
  BY <1>1, <1>2, <1>5 DEF Rest
<1>7. PacketInv'
  BY <1>1, <1>2, <1>5 DEF PacketInv, Distinct, HeldBy
<1>8. PhaseInv'
  BY <1>2, <1>5 DEF PhaseInv
<1> QED
  BY <1>1, <1>2, <1>5, <1>6, <1>7, <1>8, Assembled

----------------------------------------------------------------------------
\* A callback returns, and what follows it: nothing, when the connection is
\* gone, and nothing, too, when it was called in another one.
LEMMA ReturnStep == ASSUME ConnInv, P!Return PROVE ConnInv'
<1> DEFINE what == Pending(calls)
           x == cut \/ life = "dead"
           outer == P!Front(calls)
           next == P!Last(calls)
<1>1. Shape(conn, life) /\ Rest /\ PacketInv /\ Nested(calls) /\ PhaseInv /\ used \subseteq {"resolve"}
  BY ConnHas DEF ConnInv
<1>2. /\ calls # <<>>
      /\ \/ life = "dead" /\ calls' = outer /\ UNCHANGED <<conn, cut, used>>
         \/ life # "dead" /\ P!Continue(next[1], next[2], outer) /\ used' = used
      /\ UNCHANGED <<life, secure, stored, fresh, opens, mixed, freed, early>>
  BY DEF P!Return, P!Gone
<1>3. /\ outer \in Seq(P!Continuations) /\ Len(outer) = Len(calls) - 1 /\ next \in P!Continuations
      /\ Nested(outer) /\ Pending(outer) \in {"none", what}
      /\ \/ outer = <<>> /\ next[1] = what
         \/ next[1] = "nothing"
  BY <1>1, <1>2, Returned DEF Rest
<1>4. Len(outer) < MaxDepth /\ Len(outer) <= MaxDepth /\ Len(outer) \in Nat
  <2>1. Len(calls) \in Nat /\ Len(calls) <= MaxDepth /\ MaxDepth \in Nat
    BY <1>1, ConnConstants DEF Rest, PacketConstants
  <2> QED
    BY <1>3, <2>1
<1>5. conn \in Conns /\ x \in BOOLEAN /\ early \in BOOLEAN /\ cut \in BOOLEAN
  BY <1>1 DEF Shape, Rest
<1> HIDE DEF outer, next, what
<1>6. outer = <<>> => Pending(outer) = "none"
  BY DEF Pending
\* What a step owes that leaves the packets where they are.
<1>7. ASSUME Shape(conn', life), Distinct(conn'), HeldBy(conn') = HeldBy(conn),
             calls' \in Seq(P!Continuations), Len(calls') <= MaxDepth, Nested(calls'),
             cut' \in BOOLEAN, used' = used,
             ~mixed => Good(conn', Pending(calls'), early, cut' \/ life = "dead")
      PROVE  ConnInv'
  <2>1. Rest'
    BY <1>1, <1>2, <1>7 DEF Rest
  <2>2. PacketInv'
    BY <1>1, <1>2, <1>7 DEF PacketInv
  <2>3. PhaseInv'
    BY <1>2, <1>7 DEF PhaseInv
  <2> QED
    BY <1>1, <1>2, <1>7, <2>1, <2>2, <2>3, Assembled
<1>8. CASE life = "dead" /\ calls' = outer /\ UNCHANGED <<conn, cut, used>>
  <2>1. Under(conn) = {}
    BY <1>1, <1>8 DEF Shape
  <2>2. Good(conn, Pending(outer), early, x)
    BY <1>5, <1>8, <2>1, GoodEmpty
  <2>3. Distinct(conn)
    BY <1>1 DEF PacketInv
  <2> QED
    BY <1>1, <1>3, <1>4, <1>5, <1>7, <1>8, <2>2, <2>3
<1>9. CASE life # "dead" /\ P!Continue(next[1], next[2], outer) /\ used' = used
  <2>1. Distinct(conn) /\ (~mixed => Good(conn, what, early, x))
    BY <1>1 DEF PacketInv, PhaseInv, what
  <2>2. CASE next[1] = "nothing" /\ calls' = outer /\ UNCHANGED <<conn, cut>>
    <3>1. ~mixed => Good(conn, Pending(outer), early, x)
      BY <1>3, <1>5, <2>1, GoodAfter
    <3> QED
      BY <1>1, <1>3, <1>4, <1>5, <1>7, <1>9, <2>1, <2>2, <3>1
  <2>3. CASE P!Close(conn, outer)
    <3>1. /\ Shape(conn', life') /\ conn'.queue = conn.queue /\ conn'.sent = conn.sent
          /\ calls' \in Seq(P!Continuations) /\ Len(calls') <= MaxDepth /\ Nested(calls') /\ cut' \in BOOLEAN
          /\ Good(conn', Pending(calls'), early, cut' \/ life' = "dead")
      BY <1>3, <1>4, <1>5, <2>3, ClosePart
    <3>2. Distinct(conn') /\ HeldBy(conn') = HeldBy(conn)
      BY <2>1, <3>1 DEF Distinct, HeldBy
    <3> QED
      BY <1>2, <1>7, <1>9, <3>1, <3>2
  <2>4. CASE next[1] = "arrived" /\ next[2] > 0 /\ calls' = Append(outer, <<next[1], next[2] - 1>>) /\ UNCHANGED <<conn, cut>>
    <3>1. next[2] \in 0 .. MaxArrivals
      BY <1>3 DEF P!Continuations
    <3>2. next[2] - 1 \in 0 .. MaxArrivals
      BY <2>4, <3>1, ConnConstants DEF PacketConstants
    <3>3. <<next[1], next[2] - 1>> \in P!Continuations
      BY <2>4, <3>2, Continues
    <3>4. outer = <<>> /\ what = "arrived"
      BY <1>3, <2>4
    <3>5. /\ calls' \in Seq(P!Continuations) /\ Len(calls') = Len(outer) + 1 /\ Nested(calls')
          /\ Pending(calls') = "arrived"
      BY <1>3, <2>4, <3>3, <3>4, Called
    <3>6. Len(calls') <= MaxDepth
      BY <1>4, <3>5, ConnConstants DEF PacketConstants
    <3> QED
      BY <1>1, <1>5, <1>7, <1>9, <2>1, <2>4, <3>4, <3>5, <3>6
  <2>5. CASE calls' = outer /\ cut' = cut /\ next[1] = "arrived" /\ next[2] = 0 /\ conn' = P!ReceiveAny(conn)
    <3>1. outer = <<>> /\ what = "arrived" /\ Pending(outer) = "none"
      BY <1>3, <1>6, <2>5
    <3>2. ~mixed => Good(conn', "none", early, x)
      <4>1. ASSUME ~mixed, conn.connected PROVE Under(conn) \subseteq {"write"}
        BY <2>1, <3>1, <4>1 DEF Good, Phase
      <4> QED
        BY <1>5, <2>1, <2>5, <4>1, GoodReceiveAny
    <3>3. conn' \in Conns /\ Shape(conn', life) /\ conn'.queue = conn.queue /\ conn'.sent = conn.sent
      BY <1>1, <1>5, <1>9, <2>5, ReceivedShape DEF Rest
    <3>4. Distinct(conn') /\ HeldBy(conn') = HeldBy(conn)
      BY <2>1, <3>3 DEF Distinct, HeldBy
    <3> QED
      BY <1>3, <1>4, <1>5, <1>7, <1>9, <2>5, <3>1, <3>2, <3>3, <3>4
  <2>6. CASE calls' = outer /\ cut' = cut /\ next[1] = "established" /\ conn' = P!ReceiveAny(P!SendAny(conn))
    <3> DEFINE s == P!SendAny(conn)
    <3>1. outer = <<>> /\ what = "established" /\ Pending(outer) = "none"
      BY <1>3, <1>6, <2>6
    <3>2. s \in Conns /\ Shape(s, life) /\ Distinct(s) /\ HeldBy(s) = HeldBy(conn) /\ s.connected = conn.connected
      BY <1>1, <1>5, <1>9, <2>1, SentShape DEF Rest
    <3>3. ASSUME ~mixed PROVE Good(conn', "none", early, x)
      <4>1. conn.connected => Under(conn) \subseteq {"write"}
        BY <2>1, <3>1, <3>3 DEF Good, Phase
      <4>2. "handshake" \in Under(conn) => early
        BY <2>1, <3>3, <4>1 DEF Good, Phase
      <4>3. Good(s, what, early, x)
        BY <1>5, <2>1, <3>3, <4>2, GoodSendAny
      <4>4. s.connected => Under(s) \subseteq {"write"}
        BY <1>5, <2>1, <3>2, <4>1, SendAnyOf
      <4> QED
        BY <1>5, <2>6, <3>2, <4>3, <4>4, GoodReceiveAny
    <3> HIDE DEF s
    <3>4. conn' \in Conns /\ Shape(conn', life) /\ conn'.queue = s.queue /\ conn'.sent = s.sent
      <4>1. conn' = P!ReceiveAny(s)
        BY <2>6 DEF s
      <4> QED
        BY <1>1, <1>9, <3>2, <4>1, ReceivedShape DEF Rest
    <3>5. Distinct(conn') /\ HeldBy(conn') = HeldBy(conn)
      BY <3>2, <3>4 DEF Distinct, HeldBy
    <3> QED
      BY <1>3, <1>4, <1>5, <1>7, <1>9, <2>6, <3>1, <3>3, <3>4, <3>5
  <2>7. CASE calls' = outer /\ cut' = cut /\ next[1] = "sent" /\ conn' = P!SendAny(conn)
    <3>1. outer = <<>> /\ what = "sent" /\ Pending(outer) = "none"
      BY <1>3, <1>6, <2>7
    <3>2. Shape(conn', life) /\ Distinct(conn') /\ HeldBy(conn') = HeldBy(conn)
      BY <1>1, <1>5, <1>9, <2>1, <2>7, SentShape DEF Rest
    <3>3. ASSUME ~mixed PROVE Good(conn', "none", early, x)
      <4>1. "handshake" \in Under(conn) => early
        BY <2>1, <3>1, <3>3 DEF Good, Phase
      <4>2. Good(conn', what, early, x)
        BY <1>5, <2>1, <2>7, <3>3, <4>1, GoodSendAny
      <4> QED
        BY <1>5, <4>2, GoodAfter
    <3> QED
      BY <1>3, <1>4, <1>5, <1>7, <1>9, <2>7, <3>1, <3>2, <3>3
  <2> QED
    BY <1>9, <2>2, <2>3, <2>4, <2>5, <2>6, <2>7 DEF P!Continue
<1> QED
  BY <1>2, <1>8, <1>9

\* Whatever is not an operation of the stream or its connection.
LEMMA ConnStutter == ASSUME ConnInv, UNCHANGED P!vars PROVE ConnInv'
<1>1. UNCHANGED <<life, secure, conn, stored, fresh, calls, opens, mixed, cut, freed, early, used>>
  BY DEF P!vars, P!history
<1>2. Shape(conn, life) /\ Rest /\ PacketInv /\ Nested(calls) /\ PhaseInv /\ used \subseteq {"resolve"}
  BY ConnHas DEF ConnInv
<1>3. Shape(conn', life') /\ Nested(calls') /\ used' \subseteq {"resolve"}
  BY <1>1, <1>2
<1>4. Rest'
  BY <1>1, <1>2 DEF Rest
<1>5. PacketInv'
  BY <1>1, <1>2 DEF PacketInv
<1>6. PhaseInv'
  BY <1>1, <1>2 DEF PhaseInv
<1> QED
  BY <1>3, <1>4, <1>5, <1>6, Assembled

\* A connection starts closed.
LEMMA InitConnInv == ASSUME P!Init PROVE ConnInv
<1>1. /\ life = "alive" /\ secure \in BOOLEAN
      /\ conn = [opened |-> FALSE, connected |-> FALSE, queue |-> <<>>, sent |-> NoPacket,
                 own |-> P!NoOps, stale |-> P!NoOps]
      /\ stored = {} /\ fresh = Packets /\ calls = <<>> /\ opens = 0
      /\ mixed = FALSE /\ cut = FALSE /\ freed = {} /\ early = FALSE /\ used = {}
  BY DEF P!Init
<1>2. /\ conn \in Conns /\ ~conn.opened /\ ~conn.connected /\ conn.queue = <<>> /\ conn.sent = NoPacket
      /\ conn.own = P!NoOps
  BY <1>1 DEF Conns, P!NoOps
<1>3. Under(conn) = {}
  BY <1>2, NoneUnder
<1>4. P!TypeOK
  <2>1. calls \in Seq(P!Continuations) /\ Len(calls) <= MaxDepth /\ opens \in 0 .. MaxOpens
    BY <1>1, ConnConstants DEF PacketConstants
  <2> QED
    BY <1>1, <1>2, <2>1 DEF P!TypeOK, Conns
<1>5. PacketInv
  <2>1. P!ToSet(conn.queue) = {} /\ Distinct(conn)
    BY <1>2 DEF P!ToSet, Distinct
  <2> QED
    BY <1>2, <2>1 DEF PacketInv, HeldBy
<1>6. Nested(calls)
  BY <1>1 DEF Nested
<1>7. PhaseInv
  <2>1. cut \in BOOLEAN /\ early \in BOOLEAN
    BY <1>1
  <2> QED
    BY <1>2, <1>3, <2>1, GoodEmpty DEF PhaseInv
<1> QED
  BY <1>1, <1>4, <1>5, <1>6, <1>7 DEF ConnInv

\* Each step of the owner, the operations and the callbacks keeps it.
LEMMA ConnStep == ConnInv /\ [P!Next]_(P!vars) => ConnInv'
<1> SUFFICES ASSUME ConnInv, [P!Next]_(P!vars) PROVE ConnInv'
  OBVIOUS
<1> HIDE DEF ConnInv
<1>1. ASSUME NEW q \in Packets, P!SendPacket(q) PROVE ConnInv'
  BY <1>1, SendPacketStep
<1>2. CASE UNCHANGED P!vars
  BY <1>2, ConnStutter
<1> QED
  BY <1>1, <1>2, OpenStep, OwnerCloses, HandleResolveStep, StaleStep, HandleConnectStep, HandleHandshakeStep,
     ServerAcceptStep, HandleWriteStep, HandleReadStep, HandleEofStep, ReturnStep
     DEF P!Next, P!Owner, P!Completes

\* What it says of the connection is what the run checks.
LEMMA ConnImplies == ConnInv => ConnectionSafe
<1> SUFFICES ASSUME ConnInv PROVE ConnectionSafe
  OBVIOUS
<1>1. P!TypeOK /\ used \subseteq {"resolve"} /\ PacketInv /\ PhaseInv
  BY DEF ConnInv
<1>2. conn \in Conns
  BY <1>1 DEF P!TypeOK, Conns
<1>3. conn.own \in [P!Kinds -> Nat]
  BY <1>2 DEF Conns
<1>4. P!PacketsThere
  BY <1>1 DEF PacketInv, HeldBy, P!PacketsThere
<1>5. ASSUME ~mixed
      PROVE  /\ conn.own["write"] <= 1 /\ conn.own["read"] <= 1
             /\ conn.own["write"] = 1 => conn.sent # NoPacket
             /\ cut \/ life = "dead" \/ (conn.sent # NoPacket => conn.own["write"] = 1)
             /\ conn.own["handshake"] > 0 /\ conn.own["write"] > 0 => early
  <2>1. Good(conn, Pending(calls), early, cut \/ life = "dead")
    BY <1>1, <1>5 DEF PhaseInv
  <2>2. \A k \in P!Kinds : conn.own[k] \in {0, 1} /\ (k \in Under(conn) <=> conn.own[k] = 1)
    BY <2>1 DEF Good, Phase, Under
  <2>3. "write" \in P!Kinds /\ "read" \in P!Kinds /\ "handshake" \in P!Kinds
    BY KindsAre
  <2>4. conn.own["write"] \in {0, 1} /\ conn.own["read"] \in {0, 1} /\ conn.own["handshake"] \in {0, 1}
    BY <2>2, <2>3
  <2>5. /\ "write" \in Under(conn) <=> conn.own["write"] = 1
        /\ "handshake" \in Under(conn) <=> conn.own["handshake"] = 1
    BY <2>2, <2>3
  <2>6. conn.own["write"] <= 1 /\ conn.own["read"] <= 1
    BY <2>4
  <2>7. conn.own["handshake"] > 0 /\ conn.own["write"] > 0
        => "handshake" \in Under(conn) /\ "write" \in Under(conn)
    BY <2>4, <2>5
  <2> QED
    BY <2>1, <2>5, <2>6, <2>7 DEF Good, Phase, Sending
<1>6. P!OneAtATime
  BY <1>5 DEF P!OneAtATime
<1>7. P!HandshakeAlone
  BY <1>5 DEF P!HandshakeAlone
<1> QED
  BY <1>1, <1>4, <1>6, <1>7 DEF ConnectionSafe, P!NoUseAfterDestroy

\* The connection and the stream that owns it are safe, whatever the owner
\* does in its handlers, for every number of packets, openings and callbacks.
THEOREM ConnectionIsSafe == P!Spec => []ConnectionSafe
<1>1. P!Init => ConnInv
  BY InitConnInv
<1> QED
  BY <1>1, ConnStep, ConnImplies, PTL DEF P!Spec

----------------------------------------------------------------------------
\* HTTP requests: what is read of a response, whatever the server sends: the
\* status line goes on until the connection closes, and iOk stays false.
Unread == [state : {"ResponseStatus", "Finished"}, crlf : {FALSE}, line : BOOLEAN, ok : {FALSE},
           length : {H!Unknown}, chunked : {FALSE}, body : {0}, last : {FALSE}, reported : {FALSE}]
Followed == {"done", "close", "fail", "open"} \X (H!Requests \cup {0})
Ended == [H!Requests -> [completed : {0}, failed : Nat]]
Streaming == {"opening", "handshake", "connected"}

HttpTypes ==
  /\ made \in 0 .. MaxRequests /\ current \in 0 .. made
  /\ phase \in H!Phases /\ error \in BOOLEAN /\ response \in Unread
  /\ handlers \in Seq(Followed) /\ Len(handlers) <= MaxDepth
  /\ silenced \cup doubled \subseteq H!Requests
  /\ ends \in Ended /\ misused \subseteq {"packet", "storage"}
  /\ phase # "none" \/ handlers # <<>> => current # 0

\* The stream that is being destroyed is so in the innermost handler, and no other.
NoOpen(cs) == \A i \in 1 .. Len(cs) : cs[i][1] # "open"
Replacing ==
  /\ handlers # <<>> /\ H!Last(handlers)[1] = "open" /\ NoOpen(H!Front(handlers))
  /\ current < made
StackInv == misused = {} => IF phase = "destroying" THEN Replacing ELSE NoOpen(handlers)

\* How often the current request, and the others, were told to have failed: the
\* current one, while it has a stream, only if the stream is about to be closed.
AtMostOne(e, G) == \A r \in H!Requests : r \notin G => e[r].failed <= 1
Never(e, r) == e[r].failed = 0
Later(e, c) == \A r \in H!Requests : r > c => Never(e, r)
Now(e, G, c, ph, what) == c \in H!Requests \ G /\ ph \in Streaming => Never(e, c) \/ what = "close"
EndsInv ==
  /\ AtMostOne(ends, doubled) /\ Later(ends, current)
  /\ Now(ends, doubled, current, phase, Pending(handlers))

HttpInv == HttpTypes /\ StackInv /\ EndsInv

HttpConstants == MaxRequests \in Nat /\ MaxBody \in Nat /\ MaxDepth \in Nat \ {0}

\* What is assumed of the constants.
LEMMA HttpHas == HttpConstants
BY PartsAssumption DEF H!HttpAssumption, HttpConstants

\* A handler that is called is the innermost, and the outermost when there was none.
LEMMA Told ==
  ASSUME NEW C, NEW cs \in Seq(C), NEW y \in C
  PROVE  /\ Append(cs, y) \in Seq(C) /\ Len(Append(cs, y)) = Len(cs) + 1
         /\ Append(cs, y) # <<>> /\ H!Last(Append(cs, y)) = y /\ H!Front(Append(cs, y)) = cs
         /\ Pending(Append(cs, y)) = IF cs = <<>> THEN y[1] ELSE Pending(cs)
         /\ NoOpen(cs) /\ y[1] # "open" => NoOpen(Append(cs, y))
<1>1. /\ Append(cs, y) \in Seq(C) /\ Len(cs) \in Nat /\ Len(Append(cs, y)) = Len(cs) + 1
      /\ \A i \in 1 .. Len(cs) + 1 : Append(cs, y)[i] = IF i <= Len(cs) THEN cs[i] ELSE y
      /\ (cs = <<>> <=> Len(cs) = 0)
  OBVIOUS
<1>2. Append(cs, y) # <<>> /\ H!Last(Append(cs, y)) = y
  BY <1>1 DEF H!Last
<1>3. Pending(Append(cs, y)) = IF cs = <<>> THEN y[1] ELSE Pending(cs)
  BY Called
<1>4. ASSUME NoOpen(cs), y[1] # "open" PROVE NoOpen(Append(cs, y))
  <2> SUFFICES ASSUME NEW i \in 1 .. Len(cs) + 1 PROVE Append(cs, y)[i][1] # "open"
    BY <1>1 DEF NoOpen
  <2>1. CASE i <= Len(cs)
    BY <1>1, <1>4, <2>1 DEF NoOpen
  <2>2. CASE i = Len(cs) + 1
    BY <1>1, <1>4, <2>2
  <2> QED
    BY <1>1, <2>1, <2>2
<1>5. H!Front(Append(cs, y)) = cs
  <2>1. H!Front(Append(cs, y)) = SubSeq(Append(cs, y), 1, Len(Append(cs, y)) - 1)
    BY DEF H!Front
  <2> QED
    BY <1>1, <2>1, AppendProperties
<1> QED
  BY <1>1, <1>2, <1>3, <1>4, <1>5

\* A handler that returns was the innermost; the others are as they were.
LEMMA Back ==
  ASSUME NEW C, NEW cs \in Seq(C), cs # <<>>
  PROVE  /\ H!Front(cs) \in Seq(C) /\ Len(H!Front(cs)) = Len(cs) - 1 /\ H!Last(cs) \in C
         /\ H!Front(cs) = <<>> => Pending(cs) = H!Last(cs)[1] /\ Pending(H!Front(cs)) = "none"
         /\ H!Front(cs) # <<>> => Pending(H!Front(cs)) = Pending(cs)
         /\ NoOpen(cs) => NoOpen(H!Front(cs)) /\ H!Last(cs)[1] # "open"
<1>1. Len(cs) \in Nat \ {0} /\ H!Last(cs) = cs[Len(cs)] /\ cs[Len(cs)] \in C
  BY DEF H!Last
<1>2. /\ H!Front(cs) \in Seq(C) /\ Len(H!Front(cs)) = Len(cs) - 1
      /\ \A i \in 1 .. Len(cs) - 1 : H!Front(cs)[i] = cs[i]
  <2>1. H!Front(cs) = SubSeq(cs, 1, Len(cs) - 1)
    BY DEF H!Front
  <2>2. \A i \in 1 .. Len(cs) - 1 : cs[i] \in C
    BY <1>1
  <2> DEFINE n == Len(cs) - 1
             f == SubSeq(cs, 1, n)
  <2>3. n \in Nat
    BY <1>1
  <2>4. \A i \in 1 .. n : cs[i] \in C
    BY <2>2
  <2> HIDE DEF n
  <2>5. f \in Seq(C) /\ Len(f) = (IF 1 <= n THEN n - 1 + 1 ELSE 0) /\ \A i \in 1 .. n - 1 + 1 : f[i] = cs[1 + i - 1]
    BY <2>3, <2>4, SubSeqProperties
  <2>6. Len(f) = n
    BY <2>3, <2>5
  <2>7. \A i \in 1 .. n : f[i] = cs[i]
    BY <2>3, <2>5
  <2> QED
    BY <2>1, <2>5, <2>6, <2>7 DEF n
<1>3. NoOpen(cs) => NoOpen(H!Front(cs)) /\ H!Last(cs)[1] # "open"
  BY <1>1, <1>2 DEF NoOpen
<1>4. CASE Len(cs) = 1
  <2>1. H!Front(cs) = <<>>
    BY <1>2, <1>4
  <2> QED
    BY <1>1, <1>2, <1>3, <1>4, <2>1 DEF Pending
<1>5. CASE Len(cs) # 1
  <2>1. H!Front(cs) # <<>> /\ H!Front(cs)[1] = cs[1]
    BY <1>1, <1>2, <1>5
  <2> QED
    BY <1>1, <1>2, <1>3, <2>1 DEF Pending
<1> QED
  BY <1>4, <1>5

\* A failure is told.
LEMMA FailureTold ==
  ASSUME NEW e \in Ended, NEW c \in H!Requests, NEW G, NEW G2, G \subseteq G2,
         AtMostOne(e, G), c \notin G2 => Never(e, c)
  PROVE  LET f == [e EXCEPT ![c]["failed"] = @ + 1]
         IN  /\ f \in Ended /\ AtMostOne(f, G2)
             /\ \A r \in H!Requests : r # c => f[r] = e[r]
<1> DEFINE f == [e EXCEPT ![c]["failed"] = @ + 1]
<1>1. e[c] \in [completed : {0}, failed : Nat]
  BY DEF Ended
<1>2. f = [e EXCEPT ![c] = [e[c] EXCEPT !["failed"] = e[c].failed + 1]]
  OBVIOUS
<1>3. [e[c] EXCEPT !["failed"] = e[c].failed + 1] \in [completed : {0}, failed : Nat]
  BY <1>1
<1>4. f \in Ended /\ \A r \in H!Requests : r # c => f[r] = e[r]
  BY <1>2, <1>3 DEF Ended
<1>5. f[c].failed = e[c].failed + 1
  BY <1>1, <1>2 DEF Ended
<1> HIDE DEF f
<1>6. c \notin G2 => f[c].failed <= 1
  BY <1>5 DEF Never
<1>7. AtMostOne(f, G2)
  BY <1>4, <1>6 DEF AtMostOne
<1> QED
  BY <1>4, <1>7 DEF f

\* Nothing that was told of the requests after the current one is told now.
LEMMA LaterStays ==
  ASSUME NEW e, NEW f, NEW c \in H!Requests, Later(e, c),
         \A r \in H!Requests : r # c => f[r] = e[r]
  PROVE  Later(f, c)
<1> SUFFICES ASSUME NEW r \in H!Requests, r > c PROVE Never(f, r)
  BY DEF Later
<1>1. r # c
  BY DEF H!Requests
<1> QED
  BY <1>1 DEF Later, Never

----------------------------------------------------------------------------
\* The steps.

\* What is current, a request.
LEMMA CurrentIs ==
  ASSUME HttpTypes, HttpConstants
  PROVE  /\ current \in H!Requests \cup {0} /\ made \in H!Requests \cup {0}
         /\ phase # "none" \/ handlers # <<>> => current \in H!Requests
BY DEF HttpTypes, HttpConstants, H!Requests

\* A response of which nothing is read is not taken for whole, and stays so.
LEMMA NotWhole ==
  ASSUME NEW r \in Unread
  PROVE  /\ ~H!Whole(r) /\ H!Cleared(r) \in Unread
         /\ [H!Cleared(r) EXCEPT !.state = "Finished"] \in Unread
         /\ [r EXCEPT !.line = TRUE, !.crlf = FALSE] \in Unread
<1>1. ~r.ok /\ r = [state |-> r.state, crlf |-> FALSE, line |-> r.line, ok |-> FALSE, length |-> H!Unknown,
                    chunked |-> FALSE, body |-> 0, last |-> FALSE, reported |-> FALSE]
      /\ r.state \in {"ResponseStatus", "Finished"} /\ r.line \in BOOLEAN
  BY DEF Unread
<1>2. ~H!Whole(r)
  BY <1>1 DEF H!Whole
<1>3. H!Cleared(r) \in Unread
  BY DEF H!Cleared, Unread
<1>4. [H!Cleared(r) EXCEPT !.state = "Finished"] \in Unread
  BY <1>3 DEF Unread
<1>5. [r EXCEPT !.line = TRUE, !.crlf = FALSE] \in Unread
  BY DEF Unread
<1> QED
  BY <1>2, <1>3, <1>4, <1>5

\* The responses that request() begins with.
LEMMA NothingRead == H!NoResponse \in Unread /\ [H!NoResponse EXCEPT !.state = "Finished"] \in Unread
<1>1. FALSE \in BOOLEAN
  OBVIOUS
<1>2. H!NoResponse \in Unread
  BY <1>1 DEF H!NoResponse, Unread
<1> QED
  BY <1>2 DEF Unread

\* A failure is told: the handler of it runs.
LEMMA TellsFailure ==
  ASSUME HttpConstants, ends \in Ended, NEW outer \in Seq(Followed),
         NEW next \in {"done", "close", "fail", "open"},
         H!Tell("failed", next, outer), current' \in H!Requests,
         NEW G, NEW G2, G \subseteq G2, AtMostOne(ends, G), current' \notin G2 => Never(ends, current')
  PROVE  /\ handlers' \in Seq(Followed) /\ Len(handlers') <= MaxDepth /\ handlers' # <<>>
         /\ H!Last(handlers')[1] = next /\ H!Front(handlers') = outer
         /\ Pending(handlers') = IF outer = <<>> THEN next ELSE Pending(outer)
         /\ NoOpen(outer) /\ next # "open" => NoOpen(handlers')
         /\ ends' \in Ended /\ AtMostOne(ends', G2)
         /\ \A r \in H!Requests : r # current' => ends'[r] = ends[r]
<1> DEFINE y == <<next, current'>>
<1>1. current' # 0 /\ y \in Followed /\ y[1] = next
  BY DEF H!Requests, Followed
<1>2. /\ Len(outer) < MaxDepth /\ handlers' = Append(outer, y)
      /\ ends' = [ends EXCEPT ![current']["failed"] = @ + 1]
  BY <1>1 DEF H!Tell
<1> HIDE DEF y
<1>3. /\ handlers' \in Seq(Followed) /\ Len(handlers') = Len(outer) + 1 /\ handlers' # <<>>
      /\ H!Last(handlers') = y /\ H!Front(handlers') = outer
      /\ Pending(handlers') = IF outer = <<>> THEN y[1] ELSE Pending(outer)
      /\ NoOpen(outer) /\ y[1] # "open" => NoOpen(handlers')
  BY <1>1, <1>2, Told
<1>4. Len(handlers') <= MaxDepth
  <2>1. Len(outer) \in Nat
    OBVIOUS
  <2> QED
    BY <1>2, <1>3, <2>1 DEF HttpConstants
<1>5. /\ ends' \in Ended /\ AtMostOne(ends', G2)
      /\ \A r \in H!Requests : r # current' => ends'[r] = ends[r]
  <2> DEFINE c == current'
             f == [ends EXCEPT ![c]["failed"] = @ + 1]
  <2>1. c \in H!Requests /\ (c \notin G2 => Never(ends, c)) /\ ends' = f
    BY <1>2
  <2> HIDE DEF c
  <2>2. /\ f \in Ended /\ AtMostOne(f, G2)
        /\ \A r \in H!Requests : r # c => f[r] = ends[r]
    BY <2>1, FailureTold
  <2> HIDE DEF f
  <2> QED
    BY <2>1, <2>2 DEF c
<1> QED
  BY <1>1, <1>3, <1>4, <1>5

\* The stream connects.
LEMMA ConnectsStep == ASSUME HttpInv, H!Connects PROVE HttpInv'
<1>1. HttpTypes /\ StackInv /\ EndsInv
  BY DEF HttpInv
<1>2. /\ handlers = <<>> /\ misused = {} /\ phase \in {"opening", "handshake"} /\ phase' \in {"handshake", "connected"}
      /\ UNCHANGED <<made, current, error, response, handlers, ends, silenced, doubled, misused>>
  BY DEF H!Connects, H!InLoop, H!history
<1>3. HttpTypes'
  BY <1>1, <1>2 DEF HttpTypes, H!Phases
<1>4. StackInv'
  BY <1>1, <1>2 DEF StackInv
<1>5. EndsInv'
  BY <1>1, <1>2 DEF EndsInv, Now, Streaming
<1> QED
  BY <1>3, <1>4, <1>5 DEF HttpInv

\* A character arrives: a line end is a delimiter of packets, and anything else
\* is read for a part of the status line.
LEMMA ArrivesStep == ASSUME HttpInv, NEW ch \in {"cr", "lf", "other"}, H!Arrives(ch) PROVE HttpInv'
<1>1. HttpTypes /\ StackInv /\ EndsInv
  BY DEF HttpInv
<1>2. /\ handlers = <<>> /\ misused = {} /\ phase = "connected"
      /\ response' \in IF H!IsDelimiter(ch) THEN {response} ELSE H!PacketArrived(ch, response)
      /\ handlers' = IF response'.reported /\ ~response.reported THEN Append(handlers, <<"packet", current>>) ELSE handlers
      /\ UNCHANGED <<made, current, phase, error, ends, silenced, doubled, misused>>
  BY DEF H!Arrives, H!InLoop, H!history
<1>3. response \in Unread
  BY <1>1 DEF HttpTypes
<1>4. response' \in Unread
  <2>1. CASE ch \in {"cr", "lf"}
    BY <1>2, <1>3, <2>1 DEF H!IsDelimiter
  <2>2. CASE ch = "other"
    <3>1. response.state # "Body"
      BY <1>3 DEF Unread
    <3>2. response' \in H!PacketArrived("other", response)
      BY <1>2, <2>2 DEF H!IsDelimiter
    <3>3. response' = [response EXCEPT !.line = TRUE, !.crlf = FALSE]
      BY <3>1, <3>2 DEF H!PacketArrived
    <3> QED
      BY <1>3, <3>3, NotWhole
  <2> QED
    BY <2>1, <2>2
<1>5. handlers' = handlers
  <2>1. ~response'.reported
    BY <1>4 DEF Unread
  <2> QED
    BY <1>2, <2>1
<1>6. HttpTypes'
  BY <1>1, <1>2, <1>4, <1>5 DEF HttpTypes
<1>7. StackInv'
  BY <1>1, <1>2, <1>5 DEF StackInv
<1>8. EndsInv'
  BY <1>1, <1>2, <1>5 DEF EndsInv
<1> QED
  BY <1>6, <1>7, <1>8 DEF HttpInv

\* The stream fails.
LEMMA FailsStep == ASSUME HttpInv, H!Fails PROVE HttpInv'
<1> USE HttpHas
<1>1. HttpTypes /\ StackInv /\ EndsInv
  BY DEF HttpInv
<1>2. /\ handlers = <<>> /\ misused = {} /\ phase \in Streaming /\ error' = TRUE /\ response' = H!Cleared(response)
      /\ current' = current /\ H!Tell("failed", "close", handlers)
      /\ UNCHANGED <<made, phase, silenced, doubled, misused>>
  BY DEF H!Fails, H!InLoop, Streaming
<1>3. current \in H!Requests /\ current' \in H!Requests
  BY <1>1, <1>2, CurrentIs DEF Streaming
<1>4. current' \notin doubled => Never(ends, current')
  BY <1>1, <1>2, <1>3 DEF EndsInv, Now, Pending
<1>5. /\ ends \in Ended /\ handlers \in Seq(Followed) /\ AtMostOne(ends, doubled) /\ NoOpen(handlers)
      /\ Later(ends, current) /\ response \in Unread
  BY <1>1, <1>2 DEF HttpTypes, EndsInv, StackInv, Streaming
<1>6. /\ handlers' \in Seq(Followed) /\ Len(handlers') <= MaxDepth /\ handlers' # <<>>
      /\ Pending(handlers') = "close" /\ NoOpen(handlers')
      /\ ends' \in Ended /\ AtMostOne(ends', doubled)
      /\ \A r \in H!Requests : r # current' => ends'[r] = ends[r]
  BY <1>2, <1>3, <1>4, <1>5, TellsFailure
<1>7. response' \in Unread
  BY <1>2, <1>5, NotWhole
<1>8. HttpTypes'
  BY <1>1, <1>2, <1>3, <1>6, <1>7 DEF HttpTypes, Streaming
<1>9. StackInv'
  BY <1>2, <1>6 DEF StackInv, Streaming
<1>10. EndsInv'
  <2>1. Later(ends', current')
    BY <1>2, <1>3, <1>5, <1>6, LaterStays
  <2> QED
    BY <1>2, <1>6, <2>1 DEF EndsInv, Now
<1> QED
  BY <1>8, <1>9, <1>10 DEF HttpInv

\* The server closes the connection: the request fails, and never completes.
LEMMA EofStep == ASSUME HttpInv, H!Eof PROVE HttpInv'
<1> USE HttpHas
<1>1. HttpTypes /\ StackInv /\ EndsInv
  BY DEF HttpInv
<1>2. /\ handlers = <<>> /\ misused = {} /\ phase = "connected" /\ phase' = "closed" /\ current' = current
      /\ H!ConnectionClosed(handlers)
      /\ UNCHANGED <<made, error, silenced, doubled, misused>>
  BY DEF H!Eof, H!InLoop
<1>3. current \in H!Requests /\ current' \in H!Requests
  BY <1>1, <1>2, CurrentIs
<1>4. current' \notin doubled => Never(ends, current')
  BY <1>1, <1>2, <1>3 DEF EndsInv, Now, Pending, Streaming
<1>5. /\ ends \in Ended /\ handlers \in Seq(Followed) /\ AtMostOne(ends, doubled) /\ NoOpen(handlers)
      /\ Later(ends, current) /\ response \in Unread
  BY <1>1, <1>2 DEF HttpTypes, EndsInv, StackInv
<1>6. response' = [H!Cleared(response) EXCEPT !.state = "Finished"] /\ H!Tell("failed", "done", handlers)
  BY <1>2, <1>5, NotWhole DEF H!ConnectionClosed
<1>7. /\ handlers' \in Seq(Followed) /\ Len(handlers') <= MaxDepth /\ handlers' # <<>>
      /\ NoOpen(handlers')
      /\ ends' \in Ended /\ AtMostOne(ends', doubled)
      /\ \A r \in H!Requests : r # current' => ends'[r] = ends[r]
  BY <1>3, <1>4, <1>5, <1>6, TellsFailure
<1>8. response' \in Unread
  BY <1>5, <1>6, NotWhole
<1>9. HttpTypes'
  BY <1>1, <1>2, <1>3, <1>7, <1>8 DEF HttpTypes, H!Phases
<1>10. StackInv'
  BY <1>2, <1>7 DEF StackInv
<1>11. EndsInv'
  <2>1. Later(ends', current')
    BY <1>2, <1>3, <1>5, <1>7, LaterStays
  <2> QED
    BY <1>2, <1>7, <2>1 DEF EndsInv, Now, Streaming
<1> QED
  BY <1>9, <1>10, <1>11 DEF HttpInv

\* A stream is opened.
LEMMA OpenedPart ==
  ASSUME HttpInv, misused' = {}, NEW r \in H!Requests, NEW outer \in Seq(Followed), Len(outer) <= MaxDepth,
         NoOpen(outer), H!Opened(r, outer), r > current, made' = r,
         silenced' = silenced, response' \in Unread
  PROVE  HttpInv'
<1> USE HttpHas
<1>1. HttpTypes /\ EndsInv
  BY DEF HttpInv
<1>2. /\ current' = r /\ error' = FALSE
      /\ \/ phase' = "opening" /\ H!Quiet(outer) /\ doubled' = doubled
         \/ phase' = "closed" /\ H!Tell("failed", "done", outer) /\ doubled' = doubled
         \/ phase' = "opening" /\ H!Tell("failed", "fail", outer) /\ doubled' = doubled \cup {r}
  BY DEF H!Opened
<1>3. /\ ends \in Ended /\ doubled \subseteq H!Requests /\ AtMostOne(ends, doubled) /\ Later(ends, current) /\ Never(ends, r)
      /\ doubled' \subseteq H!Requests /\ doubled \subseteq doubled'
  BY <1>1, <1>2 DEF HttpTypes, EndsInv, Later, H!Requests
<1>4. current' \in H!Requests /\ (current' \notin doubled' => Never(ends, current'))
  BY <1>2, <1>3
<1>5. /\ handlers' \in Seq(Followed) /\ Len(handlers') <= MaxDepth /\ NoOpen(handlers')
      /\ ends' \in Ended /\ AtMostOne(ends', doubled')
      /\ \A q \in H!Requests : q # r => ends'[q] = ends[q]
      /\ phase' \in {"opening", "closed"} /\ (phase' = "opening" => r \in doubled' \/ Never(ends', r))
  <2>1. CASE phase' = "opening" /\ H!Quiet(outer) /\ doubled' = doubled
    <3>1. handlers' = outer /\ ends' = ends
      BY <2>1 DEF H!Quiet
    <3> QED
      BY <1>3, <2>1, <3>1 DEF AtMostOne
  <2>2. ASSUME NEW next \in {"done", "fail"}, H!Tell("failed", next, outer)
        PROVE  /\ handlers' \in Seq(Followed) /\ Len(handlers') <= MaxDepth /\ NoOpen(handlers')
               /\ ends' \in Ended /\ AtMostOne(ends', doubled')
               /\ \A q \in H!Requests : q # r => ends'[q] = ends[q]
    <3>1. next \in {"done", "close", "fail", "open"} /\ next # "open"
      BY <2>2
    <3> QED
      BY <1>2, <1>3, <1>4, <2>2, <3>1, TellsFailure
  <2>3. CASE phase' = "closed" /\ H!Tell("failed", "done", outer) /\ doubled' = doubled
    BY <2>2, <2>3
  <2>4. CASE phase' = "opening" /\ H!Tell("failed", "fail", outer) /\ doubled' = doubled \cup {r}
    BY <2>2, <2>4
  <2> QED
    BY <1>2, <2>1, <2>3, <2>4
<1>6. HttpTypes'
  <2>1. r \in 0 .. MaxRequests /\ r # 0 /\ r \in 0 .. r
    BY DEF H!Requests, HttpConstants
  <2>2. silenced' \subseteq H!Requests
    BY <1>1 DEF HttpTypes
  <2> QED
    BY <1>2, <1>3, <1>5, <2>1, <2>2 DEF HttpTypes, H!Phases
<1>7. StackInv'
  BY <1>5 DEF StackInv
<1>8. EndsInv'
  <2>1. Later(ends', r)
    <3>1. Later(ends, r)
      BY <1>1, <1>3 DEF HttpTypes, Later, H!Requests
    <3> QED
      BY <1>5, <3>1, LaterStays
  <2>2. Now(ends', doubled', r, phase', Pending(handlers'))
    BY <1>5 DEF Now, Streaming
  <2> QED
    BY <1>2, <1>5, <2>1, <2>2 DEF EndsInv
<1> QED
  BY <1>6, <1>7, <1>8 DEF HttpInv

\* The next request is made: in a handler, or between them.
LEMMA RequestStep == ASSUME HttpInv, H!Request PROVE HttpInv'
<1> USE HttpHas
<1>1. HttpTypes /\ StackInv /\ EndsInv
  BY DEF HttpInv
<1>2. /\ made < MaxRequests /\ made' = made + 1 /\ misused = {} /\ silenced' = silenced
  BY DEF H!Request
<1>3. made' \in H!Requests /\ made' \in 0 .. MaxRequests /\ made' > made /\ made' > current
  BY <1>1, <1>2 DEF HttpTypes, H!Requests, HttpConstants
<1>4. /\ ends \in Ended /\ handlers \in Seq(Followed) /\ Len(handlers) <= MaxDepth
      /\ AtMostOne(ends, doubled) /\ Later(ends, current) /\ doubled \subseteq H!Requests
  BY <1>1 DEF HttpTypes, EndsInv
<1>5. CASE phase = "destroying"
  <2>1. /\ misused' = misused \cup {"storage"} /\ response' = H!NoResponse
        /\ UNCHANGED <<current, phase, error, handlers, ends, doubled>>
    BY <1>5 DEF H!Request, H!IsConnected, H!Reset
  <2>2. HttpTypes'
    <3>1. current' \in 0 .. made'
      BY <1>1, <1>2, <2>1 DEF HttpTypes
    <3> QED
      BY <1>1, <1>2, <1>3, <2>1, <3>1, NothingRead DEF HttpTypes
  <2>3. StackInv'
    BY <2>1 DEF StackInv
  <2>4. EndsInv'
    BY <1>1, <2>1 DEF EndsInv
  <2> QED
    BY <2>2, <2>3, <2>4 DEF HttpInv
<1>6. CASE phase \in {"handshake", "connected"}
  <2>1. /\ current' = current /\ phase' = "destroying" /\ H!Tell("failed", "open", handlers)
        /\ doubled' = (IF ends[current].failed > 0 THEN doubled \cup {current} ELSE doubled)
        /\ response' = [H!NoResponse EXCEPT !.state = "Finished"]
        /\ UNCHANGED <<error, misused>>
    BY <1>6 DEF H!Request, H!IsConnected, H!Reset
  <2>2. current \in H!Requests /\ current' \in H!Requests
    BY <1>1, <1>6, <2>1, CurrentIs
  <2>3. NoOpen(handlers)
    BY <1>1, <1>2, <1>6 DEF StackInv
  <2>4. doubled \subseteq doubled' /\ doubled' \subseteq H!Requests
    BY <1>4, <2>1, <2>2
  <2>5. current' \notin doubled' => Never(ends, current')
    <3> SUFFICES ASSUME current \notin doubled' PROVE Never(ends, current)
      BY <2>1
    <3>1. ~(ends[current].failed > 0)
      BY <2>1
    <3>2. ends[current].failed \in Nat
      BY <1>4, <2>2 DEF Ended
    <3> QED
      BY <3>1, <3>2 DEF Never
  <2>6. /\ handlers' \in Seq(Followed) /\ Len(handlers') <= MaxDepth /\ handlers' # <<>>
        /\ H!Last(handlers')[1] = "open" /\ H!Front(handlers') = handlers
        /\ ends' \in Ended /\ AtMostOne(ends', doubled')
        /\ \A r \in H!Requests : r # current' => ends'[r] = ends[r]
    BY <1>4, <2>1, <2>2, <2>4, <2>5, TellsFailure
  <2>7. HttpTypes'
    <3>1. current' \in 0 .. made' /\ current' # 0
      BY <1>1, <1>2, <2>1, <2>2 DEF HttpTypes, H!Requests
    <3> QED
      BY <1>1, <1>2, <1>3, <2>1, <2>4, <2>6, <3>1, NothingRead DEF HttpTypes, H!Phases
  <2>8. StackInv'
    <3>1. Replacing'
      BY <1>3, <2>1, <2>3, <2>6 DEF Replacing
    <3> QED
      BY <2>1, <3>1 DEF StackInv
  <2>9. EndsInv'
    <3>1. Later(ends', current')
      BY <1>4, <2>1, <2>2, <2>6, LaterStays
    <3> QED
      BY <2>1, <2>6, <3>1 DEF EndsInv, Now, Streaming
  <2> QED
    BY <2>7, <2>8, <2>9 DEF HttpInv
<1>7. CASE phase \notin {"destroying", "handshake", "connected"}
  <2>1. H!Opened(made', handlers) /\ misused' = misused /\ response' = H!NoResponse
    BY <1>7 DEF H!Request, H!IsConnected, H!Reset
  <2>2. NoOpen(handlers) /\ misused' = {} /\ response' \in Unread
    BY <1>1, <1>2, <1>7, <2>1, NothingRead DEF StackInv
  <2> DEFINE r == made'
  <2>3. r \in H!Requests /\ r > current /\ H!Opened(r, handlers) /\ made' = r
    BY <1>3, <2>1
  <2> HIDE DEF r
  <2> QED
    BY <1>2, <1>4, <2>2, <2>3, OpenedPart
<1> QED
  BY <1>5, <1>6, <1>7

\* A handler returns after which there is nothing.
LEMMA DoneReturns == ASSUME HttpInv, H!Return, H!Last(handlers)[1] = "done" PROVE HttpInv'
<1> USE HttpHas
<1>1. HttpTypes /\ StackInv /\ EndsInv
  BY DEF HttpInv
<1>2. /\ handlers # <<>> /\ misused = {} /\ misused' = {} /\ handlers' = H!Front(handlers)
      /\ UNCHANGED <<made, current, phase, error, response, doubled, silenced, ends>>
  BY DEF H!Return, H!Quiet
<1>3. handlers \in Seq(Followed) /\ Len(handlers) \in Nat /\ Len(handlers) <= MaxDepth
  BY <1>1 DEF HttpTypes
<1>4. phase # "destroying" /\ NoOpen(handlers)
  BY <1>1, <1>2 DEF StackInv, Replacing
<1>5. /\ handlers' \in Seq(Followed) /\ Len(handlers') = Len(handlers) - 1 /\ NoOpen(handlers')
      /\ Pending(handlers) = "close" => Pending(handlers') = "close"
  <2>1. handlers' = <<>> => Pending(handlers) = "done"
    BY <1>2, <1>3, Back
  <2>2. handlers' # <<>> => Pending(handlers') = Pending(handlers)
    BY <1>2, <1>3, Back
  <2> QED
    BY <1>2, <1>3, <1>4, <2>1, <2>2, Back
<1>6. Len(handlers') <= MaxDepth
  BY <1>3, <1>5 DEF HttpConstants
<1>7. HttpTypes'
  BY <1>1, <1>2, <1>5, <1>6 DEF HttpTypes
<1>8. StackInv'
  BY <1>2, <1>4, <1>5 DEF StackInv
<1>9. EndsInv'
  BY <1>1, <1>2, <1>5 DEF EndsInv, Now
<1> QED
  BY <1>7, <1>8, <1>9 DEF HttpInv

\* A handler of a failure returns, after which the stream is closed.
LEMMA CloseReturns == ASSUME HttpInv, H!Return, H!Last(handlers)[1] = "close" PROVE HttpInv'
<1> USE HttpHas
<1>1. HttpTypes /\ StackInv /\ EndsInv
  BY DEF HttpInv
<1>2. /\ handlers # <<>> /\ misused = {} /\ misused' = {} /\ H!CloseStream(H!Front(handlers))
      /\ UNCHANGED <<made, current, error>>
  BY DEF H!Return
<1>3. handlers \in Seq(Followed) /\ Len(handlers) \in Nat /\ Len(handlers) <= MaxDepth
  BY <1>1 DEF HttpTypes
<1>4. NoOpen(handlers)
  BY <1>1, <1>2 DEF StackInv, Replacing
<1> DEFINE outer == H!Front(handlers)
<1>5. outer \in Seq(Followed) /\ Len(outer) = Len(handlers) - 1 /\ NoOpen(outer)
  BY <1>2, <1>3, <1>4, Back
<1>6. phase' = "closed" /\ current \in H!Requests /\ current' = current /\ current' \in H!Requests
  BY <1>1, <1>2, CurrentIs DEF H!CloseStream
<1>7. /\ ends \in Ended /\ AtMostOne(ends, doubled) /\ Later(ends, current) /\ silenced \cup doubled \subseteq H!Requests
      /\ response \in Unread
  BY <1>1 DEF HttpTypes, EndsInv
<1> HIDE DEF outer
<1>8. CASE phase \in {"handshake", "connected"}
  <2>1. /\ response' = [H!Cleared(response) EXCEPT !.state = "Finished"] /\ H!Tell("failed", "done", outer)
        /\ doubled' = doubled \cup {current} /\ silenced' = silenced
    BY <1>2, <1>7, <1>8, NotWhole DEF H!CloseStream, H!ConnectionClosed, H!IsConnected, outer
  <2>2. doubled \subseteq doubled' /\ (current' \notin doubled' => Never(ends, current'))
    BY <1>6, <2>1
  <2>3. /\ handlers' \in Seq(Followed) /\ Len(handlers') <= MaxDepth /\ handlers' # <<>> /\ NoOpen(handlers')
        /\ ends' \in Ended /\ AtMostOne(ends', doubled')
        /\ \A r \in H!Requests : r # current' => ends'[r] = ends[r]
    BY <1>5, <1>6, <1>7, <2>1, <2>2, TellsFailure
  <2>4. response' \in Unread
    BY <1>7, <2>1, NotWhole
  <2>5. HttpTypes'
    BY <1>1, <1>2, <1>6, <2>1, <2>3, <2>4 DEF HttpTypes, H!Phases
  <2>6. StackInv'
    BY <1>6, <2>3 DEF StackInv
  <2>7. EndsInv'
    <3>1. Later(ends', current')
      BY <1>6, <1>7, <2>3, LaterStays
    <3> QED
      BY <1>6, <2>3, <3>1 DEF EndsInv, Now, Streaming
  <2> QED
    BY <2>5, <2>6, <2>7 DEF HttpInv
<1>9. CASE phase \notin {"handshake", "connected"}
  <2>1. /\ handlers' = outer /\ ends' = ends /\ response' = response /\ doubled' = doubled
        /\ silenced' \subseteq silenced \cup {current}
    BY <1>2, <1>9 DEF H!CloseStream, H!IsConnected, H!Quiet, outer
  <2>2. Len(handlers') <= MaxDepth
    BY <1>3, <1>5, <2>1 DEF HttpConstants
  <2>3. HttpTypes'
    BY <1>1, <1>2, <1>5, <1>6, <1>7, <2>1, <2>2 DEF HttpTypes, H!Phases
  <2>4. StackInv'
    BY <1>5, <1>6, <2>1 DEF StackInv
  <2>5. EndsInv'
    BY <1>6, <1>7, <2>1 DEF EndsInv, Now, Streaming
  <2> QED
    BY <2>3, <2>4, <2>5 DEF HttpInv
<1> QED
  BY <1>8, <1>9

\* The handler of the failure of the request before returns, and the stream is opened.
LEMMA OpenReturns == ASSUME HttpInv, H!Return, H!Last(handlers)[1] = "open" PROVE HttpInv'
<1> USE HttpHas
<1>1. HttpTypes /\ StackInv /\ EndsInv
  BY DEF HttpInv
<1>2. /\ handlers # <<>> /\ misused = {} /\ misused' = {} /\ H!Opened(made, H!Front(handlers))
      /\ UNCHANGED <<made, response, silenced>>
  BY DEF H!Return
<1>3. handlers \in Seq(Followed) /\ Len(handlers) \in Nat /\ Len(handlers) <= MaxDepth
  BY <1>1 DEF HttpTypes
<1>4. Replacing
  <2>1. NoOpen(handlers) => H!Last(handlers)[1] # "open"
    BY <1>2, <1>3, Back
  <2> QED
    BY <1>1, <1>2, <2>1 DEF StackInv
<1>5. H!Front(handlers) \in Seq(Followed) /\ Len(H!Front(handlers)) = Len(handlers) - 1
  BY <1>2, <1>3, Back
<1>6. Len(H!Front(handlers)) <= MaxDepth
  BY <1>3, <1>5 DEF HttpConstants
<1>7. NoOpen(H!Front(handlers)) /\ current < made
  BY <1>4 DEF Replacing
<1>8. made \in H!Requests /\ response' \in Unread /\ made > current
  BY <1>1, <1>2, <1>7 DEF HttpTypes, H!Requests
<1> QED
  BY <1>2, <1>5, <1>6, <1>7, <1>8, OpenedPart

\* The handler of a failure that open() told returns, and open() goes on.
LEMMA FailReturns == ASSUME HttpInv, H!Return, H!Last(handlers)[1] = "fail" PROVE HttpInv'
<1> USE HttpHas
<1>1. HttpTypes /\ StackInv /\ EndsInv
  BY DEF HttpInv
<1>2. /\ handlers # <<>> /\ misused = {} /\ misused' = {} /\ phase' = "closed" /\ current' = current
      /\ H!Tell("failed", "done", H!Front(handlers))
      /\ silenced' \subseteq silenced \cup {current} /\ doubled' = doubled \cup {current}
      /\ UNCHANGED <<made, error, response>>
  BY DEF H!Return
<1>3. handlers \in Seq(Followed)
  BY <1>1 DEF HttpTypes
<1>4. NoOpen(handlers)
  BY <1>1, <1>2 DEF StackInv, Replacing
<1>5. H!Front(handlers) \in Seq(Followed) /\ NoOpen(H!Front(handlers))
  BY <1>2, <1>3, <1>4, Back
<1>6. current \in H!Requests /\ current' \in H!Requests
  BY <1>1, <1>2, CurrentIs
<1>7. /\ ends \in Ended /\ AtMostOne(ends, doubled) /\ Later(ends, current) /\ silenced \cup doubled \subseteq H!Requests
      /\ doubled \subseteq doubled' /\ (current' \notin doubled' => Never(ends, current'))
  BY <1>1, <1>2 DEF HttpTypes, EndsInv
<1>8. /\ handlers' \in Seq(Followed) /\ Len(handlers') <= MaxDepth /\ handlers' # <<>> /\ NoOpen(handlers')
      /\ ends' \in Ended /\ AtMostOne(ends', doubled')
      /\ \A r \in H!Requests : r # current' => ends'[r] = ends[r]
  BY <1>2, <1>5, <1>6, <1>7, TellsFailure
<1>9. HttpTypes'
  BY <1>1, <1>2, <1>6, <1>7, <1>8 DEF HttpTypes, H!Phases
<1>10. StackInv'
  BY <1>2, <1>8 DEF StackInv
<1>11. EndsInv'
  <2>1. Later(ends', current')
    BY <1>2, <1>6, <1>7, <1>8, LaterStays
  <2> QED
    BY <1>2, <1>8, <2>1 DEF EndsInv, Now, Streaming
<1> QED
  BY <1>9, <1>10, <1>11 DEF HttpInv

\* A handler returns.
LEMMA HandlerReturns == ASSUME HttpInv, H!Return PROVE HttpInv'
<1>1. H!Last(handlers) \in Followed
  BY Back DEF HttpInv, HttpTypes, H!Return
<1>2. H!Last(handlers)[1] \in {"done", "close", "fail", "open"}
  BY <1>1 DEF Followed
<1> QED
  BY <1>2, DoneReturns, CloseReturns, OpenReturns, FailReturns

\* Nothing happens.
LEMMA HttpStutter == ASSUME HttpInv, UNCHANGED H!vars PROVE HttpInv'
<1>1. UNCHANGED <<made, current, phase, error, response, handlers, ends, silenced, doubled, misused>>
  BY DEF H!vars, H!history
<1>2. HttpTypes'
  BY <1>1 DEF HttpInv, HttpTypes
<1>3. StackInv'
  BY <1>1 DEF HttpInv, StackInv, Replacing
<1>4. EndsInv'
  BY <1>1 DEF HttpInv, EndsInv
<1> QED
  BY <1>2, <1>3, <1>4 DEF HttpInv

\* Before the first request.
LEMMA HttpInit == ASSUME H!Init PROVE HttpInv
<1> USE HttpHas
<1>1. /\ made = 0 /\ current = 0 /\ phase = "none" /\ error = FALSE /\ response = H!NoResponse
      /\ handlers = <<>>
      /\ ends = [r \in H!Requests |-> [completed |-> 0, failed |-> 0]]
      /\ silenced = {} /\ doubled = {} /\ misused = {}
  BY DEF H!Init
<1>2. 0 \in 0 .. MaxRequests /\ 0 \in 0 .. 0 /\ 0 <= MaxDepth
  BY DEF HttpConstants
<1>3. handlers \in Seq(Followed) /\ Len(handlers) = 0 /\ NoOpen(handlers)
  BY <1>1 DEF NoOpen
<1>4. ends \in Ended /\ \A r \in H!Requests : Never(ends, r)
  BY <1>1 DEF Ended, Never
<1>5. HttpTypes
  BY <1>1, <1>2, <1>3, <1>4, NothingRead DEF HttpTypes, H!Phases
<1>6. StackInv
  BY <1>1, <1>3 DEF StackInv
<1>7. EndsInv
  BY <1>1, <1>4 DEF EndsInv, AtMostOne, Never, Later, Now, H!Requests
<1> QED
  BY <1>5, <1>6, <1>7 DEF HttpInv

\* The invariant is inductive.
LEMMA HttpNext == HttpInv /\ [H!Next]_(H!vars) => HttpInv'
<1> SUFFICES ASSUME HttpInv, [H!Next]_(H!vars) PROVE HttpInv'
  OBVIOUS
<1>1. CASE H!Next
  BY <1>1, RequestStep, ConnectsStep, FailsStep, EofStep, ArrivesStep, HandlerReturns DEF H!Next
<1>2. CASE UNCHANGED H!vars
  BY <1>2, HttpStutter
<1> QED
  BY <1>1, <1>2

\* What the invariant says of a state.
LEMMA HttpImplies == HttpInv => RequestsSafe
<1> SUFFICES ASSUME HttpInv PROVE H!TypeOK /\ H!EndsOnce /\ H!NeverCompleted
  BY DEF RequestsSafe
<1>1. HttpTypes /\ EndsInv
  BY DEF HttpInv
<1>2. \A r \in H!Requests : ends[r].completed = 0 /\ ends[r].failed \in Nat
  BY <1>1 DEF HttpTypes, Ended
<1>3. H!EndsOnce
  BY <1>1, <1>2 DEF EndsInv, AtMostOne, H!EndsOnce
<1>4. H!NeverCompleted
  BY <1>2 DEF H!NeverCompleted
<1>5. /\ response.state \in {"ResponseStatus", "ResponseHeaders", "Body", "Finished"}
      /\ response.length \in {H!Unknown} \cup 0 .. MaxBody /\ response.body \in 0 .. MaxBody
  BY <1>1, HttpHas DEF HttpTypes, Unread, HttpConstants
<1>6. handlers \in Seq(H!Continuations)
  <2>1. Followed \subseteq H!Continuations
    BY DEF Followed, H!Continuations
  <2> QED
    BY <1>1, <2>1 DEF HttpTypes
<1>7. ends \in [H!Requests -> [completed : Nat, failed : Nat]]
  BY <1>1 DEF HttpTypes, Ended
<1>8. H!TypeOK
  BY <1>1, <1>5, <1>6, <1>7 DEF HttpTypes, H!TypeOK
<1> QED
  BY <1>3, <1>4, <1>8

\* What a program is told of its requests, in however many it makes and from
\* whatever handlers: at most once that one failed, unless a close repeats the
\* failure, and never that one completed, although the server answers, for the
\* line ends of the answer never come to packet_arrived().
THEOREM RequestsAreSafe == H!Spec => []RequestsSafe
<1>1. H!Init => HttpInv
  BY HttpInit
<1>2. HttpInv /\ [H!Next]_(H!vars) => HttpInv'
  BY HttpNext
<1>3. HttpInv => RequestsSafe
  BY HttpImplies
<1> HIDE DEF HttpInv, RequestsSafe
<1> QED
  BY <1>1, <1>2, <1>3, PTL DEF H!Spec
=============================================================================
