-------------------------- MODULE EventQueueProofs --------------------------
(***************************************************************************)
(* What async_event_queue keeps to, at any depth of pumps nested in one    *)
(* another: a queued call is made once, while its slot exists, in the      *)
(* order of the queue, or given up for a reason; and, as long as no        *)
(* handler throws, the queue implements CallQueue.                         *)
(***************************************************************************)
EXTENDS MCTask, FiniteSetTheorems, SequenceTheorems, TLAPS

----------------------------------------------------------------------------
(* The queue of asynchronous calls.                                        *)

QueueEntries == [slot : QueueSlots, call : Calls]

PumpCursors == [at : Nat, phase : {"next", "call", "in"}]

\* The iterator of a pump, in its work list.
InLoop(x, list) ==
  x.at >= 1 /\ x.at <= Len(list) + (IF x.phase = "next" THEN 1 ELSE 0)

\* The entry e is at the place (k, i): by its address among the single calls
\* if k is 0, in the work list of depth k, or in iQueue.multiple behind the
\* last of these.  ls, m and s are the lists, multiple and single.
Sits(k, i, e, ls, m, s) ==
  \/ k = 0 /\ i \in DOMAIN s /\ e = s[i]
  \/ k \in 1 .. MaxDepth /\ i \in 1 .. Len(ls[k]) /\ e = ls[k][i]
  \/ k = MaxDepth + 1 /\ i \in 1 .. Len(m) /\ e = m[i]

\* No pump has come to that place, p being the pumps.
Pends(k, i, p) ==
  k \in 1 .. Len(p) => i > p[k].at \/ (i = p[k].at /\ p[k].phase # "in")

Posts(calls, c) == \E n \in 1 .. Len(calls) : calls[n] = c

Earlier(calls, c, d) ==
  \E i, j \in 1 .. Len(calls) : i < j /\ calls[i] = c /\ calls[j] = d

\* The slot of an entry is the one its call is for, or does not exist: a
\* single call may have replaced that of a slot at the same address.
Fits(e, alive, known, calls) ==
  /\ e.slot \in known /\ (e.slot = CalledSlot[e.call] \/ e.slot \notin alive)
  /\ Posts(calls, e.call)

WellPlaced(ls, m, s, alive, known, calls) ==
  \A k, i \in Nat : \A e \in QueueEntries : Sits(k, i, e, ls, m, s) =>
    /\ Fits(e, alive, known, calls)
    /\ k = 0 => Address[e.slot] = i /\ e.call \in Single

\* Slots that exist at one time are at different addresses.
Apart(alive) == \A r, z \in alive : Address[r] = Address[z] => r = z

\* A list that no pump walks has what an exception left there.
LeftBehind(ls, p, left) ==
  \A k \in 1 .. MaxDepth : k > Len(p) =>
    \A i \in 1 .. Len(ls[k]) : ls[k][i].call \in left

AtOnePlace(ls, m, s, left) ==
  \A k, i, l, j \in Nat : \A e, f \in QueueEntries :
    /\ Sits(k, i, e, ls, m, s) /\ Sits(l, j, f, ls, m, s)
    /\ e.call = f.call /\ e.call \notin left
    => k = l /\ i = j

\* A call that waits was not made.
NotYet(ls, m, s, p, left, times) ==
  \A k, i \in Nat : \A e \in QueueEntries :
    Sits(k, i, e, ls, m, s) /\ Pends(k, i, p) /\ e.call \notin left => times[e.call] = 0

\* Multiple calls are in the order of their places.
InTurn(ls, m, s, left, calls) ==
  \A k, i, l, j \in Nat : \A e, f \in QueueEntries :
    /\ Sits(k, i, e, ls, m, s) /\ Sits(l, j, f, ls, m, s)
    /\ e.call \notin Single /\ f.call \notin Single /\ e.call \notin left
    /\ Earlier(calls, e.call, f.call)
    => k < l \/ (k = l /\ i < j)

\* Pumps further out are in a handler.
PumpsNest(p) == \A d \in 1 .. Len(p) : d < Len(p) => p[d].phase = "in"

\* A call that was tested and not yet made is of a slot that exists.
TestedAlive(ls, p, alive) ==
  \A d \in 1 .. Len(p) : p[d].phase = "call" => ls[d][p[d].at].slot \in alive

QueueTyped ==
  /\ multiple \in Seq(QueueEntries)
  /\ single \in [DOMAIN single -> QueueEntries] /\ DOMAIN single \subseteq Nat
  /\ DOMAIN single \subseteq Q!Addresses /\ IsFiniteSet(DOMAIN single)
  /\ queueLists \in [1 .. MaxDepth -> Seq(QueueEntries)]
  /\ pumps \in Seq(PumpCursors) /\ Len(pumps) <= MaxDepth
  /\ \A d \in 1 .. Len(pumps) : InLoop(pumps[d], queueLists[d])
  /\ sunk \cup held \subseteq born /\ born \subseteq QueueSlots
  /\ eventsGone \subseteq QueueEvents
  /\ throws \in 0 .. MaxThrows
  /\ posted \in Seq(Calls) /\ count \in [Calls -> Nat] /\ torn \subseteq Calls

QueueInv ==
  /\ QueueTyped
  /\ Apart(sunk \cup held)
  /\ WellPlaced(queueLists, multiple, single, sunk \cup held, born, posted)
  /\ PumpsNest(pumps) /\ TestedAlive(queueLists, pumps, sunk \cup held)
  /\ LeftBehind(queueLists, pumps, torn)
  /\ AtOnePlace(queueLists, multiple, single, torn)
  /\ \A c \in Calls \ torn : count[c] <= 1
  /\ NotYet(queueLists, multiple, single, pumps, torn, count)
  /\ InTurn(queueLists, multiple, single, torn, posted)
  /\ \A c \in Calls : count[c] > 0 => Posts(posted, c)
  /\ throws = 0 => torn = {}

LEMMA QueueConstants ==
  /\ MaxDepth \in Nat /\ MaxThrows \in Nat /\ Single \subseteq Calls
  /\ CalledSlot \in [Calls -> QueueSlots] /\ QueueEventOf \in [QueueSlots -> QueueEvents]
  /\ \A z \in QueueSlots : Address[z] \in Nat /\ Address[z] \in Q!Addresses
BY PartsAssumption DEF Q!QueueAssumption, Q!Addresses

LEMMA EntriesTyped ==
  \A e \in QueueEntries : e.slot \in QueueSlots /\ e.call \in Calls
BY DEF QueueEntries

LEMMA QueueTypeOK == QueueTyped => Q!TypeOK
<1> SUFFICES ASSUME QueueTyped PROVE Q!TypeOK
  OBVIOUS
<1>1. Len(pumps) \in Nat /\ DOMAIN pumps = 1 .. Len(pumps)
  BY LenProperties DEF QueueTyped
<1>2. ASSUME NEW d \in DOMAIN pumps
      PROVE  d \in 1 .. MaxDepth /\ pumps[d].at \in
               1 .. Len(queueLists[d]) + IF pumps[d].phase = "next" THEN 1 ELSE 0
  <2>1. d \in 1 .. MaxDepth
    BY <1>1, QueueConstants DEF QueueTyped
  <2>2. pumps[d] \in PumpCursors
    BY <1>1, ElementOfSeq DEF QueueTyped
  <2>3. Len(queueLists[d]) \in Nat
    BY <2>1, LenProperties DEF QueueTyped
  <2>4. InLoop(pumps[d], queueLists[d])
    BY <1>1 DEF QueueTyped
  <2>5. pumps[d].at \in Nat
    BY <2>2 DEF PumpCursors
  <2>6. CASE pumps[d].phase = "next"
    BY <2>1, <2>3, <2>4, <2>5, <2>6 DEF InLoop
  <2>7. CASE pumps[d].phase # "next"
    <3>1. pumps[d].at >= 1 /\ pumps[d].at <= Len(queueLists[d])
      BY <2>3, <2>4, <2>5, <2>7 DEF InLoop
    <3> QED BY <2>1, <2>3, <2>5, <2>7, <3>1
  <2> QED BY <2>6, <2>7
<1>3. \A x \in DOMAIN single : single[x] \in QueueEntries
  BY DEF QueueTyped
<1> QED BY <1>2, <1>3 DEF QueueTyped, Q!TypeOK, Q!Entries, Q!Depths, QueueEntries, PumpCursors

LEMMA PumpsTyped ==
  ASSUME QueueTyped
  PROVE  /\ Len(pumps) \in 0 .. MaxDepth /\ DOMAIN pumps = 1 .. Len(pumps)
         /\ pumps = <<>> <=> Len(pumps) = 0
         /\ \A d \in 1 .. Len(pumps) : pumps[d] \in PumpCursors
         /\ \A d \in 1 .. MaxDepth :
              queueLists[d] \in Seq(QueueEntries) /\ Len(queueLists[d]) \in Nat
         /\ Len(multiple) \in Nat
<1>1. pumps \in Seq(PumpCursors) /\ Len(pumps) <= MaxDepth
  BY DEF QueueTyped
<1>2. /\ Len(pumps) \in 0 .. MaxDepth /\ DOMAIN pumps = 1 .. Len(pumps)
      /\ pumps = <<>> <=> Len(pumps) = 0
  BY <1>1, LenProperties, EmptySeq, QueueConstants
<1>3. \A d \in 1 .. Len(pumps) : pumps[d] \in PumpCursors
  BY <1>1, ElementOfSeq
<1>4. \A d \in 1 .. MaxDepth :
        queueLists[d] \in Seq(QueueEntries) /\ Len(queueLists[d]) \in Nat
  BY LenProperties DEF QueueTyped
<1> QED BY <1>2, <1>3, <1>4, LenProperties DEF QueueTyped

\* The innermost pump, its list and its entry.
LEMMA TopPump ==
  ASSUME QueueTyped, pumps # <<>>
  PROVE  /\ Len(pumps) \in 1 .. MaxDepth /\ Q!Depth = Len(pumps)
         /\ Q!Top = pumps[Len(pumps)] /\ pumps[Len(pumps)] \in PumpCursors
         /\ pumps[Len(pumps)].at \in Nat
         /\ Q!WorkList = queueLists[Len(pumps)]
         /\ Q!WorkList \in Seq(QueueEntries) /\ Len(Q!WorkList) \in Nat
         /\ InLoop(pumps[Len(pumps)], queueLists[Len(pumps)])
<1>1. Len(pumps) \in 1 .. MaxDepth
  BY PumpsTyped
<1>2. pumps[Len(pumps)] \in PumpCursors /\ pumps[Len(pumps)].at \in Nat
  BY <1>1, PumpsTyped DEF PumpCursors
<1>3. Q!Top = pumps[Len(pumps)] /\ Q!WorkList = queueLists[Len(pumps)] /\ Q!Depth = Len(pumps)
  BY DEF Q!Top, Q!Last, Q!WorkList, Q!ListAt, Q!Depth
<1> QED BY <1>1, <1>2, <1>3, PumpsTyped DEF QueueTyped

\* What sits somewhere is an entry.
LEMMA SitsTyped ==
  ASSUME NEW ls \in [1 .. MaxDepth -> Seq(QueueEntries)], NEW m \in Seq(QueueEntries),
         NEW s, s \in [DOMAIN s -> QueueEntries], DOMAIN s \subseteq Nat,
         NEW k, NEW i, NEW e, Sits(k, i, e, ls, m, s)
  PROVE  k \in Nat /\ i \in Nat /\ e \in QueueEntries
<1>1. CASE k = 0 /\ i \in DOMAIN s /\ e = s[i]
  BY <1>1
<1>2. CASE k \in 1 .. MaxDepth /\ i \in 1 .. Len(ls[k]) /\ e = ls[k][i]
  BY <1>2, ElementOfSeq, LenProperties, QueueConstants
<1>3. CASE k = MaxDepth + 1 /\ i \in 1 .. Len(m) /\ e = m[i]
  BY <1>3, ElementOfSeq, LenProperties, QueueConstants
<1> QED BY <1>1, <1>2, <1>3 DEF Sits

\* The innermost pump goes on to y.
LEMMA PumpGoesOn ==
  ASSUME QueueInv, pumps # <<>>, NEW y \in PumpCursors,
         pumps' = [pumps EXCEPT ![Len(pumps)] = y],
         InLoop(y, queueLists[Len(pumps)])
  PROVE  /\ pumps' \in Seq(PumpCursors) /\ Len(pumps') = Len(pumps)
         /\ pumps'[Len(pumps)] = y
         /\ \A d \in 1 .. Len(pumps') : InLoop(pumps'[d], queueLists[d])
         /\ PumpsNest(pumps')
         /\ \A d \in 1 .. Len(pumps) : d # Len(pumps) => pumps'[d] = pumps[d]
         /\ \A k, i \in Nat : k # Len(pumps) => (Pends(k, i, pumps') <=> Pends(k, i, pumps))
<1>n. PICK n : n = Len(pumps)
  OBVIOUS
<1>1. n \in 1 .. MaxDepth /\ DOMAIN pumps = 1 .. n /\ n = Len(pumps) /\ QueueTyped
  BY <1>n, TopPump, PumpsTyped DEF QueueInv
<1>2. pumps' \in Seq(PumpCursors) /\ Len(pumps') = n
  BY <1>1, ExceptSeq DEF QueueTyped
<1>3. pumps'[n] = y /\ \A d \in 1 .. n : d # n => pumps'[d] = pumps[d]
  <2>1. pumps' = [pumps EXCEPT ![n] = y]
    BY <1>n
  <2>2. n \in DOMAIN pumps /\ DOMAIN pumps = 1 .. n
    BY <1>1
  <2>3. pumps'[n] = y
    BY <2>1, <2>2
  <2>4. \A d \in DOMAIN pumps : d # n => pumps'[d] = pumps[d]
    BY <2>1, <2>2
  <2> QED BY <2>2, <2>3, <2>4
<1>4. \A d \in 1 .. n : InLoop(pumps'[d], queueLists[d])
  BY <1>1, <1>3 DEF QueueTyped
<1>5. PumpsNest(pumps')
  BY <1>1, <1>2, <1>3 DEF PumpsNest, QueueInv
<1>6. ASSUME NEW k \in Nat, NEW i \in Nat, k # n
      PROVE  Pends(k, i, pumps') <=> Pends(k, i, pumps)
  <2>1. k \in 1 .. n => pumps'[k] = pumps[k]
    BY <1>3, <1>6
  <2> QED BY <1>1, <1>2, <2>1 DEF Pends
<1> QED BY <1>1, <1>2, <1>3, <1>4, <1>5, <1>6

\* A step of the innermost pump in its list.
LEMMA PumpStepKeeps ==
  ASSUME QueueInv, pumps # <<>>, NEW y \in PumpCursors,
         pumps' = [pumps EXCEPT ![Len(pumps)] = y],
         InLoop(y, queueLists[Len(pumps)]),
         UNCHANGED <<multiple, single, queueLists, born, sunk, held, eventsGone, throws, posted,
                     torn>>,
         y.phase = "call" => queueLists[Len(pumps)][y.at].slot \in sunk \cup held,
         count' \in [Calls -> Nat],
         \A c \in Calls \ torn : count'[c] <= 1,
         \A c \in Calls : count'[c] > 0 => Posts(posted, c),
         NotYet(queueLists, multiple, single, pumps', torn, count')
  PROVE  QueueInv'
<1>1. /\ pumps' \in Seq(PumpCursors) /\ Len(pumps') = Len(pumps)
      /\ pumps'[Len(pumps)] = y
      /\ \A d \in 1 .. Len(pumps') : InLoop(pumps'[d], queueLists[d])
      /\ PumpsNest(pumps')
      /\ \A d \in 1 .. Len(pumps) : d # Len(pumps) => pumps'[d] = pumps[d]
  BY PumpGoesOn
<1>2. QueueTyped'
  BY <1>1 DEF QueueInv, QueueTyped, Q!Addresses
<1>3. TestedAlive(queueLists, pumps', sunk \cup held)
  BY <1>1 DEF QueueInv, TestedAlive
<1>4. LeftBehind(queueLists, pumps', torn)
  BY <1>1 DEF QueueInv, LeftBehind
<1> QED BY <1>1, <1>2, <1>3, <1>4 DEF QueueInv

\* Slots and events come and go.
LEMMA LifeKeeps ==
  ASSUME QueueInv,
         UNCHANGED <<multiple, single, queueLists, pumps, throws, posted, count, torn>>,
         sunk' \cup held' \subseteq born', born \subseteq born', born' \subseteq QueueSlots,
         eventsGone' \subseteq QueueEvents,
         Apart(sunk' \cup held'),
         (sunk' \cup held') \cap born \subseteq sunk \cup held,
         Q!InUserCode \/ sunk \cup held \subseteq sunk' \cup held'
  PROVE  QueueInv'
<1>1. QueueTyped'
  BY DEF QueueInv, QueueTyped, Q!Addresses
<1>2. WellPlaced(queueLists, multiple, single, sunk' \cup held', born', posted)
  BY DEF QueueInv, WellPlaced, Fits
<1>3. TestedAlive(queueLists, pumps, sunk' \cup held')
  <2>1. ASSUME Q!InUserCode, NEW d \in 1 .. Len(pumps), pumps[d].phase = "call" PROVE FALSE
    <3>1. pumps # <<>>
      BY PumpsTyped DEF QueueInv
    <3>2. d = Len(pumps)
      <4>1. ~ (d < Len(pumps))
        BY <2>1 DEF QueueInv, PumpsNest
      <4>2. Len(pumps) \in 0 .. MaxDepth
        BY PumpsTyped DEF QueueInv
      <4> QED BY <4>1, <4>2, QueueConstants
    <3> QED BY <2>1, <3>1, <3>2, TopPump DEF QueueInv, Q!InUserCode
  <2> QED BY <2>1 DEF QueueInv, TestedAlive
<1> QED BY <1>1, <1>2, <1>3 DEF QueueInv

LEMMA SlotsKeep ==
  ASSUME QueueInv, NEW z \in QueueSlots,
         Q!Subscribe(z) \/ Q!Unsubscribe(z) \/ Q!Hold(z) \/ Q!Release(z)
  PROVE  QueueInv'
<1> USE DEF Q!queue
<1>1. QueueInv /\ QueueTyped /\ Apart(sunk \cup held)
  BY DEF QueueInv
<1>2. CASE Q!Subscribe(z)
  <2>1. \A r \in sunk \cup held : Address[r] # Address[z]
    BY <1>2 DEF Q!Subscribe, Q!Alive
  <2>2. Apart(sunk' \cup held')
    BY <1>1, <1>2, <2>1 DEF Q!Subscribe, Apart
  <2>3. /\ sunk' = sunk \cup {z} /\ born' = born \cup {z} /\ z \notin born
        /\ UNCHANGED <<multiple, single, queueLists, pumps, held, eventsGone, throws, posted,
                       count, torn>>
    BY <1>2 DEF Q!Subscribe
  <2> QED BY <1>1, <2>2, <2>3, LifeKeeps DEF QueueTyped
<1>3. CASE Q!Unsubscribe(z)
  <2>1. /\ sunk' = sunk \ {z} /\ Q!InUserCode
        /\ UNCHANGED <<multiple, single, queueLists, pumps, born, held, eventsGone, throws,
                       posted, count, torn>>
    BY <1>3 DEF Q!Unsubscribe
  <2>2. Apart(sunk' \cup held')
    BY <1>1, <2>1 DEF Apart
  <2> QED BY <1>1, <2>1, <2>2, LifeKeeps DEF QueueTyped
<1>4. CASE Q!Hold(z)
  <2>1. /\ held' = held \cup {z} /\ z \in sunk
        /\ UNCHANGED <<multiple, single, queueLists, pumps, born, sunk, eventsGone, throws,
                       posted, count, torn>>
    BY <1>4 DEF Q!Hold
  <2>2. Apart(sunk' \cup held')
    BY <1>1, <2>1 DEF Apart
  <2> QED BY <1>1, <2>1, <2>2, LifeKeeps DEF QueueTyped
<1>5. CASE Q!Release(z)
  <2>1. /\ held' = held \ {z} /\ Q!InUserCode
        /\ UNCHANGED <<multiple, single, queueLists, pumps, born, sunk, eventsGone, throws,
                       posted, count, torn>>
    BY <1>5 DEF Q!Release
  <2>2. Apart(sunk' \cup held')
    BY <1>1, <2>1 DEF Apart
  <2> QED BY <1>1, <2>1, <2>2, LifeKeeps DEF QueueTyped
<1> QED BY <1>2, <1>3, <1>4, <1>5

LEMMA DestroyEventKeeps ==
  ASSUME QueueInv, NEW v \in QueueEvents, Q!DestroyEvent(v)
  PROVE  QueueInv'
<1>1. /\ eventsGone' = eventsGone \cup {v} /\ Q!InUserCode
      /\ UNCHANGED <<multiple, single, queueLists, pumps, born, sunk, held, throws, posted, count,
                     torn>>
  BY DEF Q!DestroyEvent, Q!queue
<1> QED BY <1>1, LifeKeeps DEF QueueInv, QueueTyped

LEMMA PendsOn ==
  ASSUME QueueInv, pumps # <<>>, NEW y \in PumpCursors,
         pumps' = [pumps EXCEPT ![Len(pumps)] = y],
         InLoop(y, queueLists[Len(pumps)]),
         \A i \in Nat : i > y.at \/ (i = y.at /\ y.phase # "in") => Pends(Len(pumps), i, pumps)
  PROVE  \A k, i \in Nat : Pends(k, i, pumps') => Pends(k, i, pumps)
<1>1. /\ pumps'[Len(pumps)] = y /\ Len(pumps') = Len(pumps) /\ Len(pumps) \in 1 .. Len(pumps)
      /\ \A k, i \in Nat : k # Len(pumps) => (Pends(k, i, pumps') <=> Pends(k, i, pumps))
  <2>1. Len(pumps) \in 1 .. MaxDepth
    BY TopPump DEF QueueInv
  <2>2. Len(pumps) \in 1 .. Len(pumps)
    BY <2>1, QueueConstants
  <2> QED BY <2>2, PumpGoesOn
<1>2. ASSUME NEW i \in Nat, Pends(Len(pumps), i, pumps') PROVE Pends(Len(pumps), i, pumps)
  <2>1. i > y.at \/ (i = y.at /\ y.phase # "in")
    BY <1>1, <1>2 DEF Pends
  <2> QED BY <2>1
<1> QED BY <1>1, <1>2

\* The innermost pump, at x, passes the entry it is at.
LEMMA Passes ==
  ASSUME QueueInv, pumps # <<>>, NEW x, x = pumps[Len(pumps)], NEW y,
         y = [at |-> x.at + 1, phase |-> "next"],
         x.at <= Len(queueLists[Len(pumps)])
  PROVE  /\ y \in PumpCursors /\ y.at = x.at + 1 /\ y.phase = "next" /\ y.at \in Nat
         /\ InLoop(y, queueLists[Len(pumps)])
         /\ \A i \in Nat :
              i > y.at \/ (i = y.at /\ y.phase # "in") => Pends(Len(pumps), i, pumps)
<1>1. /\ x \in PumpCursors /\ x.at \in Nat /\ x.at >= 1 /\ Len(pumps) \in 1 .. Len(pumps)
      /\ Len(queueLists[Len(pumps)]) \in Nat
  BY TopPump DEF InLoop, QueueInv
<1>2. y \in PumpCursors
  BY <1>1 DEF PumpCursors
<1>3. y.at = x.at + 1 /\ y.phase = "next"
  OBVIOUS
<1>4. InLoop(y, queueLists[Len(pumps)])
  BY <1>1, <1>3 DEF InLoop
<1>5. \A i \in Nat : i >= x.at + 1 => Pends(Len(pumps), i, pumps)
  BY <1>1 DEF Pends
<1>6. \A i \in Nat : i > y.at \/ (i = y.at /\ y.phase # "in") => i >= x.at + 1
  BY <1>1, <1>3
<1> QED BY <1>1, <1>2, <1>3, <1>4, <1>5, <1>6

LEMMA WaitsLess ==
  ASSUME QueueInv, \A k, i \in Nat : Pends(k, i, pumps') => Pends(k, i, pumps)
  PROVE  NotYet(queueLists, multiple, single, pumps', torn, count)
BY DEF NotYet, QueueInv

LEMMA SkipMoves ==
  ASSUME QueueInv, Q!Skip \/ Q!Return
  PROVE  /\ pumps # <<>>
         /\ \E y \in PumpCursors :
              /\ pumps' = [pumps EXCEPT ![Len(pumps)] = y]
              /\ InLoop(y, queueLists[Len(pumps)]) /\ y.phase = "next"
              /\ y.at = pumps[Len(pumps)].at + 1
         /\ \A k, i \in Nat : Pends(k, i, pumps') => Pends(k, i, pumps)
         /\ UNCHANGED <<multiple, single, queueLists, born, sunk, held, eventsGone, throws,
                        posted, count, torn>>
<1>n. PICK n : n = Len(pumps)
  OBVIOUS
<1>x. PICK x : x = pumps[n]
  OBVIOUS
<1>1. /\ pumps # <<>> /\ x.phase \in {"next", "in"}
      /\ x.phase = "next" => ~ Q!AtEnd
      /\ UNCHANGED <<multiple, single, queueLists, born, sunk, held, eventsGone, throws,
                     posted, count, torn>>
  BY <1>n, <1>x, TopPump DEF Q!Skip, Q!Return, Q!AtEntry, Q!life, QueueInv
<1>2. /\ Q!Depth = n /\ Q!Top = x /\ Q!WorkList = queueLists[n] /\ InLoop(x, queueLists[n])
      /\ x \in PumpCursors /\ x.at \in Nat /\ Len(queueLists[n]) \in Nat /\ n \in 1 .. MaxDepth
  BY <1>1, <1>n, <1>x, TopPump DEF QueueInv
<1>3. x.at <= Len(queueLists[n])
  <2>1. CASE x.phase = "next"
    BY <1>1, <1>2, <2>1 DEF Q!AtEnd
  <2>2. CASE x.phase = "in"
    BY <1>2, <2>2 DEF InLoop
  <2> QED BY <1>1, <2>1, <2>2
<1>y. PICK y : y = [at |-> x.at + 1, phase |-> "next"]
  OBVIOUS
<1>4. /\ y \in PumpCursors /\ y.at = x.at + 1 /\ y.phase = "next"
      /\ InLoop(y, queueLists[n])
      /\ \A i \in Nat : i > y.at \/ (i = y.at /\ y.phase # "in") => Pends(n, i, pumps)
  BY <1>1, <1>3, <1>n, <1>x, <1>y, Passes
<1>5. pumps' = [pumps EXCEPT ![n] = y]
  <2>1. CASE Q!Skip
    <3>1. pumps' = [pumps EXCEPT ![n].at = @ + 1]
      BY <2>1, <1>2 DEF Q!Skip
    <3>2. x.phase = "next"
      BY <2>1, <1>2 DEF Q!Skip, Q!AtEntry
    <3>3. y = [x EXCEPT !.at = x.at + 1]
      <4>. PICK z : z = [x EXCEPT !.at = x.at + 1]
        OBVIOUS
      <4>1. z \in PumpCursors
        BY <1>2 DEF PumpCursors
      <4>2. z.at = x.at + 1 /\ z.phase = "next"
        BY <1>2, <3>2 DEF PumpCursors
      <4>3. z = [at |-> z.at, phase |-> z.phase]
        BY <4>1 DEF PumpCursors
      <4> QED BY <4>2, <4>3, <1>y
    <3> QED BY <3>1, <3>3, <1>x, <1>n
  <2>2. CASE Q!Return
    <3>1. pumps' = [pumps EXCEPT ![n] = [at |-> @.at + 1, phase |-> "next"]]
      BY <2>2, <1>2 DEF Q!Return
    <3> QED BY <3>1, <1>x, <1>n, <1>y
  <2> QED BY <2>1, <2>2
<1>6. \A k, i \in Nat : Pends(k, i, pumps') => Pends(k, i, pumps)
  BY <1>1, <1>4, <1>5, <1>n, PendsOn
<1> QED BY <1>1, <1>4, <1>5, <1>6, <1>n, <1>x

LEMMA SkipKeeps ==
  ASSUME QueueInv, Q!Skip \/ Q!Return
  PROVE  QueueInv'
<1>1. NotYet(queueLists, multiple, single, pumps', torn, count)
  BY SkipMoves, WaitsLess
<1>2. /\ count' \in [Calls -> Nat]
      /\ \A c \in Calls \ torn : count'[c] <= 1
      /\ \A c \in Calls : count'[c] > 0 => Posts(posted, c)
  BY SkipMoves DEF QueueInv, QueueTyped
<1>3. count' = count
  BY SkipMoves
<1> QED BY <1>1, <1>2, <1>3, SkipMoves, PumpStepKeeps

\* A pump at an entry sits there.
LEMMA EntrySits ==
  ASSUME QueueInv, pumps # <<>>, pumps[Len(pumps)].at <= Len(queueLists[Len(pumps)]),
         NEW n, n = Len(pumps), NEW i, i = pumps[Len(pumps)].at
  PROVE  /\ n \in Nat /\ i \in Nat /\ n \in 1 .. MaxDepth /\ i \in 1 .. Len(queueLists[n])
         /\ Q!Entry = queueLists[n][i]
         /\ Q!Entry \in QueueEntries /\ Q!Entry.call \in Calls /\ Q!Entry.slot \in QueueSlots
         /\ Sits(n, i, Q!Entry, queueLists, multiple, single)
<1>1. /\ n \in 1 .. MaxDepth /\ Q!Top = pumps[n] /\ Q!WorkList = queueLists[n]
      /\ pumps[n].at \in Nat /\ Len(queueLists[n]) \in Nat /\ InLoop(pumps[n], queueLists[n])
      /\ queueLists[n] \in Seq(QueueEntries)
  BY TopPump DEF QueueInv
<1>2. i \in 1 .. Len(queueLists[n])
  BY <1>1 DEF InLoop
<1>3. Q!Entry = queueLists[n][i]
  BY <1>1 DEF Q!Entry
<1>4. queueLists[n][i] \in QueueEntries
  BY <1>1, <1>2, ElementOfSeq
<1> QED BY <1>1, <1>2, <1>3, <1>4, EntriesTyped, QueueConstants DEF Sits

LEMMA TestMoves ==
  ASSUME QueueInv, Q!Test
  PROVE  /\ pumps # <<>> /\ pumps[Len(pumps)].at <= Len(queueLists[Len(pumps)])
         /\ \E y \in PumpCursors :
              /\ pumps' = [pumps EXCEPT ![Len(pumps)] = y]
              /\ InLoop(y, queueLists[Len(pumps)])
              /\ y.at = pumps[Len(pumps)].at /\ y.phase = "call"
         /\ \A k, i \in Nat : Pends(k, i, pumps') <=> Pends(k, i, pumps)
         /\ UNCHANGED <<multiple, single, queueLists, born, sunk, held, eventsGone, throws,
                        posted, count, torn>>
<1>n. PICK n : n = Len(pumps)
  OBVIOUS
<1>x. PICK x : x = pumps[n]
  OBVIOUS
<1>1. /\ pumps # <<>> /\ x.phase = "next" /\ ~ Q!AtEnd
      /\ UNCHANGED <<multiple, single, queueLists, born, sunk, held, eventsGone, throws,
                     posted, count, torn>>
  BY <1>n, <1>x, TopPump DEF Q!Test, Q!AtEntry, Q!life, QueueInv
<1>2. /\ Q!Depth = n /\ Q!Top = x /\ Q!WorkList = queueLists[n] /\ InLoop(x, queueLists[n])
      /\ x \in PumpCursors /\ x.at \in Nat /\ Len(queueLists[n]) \in Nat /\ n \in 1 .. MaxDepth
  BY <1>1, <1>n, <1>x, TopPump DEF QueueInv
<1>3. x.at <= Len(queueLists[n])
  BY <1>1, <1>2 DEF Q!AtEnd
<1>y. PICK y : y = [x EXCEPT !.phase = "call"]
  OBVIOUS
<1>4. y \in PumpCursors /\ y.at = x.at /\ y.phase = "call"
  <2>1. y \in PumpCursors
    BY <1>2, <1>y DEF PumpCursors
  <2>2. y.at = x.at /\ y.phase = "call"
    BY <1>2, <1>y DEF PumpCursors
  <2> QED BY <2>1, <2>2
<1>5. InLoop(y, queueLists[n])
  BY <1>2, <1>3, <1>4 DEF InLoop
<1>6. pumps' = [pumps EXCEPT ![n] = y]
  BY <1>2, <1>x, <1>y, <1>n DEF Q!Test
<1>7. /\ pumps'[n] = y /\ Len(pumps') = n
      /\ \A k, i \in Nat : k # n => (Pends(k, i, pumps') <=> Pends(k, i, pumps))
  BY <1>1, <1>4, <1>5, <1>6, <1>n, PumpGoesOn
<1>8. \A i \in Nat : Pends(n, i, pumps') <=> Pends(n, i, pumps)
  <2>1. x.phase # "in" /\ y.phase # "in" /\ pumps[n] = x /\ n = Len(pumps)
    BY <1>1, <1>4, <1>x, <1>n
  <2> QED BY <2>1, <1>4, <1>7 DEF Pends
<1> QED BY <1>1, <1>3, <1>4, <1>5, <1>6, <1>7, <1>8, <1>n, <1>x

LEMMA TestKeeps ==
  ASSUME QueueInv, Q!Test
  PROVE  QueueInv'
<1>1. NotYet(queueLists, multiple, single, pumps', torn, count)
  BY TestMoves, WaitsLess
<1>2. /\ count' \in [Calls -> Nat] /\ count' = count
      /\ \A c \in Calls \ torn : count'[c] <= 1
      /\ \A c \in Calls : count'[c] > 0 => Posts(posted, c)
  BY TestMoves DEF QueueInv, QueueTyped
<1>3. queueLists[Len(pumps)][pumps[Len(pumps)].at].slot \in sunk \cup held
  BY TestMoves, EntrySits DEF Q!Test, Q!Dead, Q!Alive
<1> QED BY <1>1, <1>2, <1>3, TestMoves, PumpStepKeeps

LEMMA CallMoves ==
  ASSUME QueueInv, Q!Call, NEW n, n = Len(pumps), NEW i, i = pumps[Len(pumps)].at
  PROVE  /\ pumps # <<>> /\ i <= Len(queueLists[n]) /\ pumps[n].phase = "call"
         /\ \E y \in PumpCursors :
              /\ pumps' = [pumps EXCEPT ![n] = y]
              /\ InLoop(y, queueLists[n]) /\ y.phase = "in"
         /\ Pends(n, i, pumps)
         /\ \A k, j \in Nat :
              Pends(k, j, pumps') <=> Pends(k, j, pumps) /\ ~ (k = n /\ j = i)
         /\ count' = [count EXCEPT ![Q!Entry.call] = @ + 1]
         /\ UNCHANGED <<multiple, single, queueLists, born, sunk, held, eventsGone, throws,
                        posted, torn>>
<1>x. PICK x : x = pumps[n]
  OBVIOUS
<1>1. /\ pumps # <<>> /\ x.phase = "call"
      /\ UNCHANGED <<multiple, single, queueLists, born, sunk, held, eventsGone, throws,
                     posted, torn>>
      /\ count' = [count EXCEPT ![Q!Entry.call] = @ + 1]
  BY <1>x, TopPump DEF Q!Call, Q!life, QueueInv
<1>2. /\ Q!Depth = n /\ Q!Top = x /\ InLoop(x, queueLists[n])
      /\ x \in PumpCursors /\ x.at \in Nat /\ Len(queueLists[n]) \in Nat /\ n \in 1 .. MaxDepth
      /\ i = x.at
  BY <1>1, <1>x, TopPump DEF QueueInv
<1>3. x.at <= Len(queueLists[n])
  BY <1>1, <1>2 DEF InLoop
<1>y. PICK y : y = [x EXCEPT !.phase = "in"]
  OBVIOUS
<1>4. y \in PumpCursors /\ y.at = x.at /\ y.phase = "in"
  <2>1. y \in PumpCursors
    BY <1>2, <1>y DEF PumpCursors
  <2>2. y.at = x.at /\ y.phase = "in"
    BY <1>2, <1>y DEF PumpCursors
  <2> QED BY <2>1, <2>2
<1>5. InLoop(y, queueLists[n])
  BY <1>2, <1>3, <1>4 DEF InLoop
<1>6. pumps' = [pumps EXCEPT ![n] = y]
  BY <1>2, <1>x, <1>y DEF Q!Call
<1>7. /\ pumps'[n] = y /\ Len(pumps') = n
      /\ \A k, j \in Nat : k # n => (Pends(k, j, pumps') <=> Pends(k, j, pumps))
  BY <1>1, <1>4, <1>5, <1>6, PumpGoesOn
<1>8. Pends(n, i, pumps)
      /\ \A j \in Nat : Pends(n, j, pumps') <=> Pends(n, j, pumps) /\ j # i
  <2>1. x.phase # "in" /\ y.phase = "in" /\ pumps[n] = x /\ n = Len(pumps)
    BY <1>1, <1>4, <1>x
  <2>2. n \in 1 .. Len(pumps) /\ n \in 1 .. Len(pumps')
    BY <1>2, <1>7
  <2>3. \A j \in Nat : Pends(n, j, pumps') <=> j > i
    BY <2>1, <2>2, <1>2, <1>4, <1>7 DEF Pends
  <2>4. \A j \in Nat : Pends(n, j, pumps) <=> j > i \/ j = i
    BY <2>1, <2>2, <1>2 DEF Pends
  <2> QED BY <2>3, <2>4, <1>2
<1>9. ASSUME NEW k \in Nat, NEW j \in Nat
      PROVE  Pends(k, j, pumps') <=> Pends(k, j, pumps) /\ ~ (k = n /\ j = i)
  BY <1>7, <1>8
<1> QED BY <1>1, <1>2, <1>3, <1>4, <1>5, <1>6, <1>8, <1>9, <1>x

LEMMA CallKeeps ==
  ASSUME QueueInv, Q!Call
  PROVE  QueueInv'
<1>n. PICK n : n = Len(pumps)
  OBVIOUS
<1>i. PICK i : i = pumps[n].at
  OBVIOUS
<1>e. PICK w : w = Q!Entry
  OBVIOUS
<1>1. /\ pumps # <<>> /\ i <= Len(queueLists[n])
      /\ Pends(n, i, pumps)
      /\ \A k, j \in Nat :
           Pends(k, j, pumps') <=> Pends(k, j, pumps) /\ ~ (k = n /\ j = i)
      /\ count' = [count EXCEPT ![w.call] = @ + 1]
      /\ UNCHANGED <<multiple, single, queueLists, born, sunk, held, eventsGone, throws,
                     posted, torn>>
  <2>1. i = pumps[Len(pumps)].at
    BY <1>n, <1>i
  <2>2. /\ pumps # <<>> /\ i <= Len(queueLists[n]) /\ Pends(n, i, pumps)
        /\ \A k, j \in Nat :
             Pends(k, j, pumps') <=> Pends(k, j, pumps) /\ ~ (k = n /\ j = i)
        /\ count' = [count EXCEPT ![Q!Entry.call] = @ + 1]
        /\ UNCHANGED <<multiple, single, queueLists, born, sunk, held, eventsGone, throws,
                       posted, torn>>
    BY <1>n, <2>1, CallMoves
  <2> QED BY <2>2, <1>e
<1>2. /\ n \in Nat /\ i \in Nat /\ w \in QueueEntries /\ w.call \in Calls
      /\ Sits(n, i, w, queueLists, multiple, single)
  BY <1>1, <1>n, <1>i, <1>e, EntrySits
<1>3. /\ count' \in [Calls -> Nat] /\ count'[w.call] = count[w.call] + 1
      /\ \A c \in Calls : c # w.call => count'[c] = count[c]
  BY <1>1, <1>2 DEF QueueInv, QueueTyped
<1>4. w.call \notin torn => count[w.call] = 0
  BY <1>1, <1>2 DEF QueueInv, NotYet
<1>5. \A c \in Calls \ torn : count'[c] <= 1
  BY <1>3, <1>4 DEF QueueInv
<1>6. \A c \in Calls : count'[c] > 0 => Posts(posted, c)
  <2>1. Posts(posted, w.call)
    BY <1>2 DEF QueueInv, WellPlaced, Fits
  <2> QED BY <2>1, <1>3 DEF QueueInv
<1>7. NotYet(queueLists, multiple, single, pumps', torn, count')
  <2> SUFFICES ASSUME NEW k \in Nat, NEW j \in Nat, NEW f \in QueueEntries,
                      Sits(k, j, f, queueLists, multiple, single), Pends(k, j, pumps'),
                      f.call \notin torn
               PROVE  count'[f.call] = 0
    BY DEF NotYet
  <2>1. Pends(k, j, pumps) /\ ~ (k = n /\ j = i)
    BY <1>1
  <2>2. count[f.call] = 0
    BY <2>1 DEF QueueInv, NotYet
  <2>3. f.call # w.call
    BY <1>2, <2>1 DEF QueueInv, AtOnePlace
  <2> QED BY <2>2, <2>3, <1>3, EntriesTyped
<1>8. PICK y \in PumpCursors :
        pumps' = [pumps EXCEPT ![n] = y] /\ InLoop(y, queueLists[n]) /\ y.phase = "in"
  BY <1>n, <1>i, CallMoves
<1> QED BY <1>1, <1>3, <1>5, <1>6, <1>7, <1>8, <1>n, PumpStepKeeps

\* The innermost pump is left.
LEMMA PumpLeft ==
  ASSUME QueueInv, pumps # <<>>, pumps' = Q!Front(pumps)
  PROVE  \E m \in Nat :
           /\ Len(pumps) = m + 1 /\ m + 1 \in 1 .. MaxDepth /\ Len(pumps') = m
           /\ pumps' \in Seq(PumpCursors) /\ PumpsNest(pumps')
           /\ \A d \in 1 .. m : pumps'[d] = pumps[d]
           /\ \A k, i \in Nat : k # m + 1 => (Pends(k, i, pumps') <=> Pends(k, i, pumps))
           /\ \A i : Pends(m + 1, i, pumps')
<1>1. Len(pumps) \in 1 .. MaxDepth /\ pumps \in Seq(PumpCursors)
  BY TopPump DEF QueueInv, QueueTyped
<1>2. PICK m \in Nat : Len(pumps) = m + 1
  <2>1. Len(pumps) - 1 \in Nat /\ Len(pumps) = (Len(pumps) - 1) + 1
    BY <1>1, QueueConstants
  <2> QED BY <2>1
<1>3. pumps' = SubSeq(pumps, 1, m)
  BY <1>1, <1>2 DEF Q!Front
<1>4. pumps' \in Seq(PumpCursors) /\ Len(pumps') = m /\ \A d \in 1 .. m : pumps'[d] = pumps[d]
  BY <1>1, <1>2, <1>3, SubSeqProperties
<1>5. PumpsNest(pumps')
  BY <1>2, <1>4 DEF QueueInv, PumpsNest
<1>6. ASSUME NEW k \in Nat, NEW i \in Nat, k # m + 1
      PROVE  Pends(k, i, pumps') <=> Pends(k, i, pumps)
  <2>1. k \in 1 .. m + 1 <=> k \in 1 .. m
    BY <1>2, <1>6
  <2> QED BY <2>1, <1>2, <1>4 DEF Pends
<1>7. \A i : Pends(m + 1, i, pumps')
  BY <1>2, <1>4 DEF Pends
<1> QED BY <1>1, <1>2, <1>4, <1>5, <1>6, <1>7

LEMMA QueueThrowKeeps ==
  ASSUME QueueInv, Q!Throw
  PROVE  QueueInv'
<1>1. /\ pumps # <<>> /\ pumps' = Q!Front(pumps) /\ throws < MaxThrows /\ throws' = throws + 1
      /\ torn' = torn \cup {e.call : e \in Q!ToSet(queueLists[Len(pumps)])}
      /\ UNCHANGED <<multiple, single, queueLists, born, sunk, held, eventsGone, posted, count>>
  BY TopPump DEF Q!Throw, Q!life, QueueInv
<1>2. PICK m \in Nat :
        /\ Len(pumps) = m + 1 /\ m + 1 \in 1 .. MaxDepth /\ Len(pumps') = m
        /\ pumps' \in Seq(PumpCursors) /\ PumpsNest(pumps')
        /\ \A d \in 1 .. m : pumps'[d] = pumps[d]
        /\ \A k, i \in Nat : k # m + 1 => (Pends(k, i, pumps') <=> Pends(k, i, pumps))
  BY <1>1, PumpLeft
<1>3. /\ \A i \in 1 .. Len(queueLists[m + 1]) : queueLists[m + 1][i].call \in torn'
      /\ torn \subseteq torn' /\ torn' \subseteq Calls
  <2>1. queueLists[m + 1] \in Seq(QueueEntries)
    BY <1>2 DEF QueueInv, QueueTyped
  <2>2. DOMAIN queueLists[m + 1] = 1 .. Len(queueLists[m + 1])
    BY <2>1, LenProperties
  <2>3. torn' = torn \cup {queueLists[m + 1][i].call : i \in 1 .. Len(queueLists[m + 1])}
    BY <1>1, <1>2, <2>2 DEF Q!ToSet
  <2>4. \A i \in 1 .. Len(queueLists[m + 1]) : queueLists[m + 1][i].call \in Calls
    BY <2>1, ElementOfSeq, EntriesTyped
  <2> QED BY <2>3, <2>4 DEF QueueInv, QueueTyped
<1>4. throws' \in 0 .. MaxThrows /\ throws' # 0
  <2>1. throws \in 0 .. MaxThrows
    BY DEF QueueInv, QueueTyped
  <2> QED BY <2>1, <1>1, QueueConstants
<1>5. \A d \in 1 .. m : d \in 1 .. Len(pumps) /\ InLoop(pumps'[d], queueLists[d])
  BY <1>2 DEF QueueInv, QueueTyped
<1>6. QueueTyped'
  <2>1. Len(pumps') <= MaxDepth
    BY <1>2, QueueConstants
  <2> QED BY <2>1, <1>1, <1>2, <1>3, <1>4, <1>5 DEF QueueInv, QueueTyped, Q!Addresses
<1>7. TestedAlive(queueLists, pumps', sunk \cup held)
  BY <1>2, <1>5 DEF QueueInv, TestedAlive
<1>8. LeftBehind(queueLists, pumps', torn')
  <2> SUFFICES ASSUME NEW k \in 1 .. MaxDepth, k > m, NEW i \in 1 .. Len(queueLists[k])
               PROVE  queueLists[k][i].call \in torn'
    BY <1>2 DEF LeftBehind
  <2>1. CASE k = m + 1
    BY <2>1, <1>3
  <2>2. CASE k # m + 1
    <3>1. k > Len(pumps)
      BY <2>2, <1>2, QueueConstants
    <3> QED BY <3>1, <1>3 DEF QueueInv, LeftBehind
  <2> QED BY <2>1, <2>2
<1>9. AtOnePlace(queueLists, multiple, single, torn')
  BY <1>3 DEF QueueInv, AtOnePlace
<1>10. NotYet(queueLists, multiple, single, pumps', torn', count)
  <2> SUFFICES ASSUME NEW k \in Nat, NEW i \in Nat, NEW e \in QueueEntries,
                      Sits(k, i, e, queueLists, multiple, single), Pends(k, i, pumps'),
                      e.call \notin torn'
               PROVE  count[e.call] = 0
    BY DEF NotYet
  <2>1. k # m + 1
    BY <1>2, <1>3, QueueConstants DEF Sits
  <2> QED BY <2>1, <1>2, <1>3 DEF QueueInv, NotYet
<1>11. InTurn(queueLists, multiple, single, torn', posted)
  BY <1>3 DEF QueueInv, InTurn
<1>12. \A c \in Calls \ torn' : count[c] <= 1
  BY <1>3 DEF QueueInv
<1> QED BY <1>1, <1>2, <1>4, <1>6, <1>7, <1>8, <1>9, <1>10, <1>11, <1>12 DEF QueueInv

LEMMA EndMoves ==
  ASSUME QueueInv, Q!End
  PROVE  /\ pumps # <<>> /\ Len(pumps) \in 1 .. MaxDepth /\ pumps' = Q!Front(pumps)
         /\ \A i \in 1 .. Len(queueLists[Len(pumps)]) : ~ Pends(Len(pumps), i, pumps)
         /\ queueLists' = [queueLists EXCEPT ![Len(pumps)] = <<>>]
         /\ \A k, i \in Nat : \A e \in QueueEntries :
              Sits(k, i, e, queueLists', multiple, single) <=>
                Sits(k, i, e, queueLists, multiple, single) /\ k # Len(pumps)
         /\ UNCHANGED <<multiple, single, born, sunk, held, eventsGone, throws, posted, count,
                        torn>>
<1>n. PICK n : n = Len(pumps)
  OBVIOUS
<1>1. /\ pumps # <<>> /\ pumps' = Q!Front(pumps) /\ n \in 1 .. MaxDepth
      /\ pumps[n].phase = "next" /\ pumps[n].at > Len(queueLists[n])
      /\ pumps[n].at \in Nat /\ Len(queueLists[n]) \in Nat
      /\ queueLists' = [queueLists EXCEPT ![n] = <<>>]
      /\ UNCHANGED <<multiple, single, born, sunk, held, eventsGone, throws, posted, count, torn>>
  BY <1>n, TopPump DEF Q!End, Q!AtEnd, Q!life, Q!ListAt, QueueInv
<1>2. \A i \in 1 .. Len(queueLists[n]) : ~ Pends(n, i, pumps)
  BY <1>1, <1>n DEF Pends
<1>3. /\ queueLists'[n] = <<>> /\ Len(queueLists'[n]) = 0
      /\ \A k \in 1 .. MaxDepth : k # n => queueLists'[k] = queueLists[k]
  BY <1>1, EmptySeq DEF QueueInv, QueueTyped
<1>4. ASSUME NEW k \in Nat, NEW i \in Nat, NEW e \in QueueEntries
      PROVE  Sits(k, i, e, queueLists', multiple, single) <=>
               Sits(k, i, e, queueLists, multiple, single) /\ k # n
  <2>1. CASE k = n
    BY <2>1, <1>1, <1>3, QueueConstants DEF Sits
  <2>2. CASE k # n
    BY <2>2, <1>3 DEF Sits
  <2> QED BY <2>1, <2>2
<1> QED BY <1>1, <1>2, <1>4, <1>n

LEMMA EndKeeps ==
  ASSUME QueueInv, Q!End
  PROVE  QueueInv'
<1>n. PICK n : n = Len(pumps)
  OBVIOUS
<1>1. /\ pumps # <<>> /\ n \in 1 .. MaxDepth /\ pumps' = Q!Front(pumps)
      /\ queueLists' = [queueLists EXCEPT ![n] = <<>>]
      /\ \A k, i \in Nat : \A e \in QueueEntries :
           Sits(k, i, e, queueLists', multiple, single) <=>
             Sits(k, i, e, queueLists, multiple, single) /\ k # n
      /\ UNCHANGED <<multiple, single, born, sunk, held, eventsGone, throws, posted, count, torn>>
  BY <1>n, EndMoves
<1>2. PICK m \in Nat :
        /\ n = m + 1 /\ Len(pumps') = m
        /\ pumps' \in Seq(PumpCursors) /\ PumpsNest(pumps')
        /\ \A d \in 1 .. m : pumps'[d] = pumps[d]
        /\ \A k, i \in Nat : k # m + 1 => (Pends(k, i, pumps') <=> Pends(k, i, pumps))
  BY <1>1, <1>n, PumpLeft
<1>3. /\ queueLists' \in [1 .. MaxDepth -> Seq(QueueEntries)]
      /\ queueLists'[n] = <<>> /\ Len(queueLists'[n]) = 0
      /\ \A k \in 1 .. MaxDepth : k # n => queueLists'[k] = queueLists[k]
  <2>1. queueLists \in [1 .. MaxDepth -> Seq(QueueEntries)] /\ <<>> \in Seq(QueueEntries)
    BY EmptySeq DEF QueueInv, QueueTyped
  <2> QED BY <2>1, <1>1, EmptySeq
<1>4. \A d \in 1 .. m :
        /\ d \in 1 .. Len(pumps) /\ d \in 1 .. MaxDepth
        /\ queueLists'[d] = queueLists[d] /\ InLoop(pumps'[d], queueLists'[d])
  <2>1. \A d \in 1 .. m : d \in 1 .. Len(pumps) /\ d \in 1 .. MaxDepth /\ d # n
    BY <1>1, <1>2, <1>n, QueueConstants
  <2> QED BY <2>1, <1>2, <1>3 DEF QueueInv, QueueTyped
<1>5. QueueTyped'
  <2>1. Len(pumps') <= MaxDepth
    BY <1>1, <1>2, QueueConstants
  <2> QED BY <2>1, <1>1, <1>2, <1>3, <1>4 DEF QueueInv, QueueTyped, Q!Addresses
<1>6. TestedAlive(queueLists', pumps', sunk \cup held)
  BY <1>2, <1>4 DEF QueueInv, TestedAlive
<1>7. LeftBehind(queueLists', pumps', torn)
  <2> SUFFICES ASSUME NEW k \in 1 .. MaxDepth, k > m, NEW i \in 1 .. Len(queueLists'[k])
               PROVE  queueLists'[k][i].call \in torn
    BY <1>2 DEF LeftBehind
  <2>1. k # n
    BY <1>3
  <2>2. k > Len(pumps)
    BY <2>1, <1>2, <1>n, QueueConstants
  <2> QED BY <2>1, <2>2, <1>3 DEF QueueInv, LeftBehind
<1>8. AtOnePlace(queueLists', multiple, single, torn)
  <2>1. AtOnePlace(queueLists, multiple, single, torn)
    BY DEF QueueInv
  <2> QED BY <2>1, <1>1 DEF AtOnePlace
<1>9. NotYet(queueLists', multiple, single, pumps', torn, count)
  BY <1>1, <1>2 DEF QueueInv, NotYet
<1>10. InTurn(queueLists', multiple, single, torn, posted)
  <2>1. InTurn(queueLists, multiple, single, torn, posted)
    BY DEF QueueInv
  <2>2. \A k, i \in Nat : \A e \in QueueEntries :
          Sits(k, i, e, queueLists', multiple, single) =>
            Sits(k, i, e, queueLists, multiple, single)
    BY <1>1
  <2> QED BY ONLY <2>1, <2>2, ZenonT(60) DEF InTurn
<1>11. WellPlaced(queueLists', multiple, single, sunk \cup held, born, posted)
  BY <1>1 DEF QueueInv, WellPlaced
<1> QED BY <1>1, <1>2, <1>5, <1>6, <1>7, <1>8, <1>9, <1>10, <1>11 DEF QueueInv

LEMMA PostedGrows ==
  ASSUME NEW c \in Calls, NEW calls \in Seq(Calls), ~ Posts(calls, c)
  PROVE  /\ Append(calls, c) \in Seq(Calls)
         /\ \A d : Posts(Append(calls, c), d) <=> Posts(calls, d) \/ d = c
         /\ \A d, e : Earlier(Append(calls, c), d, e) =>
              d # c /\ (e = c \/ Earlier(calls, d, e))
<1>1. /\ Len(calls) \in Nat /\ Append(calls, c) \in Seq(Calls)
      /\ Len(Append(calls, c)) = Len(calls) + 1
      /\ \A i \in 1 .. Len(calls) : Append(calls, c)[i] = calls[i]
      /\ Append(calls, c)[Len(calls) + 1] = c
  BY AppendProperties, LenProperties
<1>. PICK w : w = Append(calls, c)
  OBVIOUS
<1>2. ASSUME NEW d PROVE Posts(w, d) <=> Posts(calls, d) \/ d = c
  <2>1. \A i \in 1 .. Len(calls) + 1 : i \in 1 .. Len(calls) \/ i = Len(calls) + 1
    BY <1>1
  <2>2. /\ \A i \in 1 .. Len(calls) : i \in 1 .. Len(calls) + 1
        /\ Len(calls) + 1 \in 1 .. Len(calls) + 1
    BY <1>1
  <2> QED BY <1>1, <2>1, <2>2 DEF Posts
<1>3. ASSUME NEW d, NEW e, Earlier(w, d, e) PROVE d # c /\ (e = c \/ Earlier(calls, d, e))
  <2>1. PICK i, j \in 1 .. Len(calls) + 1 : i < j /\ w[i] = d /\ w[j] = e
    BY <1>1, <1>3 DEF Earlier
  <2>2. i \in 1 .. Len(calls) /\ calls[i] = d
    BY <1>1, <2>1
  <2>3. d # c
    BY <2>2 DEF Posts
  <2>4. j \in 1 .. Len(calls) => calls[j] = e
    BY <1>1, <2>1
  <2>5. j \in 1 .. Len(calls) \/ e = c
    BY <1>1, <2>1
  <2> QED BY <2>1, <2>2, <2>3, <2>4, <2>5 DEF Earlier
<1> QED BY <1>1, <1>2, <1>3

\* An entry is written at an address among the single calls.
LEMMA SingleWritten ==
  ASSUME QueueTyped, NEW x \in Nat, x \in Q!Addresses, NEW w \in QueueEntries,
         NEW to, to = [y \in DOMAIN single \cup {x} |-> IF y = x THEN w ELSE single[y]]
  PROVE  /\ to \in [DOMAIN to -> QueueEntries] /\ DOMAIN to \subseteq Nat
         /\ DOMAIN to \subseteq Q!Addresses /\ IsFiniteSet(DOMAIN to)
         /\ \A k, i \in Nat : \A e \in QueueEntries :
              Sits(k, i, e, queueLists, multiple, to) <=>
                \/ Sits(k, i, e, queueLists, multiple, single) /\ ~ (k = 0 /\ i = x)
                \/ k = 0 /\ i = x /\ e = w
<1>1. /\ DOMAIN to = DOMAIN single \cup {x}
      /\ to[x] = w /\ \A y \in DOMAIN single : y # x => to[y] = single[y]
  OBVIOUS
<1>2. \A y \in DOMAIN single : single[y] \in QueueEntries
  BY DEF QueueTyped
<1>3. to \in [DOMAIN to -> QueueEntries] /\ DOMAIN to \subseteq Nat
      /\ DOMAIN to \subseteq Q!Addresses
  BY <1>1, <1>2 DEF QueueTyped
<1>5. IsFiniteSet(DOMAIN to)
  BY <1>1, FS_AddElement DEF QueueTyped
<1>4. ASSUME NEW k \in Nat, NEW i \in Nat, NEW e \in QueueEntries
      PROVE  Sits(k, i, e, queueLists, multiple, to) <=>
               \/ Sits(k, i, e, queueLists, multiple, single) /\ ~ (k = 0 /\ i = x)
               \/ k = 0 /\ i = x /\ e = w
  <2>1. CASE k = 0
    <3>1. ~ (k \in 1 .. MaxDepth) /\ k # MaxDepth + 1
      BY <2>1, QueueConstants
    <3>2. Sits(k, i, e, queueLists, multiple, to) <=> i \in DOMAIN to /\ e = to[i]
      BY <2>1, <3>1 DEF Sits
    <3>3. Sits(k, i, e, queueLists, multiple, single) <=> i \in DOMAIN single /\ e = single[i]
      BY <2>1, <3>1 DEF Sits
    <3> QED BY <2>1, <3>2, <3>3, <1>1
  <2>2. CASE k # 0
    BY <2>2 DEF Sits
  <2> QED BY <2>1, <2>2
<1> QED BY <1>3, <1>5, <1>4

\* The call c is written to the place (k, i), in the entry w: over the single
\* call that is there, or behind all multiple ones.
EntryWritten(c, k, i, w) ==
  /\ w.call = c /\ Fits(w, sunk \cup held, born, posted')
  /\ \/ k = 0 /\ c \in Single /\ Address[w.slot] = i /\ Address[CalledSlot[c]] = i
     \/ /\ k = MaxDepth + 1 /\ c \notin Single
        /\ \A l, j \in Nat : \A f \in QueueEntries :
             Sits(l, j, f, queueLists, multiple, single) => l < k \/ (l = k /\ j < i)
  /\ \A l, j \in Nat : \A f \in QueueEntries :
       Sits(l, j, f, queueLists, multiple', single') <=>
         \/ Sits(l, j, f, queueLists, multiple, single) /\ ~ (l = k /\ j = i)
         \/ l = k /\ j = i /\ f = w

LEMMA EnqueueMoves ==
  ASSUME QueueInv, NEW c \in Calls, Q!Enqueue(c)
  PROVE  /\ \E k, i \in Nat : \E w \in QueueEntries : EntryWritten(c, k, i, w)
         /\ QueueTyped'
         /\ ~ Posts(posted, c) /\ posted' = Append(posted, c)
         /\ UNCHANGED <<queueLists, pumps, born, sunk, held, eventsGone, throws, count, torn>>
<1>z. PICK z : z = CalledSlot[c]
  OBVIOUS
<1>v. PICK v : v = [slot |-> z, call |-> c]
  OBVIOUS
<1>x. PICK x : x = Address[z]
  OBVIOUS
<1>1. /\ c \notin Q!ToSet(posted) /\ z \in sunk \cup held /\ posted' = Append(posted, c)
      /\ UNCHANGED <<queueLists, pumps, born, sunk, held, eventsGone, throws, count, torn>>
  BY <1>z DEF Q!Enqueue, Q!Alive, Q!life
<1>2. QueueTyped /\ z \in QueueSlots /\ z \in born /\ x \in Nat /\ x \in Q!Addresses
  BY <1>z, <1>x, <1>1, QueueConstants DEF QueueInv, QueueTyped
<1>3. v \in QueueEntries /\ v.call = c /\ v.slot = z
  BY <1>2, <1>v DEF QueueEntries
<1>4. ~ Posts(posted, c)
  <2>1. DOMAIN posted = 1 .. Len(posted)
    BY <1>2, LenProperties DEF QueueTyped
  <2> QED BY <2>1, <1>1 DEF Posts, Q!ToSet
<1>5. posted' \in Seq(Calls) /\ Posts(posted', c)
  BY <1>1, <1>2, <1>4, PostedGrows DEF QueueTyped
<1>6. \/ c \notin Single /\ multiple' = Append(multiple, v) /\ single' = single
      \/ /\ c \in Single /\ x \in DOMAIN single /\ multiple' = multiple
         /\ single' = [single EXCEPT ![x].call = c]
      \/ /\ c \in Single /\ x \notin DOMAIN single /\ multiple' = multiple
         /\ single' = [y \in DOMAIN single \cup {x} |-> IF y = x THEN v ELSE single[y]]
  BY <1>z, <1>v, <1>x DEF Q!Enqueue, Q!Replace, Q!Appended
<1>7. CASE c \notin Single /\ multiple' = Append(multiple, v) /\ single' = single
  <2>1. /\ Len(multiple) \in Nat /\ multiple' \in Seq(QueueEntries)
        /\ Len(multiple') = Len(multiple) + 1
        /\ \A i \in 1 .. Len(multiple) : multiple'[i] = multiple[i]
        /\ multiple'[Len(multiple) + 1] = v
    BY <1>2, <1>3, <1>7, AppendProperties, LenProperties DEF QueueTyped
  <2>2. QueueTyped'
    BY <1>1, <1>2, <1>5, <1>7, <2>1 DEF QueueTyped, Q!Addresses
  <2>3. Fits(v, sunk \cup held, born, posted')
    BY <1>2, <1>3, <1>5, <1>z DEF Fits
  <2>4. ASSUME NEW l \in Nat, NEW j \in Nat, NEW f \in QueueEntries,
               Sits(l, j, f, queueLists, multiple, single)
        PROVE  l < MaxDepth + 1 \/ (l = MaxDepth + 1 /\ j < Len(multiple) + 1)
    BY <2>1, <2>4, QueueConstants DEF Sits
  <2>5. ASSUME NEW l \in Nat, NEW j \in Nat, NEW f \in QueueEntries
        PROVE  Sits(l, j, f, queueLists, multiple', single') <=>
                 \/ /\ Sits(l, j, f, queueLists, multiple, single)
                    /\ ~ (l = MaxDepth + 1 /\ j = Len(multiple) + 1)
                 \/ l = MaxDepth + 1 /\ j = Len(multiple) + 1 /\ f = v
    <3>1. CASE l = MaxDepth + 1
      <4>1. l # 0 /\ l \notin 1 .. MaxDepth
        BY <3>1, QueueConstants
      <4>2. Sits(l, j, f, queueLists, multiple', single') <=>
              j \in 1 .. Len(multiple) + 1 /\ f = multiple'[j]
        BY <3>1, <4>1, <2>1 DEF Sits
      <4>3. Sits(l, j, f, queueLists, multiple, single) <=>
              j \in 1 .. Len(multiple) /\ f = multiple[j]
        BY <3>1, <4>1 DEF Sits
      <4>4. j \in 1 .. Len(multiple) + 1 <=> j \in 1 .. Len(multiple) \/ j = Len(multiple) + 1
        BY <2>1
      <4>5. j \in 1 .. Len(multiple) => j # Len(multiple) + 1
        BY <2>1
      <4> QED BY <3>1, <4>2, <4>3, <4>4, <4>5, <2>1
    <3>2. CASE l # MaxDepth + 1
      BY <3>2, <1>7 DEF Sits
    <3> QED BY <3>1, <3>2
  <2>6. MaxDepth + 1 \in Nat /\ Len(multiple) + 1 \in Nat
    BY <2>1, QueueConstants
  <2>7. EntryWritten(c, MaxDepth + 1, Len(multiple) + 1, v)
    BY <1>3, <1>7, <2>3, <2>4, <2>5 DEF EntryWritten
  <2> QED BY <1>1, <1>3, <1>4, <2>2, <2>6, <2>7
<1>8. ASSUME NEW w \in QueueEntries, w.call = c, c \in Single, Address[w.slot] = x,
             w.slot \in born, w.slot = z \/ w.slot \notin sunk \cup held,
             multiple' = multiple,
             single' = [y \in DOMAIN single \cup {x} |-> IF y = x THEN w ELSE single[y]]
      PROVE  /\ QueueTyped' /\ Fits(w, sunk \cup held, born, posted')
             /\ \A l, j \in Nat : \A f \in QueueEntries :
                  Sits(l, j, f, queueLists, multiple', single') <=>
                    \/ Sits(l, j, f, queueLists, multiple, single) /\ ~ (l = 0 /\ j = x)
                    \/ l = 0 /\ j = x /\ f = w
  <2>s. PICK to : to = single'
    OBVIOUS
  <2>t. to = [y \in DOMAIN single \cup {x} |-> IF y = x THEN w ELSE single[y]]
    BY <2>s, <1>8
  <2>1. /\ single' \in [DOMAIN single' -> QueueEntries] /\ DOMAIN single' \subseteq Nat
        /\ DOMAIN single' \subseteq Q!Addresses /\ IsFiniteSet(DOMAIN single')
        /\ \A l, j \in Nat : \A f \in QueueEntries :
             Sits(l, j, f, queueLists, multiple, single') <=>
               \/ Sits(l, j, f, queueLists, multiple, single) /\ ~ (l = 0 /\ j = x)
               \/ l = 0 /\ j = x /\ f = w
    BY <1>2, <2>s, <2>t, SingleWritten
  <2>2. QueueTyped'
    BY <1>1, <1>2, <1>5, <1>8, <2>1 DEF QueueTyped, Q!Addresses
  <2>3. Fits(w, sunk \cup held, born, posted')
    BY <1>5, <1>8, <1>z DEF Fits
  <2> QED BY <2>1, <2>2, <2>3, <1>8
<1>9. CASE c \in Single /\ x \in DOMAIN single /\ multiple' = multiple
           /\ single' = [single EXCEPT ![x].call = c]
  <2>1. PICK old \in QueueEntries : old = single[x]
    BY <1>2, <1>9 DEF QueueTyped
  <2>2. PICK w \in QueueEntries : w = [old EXCEPT !.call = c] /\ w.call = c /\ w.slot = old.slot
    <3>1. [old EXCEPT !.call = c] \in QueueEntries
      BY <2>1 DEF QueueEntries
    <3>2. [old EXCEPT !.call = c].call = c /\ [old EXCEPT !.call = c].slot = old.slot
      BY <2>1 DEF QueueEntries
    <3> QED BY <3>1, <3>2
  <2>3. Sits(0, x, old, queueLists, multiple, single)
    BY <1>9, <2>1 DEF Sits
  <2>4. Fits(old, sunk \cup held, born, posted) /\ Address[old.slot] = x
    BY <2>3, <1>2 DEF QueueInv, WellPlaced
  <2>5. w.slot = z \/ w.slot \notin sunk \cup held
    BY <2>2, <2>4, <1>1, <1>x DEF QueueInv, Apart
  <2>6. single' = [y \in DOMAIN single \cup {x} |-> IF y = x THEN w ELSE single[y]]
    <3>1. single' = [single EXCEPT ![x] = w]
      BY <1>9, <2>1, <2>2
    <3> QED BY <3>1, <1>9, <1>2 DEF QueueTyped
  <2>7. w.slot \in born
    BY <2>2, <2>4 DEF Fits
  <2>8. /\ QueueTyped' /\ Fits(w, sunk \cup held, born, posted')
        /\ \A l, j \in Nat : \A f \in QueueEntries :
             Sits(l, j, f, queueLists, multiple', single') <=>
               \/ Sits(l, j, f, queueLists, multiple, single) /\ ~ (l = 0 /\ j = x)
               \/ l = 0 /\ j = x /\ f = w
    BY <1>8, <1>9, <2>2, <2>4, <2>5, <2>6, <2>7
  <2>9. EntryWritten(c, 0, x, w)
    BY <1>9, <1>x, <1>z, <2>2, <2>4, <2>8 DEF EntryWritten
  <2> QED BY <1>1, <1>2, <1>4, <2>8, <2>9
<1>10. CASE c \in Single /\ x \notin DOMAIN single /\ multiple' = multiple
            /\ single' = [y \in DOMAIN single \cup {x} |-> IF y = x THEN v ELSE single[y]]
  <2>1. /\ QueueTyped' /\ Fits(v, sunk \cup held, born, posted')
        /\ \A l, j \in Nat : \A f \in QueueEntries :
             Sits(l, j, f, queueLists, multiple', single') <=>
               \/ Sits(l, j, f, queueLists, multiple, single) /\ ~ (l = 0 /\ j = x)
               \/ l = 0 /\ j = x /\ f = v
    BY <1>2, <1>3, <1>8, <1>10, <1>x
  <2>2. EntryWritten(c, 0, x, v)
    BY <1>3, <1>10, <1>x, <1>z, <2>1 DEF EntryWritten
  <2> QED BY <1>1, <1>2, <1>3, <1>4, <2>1, <2>2
<1> QED BY <1>6, <1>7, <1>9, <1>10

LEMMA EnqueueKeeps ==
  ASSUME QueueInv, NEW c \in Calls, Q!Enqueue(c)
  PROVE  QueueInv'
<1>1. /\ QueueTyped' /\ ~ Posts(posted, c) /\ posted' = Append(posted, c)
      /\ UNCHANGED <<queueLists, pumps, born, sunk, held, eventsGone, throws, count, torn>>
  BY EnqueueMoves
<1>w. PICK k \in Nat, i \in Nat, w \in QueueEntries : EntryWritten(c, k, i, w)
  BY EnqueueMoves
<1>2. /\ w.call = c /\ Fits(w, sunk \cup held, born, posted')
      /\ \/ k = 0 /\ c \in Single /\ Address[w.slot] = i
         \/ /\ k = MaxDepth + 1 /\ c \notin Single
            /\ \A l, j \in Nat : \A f \in QueueEntries :
                 Sits(l, j, f, queueLists, multiple, single) => l < k \/ (l = k /\ j < i)
      /\ \A l, j \in Nat : \A f \in QueueEntries :
           Sits(l, j, f, queueLists, multiple', single') <=>
             \/ Sits(l, j, f, queueLists, multiple, single) /\ ~ (l = k /\ j = i)
             \/ l = k /\ j = i /\ f = w
  BY <1>w DEF EntryWritten
<1>3. /\ \A d : Posts(posted', d) <=> Posts(posted, d) \/ d = c
      /\ \A d, e : Earlier(posted', d, e) => d # c /\ (e = c \/ Earlier(posted, d, e))
  BY <1>1, PostedGrows DEF QueueInv, QueueTyped
<1>4. WellPlaced(queueLists, multiple', single', sunk \cup held, born, posted')
  <2>1. \A e \in QueueEntries :
          Fits(e, sunk \cup held, born, posted) => Fits(e, sunk \cup held, born, posted')
    BY <1>3 DEF Fits
  <2>2. k = 0 => Address[w.slot] = i /\ w.call \in Single
    BY <1>2, QueueConstants
  <2>3. WellPlaced(queueLists, multiple, single, sunk \cup held, born, posted)
    BY DEF QueueInv
  <2> SUFFICES ASSUME NEW l \in Nat, NEW j \in Nat, NEW f \in QueueEntries,
                      Sits(l, j, f, queueLists, multiple', single')
               PROVE  /\ Fits(f, sunk \cup held, born, posted')
                      /\ l = 0 => Address[f.slot] = j /\ f.call \in Single
    BY DEF WellPlaced
  <2>4. CASE Sits(l, j, f, queueLists, multiple, single)
    BY <2>1, <2>3, <2>4 DEF WellPlaced
  <2>5. CASE l = k /\ j = i /\ f = w
    BY <1>2, <2>2, <2>5
  <2> QED BY <1>2, <2>4, <2>5
<1>5. \A l, j \in Nat : \A f \in QueueEntries :
        Sits(l, j, f, queueLists, multiple, single) => f.call # c
  BY <1>1 DEF QueueInv, WellPlaced, Fits
<1>6. AtOnePlace(queueLists, multiple', single', torn)
  <2>1. AtOnePlace(queueLists, multiple, single, torn)
    BY DEF QueueInv
  <2> SUFFICES ASSUME NEW l \in Nat, NEW j \in Nat, NEW m \in Nat, NEW n \in Nat,
                      NEW e \in QueueEntries, NEW f \in QueueEntries,
                      Sits(l, j, e, queueLists, multiple', single'),
                      Sits(m, n, f, queueLists, multiple', single'),
                      e.call = f.call, e.call \notin torn
               PROVE  l = m /\ j = n
    BY DEF AtOnePlace
  <2> QED BY <1>2, <1>5, <2>1 DEF AtOnePlace
<1>7. NotYet(queueLists, multiple', single', pumps, torn, count)
  <2>1. count[c] = 0
    <3>1. ~ (count[c] > 0) /\ count[c] \in Nat
      BY <1>1 DEF QueueInv, QueueTyped
    <3> QED BY <3>1
  <2> QED BY <2>1, <1>2 DEF QueueInv, NotYet
<1>8. InTurn(queueLists, multiple', single', torn, posted')
  <2>1. InTurn(queueLists, multiple, single, torn, posted)
    BY DEF QueueInv
  <2> SUFFICES ASSUME NEW l \in Nat, NEW j \in Nat, NEW m \in Nat, NEW n \in Nat,
                      NEW e \in QueueEntries, NEW f \in QueueEntries,
                      Sits(l, j, e, queueLists, multiple', single'),
                      Sits(m, n, f, queueLists, multiple', single'),
                      e.call \notin Single, f.call \notin Single, e.call \notin torn,
                      Earlier(posted', e.call, f.call)
               PROVE  l < m \/ (l = m /\ j < n)
    BY DEF InTurn
  <2>2. e.call # c /\ (f.call = c \/ Earlier(posted, e.call, f.call))
    BY <1>3
  <2>3. Sits(l, j, e, queueLists, multiple, single)
    BY <1>2, <2>2
  <2>4. CASE Sits(m, n, f, queueLists, multiple, single)
    BY <2>1, <2>2, <2>3, <2>4, <1>5 DEF InTurn
  <2>5. CASE m = k /\ n = i /\ f = w
    BY <1>2, <2>3, <2>5
  <2> QED BY <1>2, <2>4, <2>5
<1>9. \A d \in Calls : count[d] > 0 => Posts(posted', d)
  BY <1>3 DEF QueueInv
<1> QED BY <1>1, <1>4, <1>6, <1>7, <1>8, <1>9 DEF QueueInv

\* A sequence of the elements of a set has each of them once.
LEMMA SeqOfSet ==
  ASSUME NEW S, IsFiniteSet(S), NEW q \in Q!SetToSeqs(S)
  PROVE  /\ q \in Seq(S)
         /\ \A i, j \in 1 .. Len(q) : q[i] = q[j] => i = j
         /\ \A v \in S : \E i \in 1 .. Len(q) : q[i] = v
<1>1. Cardinality(S) \in Nat
  BY FS_CardinalityType
<1>2. Q!Cardinality(S) = Cardinality(S)
  BY DEF Q!Cardinality, Cardinality
<1>3. /\ q \in [1 .. Cardinality(S) -> S]
      /\ \A i, j \in 1 .. Cardinality(S) : i # j => q[i] # q[j]
  BY <1>2 DEF Q!SetToSeqs
<1>4. q \in Injection(1 .. Cardinality(S), S)
  BY <1>3 DEF Injection, IsInjective
<1>5. Cardinality(1 .. Cardinality(S)) = Cardinality(S)
  BY <1>1, FS_Interval
<1>6. q \in Surjection(1 .. Cardinality(S), S)
  BY <1>4, <1>5, FS_Injection
<1>7. q \in Seq(S) /\ Len(q) = Cardinality(S)
  BY <1>1, <1>3, IsASeq, LenProperties
<1> QED BY <1>3, <1>6, <1>7 DEF Surjection

\* ... here the single calls.
LEMMA SinglesInOrder ==
  ASSUME QueueTyped, NEW q \in Q!SetToSeqs({single[y] : y \in DOMAIN single})
  PROVE  /\ q \in Seq(QueueEntries)
         /\ \A i, j \in 1 .. Len(q) : q[i] = q[j] => i = j
         /\ \A i \in 1 .. Len(q) : \E y \in DOMAIN single : q[i] = single[y]
         /\ \A y \in DOMAIN single : \E i \in 1 .. Len(q) : q[i] = single[y]
<1>s. PICK S : S = {single[y] : y \in DOMAIN single}
  OBVIOUS
<1>1. IsFiniteSet(DOMAIN single)
  BY DEF QueueTyped
<1>2. single \in Surjection(DOMAIN single, S)
  BY <1>s DEF QueueTyped, Surjection
<1>3. IsFiniteSet(S)
  BY <1>1, <1>2, FS_Surjection
<1>4. /\ q \in Seq(S)
      /\ \A i, j \in 1 .. Len(q) : q[i] = q[j] => i = j
      /\ \A v \in S : \E i \in 1 .. Len(q) : q[i] = v
  <2>1. q \in Q!SetToSeqs(S)
    BY <1>s
  <2> QED BY <1>3, <2>1, SeqOfSet
<1>5. S \subseteq QueueEntries
  BY <1>s DEF QueueTyped
<1>6. q \in Seq(QueueEntries)
  BY <1>4, <1>5, SeqMonotonic
<1>7. \A i \in 1 .. Len(q) : q[i] \in S
  BY <1>4, ElementOfSeq
<1> QED BY <1>4, <1>6, <1>7, <1>s

\* An entry is taken from the place (l, j) to the place (k, i), when a pump
\* at depth d begins.
TakenFrom(l, j, k, i, d) ==
  \/ k = d /\ l = MaxDepth + 1 /\ j = i
  \/ k = d /\ l = 0 /\ j \in Nat
  \/ k \in 1 .. MaxDepth /\ k # d /\ l = k /\ j = i

\* A pump of depth d begins: what it finds, and where it comes from, but for
\* what an exception left in the list of that depth; and that nothing is
\* lost.
Taking(d) ==
  /\ \A k, i \in Nat : \A e \in QueueEntries :
       Sits(k, i, e, queueLists', multiple', single') =>
         \/ e.call \in torn /\ k = MaxDepth + 1 /\ Sits(d, i, e, queueLists, multiple, single)
         \/ \E l, j \in Nat :
              TakenFrom(l, j, k, i, d) /\ Sits(l, j, e, queueLists, multiple, single)
  /\ \A i, j \in Nat : \A e, f \in QueueEntries :
       /\ Sits(d, i, e, queueLists', multiple', single')
       /\ Sits(d, j, f, queueLists', multiple', single')
       /\ e.call = f.call /\ e.call \notin torn
       => i = j
  /\ \A k, i \in Nat : \A e \in QueueEntries :
       Sits(k, i, e, queueLists, multiple, single) =>
         \E l, j \in Nat :
           /\ Sits(l, j, e, queueLists', multiple', single')
           /\ l = k \/ l \in {d, MaxDepth + 1}
           /\ l = k => j = i

LEMMA PumpMoves ==
  ASSUME QueueInv, Q!Pump, NEW d, d = Len(pumps) + 1
  PROVE  /\ d \in 1 .. MaxDepth /\ Taking(d) /\ QueueTyped'
         /\ pumps' = Append(pumps, [at |-> 1, phase |-> "next"])
         /\ Len(pumps') = d /\ pumps'[d] = [at |-> 1, phase |-> "next"]
         /\ \A k \in 1 .. Len(pumps) : pumps'[k] = pumps[k]
         /\ \A k \in 1 .. MaxDepth : k # d => queueLists'[k] = queueLists[k]
         /\ UNCHANGED <<born, sunk, held, eventsGone, throws, posted, count, torn>>
<1>1. /\ Len(pumps) \in Nat /\ d \in 1 .. MaxDepth /\ QueueTyped
      /\ pumps \in Seq(PumpCursors) /\ Len(multiple) \in Nat
  <2>1. Len(pumps) \in 0 .. MaxDepth /\ Len(multiple) \in Nat
    BY PumpsTyped DEF QueueInv
  <2>2. Len(pumps) < MaxDepth
    BY DEF Q!Pump, Q!Depth
  <2>3. Len(pumps) + 1 \in 1 .. MaxDepth
    BY <2>1, <2>2, QueueConstants
  <2> QED BY <2>1, <2>3 DEF QueueInv, QueueTyped
<1>2. PICK q \in Q!SetToSeqs({single[y] : y \in DOMAIN single}) :
        queueLists' = [queueLists EXCEPT ![d] = multiple \o q]
  BY DEF Q!Pump, Q!ListAt, Q!Depth
<1>3. /\ multiple' = queueLists[d] /\ single' = <<>>
      /\ pumps' = Append(pumps, [at |-> 1, phase |-> "next"])
      /\ UNCHANGED <<born, sunk, held, eventsGone, throws, posted, count, torn>>
  BY DEF Q!Pump, Q!ListAt, Q!Depth, Q!Swapped, Q!Taken, Q!life
<1>4. /\ q \in Seq(QueueEntries) /\ Len(q) \in Nat
      /\ \A i, j \in 1 .. Len(q) : q[i] = q[j] => i = j
      /\ \A i \in 1 .. Len(q) : \E y \in DOMAIN single : q[i] = single[y]
      /\ \A y \in DOMAIN single : \E i \in 1 .. Len(q) : q[i] = single[y]
  BY <1>1, SinglesInOrder, LenProperties
<1>m. PICK n \in Nat : n = Len(multiple)
  BY <1>1
<1>5. PICK w \in Seq(QueueEntries) :
        /\ queueLists' = [queueLists EXCEPT ![d] = w] /\ Len(w) = n + Len(q)
        /\ \A i \in 1 .. n : w[i] = multiple[i]
        /\ \A i \in 1 .. Len(q) : w[n + i] = q[i]
  <2>1. multiple \in Seq(QueueEntries)
    BY <1>1 DEF QueueTyped
  <2>2. /\ multiple \o q \in Seq(QueueEntries)
        /\ Len(multiple \o q) = n + Len(q)
        /\ \A i \in 1 .. n + Len(q) :
             (multiple \o q)[i] = IF i <= n THEN multiple[i] ELSE q[i - n]
    BY <2>1, <1>4, <1>m, ConcatProperties
  <2>3. \A i \in 1 .. n : i \in 1 .. n + Len(q) /\ i <= n
    BY <1>4
  <2>4. \A i \in 1 .. Len(q) : n + i \in 1 .. n + Len(q) /\ ~ (n + i <= n) /\ (n + i) - n = i
    BY <1>4
  <2>5. \A i \in 1 .. Len(q) : (multiple \o q)[n + i] = q[i]
    BY <2>2, <2>4
  <2> QED BY <2>2, <2>3, <2>5, <1>2
<1>6. /\ queueLists' \in [1 .. MaxDepth -> Seq(QueueEntries)] /\ queueLists'[d] = w
      /\ \A k \in 1 .. MaxDepth : k # d => queueLists'[k] = queueLists[k]
  BY <1>1, <1>5 DEF QueueTyped
<1>7. /\ pumps' \in Seq(PumpCursors) /\ Len(pumps') = d
      /\ pumps'[d] = [at |-> 1, phase |-> "next"]
      /\ \A k \in 1 .. Len(pumps) : pumps'[k] = pumps[k]
  <2>1. [at |-> 1, phase |-> "next"] \in PumpCursors
    BY DEF PumpCursors
  <2> QED BY <2>1, <1>1, <1>3, AppendProperties
<1>8. \A k \in 1 .. d : InLoop(pumps'[k], queueLists'[k])
  <2> SUFFICES ASSUME NEW k \in 1 .. d PROVE InLoop(pumps'[k], queueLists'[k])
    OBVIOUS
  <2>1. CASE k = d
    <3>1. Len(queueLists'[d]) = n + Len(q) /\ pumps'[d].at = 1 /\ pumps'[d].phase = "next"
      BY <1>5, <1>6, <1>7
    <3> QED BY <2>1, <3>1, <1>4 DEF InLoop
  <2>2. CASE k # d
    <3>1. k \in 1 .. Len(pumps) /\ k \in 1 .. MaxDepth
      <4>1. Len(pumps) \in Nat /\ d \in 1 .. MaxDepth /\ d = Len(pumps) + 1
        BY <1>1
      <4> QED BY <2>2, <4>1, QueueConstants
    <3> QED BY <2>2, <3>1, <1>1, <1>6, <1>7 DEF QueueTyped
  <2> QED BY <2>1, <2>2
<1>9. QueueTyped'
  <2>1. multiple' \in Seq(QueueEntries)
    BY <1>1, <1>3 DEF QueueTyped
  <2>2. /\ single' \in [DOMAIN single' -> QueueEntries] /\ DOMAIN single' \subseteq Nat
        /\ DOMAIN single' \subseteq Q!Addresses /\ IsFiniteSet(DOMAIN single')
    <3>1. DOMAIN single' = {}
      BY <1>3, EmptySeq
    <3> QED BY <3>1, <1>3, FS_EmptySet
  <2>3. Len(pumps') <= MaxDepth
    BY <1>1, <1>7
  <2> QED BY <2>1, <2>2, <2>3, <1>1, <1>3, <1>6, <1>7, <1>8 DEF QueueTyped, Q!Addresses
<1>s. \A i : ~ (i \in DOMAIN single')
  BY <1>3, EmptySeq
<1>d. d # 0 /\ d # MaxDepth + 1 /\ MaxDepth + 1 \notin 1 .. MaxDepth /\ 0 \notin 1 .. MaxDepth
      /\ MaxDepth + 1 # 0 /\ MaxDepth + 1 \in Nat
  BY <1>1, QueueConstants
\* What is in the list of depth d now.
<1>10. ASSUME NEW i \in Nat, NEW e \in QueueEntries,
              Sits(d, i, e, queueLists', multiple', single')
       PROVE  \/ i \in 1 .. n /\ Sits(MaxDepth + 1, i, e, queueLists, multiple, single)
              \/ \E j \in 1 .. Len(q), y \in Nat :
                   /\ i = n + j /\ e = q[j]
                   /\ Sits(0, y, e, queueLists, multiple, single)
  <2>1. i \in 1 .. n + Len(q) /\ e = w[i]
    BY <1>10, <1>d, <1>6, <1>5 DEF Sits
  <2>2. CASE i \in 1 .. n
    <3>1. e = multiple[i]
      BY <2>1, <2>2, <1>5
    <3> QED BY <2>2, <3>1, <1>m DEF Sits
  <2>3. CASE i \notin 1 .. n
    <3>1. PICK j \in 1 .. Len(q) : i = n + j
      <4>1. i - n \in 1 .. Len(q) /\ i = n + (i - n)
        BY <2>1, <2>3, <1>4
      <4> QED BY <4>1
    <3>2. e = q[j]
      BY <2>1, <3>1, <1>5
    <3>3. PICK y \in DOMAIN single : q[j] = single[y]
      BY <1>4
    <3>4. y \in Nat
      BY <1>1 DEF QueueTyped
    <3> QED BY <3>1, <3>2, <3>3, <3>4 DEF Sits
  <2> QED BY <2>2, <2>3
<1>11. ASSUME NEW k \in Nat, NEW i \in Nat, NEW e \in QueueEntries,
              Sits(k, i, e, queueLists', multiple', single')
       PROVE  \/ /\ e.call \in torn /\ k = MaxDepth + 1
                 /\ Sits(d, i, e, queueLists, multiple, single)
              \/ \E l, j \in Nat :
                   TakenFrom(l, j, k, i, d) /\ Sits(l, j, e, queueLists, multiple, single)
  <2>1. CASE k = d
    BY <2>1, <1>10, <1>11, <1>d DEF TakenFrom
  <2>2. CASE k = MaxDepth + 1
    <3>1. i \in 1 .. Len(queueLists[d]) /\ e = queueLists[d][i]
      BY <2>2, <1>11, <1>3, <1>d DEF Sits
    <3>2. e.call \in torn
      <4>1. d > Len(pumps)
        BY <1>1
      <4> QED BY <4>1, <3>1, <1>1 DEF QueueInv, LeftBehind
    <3> QED BY <2>2, <3>1, <3>2, <1>1 DEF Sits
  <2>3. CASE k # d /\ k # MaxDepth + 1
    <3>1. k \in 1 .. MaxDepth /\ i \in 1 .. Len(queueLists[k]) /\ e = queueLists[k][i]
      BY <2>3, <1>11, <1>6, <1>s DEF Sits
    <3> QED BY <2>3, <3>1 DEF Sits, TakenFrom
  <2> QED BY <2>1, <2>2, <2>3
<1>12. ASSUME NEW i \in Nat, NEW j \in Nat, NEW e \in QueueEntries, NEW f \in QueueEntries,
              Sits(d, i, e, queueLists', multiple', single'),
              Sits(d, j, f, queueLists', multiple', single'),
              e.call = f.call, e.call \notin torn
       PROVE  i = j
  <2>1. \A l, x, m, y \in Nat :
          /\ Sits(l, x, e, queueLists, multiple, single)
          /\ Sits(m, y, f, queueLists, multiple, single)
          => l = m /\ x = y
    BY <1>12 DEF QueueInv, AtOnePlace
  <2>2. CASE Sits(MaxDepth + 1, i, e, queueLists, multiple, single)
    <3>1. \A y \in Nat : ~ Sits(0, y, f, queueLists, multiple, single)
      BY <2>1, <2>2, <1>d
    <3>2. Sits(MaxDepth + 1, j, f, queueLists, multiple, single)
      BY <3>1, <1>10, <1>12
    <3> QED BY <2>1, <2>2, <3>2, <1>d
  <2>3. CASE ~ Sits(MaxDepth + 1, i, e, queueLists, multiple, single)
    <3>1. PICK x \in 1 .. Len(q), y \in Nat :
            i = n + x /\ e = q[x] /\ Sits(0, y, e, queueLists, multiple, single)
      BY <2>3, <1>10, <1>12
    <3>2. ~ Sits(MaxDepth + 1, j, f, queueLists, multiple, single)
      BY <2>1, <3>1, <1>d
    <3>3. PICK u \in 1 .. Len(q), v \in Nat :
            j = n + u /\ f = q[u] /\ Sits(0, v, f, queueLists, multiple, single)
      BY <3>2, <1>10, <1>12
    <3>4. y = v
      BY <2>1, <3>1, <3>3
    <3>5. e = f
      BY <3>1, <3>3, <3>4, <1>d DEF Sits
    <3>6. x = u
      BY <3>1, <3>3, <3>5, <1>4
    <3> QED BY <3>1, <3>3, <3>6
  <2> QED BY <2>2, <2>3
<1>13. ASSUME NEW k \in Nat, NEW i \in Nat, NEW e \in QueueEntries,
              Sits(k, i, e, queueLists, multiple, single)
       PROVE  \E l, j \in Nat :
                /\ Sits(l, j, e, queueLists', multiple', single')
                /\ l = k \/ l \in {d, MaxDepth + 1}
                /\ l = k => j = i
  <2>1. CASE k = 0
    <3>1. i \in DOMAIN single /\ e = single[i]
      BY <2>1, <1>13, <1>d DEF Sits
    <3>2. PICK j \in 1 .. Len(q) : q[j] = e
      BY <3>1, <1>4
    <3>3. n + j \in 1 .. n + Len(q) /\ n + j \in Nat
      BY <1>4
    <3>4. Sits(d, n + j, e, queueLists', multiple', single')
      BY <3>2, <3>3, <1>1, <1>5, <1>6 DEF Sits
    <3> QED BY <2>1, <3>3, <3>4, <1>1, <1>d
  <2>2. CASE k = MaxDepth + 1
    <3>1. i \in 1 .. n /\ e = multiple[i]
      BY <2>2, <1>13, <1>d, <1>m DEF Sits
    <3>2. i \in 1 .. n + Len(q) /\ e = w[i]
      BY <3>1, <1>4, <1>5
    <3>3. Sits(d, i, e, queueLists', multiple', single')
      BY <3>2, <1>1, <1>5, <1>6 DEF Sits
    <3> QED BY <2>2, <3>3, <1>1, <1>d
  <2>3. CASE k = d
    <3>1. i \in 1 .. Len(queueLists[d]) /\ e = queueLists[d][i]
      BY <2>3, <1>13, <1>d DEF Sits
    <3>2. Sits(MaxDepth + 1, i, e, queueLists', multiple', single')
      BY <3>1, <1>3 DEF Sits
    <3> QED BY <2>3, <3>2, <1>d
  <2>4. CASE k # 0 /\ k # MaxDepth + 1 /\ k # d
    <3>1. Sits(k, i, e, queueLists', multiple', single')
      BY <2>4, <1>13, <1>6 DEF Sits
    <3> QED BY <3>1
  <2> QED BY <2>1, <2>2, <2>3, <2>4
<1>14. Taking(d)
  <2>1. \A i, j \in Nat : \A e, f \in QueueEntries :
          /\ Sits(d, i, e, queueLists', multiple', single')
          /\ Sits(d, j, f, queueLists', multiple', single')
          /\ e.call = f.call /\ e.call \notin torn
          => i = j
    BY <1>12
  <2>2. \A k, i \in Nat : \A e \in QueueEntries :
          Sits(k, i, e, queueLists', multiple', single') =>
            \/ e.call \in torn /\ k = MaxDepth + 1 /\ Sits(d, i, e, queueLists, multiple, single)
            \/ \E l, j \in Nat :
                 TakenFrom(l, j, k, i, d) /\ Sits(l, j, e, queueLists, multiple, single)
    BY <1>11
  <2>3. \A k, i \in Nat : \A e \in QueueEntries :
          Sits(k, i, e, queueLists, multiple, single) =>
            \E l, j \in Nat :
              /\ Sits(l, j, e, queueLists', multiple', single')
              /\ l = k \/ l \in {d, MaxDepth + 1}
              /\ l = k => j = i
    BY <1>13
  <2> QED BY <2>1, <2>2, <2>3 DEF Taking
<1> QED BY <1>1, <1>3, <1>6, <1>7, <1>9, <1>14

LEMMA PumpKeeps ==
  ASSUME QueueInv, Q!Pump
  PROVE  QueueInv'
<1>d. PICK d : d = Len(pumps) + 1
  OBVIOUS
<1>1. /\ d \in 1 .. MaxDepth /\ QueueTyped'
      /\ Len(pumps') = d /\ pumps'[d] = [at |-> 1, phase |-> "next"]
      /\ \A k \in 1 .. Len(pumps) : pumps'[k] = pumps[k]
      /\ \A k \in 1 .. MaxDepth : k # d => queueLists'[k] = queueLists[k]
      /\ UNCHANGED <<born, sunk, held, eventsGone, throws, posted, count, torn>>
  BY <1>d, PumpMoves
<1>2. Taking(d)
  BY <1>d, PumpMoves
<1>3. \A k, i \in Nat : \A e \in QueueEntries :
        Sits(k, i, e, queueLists', multiple', single') =>
          \/ e.call \in torn /\ k = MaxDepth + 1 /\ Sits(d, i, e, queueLists, multiple, single)
          \/ \E l, j \in Nat :
               TakenFrom(l, j, k, i, d) /\ Sits(l, j, e, queueLists, multiple, single)
  BY <1>2 DEF Taking
<1>4. \A i, j \in Nat : \A e, f \in QueueEntries :
        /\ Sits(d, i, e, queueLists', multiple', single')
        /\ Sits(d, j, f, queueLists', multiple', single')
        /\ e.call = f.call /\ e.call \notin torn
        => i = j
  BY <1>2 DEF Taking
<1>5. /\ Len(pumps) \in Nat /\ d \in Nat /\ MaxDepth \in Nat /\ d = Len(pumps) + 1
      /\ \A k \in Nat : k \in 1 .. d <=> k \in 1 .. Len(pumps) \/ k = d
  <2>1. Len(pumps) \in 0 .. MaxDepth
    BY PumpsTyped DEF QueueInv
  <2> QED BY <2>1, <1>1, <1>d, QueueConstants
<1>6. d # 0 /\ d # MaxDepth + 1 /\ MaxDepth + 1 \notin 1 .. MaxDepth /\ 0 \notin 1 .. MaxDepth
      /\ MaxDepth + 1 # 0 /\ MaxDepth + 1 \in Nat
  BY <1>1, <1>5
<1>7. WellPlaced(queueLists', multiple', single', sunk \cup held, born, posted)
  <2> SUFFICES ASSUME NEW k \in Nat, NEW i \in Nat, NEW e \in QueueEntries,
                      Sits(k, i, e, queueLists', multiple', single')
               PROVE  Fits(e, sunk \cup held, born, posted) /\ k # 0
    BY DEF WellPlaced
  <2>1. k # 0
    BY <1>3, <1>6 DEF TakenFrom
  <2>2. \E l, j \in Nat : Sits(l, j, e, queueLists, multiple, single)
    BY <1>3, <1>5
  <2> QED BY <2>1, <2>2 DEF QueueInv, WellPlaced
<1>8. PumpsNest(pumps')
  <2> SUFFICES ASSUME NEW k \in 1 .. d, k < d PROVE pumps'[k].phase = "in"
    BY <1>1 DEF PumpsNest
  <2>1. k \in 1 .. Len(pumps) /\ pumps'[k] = pumps[k]
    BY <1>1, <1>5
  <2>2. CASE k < Len(pumps)
    BY <2>1, <2>2 DEF QueueInv, PumpsNest
  <2>3. CASE ~ (k < Len(pumps))
    <3>1. k = Len(pumps) /\ Len(pumps) # 0
      BY <2>1, <2>3, <1>5
    <3>2. pumps # <<>>
      BY <3>1, PumpsTyped DEF QueueInv
    <3>3. Q!Top.phase = "in" /\ Q!Top = pumps[Len(pumps)]
      BY <3>2, TopPump DEF QueueInv, Q!Pump, Q!InUserCode
    <3> QED BY <2>1, <3>1, <3>3
  <2> QED BY <2>2, <2>3
<1>9. TestedAlive(queueLists', pumps', sunk \cup held)
  <2> SUFFICES ASSUME NEW k \in 1 .. d, pumps'[k].phase = "call"
               PROVE  queueLists'[k][pumps'[k].at].slot \in sunk \cup held
    BY <1>1 DEF TestedAlive
  <2>1. k # d
    BY <1>1
  <2>2. k \in 1 .. Len(pumps) /\ k \in 1 .. MaxDepth
    BY <2>1, <1>1, <1>5
  <2>3. pumps'[k] = pumps[k] /\ queueLists'[k] = queueLists[k]
    BY <2>1, <2>2, <1>1
  <2> QED BY <2>2, <2>3 DEF QueueInv, TestedAlive
<1>10. LeftBehind(queueLists', pumps', torn)
  <2> SUFFICES ASSUME NEW k \in 1 .. MaxDepth, k > d, NEW i \in 1 .. Len(queueLists'[k])
               PROVE  queueLists'[k][i].call \in torn
    BY <1>1 DEF LeftBehind
  <2>1. k # d /\ k > Len(pumps)
    BY <1>5
  <2>2. queueLists'[k] = queueLists[k]
    BY <2>1, <1>1
  <2> QED BY <2>1, <2>2 DEF QueueInv, LeftBehind
<1>11. AtOnePlace(queueLists', multiple', single', torn)
  <2> SUFFICES ASSUME NEW k \in Nat, NEW i \in Nat, NEW l \in Nat, NEW j \in Nat,
                      NEW e \in QueueEntries, NEW f \in QueueEntries,
                      Sits(k, i, e, queueLists', multiple', single'),
                      Sits(l, j, f, queueLists', multiple', single'),
                      e.call = f.call, e.call \notin torn
               PROVE  k = l /\ i = j
    BY DEF AtOnePlace
  <2>1. PICK m \in Nat, x \in Nat :
          TakenFrom(m, x, k, i, d) /\ Sits(m, x, e, queueLists, multiple, single)
    BY <1>3
  <2>2. PICK n \in Nat, y \in Nat :
          TakenFrom(n, y, l, j, d) /\ Sits(n, y, f, queueLists, multiple, single)
    BY <1>3
  <2>3. m = n /\ x = y
    BY <2>1, <2>2 DEF QueueInv, AtOnePlace
  <2>4. k = d /\ l = d => i = j
    BY <1>4
  <2> QED BY <2>1, <2>2, <2>3, <2>4, <1>6 DEF TakenFrom
<1>12. NotYet(queueLists', multiple', single', pumps', torn, count)
  <2> SUFFICES ASSUME NEW k \in Nat, NEW i \in Nat, NEW e \in QueueEntries,
                      Sits(k, i, e, queueLists', multiple', single'), Pends(k, i, pumps'),
                      e.call \notin torn
               PROVE  count[e.call] = 0
    BY DEF NotYet
  <2>1. PICK l \in Nat, j \in Nat :
          TakenFrom(l, j, k, i, d) /\ Sits(l, j, e, queueLists, multiple, single)
    BY <1>3
  <2>2. Pends(l, j, pumps)
    <3>1. CASE l = k /\ j = i /\ k # d
      <4>1. k \in 1 .. Len(pumps) => k \in 1 .. d /\ pumps'[k] = pumps[k]
        BY <1>1, <1>5
      <4> QED BY <3>1, <4>1, <1>1 DEF Pends
    <3>2. CASE l = 0 \/ l = MaxDepth + 1
      <4>1. l \notin 1 .. Len(pumps)
        BY <3>2, <1>1, <1>5
      <4> QED BY <4>1 DEF Pends
    <3> QED BY <2>1, <3>1, <3>2 DEF TakenFrom
  <2> QED BY <2>1, <2>2 DEF QueueInv, NotYet
<1>13. InTurn(queueLists', multiple', single', torn, posted)
  <2> SUFFICES ASSUME NEW k \in Nat, NEW i \in Nat, NEW l \in Nat, NEW j \in Nat,
                      NEW e \in QueueEntries, NEW f \in QueueEntries,
                      Sits(k, i, e, queueLists', multiple', single'),
                      Sits(l, j, f, queueLists', multiple', single'),
                      e.call \notin Single, f.call \notin Single, e.call \notin torn,
                      Earlier(posted, e.call, f.call)
               PROVE  k < l \/ (k = l /\ i < j)
    BY DEF InTurn
  <2>1. PICK m \in Nat, x \in Nat :
          TakenFrom(m, x, k, i, d) /\ Sits(m, x, e, queueLists, multiple, single)
    BY <1>3
  <2>2. m # 0
    BY <2>1 DEF QueueInv, WellPlaced
  <2>3. k \in 1 .. d
    <3>1. CASE k = d
      BY <3>1, <1>1, <1>5
    <3>2. CASE k # d
      <4>1. k \in 1 .. MaxDepth /\ m = k /\ x = i
        BY <2>1, <3>2 DEF TakenFrom
      <4>2. x \in 1 .. Len(queueLists[k]) /\ e = queueLists[k][x]
        BY <2>1, <4>1, <1>6 DEF Sits
      <4>3. ~ (k > Len(pumps))
        BY <4>1, <4>2 DEF QueueInv, LeftBehind
      <4> QED BY <4>1, <4>3, <1>5
    <3> QED BY <3>1, <3>2
  <2>4. CASE l = MaxDepth + 1
    <3>1. k < MaxDepth + 1
      BY <2>3, <1>1, <1>5
    <3> QED BY <2>4, <3>1
  <2>5. CASE l # MaxDepth + 1
    <3>1. PICK n \in Nat, y \in Nat :
            TakenFrom(n, y, l, j, d) /\ Sits(n, y, f, queueLists, multiple, single)
      BY <2>5, <1>3
    <3>2. n # 0
      BY <3>1 DEF QueueInv, WellPlaced
    <3>3. m < n \/ (m = n /\ x < y)
      BY <2>1, <3>1 DEF QueueInv, InTurn
    <3>4. \/ k = d /\ m = MaxDepth + 1 /\ x = i
          \/ k # d /\ m = k /\ x = i
      BY <2>1, <2>2 DEF TakenFrom
    <3>5. \/ l = d /\ n = MaxDepth + 1 /\ y = j
          \/ l # d /\ n = l /\ y = j /\ l \in 1 .. MaxDepth
      BY <3>1, <3>2 DEF TakenFrom
    <3> QED BY <2>3, <3>3, <3>4, <3>5, <1>1, <1>5
  <2> QED BY <2>4, <2>5
<1> QED BY <1>1, <1>7, <1>8, <1>9, <1>10, <1>11, <1>12, <1>13 DEF QueueInv

LEMMA QueueInit == Q!Init => QueueInv
<1> SUFFICES ASSUME Q!Init PROVE QueueInv
  OBVIOUS
<1>1. /\ multiple = <<>> /\ single = <<>> /\ pumps = <<>> /\ posted = <<>>
      /\ queueLists = [d \in 1 .. MaxDepth |-> <<>>]
      /\ born = {} /\ sunk = {} /\ held = {} /\ eventsGone = {} /\ torn = {} /\ throws = 0
      /\ count = [c \in Calls |-> 0]
  BY DEF Q!Init, Q!Depths
<1>2. /\ <<>> \in Seq(QueueEntries) /\ <<>> \in Seq(PumpCursors) /\ <<>> \in Seq(Calls)
      /\ Len(<<>>) = 0 /\ DOMAIN <<>> = {}
  BY EmptySeq
<1>3. \A k, i, e : ~ Sits(k, i, e, queueLists, multiple, single)
  <2>1. \A k \in 1 .. MaxDepth : Len(queueLists[k]) = 0
    BY <1>1, <1>2
  <2>2. Len(multiple) = 0 /\ DOMAIN single = {}
    BY <1>1, <1>2
  <2> QED BY <2>1, <2>2 DEF Sits
<1>4. QueueTyped
  <2>1. single \in [DOMAIN single -> QueueEntries] /\ DOMAIN single = {}
    BY <1>1, <1>2
  <2>2. Len(pumps) = 0
    BY <1>1, <1>2
  <2> QED BY <2>1, <2>2, <1>1, <1>2, QueueConstants, FS_EmptySet DEF QueueTyped
<1>5. PumpsNest(pumps) /\ TestedAlive(queueLists, pumps, sunk \cup held)
  <2>1. Len(pumps) = 0
    BY <1>1, <1>2
  <2> QED BY <2>1 DEF PumpsNest, TestedAlive
<1>6. LeftBehind(queueLists, pumps, torn)
  <2>1. \A k \in 1 .. MaxDepth : Len(queueLists[k]) = 0
    BY <1>1, <1>2
  <2> QED BY <2>1 DEF LeftBehind
<1>7. Apart(sunk \cup held)
  BY <1>1 DEF Apart
<1>8. /\ WellPlaced(queueLists, multiple, single, sunk \cup held, born, posted)
      /\ AtOnePlace(queueLists, multiple, single, torn)
      /\ NotYet(queueLists, multiple, single, pumps, torn, count)
      /\ InTurn(queueLists, multiple, single, torn, posted)
  BY <1>3 DEF WellPlaced, AtOnePlace, NotYet, InTurn
<1>9. \A c \in Calls : count[c] = 0
  BY <1>1
<1> QED BY <1>1, <1>4, <1>5, <1>6, <1>7, <1>8, <1>9 DEF QueueInv

LEMMA QueueStepKeeps == QueueInv /\ [Q!Next]_Q!vars => QueueInv'
<1> SUFFICES ASSUME QueueInv, [Q!Next]_Q!vars PROVE QueueInv'
  OBVIOUS
<1>1. ASSUME NEW z \in QueueSlots,
             Q!Subscribe(z) \/ Q!Unsubscribe(z) \/ Q!Hold(z) \/ Q!Release(z)
      PROVE  QueueInv'
  BY <1>1, SlotsKeep
<1>2. ASSUME NEW v \in QueueEvents, Q!DestroyEvent(v) PROVE QueueInv'
  BY <1>2, DestroyEventKeeps
<1>3. ASSUME NEW c \in Calls, Q!Enqueue(c) PROVE QueueInv'
  BY <1>3, EnqueueKeeps
<1>4. CASE Q!Pump \/ Q!PumpStep \/ Q!Throw
  BY <1>4, PumpKeeps, SkipKeeps, TestKeeps, CallKeeps, EndKeeps, QueueThrowKeeps DEF Q!PumpStep
<1>5. CASE UNCHANGED Q!vars
  <2>1. UNCHANGED <<multiple, single, queueLists, pumps, born, sunk, held, eventsGone, throws,
                    posted, count, torn>>
    BY <1>5 DEF Q!vars, Q!queue, Q!life
  <2>2. QueueTyped'
    BY <2>1 DEF QueueInv, QueueTyped, Q!Addresses
  <2> QED BY <2>1, <2>2 DEF QueueInv
<1> QED BY <1>1, <1>2, <1>3, <1>4, <1>5 DEF Q!Next

LEMMA QueueInvariant == Q!Spec => []QueueInv
BY QueueInit, QueueStepKeeps, PTL DEF Q!Spec

\* The entries that wait, by their places.
WaitingIn(ls, m, s, p) ==
  {m[i] : i \in DOMAIN m} \cup {s[y] : y \in DOMAIN s} \cup
  UNION {{ls[d][i] : i \in {j \in DOMAIN ls[d] :
            d <= Len(p) => j > p[d].at \/ (j = p[d].at /\ p[d].phase # "in")}} :
         d \in 1 .. MaxDepth}

LEMMA WaitingPlaces ==
  ASSUME NEW ls \in [1 .. MaxDepth -> Seq(QueueEntries)], NEW m \in Seq(QueueEntries),
         NEW s, s \in [DOMAIN s -> QueueEntries], DOMAIN s \subseteq Nat,
         NEW p, Len(p) \in Nat, Len(p) <= MaxDepth, NEW e
  PROVE  e \in WaitingIn(ls, m, s, p) <=>
           /\ e \in QueueEntries
           /\ \E k, i \in Nat : Sits(k, i, e, ls, m, s) /\ Pends(k, i, p)
<1>1. DOMAIN m = 1 .. Len(m) /\ \A d \in 1 .. MaxDepth : DOMAIN ls[d] = 1 .. Len(ls[d])
  BY LenProperties
<1>2. /\ \A d \in 1 .. MaxDepth : d <= Len(p) <=> d \in 1 .. Len(p)
      /\ MaxDepth + 1 \in Nat /\ MaxDepth + 1 \notin 1 .. Len(p) /\ 0 \notin 1 .. Len(p)
      /\ \A d \in 1 .. MaxDepth : d \in Nat
  BY QueueConstants
<1>3. \A y \in DOMAIN s : y \in Nat
  OBVIOUS
<1>4. ASSUME NEW i \in DOMAIN m, e = m[i]
      PROVE  \E k, j \in Nat : Sits(k, j, e, ls, m, s) /\ Pends(k, j, p)
  <2>1. Sits(MaxDepth + 1, i, e, ls, m, s) /\ Pends(MaxDepth + 1, i, p)
    BY <1>1, <1>2, <1>4 DEF Sits, Pends
  <2>2. i \in Nat
    BY <1>1, LenProperties
  <2> QED BY <2>1, <2>2, <1>2
<1>5. ASSUME NEW y \in DOMAIN s, e = s[y]
      PROVE  \E k, j \in Nat : Sits(k, j, e, ls, m, s) /\ Pends(k, j, p)
  <2>1. Sits(0, y, e, ls, m, s) /\ Pends(0, y, p)
    BY <1>2, <1>5 DEF Sits, Pends
  <2> QED BY <2>1, <1>3
<1>6. ASSUME NEW d \in 1 .. MaxDepth, NEW i \in DOMAIN ls[d], e = ls[d][i],
             d <= Len(p) => i > p[d].at \/ (i = p[d].at /\ p[d].phase # "in")
      PROVE  \E k, j \in Nat : Sits(k, j, e, ls, m, s) /\ Pends(k, j, p)
  <2>1. Sits(d, i, e, ls, m, s) /\ Pends(d, i, p)
    BY <1>1, <1>2, <1>6 DEF Sits, Pends
  <2>2. i \in Nat /\ d \in Nat
    BY <1>1, <1>2, LenProperties
  <2> QED BY <2>1, <2>2
<1>7. ASSUME NEW k \in Nat, NEW i \in Nat, Sits(k, i, e, ls, m, s), Pends(k, i, p)
      PROVE  e \in WaitingIn(ls, m, s, p)
  <2>1. CASE k = 0 /\ i \in DOMAIN s /\ e = s[i]
    BY <2>1 DEF WaitingIn
  <2>2. CASE k = MaxDepth + 1 /\ i \in 1 .. Len(m) /\ e = m[i]
    BY <2>2, <1>1 DEF WaitingIn
  <2>3. CASE k \in 1 .. MaxDepth /\ i \in 1 .. Len(ls[k]) /\ e = ls[k][i]
    <3>1. k <= Len(p) => i > p[k].at \/ (i = p[k].at /\ p[k].phase # "in")
      BY <2>3, <1>2, <1>7 DEF Pends
    <3> QED BY <2>3, <3>1, <1>1 DEF WaitingIn
  <2> QED BY <2>1, <2>2, <2>3, <1>7 DEF Sits
<1>8. ASSUME e \in WaitingIn(ls, m, s, p)
      PROVE  \E k, i \in Nat : Sits(k, i, e, ls, m, s) /\ Pends(k, i, p)
  <2>1. \/ \E i \in DOMAIN m : e = m[i]
        \/ \E y \in DOMAIN s : e = s[y]
        \/ \E d \in 1 .. MaxDepth : \E i \in DOMAIN ls[d] :
             /\ d <= Len(p) => i > p[d].at \/ (i = p[d].at /\ p[d].phase # "in")
             /\ e = ls[d][i]
    BY <1>8 DEF WaitingIn
  <2> QED BY <2>1, <1>4, <1>5, <1>6
<1> QED BY <1>7, <1>8, SitsTyped

LEMMA WaitingIs ==
  ASSUME QueueTyped, NEW e
  PROVE  e \in Q!Waiting <=>
           /\ e \in QueueEntries
           /\ \E k, i \in Nat :
                Sits(k, i, e, queueLists, multiple, single) /\ Pends(k, i, pumps)
<1>1. Q!Waiting = WaitingIn(queueLists, multiple, single, pumps)
  BY DEF Q!Waiting, Q!Queued, Q!ToSet, Q!Left, Q!Depths, Q!Depth, WaitingIn
<1>2. Len(pumps) \in Nat
  BY LenProperties DEF QueueTyped
<1> QED BY <1>1, <1>2, WaitingPlaces DEF QueueTyped

LEMMA WaitingIsNext ==
  ASSUME QueueTyped', NEW e
  PROVE  e \in Q!Waiting' <=>
           /\ e \in QueueEntries
           /\ \E k, i \in Nat :
                Sits(k, i, e, queueLists', multiple', single') /\ Pends(k, i, pumps')
<1>1. Q!Waiting' = WaitingIn(queueLists', multiple', single', pumps')
  BY DEF Q!Waiting, Q!Queued, Q!ToSet, Q!Left, Q!Depths, Q!Depth, WaitingIn
<1>2. Len(pumps') \in Nat /\ Len(pumps') <= MaxDepth
  BY LenProperties DEF QueueTyped
<1>3. /\ queueLists' \in [1 .. MaxDepth -> Seq(QueueEntries)] /\ multiple' \in Seq(QueueEntries)
      /\ single' \in [DOMAIN single' -> QueueEntries] /\ DOMAIN single' \subseteq Nat
  BY DEF QueueTyped
<1> QED BY <1>1, <1>2, <1>3, WaitingPlaces

\* Which entries still wait after a step.
Remains(e) ==
  \E k, i \in Nat : Sits(k, i, e, queueLists', multiple', single') /\ Pends(k, i, pumps')

LEMMA RemainsPending ==
  ASSUME QueueTyped', NEW e \in QueueEntries, Remains(e)
  PROVE  e.call \in Q!Pending'
<1>1. e \in Q!Waiting'
  BY WaitingIsNext DEF Remains
<1> QED BY <1>1 DEF Q!Pending

LEMMA PendingNext ==
  ASSUME QueueTyped', NEW c \in Q!Pending'
  PROVE  \E e \in QueueEntries : e.call = c /\ Remains(e)
<1>1. PICK e \in Q!Waiting' : e.call = c
  BY DEF Q!Pending
<1> QED BY <1>1, WaitingIsNext DEF Remains

LEMMA PendingIs ==
  ASSUME QueueTyped, NEW c
  PROVE  c \in Q!Pending <=>
           \E e \in QueueEntries : \E k, i \in Nat :
             /\ e.call = c
             /\ Sits(k, i, e, queueLists, multiple, single) /\ Pends(k, i, pumps)
<1>1. c \in Q!Pending <=> \E e \in Q!Waiting : e.call = c
  BY DEF Q!Pending
<1> QED BY <1>1, WaitingIs

\* The innermost pump passes one entry, in Skip; in Return it did so before.
LEMMA SkipPasses ==
  ASSUME QueueInv, Q!Skip \/ Q!Return, NEW n, n = Len(pumps), NEW i, i = pumps[Len(pumps)].at
  PROVE  /\ pumps # <<>> /\ i <= Len(queueLists[n])
         /\ \A k, j \in Nat :
              Pends(k, j, pumps') <=> Pends(k, j, pumps) /\ ~ (k = n /\ j = i)
         /\ Q!Return => ~ Pends(n, i, pumps)
         /\ Q!Skip => Pends(n, i, pumps)
<1>1. pumps # <<>>
  BY SkipMoves
<1>2. PICK y \in PumpCursors :
        /\ pumps' = [pumps EXCEPT ![Len(pumps)] = y]
        /\ InLoop(y, queueLists[Len(pumps)]) /\ y.phase = "next"
        /\ y.at = pumps[Len(pumps)].at + 1
  BY SkipMoves
<1>3. /\ n \in 1 .. MaxDepth /\ n \in 1 .. Len(pumps) /\ i \in Nat
      /\ Q!Top = pumps[n] /\ Q!WorkList = queueLists[n]
      /\ InLoop(pumps[n], queueLists[n]) /\ Len(queueLists[n]) \in Nat
  <2>1. n \in 1 .. MaxDepth
    BY <1>1, TopPump DEF QueueInv
  <2>2. n \in 1 .. Len(pumps)
    BY <2>1, QueueConstants
  <2> QED BY <2>1, <2>2, <1>1, TopPump DEF QueueInv
<1>4. pumps[n].phase \in {"next", "in"} /\ (Q!Return => pumps[n].phase = "in")
      /\ (pumps[n].phase = "next" => ~ Q!AtEnd)
  BY <1>3 DEF Q!Skip, Q!Return, Q!AtEntry
<1>5. i <= Len(queueLists[n])
  <2>1. CASE pumps[n].phase = "next"
    BY <1>3, <1>4, <2>1 DEF Q!AtEnd
  <2>2. CASE pumps[n].phase = "in"
    BY <1>3, <2>2 DEF InLoop
  <2> QED BY <1>4, <2>1, <2>2
<1>6. /\ pumps'[n] = y /\ Len(pumps') = n
      /\ \A k, j \in Nat : k # n => (Pends(k, j, pumps') <=> Pends(k, j, pumps))
  BY <1>1, <1>2, PumpGoesOn
<1>7. \A j \in Nat : Pends(n, j, pumps') <=> j > i
  <2>1. \A j \in Nat : Pends(n, j, pumps') <=> j > i + 1 \/ j = i + 1
    BY <1>2, <1>3, <1>6 DEF Pends
  <2> QED BY <2>1, <1>3
<1>8. \A j \in Nat : j # i => (Pends(n, j, pumps) <=> j > i)
  BY <1>3 DEF Pends
<1>9. ASSUME NEW k \in Nat, NEW j \in Nat
      PROVE  Pends(k, j, pumps') <=> Pends(k, j, pumps) /\ ~ (k = n /\ j = i)
  <2>1. CASE k = n
    BY <2>1, <1>3, <1>7, <1>8
  <2>2. CASE k # n
    BY <2>2, <1>6
  <2> QED BY <2>1, <2>2
<1>10. Q!Return => ~ Pends(n, i, pumps)
  BY <1>3, <1>4 DEF Pends
<1>11. Q!Skip => Pends(n, i, pumps)
  <2>1. Q!Skip => pumps[n].phase = "next"
    BY <1>3 DEF Q!Skip, Q!AtEntry
  <2> QED BY <2>1, <1>3 DEF Pends
<1> QED BY <1>1, <1>5, <1>9, <1>10, <1>11

\* The step leaves everything of the queue as it is, but for the pumps.
OnlyPumps == UNCHANGED <<multiple, single, queueLists>>

LEMMA StillThere ==
  ASSUME OnlyPumps, NEW k \in Nat, NEW i \in Nat, NEW e,
         Sits(k, i, e, queueLists, multiple, single), Pends(k, i, pumps')
  PROVE  Remains(e)
BY DEF OnlyPumps, Remains

LEMMA EntryAt ==
  ASSUME QueueInv, pumps # <<>>, pumps[Len(pumps)].at <= Len(queueLists[Len(pumps)]),
         NEW e, Sits(Len(pumps), pumps[Len(pumps)].at, e, queueLists, multiple, single)
  PROVE  e = Q!Entry
<1>n. PICK n : n = Len(pumps)
  OBVIOUS
<1>i. PICK i : i = pumps[n].at
  OBVIOUS
<1>1. n \in 1 .. MaxDepth /\ Q!Entry = queueLists[n][i]
  BY <1>n, <1>i, EntrySits
<1>2. n # 0 /\ n # MaxDepth + 1
  BY <1>1, QueueConstants
<1> QED BY <1>1, <1>2, <1>n, <1>i DEF Sits

\* An entry that waits goes on to, unless it is the one that the innermost
\* pump skips or calls, or another call takes its place.
GivenUpBy(e) ==
  \/ Q!Skip /\ e = Q!Entry /\ Q!Dead(e)
  \/ Q!Call /\ e = Q!Entry
  \/ \E c \in Calls :
       /\ Q!Enqueue(c) /\ e.call \in Single /\ posted' = Append(posted, c)
       /\ Address[CalledSlot[c]] = Address[e.slot]

LEMMA Remaining ==
  ASSUME QueueInv, [Q!Next]_Q!vars, NEW k \in Nat, NEW i \in Nat, NEW e \in QueueEntries,
         Sits(k, i, e, queueLists, multiple, single), Pends(k, i, pumps)
  PROVE  Remains(e) \/ GivenUpBy(e)
<1>n. PICK n : n = Len(pumps)
  OBVIOUS
<1>x. PICK x : x = pumps[n].at
  OBVIOUS
<1>1. ASSUME UNCHANGED <<multiple, single, queueLists, pumps>> PROVE Remains(e)
  BY <1>1 DEF Remains
<1>2. ASSUME NEW z \in QueueSlots,
             Q!Subscribe(z) \/ Q!Unsubscribe(z) \/ Q!Hold(z) \/ Q!Release(z)
      PROVE  Remains(e)
  BY <1>1, <1>2 DEF Q!Subscribe, Q!Unsubscribe, Q!Hold, Q!Release, Q!queue
<1>3. ASSUME NEW v \in QueueEvents, Q!DestroyEvent(v) PROVE Remains(e)
  BY <1>1, <1>3 DEF Q!DestroyEvent, Q!queue
<1>4. CASE UNCHANGED Q!vars
  BY <1>1, <1>4 DEF Q!vars, Q!queue
<1>5. ASSUME NEW c \in Calls, Q!Enqueue(c) PROVE Remains(e) \/ GivenUpBy(e)
  <2>1. PICK l \in Nat, j \in Nat, w \in QueueEntries : EntryWritten(c, l, j, w)
    BY <1>5, EnqueueMoves
  <2>2. pumps' = pumps /\ queueLists' = queueLists /\ posted' = Append(posted, c)
    BY <1>5, EnqueueMoves
  <2>3. CASE ~ (k = l /\ i = j)
    <3>1. Sits(k, i, e, queueLists, multiple', single')
      BY <2>1, <2>3 DEF EntryWritten
    <3> QED BY <3>1, <2>2 DEF Remains
  <2>4. CASE k = l /\ i = j
    <3>1. l = 0 /\ Address[CalledSlot[c]] = j
      BY <2>1, <2>4 DEF EntryWritten
    <3>2. Address[e.slot] = i /\ e.call \in Single
      BY <2>4, <3>1 DEF QueueInv, WellPlaced
    <3> QED BY <3>1, <3>2, <2>2, <2>4, <1>5 DEF GivenUpBy
  <2> QED BY <2>3, <2>4
<1>6. CASE Q!Pump
  <2>d. PICK d : d = n + 1
    OBVIOUS
  <2>1. /\ d \in 1 .. MaxDepth /\ Taking(d)
        /\ Len(pumps') = d /\ pumps'[d] = [at |-> 1, phase |-> "next"]
        /\ \A q \in 1 .. Len(pumps) : pumps'[q] = pumps[q]
    BY <1>6, <1>n, <2>d, PumpMoves
  <2>2. PICK l \in Nat, j \in Nat :
          /\ Sits(l, j, e, queueLists', multiple', single')
          /\ l = k \/ l \in {d, MaxDepth + 1}
          /\ l = k => j = i
    BY <2>1 DEF Taking
  <2>3. /\ d \in Nat /\ MaxDepth + 1 \notin 1 .. d /\ MaxDepth + 1 \notin 1 .. MaxDepth
        /\ MaxDepth + 1 # 0 /\ d # MaxDepth + 1 /\ d # 0 /\ d \in 1 .. d
        /\ \A q \in Nat : q \in 1 .. d /\ q # d => q \in 1 .. Len(pumps)
    <3>1. n \in Nat
      BY <1>n, PumpsTyped, QueueConstants DEF QueueInv
    <3> QED BY <3>1, <2>1, <2>d, <1>n, QueueConstants
  <2>4. CASE l = d
    <3>1. j >= 1
      BY <2>2, <2>3, <2>4 DEF Sits
    <3>2. Pends(d, j, pumps')
      BY <3>1, <2>1, <2>3 DEF Pends
    <3> QED BY <3>2, <2>2, <2>4 DEF Remains
  <2>5. CASE l = MaxDepth + 1
    <3>1. Pends(l, j, pumps')
      BY <2>1, <2>3, <2>5 DEF Pends
    <3> QED BY <3>1, <2>2 DEF Remains
  <2>6. CASE l = k /\ j = i /\ l # d
    <3>1. k \in 1 .. d => k \in 1 .. Len(pumps) /\ pumps'[k] = pumps[k]
      BY <2>1, <2>3, <2>6
    <3>2. Pends(k, i, pumps')
      BY <3>1, <2>1 DEF Pends
    <3> QED BY <3>2, <2>2, <2>6 DEF Remains
  <2> QED BY <2>2, <2>4, <2>5, <2>6
<1>7. CASE Q!Skip \/ Q!Return
  <2>1. /\ pumps # <<>> /\ x <= Len(queueLists[n])
        /\ \A q, j \in Nat :
             Pends(q, j, pumps') <=> Pends(q, j, pumps) /\ ~ (q = n /\ j = x)
        /\ Q!Return => ~ Pends(n, x, pumps)
    BY <1>7, <1>n, <1>x, SkipPasses
  <2>2. OnlyPumps
    BY <1>7, SkipMoves DEF OnlyPumps
  <2>3. CASE ~ (k = n /\ i = x)
    BY <2>1, <2>2, <2>3, StillThere
  <2>4. CASE k = n /\ i = x
    <3>1. e = Q!Entry
      BY <2>1, <2>4, <1>n, <1>x, EntryAt
    <3>2. Q!Skip
      BY <2>1, <2>4, <1>7
    <3> QED BY <3>1, <3>2 DEF GivenUpBy, Q!Skip
  <2> QED BY <2>3, <2>4
<1>8. CASE Q!Test
  BY <1>8, TestMoves, StillThere DEF OnlyPumps
<1>9. CASE Q!Call
  <2>1. /\ pumps # <<>> /\ x <= Len(queueLists[n])
        /\ \A q, j \in Nat :
             Pends(q, j, pumps') <=> Pends(q, j, pumps) /\ ~ (q = n /\ j = x)
        /\ OnlyPumps
    <3>1. x = pumps[Len(pumps)].at
      BY <1>n, <1>x
    <3> QED BY <3>1, <1>9, <1>n, CallMoves DEF OnlyPumps
  <2>2. CASE ~ (k = n /\ i = x)
    BY <2>1, <2>2, StillThere
  <2>3. CASE k = n /\ i = x
    <3>1. e = Q!Entry
      BY <2>1, <2>3, <1>n, <1>x, EntryAt
    <3> QED BY <3>1, <1>9 DEF GivenUpBy
  <2> QED BY <2>2, <2>3
<1>10. CASE Q!Throw
  <2>1. pumps # <<>> /\ pumps' = Q!Front(pumps) /\ OnlyPumps
    BY <1>10 DEF Q!Throw, OnlyPumps
  <2>2. PICK m \in Nat :
          /\ \A q, j \in Nat : q # m + 1 => (Pends(q, j, pumps') <=> Pends(q, j, pumps))
          /\ \A j : Pends(m + 1, j, pumps')
    BY <2>1, PumpLeft
  <2>3. Pends(k, i, pumps')
    BY <2>2
  <2> QED BY <2>1, <2>3, StillThere
<1>11. CASE Q!End
  <2>1. /\ pumps # <<>> /\ n \in 1 .. MaxDepth /\ pumps' = Q!Front(pumps)
        /\ \A j \in 1 .. Len(queueLists[n]) : ~ Pends(n, j, pumps)
        /\ UNCHANGED <<multiple, single>>
        /\ Sits(k, i, e, queueLists', multiple, single) <=> k # n
    BY <1>11, <1>n, EndMoves
  <2>2. PICK m \in Nat :
          /\ n = m + 1
          /\ \A q, j \in Nat : q # m + 1 => (Pends(q, j, pumps') <=> Pends(q, j, pumps))
    BY <2>1, <1>n, PumpLeft
  <2>3. k # n
    <3>1. n # 0 /\ n # MaxDepth + 1
      BY <2>1, QueueConstants
    <3>2. k = n => i \in 1 .. Len(queueLists[n])
      BY <3>1 DEF Sits
    <3> QED BY <3>2, <2>1
  <2> QED BY <2>1, <2>2, <2>3 DEF Remains
<1> QED BY <1>2, <1>3, <1>4, <1>5, <1>6, <1>7, <1>8, <1>9, <1>10, <1>11 DEF Q!Next, Q!PumpStep

\* Only pump_events() makes calls, each once.
LEMMA CountsCalls ==
  ASSUME QueueInv, [Q!Next]_Q!vars
  PROVE  /\ ~ Q!Call => UNCHANGED count
         /\ Q!Call => /\ Q!Entry.call \in Calls
                      /\ count'[Q!Entry.call] = count[Q!Entry.call] + 1
                      /\ \A c \in Calls : c # Q!Entry.call => count'[c] = count[c]
<1>1. ~ Q!Call => UNCHANGED count
  BY DEF Q!Next, Q!PumpStep, Q!vars, Q!Subscribe, Q!Unsubscribe, Q!Hold, Q!Release,
         Q!DestroyEvent, Q!Enqueue, Q!Pump, Q!Skip, Q!Test, Q!Return, Q!Throw, Q!End
<1>2. ASSUME Q!Call
      PROVE  /\ Q!Entry.call \in Calls
             /\ count'[Q!Entry.call] = count[Q!Entry.call] + 1
             /\ \A c \in Calls : c # Q!Entry.call => count'[c] = count[c]
  <2>1. /\ pumps # <<>> /\ pumps[Len(pumps)].at <= Len(queueLists[Len(pumps)])
        /\ count' = [count EXCEPT ![Q!Entry.call] = @ + 1]
    BY <1>2, CallMoves
  <2>2. Q!Entry.call \in Calls
    BY <2>1, EntrySits
  <2> QED BY <2>1, <2>2 DEF QueueInv, QueueTyped
<1> QED BY <1>1, <1>2

\* The entry that is called waits at the place of the innermost pump, its
\* slot exists, and was called at no other place.
LEMMA CalledEntry ==
  ASSUME QueueInv, Q!Call
  PROVE  /\ Q!Entry \in QueueEntries
         /\ \E n, i \in Nat :
              /\ n = Len(pumps) /\ n \in 1 .. MaxDepth
              /\ Sits(n, i, Q!Entry, queueLists, multiple, single) /\ Pends(n, i, pumps)
              /\ i = pumps[n].at
              /\ \A k, j \in Nat :
                   Pends(k, j, pumps') <=> Pends(k, j, pumps) /\ ~ (k = n /\ j = i)
         /\ Q!Entry.slot \in sunk \cup held /\ Q!Entry.slot = CalledSlot[Q!Entry.call]
<1>n. PICK n : n = Len(pumps)
  OBVIOUS
<1>i. PICK i : i = pumps[Len(pumps)].at
  OBVIOUS
<1>1. /\ pumps # <<>> /\ i <= Len(queueLists[n]) /\ pumps[n].phase = "call"
      /\ Pends(n, i, pumps)
      /\ \A k, j \in Nat :
           Pends(k, j, pumps') <=> Pends(k, j, pumps) /\ ~ (k = n /\ j = i)
  BY <1>n, <1>i, CallMoves
<1>2. /\ n \in Nat /\ i \in Nat /\ n \in 1 .. MaxDepth /\ Q!Entry \in QueueEntries
      /\ Sits(n, i, Q!Entry, queueLists, multiple, single)
      /\ Q!Entry = queueLists[n][i]
  BY <1>1, <1>n, <1>i, EntrySits
<1>3. Q!Entry.slot \in sunk \cup held
  <2>1. n \in 1 .. Len(pumps)
    BY <1>2, <1>n, QueueConstants
  <2> QED BY <2>1, <1>1, <1>2, <1>n, <1>i DEF QueueInv, TestedAlive
<1>4. Q!Entry.slot = CalledSlot[Q!Entry.call]
  BY <1>2, <1>3 DEF QueueInv, WellPlaced, Fits
<1> QED BY <1>1, <1>2, <1>3, <1>4, <1>n, <1>i

LEMMA CalledAliveStep ==
  ASSUME QueueInv, [Q!Next]_Q!vars, NEW c \in Calls, count'[c] > count[c]
  PROVE  Q!Call /\ c = Q!Entry.call /\ CalledSlot[c] \in Q!Alive
<1>1. count[c] \in Nat
  BY DEF QueueInv, QueueTyped
<1>2. Q!Call
  BY <1>1, CountsCalls
<1>3. c = Q!Entry.call
  BY <1>1, <1>2, CountsCalls
<1> QED BY <1>2, <1>3, CalledEntry DEF Q!Alive

LEMMA GivenUpStep ==
  ASSUME QueueInv, [Q!Next]_Q!vars, NEW e \in Q!Waiting, e.call \notin Q!Pending'
  PROVE  \/ count'[e.call] > count[e.call]
         \/ Q!Dead(e)
         \/ /\ e.call \in Single
            /\ Len(posted') > Len(posted)
            /\ Address[CalledSlot[Q!Last(posted')]] = Address[e.slot]
<1>1. QueueTyped' /\ QueueTyped
  BY QueueStepKeeps DEF QueueInv
<1>2. PICK k \in Nat, i \in Nat :
        Sits(k, i, e, queueLists, multiple, single) /\ Pends(k, i, pumps)
  BY <1>1, WaitingIs
<1>3. e \in QueueEntries
  BY <1>1, WaitingIs
<1>4. GivenUpBy(e)
  BY <1>1, <1>2, <1>3, Remaining, RemainsPending
<1>5. CASE Q!Call /\ e = Q!Entry
  <2>1. count'[e.call] = count[e.call] + 1 /\ e.call \in Calls
    BY <1>5, CountsCalls
  <2>2. count[e.call] \in Nat
    BY <2>1, <1>1 DEF QueueTyped
  <2> QED BY <2>1, <2>2
<1>6. ASSUME NEW c \in Calls, e.call \in Single, posted' = Append(posted, c),
             Address[CalledSlot[c]] = Address[e.slot]
      PROVE  /\ Len(posted') > Len(posted)
             /\ Address[CalledSlot[Q!Last(posted')]] = Address[e.slot]
  <2>1. posted \in Seq(Calls)
    BY <1>1 DEF QueueTyped
  <2>2. Len(posted') = Len(posted) + 1 /\ posted'[Len(posted) + 1] = c /\ Len(posted) \in Nat
    BY <2>1, <1>6, AppendProperties, LenProperties
  <2>3. Q!Last(posted') = c
    BY <2>2 DEF Q!Last
  <2> QED BY <2>2, <2>3, <1>6
<1> QED BY <1>4, <1>5, <1>6 DEF GivenUpBy

LEMMA InOrderStep ==
  ASSUME QueueInv, [Q!Next]_Q!vars, NEW c \in Calls \ Single, count'[c] > count[c],
         NEW e \in Q!Waiting, e.call \notin Single, Q!Before(e.call, c), e.call \notin torn
  PROVE  \E d \in 1 .. Q!Depth - 1 : e \in Q!Left(d)
<1>1. QueueTyped
  BY DEF QueueInv
<1>2. Q!Call /\ c = Q!Entry.call
  BY CalledAliveStep
<1>3. PICK n \in Nat, i \in Nat :
        /\ n = Len(pumps) /\ n \in 1 .. MaxDepth
        /\ Sits(n, i, Q!Entry, queueLists, multiple, single) /\ Pends(n, i, pumps)
        /\ i = pumps[n].at
  BY <1>2, CalledEntry
<1>4. Q!Entry \in QueueEntries
  BY <1>2, CalledEntry
<1>5. PICK k \in Nat, j \in Nat :
        Sits(k, j, e, queueLists, multiple, single) /\ Pends(k, j, pumps)
  BY <1>1, WaitingIs
<1>6. e \in QueueEntries
  BY <1>1, WaitingIs
<1>7. Earlier(posted, e.call, c)
  <2>1. DOMAIN posted = 1 .. Len(posted)
    BY <1>1, LenProperties DEF QueueTyped
  <2> QED BY <2>1 DEF Q!Before, Earlier
<1>8. k < n \/ (k = n /\ j < i)
  BY <1>2, <1>3, <1>4, <1>5, <1>6, <1>7 DEF QueueInv, InTurn
<1>9. k # n
  <2>1. n \in 1 .. Len(pumps)
    BY <1>3
  <2>2. k = n => j > i \/ j = i
    BY <2>1, <1>3, <1>5 DEF Pends
  <2> QED BY <2>2, <1>8
<1>10. k # 0
  BY <1>5, <1>6 DEF QueueInv, WellPlaced
<1>11. k \in 1 .. n - 1 /\ k \in 1 .. MaxDepth /\ k \in 1 .. Len(pumps) /\ k # MaxDepth + 1
  BY <1>3, <1>8, <1>9, <1>10, QueueConstants
<1>12. j \in 1 .. Len(queueLists[k]) /\ e = queueLists[k][j]
  BY <1>5, <1>10, <1>11 DEF Sits
<1>13. DOMAIN queueLists[k] = 1 .. Len(queueLists[k])
  BY <1>1, <1>11, LenProperties DEF QueueTyped
<1>14. e \in Q!Left(k)
  BY <1>5, <1>11, <1>12, <1>13 DEF Q!Left, Pends
<1>15. Q!Depth = n
  BY <1>3 DEF Q!Depth
<1> QED BY <1>11, <1>14, <1>15

\* Whatever the nesting of pumps, whichever handlers destroy slots and
\* events, and whatever they throw: a queued call is made while its slot
\* exists, in the order of the queue unless a pump further out has it, once
\* unless an exception left it in a work list, and is otherwise given up only
\* when its slot or event is destroyed or a single call takes its place.
THEOREM QueueIsSafe == Q!Spec => QueueSafe
<1>1. QueueInv => Q!TypeOK /\ Q!MadeOnce
  BY QueueTypeOK DEF QueueInv, Q!MadeOnce
<1>2. QueueInv /\ [Q!Next]_Q!vars =>
        \A c \in Calls : count'[c] > count[c] => CalledSlot[c] \in Q!Alive
  BY CalledAliveStep
<1>3. QueueInv /\ [Q!Next]_Q!vars =>
        \A e \in Q!Waiting :
          e.call \notin Q!Pending' =>
            \/ count'[e.call] > count[e.call]
            \/ Q!Dead(e)
            \/ /\ e.call \in Single
               /\ Len(posted') > Len(posted)
               /\ Address[CalledSlot[Q!Last(posted')]] = Address[e.slot]
  BY GivenUpStep
<1>4. QueueInv /\ [Q!Next]_Q!vars =>
        \A c \in Calls \ Single : count'[c] > count[c] =>
          \A e \in Q!Waiting :
            e.call \notin Single /\ Q!Before(e.call, c) =>
              \/ e.call \in torn
              \/ \E d \in 1 .. Q!Depth - 1 : e \in Q!Left(d)
  BY InOrderStep
<1>5. Q!Spec => [][Q!Next]_Q!vars
  BY PTL DEF Q!Spec
<1>6. Q!Spec => [](Q!TypeOK /\ Q!MadeOnce)
  BY <1>1, QueueInvariant, PTL
<1>7. Q!Spec => Q!CalledAlive
  BY <1>2, <1>5, QueueInvariant, PTL DEF Q!CalledAlive
<1>8. Q!Spec => Q!GivenUpForReason
  BY <1>3, <1>5, QueueInvariant, PTL DEF Q!GivenUpForReason
<1>9. Q!Spec => Q!InOrder
  BY <1>4, <1>5, QueueInvariant, PTL DEF Q!InOrder
<1> QED BY <1>6, <1>7, <1>8, <1>9 DEF QueueSafe

\* What waits after a step that enqueues nothing waited before, if nothing
\* was thrown, and is not what the step skips or calls.
LEMMA Coming ==
  ASSUME QueueInv, torn = {}, [Q!Next]_Q!vars, ~ Q!Throw, \A c \in Calls : ~ Q!Enqueue(c),
         NEW e \in QueueEntries, Remains(e)
  PROVE  /\ \E k, i \in Nat :
              Sits(k, i, e, queueLists, multiple, single) /\ Pends(k, i, pumps)
         /\ Q!Skip \/ Q!Call => e.call # Q!Entry.call
<1>n. PICK n : n = Len(pumps)
  OBVIOUS
<1>x. PICK x : x = pumps[Len(pumps)].at
  OBVIOUS
<1>1. PICK k \in Nat, i \in Nat :
        Sits(k, i, e, queueLists', multiple', single') /\ Pends(k, i, pumps')
  BY DEF Remains
<1>2. CASE UNCHANGED <<multiple, single, queueLists, pumps>> /\ ~ Q!Skip /\ ~ Q!Call
  BY <1>1, <1>2
<1>3. CASE Q!Pump /\ ~ Q!Skip /\ ~ Q!Call
  <2>d. PICK d : d = n + 1
    OBVIOUS
  <2>1. /\ d \in 1 .. MaxDepth /\ Taking(d) /\ Len(pumps') = d
        /\ \A q \in 1 .. Len(pumps) : pumps'[q] = pumps[q]
    BY <1>3, <1>n, <2>d, PumpMoves
  <2>2. PICK l \in Nat, j \in Nat :
          TakenFrom(l, j, k, i, d) /\ Sits(l, j, e, queueLists, multiple, single)
    BY <2>1, <1>1 DEF Taking
  <2>3. /\ \A q \in Nat : q \in 1 .. Len(pumps) => q \in 1 .. d
        /\ MaxDepth + 1 \notin 1 .. Len(pumps) /\ 0 \notin 1 .. Len(pumps)
    <3>1. n \in Nat
      BY <1>n, PumpsTyped, QueueConstants DEF QueueInv
    <3> QED BY <3>1, <2>1, <2>d, <1>n, QueueConstants
  <2>4. Pends(l, j, pumps)
    <3>1. CASE l = k /\ j = i /\ k # d
      <4>1. k \in 1 .. Len(pumps) => k \in 1 .. d /\ pumps'[k] = pumps[k]
        BY <2>1, <2>3
      <4> QED BY <3>1, <4>1, <1>1, <2>1 DEF Pends
    <3>2. CASE l = 0 \/ l = MaxDepth + 1
      BY <3>2, <2>3 DEF Pends
    <3> QED BY <2>2, <3>1, <3>2 DEF TakenFrom
  <2> QED BY <2>2, <2>4, <1>3
\* The pump goes on in its list: it passes an entry if it skips or calls it.
<1>4. ASSUME OnlyPumps,
             Q!Skip \/ Q!Call =>
               /\ pumps # <<>> /\ x <= Len(queueLists[n])
               /\ \A q, j \in Nat :
                    Pends(q, j, pumps') <=> Pends(q, j, pumps) /\ ~ (q = n /\ j = x),
             \A q, j \in Nat : Pends(q, j, pumps') => Pends(q, j, pumps)
      PROVE  /\ \E q, j \in Nat :
                  Sits(q, j, e, queueLists, multiple, single) /\ Pends(q, j, pumps)
             /\ Q!Skip \/ Q!Call => e.call # Q!Entry.call
  <2>1. Sits(k, i, e, queueLists, multiple, single) /\ Pends(k, i, pumps)
    BY <1>1, <1>4 DEF OnlyPumps
  <2>2. ASSUME Q!Skip \/ Q!Call PROVE e.call # Q!Entry.call
    <3>1. pumps # <<>> /\ x <= Len(queueLists[n]) /\ ~ (k = n /\ i = x)
      BY <2>2, <1>1, <1>4
    <3>2. n \in Nat /\ x \in Nat /\ Q!Entry \in QueueEntries
          /\ Sits(n, x, Q!Entry, queueLists, multiple, single)
      BY <3>1, <1>n, <1>x, EntrySits
    <3>3. e.call \notin torn
      OBVIOUS
    <3> QED BY <2>1, <3>1, <3>2, <3>3 DEF QueueInv, AtOnePlace
  <2> QED BY <2>1, <2>2
<1>5. CASE Q!Skip \/ Q!Return
  <2>1. /\ pumps # <<>> /\ x <= Len(queueLists[n])
        /\ \A q, j \in Nat :
             Pends(q, j, pumps') <=> Pends(q, j, pumps) /\ ~ (q = n /\ j = x)
    BY <1>5, <1>n, <1>x, SkipPasses
  <2>2. OnlyPumps
    BY <1>5, SkipMoves DEF OnlyPumps
  <2> QED BY <2>1, <2>2, <1>4
<1>6. CASE Q!Call
  <2>1. /\ pumps # <<>> /\ x <= Len(queueLists[n]) /\ OnlyPumps
        /\ \A q, j \in Nat :
             Pends(q, j, pumps') <=> Pends(q, j, pumps) /\ ~ (q = n /\ j = x)
    BY <1>6, <1>n, <1>x, CallMoves DEF OnlyPumps
  <2> QED BY <2>1, <1>4
<1>7. CASE Q!Test
  <2>1. OnlyPumps /\ \A q, j \in Nat : Pends(q, j, pumps') <=> Pends(q, j, pumps)
    BY <1>7, TestMoves DEF OnlyPumps
  <2>2. ~ Q!Skip /\ ~ Q!Call
    BY <1>7 DEF Q!Test, Q!Skip, Q!Call, Q!AtEntry
  <2> QED BY <2>1, <2>2, <1>4
<1>8. CASE Q!End
  <2>1. /\ pumps # <<>> /\ pumps' = Q!Front(pumps) /\ UNCHANGED <<multiple, single>>
        /\ Sits(k, i, e, queueLists', multiple, single) <=>
             Sits(k, i, e, queueLists, multiple, single) /\ k # n
    BY <1>8, <1>n, EndMoves
  <2>2. PICK m \in Nat :
          /\ n = m + 1
          /\ \A q, j \in Nat : q # m + 1 => (Pends(q, j, pumps') <=> Pends(q, j, pumps))
    BY <2>1, <1>n, PumpLeft
  <2>3. Sits(k, i, e, queueLists, multiple, single) /\ Pends(k, i, pumps)
    BY <2>1, <2>2, <1>1
  <2>4. ~ Q!Skip /\ ~ Q!Call
    BY <1>8 DEF Q!End, Q!Skip, Q!Call, Q!AtEntry
  <2> QED BY <2>3, <2>4
<1>9. \/ UNCHANGED <<multiple, single, queueLists, pumps>>
      \/ Q!Pump \/ Q!PumpStep
  BY DEF Q!Next, Q!vars, Q!queue, Q!Subscribe, Q!Unsubscribe, Q!Hold, Q!Release, Q!DestroyEvent
<1> QED BY <1>2, <1>3, <1>5, <1>6, <1>7, <1>8, <1>9 DEF Q!PumpStep

LEMMA PostsCall ==
  ASSUME QueueInv, torn = {}, NEW c \in Calls, Q!Enqueue(c)
  PROVE  Q!AbstractQueue!Post(c)
<1>t. QueueTyped /\ QueueTyped'
  BY EnqueueMoves DEF QueueInv
<1>1. PICK k \in Nat, i \in Nat, w \in QueueEntries : EntryWritten(c, k, i, w)
  BY EnqueueMoves
<1>2. /\ ~ Posts(posted, c)
      /\ UNCHANGED <<pumps, queueLists, count>>
  BY EnqueueMoves
<1>3. \A q, j \in Nat : \A f \in QueueEntries :
        Sits(q, j, f, queueLists, multiple, single) => f.call # c
  BY <1>2 DEF QueueInv, WellPlaced, Fits
<1>4. c \notin Q!Pending \cup Q!Made
  <2>1. c \notin Q!Pending
    BY <1>t, <1>3, PendingIs
  <2>2. c \notin Q!Made
    BY <1>2 DEF QueueInv, Q!Made
  <2> QED BY <2>1, <2>2
<1>5. Pends(k, i, pumps)
  <2>1. Len(pumps) \in 0 .. MaxDepth
    BY <1>t, PumpsTyped
  <2>2. k = 0 \/ k = MaxDepth + 1
    BY <1>1 DEF EntryWritten
  <2>3. k \notin 1 .. Len(pumps)
    BY <2>1, <2>2, QueueConstants
  <2> QED BY <2>3 DEF Pends
<1>6. c \in Q!Pending'
  <2>1. Remains(w) /\ w.call = c
    BY <1>1, <1>2, <1>5 DEF EntryWritten, Remains
  <2> QED BY <2>1, <1>t, RemainsPending
\* What else waits after it waited before, at another place.
<1>7. ASSUME NEW b1, b1 # c
      PROVE  b1 \in Q!Pending' <=>
               \E f \in QueueEntries : \E q, j \in Nat :
                 /\ f.call = b1 /\ ~ (q = k /\ j = i)
                 /\ Sits(q, j, f, queueLists, multiple, single) /\ Pends(q, j, pumps)
  <2>1. ASSUME b1 \in Q!Pending'
        PROVE  \E f \in QueueEntries : \E q, j \in Nat :
                 /\ f.call = b1 /\ ~ (q = k /\ j = i)
                 /\ Sits(q, j, f, queueLists, multiple, single) /\ Pends(q, j, pumps)
    <3>1. PICK f \in QueueEntries : f.call = b1 /\ Remains(f)
      BY <2>1, <1>t, PendingNext
    <3>2. PICK q \in Nat, j \in Nat :
            Sits(q, j, f, queueLists', multiple', single') /\ Pends(q, j, pumps')
      BY <3>1 DEF Remains
    <3>3. Sits(q, j, f, queueLists, multiple, single) /\ ~ (q = k /\ j = i)
      BY <3>1, <3>2, <1>1, <1>2, <1>7 DEF EntryWritten
    <3> QED BY <3>1, <3>2, <3>3, <1>2
  <2>2. ASSUME NEW f \in QueueEntries, NEW q \in Nat, NEW j \in Nat,
               f.call = b1, ~ (q = k /\ j = i),
               Sits(q, j, f, queueLists, multiple, single), Pends(q, j, pumps)
        PROVE  b1 \in Q!Pending'
    <3>1. Sits(q, j, f, queueLists', multiple', single') /\ Pends(q, j, pumps')
      BY <2>2, <1>1, <1>2 DEF EntryWritten
    <3> QED BY <3>1, <2>2, <1>t, RemainsPending DEF Remains
  <2> QED BY <2>1, <2>2
<1>8. \E old \in {{}} \cup {{p} : p \in Q!Pending} :
        Q!Pending' = (Q!Pending \ old) \cup {c}
  <2>1. CASE \A f \in QueueEntries : ~ Sits(k, i, f, queueLists, multiple, single)
    <3>1. \A p : p # c => (p \in Q!Pending' <=> p \in Q!Pending)
      BY <2>1, <1>7, <1>t, PendingIs
    <3>2. Q!Pending' = (Q!Pending \ {}) \cup {c}
      BY <3>1, <1>6
    <3> QED BY <3>2
  <2>2. ASSUME NEW g \in QueueEntries, Sits(k, i, g, queueLists, multiple, single)
        PROVE  \E old \in {{p} : p \in Q!Pending} :
                 Q!Pending' = (Q!Pending \ old) \cup {c}
    <3>1. g.call \in Q!Pending
      BY <2>2, <1>5, <1>t, PendingIs
    <3>2. \A f \in QueueEntries : \A q, j \in Nat :
            Sits(q, j, f, queueLists, multiple, single) =>
              (f.call = g.call <=> q = k /\ j = i)
      <4>1. ASSUME NEW f \in QueueEntries, NEW q \in Nat, NEW j \in Nat,
                   Sits(q, j, f, queueLists, multiple, single), f.call = g.call
            PROVE  q = k /\ j = i
        BY <4>1, <2>2 DEF QueueInv, AtOnePlace
      <4>2. ASSUME NEW f \in QueueEntries, Sits(k, i, f, queueLists, multiple, single)
            PROVE  f = g
        <5>1. MaxDepth + 1 \notin 1 .. MaxDepth /\ 0 \notin 1 .. MaxDepth /\ MaxDepth + 1 # 0
          BY QueueConstants
        <5> QED BY <4>2, <2>2, <5>1 DEF Sits
      <4> QED BY <4>1, <4>2
    <3>3. ASSUME NEW p, p # c
          PROVE  p \in Q!Pending' <=> p \in Q!Pending /\ p # g.call
      BY <3>2, <3>3, <1>7, <1>t, PendingIs
    <3>4. g.call # c
      BY <2>2, <1>3
    <3>5. Q!Pending' = (Q!Pending \ {g.call}) \cup {c}
      BY <3>3, <3>4, <1>6
    <3> QED BY <3>1, <3>5
  <2> QED BY <2>1, <2>2
<1>9. UNCHANGED Q!Made
  BY <1>2 DEF Q!Made
<1> QED BY <1>4, <1>8, <1>9 DEF Q!AbstractQueue!Post

LEMMA ImplementsStep ==
  ASSUME QueueInv, [Q!Next]_Q!vars, throws = 0, throws' = 0
  PROVE  [Q!AbstractQueue!Next]_(Q!AbstractQueue!vars)
<1>t. QueueTyped /\ QueueTyped' /\ torn = {}
  BY QueueStepKeeps DEF QueueInv
<1>1. ~ Q!Throw
  BY DEF Q!Throw
<1>2. ASSUME NEW c \in Calls, Q!Enqueue(c) PROVE Q!AbstractQueue!Next
  BY <1>2, <1>t, PostsCall DEF Q!AbstractQueue!Next
<1>3. CASE \A c \in Calls : ~ Q!Enqueue(c)
  <2>1. \A e \in QueueEntries : GivenUpBy(e) => (Q!Skip \/ Q!Call) /\ e = Q!Entry
    BY <1>3 DEF GivenUpBy
  <2>2. CASE ~ Q!Skip /\ ~ Q!Call
    <3>1. \A c : c \in Q!Pending => c \in Q!Pending'
      <4> SUFFICES ASSUME NEW c \in Q!Pending PROVE c \in Q!Pending'
        OBVIOUS
      <4>1. PICK e \in QueueEntries, k \in Nat, i \in Nat :
              /\ e.call = c
              /\ Sits(k, i, e, queueLists, multiple, single) /\ Pends(k, i, pumps)
        BY <1>t, PendingIs
      <4>2. Remains(e)
        BY <4>1, <2>1, <2>2, Remaining
      <4> QED BY <4>1, <4>2, <1>t, RemainsPending
    <3>2. \A c : c \in Q!Pending' => c \in Q!Pending
      <4> SUFFICES ASSUME NEW c \in Q!Pending' PROVE c \in Q!Pending
        OBVIOUS
      <4>1. PICK e \in QueueEntries : e.call = c /\ Remains(e)
        BY <1>t, PendingNext
      <4> QED BY <4>1, <1>1, <1>3, <1>t, Coming, PendingIs
    <3>3. Q!Made' = Q!Made
      BY <2>2, CountsCalls DEF Q!Made
    <3>4. Q!Pending' = Q!Pending
      BY <3>1, <3>2
    <3> QED BY <3>3, <3>4 DEF Q!AbstractQueue!vars
  <2>3. CASE Q!Skip \/ Q!Call
    <3>w. PICK w : w = Q!Entry.call
      OBVIOUS
    <3>1. /\ Q!Entry \in QueueEntries /\ w \in Calls
          /\ \E k, i \in Nat :
               Sits(k, i, Q!Entry, queueLists, multiple, single) /\ Pends(k, i, pumps)
      <4>1. ASSUME Q!Skip
            PROVE  /\ Q!Entry \in QueueEntries
                   /\ \E k, i \in Nat :
                        Sits(k, i, Q!Entry, queueLists, multiple, single) /\ Pends(k, i, pumps)
        <5>n. PICK n : n = Len(pumps)
          OBVIOUS
        <5>x. PICK x : x = pumps[Len(pumps)].at
          OBVIOUS
        <5>1. pumps # <<>> /\ x <= Len(queueLists[n]) /\ Pends(n, x, pumps)
          BY <4>1, <5>n, <5>x, SkipPasses
        <5> QED BY <5>1, <5>n, <5>x, EntrySits
      <4> QED BY <4>1, <2>3, <3>w, CalledEntry, EntriesTyped
    <3>2. w \in Q!Pending
      BY <3>1, <3>w, <1>t, PendingIs
    <3>3. \A c : c \in Q!Pending /\ c # w => c \in Q!Pending'
      <4> SUFFICES ASSUME NEW c \in Q!Pending, c # w PROVE c \in Q!Pending'
        OBVIOUS
      <4>1. PICK e \in QueueEntries, k \in Nat, i \in Nat :
              /\ e.call = c
              /\ Sits(k, i, e, queueLists, multiple, single) /\ Pends(k, i, pumps)
        BY <1>t, PendingIs
      <4>2. Remains(e)
        BY <4>1, <2>1, <3>w, Remaining
      <4> QED BY <4>1, <4>2, <1>t, RemainsPending
    <3>4. \A c : c \in Q!Pending' => c \in Q!Pending /\ c # w
      <4> SUFFICES ASSUME NEW c \in Q!Pending' PROVE c \in Q!Pending /\ c # w
        OBVIOUS
      <4>1. PICK e \in QueueEntries : e.call = c /\ Remains(e)
        BY <1>t, PendingNext
      <4> QED BY <4>1, <2>3, <3>w, <1>1, <1>3, <1>t, Coming, PendingIs
    <3>5. Q!Pending' = Q!Pending \ {w}
      BY <3>3, <3>4
    <3>6. CASE Q!Call
      <4>1. /\ count'[w] = count[w] + 1 /\ count[w] \in Nat
            /\ \A c \in Calls : c # w => count'[c] = count[c]
        BY <3>1, <3>6, <3>w, <1>t, CountsCalls DEF QueueTyped
      <4>2. count'[w] > 0
        BY <4>1
      <4>3. Q!Made' = Q!Made \cup {w}
        BY <4>1, <4>2, <3>1 DEF Q!Made
      <4> QED BY <3>1, <3>2, <3>5, <4>3 DEF Q!AbstractQueue!Next, Q!AbstractQueue!Make
    <3>7. CASE ~ Q!Call
      <4>1. Q!Made' = Q!Made
        BY <3>7, CountsCalls DEF Q!Made
      <4> QED BY <3>1, <3>2, <3>5, <4>1 DEF Q!AbstractQueue!Next, Q!AbstractQueue!GiveUp
    <3> QED BY <3>6, <3>7
  <2> QED BY <2>2, <2>3
<1> QED BY <1>2, <1>3

LEMMA ImplementsInit == Q!Init => Q!AbstractQueue!Init
<1> SUFFICES ASSUME Q!Init PROVE Q!AbstractQueue!Init
  OBVIOUS
<1>1. QueueTyped
  BY QueueInit DEF QueueInv
<1>2. Q!Pending = {}
  <2>1. /\ multiple = <<>> /\ single = <<>> /\ queueLists = [d \in 1 .. MaxDepth |-> <<>>]
    BY DEF Q!Init, Q!Depths
  <2>2. Len(<<>>) = 0 /\ DOMAIN <<>> = {}
    BY EmptySeq
  <2>3. \A k, i, e : ~ Sits(k, i, e, queueLists, multiple, single)
    <3>1. \A k \in 1 .. MaxDepth : Len(queueLists[k]) = 0
      BY <2>1, <2>2
    <3>2. Len(multiple) = 0 /\ DOMAIN single = {}
      BY <2>1, <2>2
    <3> QED BY <3>1, <3>2 DEF Sits
  <2> QED BY <2>3, <1>1, PendingIs
<1>3. Q!Made = {}
  BY DEF Q!Init, Q!Made
<1> QED BY <1>2, <1>3 DEF Q!AbstractQueue!Init

\* When no handler throws, the queue with its two kinds of calls, its work
\* lists and the pumps nested in one another implements CallQueue: every call
\* is posted once, and made once or given up, or waits.
THEOREM QueueImplements == Q!Spec /\ [](throws = 0) => CallQueueSpec
<1>1. QueueInv /\ QueueInv' /\ [Q!Next]_Q!vars /\ throws = 0 /\ (throws = 0)' =>
        [Q!AbstractQueue!Next]_(Q!AbstractQueue!vars)
  BY ImplementsStep
<1>2. Q!Spec /\ [](throws = 0) => Q!AbstractQueue!Spec
  BY <1>1, ImplementsInit, QueueInvariant, PTL DEF Q!Spec, Q!AbstractQueue!Spec
<1> QED BY <1>2 DEF CallQueueSpec, Q!CallQueueSpec
=============================================================================
