----------------------------- MODULE TaskProofs -----------------------------
(***************************************************************************)
(* parallel_apply() calls its function with every element, once, and not   *)
(* after it has returned, for every size of the container and every number *)
(* of threads; and what sync_trigger() keeps to while handlers do what     *)
(* they like with its event, and timer_service::do_work() while they do    *)
(* what they like with its timers, at any depth of nesting.                *)
(***************************************************************************)
EXTENDS MCTask, FiniteSetTheorems, SequenceTheorems, WellFoundedInduction, TLAPS

----------------------------------------------------------------------------
(* parallel_apply().                                                       *)

Workers == Threads \cup {Caller}

\* No element is in both of two ranges.
Apart(r, s) == r.to <= s.from \/ s.to <= r.from

\* A range that was cut from the container: its elements have their turn yet.
Cut(r) ==
  /\ r \in Ranges /\ r.from <= r.to /\ r.to <= next
  /\ \A i \in applied : ~In(i, r)

Shape ==
  /\ size \in Nat /\ next \in 0 .. size
  /\ range \in [Workers -> Ranges] /\ applied \subseteq 0 .. next - 1
  /\ stops \in Nat /\ stopped \in BOOLEAN

Separate ==
  /\ \A r \in queued : Cut(r)
  /\ \A w \in Workers : Cut(range[w])
  /\ \A r, s \in queued : r # s => Apart(r, s)
  /\ \A r \in queued, w \in Workers : Apart(r, range[w])
  /\ \A v, w \in Workers : v # w => Apart(range[v], range[w])
  /\ again = {}

\* Unless the pool is stopped, every element that was cut off is applied, or
\* is in the range of somebody who is there to do it.
Placed(i) ==
  \/ i \in applied
  \/ \E r \in queued : In(i, r)
  \/ \E w \in Workers : In(i, range[w])

Complete ==
  /\ ~stopped
  /\ \A i \in 0 .. next - 1 : Placed(i)
  /\ pc \in {"serial", "wait", "returned"} => next = size
  /\ pc \in {"called", "serial", "returned"} => Idle
  /\ pc # "serial" => range[Caller] = Nothing

IInv == Shape /\ Separate /\ (stops = 0 => Complete)

\* No subrange is empty.
LEMMA SubrangePositive == ASSUME size \in Nat PROVE Subrange \in Nat \ {0}
<1>1. Cardinality(Threads) \in Nat \ {0}
  BY FS_CardinalityType, FS_EmptySet, ApplyAssumption
<1>2. size \div Cardinality(Threads) \in Int
  BY <1>1
<1>. QED BY <1>2 DEF Subrange

\* Every step leaves what Shape says of the variables.
LEMMA ShapeStep == Shape /\ Separate /\ [Next]_vars => Shape'
<1>. SUFFICES ASSUME Shape, Separate, [Next]_vars PROVE Shape'
  OBVIOUS
<1>. USE DEF Shape, Workers, Ranges
<1>1. CASE Call
  BY <1>1 DEF Call, Remainder, pool
<1>2. CASE Loop
  BY <1>2, SubrangePositive DEF Loop, pool
<1>3. CASE Rest
  BY <1>3 DEF Rest, pool
<1>4. CASE Return \/ Stop \/ Stopped
  <2>1. CASE Return
    BY <2>1 DEF Return, pool
  <2>2. CASE Stop
    BY <2>2 DEF Stop
  <2>3. CASE Stopped
    BY <2>3 DEF Stopped
  <2>. QED BY <1>4, <2>1, <2>2, <2>3
<1>5. ASSUME NEW w \in Threads, Take(w) \/ Leave(w)
      PROVE  Shape'
  <2>1. CASE Take(w)
    <3>1. PICK r \in queued : range' = [range EXCEPT ![w] = r]
      BY <2>1 DEF Take
    <3>2. r \in Ranges
      BY <3>1 DEF Separate, Cut
    <3>. QED BY <2>1, <3>1, <3>2 DEF Take, pool
  <2>2. CASE Leave(w)
    BY <2>2 DEF Leave
  <2>. QED BY <1>5, <2>1, <2>2
<1>6. ASSUME NEW w \in Workers, Apply(w) \/ End(w)
      PROVE  Shape'
  <2>1. CASE Apply(w)
    <3>1. Cut(range[w])
      BY DEF Separate
    <3>2. range[w].from \in 0 .. next - 1 /\ range[w] \in Ranges
      BY <2>1, <3>1 DEF Apply, Cut
    <3>3. Advanced(range[w]) \in Ranges
      BY <3>2 DEF Advanced
    <3>. QED BY <2>1, <3>2, <3>3 DEF Apply, pool
  <2>2. CASE End(w)
    BY <2>2 DEF End, Nothing, pool
  <2>. QED BY <1>6, <2>1, <2>2
<1>7. CASE UNCHANGED vars
  BY <1>7 DEF vars
<1>. QED BY <1>1, <1>2, <1>3, <1>4, <1>5, <1>6, <1>7 DEF Next

\* A range that is cut off behind all the others is apart from them.
LEMMA NewRange ==
  ASSUME Shape, Separate, NEW r \in Ranges, r.from = next, r.from <= r.to,
         next' = r.to, queued' \in {queued, queued \cup {r}},
         UNCHANGED <<range, applied, again>>
  PROVE  Separate'
<1>1. r.from <= r.to /\ \A i \in applied : ~In(i, r)
  BY DEF Shape, In
<1>2. \A s \in queued' : Cut(s)'
  BY <1>1 DEF Separate, Cut, Shape, In, Ranges
<1>3. \A w \in Workers : Cut(range[w])'
  BY <1>1 DEF Separate, Cut, Shape, In, Ranges
<1>4. (\A s \in queued : Apart(s, r) /\ Apart(r, s)) /\ \A w \in Workers : Apart(r, range[w])
  BY DEF Separate, Cut, Apart
<1>. QED BY <1>2, <1>3, <1>4 DEF Separate, Apart

\* The ranges stay apart, and ahead of what is applied.
LEMMA SeparateStep == Shape /\ Separate /\ [Next]_vars => Separate'
<1>. SUFFICES ASSUME Shape, Separate, [Next]_vars PROVE Separate'
  OBVIOUS
<1>1. CASE Call
  <2>1. CASE UNCHANGED <<range, next>>
    BY <1>1, <2>1 DEF Call, Separate, Cut
  <2>2. CASE ~UNCHANGED <<range, next>>
    <3>1. range' = [range EXCEPT ![Caller] = Remainder] /\ next' = size /\ UNCHANGED <<queued, applied, again>>
      BY <1>1, <2>2 DEF Call
    <3>. QED BY <3>1 DEF Separate, Cut, Apart, Shape, Remainder, In, Workers, Ranges
  <2>. QED BY <2>1, <2>2
<1>2. CASE Loop
  <2>. DEFINE r == [from |-> next, to |-> next + Subrange]
  <2>1. r \in Ranges /\ r.from = next /\ r.from <= r.to
    BY SubrangePositive DEF Shape, Ranges
  <2>. QED BY <1>2, <2>1, NewRange DEF Loop, Run
<1>3. CASE Rest
  <2>1. Remainder \in Ranges /\ Remainder.from = next /\ Remainder.from <= Remainder.to
    BY DEF Shape, Ranges, Remainder
  <2>2. queued' \in {queued, queued \cup {Remainder}} /\ next' = Remainder.to
    BY <1>3 DEF Rest, Run, Remainder
  <2>. QED BY <1>3, <2>1, <2>2, NewRange DEF Rest
<1>4. CASE Return \/ Stop \/ Stopped
  BY <1>4 DEF Return, Stop, Stopped, pool, Separate, Cut
<1>5. ASSUME NEW w \in Threads, Take(w)
      PROVE  Separate'
  <2>1. PICK r \in queued : queued' = queued \ {r} /\ range' = [range EXCEPT ![w] = r]
    BY <1>5 DEF Take
  <2>2. \A v \in Workers : range'[v] = IF v = w THEN r ELSE range[v]
    BY <2>1, <1>5 DEF Shape, Workers
  <2>. QED BY <1>5, <2>1, <2>2 DEF Take, Separate, Cut, Apart
<1>6. ASSUME NEW w \in Threads, Leave(w)
      PROVE  Separate'
  BY <1>6 DEF Leave, Separate, Cut
<1>7. ASSUME NEW w \in Workers, Apply(w)
      PROVE  Separate'
  <2>. DEFINE r == range[w]
  <2>1. Cut(r) /\ r.from < r.to /\ r.from \notin applied
    BY <1>7 DEF Separate, Apply, Cut, Ranges, In
  <2>. r \in Ranges /\ applied \subseteq Nat
    BY <2>1 DEF Cut, Shape
  <2>9. Advanced(r) = [from |-> r.from + 1, to |-> r.to]
    BY DEF Advanced, Ranges
  <2>2. /\ again' = again /\ applied' = applied \cup {r.from} /\ UNCHANGED <<queued, next>>
        /\ range' = [range EXCEPT ![w] = [from |-> r.from + 1, to |-> r.to]]
    BY <1>7, <2>1, <2>9 DEF Apply
  <2>3. \A v \in Workers : range'[v] = IF v = w THEN [from |-> r.from + 1, to |-> r.to] ELSE range[v]
    BY <2>2 DEF Shape
  <2>4. \A v \in Workers \ {w} : Cut(range[v])'
    BY <2>1, <2>2, <2>3 DEF Separate, Cut, Apart, In, Ranges
  <2>5. \A s \in queued : Cut(s)'
    BY <2>1, <2>2 DEF Separate, Cut, Apart, In, Ranges
  <2>6. Cut(range[w])'
    <3>1. range'[w] \in Ranges /\ r.from + 1 <= r.to /\ r.to <= next'
      BY <2>1, <2>2, <2>3 DEF Cut, Ranges
    <3>2. \A i \in applied' : ~In(i, range'[w])
      BY <2>1, <2>2, <2>3 DEF Cut, In, Ranges
    <3>. QED BY <2>3, <3>1, <3>2 DEF Cut
  <2>7. \A s \in queued, v \in Workers : Apart(s, range'[v])
    BY <2>1, <2>3 DEF Separate, Cut, Apart, Ranges
  <2>8. \A u, v \in Workers : u # v => Apart(range'[u], range'[v])
    BY <2>1, <2>3 DEF Separate, Cut, Apart, Ranges
  <2>. QED BY <2>2, <2>4, <2>5, <2>6, <2>7, <2>8 DEF Separate, Apart
<1>8. ASSUME NEW w \in Workers, End(w)
      PROVE  Separate'
  <2>1. \A v \in Workers : range'[v] = IF v = w THEN Nothing ELSE range[v]
    BY <1>8 DEF End, Shape
  <2>. QED BY <1>8, <2>1 DEF End, Separate, Cut, Apart, In, Nothing, Ranges, Shape
<1>9. CASE UNCHANGED vars
  BY <1>9 DEF vars, Separate, Cut
<1>. QED BY <1>1, <1>2, <1>3, <1>4, <1>5, <1>6, <1>7, <1>8, <1>9 DEF Next, Workers

\* Nothing that was cut off is lost on its way.
LEMMA CompleteStep == IInv /\ [Next]_vars => (stops = 0 => Complete)'
<1>. SUFFICES ASSUME IInv, [Next]_vars, stops' = 0 PROVE Complete'
  OBVIOUS
<1>. USE DEF IInv
<1>0. stops = 0
  <2>1. CASE Stop
    BY <2>1 DEF Stop, Shape
  <2>2. CASE ~Stop
    BY <2>2 DEF Next, vars, Call, Loop, Rest, Return, Take, Leave, Apply, End, Stopped, pool
  <2>. QED BY <2>1, <2>2
<1>. USE <1>0 DEF Complete
<1>1. CASE Call
  <2>1. CASE ~(size < Minimum)
    <3>1. UNCHANGED <<range, next, queued, applied, stopped>> /\ pc = "called" /\ pc' = "loop"
      BY <1>1, <2>1 DEF Call, pool
    <3>. QED BY <3>1 DEF Placed
  <2>2. CASE size < Minimum
    <3>1. /\ range' = [range EXCEPT ![Caller] = Remainder] /\ pc = "called" /\ pc' = "serial"
          /\ next' = size /\ UNCHANGED <<size, queued, applied, stopped>>
      BY <1>1, <2>2 DEF Call, pool
    <3>2. \A w \in Workers : range'[w] = IF w = Caller THEN Remainder ELSE range[w]
      BY <3>1 DEF Shape
    <3>3. \A i \in 0 .. next - 1 : Placed(i)'
      BY <3>1, <3>2 DEF Placed, In, Nothing, Shape, Workers
    <3>4. \A i \in next .. size - 1 : In(i, Remainder)
      BY DEF In, Remainder, Shape
    <3>5. \A i \in next .. size - 1 : Placed(i)'
      BY <3>2, <3>4 DEF Placed, Workers
    <3>6. Idle'
      BY <3>1, <3>2, CallerAssumption DEF Idle, Workers
    <3>. QED BY <3>1, <3>3, <3>5, <3>6 DEF Shape
  <2>. QED BY <2>1, <2>2
<1>2. CASE Loop
  <2>. DEFINE r == [from |-> next, to |-> next + Subrange]
  <2>1. queued' = queued \cup {r} /\ pc = "loop" /\ UNCHANGED <<range, applied, stopped, pc>> /\ next' = next + Subrange
    BY <1>2 DEF Loop, Run, pool
  <2>2. \A i \in 0 .. next' - 1 : i \in 0 .. next - 1 \/ In(i, r)
    BY <2>1, SubrangePositive DEF In, Shape
  <2>3. \A i \in 0 .. next' - 1 : Placed(i)'
    BY <2>1, <2>2 DEF Placed
  <2>. QED BY <2>1, <2>3
<1>3. CASE Rest
  <2>1. pc = "loop" /\ pc' = "wait" /\ UNCHANGED <<range, applied, stopped, size>> /\ next' = size
    BY <1>3 DEF Rest, pool
  <2>2. next = size \/ queued' = queued \cup {Remainder}
    BY <1>3 DEF Rest, Run
  <2>3. queued \subseteq queued' /\ \A i \in next .. size - 1 : In(i, Remainder)
    BY <1>3 DEF Rest, Run, In, Remainder, Shape
  <2>4. \A i \in 0 .. size - 1 : Placed(i)'
    BY <2>1, <2>2, <2>3 DEF Placed, Shape
  <2>. QED BY <2>1, <2>4
<1>4. CASE Return
  BY <1>4 DEF Return, MayReturn, Placed, Idle, pool
<1>5. CASE Stop \/ Stopped
  BY <1>5 DEF Stop, Stopped, Shape
<1>6. ASSUME NEW w \in Threads, Take(w)
      PROVE  Complete'
  <2>1. PICK r \in queued : queued' = queued \ {r} /\ range' = [range EXCEPT ![w] = r]
    BY <1>6 DEF Take
  <2>2. \A v \in Workers : range'[v] = IF v = w THEN r ELSE range[v]
    BY <2>1 DEF Shape, Workers
  <2>3. range[w] = Nothing /\ UNCHANGED <<pc, next, size, applied, stopped>> /\ ~Idle
    BY <1>6, <2>1 DEF Take, pool, Idle
  <2>4. \A i \in 0 .. next - 1 : Placed(i)'
    BY <2>1, <2>2, <2>3 DEF Placed, In, Nothing, Workers
  <2>5. range'[Caller] = range[Caller]
    BY <2>2, CallerAssumption DEF Workers
  <2>. QED BY <2>3, <2>4, <2>5
<1>7. ASSUME NEW w \in Threads, Leave(w)
      PROVE  Complete'
  BY <1>7 DEF Leave, Shape
<1>8. ASSUME NEW w \in Workers, Apply(w)
      PROVE  Complete'
  <2>. DEFINE r == range[w]
  <2>1. r \in Ranges /\ r.from # r.to
    BY <1>8 DEF Apply, Shape
  <2>2. UNCHANGED <<queued, pc, next, size, stopped>> /\ applied' = applied \cup {r.from}
    BY <1>8 DEF Apply, pool
  <2>3. \A v \in Workers : range'[v] = IF v = w THEN [from |-> r.from + 1, to |-> r.to] ELSE range[v]
    BY <1>8, <2>1 DEF Apply, Advanced, Shape, Ranges
  <2>4. \A i \in 0 .. next - 1 : Placed(i)'
    BY <2>1, <2>2, <2>3 DEF Placed, In, Ranges
  <2>5. r # Nothing
    BY <2>1 DEF Nothing
  <2>6. w = Caller => pc = "serial"
    BY <2>5
  <2>7. Idle => Idle'
    BY <2>2, <2>3, <2>5 DEF Idle, Workers
  <2>. QED BY <2>2, <2>3, <2>4, <2>5, <2>6, <2>7 DEF Workers
<1>9. ASSUME NEW w \in Workers, End(w)
      PROVE  Complete'
  <2>1. \A v \in Workers : range'[v] = IF v = w THEN Nothing ELSE range[v]
    BY <1>9 DEF End, Shape
  <2>2. UNCHANGED <<queued, pc, next, size, applied, stopped>> /\ range[w].from = range[w].to /\ range[w] \in Ranges
    BY <1>9 DEF End, pool, Shape
  <2>3. \A i \in 0 .. next - 1 : Placed(i)'
    BY <2>1, <2>2 DEF Placed, In, Ranges
  <2>4. Idle => Idle'
    BY <2>1, <2>2 DEF Idle, Workers
  <2>. QED BY <2>1, <2>2, <2>3, <2>4 DEF Workers
<1>10. CASE UNCHANGED vars
  BY <1>10 DEF vars, Placed, Idle
<1>. QED BY <1>1, <1>2, <1>3, <1>4, <1>5, <1>6, <1>7, <1>8, <1>9, <1>10 DEF Next, Workers

\* The invariant holds in every state.
LEMMA Invariant == Spec => []IInv
<1>1. Init => IInv
  <2>. SUFFICES ASSUME Init PROVE IInv
    OBVIOUS
  <2>1. Shape
    <3>1. range \in [Workers -> Ranges]
      BY DEF Init, Workers, Ranges, Nothing
    <3>2. size \in Nat
      BY ApplyAssumption DEF Init
    <3>3. next = 0 /\ applied = {} /\ stops = 0 /\ stopped = FALSE
      BY DEF Init
    <3>4. next \in 0 .. size /\ applied \subseteq 0 .. next - 1
      BY <3>2, <3>3
    <3>. QED BY <3>1, <3>2, <3>3, <3>4 DEF Shape
  <2>2. Separate
    BY DEF Init, Separate, Cut, Apart, In, Ranges, Nothing, Workers
  <2>3. Complete
    BY DEF Init, Complete, Idle, Workers
  <2>. QED BY <2>1, <2>2, <2>3 DEF IInv
<1>2. IInv /\ [Next]_vars => IInv'
  BY ShapeStep, SeparateStep, CompleteStep DEF IInv
<1>. QED BY <1>1, <1>2, PTL DEF Spec

\* The function is called with no element twice.
THEOREM ApplyOnce == Spec => []AppliedOnce
<1>1. IInv => AppliedOnce
  BY DEF IInv, Separate, AppliedOnce
<1>. QED BY <1>1, Invariant, PTL

\* It has been called with all of them when parallel_apply() returns, unless
\* the pool is stopped.
THEOREM ApplyAll == Spec => []AppliedAll
<1>1. IInv => AppliedAll
  <2>. SUFFICES ASSUME IInv, pc = "returned", stops = 0 PROVE applied = 0 .. size - 1
    BY DEF AppliedAll
  <2>1. next = size /\ queued = {} /\ \A w \in Workers : range[w] = Nothing
    BY DEF IInv, Complete, Idle, Workers
  <2>2. \A i \in 0 .. size - 1 : i \in applied
    BY <2>1 DEF IInv, Complete, Placed, In, Nothing
  <2>. QED BY <2>1, <2>2 DEF IInv, Shape
<1>. QED BY <1>1, Invariant, PTL
----------------------------------------------------------------------------
(* The end of the call, also while the pool is stopped.                    *)

Control ==
  /\ size \in Sizes /\ gone \subseteq Threads /\ stops \in 0 .. MaxStops
  /\ pc \in {"called", "serial", "loop", "wait", "returned"}

\* Before its first task is queued, and once it has seen the pool idle, the
\* caller is all that is at work; a pool stopped once has no threads left.
Settled ==
  /\ \A w \in gone : range[w] = Nothing
  /\ stopped /\ stops <= 1 => gone = Threads
  /\ pc \in {"called", "serial"} => Idle
  /\ pc = "returned" /\ stops <= 1 => Idle \/ gone = Threads

\* The size, the place of the caller and the stops keep their types.
LEMMA ControlStep == Control /\ [Next]_vars => Control'
<1>. SUFFICES ASSUME Control, [Next]_vars PROVE Control'
  OBVIOUS
<1>. USE ApplyAssumption DEF Control
<1>1. CASE Call \/ Loop \/ Rest \/ Return
  BY <1>1 DEF Call, Loop, Rest, Return, pool
<1>2. CASE Stop \/ Stopped
  BY <1>2 DEF Stop, Stopped
<1>3. ASSUME NEW w \in Threads, Take(w) \/ Leave(w)
      PROVE  Control'
  BY <1>3 DEF Take, Leave, pool
<1>4. ASSUME NEW w \in Workers, Apply(w) \/ End(w)
      PROVE  Control'
  BY <1>4 DEF Apply, End, pool
<1>5. CASE UNCHANGED vars
  BY <1>5 DEF vars
<1>. QED BY <1>1, <1>2, <1>3, <1>4, <1>5 DEF Next, Workers

\* Nobody is at work before the first task is queued, nor after the end.
LEMMA SettledStep == Shape /\ Control /\ Settled /\ [Next]_vars => Settled'
<1>. SUFFICES ASSUME Shape, Control, Settled, [Next]_vars PROVE Settled'
  OBVIOUS
<1>. USE DEF Settled, Idle
<1>1. CASE Call
  <2>1. /\ pc = "called" /\ UNCHANGED <<queued, gone, stops, stopped>>
        /\ \A w \in Threads : range'[w] = range[w]
    BY <1>1, CallerAssumption DEF Call, pool, Shape, Workers
  <2>. QED BY <2>1 DEF Control
<1>2. CASE Loop
  BY <1>2 DEF Loop, pool
<1>3. CASE Rest
  BY <1>3 DEF Rest, pool
<1>4. CASE Return
  BY <1>4 DEF Return, MayReturn, pool
<1>5. CASE Stop
  BY <1>5 DEF Stop, Shape
<1>6. CASE Stopped
  BY <1>6 DEF Stopped, Shape
<1>7. ASSUME NEW w \in Threads, Take(w)
      PROVE  Settled'
  <2>1. /\ queued # {} /\ w \notin gone /\ gone # Threads
        /\ UNCHANGED <<pc, gone, stops, stopped>>
    BY <1>7 DEF Take, pool
  <2>2. \A v \in Threads \ {w} : range'[v] = range[v]
    BY <1>7 DEF Take, Shape, Workers
  <2>. QED BY <2>1, <2>2 DEF Control
<1>8. ASSUME NEW w \in Threads, Leave(w)
      PROVE  Settled'
  BY <1>8 DEF Leave, Control
<1>9. ASSUME NEW w \in Workers, Apply(w)
      PROVE  Settled'
  <2>1. /\ range[w] # Nothing /\ UNCHANGED <<queued, pc, gone, stops, stopped>>
        /\ \A v \in Workers \ {w} : range'[v] = range[v]
    BY <1>9 DEF Apply, Nothing, pool, Shape
  <2>. QED BY <2>1 DEF Control, Workers
<1>10. ASSUME NEW w \in Workers, End(w)
       PROVE  Settled'
  <2>1. /\ range[w] # Nothing /\ UNCHANGED <<queued, pc, gone, stops, stopped>>
        /\ \A v \in Workers \ {w} : range'[v] = range[v]
    BY <1>10 DEF End, pool, Shape
  <2>. QED BY <2>1 DEF Control, Workers
<1>11. CASE UNCHANGED vars
  BY <1>11 DEF vars
<1>. QED BY <1>1, <1>2, <1>3, <1>4, <1>5, <1>6, <1>7, <1>8, <1>9, <1>10, <1>11
        DEF Next, Workers

\* Each element is applied once, all of them are when the call returns, and
\* nothing is at work on them after it, unless the pool is stopped around it.
THEOREM ApplyIsSafe == Spec => []ApplySafe
<1>1. Init => Control /\ Settled
  BY ApplyAssumption DEF Init, Control, Settled, Idle
<1>2. IInv /\ Control /\ Settled /\ [Next]_vars => (Control /\ Settled)'
  BY ControlStep, SettledStep DEF IInv
<1>3. ASSUME IInv, Control, Settled
      PROVE  TypeOK /\ NoUseAfterReturn
  <2>1. NoUseAfterReturn
    BY <1>3 DEF Settled, NoUseAfterReturn, Idle
  <2>2. \A r \in queued \cup {range[w] : w \in Workers} :
          r \in Ranges /\ r.from <= r.to /\ r.to <= next
    BY <1>3 DEF IInv, Separate, Cut
  <2>3. /\ size \in Nat /\ next \in Nat /\ next <= size
        /\ applied \subseteq 0 .. next - 1 /\ again = {}
    BY <1>3 DEF IInv, Shape, Separate
  <2>4. \A r \in queued \cup {range[w] : w \in Workers} : r.from <= r.to /\ r.to <= size
    BY <2>2, <2>3 DEF Ranges
  <2>5. applied \subseteq 0 .. size - 1
    BY <2>3
  <2>6. queued \subseteq Ranges /\ range \in [Workers -> Ranges]
    BY <1>3, <2>2 DEF IInv, Shape
  <2>7. TypeOK
    BY <1>3, <2>3, <2>4, <2>5, <2>6 DEF IInv, Shape, Control, TypeOK, Workers
  <2>. QED BY <2>1, <2>7
<1>4. [](IInv /\ Control /\ Settled => TypeOK /\ NoUseAfterReturn)
  BY <1>3, PTL
<1>. QED BY <1>1, <1>2, <1>4, Invariant, ApplyOnce, ApplyAll, PTL DEF Spec, ApplySafe

----------------------------------------------------------------------------
(* Events.                                                                 *)

EventConstants ==
  /\ SubscribesTo \in [SlotNames -> EventNames]
  /\ Emitted \in [Threads -> SUBSET EventNames]
  /\ MaxDepth \in Nat /\ MaxTriggers \in Nat
  /\ None \notin Threads \X (1 .. MaxDepth)
  /\ \A t, u \in Threads : t # u => Emitted[t] \cap Emitted[u] = {}

LEMMA EventConstantsHold == EventConstants
BY PartsAssumption DEF E!EventAssumption, E!EmittersApart, EventConstants

\* The triggers of e among the first i - 1 that thread t is in.
Before(t, e, i) == {j \in 1 .. i - 1 : stack[t][j].event = e}

\* v is the work list of the innermost of the triggers in K, of thread t.
Points(v, t, K) ==
  /\ K = {} => v = None
  /\ K # {} => \E m \in K : v = <<t, m>> /\ \A j \in K : j <= m

\* A trigger that a thread is in: its work list is as it was when it began;
\* while its event exists it has saved the pointer to the trigger around it,
\* and if a handler of it called accept() its work list says so.
CallKept(t, i) ==
  /\ stack[t][i].event \in Emitted[t]
  /\ eventLists[<<t, i>>].slots = stack[t][i].due
  /\ stack[t][i].event \notin dead =>
       /\ Points(stack[t][i].saved, t, Before(t, stack[t][i].event, i))
       /\ stack[t][i].asked => eventLists[<<t, i>>].accepted

CallsKept(t) ==
  /\ Len(stack[t]) <= MaxDepth
  /\ \A i \in 1 .. Len(stack[t]) : CallKept(t, i)
  /\ \A e \in Emitted[t] \ dead : Points(active[e], t, Before(t, e, Len(stack[t]) + 1))

\* A work list says `accepted` because a handler did, or because the trigger
\* that used it last was cut short.
FlagKnown(t, d) ==
  eventLists[<<t, d>>].accepted =>
    \/ d <= Len(stack[t]) /\ stack[t][d].asked
    \/ <<t, d>> \in cut

EventInv ==
  /\ E!TypeOK
  /\ \A t \in Threads : CallsKept(t)
  /\ \A t \in Threads : \A d \in 1 .. MaxDepth : FlagKnown(t, d)

LEMMA EventTyped ==
  ASSUME EventInv
  PROVE  /\ slots \in [EventNames -> Seq(SlotNames)]
         /\ active \in [EventNames -> E!WorkLists \cup {None}]
         /\ eventLists \in [E!WorkLists -> [slots : Seq(SlotNames), accepted : BOOLEAN]]
         /\ stack \in [Threads -> Seq(E!Frames)]
         /\ dead \subseteq EventNames /\ eventsTouched \subseteq dead
         /\ slotsBorn \subseteq SlotNames /\ triggers \in 0 .. MaxTriggers
         /\ result \in [Threads -> E!Results] /\ cut \subseteq E!WorkLists
BY DEF EventInv, E!TypeOK

\* find_if() and erase(): a slot is taken out of the list.
LEMMA RemoveFirstIsSeq ==
  ASSUME NEW q \in Seq(SlotNames), NEW x
  PROVE  E!RemoveFirst(q, x) \in Seq(SlotNames)
<1>1. CASE ~ \E i \in 1 .. Len(q) : q[i] = x
  BY <1>1 DEF E!RemoveFirst
<1>2. CASE \E i \in 1 .. Len(q) : q[i] = x
  <2> DEFINE I == {i \in 1 .. Len(q) : q[i] = x}
  <2>1. I # {} /\ I \subseteq Nat /\ I \subseteq 1 .. Len(q) /\ Len(q) \in Nat
    BY <1>2, LenProperties
  <2>2. PICK k \in I : \A j \in I : ~ (<<j, k>> \in OpToRel(<, Nat))
    <3> HIDE DEF I
    <3> QED BY <2>1, NatLessThanWellFounded, WFMin
  <2>3. \A j \in I : k <= j
    <3> HIDE DEF I
    <3>1. \A j \in I : ~ (j < k)
      BY <2>1, <2>2 DEF OpToRel
    <3> QED BY <2>1, <3>1
  <2>4. E!Min(I) \in I
    <3> HIDE DEF I
    <3> QED BY <2>1, <2>3 DEF E!Min
  <2>5. E!SelectInSeq(q, LAMBDA v : v = x) = E!Min(I)
    BY <2>1 DEF E!SelectInSeq
  <2> DEFINE p == E!Min(I)
  <2>6. p \in 1 .. Len(q)
    BY <2>4, <2>1
  <2> HIDE DEF I, p
  <2>7. SubSeq(q, 1, p - 1) \in Seq(SlotNames) /\ SubSeq(q, p + 1, Len(q)) \in Seq(SlotNames)
    BY <2>1, <2>6, SubSeqProperties
  <2>8. E!RemoveFirst(q, x) = SubSeq(q, 1, p - 1) \o SubSeq(q, p + 1, Len(q))
    BY <1>2, <2>5 DEF E!RemoveFirst, E!RemoveAt, p
  <2> QED BY <2>7, <2>8, ConcatProperties
<1> QED BY <1>1, <1>2

LEMMA FrameType ==
  ASSUME NEW x \in E!Frames
  PROVE  /\ x.event \in EventNames /\ x.next \in Nat /\ x.due \in Seq(SlotNames)
         /\ x.saved \in E!WorkLists \cup {None} /\ x.asked \in BOOLEAN
         /\ \A n \in Nat : [x EXCEPT !.next = n] \in E!Frames
         /\ [x EXCEPT !.asked = TRUE] \in E!Frames
BY DEF E!Frames

LEMMA StackType ==
  ASSUME EventInv, NEW t \in Threads
  PROVE  /\ stack[t] \in Seq(E!Frames) /\ Len(stack[t]) \in 0 .. MaxDepth
         /\ \A i \in 1 .. Len(stack[t]) : stack[t][i] \in E!Frames
         /\ DOMAIN stack[t] = 1 .. Len(stack[t])
         /\ stack[t] # <<>> => Len(stack[t]) \in 1 .. MaxDepth
         /\ \A d \in 1 .. MaxDepth : <<t, d>> \in E!WorkLists
<1>1. stack[t] \in Seq(E!Frames)
  BY EventTyped
<1>2. Len(stack[t]) <= MaxDepth /\ MaxDepth \in Nat
  BY EventConstantsHold DEF EventInv, CallsKept, EventConstants
<1>3. Len(stack[t]) \in Nat /\ (stack[t] # <<>> => Len(stack[t]) # 0)
  BY <1>1, LenProperties, EmptySeq
<1>4. \A i \in 1 .. Len(stack[t]) : stack[t][i] \in E!Frames
  BY <1>1, ElementOfSeq
<1> QED BY <1>1, <1>2, <1>3, <1>4 DEF E!WorkLists, E!Depths

\* What a step keeps of a thread that it is not of.
LEMMA OtherThread ==
  ASSUME EventInv, NEW u \in Threads, stack'[u] = stack[u], dead \subseteq dead',
         \A d \in 1 .. MaxDepth : eventLists'[<<u, d>>] = eventLists[<<u, d>>],
         \A e \in Emitted[u] \ dead' : active'[e] = active[e],
         \A d \in 1 .. MaxDepth : <<u, d>> \in cut => <<u, d>> \in cut'
  PROVE  CallsKept(u)' /\ \A d \in 1 .. MaxDepth : FlagKnown(u, d)'
<1>1. CallsKept(u) /\ \A d \in 1 .. MaxDepth : FlagKnown(u, d)
  BY DEF EventInv
<1>2. Len(stack[u]) \in 0 .. MaxDepth /\ MaxDepth \in Nat
  BY StackType, EventConstantsHold DEF EventConstants
<1>3. \A e, i : Before(u, e, i)' = Before(u, e, i)
  BY DEF Before
<1>4. \A i \in 1 .. Len(stack[u]) : CallKept(u, i)'
  <2> SUFFICES ASSUME NEW i \in 1 .. Len(stack[u]) PROVE CallKept(u, i)'
    OBVIOUS
  <2>1. CallKept(u, i) /\ i \in 1 .. MaxDepth
    BY <1>1, <1>2 DEF CallsKept
  <2>2. eventLists'[<<u, i>>] = eventLists[<<u, i>>]
    BY <2>1
  <2> QED BY <2>1, <2>2, <1>3 DEF CallKept, Points
<1>5. \A e \in Emitted[u] \ dead' : Points(active[e], u, Before(u, e, Len(stack[u]) + 1))'
  BY <1>1, <1>3 DEF CallsKept, Points
<1>6. \A d \in 1 .. MaxDepth : FlagKnown(u, d)'
  BY <1>1 DEF FlagKnown
<1> QED BY <1>1, <1>4, <1>5, <1>6 DEF CallsKept

\* The events of different threads differ.
LEMMA OtherEvents ==
  ASSUME NEW t \in Threads, NEW u \in Threads, t # u, NEW e \in Emitted[t]
  PROVE  e \notin Emitted[u]
BY EventConstantsHold DEF EventConstants

LEMMA TriggerTypes ==
  ASSUME EventInv, NEW t \in Threads, NEW e \in EventNames, E!Trigger(t, e)
  PROVE  LET d == Len(stack[t]) + 1
             x == [event |-> e, next |-> 1, saved |-> active[e], due |-> slots[e], asked |-> FALSE]
         IN  /\ d \in 1 .. MaxDepth /\ e \in Emitted[t] \ dead /\ x \in E!Frames
             /\ active' = [active EXCEPT ![e] = <<t, d>>]
             /\ eventLists' = [eventLists EXCEPT ![<<t, d>>] =
                                 [eventLists[<<t, d>>] EXCEPT !.slots = slots[e]]]
             /\ stack' = [stack EXCEPT ![t] = Append(stack[t], x)]
             /\ stack'[t] = Append(stack[t], x)
             /\ Len(stack'[t]) = d /\ stack'[t][d] = x
             /\ \A i \in 1 .. d - 1 : stack'[t][i] = stack[t][i]
             /\ triggers' \in 0 .. MaxTriggers
             /\ UNCHANGED <<slots, dead, slotsBorn, result, cut, eventsTouched>>
<1> DEFINE d == Len(stack[t]) + 1
           x == [event |-> e, next |-> 1, saved |-> active[e], due |-> slots[e], asked |-> FALSE]
<1> USE EventConstantsHold DEF EventConstants
<1>1. stack[t] \in Seq(E!Frames) /\ Len(stack[t]) \in 0 .. MaxDepth
  BY StackType
<1>2. /\ Len(stack[t]) < MaxDepth /\ triggers < MaxTriggers /\ e \in Emitted[t] \ dead
      /\ active' = [active EXCEPT ![e] = <<t, d>>]
      /\ stack' = [stack EXCEPT ![t] = Append(stack[t], x)]
      /\ triggers' = triggers + 1
      /\ UNCHANGED <<slots, dead, slotsBorn, result, cut, eventsTouched>>
  BY DEF E!Trigger, E!Depth, E!ListOf, E!Activated
<1>3. eventLists' = [eventLists EXCEPT ![<<t, d>>] =
                                 [eventLists[<<t, d>>] EXCEPT !.slots = slots[e]]]
  BY DEF E!Trigger, E!Depth, E!ListOf
<1>4. x \in E!Frames
  BY EventTyped DEF E!Frames
<1>5. d \in 1 .. MaxDepth
  BY <1>1, <1>2
<1>6. triggers' \in 0 .. MaxTriggers
  BY <1>2, EventTyped
<1>7. stack'[t] = Append(stack[t], x)
  BY <1>2, EventTyped
<1> HIDE DEF x
<1>8. /\ Len(stack'[t]) = d /\ stack'[t][d] = x
      /\ \A i \in 1 .. d - 1 : stack'[t][i] = stack[t][i]
  BY <1>1, <1>4, <1>7, AppendProperties
<1> HIDE DEF d
<1>9. d = Len(stack[t]) + 1
  BY DEF d
<1> QED BY <1>2, <1>3, <1>4, <1>5, <1>6, <1>7, <1>8 DEF x, d

LEMMA TriggerKeeps ==
  ASSUME EventInv, NEW t \in Threads, NEW e \in EventNames, E!Trigger(t, e)
  PROVE  \A u \in Threads : CallsKept(u)' /\ \A d \in 1 .. MaxDepth : FlagKnown(u, d)'
<1>. PICK d : d = Len(stack[t]) + 1
  OBVIOUS
<1>. PICK x : x = [event |-> e, next |-> 1, saved |-> active[e], due |-> slots[e], asked |-> FALSE]
  OBVIOUS
<1>1. /\ d \in 1 .. MaxDepth /\ e \in Emitted[t] \ dead
      /\ active' = [active EXCEPT ![e] = <<t, d>>]
      /\ eventLists' = [eventLists EXCEPT ![<<t, d>>] =
                          [eventLists[<<t, d>>] EXCEPT !.slots = slots[e]]]
      /\ stack' = [stack EXCEPT ![t] = Append(stack[t], x)]
      /\ Len(stack'[t]) = d /\ stack'[t][d] = x
      /\ \A i \in 1 .. d - 1 : stack'[t][i] = stack[t][i]
      /\ dead' = dead /\ cut' = cut
  BY TriggerTypes
<1>2. /\ CallsKept(t) /\ \A i \in 1 .. MaxDepth : FlagKnown(t, i)
      /\ Len(stack[t]) = d - 1 /\ d - 1 \in 0 .. MaxDepth /\ MaxDepth \in Nat
  BY StackType, EventConstantsHold DEF EventInv, EventConstants
<1>x. /\ x.event = e /\ x.saved = active[e] /\ x.due = slots[e] /\ ~ x.asked
  OBVIOUS
<1>3. \A i \in 1 .. d - 1 : eventLists'[<<t, i>>] = eventLists[<<t, i>>]
  BY <1>1, <1>2, EventTyped, StackType
<1>4. \A i \in 1 .. MaxDepth : eventLists'[<<t, i>>].accepted = eventLists[<<t, i>>].accepted
  <2> SUFFICES ASSUME NEW i \in 1 .. MaxDepth
               PROVE  eventLists'[<<t, i>>].accepted = eventLists[<<t, i>>].accepted
    OBVIOUS
  <2>1. CASE i = d
    BY <2>1, <1>1, EventTyped, StackType
  <2>2. CASE i # d
    BY <2>2, <1>1, EventTyped, StackType
  <2> QED BY <2>1, <2>2
<1>5. eventLists'[<<t, d>>].slots = slots[e]
  BY <1>1, EventTyped, StackType
<1>6. \A f \in EventNames, i \in 1 .. d : Before(t, f, i)' = Before(t, f, i)
  BY <1>1, <1>2 DEF Before
<1>7. \A i \in 1 .. d - 1 : CallKept(t, i)'
  <2> SUFFICES ASSUME NEW i \in 1 .. d - 1 PROVE CallKept(t, i)'
    OBVIOUS
  <2>1. CallKept(t, i) /\ i \in 1 .. d
    BY <1>1, <1>2 DEF CallsKept
  <2>2. /\ stack'[t][i] = stack[t][i] /\ eventLists'[<<t, i>>] = eventLists[<<t, i>>]
        /\ Before(t, stack[t][i].event, i)' = Before(t, stack[t][i].event, i) /\ dead' = dead
    BY <2>1, <1>1, <1>3, <1>6 DEF Before
  <2>3. stack'[t][i].event \in Emitted[t] /\ eventLists'[<<t, i>>].slots = stack'[t][i].due
    BY <2>1, <2>2 DEF CallKept
  <2>4. stack'[t][i].event \notin dead' =>
          Points(stack[t][i].saved, t, Before(t, stack[t][i].event, i))'
    BY <2>1, <2>2 DEF CallKept, Points
  <2>5. stack'[t][i].event \notin dead' /\ stack'[t][i].asked => eventLists'[<<t, i>>].accepted
    BY <2>1, <2>2 DEF CallKept
  <2> QED BY <2>3, <2>4, <2>5 DEF CallKept
<1>8. Points(active[e], t, Before(t, e, d))
  BY <1>1, <1>2 DEF CallsKept
<1>9. CallKept(t, d)'
  <2>1. Before(t, e, d)' = Before(t, e, d)
    BY <1>1, <1>2, <1>6
  <2>2. Points(stack[t][d].saved, t, Before(t, stack[t][d].event, d))'
    BY <2>1, <1>1, <1>x, <1>8 DEF Points
  <2> QED BY <2>2, <1>1, <1>x, <1>5 DEF CallKept
<1>10. \A f \in Emitted[t] \ dead' : Points(active[f], t, Before(t, f, d + 1))'
  <2> SUFFICES ASSUME NEW f \in Emitted[t] \ dead PROVE Points(active[f], t, Before(t, f, d + 1))'
    BY <1>1
  <2>0. f \in EventNames
    BY EventConstantsHold DEF EventConstants
  <2>1. CASE f = e
    <3>1. active'[f] = <<t, d>>
      BY <2>0, <2>1, <1>1, EventTyped
    <3>2. d \in Before(t, f, d + 1)' /\ \A j \in Before(t, f, d + 1)' : j <= d
      BY <1>1, <1>2, <1>x, <2>1 DEF Before
    <3> QED BY <3>1, <3>2 DEF Points
  <2>2. CASE f # e
    <3>1. active'[f] = active[f]
      BY <2>2, <1>1, EventTyped
    <3>2. Before(t, f, d + 1)' = Before(t, f, d)
      BY <1>1, <1>2, <1>x, <2>2 DEF Before
    <3>3. Points(active[f], t, Before(t, f, d))
      BY <1>2 DEF CallsKept
    <3> QED BY <3>1, <3>2, <3>3 DEF Points
  <2> QED BY <2>1, <2>2
<1>11. CallsKept(t)'
  BY <1>1, <1>2, <1>7, <1>9, <1>10 DEF CallsKept
<1>12. \A i \in 1 .. MaxDepth : FlagKnown(t, i)'
  <2> SUFFICES ASSUME NEW i \in 1 .. MaxDepth, eventLists'[<<t, i>>].accepted
               PROVE  (i <= Len(stack'[t]) /\ stack'[t][i].asked) \/ <<t, i>> \in cut'
    BY DEF FlagKnown
  <2>1. (i <= d - 1 /\ stack[t][i].asked) \/ <<t, i>> \in cut
    BY <1>2, <1>4 DEF FlagKnown
  <2>2. CASE <<t, i>> \in cut
    BY <2>2, <1>1
  <2>3. CASE i <= d - 1 /\ stack[t][i].asked
    BY <2>3, <1>1
  <2> QED BY <2>1, <2>2, <2>3
<1>13. ASSUME NEW u \in Threads, u # t
       PROVE  CallsKept(u)' /\ \A i \in 1 .. MaxDepth : FlagKnown(u, i)'
  <2>1. stack'[u] = stack[u]
    BY <1>1, <1>13, EventTyped
  <2>2. \A i \in 1 .. MaxDepth : eventLists'[<<u, i>>] = eventLists[<<u, i>>]
    BY <1>1, <1>13, EventTyped, StackType
  <2>3. \A f \in Emitted[u] \ dead' : active'[f] = active[f]
    BY <1>1, <1>13, EventTyped, OtherEvents, EventConstantsHold DEF EventConstants
  <2> QED BY <2>1, <2>2, <2>3, <1>1, OtherThread
<1> QED BY <1>11, <1>12, <1>13

\* sync_trigger() returns: what all the ways to leave it have in common.
LEMMA LeaveTypes ==
  ASSUME EventInv, NEW t \in Threads, stack[t] # <<>>, NEW o \in E!Results, E!Leave(t, o)
  PROVE  LET d == Len(stack[t])
             e == stack[t][d].event
         IN  /\ d \in 1 .. MaxDepth /\ e \in EventNames /\ stack[t][d] \in E!Frames
             /\ e \in Emitted[t]
             /\ E!Current(t) = <<t, d>> /\ E!Top(t) = stack[t][d]
             /\ stack' = [stack EXCEPT ![t] = stack'[t]]
             /\ stack'[t] \in Seq(E!Frames) /\ Len(stack'[t]) = d - 1
             /\ \A i \in 1 .. d - 1 : stack'[t][i] = stack[t][i]
             /\ result' = [result EXCEPT ![t] = o]
             /\ e \in dead => active' = active /\ eventsTouched' = eventsTouched \cup {e}
             /\ e \notin dead => /\ active' = [active EXCEPT ![e] = stack[t][d].saved]
                                 /\ eventsTouched' = eventsTouched
             /\ UNCHANGED <<slots, dead, slotsBorn, triggers>>
<1>. PICK d : d = Len(stack[t])
  OBVIOUS
<1>1. /\ stack[t] \in Seq(E!Frames) /\ d \in 1 .. MaxDepth /\ stack[t][d] \in E!Frames
      /\ MaxDepth \in Nat
  BY StackType, EventConstantsHold DEF EventConstants
<1>2. stack[t][d].event \in EventNames /\ stack[t][d].event \in Emitted[t]
  <2>1. CallKept(t, d)
    BY <1>1 DEF EventInv, CallsKept
  <2> QED BY <2>1, <1>1, FrameType DEF CallKept
<1>3. E!Current(t) = <<t, d>> /\ E!Top(t) = stack[t][d]
  BY DEF E!Current, E!ListOf, E!Depth, E!Top, E!Last
<1>4. /\ stack' = [stack EXCEPT ![t] = SubSeq(stack[t], 1, d - 1)]
      /\ stack'[t] = SubSeq(stack[t], 1, d - 1)
  BY EventTyped DEF E!Leave, E!Front
<1>5. /\ stack'[t] \in Seq(E!Frames) /\ Len(stack'[t]) = d - 1
      /\ \A i \in 1 .. d - 1 : stack'[t][i] = stack[t][i]
  BY <1>1, <1>4, SubSeqProperties
<1>6. LET e == stack[t][d].event IN
      /\ e \in dead => active' = active /\ eventsTouched' = eventsTouched \cup {e}
      /\ e \notin dead => /\ active' = [active EXCEPT ![e] = stack[t][d].saved]
                          /\ eventsTouched' = eventsTouched
  BY <1>3 DEF E!Leave, E!Saved
<1>7. result' = [result EXCEPT ![t] = o] /\ UNCHANGED <<slots, dead, slotsBorn, triggers>>
  BY DEF E!Leave
<1> QED BY <1>1, <1>2, <1>3, <1>4, <1>5, <1>6, <1>7

LEMMA LeaveKeeps ==
  ASSUME EventInv, NEW t \in Threads, stack[t] # <<>>, NEW o \in E!Results, E!Leave(t, o),
         NEW l \in E!WorkLists, l = <<t, Len(stack[t])>>,
         \A k \in E!WorkLists : k # l => eventLists'[k] = eventLists[k],
         eventLists'[l].accepted => eventLists[l].accepted /\ l \in cut',
         \A k \in cut : k # l => k \in cut'
  PROVE  \A u \in Threads : CallsKept(u)' /\ \A d \in 1 .. MaxDepth : FlagKnown(u, d)'
<1>. PICK d : d = Len(stack[t])
  OBVIOUS
<1>. PICK e : e = stack[t][d].event
  OBVIOUS
<1>1. /\ d \in 1 .. MaxDepth /\ e \in EventNames /\ e \in Emitted[t] /\ l = <<t, d>>
      /\ stack' = [stack EXCEPT ![t] = stack'[t]] /\ Len(stack'[t]) = d - 1
      /\ \A i \in 1 .. d - 1 : stack'[t][i] = stack[t][i]
      /\ e \in dead => active' = active
      /\ e \notin dead => active' = [active EXCEPT ![e] = stack[t][d].saved]
      /\ dead' = dead
  BY LeaveTypes
<1>2. /\ CallsKept(t) /\ \A i \in 1 .. MaxDepth : FlagKnown(t, i)
      /\ MaxDepth \in Nat
  BY EventConstantsHold DEF EventInv, EventConstants
<1>3. \A i \in 1 .. MaxDepth : i # d => eventLists'[<<t, i>>] = eventLists[<<t, i>>]
  BY <1>1, StackType
<1>4. \A f \in EventNames, i \in 1 .. d : Before(t, f, i)' = Before(t, f, i)
  BY <1>1, <1>2 DEF Before
<1>5. \A i \in 1 .. d - 1 : CallKept(t, i)'
  <2> SUFFICES ASSUME NEW i \in 1 .. d - 1 PROVE CallKept(t, i)'
    OBVIOUS
  <2>1. CallKept(t, i) /\ i \in 1 .. d
    BY <1>1, <1>2 DEF CallsKept
  <2>2. /\ stack'[t][i] = stack[t][i] /\ eventLists'[<<t, i>>] = eventLists[<<t, i>>]
        /\ Before(t, stack[t][i].event, i)' = Before(t, stack[t][i].event, i) /\ dead' = dead
    <3>1. i \in 1 .. MaxDepth /\ i # d
      BY <1>1, <1>2
    <3>2. stack'[t][i] = stack[t][i] /\ eventLists'[<<t, i>>] = eventLists[<<t, i>>] /\ dead' = dead
      BY <3>1, <1>1, <1>3
    <3>3. Before(t, stack[t][i].event, i)' = Before(t, stack'[t][i].event, i)
      <4>1. \A j \in 1 .. i - 1 : stack'[t][j] = stack[t][j]
        BY <1>1, <1>2
      <4> QED BY <4>1, <3>2 DEF Before
    <3> QED BY <3>2, <3>3
  <2>3. stack'[t][i].event \in Emitted[t] /\ eventLists'[<<t, i>>].slots = stack'[t][i].due
    BY <2>1, <2>2 DEF CallKept
  <2>4. stack'[t][i].event \notin dead' =>
          Points(stack[t][i].saved, t, Before(t, stack[t][i].event, i))'
    BY <2>1, <2>2 DEF CallKept, Points
  <2>5. stack'[t][i].event \notin dead' /\ stack'[t][i].asked => eventLists'[<<t, i>>].accepted
    BY <2>1, <2>2 DEF CallKept
  <2> QED BY <2>3, <2>4, <2>5 DEF CallKept
<1>6. \A f \in Emitted[t] \ dead' : Points(active[f], t, Before(t, f, d))'
  <2> SUFFICES ASSUME NEW f \in Emitted[t] \ dead PROVE Points(active[f], t, Before(t, f, d))'
    BY <1>1
  <2>0. f \in EventNames
    BY EventConstantsHold DEF EventConstants
  <2>1. CASE f = e
    <3>1. active'[f] = stack[t][d].saved
      BY <2>0, <2>1, <1>1, EventTyped
    <3>2. Points(stack[t][d].saved, t, Before(t, f, d))
      BY <2>1, <1>1, <1>2 DEF CallsKept, CallKept
    <3>3. Before(t, f, d)' = Before(t, f, d)
      BY <2>0, <1>1, <1>4
    <3> QED BY <3>1, <3>2, <3>3 DEF Points
  <2>2. CASE f # e
    <3>1. active'[f] = active[f]
      <4>1. CASE e \in dead
        BY <4>1, <1>1
      <4>2. CASE e \notin dead
        BY <4>2, <2>0, <2>2, <1>1, EventTyped
      <4> QED BY <4>1, <4>2
    <3>2. Before(t, f, d)' = Before(t, f, d + 1)
      <4>1. Before(t, f, d)' = Before(t, f, d)
        BY <2>0, <1>1, <1>4
      <4>2. \A j : j \in 1 .. d => (j \in 1 .. d - 1 \/ j = d)
        BY <1>1, <1>2
      <4>3. \A j : j \in 1 .. d - 1 => j \in 1 .. d
        BY <1>1, <1>2
      <4>4. (d + 1) - 1 = d /\ stack[t][d].event # f
        BY <1>1, <1>2, <2>2
      <4> QED BY <4>1, <4>2, <4>3, <4>4 DEF Before
    <3>3. Points(active[f], t, Before(t, f, d + 1))
      BY <1>1, <1>2 DEF CallsKept
    <3> QED BY <3>1, <3>2, <3>3 DEF Points
  <2> QED BY <2>1, <2>2
<1>7. CallsKept(t)'
  <2>1. d - 1 \in 0 .. MaxDepth /\ (d - 1) + 1 = d
    BY <1>1, <1>2
  <2> QED BY <2>1, <1>1, <1>2, <1>5, <1>6 DEF CallsKept
<1>8. \A i \in 1 .. MaxDepth : FlagKnown(t, i)'
  <2> SUFFICES ASSUME NEW i \in 1 .. MaxDepth, eventLists'[<<t, i>>].accepted
               PROVE  (i <= Len(stack'[t]) /\ stack'[t][i].asked) \/ <<t, i>> \in cut'
    BY DEF FlagKnown
  <2>1. CASE i = d
    BY <2>1, <1>1
  <2>2. CASE i # d
    <3>1. (i <= d /\ stack[t][i].asked) \/ <<t, i>> \in cut
      BY <2>2, <1>2, <1>3 DEF FlagKnown
    <3>2. CASE <<t, i>> \in cut
      BY <3>2, <2>2, <1>1
    <3>3. CASE i <= d /\ stack[t][i].asked
      <4>1. i \in 1 .. d - 1
        BY <3>3, <2>2, <1>1
      <4> QED BY <4>1, <3>3, <1>1
    <3> QED BY <3>1, <3>2, <3>3
  <2> QED BY <2>1, <2>2
<1>9. ASSUME NEW u \in Threads, u # t
      PROVE  CallsKept(u)' /\ \A i \in 1 .. MaxDepth : FlagKnown(u, i)'
  <2>1. stack'[u] = stack[u]
    BY <1>1, <1>9, EventTyped
  <2>2. \A i \in 1 .. MaxDepth : eventLists'[<<u, i>>] = eventLists[<<u, i>>]
    BY <1>1, <1>9, StackType
  <2>3. \A f \in Emitted[u] \ dead' : active'[f] = active[f]
    BY <1>1, <1>9, EventTyped, OtherEvents, EventConstantsHold DEF EventConstants
  <2>4. \A i \in 1 .. MaxDepth : <<u, i>> \in cut => <<u, i>> \in cut'
    BY <1>1, <1>9
  <2> QED BY <2>1, <2>2, <2>3, <2>4, <1>1, OtherThread
<1> QED BY <1>7, <1>8, <1>9

\* The ways to leave sync_trigger() differ in the work list they leave.
LEMMA LeavingKeeps ==
  ASSUME EventInv, NEW t \in Threads,
         E!Destroyed(t) \/ E!Accepted(t) \/ E!Unaccepted(t) \/ E!Throw(t)
  PROVE  \A u \in Threads : CallsKept(u)' /\ \A d \in 1 .. MaxDepth : FlagKnown(u, d)'
<1>1. stack[t] # <<>>
  BY DEF E!Destroyed, E!Accepted, E!Unaccepted, E!Throw
<1>. PICK l : l = <<t, Len(stack[t])>>
  OBVIOUS
<1>2. l \in E!WorkLists /\ l = E!Current(t)
  BY <1>1, StackType DEF E!Current, E!ListOf, E!Depth
<1>3. {"destroyed", "accepted", "unaccepted", "thrown"} \subseteq E!Results
  BY DEF E!Results
<1>4. CASE E!Destroyed(t)
  <2>1. E!Leave(t, "destroyed") /\ eventLists' = eventLists /\ cut' = cut \cup {l}
    BY <1>2, <1>4 DEF E!Destroyed
  <2> QED BY <2>1, <1>1, <1>2, <1>3, LeaveKeeps
<1>5. CASE E!Throw(t)
  <2>1. E!Leave(t, "thrown") /\ eventLists' = eventLists /\ cut' = cut \cup {l}
    BY <1>2, <1>5 DEF E!Throw
  <2> QED BY <2>1, <1>1, <1>2, <1>3, LeaveKeeps
<1>6. CASE E!Accepted(t)
  <2>1. /\ E!Leave(t, "accepted") /\ cut' = cut \ {l}
        /\ eventLists' = [eventLists EXCEPT ![l] = [eventLists[l] EXCEPT !.accepted = FALSE]]
    BY <1>2, <1>6 DEF E!Accepted
  <2>2. ~ eventLists'[l].accepted
    BY <2>1, <1>2, EventTyped
  <2>3. \A k \in E!WorkLists : k # l => eventLists'[k] = eventLists[k]
    BY <2>1, <1>2, EventTyped
  <2> QED BY <2>1, <2>2, <2>3, <1>1, <1>2, <1>3, LeaveKeeps
<1>7. CASE E!Unaccepted(t)
  <2>1. /\ E!Leave(t, "unaccepted") /\ cut' = cut \ {l}
        /\ eventLists' = [eventLists EXCEPT ![l] = [slots |-> <<>>, accepted |-> FALSE]]
    BY <1>2, <1>7 DEF E!Unaccepted
  <2>2. ~ eventLists'[l].accepted
    BY <2>1, <1>2, EventTyped
  <2>3. \A k \in E!WorkLists : k # l => eventLists'[k] = eventLists[k]
    BY <2>1, <1>2, EventTyped
  <2> QED BY <2>1, <2>2, <2>3, <1>1, <1>2, <1>3, LeaveKeeps
<1> QED BY <1>4, <1>5, <1>6, <1>7

\* accept() reaches the innermost trigger of the event.
LEMMA AcceptTypes ==
  ASSUME EventInv, NEW t \in Threads, NEW e \in EventNames, E!Accept(t, e)
  PROVE  \E m \in 1 .. Len(stack[t]) :
           /\ stack[t][m].event = e /\ e \in Emitted[t] \ dead /\ m = E!Innermost(t, e)
           /\ <<t, m>> \in E!WorkLists /\ active[e] = <<t, m>>
           /\ eventLists' = [eventLists EXCEPT ![<<t, m>>] =
                               [eventLists[<<t, m>>] EXCEPT !.accepted = TRUE]]
           /\ stack'[t] = [stack[t] EXCEPT ![m] = [stack[t][m] EXCEPT !.asked = TRUE]]
           /\ stack' = [stack EXCEPT ![t] = stack'[t]]
           /\ UNCHANGED <<slots, active, dead, slotsBorn, triggers, result, cut, eventsTouched>>
<1>1. /\ e \notin dead /\ E!Within(t, e) # {}
      /\ eventLists' = IF active[e] = None THEN eventLists
                       ELSE [eventLists EXCEPT ![active[e]] =
                               [eventLists[active[e]] EXCEPT !.accepted = TRUE]]
      /\ stack' = [stack EXCEPT ![t] =
                     [stack[t] EXCEPT ![E!Innermost(t, e)] =
                        [stack[t][E!Innermost(t, e)] EXCEPT !.asked = TRUE]]]
      /\ UNCHANGED <<slots, active, dead, slotsBorn, triggers, result, cut, eventsTouched>>
  BY DEF E!Accept
<1>2. /\ Len(stack[t]) \in 0 .. MaxDepth /\ MaxDepth \in Nat
      /\ DOMAIN stack[t] = 1 .. Len(stack[t])
  BY StackType, EventConstantsHold DEF EventConstants
<1>3. Before(t, e, Len(stack[t]) + 1) = E!Within(t, e)
  BY <1>2 DEF Before, E!Within
<1>4. e \in Emitted[t]
  <2>1. PICK i \in 1 .. Len(stack[t]) : stack[t][i].event = e
    BY <1>1, <1>2 DEF E!Within
  <2> QED BY <2>1 DEF EventInv, CallsKept, CallKept
<1>5. PICK m \in E!Within(t, e) : active[e] = <<t, m>> /\ \A j \in E!Within(t, e) : j <= m
  <2>1. Points(active[e], t, E!Within(t, e))
    BY <1>1, <1>3, <1>4 DEF EventInv, CallsKept
  <2> QED BY <2>1, <1>1 DEF Points
<1>6. E!Within(t, e) \subseteq Int
  BY <1>2 DEF E!Within
<1>7. E!Innermost(t, e) = m
  BY <1>5, <1>6 DEF E!Innermost
<1>8. m \in 1 .. Len(stack[t]) /\ stack[t][m].event = e
  BY <1>2, <1>5 DEF E!Within
<1>9. <<t, m>> \in E!WorkLists /\ <<t, m>> # None
  BY <1>2, <1>8, StackType, EventConstantsHold DEF EventConstants
<1> QED BY <1>1, <1>4, <1>5, <1>7, <1>8, <1>9, EventTyped

LEMMA AcceptKeeps ==
  ASSUME EventInv, NEW t \in Threads, NEW e \in EventNames, E!Accept(t, e)
  PROVE  \A u \in Threads : CallsKept(u)' /\ \A d \in 1 .. MaxDepth : FlagKnown(u, d)'
<1>1. PICK m \in 1 .. Len(stack[t]) :
        /\ stack[t][m].event = e /\ e \in Emitted[t] \ dead
        /\ <<t, m>> \in E!WorkLists
        /\ eventLists' = [eventLists EXCEPT ![<<t, m>>] =
                            [eventLists[<<t, m>>] EXCEPT !.accepted = TRUE]]
        /\ stack'[t] = [stack[t] EXCEPT ![m] = [stack[t][m] EXCEPT !.asked = TRUE]]
        /\ stack' = [stack EXCEPT ![t] = stack'[t]]
        /\ active' = active /\ dead' = dead /\ cut' = cut
  BY AcceptTypes
<1>. PICK d : d = Len(stack[t])
  OBVIOUS
<1>2. /\ CallsKept(t) /\ (\A i \in 1 .. MaxDepth : FlagKnown(t, i))
      /\ d \in 0 .. MaxDepth /\ MaxDepth \in Nat /\ m \in 1 .. d
      /\ stack[t] \in Seq(E!Frames) /\ DOMAIN stack[t] = 1 .. d
  BY <1>1, StackType, EventConstantsHold DEF EventInv, EventConstants
<1>3. /\ \A i \in 1 .. d : i # m => stack'[t][i] = stack[t][i]
      /\ stack'[t][m] = [stack[t][m] EXCEPT !.asked = TRUE]
      /\ Len(stack'[t]) = d
  <2>1. stack[t][m] \in E!Frames /\ [stack[t][m] EXCEPT !.asked = TRUE] \in E!Frames
    BY <1>2, StackType, FrameType
  <2> QED BY <2>1, <1>1, <1>2, ExceptSeq
<1>4. /\ stack'[t][m].event = stack[t][m].event /\ stack'[t][m].due = stack[t][m].due
      /\ stack'[t][m].saved = stack[t][m].saved /\ stack'[t][m].asked
  <2>1. stack[t][m] \in E!Frames
    BY <1>2, StackType
  <2> QED BY <2>1, <1>3 DEF E!Frames
<1>5. /\ \A i \in 1 .. MaxDepth : i # m => eventLists'[<<t, i>>] = eventLists[<<t, i>>]
      /\ eventLists'[<<t, m>>].slots = eventLists[<<t, m>>].slots
  BY <1>1, <1>2, EventTyped, StackType
<1>6. eventLists'[<<t, m>>].accepted
  BY <1>1, EventTyped
<1>7. \A i \in 1 .. d : stack'[t][i].event = stack[t][i].event
  BY <1>3, <1>4
<1>8. \A f, i : i \in 1 .. d + 1 => Before(t, f, i)' = Before(t, f, i)
  <2> SUFFICES ASSUME NEW f, NEW i \in 1 .. d + 1 PROVE Before(t, f, i)' = Before(t, f, i)
    OBVIOUS
  <2>1. \A j \in 1 .. i - 1 : stack'[t][j].event = stack[t][j].event
    BY <1>2, <1>7
  <2> QED BY <2>1 DEF Before
<1>9. \A i \in 1 .. d : CallKept(t, i)'
  <2> SUFFICES ASSUME NEW i \in 1 .. d PROVE CallKept(t, i)'
    OBVIOUS
  <2>1. CallKept(t, i) /\ i \in 1 .. MaxDepth /\ i \in 1 .. d + 1
    BY <1>2 DEF CallsKept
  <2>2. /\ stack'[t][i].event = stack[t][i].event /\ stack'[t][i].due = stack[t][i].due
        /\ stack'[t][i].saved = stack[t][i].saved
        /\ eventLists'[<<t, i>>].slots = eventLists[<<t, i>>].slots
    BY <2>1, <1>3, <1>4, <1>5
  <2>3. stack'[t][i].event \in Emitted[t] /\ eventLists'[<<t, i>>].slots = stack'[t][i].due
    BY <2>1, <2>2 DEF CallKept
  <2>4. Before(t, stack[t][i].event, i)' = Before(t, stack[t][i].event, i)
    <3>1. \A j \in 1 .. i - 1 : stack'[t][j].event = stack[t][j].event
      BY <1>2, <1>7
    <3> QED BY <3>1, <2>2 DEF Before
  <2>5. stack'[t][i].event \notin dead' =>
          Points(stack[t][i].saved, t, Before(t, stack[t][i].event, i))'
    BY <2>1, <2>2, <2>4, <1>1 DEF CallKept, Points
  <2>6. stack'[t][i].event \notin dead' /\ stack'[t][i].asked => eventLists'[<<t, i>>].accepted
    <3>1. CASE i = m
      BY <3>1, <1>6
    <3>2. CASE i # m
      BY <3>2, <2>1, <1>1, <1>3, <1>5 DEF CallKept
    <3> QED BY <3>1, <3>2
  <2> QED BY <2>3, <2>5, <2>6 DEF CallKept
<1>10. \A f \in Emitted[t] \ dead' : Points(active[f], t, Before(t, f, d + 1))'
  <2>1. d + 1 \in 1 .. d + 1
    BY <1>2
  <2>2. \A f : Before(t, f, d + 1)' = Before(t, f, d + 1)
    BY <2>1, <1>8
  <2> QED BY <2>2, <1>1, <1>2 DEF CallsKept, Points
<1>11. CallsKept(t)'
  BY <1>2, <1>3, <1>9, <1>10 DEF CallsKept
<1>12. \A i \in 1 .. MaxDepth : FlagKnown(t, i)'
  <2> SUFFICES ASSUME NEW i \in 1 .. MaxDepth, eventLists'[<<t, i>>].accepted
               PROVE  (i <= Len(stack'[t]) /\ stack'[t][i].asked) \/ <<t, i>> \in cut'
    BY DEF FlagKnown
  <2>1. CASE i = m
    <3>1. i <= Len(stack'[t])
      BY <2>1, <1>2, <1>3
    <3> QED BY <3>1, <2>1, <1>4
  <2>2. CASE i # m
    <3>1. (i <= d /\ stack[t][i].asked) \/ <<t, i>> \in cut
      BY <2>2, <1>2, <1>5 DEF FlagKnown
    <3>2. CASE <<t, i>> \in cut
      BY <3>2, <1>1
    <3>3. CASE i <= d /\ stack[t][i].asked
      BY <3>3, <2>2, <1>3
    <3> QED BY <3>1, <3>2, <3>3
  <2> QED BY <2>1, <2>2
<1>13. ASSUME NEW u \in Threads, u # t
       PROVE  CallsKept(u)' /\ \A i \in 1 .. MaxDepth : FlagKnown(u, i)'
  <2>1. stack'[u] = stack[u]
    BY <1>1, <1>13, EventTyped
  <2>2. \A i \in 1 .. MaxDepth : eventLists'[<<u, i>>] = eventLists[<<u, i>>]
    BY <1>1, <1>13, EventTyped, StackType
  <2> QED BY <2>1, <2>2, <1>1, OtherThread
<1> QED BY <1>11, <1>12, <1>13

LEMMA NextSlotKeeps ==
  ASSUME EventInv, NEW t \in Threads, E!NextSlot(t)
  PROVE  \A u \in Threads : CallsKept(u)' /\ \A d \in 1 .. MaxDepth : FlagKnown(u, d)'
<1>. PICK d : d = Len(stack[t])
  OBVIOUS
<1>1. /\ stack[t] # <<>>
      /\ stack' = [stack EXCEPT ![t] = [stack[t] EXCEPT ![d] =
                     [stack[t][d] EXCEPT !.next = stack[t][d].next + 1]]]
      /\ UNCHANGED <<active, eventLists, dead, cut>>
  BY DEF E!NextSlot, E!Depth
<1>2. /\ CallsKept(t) /\ (\A i \in 1 .. MaxDepth : FlagKnown(t, i))
      /\ d \in 1 .. MaxDepth /\ MaxDepth \in Nat
      /\ stack[t] \in Seq(E!Frames) /\ stack[t][d] \in E!Frames
  BY <1>1, StackType, EventConstantsHold DEF EventInv, EventConstants
<1>3. /\ stack'[t] = [stack[t] EXCEPT ![d] = [stack[t][d] EXCEPT !.next = stack[t][d].next + 1]]
      /\ stack' = [stack EXCEPT ![t] = stack'[t]]
  BY <1>1, EventTyped
<1>4. /\ stack[t][d].next + 1 \in Nat
      /\ [stack[t][d] EXCEPT !.next = stack[t][d].next + 1] \in E!Frames
  <2>1. stack[t][d].next \in Nat
    BY <1>2, FrameType
  <2>2. stack[t][d].next + 1 \in Nat
    BY <2>1
  <2> HIDE <2>1
  <2> QED BY <2>2, <1>2, FrameType
<1>5. /\ \A i \in 1 .. d : i # d => stack'[t][i] = stack[t][i]
      /\ stack'[t][d] = [stack[t][d] EXCEPT !.next = stack[t][d].next + 1]
      /\ Len(stack'[t]) = d
  BY <1>2, <1>3, <1>4, ExceptSeq
<1>6. /\ stack'[t][d].event = stack[t][d].event /\ stack'[t][d].due = stack[t][d].due
      /\ stack'[t][d].saved = stack[t][d].saved /\ stack'[t][d].asked = stack[t][d].asked
  BY <1>2, <1>5 DEF E!Frames
<1>7. \A i \in 1 .. d :
        /\ stack'[t][i].event = stack[t][i].event /\ stack'[t][i].due = stack[t][i].due
        /\ stack'[t][i].saved = stack[t][i].saved /\ stack'[t][i].asked = stack[t][i].asked
  BY <1>5, <1>6
<1>8. \A f, i : i \in 1 .. d + 1 => Before(t, f, i)' = Before(t, f, i)
  <2> SUFFICES ASSUME NEW f, NEW i \in 1 .. d + 1 PROVE Before(t, f, i)' = Before(t, f, i)
    OBVIOUS
  <2>1. \A j \in 1 .. i - 1 : stack'[t][j].event = stack[t][j].event
    BY <1>2, <1>7
  <2> QED BY <2>1 DEF Before
<1>9. \A i \in 1 .. d : CallKept(t, i)'
  <2> SUFFICES ASSUME NEW i \in 1 .. d PROVE CallKept(t, i)'
    OBVIOUS
  <2>1. CallKept(t, i)
    BY <1>2 DEF CallsKept
  <2>2. Before(t, stack[t][i].event, i)' = Before(t, stack[t][i].event, i)
    <3>1. \A j \in 1 .. i - 1 : stack'[t][j].event = stack[t][j].event
      BY <1>2, <1>7
    <3> QED BY <3>1, <1>7 DEF Before
  <2>3. stack'[t][i].event \notin dead' =>
          Points(stack[t][i].saved, t, Before(t, stack[t][i].event, i))'
    BY <2>1, <2>2, <1>1, <1>7 DEF CallKept, Points
  <2> QED BY <2>1, <2>3, <1>1, <1>7 DEF CallKept
<1>10. \A f \in Emitted[t] \ dead' : Points(active[f], t, Before(t, f, d + 1))'
  <2>1. d + 1 \in 1 .. d + 1
    BY <1>2
  <2>2. \A f : Before(t, f, d + 1)' = Before(t, f, d + 1)
    BY <2>1, <1>8
  <2> QED BY <2>2, <1>1, <1>2 DEF CallsKept, Points
<1>11. CallsKept(t)'
  BY <1>2, <1>5, <1>9, <1>10 DEF CallsKept
<1>12. \A i \in 1 .. MaxDepth : FlagKnown(t, i)'
  <2> SUFFICES ASSUME NEW i \in 1 .. MaxDepth, eventLists[<<t, i>>].accepted
               PROVE  (i <= Len(stack'[t]) /\ stack'[t][i].asked) \/ <<t, i>> \in cut'
    BY <1>1 DEF FlagKnown
  <2>1. (i <= d /\ stack[t][i].asked) \/ <<t, i>> \in cut
    BY <1>2 DEF FlagKnown
  <2> QED BY <2>1, <1>1, <1>5, <1>7
<1>13. ASSUME NEW u \in Threads, u # t
       PROVE  CallsKept(u)' /\ \A i \in 1 .. MaxDepth : FlagKnown(u, i)'
  <2>1. stack'[u] = stack[u]
    BY <1>1, <1>13, EventTyped
  <2> QED BY <2>1, <1>1, OtherThread
<1> QED BY <1>11, <1>12, <1>13

LEMMA DestroyKeeps ==
  ASSUME EventInv, NEW t \in Threads, NEW e \in EventNames, E!Destroy(t, e)
  PROVE  \A u \in Threads : CallsKept(u)' /\ \A d \in 1 .. MaxDepth : FlagKnown(u, d)'
<1> SUFFICES ASSUME NEW u \in Threads
             PROVE  CallsKept(u)' /\ \A d \in 1 .. MaxDepth : FlagKnown(u, d)'
  OBVIOUS
<1>1. /\ stack' = stack /\ dead' = dead \cup {e} /\ eventLists' = eventLists /\ cut' = cut
      /\ active' = [active EXCEPT ![e] = None]
  BY DEF E!Destroy
<1>2. \A f \in Emitted[u] \ dead' : active'[f] = active[f]
  BY <1>1, EventTyped, EventConstantsHold DEF EventConstants
<1> QED BY <1>1, <1>2, OtherThread

LEMMA EventKeeps ==
  ASSUME EventInv, [E!Next]_E!vars
  PROVE  \A u \in Threads : CallsKept(u)' /\ \A d \in 1 .. MaxDepth : FlagKnown(u, d)'
<1>1. CASE UNCHANGED <<active, eventLists, stack, dead, cut>>
  <2> SUFFICES ASSUME NEW u \in Threads
               PROVE  CallsKept(u)' /\ \A d \in 1 .. MaxDepth : FlagKnown(u, d)'
    OBVIOUS
  <2> QED BY <1>1, OtherThread
<1>2. CASE E!Next
  <2>1. CASE \E s \in SlotNames : E!Subscribe(s) \/ E!Unsubscribe(s)
    <3>1. UNCHANGED <<active, eventLists, stack, dead, cut>>
      BY <2>1 DEF E!Subscribe, E!Unsubscribe
    <3> QED BY <3>1, <1>1
  <2>2. CASE \E t \in Threads, e \in EventNames : E!Trigger(t, e) \/ E!Accept(t, e) \/ E!Destroy(t, e)
    BY <2>2, TriggerKeeps, AcceptKeeps, DestroyKeeps
  <2>3. CASE \E t \in Threads : E!Destroyed(t) \/ E!Accepted(t) \/ E!Unaccepted(t) \/ E!Throw(t)
    BY <2>3, LeavingKeeps
  <2>4. CASE \E t \in Threads : E!NextSlot(t)
    BY <2>4, NextSlotKeeps
  <2> QED BY <1>2, <2>1, <2>2, <2>3, <2>4 DEF E!Next
<1>3. CASE UNCHANGED E!vars
  BY <1>1, <1>3 DEF E!vars
<1> QED BY <1>2, <1>3

LEMMA EventTypeStep == ASSUME EventInv, [E!Next]_E!vars PROVE E!TypeOK'
<1> USE EventConstantsHold DEF EventConstants
<1>1. CASE \E s \in SlotNames : E!Subscribe(s)
  <2> PICK s \in SlotNames : E!Subscribe(s)
    BY <1>1
  <2>1. SubscribesTo[s] \in EventNames
    OBVIOUS
  <2>2. slots[SubscribesTo[s]] \in Seq(SlotNames)
    BY <2>1, EventTyped
  <2>3. /\ <<s>> \o slots[SubscribesTo[s]] \in Seq(SlotNames)
        /\ Append(slots[SubscribesTo[s]], s) \in Seq(SlotNames)
    BY <2>2, ConcatProperties, AppendProperties
  <2>4. slots' \in [EventNames -> Seq(SlotNames)]
    BY <2>1, <2>3, EventTyped DEF E!Subscribe
  <2>5. slotsBorn' \subseteq SlotNames
    BY EventTyped DEF E!Subscribe
  <2> QED BY <2>4, <2>5, EventTyped DEF E!Subscribe, E!TypeOK
<1>2. CASE \E s \in SlotNames : E!Unsubscribe(s)
  <2> PICK s \in SlotNames : E!Unsubscribe(s)
    BY <1>2
  <2>1. SubscribesTo[s] \in EventNames
    OBVIOUS
  <2>2. E!RemoveFirst(slots[SubscribesTo[s]], s) \in Seq(SlotNames)
    BY <2>1, EventTyped, RemoveFirstIsSeq
  <2>3. slots' \in [EventNames -> Seq(SlotNames)]
    BY <2>1, <2>2, EventTyped DEF E!Unsubscribe
  <2> QED BY <2>3, EventTyped DEF E!Unsubscribe, E!TypeOK
<1>3. CASE \E t \in Threads, e \in EventNames : E!Trigger(t, e)
  <2> PICK t \in Threads, e \in EventNames : E!Trigger(t, e)
    BY <1>3
  <2>. PICK d : d = Len(stack[t]) + 1
    OBVIOUS
  <2>. PICK x : x = [event |-> e, next |-> 1, saved |-> active[e], due |-> slots[e], asked |-> FALSE]
    OBVIOUS
  <2>1. /\ d \in 1 .. MaxDepth /\ x \in E!Frames
        /\ active' = [active EXCEPT ![e] = <<t, d>>]
        /\ eventLists' = [eventLists EXCEPT ![<<t, d>>] =
                            [eventLists[<<t, d>>] EXCEPT !.slots = slots[e]]]
        /\ stack' = [stack EXCEPT ![t] = Append(stack[t], x)]
        /\ triggers' \in 0 .. MaxTriggers
        /\ UNCHANGED <<slots, dead, slotsBorn, result, cut, eventsTouched>>
    BY TriggerTypes
  <2>2. <<t, d>> \in E!WorkLists
    BY <2>1, StackType
  <2>3. active' \in [EventNames -> E!WorkLists \cup {None}]
    BY <2>1, <2>2, EventTyped
  <2>4. [eventLists[<<t, d>>] EXCEPT !.slots = slots[e]] \in [slots : Seq(SlotNames), accepted : BOOLEAN]
    BY <2>2, EventTyped
  <2>5. eventLists' \in [E!WorkLists -> [slots : Seq(SlotNames), accepted : BOOLEAN]]
    BY <2>1, <2>4, EventTyped
  <2>6. Append(stack[t], x) \in Seq(E!Frames)
    BY <2>1, EventTyped, AppendProperties
  <2>7. stack' \in [Threads -> Seq(E!Frames)]
    BY <2>1, <2>6, EventTyped
  <2> QED BY <2>1, <2>3, <2>5, <2>7, EventTyped DEF E!TypeOK
<1>4. CASE \E t \in Threads, e \in EventNames : E!Accept(t, e)
  <2> PICK t \in Threads, e \in EventNames : E!Accept(t, e)
    BY <1>4
  <2>1. PICK m \in 1 .. Len(stack[t]) :
          /\ <<t, m>> \in E!WorkLists
          /\ eventLists' = [eventLists EXCEPT ![<<t, m>>] =
                              [eventLists[<<t, m>>] EXCEPT !.accepted = TRUE]]
          /\ stack'[t] = [stack[t] EXCEPT ![m] = [stack[t][m] EXCEPT !.asked = TRUE]]
          /\ stack' = [stack EXCEPT ![t] = stack'[t]]
          /\ UNCHANGED <<slots, active, dead, slotsBorn, triggers, result, cut, eventsTouched>>
    BY AcceptTypes
  <2>2. [eventLists[<<t, m>>] EXCEPT !.accepted = TRUE] \in [slots : Seq(SlotNames), accepted : BOOLEAN]
    <3>1. eventLists[<<t, m>>] \in [slots : Seq(SlotNames), accepted : BOOLEAN]
      BY <2>1, EventTyped
    <3> QED BY <3>1
  <2>3. eventLists' \in [E!WorkLists -> [slots : Seq(SlotNames), accepted : BOOLEAN]]
    BY <2>1, <2>2, EventTyped
  <2>4. [stack[t][m] EXCEPT !.asked = TRUE] \in E!Frames
    BY StackType, FrameType
  <2>5. stack'[t] \in Seq(E!Frames)
    BY <2>1, <2>4, StackType, ExceptSeq
  <2>6. stack' \in [Threads -> Seq(E!Frames)]
    BY <2>1, <2>5, EventTyped
  <2> QED BY <2>1, <2>3, <2>6, EventTyped DEF E!TypeOK
<1>5. CASE \E t \in Threads, e \in EventNames : E!Destroy(t, e)
  <2> PICK t \in Threads, e \in EventNames : E!Destroy(t, e)
    BY <1>5
  <2>1. /\ dead' = dead \cup {e} /\ slots' = [slots EXCEPT ![e] = <<>>]
        /\ active' = [active EXCEPT ![e] = None]
        /\ UNCHANGED <<eventLists, stack, slotsBorn, triggers, result, cut, eventsTouched>>
    BY DEF E!Destroy
  <2>2. slots' \in [EventNames -> Seq(SlotNames)]
    BY <2>1, EventTyped, EmptySeq
  <2>3. active' \in [EventNames -> E!WorkLists \cup {None}]
    BY <2>1, EventTyped
  <2> QED BY <2>1, <2>2, <2>3, EventTyped DEF E!TypeOK
<1>6. CASE \E t \in Threads : E!NextSlot(t)
  <2> PICK t \in Threads : E!NextSlot(t)
    BY <1>6
  <2>. PICK d : d = Len(stack[t])
    OBVIOUS
  <2>1. /\ stack[t] # <<>>
        /\ stack' = [stack EXCEPT ![t] = [stack[t] EXCEPT ![d] =
                       [stack[t][d] EXCEPT !.next = stack[t][d].next + 1]]]
        /\ UNCHANGED <<slots, active, eventLists, dead, slotsBorn, triggers, result, cut,
                       eventsTouched>>
    BY DEF E!NextSlot, E!Depth
  <2>2. d \in 1 .. Len(stack[t]) /\ stack[t] \in Seq(E!Frames) /\ stack[t][d] \in E!Frames
    BY <2>1, StackType
  <2>3. stack[t][d].next + 1 \in Nat
    <3>1. stack[t][d].next \in Nat
      BY <2>2, FrameType
    <3> QED BY <3>1
  <2>4. [stack[t][d] EXCEPT !.next = stack[t][d].next + 1] \in E!Frames
    BY <2>2, <2>3, FrameType
  <2>5. [stack[t] EXCEPT ![d] = [stack[t][d] EXCEPT !.next = stack[t][d].next + 1]] \in Seq(E!Frames)
    BY <2>2, <2>4, ExceptSeq
  <2>6. stack' \in [Threads -> Seq(E!Frames)]
    BY <2>1, <2>5, EventTyped
  <2> QED BY <2>1, <2>6, EventTyped DEF E!TypeOK
<1>7. ASSUME NEW t \in Threads, stack[t] # <<>>, NEW o \in E!Results, E!Leave(t, o),
             eventLists' \in [E!WorkLists -> [slots : Seq(SlotNames), accepted : BOOLEAN]],
             cut' \subseteq E!WorkLists
      PROVE  E!TypeOK'
  <2>. PICK d : d = Len(stack[t])
    OBVIOUS
  <2>. PICK e : e = stack[t][d].event
    OBVIOUS
  <2>1. /\ e \in EventNames /\ stack[t][d] \in E!Frames
        /\ stack' = [stack EXCEPT ![t] = stack'[t]] /\ stack'[t] \in Seq(E!Frames)
        /\ result' = [result EXCEPT ![t] = o]
        /\ e \in dead => active' = active /\ eventsTouched' = eventsTouched \cup {e}
        /\ e \notin dead => /\ active' = [active EXCEPT ![e] = stack[t][d].saved]
                            /\ eventsTouched' = eventsTouched
        /\ UNCHANGED <<slots, dead, slotsBorn, triggers>>
    BY <1>7, LeaveTypes
  <2>2. stack' \in [Threads -> Seq(E!Frames)]
    BY <2>1, EventTyped
  <2>3. result' \in [Threads -> E!Results]
    BY <1>7, <2>1, EventTyped
  <2>4. stack[t][d].saved \in E!WorkLists \cup {None}
    BY <2>1, FrameType
  <2>5. active' \in [EventNames -> E!WorkLists \cup {None}] /\ eventsTouched' \subseteq dead'
    <3>1. CASE e \in dead
      BY <3>1, <2>1, EventTyped
    <3>2. CASE e \notin dead
      BY <3>2, <2>1, <2>4, EventTyped
    <3> QED BY <3>1, <3>2
  <2> QED BY <1>7, <2>1, <2>2, <2>3, <2>5, EventTyped DEF E!TypeOK
<1>8. CASE \E t \in Threads : E!Destroyed(t) \/ E!Accepted(t) \/ E!Unaccepted(t) \/ E!Throw(t)
  <2> PICK t \in Threads : E!Destroyed(t) \/ E!Accepted(t) \/ E!Unaccepted(t) \/ E!Throw(t)
    BY <1>8
  <2>1. stack[t] # <<>>
    BY DEF E!Destroyed, E!Accepted, E!Unaccepted, E!Throw
  <2>. PICK l : l = E!Current(t)
    OBVIOUS
  <2>2. l \in E!WorkLists
    BY <2>1, StackType DEF E!Current, E!ListOf, E!Depth
  <2>3. {"destroyed", "accepted", "unaccepted", "thrown"} \subseteq E!Results
    BY DEF E!Results
  <2>4. PICK o \in E!Results : E!Leave(t, o)
    BY <2>3 DEF E!Destroyed, E!Accepted, E!Unaccepted, E!Throw
  <2>5. cut' \in {cut \cup {l}, cut \ {l}}
    BY DEF E!Destroyed, E!Accepted, E!Unaccepted, E!Throw
  <2>6. \/ eventLists' = eventLists
        \/ eventLists' = [eventLists EXCEPT ![l] = [eventLists[l] EXCEPT !.accepted = FALSE]]
        \/ eventLists' = [eventLists EXCEPT ![l] = [slots |-> <<>>, accepted |-> FALSE]]
    BY DEF E!Destroyed, E!Accepted, E!Unaccepted, E!Throw
  <2>7. /\ [eventLists[l] EXCEPT !.accepted = FALSE] \in [slots : Seq(SlotNames), accepted : BOOLEAN]
        /\ [slots |-> <<>>, accepted |-> FALSE] \in [slots : Seq(SlotNames), accepted : BOOLEAN]
    BY <2>2, EventTyped, EmptySeq
  <2>8. eventLists' \in [E!WorkLists -> [slots : Seq(SlotNames), accepted : BOOLEAN]]
    BY <2>6, <2>7, EventTyped
  <2>9. cut' \subseteq E!WorkLists
    BY <2>2, <2>5, EventTyped
  <2> QED BY <1>7, <2>1, <2>4, <2>8, <2>9
<1>9. CASE UNCHANGED E!vars
  BY <1>9, EventTyped DEF E!vars, E!TypeOK
<1> QED BY <1>1, <1>2, <1>3, <1>4, <1>5, <1>6, <1>8, <1>9 DEF E!Next

LEMMA EventInit == E!Init => EventInv
<1> SUFFICES ASSUME E!Init PROVE EventInv
  OBVIOUS
<1> USE EventConstantsHold DEF EventConstants, E!Init
<1>0. /\ <<>> \in Seq(SlotNames) /\ <<>> \in Seq(E!Frames) /\ "none" \in E!Results
      /\ Len(<<>>) = 0 /\ \A d \in 1 .. MaxDepth, t \in Threads : <<t, d>> \in E!WorkLists
  BY EmptySeq DEF E!Results, E!WorkLists, E!Depths
<1>1. E!TypeOK
  BY <1>0 DEF E!TypeOK
<1>2. ASSUME NEW t \in Threads PROVE CallsKept(t)
  <2>1. stack[t] = <<>> /\ Len(stack[t]) = 0
    BY <1>0
  <2>2. \A i : i \notin 1 .. Len(stack[t])
    BY <2>1
  <2>3. \A e : Before(t, e, Len(stack[t]) + 1) = {}
    BY <2>1 DEF Before
  <2>4. \A e \in Emitted[t] \ dead : active[e] = None
    OBVIOUS
  <2> QED BY <2>1, <2>2, <2>3, <2>4 DEF CallsKept, Points
<1>3. \A t \in Threads, d \in 1 .. MaxDepth : FlagKnown(t, d)
  BY <1>0 DEF FlagKnown
<1> QED BY <1>1, <1>2, <1>3 DEF EventInv

LEMMA EventInvariant == E!Spec => []EventInv
<1>1. EventInv /\ [E!Next]_E!vars => EventInv'
  BY EventKeeps, EventTypeStep DEF EventInv
<1> QED BY <1>1, EventInit, PTL DEF E!Spec

LEMMA EventState == EventInv => E!TypeOK /\ E!WorkListKept /\ E!ActiveIsInnermost
<1> SUFFICES ASSUME EventInv PROVE E!TypeOK /\ E!WorkListKept /\ E!ActiveIsInnermost
  OBVIOUS
<1>1. E!TypeOK
  BY DEF EventInv
<1>2. E!WorkListKept
  <2> SUFFICES ASSUME NEW t \in Threads, NEW i \in DOMAIN stack[t]
               PROVE  eventLists[<<t, i>>].slots = stack[t][i].due
    BY DEF E!WorkListKept
  <2>1. i \in 1 .. Len(stack[t])
    BY StackType
  <2> QED BY <2>1 DEF EventInv, CallsKept, CallKept
<1>3. E!ActiveIsInnermost
  <2> SUFFICES ASSUME NEW t \in Threads, NEW e \in Emitted[t] \ dead
               PROVE  active[e] = IF E!Within(t, e) = {} THEN None ELSE <<t, E!Innermost(t, e)>>
    BY DEF E!ActiveIsInnermost
  <2>1. /\ Len(stack[t]) \in 0 .. MaxDepth /\ MaxDepth \in Nat
        /\ DOMAIN stack[t] = 1 .. Len(stack[t])
    BY StackType, EventConstantsHold DEF EventConstants
  <2>2. Before(t, e, Len(stack[t]) + 1) = E!Within(t, e) /\ E!Within(t, e) \subseteq Int
    BY <2>1 DEF Before, E!Within
  <2>3. Points(active[e], t, E!Within(t, e))
    BY <2>2 DEF EventInv, CallsKept
  <2>4. CASE E!Within(t, e) = {}
    BY <2>3, <2>4 DEF Points
  <2>5. CASE E!Within(t, e) # {}
    <3>1. PICK m \in E!Within(t, e) : active[e] = <<t, m>> /\ \A j \in E!Within(t, e) : j <= m
      BY <2>3, <2>5 DEF Points
    <3>2. E!Innermost(t, e) = m
      BY <2>2, <3>1 DEF E!Innermost
    <3> QED BY <2>5, <3>1, <3>2
  <2> QED BY <2>4, <2>5
<1> QED BY <1>1, <1>2, <1>3

\* What a step does to the triggers a thread is in: it ends the innermost one
\* in one of four ways, or moves it on to the next slot, or ends none and
\* leaves it at its slot.
LEMMA StackSteps ==
  ASSUME EventInv, [E!Next]_E!vars, NEW t \in Threads, stack[t] # <<>>
  PROVE  \/ /\ E!Destroyed(t) \/ E!Accepted(t) \/ E!Unaccepted(t) \/ E!Throw(t)
            /\ Len(stack'[t]) < Len(stack[t])
         \/ E!NextSlot(t) /\ Len(stack'[t]) = Len(stack[t])
         \/ Len(stack'[t]) > Len(stack[t])
         \/ /\ Len(stack'[t]) = Len(stack[t])
            /\ stack'[t][Len(stack[t])].next = stack[t][Len(stack[t])].next
<1>. PICK d : d = Len(stack[t])
  OBVIOUS
<1>1. /\ d \in 1 .. MaxDepth /\ MaxDepth \in Nat /\ stack[t] \in Seq(E!Frames)
      /\ stack[t][d] \in E!Frames
  BY StackType, EventConstantsHold DEF EventConstants
<1>2. CASE stack'[t] = stack[t]
  BY <1>1, <1>2
<1>3. ASSUME NEW u \in Threads,
             E!Destroyed(u) \/ E!Accepted(u) \/ E!Unaccepted(u) \/ E!Throw(u)
      PROVE  u # t => stack'[t] = stack[t]
  <2>1. \E x : stack' = [stack EXCEPT ![u] = x]
    BY <1>3 DEF E!Destroyed, E!Accepted, E!Unaccepted, E!Throw, E!Leave
  <2> QED BY <2>1, EventTyped
<1>4. CASE E!Destroyed(t) \/ E!Accepted(t) \/ E!Unaccepted(t) \/ E!Throw(t)
  <2>1. {"destroyed", "accepted", "unaccepted", "thrown"} \subseteq E!Results
    BY DEF E!Results
  <2>2. PICK o \in E!Results : E!Leave(t, o)
    BY <1>4, <2>1 DEF E!Destroyed, E!Accepted, E!Unaccepted, E!Throw
  <2>3. Len(stack'[t]) = d - 1
    BY <2>2, LeaveTypes
  <2>4. d - 1 < d
    BY <1>1
  <2> QED BY <1>4, <2>3, <2>4
<1>5. ASSUME NEW u \in Threads, E!NextSlot(u), stack'[t] # stack[t]
      PROVE  E!NextSlot(t) /\ Len(stack'[t]) = d
  <2>1. \E x : stack' = [stack EXCEPT ![u] = x]
    BY <1>5 DEF E!NextSlot
  <2>2. u = t
    BY <1>5, <2>1, EventTyped
  <2>3. stack'[t] = [stack[t] EXCEPT ![d] = [stack[t][d] EXCEPT !.next = stack[t][d].next + 1]]
    BY <1>5, <2>2, EventTyped DEF E!NextSlot, E!Depth
  <2>4. DOMAIN stack'[t] = 1 .. d
    BY <2>3, <1>1, StackType
  <2>5. [stack[t][d] EXCEPT !.next = stack[t][d].next + 1] \in E!Frames
    <3>1. stack[t][d].next + 1 \in Nat
      <4>1. stack[t][d].next \in Nat
        BY <1>1, FrameType
      <4> QED BY <4>1
    <3> QED BY <3>1, <1>1, FrameType
  <2>6. Len(stack'[t]) = d
    BY <2>3, <2>5, <1>1, ExceptSeq
  <2> QED BY <1>5, <2>2, <2>6
<1>6. ASSUME NEW u \in Threads, NEW e \in EventNames, E!Trigger(u, e), stack'[t] # stack[t]
      PROVE  Len(stack'[t]) > d
  <2>1. \E x : stack' = [stack EXCEPT ![u] = x]
    BY <1>6 DEF E!Trigger
  <2>2. u = t
    BY <1>6, <2>1, EventTyped
  <2>3. Len(stack'[t]) = d + 1
    BY <1>6, <2>2, TriggerTypes
  <2> QED BY <2>3, <1>1
<1>7. ASSUME NEW u \in Threads, NEW e \in EventNames, E!Accept(u, e), stack'[t] # stack[t]
      PROVE  Len(stack'[t]) = d /\ stack'[t][d].next = stack[t][d].next
  <2>1. PICK m \in 1 .. Len(stack[u]) :
          /\ stack'[u] = [stack[u] EXCEPT ![m] = [stack[u][m] EXCEPT !.asked = TRUE]]
          /\ stack' = [stack EXCEPT ![u] = stack'[u]]
    BY <1>7, AcceptTypes
  <2>2. u = t
    BY <1>7, <2>1, EventTyped
  <2>3. m \in 1 .. d /\ stack[t][m] \in E!Frames /\ [stack[t][m] EXCEPT !.asked = TRUE] \in E!Frames
    BY <2>1, <2>2, StackType, FrameType
  <2>4. /\ Len(stack'[t]) = d
        /\ d = m => stack'[t][d] = [stack[t][m] EXCEPT !.asked = TRUE]
        /\ d # m => stack'[t][d] = stack[t][d]
    <3>. PICK y \in E!Frames : y = [stack[t][m] EXCEPT !.asked = TRUE]
      BY <2>3
    <3>1. stack'[t] = [stack[t] EXCEPT ![m] = y]
      BY <2>1, <2>2
    <3>2. d \in 1 .. d /\ m \in 1 .. d
      BY <2>3, <1>1
    <3> QED BY <3>1, <3>2, <1>1, ExceptSeq
  <2>5. [stack[t][m] EXCEPT !.asked = TRUE].next = stack[t][m].next
    BY <2>3 DEF E!Frames
  <2> QED BY <2>4, <2>5
<1>8. CASE UNCHANGED stack
  BY <1>8, <1>2
<1>9. CASE E!Next
  BY <1>2, <1>3, <1>4, <1>5, <1>6, <1>7, <1>8, <1>9
     DEF E!Next, E!Subscribe, E!Unsubscribe, E!Destroy
<1> QED BY <1>8, <1>9 DEF E!vars

LEMMA AcceptStopsStep ==
  ASSUME EventInv, [E!Next]_E!vars, NEW t \in Threads,
         stack[t] # <<>>, E!Top(t).asked, E!Top(t).event \notin dead
  PROVE  /\ E!Done(t) => result'[t] \in {"accepted", "thrown"}
         /\ E!Depth(t)' = E!Depth(t) => E!Top(t)'.next = E!Top(t).next
<1>. PICK d : d = Len(stack[t])
  OBVIOUS
<1>1. /\ d \in 1 .. MaxDepth /\ MaxDepth \in Nat
      /\ E!Top(t) = stack[t][d] /\ E!Depth(t) = d /\ E!Current(t) = <<t, d>>
  BY StackType, EventConstantsHold
     DEF EventConstants, E!Top, E!Last, E!Depth, E!Current, E!ListOf
<1>2. eventLists[E!Current(t)].accepted
  <2>1. CallKept(t, d)
    BY <1>1 DEF EventInv, CallsKept
  <2> QED BY <2>1, <1>1 DEF CallKept
<1>3. ~ E!Destroyed(t) /\ ~ E!Unaccepted(t) /\ ~ E!NextSlot(t)
  BY <1>2 DEF E!Destroyed, E!Unaccepted, E!NextSlot
<1>4. E!Accepted(t) \/ E!Throw(t) => result'[t] \in {"accepted", "thrown"}
  BY EventTyped DEF E!Accepted, E!Throw, E!Leave
<1>5. E!Depth(t)' = Len(stack'[t]) /\ E!Top(t)' = stack'[t][Len(stack'[t])]
  BY DEF E!Depth, E!Top, E!Last
<1>6. \/ (E!Accepted(t) \/ E!Throw(t)) /\ Len(stack'[t]) < d
      \/ Len(stack'[t]) > d
      \/ Len(stack'[t]) = d /\ stack'[t][d].next = stack[t][d].next
  BY <1>3, StackSteps
<1>7. Len(stack'[t]) \in Int
  <2>1. stack'[t] \in Seq(E!Frames)
    BY EventTypeStep DEF E!TypeOK
  <2> QED BY <2>1, LenProperties
<1>8. CASE (E!Accepted(t) \/ E!Throw(t)) /\ Len(stack'[t]) < d
  BY <1>1, <1>4, <1>5, <1>7, <1>8
<1>9. CASE Len(stack'[t]) > d
  BY <1>1, <1>5, <1>7, <1>9 DEF E!Done
<1>10. CASE Len(stack'[t]) = d /\ stack'[t][d].next = stack[t][d].next
  BY <1>1, <1>5, <1>7, <1>10 DEF E!Done
<1> QED BY <1>6, <1>8, <1>9, <1>10

LEMMA AcceptedAskedStep ==
  ASSUME EventInv, [E!Next]_E!vars, NEW t \in Threads, E!Done(t), result'[t] = "accepted"
  PROVE  E!Top(t).asked \/ E!Current(t) \in cut
<1>. PICK d : d = Len(stack[t])
  OBVIOUS
<1>1. E!Depth(t)' = Len(stack'[t]) /\ E!Depth(t) = d
  BY DEF E!Depth
<1>2. Len(stack'[t]) < d
  BY <1>1 DEF E!Done
<1>3. Len(stack'[t]) \in Nat /\ d \in Nat
  <2>1. stack'[t] \in Seq(E!Frames)
    BY EventTypeStep DEF E!TypeOK
  <2> QED BY <2>1, StackType, LenProperties
<1>4. stack[t] # <<>>
  BY <1>2, <1>3, EmptySeq
<1>5. E!Destroyed(t) \/ E!Accepted(t) \/ E!Unaccepted(t) \/ E!Throw(t)
  BY <1>2, <1>3, <1>4, StackSteps
<1>6. ~ E!Destroyed(t) /\ ~ E!Unaccepted(t) /\ ~ E!Throw(t)
  BY EventTyped DEF E!Destroyed, E!Unaccepted, E!Throw, E!Leave
<1>7. eventLists[E!Current(t)].accepted
  BY <1>5, <1>6 DEF E!Accepted
<1>8. /\ d \in 1 .. MaxDepth
      /\ E!Top(t) = stack[t][d] /\ E!Current(t) = <<t, d>>
  BY <1>4, StackType DEF E!Top, E!Last, E!Depth, E!Current, E!ListOf
<1>9. FlagKnown(t, d)
  BY <1>8 DEF EventInv
<1> QED BY <1>7, <1>8, <1>9 DEF FlagKnown

\* Whatever handlers subscribe, unsubscribe, trigger, accept, throw and
\* destroy, a trigger goes on with the slots it found, accept() reaches the
\* innermost trigger of its event and ends exactly that one, and a trigger is
\* reported as accepted only when a handler of it accepted, or when one that
\* used its work list before was cut short, at any depth of nesting and for any
\* number of triggers.  Of the events, slots and threads the proof uses only
\* EventAssumption and that each event is triggered by one thread.
THEOREM EventIsSafe == E!Spec => EventSafe
<1>1. EventInv /\ [E!Next]_E!vars =>
        \A t \in Threads :
          stack[t] # <<>> /\ E!Top(t).asked /\ E!Top(t).event \notin dead =>
            /\ E!Done(t) => result'[t] \in {"accepted", "thrown"}
            /\ E!Depth(t)' = E!Depth(t) => E!Top(t)'.next = E!Top(t).next
  BY AcceptStopsStep
<1>2. EventInv /\ [E!Next]_E!vars =>
        \A t \in Threads :
          E!Done(t) /\ result'[t] = "accepted" => E!Top(t).asked \/ E!Current(t) \in cut
  BY AcceptedAskedStep
<1>3. E!Spec => [][E!Next]_E!vars
  BY PTL DEF E!Spec
<1>4. E!Spec => E!AcceptStops
  BY <1>1, <1>3, EventInvariant, PTL DEF E!AcceptStops
<1>5. E!Spec => E!AcceptedMeansAsked
  BY <1>2, <1>3, EventInvariant, PTL DEF E!AcceptedMeansAsked
<1>6. E!Spec => [](E!TypeOK /\ E!WorkListKept /\ E!ActiveIsInnermost)
  BY EventState, EventInvariant, PTL
<1> QED BY <1>4, <1>5, <1>6 DEF EventSafe

----------------------------------------------------------------------------
(* Timers.                                                                 *)

TimerRecords ==
  [enabled : BOOLEAN, waiting : BOOLEAN, inReady : BOOLEAN, expiry : T!Deadlines,
   object : BOOLEAN, subscribed : BOOLEAN]

TimerCursors == [at : {"objects", "subscribers", "ready"}, obj : Nat, sub : Nat]

\* The iterators of a poll, in its work lists.
Within(x, objs, subs) ==
  /\ x.obj \in 1 .. Len(objs) + 1 /\ x.sub \in 1 .. Len(subs) + 1
  /\ x.at # "objects" => x.obj <= Len(objs)
  /\ x.at = "ready" => x.sub <= Len(subs)

\* Polls further out are in a handler.  A work list holds a subscriber for
\* the object the poll at its depth is at, or what an exception left there.
PollsNest ==
  /\ \A d \in 1 .. Len(polls) - 1 : polls[d].at = "ready"
  /\ \A d \in 1 .. MaxDepth : \A i \in 1 .. Len(subLists[d]) :
       subLists[d][i] \notin timersTorn =>
         Len(subLists[d]) = 1 /\ d <= Len(polls) /\ polls[d].at # "objects"

\* The innermost poll is about to call t.
CallsNow(t) ==
  /\ polls # <<>> /\ polls[Len(polls)].at = "subscribers"
  /\ polls[Len(polls)].sub <= Len(subLists[Len(polls)])
  /\ subLists[Len(polls)][polls[Len(polls)].sub] = t

\* What the members of a timer say of one another, whatever was thrown: r are
\* its members.
Consistent(r, lives, ends, off) ==
  /\ lives = "dead" => off
  /\ r.subscribed => lives = "alive"
  /\ ends # "alive" => r.expiry = "none"

\* ... and what they say of its deadline, if no exception left it in a work
\* list: an armed timer waits and is owed a call, a call that is due is owed,
\* and a timer waits for one or the other unless it was cancelled.
Kept(r, due, lives, off, called) ==
  /\ r.expiry # "none" => r.waiting /\ r.subscribed /\ due = r.expiry
  /\ called => r.expiry = "none" /\ due = "passed" /\ lives = "alive"
  /\ r.waiting => off \/ r.expiry # "none" \/ called

TimerKept(t) ==
  /\ Consistent(timer[t], life[t], task, t \in timersStopped)
  /\ t \in timersTorn \/
     Kept(timer[t], owed[t], life[t], t \in timersStopped, CallsNow(t))

Unthrown == timerThrows = 0 => timersTorn = {} /\ timersTouched = {}

TimerInv ==
  /\ T!TypeOK /\ polls \in Seq(TimerCursors)
  /\ PollsNest /\ Unthrown
  /\ \A t \in TimerNames : TimerKept(t)

LEMMA TimerConstants == SliceExpires \in BOOLEAN /\ MaxDepth \in Nat /\ MaxThrows \in Nat
BY PartsAssumption DEF T!TimerAssumption

LEMMA TimerTyped ==
  ASSUME TimerInv
  PROVE  /\ timer \in [TimerNames -> TimerRecords]
         /\ life \in [TimerNames -> {"unborn", "alive", "dead"}]
         /\ task \in {"alive", "destroyed"}
         /\ objects \in Seq(TimerNames)
         /\ objLists \in [1 .. MaxDepth -> Seq(TimerNames)]
         /\ subLists \in [1 .. MaxDepth -> Seq(TimerNames)]
         /\ timerThrows \in 0 .. MaxThrows
         /\ owed \in [TimerNames -> T!Deadlines]
         /\ timersStopped \subseteq TimerNames /\ timersTorn \subseteq TimerNames
         /\ timersTouched \subseteq TimerNames
BY DEF TimerInv, T!TypeOK, TimerRecords, T!Depths

LEMMA PollsTyped ==
  ASSUME TimerInv
  PROVE  /\ polls \in Seq(TimerCursors) /\ Len(polls) \in 0 .. MaxDepth
         /\ DOMAIN polls = 1 .. Len(polls)
         /\ \A d \in 1 .. Len(polls) :
              polls[d] \in TimerCursors /\ Within(polls[d], objLists[d], subLists[d])
         /\ polls # <<>> =>
              /\ Len(polls) \in 1 .. MaxDepth
              /\ T!Top = polls[Len(polls)]
              /\ T!Objects = objLists[Len(polls)]
              /\ T!Subscribers = subLists[Len(polls)]
         /\ polls = <<>> => Len(polls) = 0
<1>1. polls \in Seq(TimerCursors) /\ Len(polls) <= MaxDepth
  BY DEF TimerInv, T!TypeOK
<1>2. /\ Len(polls) \in 0 .. MaxDepth /\ DOMAIN polls = 1 .. Len(polls)
      /\ polls # <<>> => Len(polls) # 0
      /\ polls = <<>> => Len(polls) = 0
  BY <1>1, LenProperties, EmptySeq, TimerConstants
<1>3. ASSUME NEW d \in 1 .. Len(polls)
      PROVE  polls[d] \in TimerCursors /\ Within(polls[d], objLists[d], subLists[d])
  <2>1. polls[d] \in TimerCursors
    BY <1>1, ElementOfSeq
  <2>2. d \in 1 .. MaxDepth
    BY <1>2, TimerConstants
  <2>3. /\ objLists[d] \in Seq(TimerNames) /\ subLists[d] \in Seq(TimerNames)
    BY <2>2, TimerTyped
  <2>4. DOMAIN objLists[d] = 1 .. Len(objLists[d]) /\ DOMAIN subLists[d] = 1 .. Len(subLists[d])
    BY <2>3, LenProperties
  <2>5. /\ polls[d].obj \in 1 .. Len(objLists[d]) + 1
        /\ polls[d].at # "objects" => polls[d].obj \in DOMAIN objLists[d]
        /\ polls[d].sub \in 1 .. Len(subLists[d]) + 1
        /\ polls[d].at = "ready" => polls[d].sub \in DOMAIN subLists[d]
    BY <1>2 DEF TimerInv, T!TypeOK
  <2> QED BY <2>1, <2>3, <2>4, <2>5, LenProperties DEF Within
<1> QED BY <1>1, <1>2, <1>3 DEF T!Top, T!Last, T!Objects, T!Subscribers, T!ListAt, T!Depth

\* The polls after a step are within their work lists again.
LEMMA PollsFit ==
  ASSUME polls' \in Seq(TimerCursors), Len(polls') <= MaxDepth,
         objLists' \in [1 .. MaxDepth -> Seq(TimerNames)],
         subLists' \in [1 .. MaxDepth -> Seq(TimerNames)],
         \A d \in 1 .. Len(polls') : Within(polls'[d], objLists'[d], subLists'[d]),
         timer' \in [TimerNames -> TimerRecords],
         life' \in [TimerNames -> {"unborn", "alive", "dead"}],
         task' \in {"alive", "destroyed"},
         objects' \in Seq(TimerNames),
         timerThrows' \in 0 .. MaxThrows,
         owed' \in [TimerNames -> T!Deadlines],
         timersStopped' \subseteq TimerNames, timersTorn' \subseteq TimerNames,
         timersTouched' \subseteq TimerNames
  PROVE  T!TypeOK'
<1>1. Len(polls') \in Nat /\ DOMAIN polls' = 1 .. Len(polls')
  BY LenProperties
<1>2. ASSUME NEW d \in DOMAIN polls'
      PROVE  /\ polls'[d].obj \in 1 .. Len(objLists'[d]) + 1
             /\ polls'[d].at \in {"objects", "subscribers", "ready"}
             /\ polls'[d].at # "objects" => polls'[d].obj \in DOMAIN objLists'[d]
             /\ polls'[d].sub \in 1 .. Len(subLists'[d]) + 1
             /\ polls'[d].at = "ready" => polls'[d].sub \in DOMAIN subLists'[d]
  <2>1. polls'[d] \in TimerCursors /\ d \in 1 .. MaxDepth
    BY <1>1, TimerConstants, ElementOfSeq
  <2>2. objLists'[d] \in Seq(TimerNames) /\ subLists'[d] \in Seq(TimerNames)
    BY <2>1
  <2>3. /\ DOMAIN objLists'[d] = 1 .. Len(objLists'[d])
        /\ DOMAIN subLists'[d] = 1 .. Len(subLists'[d])
        /\ Len(objLists'[d]) \in Nat /\ Len(subLists'[d]) \in Nat
    BY <2>2, LenProperties
  <2>4. Within(polls'[d], objLists'[d], subLists'[d])
    BY <1>1
  <2> QED BY <2>1, <2>3, <2>4 DEF Within, TimerCursors
<1>3. timer' \in [TimerNames -> [enabled : BOOLEAN, waiting : BOOLEAN, inReady : BOOLEAN,
                                 expiry : T!Deadlines, object : BOOLEAN, subscribed : BOOLEAN]]
  BY DEF TimerRecords
<1> QED BY <1>2, <1>3 DEF T!TypeOK, T!Depths

\* A timer starts to wait.
Started(r, n) ==
  ~ r.waiting /\ n.waiting /\ n.expiry = "set" /\ n.subscribed

\* It waits, or does not, for what it did before.
Unmoved(r, n) ==
  (n.waiting <=> r.waiting) /\ n.expiry = r.expiry /\ (n.subscribed <=> r.subscribed)

LEMMA AgainMoves ==
  ASSUME NEW r \in TimerRecords
  PROVE  /\ T!Again(r) \in TimerRecords
         /\ Unmoved(r, T!Again(r)) \/ (Started(r, T!Again(r)) /\ task = "alive")
         /\ r.waiting => Unmoved(r, T!Again(r))
BY DEF TimerRecords, T!Again, T!Deadlines, Unmoved, Started

LEMMA CancelEnds ==
  ASSUME NEW r \in TimerRecords
  PROVE  /\ T!Cancel(r) \in TimerRecords
         /\ r.waiting => T!Cancel(r).waiting
         /\ ~ r.waiting => T!Cancel(r) = r
         /\ T!Cancel(r).subscribed <=> r.subscribed
         /\ T!Cancel(r).expiry = "none" \/ T!Cancel(r).expiry = r.expiry
         /\ r.waiting /\ task = "alive" => T!Cancel(r).expiry = "none"
BY DEF TimerRecords, T!Cancel, T!Deadlines

\* What an operation that does not cancel makes of a timer.
LEMMA UseMoves ==
  ASSUME NEW r \in TimerRecords, NEW n,
         \/ n \in {T!Again(r), T!Enable(r, TRUE), T!Enable(r, FALSE)}
         \/ ~ r.waiting /\ n \in {T!Reset(r), T!Disable(r)}
         \/ ~ r.waiting /\ \E q \in TimerRecords : n = T!Assign(r, q)
  PROVE  /\ n \in TimerRecords
         /\ Unmoved(r, n) \/ (Started(r, n) /\ task = "alive")
<1>1. ASSUME NEW e \in BOOLEAN
      PROVE  /\ [r EXCEPT !.enabled = e] \in TimerRecords /\ Unmoved(r, [r EXCEPT !.enabled = e])
             /\ \A m : Unmoved([r EXCEPT !.enabled = e], m) => Unmoved(r, m)
             /\ \A m : Started([r EXCEPT !.enabled = e], m) => Started(r, m)
  BY DEF TimerRecords, Unmoved, Started
<1>2. Unmoved(r, r)
  BY DEF Unmoved
<1>3. CASE n = T!Again(r)
  BY <1>3, AgainMoves
<1>4. CASE n = T!Enable(r, TRUE) \/ n = T!Enable(r, FALSE)
  <2>1. n = r \/ n = [r EXCEPT !.enabled = TRUE] \/ n = T!Again([r EXCEPT !.enabled = TRUE])
    BY <1>4 DEF T!Enable
  <2> QED BY <2>1, <1>1, <1>2, AgainMoves
<1>5. CASE ~ r.waiting /\ n = T!Reset(r)
  BY <1>5, AgainMoves, CancelEnds DEF T!Reset
<1>6. CASE ~ r.waiting /\ n = T!Disable(r)
  BY <1>6, <1>1, CancelEnds DEF T!Disable
<1>7. ASSUME ~ r.waiting, NEW q \in TimerRecords, n = T!Assign(r, q)
      PROVE  n \in TimerRecords /\ (Unmoved(r, n) \/ (Started(r, n) /\ task = "alive"))
  <2>1. q.enabled \in BOOLEAN
    BY DEF TimerRecords
  <2>2. n = [r EXCEPT !.enabled = q.enabled] \/ n = T!Again([r EXCEPT !.enabled = q.enabled])
    BY <1>7, CancelEnds DEF T!Assign
  <2>3. PICK e \in BOOLEAN : e = q.enabled
    BY <2>1
  <2> QED BY <2>2, <2>3, <1>1, AgainMoves
<1> QED BY <1>3, <1>4, <1>5, <1>6, <1>7

\* What is left of a timer that is cancelled: it says that it waits for ever.
Cancelled(r, n) ==
  /\ n.subscribed => r.subscribed
  /\ n.expiry = "none" \/ (n.expiry = r.expiry /\ (task = "alive" => ~ r.waiting))
  /\ r.waiting => n.waiting
  /\ n.waiting => r.waiting

LEMMA CancelledKept ==
  ASSUME NEW r \in TimerRecords, r.waiting, NEW n,
         \/ n \in {T!Cancel(r), T!Reset(r), T!SetDuration(r), T!Disable(r)}
         \/ \E q \in TimerRecords : n = T!Assign(r, q)
  PROVE  n \in TimerRecords /\ Cancelled(r, n)
<1>. DEFINE c == T!Cancel(r)
<1>1. c \in TimerRecords /\ c.waiting /\ Cancelled(r, c)
  BY CancelEnds DEF Cancelled, TimerRecords
<1>. HIDE DEF c
<1>2. ASSUME NEW m \in TimerRecords, Unmoved(c, m)
      PROVE  Cancelled(r, m)
  BY <1>1, <1>2 DEF Cancelled, Unmoved
<1>3. ASSUME NEW e \in BOOLEAN
      PROVE  /\ [c EXCEPT !.enabled = e] \in TimerRecords /\ Unmoved(c, [c EXCEPT !.enabled = e])
             /\ [c EXCEPT !.enabled = e].waiting
             /\ \A m : Unmoved([c EXCEPT !.enabled = e], m) => Unmoved(c, m)
  BY <1>1 DEF TimerRecords, Unmoved
<1>4. T!Again(c) \in TimerRecords /\ Unmoved(c, T!Again(c))
  BY <1>1, AgainMoves
<1>5. CASE n = T!Cancel(r)
  BY <1>1, <1>5 DEF c
<1>6. CASE n = T!Reset(r) \/ n = T!SetDuration(r)
  BY <1>6, <1>2, <1>4 DEF c, T!Reset, T!SetDuration
<1>7. CASE n = T!Disable(r)
  BY <1>7, <1>2, <1>3 DEF c, T!Disable
<1>8. ASSUME NEW q \in TimerRecords, n = T!Assign(r, q)
      PROVE  n \in TimerRecords /\ Cancelled(r, n)
  <2>1. q.enabled \in BOOLEAN
    BY DEF TimerRecords
  <2>2. PICK e \in BOOLEAN : e = q.enabled
    BY <2>1
  <2>3. n = [c EXCEPT !.enabled = e] \/ n = T!Again([c EXCEPT !.enabled = e])
    BY <1>8, <2>2 DEF T!Assign, c
  <2>4. /\ T!Again([c EXCEPT !.enabled = e]) \in TimerRecords
        /\ Unmoved([c EXCEPT !.enabled = e], T!Again([c EXCEPT !.enabled = e]))
    BY <1>3, AgainMoves
  <2> QED BY <2>3, <2>4, <1>2, <1>3
<1> QED BY <1>5, <1>6, <1>7, <1>8

LEMMA DismantledKept ==
  ASSUME NEW r \in TimerRecords
  PROVE  /\ T!Dismantled(r) \in TimerRecords /\ Cancelled(r, T!Dismantled(r))
         /\ ~ T!Dismantled(r).subscribed
<1>1. PICK c \in TimerRecords : c = T!Cancel(r)
  BY CancelEnds
<1>2. /\ [c EXCEPT !.subscribed = FALSE] \in TimerRecords
      /\ ~ [c EXCEPT !.subscribed = FALSE].subscribed
      /\ [c EXCEPT !.subscribed = FALSE].expiry = c.expiry
      /\ [c EXCEPT !.subscribed = FALSE].waiting <=> c.waiting
  BY DEF TimerRecords
<1>3. T!Dismantled(r) = [c EXCEPT !.subscribed = FALSE]
  BY <1>1 DEF T!Dismantled
<1>4. /\ r.waiting <=> c.waiting
      /\ c.expiry = "none" \/ c.expiry = r.expiry
      /\ r.waiting /\ task = "alive" => c.expiry = "none"
  BY <1>1, CancelEnds
<1> QED BY <1>2, <1>3, <1>4 DEF Cancelled

\* The members, the promise and the list of the cancelled when t becomes n.
LEMMA BecomeValues ==
  ASSUME TimerInv, NEW t \in TimerNames, NEW n \in TimerRecords, T!Become(t, n)
  PROVE  /\ timer' = [timer EXCEPT ![t] = n]
         /\ timer' \in [TimerNames -> TimerRecords]
         /\ owed' = [owed EXCEPT ![t] = IF n.waiting /\ ~ timer[t].waiting THEN "set" ELSE @]
         /\ owed' \in [TimerNames -> T!Deadlines]
         /\ objects' \in Seq(TimerNames)
         /\ timersStopped' =
              IF n.waiting /\ ~ timer[t].waiting THEN timersStopped \ {t} ELSE timersStopped
         /\ timersStopped' \subseteq TimerNames
<1> USE TimerTyped
<1>1. timer' = [timer EXCEPT ![t] = n]
  BY DEF T!Become
<1>2. owed' = [owed EXCEPT ![t] = IF n.waiting /\ ~ timer[t].waiting THEN "set" ELSE @]
  BY DEF T!Become
<1>3. timersStopped' =
        IF n.waiting /\ ~ timer[t].waiting THEN timersStopped \ {t} ELSE timersStopped
  BY DEF T!Become
<1>4. objects' = objects \/ objects' = Append(objects, t)
  BY DEF T!Become
<1>5. objects' \in Seq(TimerNames)
  BY <1>4, AppendProperties
<1>6. timer' \in [TimerNames -> TimerRecords] /\ timersStopped' \subseteq TimerNames
  BY <1>1, <1>3
<1>7. owed' \in [TimerNames -> T!Deadlines]
  BY <1>2 DEF T!Deadlines
<1> QED BY <1>1, <1>2, <1>3, <1>5, <1>6, <1>7

LEMMA CancelledValues ==
  ASSUME TimerInv, NEW t \in TimerNames, NEW n \in TimerRecords, T!BecomeCancelled(t, n)
  PROVE  /\ timer' = [timer EXCEPT ![t] = n]
         /\ timer' \in [TimerNames -> TimerRecords]
         /\ owed' = [owed EXCEPT ![t] = "none"]
         /\ owed' \in [TimerNames -> T!Deadlines]
         /\ objects' = objects /\ timersStopped' = timersStopped \cup {t}
BY TimerTyped DEF T!BecomeCancelled, T!Deadlines

\* What a step that leaves polls and lists alone keeps of them.
LEMMA SamePolls ==
  ASSUME TimerInv, polls' = polls, objLists' = objLists, subLists' = subLists,
         timersTorn' = timersTorn, timersTouched' = timersTouched, timerThrows' = timerThrows
  PROVE  /\ polls' \in Seq(TimerCursors) /\ Len(polls') <= MaxDepth
         /\ objLists' \in [1 .. MaxDepth -> Seq(TimerNames)]
         /\ subLists' \in [1 .. MaxDepth -> Seq(TimerNames)]
         /\ \A d \in 1 .. Len(polls') : Within(polls'[d], objLists'[d], subLists'[d])
         /\ PollsNest' /\ Unthrown'
         /\ \A t : CallsNow(t)' <=> CallsNow(t)
         /\ timerThrows' \in 0 .. MaxThrows
         /\ timersTorn' \subseteq TimerNames /\ timersTouched' \subseteq TimerNames
<1>1. Len(polls) <= MaxDepth
  BY PollsTyped, TimerConstants
<1>2. PollsNest' /\ Unthrown'
  BY DEF TimerInv, PollsNest, Unthrown
<1>3. \A t : CallsNow(t)' <=> CallsNow(t)
  BY DEF CallsNow
<1> QED BY <1>1, <1>2, <1>3, PollsTyped, TimerTyped

\* ... and whose timers are as they are required to be.
LEMMA SamePollsKeep ==
  ASSUME TimerInv, polls' = polls, objLists' = objLists, subLists' = subLists,
         timersTorn' = timersTorn, timersTouched' = timersTouched, timerThrows' = timerThrows,
         timer' \in [TimerNames -> TimerRecords],
         life' \in [TimerNames -> {"unborn", "alive", "dead"}],
         task' \in {"alive", "destroyed"},
         objects' \in Seq(TimerNames),
         owed' \in [TimerNames -> T!Deadlines],
         timersStopped' \subseteq TimerNames,
         \A u \in TimerNames :
           /\ Consistent(timer'[u], life'[u], task', u \in timersStopped')
           /\ u \notin timersTorn =>
                Kept(timer'[u], owed'[u], life'[u], u \in timersStopped', CallsNow(u))
  PROVE  TimerInv'
<1>1. T!TypeOK'
  BY SamePolls, PollsFit
<1>2. ASSUME NEW u \in TimerNames PROVE TimerKept(u)'
  <2>1. Consistent(timer[u], life[u], task, u \in timersStopped)'
    OBVIOUS
  <2>2. CallsNow(u)' <=> CallsNow(u)
    BY SamePolls
  <2>3. u \notin timersTorn' =>
          Kept(timer'[u], owed'[u], life'[u], u \in timersStopped', CallsNow(u)')
    BY <2>2 DEF Kept
  <2> QED BY <2>1, <2>3 DEF TimerKept
<1> QED BY <1>1, <1>2, SamePolls DEF TimerInv

\* No poll is about to call a timer while a handler runs, or nothing does.
LEMMA UserCodeCallsNone ==
  ASSUME TimerInv, T!InUserCode
  PROVE  \A t : ~ CallsNow(t)
BY PollsTyped DEF T!InUserCode, CallsNow

\* t is used, and cancelled by that or not; or it is created.
LEMMA BecomeKeeps ==
  ASSUME TimerInv, T!InUserCode, NEW t \in TimerNames, NEW n \in TimerRecords,
         Unmoved(timer[t], n) \/ (Started(timer[t], n) /\ task = "alive"),
         T!Become(t, n),
         life' \in [TimerNames -> {"unborn", "alive", "dead"}], life'[t] = "alive",
         \A u \in TimerNames : u # t => life'[u] = life[u],
         UNCHANGED <<task, objLists, subLists, polls, timerThrows, timersTorn, timersTouched>>
  PROVE  TimerInv'
<1>1. ASSUME NEW u \in TimerNames
      PROVE  /\ Consistent(timer'[u], life'[u], task', u \in timersStopped')
             /\ u \notin timersTorn =>
                  Kept(timer'[u], owed'[u], life'[u], u \in timersStopped', CallsNow(u))
  <2>1. TimerKept(u) /\ ~ CallsNow(u)
    BY UserCodeCallsNone DEF TimerInv
  <2>2. CASE u # t
    <3>1. /\ timer'[u] = timer[u] /\ owed'[u] = owed[u] /\ life'[u] = life[u]
          /\ u \in timersStopped' <=> u \in timersStopped
      BY <2>2, BecomeValues, TimerTyped
    <3> QED BY <2>1, <3>1 DEF TimerKept, Consistent, Kept
  <2>3. CASE u = t /\ Unmoved(timer[t], n)
    <3>1. /\ timer'[t] = n /\ owed'[t] = owed[t]
          /\ t \in timersStopped' <=> t \in timersStopped
      BY <2>3, BecomeValues, TimerTyped DEF Unmoved
    <3> QED BY <2>1, <2>3, <3>1 DEF TimerKept, Consistent, Kept, Unmoved
  <2>4. CASE u = t /\ Started(timer[t], n) /\ task = "alive"
    <3>1. /\ timer'[t] = n /\ owed'[t] = "set"
      BY <2>4, BecomeValues, TimerTyped DEF Started
    <3> QED BY <2>1, <2>4, <3>1 DEF TimerKept, Consistent, Kept, Started
  <2> QED BY <2>2, <2>3, <2>4
<1> QED BY <1>1, BecomeValues, SamePollsKeep, TimerTyped

LEMMA BecomeCancelledKeeps ==
  ASSUME TimerInv, T!InUserCode, NEW t \in TimerNames, NEW n \in TimerRecords,
         Cancelled(timer[t], n), T!BecomeCancelled(t, n),
         life' \in [TimerNames -> {"unborn", "alive", "dead"}],
         n.subscribed => life'[t] = "alive",
         \A u \in TimerNames : u # t => life'[u] = life[u],
         UNCHANGED <<task, objLists, subLists, polls, timerThrows, timersTorn, timersTouched>>
  PROVE  TimerInv'
<1>1. ASSUME NEW u \in TimerNames
      PROVE  /\ Consistent(timer'[u], life'[u], task', u \in timersStopped')
             /\ u \notin timersTorn =>
                  Kept(timer'[u], owed'[u], life'[u], u \in timersStopped', CallsNow(u))
  <2>1. TimerKept(u) /\ ~ CallsNow(u)
    BY UserCodeCallsNone DEF TimerInv
  <2>2. CASE u # t
    <3>1. /\ timer'[u] = timer[u] /\ owed'[u] = owed[u] /\ life'[u] = life[u]
          /\ u \in timersStopped' <=> u \in timersStopped
      BY <2>2, CancelledValues, TimerTyped
    <3> QED BY <2>1, <3>1 DEF TimerKept, Consistent, Kept
  <2>3. CASE u = t
    <3>1. /\ timer'[t] = n /\ owed'[t] = "none" /\ t \in timersStopped'
      BY <2>3, CancelledValues, TimerTyped
    <3>2. Consistent(n, life'[t], task', t \in timersStopped')
      BY <2>1, <2>3, <3>1 DEF TimerKept, Consistent, Cancelled
    <3>3. ASSUME t \notin timersTorn PROVE n.expiry = "none"
      BY <2>1, <2>3, <3>3 DEF TimerKept, Consistent, Kept, Cancelled
    <3> QED BY <2>1, <2>3, <3>1, <3>2, <3>3 DEF Kept
  <2> QED BY <2>2, <2>3
<1> QED BY <1>1, CancelledValues, SamePollsKeep, TimerTyped

LEMMA CreateKeeps ==
  ASSUME TimerInv, NEW t \in TimerNames, NEW wait \in BOOLEAN, T!Create(t, wait)
  PROVE  TimerInv'
<1>1. timer[t] \in TimerRecords
  BY TimerTyped
<1>2. PICK n : n = IF wait THEN T!Again(timer[t]) ELSE timer[t]
  OBVIOUS
<1>3. n \in TimerRecords /\ (Unmoved(timer[t], n) \/ (Started(timer[t], n) /\ task = "alive"))
  <2>1. Unmoved(timer[t], timer[t])
    BY DEF Unmoved
  <2> QED BY <1>1, <1>2, <2>1, AgainMoves
<1>4. /\ T!InUserCode /\ T!Become(t, n) /\ life' = [life EXCEPT ![t] = "alive"]
      /\ UNCHANGED <<task, objLists, subLists, polls, timerThrows, timersTorn, timersTouched>>
  BY <1>2 DEF T!Create, T!lists
<1>5. /\ life' \in [TimerNames -> {"unborn", "alive", "dead"}] /\ life'[t] = "alive"
      /\ \A u \in TimerNames : u # t => life'[u] = life[u]
  BY <1>4, TimerTyped
<1> QED BY <1>3, <1>4, <1>5, BecomeKeeps

LEMMA UseKeeps ==
  ASSUME TimerInv, NEW t \in TimerNames, T!Use(t)
  PROVE  TimerInv'
<1>1. timer[t] \in TimerRecords /\ \A u \in TimerNames : timer[u] \in TimerRecords
  BY TimerTyped
<1>2. /\ T!InUserCode /\ life[t] = "alive"
      /\ UNCHANGED <<life, task, objLists, subLists, polls, timerThrows, timersTorn, timersTouched>>
  BY DEF T!Use, T!lists
<1>3. ASSUME NEW n, T!Become(t, n),
             \/ n \in {T!Again(timer[t]), T!Enable(timer[t], TRUE), T!Enable(timer[t], FALSE)}
             \/ ~ timer[t].waiting /\ n \in {T!Reset(timer[t]), T!Disable(timer[t])}
             \/ ~ timer[t].waiting /\ \E q \in TimerRecords : n = T!Assign(timer[t], q)
      PROVE  TimerInv'
  BY <1>1, <1>2, <1>3, UseMoves, BecomeKeeps, TimerTyped
<1>4. ASSUME NEW n, timer[t].waiting, T!BecomeCancelled(t, n),
             \/ n \in {T!Cancel(timer[t]), T!Reset(timer[t]), T!SetDuration(timer[t]),
                       T!Disable(timer[t])}
             \/ \E q \in TimerRecords : n = T!Assign(timer[t], q)
      PROVE  TimerInv'
  BY <1>1, <1>2, <1>4, CancelledKept, BecomeCancelledKeeps, TimerTyped
<1>5. \/ \E n \in {T!Again(timer[t]), T!Enable(timer[t], TRUE), T!Enable(timer[t], FALSE)} :
           T!Become(t, n)
      \/ /\ timer[t].waiting
         /\ \E n \in {T!Cancel(timer[t]), T!Reset(timer[t]), T!SetDuration(timer[t])} :
              T!BecomeCancelled(t, n)
      \/ ~ timer[t].waiting /\ T!Become(t, T!Reset(timer[t]))
      \/ timer[t].waiting /\ T!BecomeCancelled(t, T!Disable(timer[t]))
      \/ ~ timer[t].waiting /\ T!Become(t, T!Disable(timer[t]))
      \/ \E u \in TimerNames :
           IF timer[t].waiting THEN T!BecomeCancelled(t, T!Assign(timer[t], timer[u]))
           ELSE T!Become(t, T!Assign(timer[t], timer[u]))
  BY DEF T!Use
<1> QED BY <1>1, <1>3, <1>4, <1>5

LEMMA DestroyTimerKeeps ==
  ASSUME TimerInv, NEW t \in TimerNames, T!Destroy(t)
  PROVE  TimerInv'
<1>1. timer[t] \in TimerRecords
  BY TimerTyped
<1>2. PICK n : n = T!Dismantled(timer[t])
  OBVIOUS
<1>3. n \in TimerRecords /\ Cancelled(timer[t], n) /\ ~ n.subscribed
  BY <1>1, <1>2, DismantledKept
<1>4. /\ T!InUserCode /\ T!BecomeCancelled(t, n) /\ life' = [life EXCEPT ![t] = "dead"]
      /\ UNCHANGED <<task, objLists, subLists, polls, timerThrows, timersTorn, timersTouched>>
  BY <1>2 DEF T!Destroy, T!lists
<1>5. /\ life' \in [TimerNames -> {"unborn", "alive", "dead"}]
      /\ \A u \in TimerNames : u # t => life'[u] = life[u]
  BY <1>4, TimerTyped
<1> QED BY <1>3, <1>4, <1>5, BecomeCancelledKeeps

LEMMA CancelTaskKeeps ==
  ASSUME TimerInv, T!CancelTask
  PROVE  TimerInv'
<1>1. /\ objects' = <<>>
      /\ UNCHANGED <<timer, life, task, objLists, subLists, polls, timerThrows, owed,
                     timersStopped, timersTorn, timersTouched>>
  BY DEF T!CancelTask, T!lists, T!history
<1>2. \A u \in TimerNames :
        /\ Consistent(timer'[u], life'[u], task', u \in timersStopped')
        /\ u \notin timersTorn =>
             Kept(timer'[u], owed'[u], life'[u], u \in timersStopped', CallsNow(u))
  BY <1>1 DEF TimerInv, TimerKept
<1>3. objects' \in Seq(TimerNames)
  BY <1>1, EmptySeq
<1> QED BY <1>1, <1>2, <1>3, SamePollsKeep, TimerTyped

LEMMA DestroyTaskKeeps ==
  ASSUME TimerInv, T!DestroyTask
  PROVE  TimerInv'
<1>1. /\ polls = <<>> /\ task' = "destroyed" /\ objects' = <<>>
      /\ timer' = [t \in TimerNames |->
           [timer[t] EXCEPT !.object = FALSE, !.subscribed = FALSE, !.expiry = "none"]]
      /\ owed' = [t \in TimerNames |-> "none"] /\ timersStopped' = TimerNames
      /\ UNCHANGED <<life, objLists, subLists, polls, timerThrows, timersTorn, timersTouched>>
  BY DEF T!DestroyTask, T!lists
<1>2. objects' \in Seq(TimerNames) /\ owed' \in [TimerNames -> T!Deadlines]
  BY <1>1, EmptySeq DEF T!Deadlines
<1>3. \A u \in TimerNames :
        /\ timer'[u] \in TimerRecords
        /\ timer'[u].expiry = "none" /\ ~ timer'[u].subscribed
  BY <1>1, TimerTyped DEF TimerRecords, T!Deadlines
<1>4. timer' \in [TimerNames -> TimerRecords]
  BY <1>1, <1>3
<1>5. \A u \in TimerNames :
        /\ Consistent(timer'[u], life'[u], task', u \in timersStopped')
        /\ u \notin timersTorn =>
             Kept(timer'[u], owed'[u], life'[u], u \in timersStopped', CallsNow(u))
  BY <1>1, <1>3 DEF Consistent, Kept, CallsNow
<1> QED BY <1>1, <1>2, <1>4, <1>5, SamePollsKeep, TimerTyped

LEMMA TimePassesKeeps ==
  ASSUME TimerInv, NEW t \in TimerNames, T!TimePasses(t)
  PROVE  TimerInv'
<1>1. /\ timer[t].expiry = "set"
      /\ timer' = [timer EXCEPT ![t] = [timer[t] EXCEPT !.expiry = "passed"]]
      /\ owed' = [owed EXCEPT ![t] = IF @ = "set" THEN "passed" ELSE @]
      /\ UNCHANGED <<life, task, objects, objLists, subLists, polls, timerThrows,
                     timersStopped, timersTorn, timersTouched>>
  BY DEF T!TimePasses, T!lists
<1>2. PICK y \in TimerRecords :
        /\ timer' = [timer EXCEPT ![t] = y] /\ y.expiry = "passed"
        /\ y.waiting <=> timer[t].waiting
        /\ y.subscribed <=> timer[t].subscribed
  <2>1. timer[t] \in TimerRecords
    BY TimerTyped
  <2>2. /\ [timer[t] EXCEPT !.expiry = "passed"] \in TimerRecords
        /\ [timer[t] EXCEPT !.expiry = "passed"].expiry = "passed"
        /\ [timer[t] EXCEPT !.expiry = "passed"].waiting <=> timer[t].waiting
        /\ [timer[t] EXCEPT !.expiry = "passed"].subscribed <=> timer[t].subscribed
    BY <2>1 DEF TimerRecords, T!Deadlines
  <2> QED BY <1>1, <2>2
<1>3. timer' \in [TimerNames -> TimerRecords]
  BY <1>2, TimerTyped
<1>4. owed' \in [TimerNames -> T!Deadlines]
  BY <1>1, TimerTyped DEF T!Deadlines
<1>5. ASSUME NEW u \in TimerNames
      PROVE  /\ Consistent(timer'[u], life'[u], task', u \in timersStopped')
             /\ u \notin timersTorn =>
                  Kept(timer'[u], owed'[u], life'[u], u \in timersStopped', CallsNow(u))
  <2>1. TimerKept(u)
    BY DEF TimerInv
  <2>2. CASE u # t
    <3>1. timer'[u] = timer[u] /\ owed'[u] = owed[u]
      BY <2>2, <1>1, <1>2, TimerTyped
    <3> QED BY <2>1, <3>1, <1>1 DEF TimerKept
  <2>3. CASE u = t
    <3>1. timer'[t] = y /\ owed'[t] = IF owed[t] = "set" THEN "passed" ELSE owed[t]
      BY <1>1, <1>2, TimerTyped
    <3> QED BY <2>1, <2>3, <3>1, <1>1, <1>2 DEF TimerKept, Consistent, Kept
  <2> QED BY <2>2, <2>3
<1> QED BY <1>1, <1>3, <1>4, <1>5, SamePollsKeep, TimerTyped

\* The polls when the innermost one moves on, and when it ends.
LEMMA MovedPolls ==
  ASSUME TimerInv, polls # <<>>, NEW y \in TimerCursors
  PROVE  /\ [polls EXCEPT ![Len(polls)] = y] \in Seq(TimerCursors)
         /\ Len([polls EXCEPT ![Len(polls)] = y]) = Len(polls)
         /\ [polls EXCEPT ![Len(polls)] = y][Len(polls)] = y
         /\ \A d \in 1 .. Len(polls) - 1 : [polls EXCEPT ![Len(polls)] = y][d] = polls[d]
<1>1. polls \in Seq(TimerCursors) /\ Len(polls) \in 1 .. MaxDepth /\ MaxDepth \in Nat
  BY PollsTyped, TimerConstants
<1>2. Len(polls) \in 1 .. Len(polls)
  BY <1>1
<1> QED BY <1>1, <1>2, ExceptSeq

LEMMA FrontPolls ==
  ASSUME TimerInv, polls # <<>>
  PROVE  /\ T!Front(polls) \in Seq(TimerCursors)
         /\ Len(T!Front(polls)) = Len(polls) - 1
         /\ \A d \in 1 .. Len(polls) - 1 : T!Front(polls)[d] = polls[d]
<1>1. polls \in Seq(TimerCursors) /\ Len(polls) \in 1 .. MaxDepth /\ MaxDepth \in Nat
  BY PollsTyped, TimerConstants
<1>. PICK m : m = Len(polls) - 1
  OBVIOUS
<1>2. m \in Nat /\ \A i \in 1 .. m : polls[i] \in TimerCursors
  BY <1>1, PollsTyped
<1>3. /\ SubSeq(polls, 1, m) \in Seq(TimerCursors) /\ Len(SubSeq(polls, 1, m)) = m
      /\ \A d \in 1 .. m : SubSeq(polls, 1, m)[d] = polls[d]
  BY <1>2, SubSeqProperties
<1> QED BY <1>3 DEF T!Front

\* A step of the innermost poll, or one that begins or ends a poll: what it
\* has to keep, at each depth.
LEMMA PollStepKeeps ==
  ASSUME TimerInv,
         polls' \in Seq(TimerCursors), Len(polls') <= MaxDepth,
         objLists' \in [1 .. MaxDepth -> Seq(TimerNames)],
         subLists' \in [1 .. MaxDepth -> Seq(TimerNames)],
         \A d \in 1 .. Len(polls') : Within(polls'[d], objLists'[d], subLists'[d]),
         PollsNest', Unthrown',
         timer' \in [TimerNames -> TimerRecords],
         objects' \in Seq(TimerNames),
         owed' \in [TimerNames -> T!Deadlines],
         timerThrows' \in 0 .. MaxThrows,
         timersStopped' \subseteq TimerNames, timersTorn' \subseteq TimerNames,
         timersTouched' \subseteq TimerNames,
         UNCHANGED <<life, task>>,
         \A u \in TimerNames :
           /\ Consistent(timer'[u], life[u], task, u \in timersStopped')
           /\ u \notin timersTorn' =>
                Kept(timer'[u], owed'[u], life[u], u \in timersStopped', CallsNow(u)')
  PROVE  TimerInv'
<1>1. T!TypeOK'
  BY PollsFit, TimerTyped
<1>2. ASSUME NEW u \in TimerNames PROVE TimerKept(u)'
  <2>1. Consistent(timer'[u], life'[u], task', u \in timersStopped')
    OBVIOUS
  <2>2. u \notin timersTorn' =>
          Kept(timer'[u], owed'[u], life'[u], u \in timersStopped', CallsNow(u)')
    OBVIOUS
  <2> QED BY <2>1, <2>2 DEF TimerKept
<1> QED BY <1>1, <1>2 DEF TimerInv

LEMMA PollKeeps ==
  ASSUME TimerInv, T!Poll
  PROVE  TimerInv'
<1>. PICK m : m = Len(polls)
  OBVIOUS
<1>. PICK n : n = m + 1
  OBVIOUS
<1>x. PICK x \in TimerCursors : /\ x = [at |-> "objects", obj |-> 1, sub |-> 1]
                                /\ x.at = "objects" /\ x.obj = 1 /\ x.sub = 1
  <2>1. [at |-> "objects", obj |-> 1, sub |-> 1] \in TimerCursors
    BY DEF TimerCursors
  <2> QED BY <2>1
<1>1. /\ T!InUserCode /\ Len(polls) < MaxDepth
      /\ objLists' = [objLists EXCEPT ![n] = @ \o objects]
      /\ polls' = Append(polls, x)
      /\ UNCHANGED <<timer, life, task, objects, subLists, timerThrows, owed,
                     timersStopped, timersTorn, timersTouched>>
  BY <1>x DEF T!Poll, T!ListAt, T!Depth, T!Snapshot, T!history
<1>2. /\ polls \in Seq(TimerCursors) /\ Len(polls) \in 0 .. MaxDepth /\ n \in 1 .. MaxDepth
      /\ MaxDepth \in Nat /\ Len(polls) = m /\ m \in Nat
  BY <1>1, PollsTyped, TimerConstants
<1>4. /\ polls' \in Seq(TimerCursors) /\ Len(polls') = n /\ polls'[n] = x
      /\ \A d \in 1 .. m : polls'[d] = polls[d]
  BY <1>1, <1>2, AppendProperties
<1>5. /\ objLists' \in [1 .. MaxDepth -> Seq(TimerNames)]
      /\ \A d \in 1 .. m : objLists'[d] = objLists[d]
  <2>1. objLists[n] \o objects \in Seq(TimerNames)
    BY <1>2, TimerTyped, ConcatProperties
  <2> QED BY <2>1, <1>1, <1>2, TimerTyped
<1>6. ASSUME NEW d \in 1 .. n PROVE Within(polls'[d], objLists'[d], subLists'[d])
  <2>1. CASE d = n
    <3>1. Len(objLists'[n]) \in Nat /\ Len(subLists'[n]) \in Nat
      BY <1>1, <1>2, <1>5, TimerTyped, LenProperties
    <3> QED BY <2>1, <3>1, <1>x, <1>4 DEF Within
  <2>2. CASE d # n
    <3>1. d \in 1 .. m
      BY <2>2, <1>2
    <3> QED BY <3>1, <1>1, <1>2, <1>4, <1>5, PollsTyped
  <2> QED BY <2>1, <2>2
<1>7. PollsNest'
  <2>1. ASSUME NEW d \in 1 .. m PROVE polls'[d].at = "ready"
    <3>1. CASE d = m
      <4>1. polls # <<>>
        BY <3>1, <2>1, <1>2, PollsTyped
      <4> QED BY <4>1, <3>1, <1>1, <1>2, <1>4, PollsTyped DEF T!InUserCode
    <3>2. CASE d # m
      <4>0. m \in Nat
        BY <1>2
      <4>1. d \in 1 .. m - 1
        BY <4>0, <3>2
      <4> QED BY <4>1, <1>2, <1>4 DEF TimerInv, PollsNest
    <3> QED BY <3>1, <3>2
  <2>2. ASSUME NEW d \in 1 .. MaxDepth, NEW i \in 1 .. Len(subLists[d]),
               subLists[d][i] \notin timersTorn
        PROVE  Len(subLists[d]) = 1 /\ d <= n /\ polls'[d].at # "objects"
    <3>1. Len(subLists[d]) = 1 /\ d <= m /\ polls[d].at # "objects"
      BY <2>2, <1>2 DEF TimerInv, PollsNest
    <3> QED BY <3>1, <1>2, <1>4
  <2> QED BY <2>1, <2>2, <1>1, <1>2, <1>4 DEF PollsNest
<1>8. Unthrown'
  BY <1>1 DEF TimerInv, Unthrown
<1>9. ASSUME NEW u \in TimerNames
      PROVE  /\ Consistent(timer'[u], life[u], task, u \in timersStopped')
             /\ u \notin timersTorn' =>
                  Kept(timer'[u], owed'[u], life[u], u \in timersStopped', CallsNow(u)')
  <2>1. ~ CallsNow(u)' /\ ~ CallsNow(u)
    <3>1. polls'[Len(polls')].at = "objects"
      BY <1>x, <1>4
    <3> QED BY <3>1, <1>1, UserCodeCallsNone DEF CallsNow
  <2>2. TimerKept(u)
    BY DEF TimerInv
  <2> QED BY <2>1, <2>2, <1>1 DEF TimerKept, Kept
<1>10. Len(polls') <= MaxDepth /\ \A d \in 1 .. Len(polls') : Within(polls'[d], objLists'[d], subLists'[d])
  BY <1>2, <1>4, <1>6
<1> QED BY <1>1, <1>4, <1>5, <1>7, <1>8, <1>9, <1>10, PollStepKeeps, TimerTyped

\* The innermost poll moves on: what is left to show of the polls.
LEMMA MovedNest ==
  ASSUME TimerInv, polls # <<>>, NEW y \in TimerCursors,
         polls' = [polls EXCEPT ![Len(polls)] = y],
         objLists' \in [1 .. MaxDepth -> Seq(TimerNames)],
         subLists' \in [1 .. MaxDepth -> Seq(TimerNames)],
         \A d \in 1 .. MaxDepth : d # Len(polls) =>
           objLists'[d] = objLists[d] /\ subLists'[d] = subLists[d],
         timersTorn \subseteq timersTorn',
         Within(y, objLists'[Len(polls)], subLists'[Len(polls)]),
         \A i \in 1 .. Len(subLists'[Len(polls)]) :
           subLists'[Len(polls)][i] \notin timersTorn' =>
             Len(subLists'[Len(polls)]) = 1 /\ y.at # "objects"
  PROVE  /\ polls' \in Seq(TimerCursors) /\ Len(polls') <= MaxDepth
         /\ \A d \in 1 .. Len(polls') : Within(polls'[d], objLists'[d], subLists'[d])
         /\ PollsNest'
         /\ Len(polls') = Len(polls) /\ polls'[Len(polls)] = y
<1>. PICK n : n = Len(polls)
  OBVIOUS
<1>1. n \in 1 .. MaxDepth /\ MaxDepth \in Nat /\ Len(polls) = n
  BY PollsTyped, TimerConstants
<1>2. /\ polls' \in Seq(TimerCursors) /\ Len(polls') = n /\ polls'[n] = y
      /\ \A d \in 1 .. n - 1 : polls'[d] = polls[d]
  BY <1>1, MovedPolls
<1>3. ASSUME NEW d \in 1 .. n PROVE Within(polls'[d], objLists'[d], subLists'[d])
  <2>1. CASE d = n
    BY <2>1, <1>1, <1>2
  <2>2. CASE d # n
    <3>1. d \in 1 .. n - 1 /\ d \in 1 .. MaxDepth /\ d \in 1 .. n
      BY <2>2, <1>1
    <3> QED BY <3>1, <2>2, <1>1, <1>2, PollsTyped
  <2> QED BY <2>1, <2>2
<1>4. \A d \in 1 .. n - 1 : polls'[d].at = "ready"
  BY <1>1, <1>2 DEF TimerInv, PollsNest
<1>5. ASSUME NEW d \in 1 .. MaxDepth, NEW i \in 1 .. Len(subLists'[d]),
             subLists'[d][i] \notin timersTorn'
      PROVE  Len(subLists'[d]) = 1 /\ d <= n /\ polls'[d].at # "objects"
  <2>1. CASE d = n
    BY <2>1, <1>1, <1>2, <1>5
  <2>2. CASE d # n
    <3>1. subLists'[d] = subLists[d]
      BY <2>2, <1>1
    <3>2. Len(subLists[d]) = 1 /\ d <= n /\ polls[d].at # "objects"
      BY <3>1, <1>1, <1>5 DEF TimerInv, PollsNest
    <3>3. d \in 1 .. n - 1
      BY <3>2, <2>2, <1>1
    <3> QED BY <3>1, <3>2, <3>3, <1>2
  <2> QED BY <2>1, <2>2
<1> QED BY <1>1, <1>2, <1>3, <1>4, <1>5 DEF PollsNest

\* ... and when it ends, with a work list that is empty, or torn.
LEMMA FrontNest ==
  ASSUME TimerInv, polls # <<>>, polls' = T!Front(polls),
         objLists' \in [1 .. MaxDepth -> Seq(TimerNames)],
         subLists' \in [1 .. MaxDepth -> Seq(TimerNames)],
         \A d \in 1 .. MaxDepth : d # Len(polls) =>
           objLists'[d] = objLists[d] /\ subLists'[d] = subLists[d],
         timersTorn \subseteq timersTorn',
         \A i \in 1 .. Len(subLists'[Len(polls)]) : subLists'[Len(polls)][i] \in timersTorn'
  PROVE  /\ polls' \in Seq(TimerCursors) /\ Len(polls') <= MaxDepth
         /\ \A d \in 1 .. Len(polls') : Within(polls'[d], objLists'[d], subLists'[d])
         /\ PollsNest'
         /\ \A u : ~ CallsNow(u)'
<1>. PICK n : n = Len(polls)
  OBVIOUS
<1>1. n \in 1 .. MaxDepth /\ MaxDepth \in Nat /\ Len(polls) = n
  BY PollsTyped, TimerConstants
<1>2. /\ polls' \in Seq(TimerCursors) /\ Len(polls') = n - 1
      /\ \A d \in 1 .. n - 1 : polls'[d] = polls[d]
  BY <1>1, FrontPolls
<1>3. ASSUME NEW d \in 1 .. n - 1 PROVE Within(polls'[d], objLists'[d], subLists'[d])
  <2>1. d # n /\ d \in 1 .. MaxDepth /\ d \in 1 .. n
    BY <1>1
  <2> QED BY <2>1, <1>1, <1>2, PollsTyped
<1>4. \A d \in 1 .. n - 1 : polls'[d].at = "ready"
  BY <1>1, <1>2 DEF TimerInv, PollsNest
<1>5. ASSUME NEW d \in 1 .. MaxDepth, NEW i \in 1 .. Len(subLists'[d]),
             subLists'[d][i] \notin timersTorn'
      PROVE  Len(subLists'[d]) = 1 /\ d <= n - 1 /\ polls'[d].at # "objects"
  <2>1. d # n
    BY <1>1, <1>5
  <2>2. subLists'[d] = subLists[d]
    BY <2>1, <1>1
  <2>3. Len(subLists[d]) = 1 /\ d <= n /\ polls[d].at # "objects"
    BY <2>2, <1>1, <1>5 DEF TimerInv, PollsNest
  <2>4. d \in 1 .. n - 1
    BY <2>3, <2>1, <1>1
  <2> QED BY <2>2, <2>3, <2>4, <1>2
<1>6. ASSUME NEW d \in 1 .. Len(polls') - 1 PROVE polls'[d].at = "ready"
  <2>1. n \in Nat /\ Len(polls') = n - 1
    BY <1>1, <1>2
  <2>2. d \in 1 .. n - 1
    BY <2>1
  <2> QED BY <2>2, <1>4
<1>7. PollsNest'
  BY <1>1, <1>2, <1>5, <1>6 DEF PollsNest
<1>8. ASSUME NEW u, CallsNow(u)' PROVE FALSE
  <2>1. polls' # <<>> /\ polls'[Len(polls')].at = "subscribers"
    BY <1>8 DEF CallsNow
  <2>2. Len(polls') \in 1 .. n - 1
    BY <2>1, <1>1, <1>2, EmptySeq
  <2> QED BY <2>1, <2>2, <1>4
<1>9. Len(polls') <= MaxDepth
  BY <1>1, <1>2
<1>10. \A d \in 1 .. Len(polls') : Within(polls'[d], objLists'[d], subLists'[d])
  BY <1>2, <1>3
<1> QED BY <1>2, <1>7, <1>8, <1>9, <1>10

LEMMA TopTyped ==
  ASSUME TimerInv, polls # <<>>
  PROVE  LET n == Len(polls)
         IN  /\ n \in 1 .. MaxDepth /\ polls[n] \in TimerCursors
             /\ polls[n].obj \in Nat /\ polls[n].sub \in Nat
             /\ polls[n].obj + 1 \in Nat /\ polls[n].sub + 1 \in Nat
             /\ objLists[n] \in Seq(TimerNames) /\ subLists[n] \in Seq(TimerNames)
             /\ Len(objLists[n]) \in Nat /\ Len(subLists[n]) \in Nat
             /\ polls[n].obj >= 1 /\ polls[n].sub >= 1
             /\ polls[n].obj <= Len(objLists[n]) + 1 /\ polls[n].sub <= Len(subLists[n]) + 1
             /\ polls[n].at # "objects" => polls[n].obj <= Len(objLists[n])
             /\ polls[n].at = "ready" => polls[n].sub <= Len(subLists[n])
             /\ polls[n].at = "objects" =>
                  \A i \in 1 .. Len(subLists[n]) : subLists[n][i] \in timersTorn
             /\ \A i \in 1 .. Len(subLists[n]) :
                  subLists[n][i] \in timersTorn \/ Len(subLists[n]) = 1
<1>. PICK n : n = Len(polls)
  OBVIOUS
<1>1. n \in 1 .. MaxDepth /\ MaxDepth \in Nat /\ Len(polls) = n
  BY PollsTyped, TimerConstants
<1>2. n \in 1 .. n
  BY <1>1
<1>3. polls[n] \in TimerCursors /\ Within(polls[n], objLists[n], subLists[n])
  BY <1>1, <1>2, PollsTyped
<1>4. objLists[n] \in Seq(TimerNames) /\ subLists[n] \in Seq(TimerNames)
  BY <1>1, TimerTyped
<1>5. Len(objLists[n]) \in Nat /\ Len(subLists[n]) \in Nat
  BY <1>4, LenProperties
<1>6. polls[n].obj \in Nat /\ polls[n].sub \in Nat
  BY <1>3 DEF TimerCursors
<1>7. \A i \in 1 .. Len(subLists[n]) :
        subLists[n][i] \notin timersTorn => Len(subLists[n]) = 1 /\ polls[n].at # "objects"
  BY <1>1 DEF TimerInv, PollsNest
<1>8. /\ polls[n].obj >= 1 /\ polls[n].sub >= 1
      /\ polls[n].obj <= Len(objLists[n]) + 1 /\ polls[n].sub <= Len(subLists[n]) + 1
      /\ polls[n].at # "objects" => polls[n].obj <= Len(objLists[n])
      /\ polls[n].at = "ready" => polls[n].sub <= Len(subLists[n])
  BY <1>3, <1>5, <1>6 DEF Within
<1>9. polls[n].obj + 1 \in Nat /\ polls[n].sub + 1 \in Nat
  BY <1>6
<1> QED BY <1>1, <1>3, <1>4, <1>5, <1>6, <1>7, <1>8, <1>9

\* A step of the innermost poll that leaves the work lists, and the timers
\* whose deadlines it might change, alone.
LEMMA StepMoves ==
  ASSUME TimerInv, polls # <<>>, NEW y \in TimerCursors,
         polls' = [polls EXCEPT ![Len(polls)] = y],
         Within(y, objLists[Len(polls)], subLists[Len(polls)]),
         y.at = "objects" =>
           \A i \in 1 .. Len(subLists[Len(polls)]) : subLists[Len(polls)][i] \in timersTorn,
         UNCHANGED <<objLists, subLists, timersTorn>>
  PROVE  /\ polls' \in Seq(TimerCursors) /\ Len(polls') <= MaxDepth
         /\ \A d \in 1 .. Len(polls') : Within(polls'[d], objLists'[d], subLists'[d])
         /\ PollsNest'
         /\ Len(polls') = Len(polls) /\ polls'[Len(polls)] = y
<1>. PICK n : n = Len(polls)
  OBVIOUS
<1>1. \A i \in 1 .. Len(subLists'[n]) : subLists'[n][i] \notin timersTorn' =>
         Len(subLists'[n]) = 1 /\ y.at # "objects"
  BY TopTyped
<1> QED BY <1>1, MovedNest, TimerTyped

\* What an expired object adds to the work list of its depth.
LEMMA Gathered ==
  ASSUME NEW q \in Seq(TimerNames), NEW t \in TimerNames, NEW added, added = <<t>> \/ added = <<>>
  PROVE  \E w \in Seq(TimerNames) :
           /\ w = q \o added /\ Len(w) \in Nat
           /\ \A i \in 1 .. Len(w) : (i \in 1 .. Len(q) /\ w[i] = q[i]) \/ w[i] = t
           /\ q = <<>> => w = added
<1>1. /\ added \in Seq(TimerNames) /\ Len(added) \in Nat
      /\ \A i \in 1 .. Len(added) : added[i] = t
  <2>1. CASE added = <<t>>
    BY <2>1
  <2>2. CASE added = <<>>
    BY <2>2, EmptySeq
  <2> QED BY <2>1, <2>2
<1>2. Len(q) \in Nat
  BY LenProperties
<1>. PICK w : w = q \o added
  OBVIOUS
<1>3. /\ w \in Seq(TimerNames) /\ Len(w) = Len(q) + Len(added)
      /\ \A i \in 1 .. Len(q) + Len(added) :
           w[i] = IF i <= Len(q) THEN q[i] ELSE added[i - Len(q)]
  BY <1>1, ConcatProperties
<1>4. ASSUME NEW i \in 1 .. Len(w) PROVE (i \in 1 .. Len(q) /\ w[i] = q[i]) \/ w[i] = t
  <2>1. CASE i <= Len(q)
    BY <2>1, <1>1, <1>2, <1>3
  <2>2. CASE i > Len(q)
    <3>1. i - Len(q) \in 1 .. Len(added)
      BY <2>2, <1>1, <1>2, <1>3
    <3>2. w[i] = added[i - Len(q)]
      BY <2>2, <1>1, <1>2, <1>3
    <3> QED BY <3>1, <3>2, <1>1
  <2> QED BY <2>1, <2>2, <1>2
<1>5. q = <<>> => w = added
  BY <1>1, ConcatEmptySeq
<1>6. Len(w) \in Nat
  BY <1>3, LenProperties
<1> QED BY <1>3, <1>4, <1>5, <1>6

LEMMA NextObjectKeeps ==
  ASSUME TimerInv, T!NextObject
  PROVE  TimerInv'
<1>. PICK n : n = Len(polls)
  OBVIOUS
<1>. PICK x : x = polls[n]
  OBVIOUS
<1>0. polls # <<>> /\ x.at = "objects" /\ x.obj <= Len(objLists[n])
  BY PollsTyped DEF T!NextObject
<1>1. /\ Len(polls) = n /\ n \in 1 .. MaxDepth /\ x \in TimerCursors
      /\ x.obj \in Nat /\ x.obj >= 1 /\ x.sub \in Nat /\ x.sub >= 1 /\ x.obj + 1 \in Nat
      /\ x.sub <= Len(subLists[n]) + 1
      /\ objLists[n] \in Seq(TimerNames) /\ subLists[n] \in Seq(TimerNames)
      /\ Len(objLists[n]) \in Nat /\ Len(subLists[n]) \in Nat
      /\ \A i \in 1 .. Len(subLists[n]) : subLists[n][i] \in timersTorn
  BY <1>0, TopTyped
<1>t. PICK t : t = objLists[n][x.obj]
  OBVIOUS
<1>2. t \in TimerNames
  <2>1. x.obj \in 1 .. Len(objLists[n])
    BY <1>0, <1>1
  <2> QED BY <2>1, <1>1, <1>t, ElementOfSeq
<1>3. T!Depth = n /\ T!Top = x /\ T!Objects[T!Top.obj] = t /\ T!Subscribers = subLists[n]
  BY <1>0, <1>t, PollsTyped DEF T!Depth
<1>4. UNCHANGED <<life, task, objects, objLists, timerThrows, owed, timersStopped, timersTouched>>
  BY DEF T!NextObject
<1>5. CASE timer[t].expiry # "passed"
  <2>1. /\ polls' = [polls EXCEPT ![n].obj = @ + 1]
        /\ UNCHANGED <<timer, subLists, timersTorn>>
    BY <1>3, <1>5 DEF T!NextObject
  <2>. PICK y : y = [x EXCEPT !.obj = x.obj + 1]
    OBVIOUS
  <2>2. y \in TimerCursors /\ y.obj = x.obj + 1 /\ y.sub = x.sub /\ y.at = "objects"
    BY <1>0, <1>1 DEF TimerCursors
  <2>3. polls' = [polls EXCEPT ![n] = y]
    BY <2>1
  <2>4. Within(y, objLists[n], subLists[n])
    BY <2>2, <1>0, <1>1 DEF Within
  <2>5. /\ polls' \in Seq(TimerCursors) /\ Len(polls') <= MaxDepth
        /\ \A d \in 1 .. Len(polls') : Within(polls'[d], objLists'[d], subLists'[d])
        /\ PollsNest'
        /\ Len(polls') = n /\ polls'[n] = y
    BY <2>1, <2>2, <2>3, <2>4, <1>0, <1>1, <1>4, StepMoves
  <2>6. \A u : ~ CallsNow(u)' /\ ~ CallsNow(u)
    BY <2>2, <2>5, <1>0, <1>1 DEF CallsNow
  <2>7. Unthrown'
    BY <2>1, <1>4 DEF TimerInv, Unthrown
  <2>8. \A u \in TimerNames :
          /\ Consistent(timer'[u], life[u], task, u \in timersStopped')
          /\ u \notin timersTorn' =>
               Kept(timer'[u], owed'[u], life[u], u \in timersStopped', CallsNow(u)')
    BY <2>1, <2>6, <1>4 DEF TimerInv, TimerKept, Kept
  <2> QED BY <2>1, <2>5, <2>7, <2>8, <1>4, PollStepKeeps, TimerTyped
<1>6. CASE timer[t].expiry = "passed"
  <2>1. /\ timer' = [timer EXCEPT ![t] = [timer[t] EXCEPT !.expiry = "none"]]
        /\ subLists' = [subLists EXCEPT ![n] =
                          @ \o IF timer[t].subscribed THEN <<t>> ELSE <<>>]
        /\ polls' = [polls EXCEPT ![n].at = "subscribers", ![n].sub = 1]
        /\ timersTorn' = IF subLists[n] = <<>> THEN timersTorn ELSE timersTorn \cup {t}
    BY <1>3, <1>6 DEF T!NextObject, T!ListAt
  <2>2. timer[t] \in TimerRecords /\ TimerKept(t)
    BY <1>2, TimerTyped DEF TimerInv
  <2>3. PICK r \in TimerRecords :
          /\ timer' = [timer EXCEPT ![t] = r] /\ r.expiry = "none"
          /\ r.waiting <=> timer[t].waiting
          /\ r.subscribed <=> timer[t].subscribed
    <3>1. /\ [timer[t] EXCEPT !.expiry = "none"] \in TimerRecords
          /\ [timer[t] EXCEPT !.expiry = "none"].expiry = "none"
          /\ [timer[t] EXCEPT !.expiry = "none"].waiting <=> timer[t].waiting
          /\ [timer[t] EXCEPT !.expiry = "none"].subscribed <=> timer[t].subscribed
      BY <2>2 DEF TimerRecords, T!Deadlines
    <3> QED BY <2>1, <3>1
  <2>4. PICK added \in {<<t>>, <<>>} :
          /\ added = IF timer[t].subscribed THEN <<t>> ELSE <<>>
          /\ timer[t].subscribed => added = <<t>>
    OBVIOUS
  <2>5. PICK subs \in Seq(TimerNames) :
          /\ subs = subLists[n] \o added /\ Len(subs) \in Nat
          /\ \A i \in 1 .. Len(subs) :
               (i \in 1 .. Len(subLists[n]) /\ subs[i] = subLists[n][i]) \/ subs[i] = t
          /\ subLists[n] = <<>> => subs = added
    <3>1. added = <<t>> \/ added = <<>>
      BY <2>4
    <3>2. subLists[n] \in Seq(TimerNames)
      BY <1>1
    <3> QED BY <3>1, <3>2, <1>2, Gathered
  <2>6. /\ subs \in Seq(TimerNames) /\ Len(subs) \in Nat
        /\ \A i \in 1 .. Len(subs) :
             (i \in 1 .. Len(subLists[n]) /\ subs[i] = subLists[n][i]) \/ subs[i] = t
        /\ subLists[n] = <<>> => subs = added
    BY <2>5
  <2>7. \A i \in 1 .. Len(subs) : subs[i] \in timersTorn \/ subs[i] = t
    BY <2>6, <1>1
  <2>x. subLists' = [subLists EXCEPT ![n] = subs]
    BY <2>1, <2>4, <2>5
  <2>8. /\ subLists' \in [1 .. MaxDepth -> Seq(TimerNames)] /\ subLists'[n] = subs
        /\ \A d \in 1 .. MaxDepth : d # n => subLists'[d] = subLists[d]
    BY <2>x, <2>6, <1>1, TimerTyped
  <2>9. timersTorn \subseteq timersTorn' /\ timersTorn' \subseteq TimerNames
    BY <2>1, <1>2, TimerTyped
  <2>10. PICK y \in TimerCursors :
           /\ y = [x EXCEPT !.at = "subscribers", !.sub = 1]
           /\ y.obj = x.obj /\ y.sub = 1 /\ y.at = "subscribers"
    <3>1. [x EXCEPT !.at = "subscribers", !.sub = 1] \in TimerCursors
      BY <1>1 DEF TimerCursors
    <3>2. /\ [x EXCEPT !.at = "subscribers", !.sub = 1].obj = x.obj
          /\ [x EXCEPT !.at = "subscribers", !.sub = 1].sub = 1
          /\ [x EXCEPT !.at = "subscribers", !.sub = 1].at = "subscribers"
      BY <1>1 DEF TimerCursors
    <3> QED BY <3>1, <3>2
  <2>11. polls' = [polls EXCEPT ![n] = y]
    BY <2>1, <2>10
  <2>12. Len(subs) \in Nat /\ y.obj = x.obj /\ y.sub = 1 /\ y.at = "subscribers"
    BY <2>6, <2>10
  <2>13. Within(y, objLists'[n], subLists'[n])
    BY <2>8, <2>12, <1>0, <1>1, <1>4 DEF Within
  <2>14. \A i \in 1 .. Len(subs) : subs[i] \notin timersTorn' => Len(subs) = 1 /\ y.at # "objects"
    <3> SUFFICES ASSUME NEW i \in 1 .. Len(subs), subs[i] \notin timersTorn'
                 PROVE  Len(subs) = 1 /\ y.at # "objects"
      OBVIOUS
    <3>1. subs[i] = t /\ t \notin timersTorn'
      BY <2>7, <2>9
    <3>2. subs = added
      BY <3>1, <2>1, <2>6
    <3>3. subs = <<t>>
      <4>1. subs # <<>>
        BY <2>12, EmptySeq
      <4> QED BY <4>1, <3>2
    <3> QED BY <3>3, <2>12
  <2>15. /\ polls' \in Seq(TimerCursors) /\ Len(polls') <= MaxDepth
         /\ \A d \in 1 .. Len(polls') : Within(polls'[d], objLists'[d], subLists'[d])
         /\ PollsNest'
         /\ Len(polls') = n /\ polls'[n] = y
    BY <2>8, <2>9, <2>11, <2>13, <2>14, <1>0, <1>1, <1>4, MovedNest, TimerTyped
  <2>16. Unthrown'
    <3> SUFFICES ASSUME timerThrows = 0
                 PROVE  timersTorn' = {} /\ timersTouched' = {}
      BY <1>4 DEF Unthrown
    <3>1. timersTorn = {} /\ timersTouched = {}
      BY DEF TimerInv, Unthrown
    <3>2. 1 \notin 1 .. Len(subLists[n])
      BY <3>1, <1>1
    <3>3. subLists[n] = <<>>
      BY <3>2, <1>1, EmptySeq
    <3> QED BY <3>1, <3>3, <2>1, <1>4
  <2>17. timer' \in [TimerNames -> TimerRecords]
    BY <2>3, TimerTyped
  <2>18. ASSUME NEW u \in TimerNames
         PROVE  /\ Consistent(timer'[u], life[u], task, u \in timersStopped')
                /\ u \notin timersTorn' =>
                     Kept(timer'[u], owed'[u], life[u], u \in timersStopped', CallsNow(u)')
    <3>1. TimerKept(u) /\ ~ CallsNow(u)
      BY <1>0, <1>1 DEF TimerInv, CallsNow
    <3>2. CASE u # t
      <4>1. timer'[u] = timer[u]
        BY <3>2, <2>3, TimerTyped
      <4>2. u \notin timersTorn' => ~ CallsNow(u)'
        <5> SUFFICES ASSUME CallsNow(u)' PROVE u \in timersTorn'
          OBVIOUS
        <5>1. 1 <= Len(subs) /\ subs[1] = u
          BY <2>8, <2>12, <2>15 DEF CallsNow
        <5>2. 1 \in 1 .. Len(subs)
          BY <5>1, <2>12
        <5> QED BY <5>1, <5>2, <3>2, <2>7, <2>9
      <4> QED BY <4>1, <4>2, <3>1, <2>9, <1>4 DEF TimerKept, Kept
    <3>3. CASE u = t
      <4>1. timer'[t] = r
        BY <2>3, <1>2, TimerTyped
      <4>2. Consistent(r, life[t], task, t \in timersStopped')
        BY <2>2, <2>3, <1>4 DEF TimerKept, Consistent
      <4>3. ASSUME t \notin timersTorn'
            PROVE  /\ owed[t] = "passed" /\ life[t] = "alive" /\ CallsNow(t)'
        <5>1. timer[t].waiting /\ timer[t].subscribed /\ owed[t] = "passed" /\ life[t] = "alive"
          BY <4>3, <2>2, <2>9, <1>6 DEF TimerKept, Consistent, Kept
        <5>2. subs = <<t>>
          <6>1. subLists[n] = <<>>
            BY <4>3, <2>1
          <6> QED BY <6>1, <5>1, <2>4, <2>6
        <5>3. Len(subs) = 1 /\ subs[1] = t
          BY <5>2
        <5>4. polls' # <<>>
          BY <2>15, <1>1, EmptySeq
        <5>5. CallsNow(t)'
          <6>1. /\ polls'[Len(polls')].at = "subscribers" /\ polls'[Len(polls')].sub = 1
                /\ subLists'[Len(polls')] = subs
            BY <2>8, <2>12, <2>15
          <6> QED BY <6>1, <5>3, <5>4 DEF CallsNow
        <5> QED BY <5>1, <5>5
      <4>4. t \notin timersTorn' =>
              Kept(r, owed'[t], life[t], t \in timersStopped', CallsNow(t)')
        BY <4>3, <2>3, <1>4 DEF Kept
      <4> QED BY <3>3, <4>1, <4>2, <4>4
    <3> QED BY <3>2, <3>3
  <2> QED BY <2>8, <2>9, <2>15, <2>16, <2>17, <2>18, <1>4, PollStepKeeps, TimerTyped
<1> QED BY <1>5, <1>6

\* The subscriber that the innermost poll is at.
LEMMA SubscriberTyped ==
  ASSUME TimerInv, polls # <<>>, polls[Len(polls)].sub <= Len(subLists[Len(polls)])
  PROVE  /\ T!Subscriber = subLists[Len(polls)][polls[Len(polls)].sub]
         /\ T!Subscriber \in TimerNames
         /\ T!Subscriber \in timersTorn \/ Len(subLists[Len(polls)]) = 1
<1>1. /\ Len(polls) \in 1 .. MaxDepth
      /\ polls[Len(polls)].sub \in 1 .. Len(subLists[Len(polls)])
      /\ subLists[Len(polls)] \in Seq(TimerNames)
      /\ \A i \in 1 .. Len(subLists[Len(polls)]) :
           subLists[Len(polls)][i] \in timersTorn \/ Len(subLists[Len(polls)]) = 1
  BY TopTyped
<1>2. T!Subscriber = subLists[Len(polls)][polls[Len(polls)].sub]
  BY PollsTyped DEF T!Subscriber
<1> QED BY <1>1, <1>2, ElementOfSeq

\* Of the timers that no exception left in a work list, the innermost poll
\* is about to call the one whose subscriber it is at.
LEMMA CallsSubscriber ==
  ASSUME TimerInv, T!AtSubscriber
  PROVE  /\ polls # <<>> /\ polls[Len(polls)].at = "subscribers"
         /\ polls[Len(polls)].sub <= Len(subLists[Len(polls)])
         /\ \A u : CallsNow(u) <=> u = T!Subscriber
<1>1. /\ polls # <<>> /\ polls[Len(polls)].at = "subscribers"
      /\ polls[Len(polls)].sub <= Len(subLists[Len(polls)])
  BY PollsTyped DEF T!AtSubscriber
<1> QED BY <1>1, SubscriberTyped DEF CallsNow

LEMMA CallReadyKeeps ==
  ASSUME TimerInv, T!CallReady
  PROVE  TimerInv'
<1>. PICK n : n = Len(polls)
  OBVIOUS
<1>. PICK x : x = polls[n]
  OBVIOUS
<1>. PICK t : t = T!Subscriber
  OBVIOUS
<1>1. T!AtSubscriber
  BY DEF T!CallReady
<1>2. /\ polls # <<>> /\ x.at = "subscribers" /\ x.sub <= Len(subLists[n]) /\ t \in TimerNames
      /\ \A u : CallsNow(u) <=> u = t
  BY <1>1, CallsSubscriber, SubscriberTyped
<1>3. /\ Len(polls) = n /\ n \in 1 .. MaxDepth /\ x \in TimerCursors
      /\ x.obj \in Nat /\ x.obj >= 1 /\ x.sub \in Nat /\ x.sub >= 1
      /\ x.obj <= Len(objLists[n]) /\ Len(objLists[n]) \in Nat /\ Len(subLists[n]) \in Nat
  BY <1>2, TopTyped
<1>4. /\ timer' = [timer EXCEPT ![t] = T!Fired(@)]
      /\ polls' = [polls EXCEPT ![n].at = "ready"]
      /\ owed' = [owed EXCEPT ![t] = "none"]
      /\ UNCHANGED <<life, task, objects, objLists, subLists, timerThrows, timersStopped,
                     timersTorn, timersTouched>>
  BY DEF T!CallReady, T!Depth, T!lists
<1>5. PICK y \in TimerCursors :
        /\ polls' = [polls EXCEPT ![n] = y]
        /\ y.obj = x.obj /\ y.sub = x.sub /\ y.at = "ready"
  <2>1. [x EXCEPT !.at = "ready"] \in TimerCursors
    BY <1>3 DEF TimerCursors
  <2>2. /\ [x EXCEPT !.at = "ready"].obj = x.obj /\ [x EXCEPT !.at = "ready"].sub = x.sub
        /\ [x EXCEPT !.at = "ready"].at = "ready"
    BY <1>3 DEF TimerCursors
  <2> QED BY <2>1, <2>2, <1>4
<1>6. PICK r \in TimerRecords :
        /\ timer' = [timer EXCEPT ![t] = r] /\ r.expiry = timer[t].expiry
        /\ ~ r.waiting /\ (r.subscribed <=> timer[t].subscribed)
  <2>1. timer[t] \in TimerRecords
    BY <1>2, TimerTyped
  <2>2. /\ T!Fired(timer[t]) \in TimerRecords /\ T!Fired(timer[t]).expiry = timer[t].expiry
        /\ ~ T!Fired(timer[t]).waiting
        /\ T!Fired(timer[t]).subscribed <=> timer[t].subscribed
    BY <2>1 DEF T!Fired, TimerRecords
  <2> QED BY <2>2, <1>4
<1>7. Within(y, objLists[n], subLists[n])
  BY <1>2, <1>3, <1>5 DEF Within
<1>8. /\ polls' \in Seq(TimerCursors) /\ Len(polls') <= MaxDepth
      /\ \A d \in 1 .. Len(polls') : Within(polls'[d], objLists'[d], subLists'[d])
      /\ PollsNest'
      /\ Len(polls') = n /\ polls'[n] = y
  BY <1>2, <1>3, <1>4, <1>5, <1>7, StepMoves
<1>9. \A u : ~ CallsNow(u)'
  BY <1>5, <1>8 DEF CallsNow
<1>10. timer' \in [TimerNames -> TimerRecords] /\ owed' \in [TimerNames -> T!Deadlines]
  <2>1. timer' \in [TimerNames -> TimerRecords]
    BY <1>6, TimerTyped
  <2>2. "none" \in T!Deadlines
    BY DEF T!Deadlines
  <2> QED BY <2>1, <2>2, <1>4, TimerTyped
<1>11. ASSUME NEW u \in TimerNames
       PROVE  /\ Consistent(timer'[u], life[u], task, u \in timersStopped')
              /\ u \notin timersTorn' =>
                   Kept(timer'[u], owed'[u], life[u], u \in timersStopped', CallsNow(u)')
  <2>1. TimerKept(u)
    BY DEF TimerInv
  <2>2. CASE u # t
    <3>1. timer'[u] = timer[u] /\ owed'[u] = owed[u] /\ ~ CallsNow(u)
      BY <2>2, <1>2, <1>4, <1>6, TimerTyped
    <3> QED BY <2>1, <3>1, <1>4, <1>9 DEF TimerKept, Kept
  <2>3. CASE u = t
    <3>1. timer'[t] = r /\ owed'[t] = "none" /\ CallsNow(t)
      BY <1>2, <1>4, <1>6, TimerTyped
    <3>2. Consistent(r, life[t], task, t \in timersStopped')
      BY <2>1, <2>3, <1>4, <1>6 DEF TimerKept, Consistent
    <3>3. t \notin timersTorn => r.expiry = "none"
      BY <2>1, <2>3, <3>1, <1>6 DEF TimerKept, Kept
    <3> QED BY <2>3, <3>1, <3>2, <3>3, <1>4, <1>6, <1>9 DEF Kept
  <2> QED BY <2>2, <2>3
<1>12. Unthrown'
  BY <1>4 DEF TimerInv, Unthrown
<1> QED BY <1>4, <1>8, <1>10, <1>11, <1>12, PollStepKeeps, TimerTyped

LEMMA CallOtherKeeps ==
  ASSUME TimerInv, T!CallOther
  PROVE  TimerInv'
<1>. PICK n : n = Len(polls)
  OBVIOUS
<1>. PICK x : x = polls[n]
  OBVIOUS
<1>. PICK t : t = T!Subscriber
  OBVIOUS
<1>1. T!AtSubscriber
  BY DEF T!CallOther
<1>2. /\ polls # <<>> /\ x.at = "subscribers" /\ x.sub <= Len(subLists[n]) /\ t \in TimerNames
      /\ \A u : CallsNow(u) <=> u = t
      /\ t \in timersTorn \/ Len(subLists[n]) = 1
  BY <1>1, CallsSubscriber, SubscriberTyped
<1>3. /\ Len(polls) = n /\ n \in 1 .. MaxDepth /\ x \in TimerCursors
      /\ x.obj \in Nat /\ x.obj >= 1 /\ x.sub \in Nat /\ x.sub >= 1 /\ x.sub + 1 \in Nat
      /\ x.obj <= Len(objLists[n]) /\ Len(objLists[n]) \in Nat /\ Len(subLists[n]) \in Nat
      /\ \A i \in 1 .. Len(subLists[n]) : subLists[n][i] \in timersTorn \/ Len(subLists[n]) = 1
  BY <1>2, TopTyped
<1>4. /\ polls' = [polls EXCEPT ![n].sub = @ + 1]
      /\ UNCHANGED <<life, task, objLists, subLists, timerThrows, timersTorn>>
  BY DEF T!CallOther, T!Depth, T!lists
<1>5. PICK y \in TimerCursors :
        /\ polls' = [polls EXCEPT ![n] = y]
        /\ y.obj = x.obj /\ y.sub = x.sub + 1 /\ y.at = "subscribers"
  <2>1. [x EXCEPT !.sub = x.sub + 1] \in TimerCursors
    BY <1>3 DEF TimerCursors
  <2>2. /\ [x EXCEPT !.sub = x.sub + 1].obj = x.obj
        /\ [x EXCEPT !.sub = x.sub + 1].sub = x.sub + 1
        /\ [x EXCEPT !.sub = x.sub + 1].at = "subscribers"
    BY <1>2, <1>3 DEF TimerCursors
  <2> QED BY <2>1, <2>2, <1>4
<1>6. Within(y, objLists[n], subLists[n])
  BY <1>2, <1>3, <1>5 DEF Within
<1>7. /\ polls' \in Seq(TimerCursors) /\ Len(polls') <= MaxDepth
      /\ \A d \in 1 .. Len(polls') : Within(polls'[d], objLists'[d], subLists'[d])
      /\ PollsNest'
      /\ Len(polls') = n /\ polls'[n] = y
  BY <1>2, <1>3, <1>4, <1>5, <1>6, StepMoves
\* Another subscriber in the list is one that an exception left there.
<1>8. ASSUME NEW u, u \notin timersTorn PROVE ~ CallsNow(u)'
  <2> SUFFICES ASSUME CallsNow(u)' PROVE FALSE
    OBVIOUS
  <2>1. x.sub + 1 <= Len(subLists[n]) /\ subLists[n][x.sub + 1] = u
    BY <1>4, <1>5, <1>7 DEF CallsNow
  <2>2. x.sub + 1 \in 1 .. Len(subLists[n]) /\ Len(subLists[n]) # 1
    BY <2>1, <1>3
  <2> QED BY <2>1, <2>2, <1>3, <1>8
<1>9. timer[t] \in TimerRecords /\ TimerKept(t)
  BY <1>2, TimerTyped DEF TimerInv
<1>10. CASE life[t] = "alive" /\ ~ T!Ready(timer[t])
  <2>1. /\ timer' = [timer EXCEPT ![t].waiting = FALSE]
        /\ UNCHANGED <<objects, owed, timersStopped, timersTouched>>
    BY <1>10 DEF T!CallOther
  <2>2. PICK r \in TimerRecords :
          /\ timer' = [timer EXCEPT ![t] = r] /\ r.expiry = timer[t].expiry
          /\ ~ r.waiting /\ (r.subscribed <=> timer[t].subscribed)
    <3>1. /\ [timer[t] EXCEPT !.waiting = FALSE] \in TimerRecords
          /\ [timer[t] EXCEPT !.waiting = FALSE].expiry = timer[t].expiry
          /\ ~ [timer[t] EXCEPT !.waiting = FALSE].waiting
          /\ [timer[t] EXCEPT !.waiting = FALSE].subscribed <=> timer[t].subscribed
      BY <1>9 DEF TimerRecords
    <3> QED BY <3>1, <2>1
  <2>3. timer' \in [TimerNames -> TimerRecords]
    BY <2>2, TimerTyped
  <2>4. ASSUME NEW u \in TimerNames
        PROVE  /\ Consistent(timer'[u], life[u], task, u \in timersStopped')
               /\ u \notin timersTorn' =>
                    Kept(timer'[u], owed'[u], life[u], u \in timersStopped', CallsNow(u)')
    <3>1. TimerKept(u) /\ (u \notin timersTorn' => ~ CallsNow(u)')
      BY <1>4, <1>8 DEF TimerInv
    <3>2. CASE u # t
      <4>1. timer'[u] = timer[u] /\ ~ CallsNow(u)
        BY <3>2, <1>2, <2>2, TimerTyped
      <4> QED BY <3>1, <4>1, <1>4, <2>1 DEF TimerKept, Kept
    <3>3. CASE u = t
      <4>1. timer'[t] = r /\ CallsNow(t)
        BY <1>2, <2>2, TimerTyped
      <4>2. Consistent(r, life[t], task, t \in timersStopped')
        BY <1>9, <2>1, <2>2 DEF TimerKept, Consistent
      <4>3. t \notin timersTorn => r.expiry = "none"
        BY <1>9, <4>1, <2>2 DEF TimerKept, Kept
      <4> QED BY <3>1, <3>3, <4>1, <4>2, <4>3, <1>4, <2>2 DEF Kept
    <3> QED BY <3>2, <3>3
  <2>5. Unthrown'
    BY <2>1, <1>4 DEF TimerInv, Unthrown
  <2> QED BY <2>1, <2>3, <2>4, <2>5, <1>4, <1>7, PollStepKeeps, TimerTyped
<1>11. CASE life[t] = "alive" /\ ~ timer[t].waiting /\ T!Become(t, T!Again(timer[t]))
            /\ timersTouched' = timersTouched
  <2>1. PICK r \in TimerRecords :
          /\ r = T!Again(timer[t])
          /\ Unmoved(timer[t], r) \/ (Started(timer[t], r) /\ task = "alive")
    BY <1>9, AgainMoves
  <2>2. /\ timer' = [timer EXCEPT ![t] = r]
        /\ timer' \in [TimerNames -> TimerRecords]
        /\ owed' = [owed EXCEPT ![t] = IF r.waiting /\ ~ timer[t].waiting THEN "set" ELSE @]
        /\ owed' \in [TimerNames -> T!Deadlines]
        /\ objects' \in Seq(TimerNames)
        /\ timersStopped' =
             IF r.waiting /\ ~ timer[t].waiting THEN timersStopped \ {t} ELSE timersStopped
        /\ timersStopped' \subseteq TimerNames
    BY <2>1, <1>2, <1>11, BecomeValues
  <2>3. ASSUME NEW u \in TimerNames
        PROVE  /\ Consistent(timer'[u], life[u], task, u \in timersStopped')
               /\ u \notin timersTorn' =>
                    Kept(timer'[u], owed'[u], life[u], u \in timersStopped', CallsNow(u)')
    <3>1. TimerKept(u) /\ (u \notin timersTorn' => ~ CallsNow(u)')
      BY <1>4, <1>8 DEF TimerInv
    <3>2. CASE u # t
      <4>1. /\ timer'[u] = timer[u] /\ owed'[u] = owed[u] /\ ~ CallsNow(u)
            /\ u \in timersStopped' <=> u \in timersStopped
        BY <3>2, <1>2, <2>2, TimerTyped
      <4> QED BY <3>1, <4>1, <1>4 DEF TimerKept, Consistent, Kept
    <3>3. CASE u = t /\ Unmoved(timer[t], r)
      <4>1. /\ timer'[t] = r /\ owed'[t] = owed[t] /\ ~ r.waiting
            /\ t \in timersStopped' <=> t \in timersStopped
        BY <3>3, <1>2, <1>11, <2>2, TimerTyped DEF Unmoved
      <4> QED BY <1>9, <3>1, <3>3, <4>1, <1>4 DEF TimerKept, Consistent, Kept, Unmoved
    <3>4. CASE u = t /\ Started(timer[t], r) /\ task = "alive"
      <4>1. timer'[t] = r /\ owed'[t] = "set"
        BY <3>4, <1>2, <2>2, TimerTyped DEF Started
      <4>2. Consistent(r, life[t], task, t \in timersStopped')
        BY <1>9, <1>11, <3>4, <4>1 DEF TimerKept, Consistent, Started
      <4>3. t \notin timersTorn' =>
              Kept(r, "set", life[t], t \in timersStopped', CallsNow(t)')
        BY <3>1, <3>4, <1>4 DEF Kept, Started
      <4> QED BY <3>4, <4>1, <4>2, <4>3
    <3> QED BY <2>1, <3>2, <3>3, <3>4
  <2>4. Unthrown'
    BY <1>4, <1>11 DEF TimerInv, Unthrown
  <2>5. timersTouched' \subseteq TimerNames
    BY <1>11, TimerTyped
  <2> QED BY <2>2, <2>3, <2>4, <2>5, <1>4, <1>7, PollStepKeeps, TimerTyped
<1>12. CASE /\ life[t] = "dead" /\ timersTouched' = timersTouched \cup {t}
            /\ UNCHANGED <<timer, objects, owed, timersStopped>>
  <2>1. t \in timersTorn
    BY <1>2, <1>9, <1>12 DEF TimerKept, Kept
  <2>2. Unthrown'
    BY <2>1, <1>4 DEF TimerInv, Unthrown
  <2>3. timersTouched' \subseteq TimerNames
    BY <1>2, <1>12, TimerTyped
  <2>4. ASSUME NEW u \in TimerNames
        PROVE  /\ Consistent(timer'[u], life[u], task, u \in timersStopped')
               /\ u \notin timersTorn' =>
                    Kept(timer'[u], owed'[u], life[u], u \in timersStopped', CallsNow(u)')
    <3>1. TimerKept(u) /\ (u \notin timersTorn' => ~ CallsNow(u)' /\ ~ CallsNow(u))
      BY <2>1, <1>2, <1>4, <1>8 DEF TimerInv
    <3> QED BY <3>1, <1>4, <1>12 DEF TimerKept, Kept
  <2> QED BY <2>2, <2>3, <2>4, <1>4, <1>7, <1>12, PollStepKeeps, TimerTyped
<1> QED BY <1>10, <1>11, <1>12 DEF T!CallOther

LEMMA ReturnKeeps ==
  ASSUME TimerInv, T!Return
  PROVE  TimerInv'
<1>. PICK n : n = Len(polls)
  OBVIOUS
<1>. PICK x : x = polls[n]
  OBVIOUS
<1>. PICK t : t = T!Subscriber
  OBVIOUS
<1>1. polls # <<>> /\ x.at = "ready"
  BY PollsTyped DEF T!Return
<1>2. /\ Len(polls) = n /\ n \in 1 .. MaxDepth /\ x \in TimerCursors
      /\ x.obj \in Nat /\ x.obj >= 1 /\ x.sub \in Nat /\ x.sub >= 1 /\ x.sub + 1 \in Nat
      /\ x.sub <= Len(subLists[n])
      /\ x.obj <= Len(objLists[n]) /\ Len(objLists[n]) \in Nat /\ Len(subLists[n]) \in Nat
      /\ \A i \in 1 .. Len(subLists[n]) : subLists[n][i] \in timersTorn \/ Len(subLists[n]) = 1
  BY <1>1, TopTyped
<1>3. t \in TimerNames
  BY <1>1, <1>2, SubscriberTyped
<1>4. /\ polls' = [polls EXCEPT ![n].at = "subscribers", ![n].sub = @ + 1]
      /\ UNCHANGED <<life, task, objects, objLists, subLists, timerThrows, owed,
                     timersStopped, timersTorn>>
  BY DEF T!Return, T!Depth, T!lists
<1>5. PICK y \in TimerCursors :
        /\ polls' = [polls EXCEPT ![n] = y]
        /\ y.obj = x.obj /\ y.sub = x.sub + 1 /\ y.at = "subscribers"
  <2>1. [x EXCEPT !.at = "subscribers", !.sub = x.sub + 1] \in TimerCursors
    BY <1>2 DEF TimerCursors
  <2>2. /\ [x EXCEPT !.at = "subscribers", !.sub = x.sub + 1].obj = x.obj
        /\ [x EXCEPT !.at = "subscribers", !.sub = x.sub + 1].sub = x.sub + 1
        /\ [x EXCEPT !.at = "subscribers", !.sub = x.sub + 1].at = "subscribers"
    BY <1>2 DEF TimerCursors
  <2> QED BY <2>1, <2>2, <1>4
<1>6. Within(y, objLists[n], subLists[n])
  BY <1>2, <1>5 DEF Within
<1>7. /\ polls' \in Seq(TimerCursors) /\ Len(polls') <= MaxDepth
      /\ \A d \in 1 .. Len(polls') : Within(polls'[d], objLists'[d], subLists'[d])
      /\ PollsNest'
      /\ Len(polls') = n /\ polls'[n] = y
  BY <1>1, <1>2, <1>4, <1>5, <1>6, StepMoves
<1>8. ASSUME NEW u, u \notin timersTorn PROVE ~ CallsNow(u)'
  <2> SUFFICES ASSUME CallsNow(u)' PROVE FALSE
    OBVIOUS
  <2>1. x.sub + 1 <= Len(subLists[n]) /\ subLists[n][x.sub + 1] = u
    BY <1>4, <1>5, <1>7 DEF CallsNow
  <2>2. x.sub + 1 \in 1 .. Len(subLists[n]) /\ Len(subLists[n]) # 1
    BY <2>1, <1>2
  <2> QED BY <2>1, <2>2, <1>2, <1>8
<1>9. timersTouched' = timersTouched
  BY DEF T!Return, T!IfDestroyed, T!Touched
<1>10. /\ timer' \in [TimerNames -> TimerRecords]
       /\ \A u \in TimerNames : Unmoved(timer[u], timer'[u])
  <2>1. \A u \in TimerNames : Unmoved(timer[u], timer[u])
    BY DEF Unmoved
  <2>2. timer' = timer \/ timer' = [timer EXCEPT ![t].inReady = FALSE]
    BY DEF T!Return
  <2>3. CASE timer' = [timer EXCEPT ![t].inReady = FALSE]
    <3>1. PICK r \in TimerRecords : timer' = [timer EXCEPT ![t] = r] /\ Unmoved(timer[t], r)
      <4>1. timer[t] \in TimerRecords
        BY <1>3, TimerTyped
      <4>2. /\ [timer[t] EXCEPT !.inReady = FALSE] \in TimerRecords
            /\ Unmoved(timer[t], [timer[t] EXCEPT !.inReady = FALSE])
        BY <4>1 DEF TimerRecords, Unmoved
      <4> QED BY <4>2, <2>3
    <3>2. timer' \in [TimerNames -> TimerRecords] /\ timer'[t] = r
          /\ \A u \in TimerNames : u # t => timer'[u] = timer[u]
      BY <3>1, <1>3, TimerTyped
    <3> QED BY <3>1, <3>2, <2>1
  <2> QED BY <2>1, <2>2, <2>3, TimerTyped
<1>11. ASSUME NEW u \in TimerNames
       PROVE  /\ Consistent(timer'[u], life[u], task, u \in timersStopped')
              /\ u \notin timersTorn' =>
                   Kept(timer'[u], owed'[u], life[u], u \in timersStopped', CallsNow(u)')
  <2>1. TimerKept(u) /\ Unmoved(timer[u], timer'[u]) /\ ~ CallsNow(u)
    BY <1>1, <1>2, <1>10 DEF TimerInv, CallsNow
  <2>2. u \notin timersTorn' => ~ CallsNow(u)'
    BY <1>4, <1>8
  <2> QED BY <2>1, <2>2, <1>4 DEF TimerKept, Consistent, Kept, Unmoved
<1>12. Unthrown'
  BY <1>4, <1>9 DEF TimerInv, Unthrown
<1> QED BY <1>4, <1>7, <1>9, <1>10, <1>11, <1>12, PollStepKeeps, TimerTyped

\* The other timers are not left in a work list, or were before.
LEMMA ThrowKeeps ==
  ASSUME TimerInv, T!Throw
  PROVE  TimerInv'
<1>. PICK n : n = Len(polls)
  OBVIOUS
<1>. PICK t : t = T!Subscriber
  OBVIOUS
<1>1. polls # <<>> /\ polls[n].at = "ready" /\ timerThrows < MaxThrows
  BY PollsTyped DEF T!Throw
<1>2. /\ Len(polls) = n /\ n \in 1 .. MaxDepth /\ subLists[n] \in Seq(TimerNames)
      /\ polls[n].sub <= Len(subLists[n])
  BY <1>1, TopTyped
<1>3. t \in TimerNames
  BY <1>1, <1>2, SubscriberTyped
<1>4. /\ polls' = T!Front(polls) /\ timerThrows' = timerThrows + 1
      /\ timer' = [timer EXCEPT ![t].inReady = FALSE]
      /\ timersTorn' = timersTorn \cup T!ToSet(subLists[n])
      /\ timersTouched' = T!Touched(t)
      /\ UNCHANGED <<life, task, objects, objLists, subLists, owed, timersStopped>>
  BY <1>1, PollsTyped DEF T!Throw, T!lists
<1>5. /\ T!ToSet(subLists[n]) \subseteq TimerNames
      /\ \A i \in 1 .. Len(subLists[n]) : subLists[n][i] \in T!ToSet(subLists[n])
  BY <1>2, LenProperties DEF T!ToSet
<1>6. /\ timersTorn \subseteq timersTorn' /\ timersTorn' \subseteq TimerNames
      /\ timersTouched' \subseteq TimerNames
  BY <1>3, <1>4, <1>5, TimerTyped DEF T!Touched
<1>7. timerThrows' \in 0 .. MaxThrows /\ timerThrows' # 0
  BY <1>1, <1>4, TimerTyped, TimerConstants
<1>8. /\ timer' \in [TimerNames -> TimerRecords]
      /\ \A u \in TimerNames : Unmoved(timer[u], timer'[u])
  <2>1. \A u \in TimerNames : Unmoved(timer[u], timer[u])
    BY DEF Unmoved
  <2>2. PICK r \in TimerRecords : timer' = [timer EXCEPT ![t] = r] /\ Unmoved(timer[t], r)
    <3>1. timer[t] \in TimerRecords
      BY <1>3, TimerTyped
    <3>2. /\ [timer[t] EXCEPT !.inReady = FALSE] \in TimerRecords
          /\ Unmoved(timer[t], [timer[t] EXCEPT !.inReady = FALSE])
      BY <3>1 DEF TimerRecords, Unmoved
    <3> QED BY <3>2, <1>4
  <2>3. timer' \in [TimerNames -> TimerRecords] /\ timer'[t] = r
        /\ \A u \in TimerNames : u # t => timer'[u] = timer[u]
    BY <2>2, <1>3, TimerTyped
  <2> QED BY <2>1, <2>2, <2>3
<1>9. /\ polls' \in Seq(TimerCursors) /\ Len(polls') <= MaxDepth
      /\ \A d \in 1 .. Len(polls') : Within(polls'[d], objLists'[d], subLists'[d])
      /\ PollsNest'
      /\ \A u : ~ CallsNow(u)'
  BY <1>1, <1>2, <1>4, <1>5, <1>6, FrontNest, TimerTyped
<1>10. ASSUME NEW u \in TimerNames
       PROVE  /\ Consistent(timer'[u], life[u], task, u \in timersStopped')
              /\ u \notin timersTorn' =>
                   Kept(timer'[u], owed'[u], life[u], u \in timersStopped', CallsNow(u)')
  <2>1. TimerKept(u) /\ Unmoved(timer[u], timer'[u]) /\ ~ CallsNow(u)
    BY <1>1, <1>2, <1>8 DEF TimerInv, CallsNow
  <2>2. ~ CallsNow(u)' /\ (u \notin timersTorn' => u \notin timersTorn)
    BY <1>6, <1>9
  <2> QED BY <2>1, <2>2, <1>4 DEF TimerKept, Consistent, Kept, Unmoved
<1>11. Unthrown'
  BY <1>7 DEF Unthrown
<1> QED BY <1>4, <1>6, <1>7, <1>8, <1>9, <1>10, <1>11, PollStepKeeps, TimerTyped

LEMMA EndObjectKeeps ==
  ASSUME TimerInv, T!EndObject
  PROVE  TimerInv'
<1>. PICK n : n = Len(polls)
  OBVIOUS
<1>. PICK x : x = polls[n]
  OBVIOUS
<1>1. polls # <<>> /\ x.at = "subscribers" /\ x.sub > Len(subLists[n])
  BY PollsTyped DEF T!EndObject
<1>2. /\ Len(polls) = n /\ n \in 1 .. MaxDepth /\ x \in TimerCursors
      /\ x.obj \in Nat /\ x.obj >= 1 /\ x.obj + 1 \in Nat /\ x.sub \in Nat
      /\ x.obj <= Len(objLists[n]) /\ Len(objLists[n]) \in Nat /\ Len(subLists[n]) \in Nat
  BY <1>1, TopTyped
<1>3. /\ subLists' = [subLists EXCEPT ![n] = <<>>]
      /\ UNCHANGED <<timer, life, task, objects, timerThrows, owed, timersStopped,
                     timersTorn, timersTouched>>
  BY DEF T!EndObject, T!ListAt, T!Depth, T!history
<1>4. <<>> \in Seq(TimerNames) /\ Len(<<>>) = 0
  BY EmptySeq
<1>5. /\ subLists' \in [1 .. MaxDepth -> Seq(TimerNames)] /\ subLists'[n] = <<>>
      /\ \A d \in 1 .. MaxDepth : d # n => subLists'[d] = subLists[d]
  BY <1>2, <1>3, <1>4, TimerTyped
<1>6. Unthrown'
  BY <1>3 DEF TimerInv, Unthrown
<1>7. \A u : ~ CallsNow(u)
  <2>1. ~ x.sub <= Len(subLists[n])
    BY <1>1, <1>2
  <2> QED BY <2>1, <1>2 DEF CallsNow
<1>8. ASSUME \A u : ~ CallsNow(u)'
      PROVE  \A u \in TimerNames :
               /\ Consistent(timer'[u], life[u], task, u \in timersStopped')
               /\ u \notin timersTorn' =>
                    Kept(timer'[u], owed'[u], life[u], u \in timersStopped', CallsNow(u)')
  BY <1>3, <1>7, <1>8 DEF TimerInv, TimerKept, Kept
<1>9. CASE /\ polls' = [polls EXCEPT ![n] = [at |-> "objects", obj |-> @.obj + 1, sub |-> 1]]
           /\ objLists' = objLists
  <2>1. PICK y \in TimerCursors :
          /\ polls' = [polls EXCEPT ![n] = y]
          /\ y.at = "objects" /\ y.obj = x.obj + 1 /\ y.sub = 1
    <3>1. [at |-> "objects", obj |-> x.obj + 1, sub |-> 1] \in TimerCursors
      BY <1>2 DEF TimerCursors
    <3> QED BY <3>1, <1>9
  <2>2. Within(y, objLists'[n], subLists'[n])
    BY <2>1, <1>2, <1>4, <1>5, <1>9 DEF Within
  <2>3. /\ polls' \in Seq(TimerCursors) /\ Len(polls') <= MaxDepth
        /\ \A d \in 1 .. Len(polls') : Within(polls'[d], objLists'[d], subLists'[d])
        /\ PollsNest'
        /\ Len(polls') = n /\ polls'[n] = y
    <3>1. \A i \in 1 .. Len(subLists'[n]) : FALSE
      BY <1>4, <1>5
    <3>2. objLists' \in [1 .. MaxDepth -> Seq(TimerNames)] /\ timersTorn' = timersTorn
      BY <1>3, <1>9, TimerTyped
    <3> QED BY <2>1, <2>2, <3>1, <3>2, <1>1, <1>2, <1>5, <1>9, MovedNest
  <2>4. \A u : ~ CallsNow(u)'
    BY <2>1, <2>3 DEF CallsNow
  <2> QED BY <2>3, <2>4, <1>3, <1>5, <1>6, <1>8, <1>9, PollStepKeeps, TimerTyped
<1>10. CASE /\ polls' = T!Front(polls)
            /\ objLists' = [objLists EXCEPT ![n] = <<>>]
  <2>1. /\ objLists' \in [1 .. MaxDepth -> Seq(TimerNames)]
        /\ \A d \in 1 .. MaxDepth : d # n => objLists'[d] = objLists[d]
    BY <1>2, <1>4, <1>10, TimerTyped
  <2>2. \A i \in 1 .. Len(subLists'[n]) : FALSE
    BY <1>4, <1>5
  <2>3. /\ polls' \in Seq(TimerCursors) /\ Len(polls') <= MaxDepth
        /\ \A d \in 1 .. Len(polls') : Within(polls'[d], objLists'[d], subLists'[d])
        /\ PollsNest'
        /\ \A u : ~ CallsNow(u)'
    BY <2>1, <2>2, <1>1, <1>2, <1>3, <1>5, <1>10, FrontNest
  <2> QED BY <2>1, <2>3, <1>3, <1>5, <1>6, <1>8, PollStepKeeps, TimerTyped
<1> QED BY <1>9, <1>10 DEF T!EndObject, T!ListAt, T!Depth

LEMMA EndPollKeeps ==
  ASSUME TimerInv, T!EndPoll
  PROVE  TimerInv'
<1>. PICK n : n = Len(polls)
  OBVIOUS
<1>1. polls # <<>> /\ polls[n].at = "objects"
  BY PollsTyped DEF T!EndPoll
<1>2. /\ Len(polls) = n /\ n \in 1 .. MaxDepth
      /\ \A i \in 1 .. Len(subLists[n]) : subLists[n][i] \in timersTorn
  BY <1>1, TopTyped
<1>3. /\ polls' = T!Front(polls) /\ objLists' = [objLists EXCEPT ![n] = <<>>]
      /\ UNCHANGED <<timer, life, task, objects, subLists, timerThrows, owed, timersStopped,
                     timersTorn, timersTouched>>
  BY DEF T!EndPoll, T!ListAt, T!Depth, T!history
<1>4. /\ objLists' \in [1 .. MaxDepth -> Seq(TimerNames)]
      /\ \A d \in 1 .. MaxDepth : d # n => objLists'[d] = objLists[d]
  BY <1>2, <1>3, EmptySeq, TimerTyped
<1>5. /\ polls' \in Seq(TimerCursors) /\ Len(polls') <= MaxDepth
      /\ \A d \in 1 .. Len(polls') : Within(polls'[d], objLists'[d], subLists'[d])
      /\ PollsNest'
      /\ \A u : ~ CallsNow(u)'
  BY <1>1, <1>2, <1>3, <1>4, FrontNest, TimerTyped
<1>6. \A u : ~ CallsNow(u)
  BY <1>1, <1>2 DEF CallsNow
<1>7. \A u \in TimerNames :
        /\ Consistent(timer'[u], life[u], task, u \in timersStopped')
        /\ u \notin timersTorn' =>
             Kept(timer'[u], owed'[u], life[u], u \in timersStopped', CallsNow(u)')
  BY <1>3, <1>5, <1>6 DEF TimerInv, TimerKept, Kept
<1>8. Unthrown'
  BY <1>3 DEF TimerInv, Unthrown
<1> QED BY <1>3, <1>4, <1>5, <1>7, <1>8, PollStepKeeps, TimerTyped

LEMMA TimerInit == T!Init => TimerInv
<1> SUFFICES ASSUME T!Init PROVE TimerInv
  OBVIOUS
<1> USE TimerConstants DEF T!Init
<1>1. /\ <<>> \in Seq(TimerNames) /\ <<>> \in Seq(TimerCursors) /\ Len(<<>>) = 0
      /\ DOMAIN <<>> = {}
  BY EmptySeq
<1>2. /\ timer \in [TimerNames -> TimerRecords]
      /\ \A t \in TimerNames :
           timer[t].expiry = "none" /\ ~ timer[t].waiting /\ ~ timer[t].subscribed
  BY DEF TimerRecords, T!Deadlines
<1>3. T!TypeOK
  BY <1>1, <1>2 DEF T!TypeOK, T!Deadlines, T!Depths, TimerRecords
<1>4. PollsNest
  <2>1. \A d \in 1 .. MaxDepth : subLists[d] = <<>>
    BY DEF T!Depths
  <2>2. \A d \in 1 .. MaxDepth : Len(subLists[d]) = 0
    BY <2>1, <1>1
  <2>3. Len(polls) = 0
    BY <1>1
  <2> QED BY <2>2, <2>3 DEF PollsNest
<1>5. \A t \in TimerNames : TimerKept(t)
  BY <1>2 DEF TimerKept, Consistent, Kept, CallsNow
<1>6. Unthrown
  BY DEF Unthrown
<1> QED BY <1>1, <1>3, <1>4, <1>5, <1>6 DEF TimerInv

LEMMA TimerInvariant == T!Spec => []TimerInv
<1>1. TimerInv /\ [T!Next]_T!vars => TimerInv'
  <2> SUFFICES ASSUME TimerInv, [T!Next]_T!vars PROVE TimerInv'
    OBVIOUS
  <2>1. ASSUME NEW t \in TimerNames, NEW wait \in BOOLEAN, T!Create(t, wait)
        PROVE  TimerInv'
    BY <2>1, CreateKeeps
  <2>2. ASSUME NEW t \in TimerNames, T!Use(t) \/ T!Destroy(t) \/ T!TimePasses(t)
        PROVE  TimerInv'
    BY <2>2, UseKeeps, DestroyTimerKeeps, TimePassesKeeps
  <2>3. CASE T!CancelTask \/ T!DestroyTask
    BY <2>3, CancelTaskKeeps, DestroyTaskKeeps
  <2>4. CASE T!Poll \/ T!Return \/ T!Throw
    BY <2>4, PollKeeps, ReturnKeeps, ThrowKeeps
  <2>5. CASE T!PollStep
    BY <2>5, NextObjectKeeps, CallReadyKeeps, CallOtherKeeps, EndObjectKeeps, EndPollKeeps
       DEF T!PollStep
  <2>6. CASE UNCHANGED T!vars
    <3>1. UNCHANGED <<timer, life, task, objects, objLists, subLists, polls, timerThrows, owed,
                      timersStopped, timersTorn, timersTouched>>
      BY <2>6 DEF T!vars, T!lists, T!history
    <3>2. \A u \in TimerNames :
            /\ Consistent(timer'[u], life'[u], task', u \in timersStopped')
            /\ u \notin timersTorn =>
                 Kept(timer'[u], owed'[u], life'[u], u \in timersStopped', CallsNow(u))
      BY <3>1 DEF TimerInv, TimerKept
    <3> QED BY <3>1, <3>2, SamePollsKeep, TimerTyped
  <2> QED BY <2>1, <2>2, <2>3, <2>4, <2>5, <2>6 DEF T!Next
<1> QED BY <1>1, TimerInit, PTL DEF T!Spec

\* ready() is called by the poll that is innermost, for the timer whose
\* subscriber it is at.
LEMMA ReadyWhenDueStep ==
  ASSUME TimerInv, [T!Next]_T!vars, NEW t \in TimerNames \ timersTorn, T!Starts(t)
  PROVE  owed[t] = "passed" /\ life[t] = "alive" /\ timer[t].enabled
<1>1. /\ Len(polls) > 0 /\ Len(polls') = Len(polls)
      /\ T!Top.at = "subscribers" /\ T!Top.at' = "ready" /\ T!Subscriber = t
  BY DEF T!Starts, T!Depth
<1>. PICK n : n = Len(polls)
  OBVIOUS
<1>2. /\ polls # <<>> /\ n \in 1 .. MaxDepth /\ T!Top = polls[n]
      /\ polls[n].at = "subscribers" /\ polls'[n].at = "ready"
      /\ Len(polls) = n /\ Len(polls') = n
  <2>1. polls # <<>>
    BY <1>1, PollsTyped
  <2>2. polls'[n].at = "ready"
    BY <1>1 DEF T!Top, T!Last
  <2> QED BY <2>1, <2>2, <1>1, PollsTyped
<1>3. T!CallReady
  <2>1. polls' # polls
    BY <1>2
  <2>2. \/ T!Poll \/ T!NextObject \/ T!CallReady \/ T!CallOther \/ T!EndObject \/ T!EndPoll
        \/ T!Return \/ T!Throw
    BY <2>1 DEF T!Next, T!PollStep, T!vars, T!Create, T!Use, T!Destroy, T!TimePasses,
                T!CancelTask, T!DestroyTask
  <2>3. ~ T!Poll /\ ~ T!NextObject /\ ~ T!Return /\ ~ T!Throw /\ ~ T!EndPoll
    BY <1>2, PollsTyped DEF T!Poll, T!InUserCode, T!NextObject, T!Return, T!Throw, T!EndPoll
  <2>4. ~ T!CallOther
    <3>1. T!CallOther => polls'[n].at = polls[n].at
      BY <1>2, PollsTyped DEF T!CallOther, T!Depth
    <3> QED BY <3>1, <1>2
  <2>5. ~ T!EndObject
    <3>1. ASSUME T!EndObject, polls' = T!Front(polls) PROVE FALSE
      BY <3>1, <1>2, FrontPolls
    <3>2. ASSUME polls' = [polls EXCEPT ![n] = [at |-> "objects", obj |-> @.obj + 1, sub |-> 1]]
          PROVE  polls'[n].at = "objects"
      BY <3>2, <1>2, PollsTyped
    <3> QED BY <3>1, <3>2, <1>2 DEF T!EndObject, T!Depth
  <2> QED BY <2>2, <2>3, <2>4, <2>5
<1>4. CallsNow(t) /\ TimerKept(t)
  BY <1>1, <1>3, CallsSubscriber DEF T!CallReady, TimerInv
<1>5. timer[t].enabled
  BY <1>1, <1>3 DEF T!CallReady, T!Ready
<1> QED BY <1>4, <1>5 DEF TimerKept, Kept

LEMMA TimerState ==
  TimerInv => T!TypeOK /\ T!ArmedWaits /\ T!WaitsForSomething /\ T!NoUseAfterDestroy
<1> SUFFICES ASSUME TimerInv
             PROVE  T!TypeOK /\ T!ArmedWaits /\ T!WaitsForSomething /\ T!NoUseAfterDestroy
  OBVIOUS
<1>1. T!TypeOK
  BY DEF TimerInv
<1>2. T!ArmedWaits
  BY DEF T!ArmedWaits, TimerInv, TimerKept, Kept
<1>3. T!WaitsForSomething
  <2> SUFFICES ASSUME NEW t \in TimerNames \ (timersTorn \cup timersStopped), timer[t].waiting,
                      timer[t].expiry = "none"
               PROVE  T!BeingPolled(t)
    BY DEF T!WaitsForSomething
  <2>1. CallsNow(t)
    BY DEF TimerInv, TimerKept, Kept
  <2>. PICK n : n = Len(polls)
    OBVIOUS
  <2>2. /\ polls # <<>> /\ polls[n].at = "subscribers" /\ polls[n].sub <= Len(subLists[n])
        /\ subLists[n][polls[n].sub] = t
    BY <2>1 DEF CallsNow
  <2>3. /\ n \in DOMAIN polls /\ polls[n].sub \in Nat /\ polls[n].sub >= 1
        /\ subLists[n] \in Seq(TimerNames) /\ Len(subLists[n]) \in Nat
    BY <2>2, TopTyped, PollsTyped
  <2>4. polls[n].sub \in DOMAIN subLists[n]
    BY <2>2, <2>3, LenProperties
  <2> QED BY <2>2, <2>3, <2>4 DEF T!BeingPolled
<1>4. T!NoUseAfterDestroy
  BY DEF T!NoUseAfterDestroy, TimerInv, Unthrown
<1> QED BY <1>1, <1>2, <1>3, <1>4

\* Whatever handlers do to the timers, at any depth of polls nested in one
\* another, a timer is called once for each deadline that passes and never
\* after it was cancelled, disabled or destroyed; an armed timer waits, and
\* one that waits is armed, or about to be called, or was cancelled; and the
\* service does not touch a destroyed timer, but for what an exception leaves
\* in a work list.
THEOREM TimerIsSafe == T!Spec => TimerSafe
<1>1. TimerInv /\ [T!Next]_T!vars =>
        \A t \in TimerNames \ timersTorn :
          T!Starts(t) => /\ owed[t] = "passed" /\ life[t] = "alive"
                         /\ timer[t].enabled
  BY ReadyWhenDueStep
<1>2. T!Spec => [][T!Next]_T!vars
  BY PTL DEF T!Spec
<1>3. T!Spec => T!ReadyWhenDue
  BY <1>1, <1>2, TimerInvariant, PTL DEF T!ReadyWhenDue
<1>4. T!Spec => [](T!TypeOK /\ T!ArmedWaits /\ T!WaitsForSomething /\ T!NoUseAfterDestroy)
  BY TimerState, TimerInvariant, PTL
<1> QED BY <1>3, <1>4 DEF TimerSafe
=============================================================================
