------------------------------- MODULE RefPtr -------------------------------
(***************************************************************************)
(* neolib::ref_ptr and weak_ref_ptr over reference_counted objects, in one *)
(* thread.  A pointer that is constructed or destroyed is one that was, or *)
(* becomes, null; the pointer and what it manages are the same object.  An *)
(* object is "dying" while the destructors of its derived classes run,     *)
(* which may use pointers like everybody else; of a reference taken to it   *)
(* then, `revived`, only that it is taken and given back is modelled.       *)
(***************************************************************************)
EXTENDS Integers, FiniteSets

CONSTANTS Objects, Pointers, WeakPointers,
          MaxLost   \* bound: references to an object that are detached, or usurped

Null == "null"
RefPtrAssumption ==
  /\ Null \notin Objects /\ IsFiniteSet(Pointers) /\ IsFiniteSet(WeakPointers)
  /\ MaxLost \in Nat

VARIABLES
  life,      \* of each object
  count,     \* iReferenceCount
  pinned,    \* iPinned
  to,        \* iManagedPtr of each pointer
  counted,   \* iReferenceCounted of each pointer
  block,     \* of each object: its control block
  weakCount, \* iWeakUseCount
  weak,      \* of each weak pointer: the object of its control block
  loose,     \* history: objects given up by release() and not yet adopted
  lost,      \* history: references to each object that nobody will release
  usurped,   \* history: ... that a pointer which did not count took away
  revived    \* history: objects to which a reference was taken while dying

strong == <<life, count, to, counted, loose, lost, usurped>>
weakly == <<block, weakCount, weak>>
vars == <<strong, pinned, weakly, revived>>

TypeOK ==
  /\ life \in [Objects -> {"unborn", "alive", "dying", "dead"}]
  /\ count \in [Objects -> Int] /\ pinned \subseteq Objects
  /\ to \in [Pointers -> Objects \cup {Null}] /\ counted \in [Pointers -> BOOLEAN]
  /\ block \in [Objects -> {"none", "made", "expired", "deleted"}]
  /\ weakCount \in [Objects -> 0 .. Cardinality(WeakPointers)]
  /\ weak \in [WeakPointers -> Objects \cup {Null}]
  /\ loose \subseteq Objects /\ lost \in [Objects -> 0 .. MaxLost]
  /\ usurped \in [Objects -> 0 .. MaxLost] /\ revived \subseteq Objects
  /\ \A p \in Pointers : to[p] = Null => ~counted[p]

----------------------------------------------------------------------------
Exists(o) == life[o] \in {"alive", "dying"}

\* release() and unpin(): object o has n references left, and is destroyed.
Doomed(o, n, pins) == life[o] = "alive" /\ n <= 0 /\ o \notin pins

\* The references that p holds, or held, to o
Held(p, o) == IF to[p] = o /\ counted[p] THEN 1 ELSE 0

Added(o, new, holds, add) == IF new = o /\ holds /\ add THEN 1 ELSE 0

\* reset(): p gets to manage `new`, counted if `holds`; its copy of what it
\* managed releases that at the end.
Replace(p, new, holds, add) ==
  LET n == [o \in Objects |-> count[o] + Added(o, new, holds, add) - Held(p, o)] IN
  /\ count' = n
  /\ life' = [o \in Objects |->
       IF Held(p, o) = 1 /\ Doomed(o, n[o], pinned) THEN "dying" ELSE life[o]]

\* ... which does nothing when it manages that already, counted or not.
Same(p, new) == to[p] = new

Reset(p, new, holds) ==
  /\ ~Same(p, new) /\ Replace(p, new, holds, TRUE)
  /\ to' = [to EXCEPT ![p] = new] /\ counted' = [counted EXCEPT ![p] = holds]
  /\ loose' = IF holds THEN loose \ {new} ELSE loose
  /\ revived' = IF new # Null /\ life[new] = "dying" THEN revived \cup {new} ELSE revived
  /\ UNCHANGED <<pinned, weakly, lost, usurped>>

\* A null pointer is given a new object, or one it is told about.
Make(p, o) ==
  /\ to[p] = Null /\ life[o] = "unborn"
  /\ life' = [life EXCEPT ![o] = "alive"] /\ count' = [count EXCEPT ![o] = 1]
  /\ to' = [to EXCEPT ![p] = o] /\ counted' = [counted EXCEPT ![p] = TRUE]
  /\ UNCHANGED <<pinned, weakly, loose, lost, usurped, revived>>

\* ref_ptr(Interface*) and reset(Interface*), also of what a weak pointer
\* finds; ref_ptr(Interface&) counts only if somebody does.
Adopt(p, o) == Exists(o) /\ Reset(p, o, TRUE)
Refer(p, o) == to[p] = Null /\ Exists(o) /\ Reset(p, o, count[o] > 0)

Assign(p, q) == p # q /\ (to[q] # Null => Exists(to[q])) /\ Reset(p, to[q], counted[q])
Drop(p) == Reset(p, Null, FALSE)

\* operator=(ref_ptr&&): reset() without a reference, and detach().
MoveAssign(p, q) ==
  /\ p # q /\ to[q] # Null
  /\ IF Same(p, to[q])
     THEN /\ UNCHANGED <<life, count>>
          /\ counted[q] => lost[to[q]] < MaxLost
          /\ lost' = IF counted[q] THEN [lost EXCEPT ![to[q]] = @ + 1] ELSE lost
          /\ to' = [to EXCEPT ![q] = Null] /\ counted' = [counted EXCEPT ![q] = FALSE]
     ELSE /\ Replace(p, to[q], counted[q], FALSE) /\ UNCHANGED lost
          /\ to' = [to EXCEPT ![p] = to[q], ![q] = Null]
          /\ counted' = [counted EXCEPT ![p] = counted[q], ![q] = FALSE]
  /\ UNCHANGED <<pinned, weakly, loose, usurped, revived>>

Detach(p) ==
  /\ to[p] # Null /\ (counted[p] => lost[to[p]] < MaxLost)
  /\ lost' = IF counted[p] THEN [lost EXCEPT ![to[p]] = @ + 1] ELSE lost
  /\ to' = [to EXCEPT ![p] = Null] /\ counted' = [counted EXCEPT ![p] = FALSE]
  /\ UNCHANGED <<life, count, pinned, weakly, loose, usurped, revived>>

\* ref_ptr::release(), which throws too_many_references unless there is one.
\* It does not ask whether that is its own: a pointer that does not count
\* zeroes the count of the one that does.
Release(p) ==
  LET o == to[p] IN
  /\ o # Null /\ life[o] = "alive" /\ count[o] = 1
  /\ ~counted[p] => usurped[o] < MaxLost
  /\ usurped' = IF counted[p] THEN usurped ELSE [usurped EXCEPT ![o] = @ + 1]
  /\ count' = [count EXCEPT ![o] = 0] /\ loose' = loose \cup {o}
  /\ to' = [to EXCEPT ![p] = Null] /\ counted' = [counted EXCEPT ![p] = FALSE]
  /\ UNCHANGED <<life, pinned, weakly, lost, revived>>

Pin(o) ==
  /\ life[o] = "alive" /\ pinned' = pinned \cup {o}
  /\ UNCHANGED <<strong, weakly, revived>>

Unpin(o) ==
  /\ life[o] = "alive" /\ pinned' = pinned \ {o}
  /\ life' = IF Doomed(o, count[o], pinned') THEN [life EXCEPT ![o] = "dying"] ELSE life
  /\ loose' = IF count[o] <= 0 THEN loose \ {o} ELSE loose
  /\ UNCHANGED <<count, to, counted, lost, usurped, weakly, revived>>

\* Mutant: the block goes with the object.
Expired_Deleted(o) == IF block[o] = "made" THEN "deleted" ELSE block[o]

\* ref_control_block::set_expired()
Expired(o) ==
  IF block[o] # "made" THEN block[o]
  ELSE IF weakCount[o] = 0 THEN "deleted" ELSE "expired"

\* ~reference_counted()
Die(o) ==
  /\ life[o] = "dying" /\ life' = [life EXCEPT ![o] = "dead"]
  /\ block' = [block EXCEPT ![o] = Expired(o)]
  /\ UNCHANGED <<count, to, counted, loose, lost, usurped, pinned, weakCount, weak, revived>>

\* update_control_block(): w leaves its block, and takes that of `new`.
Become(w, new) ==
  LET old == weak[w]
      n == [o \in Objects |-> weakCount[o] + (IF new = o THEN 1 ELSE 0) - (IF old = o THEN 1 ELSE 0)] IN
  /\ new # old /\ weak' = [weak EXCEPT ![w] = new] /\ weakCount' = n
  /\ block' = [o \in Objects |->
       IF o = new /\ block[o] = "none" THEN "made"
       ELSE IF o = old /\ n[o] <= 0 /\ block[o] = "expired" THEN "deleted" ELSE block[o]]
  /\ UNCHANGED <<strong, pinned, revived>>

Watch(w, o) == Exists(o) /\ Become(w, o)
Unwatch(w) == Become(w, Null)

\* A copy of a weak pointer, which is null when that has expired
Found(v) == IF weak[v] # Null /\ block[weak[v]] = "made" THEN weak[v] ELSE Null
CopyWeak(w, v) == w # v /\ Become(w, Found(v))

Lock(p, w) == Found(w) # Null /\ Adopt(p, Found(w))

Init ==
  /\ life = [o \in Objects |-> "unborn"] /\ count = [o \in Objects |-> 0] /\ pinned = {}
  /\ to = [p \in Pointers |-> Null] /\ counted = [p \in Pointers |-> FALSE]
  /\ block = [o \in Objects |-> "none"] /\ weakCount = [o \in Objects |-> 0]
  /\ weak = [w \in WeakPointers |-> Null]
  /\ loose = {} /\ lost = [o \in Objects |-> 0]
  /\ usurped = [o \in Objects |-> 0] /\ revived = {}

Next ==
  \/ \E p \in Pointers :
       \/ \E o \in Objects : Make(p, o) \/ Adopt(p, o) \/ Refer(p, o)
       \/ \E q \in Pointers : Assign(p, q) \/ MoveAssign(p, q)
       \/ \E w \in WeakPointers : Lock(p, w)
       \/ Drop(p) \/ Detach(p) \/ Release(p)
  \/ \E o \in Objects : Pin(o) \/ Unpin(o) \/ Die(o)
  \/ \E w \in WeakPointers :
       \/ \E o \in Objects : Watch(w, o)
       \/ \E v \in WeakPointers : CopyWeak(w, v)
       \/ Unwatch(w)

Spec == Init /\ [][Next]_vars

----------------------------------------------------------------------------
\* The count is that of the pointers that count, and of the references that
\* were detached, or lost when a pointer was moved to another one to the
\* same object, less those that release() took from a pointer that counted.
CountExact ==
  \A o \in Objects :
    count[o] = Cardinality({p \in Pointers : to[p] = o /\ counted[p]}) + lost[o] - usurped[o]

Usurped == {o \in Objects : usurped[o] > 0}

\* An object lives exactly while it is counted, pinned, or was released to
\* somebody, unless a reference was taken to it while it was dying, or from
\* a pointer that counted: that one destroys it under its new owner.
AliveWhileHeld ==
  \A o \in Objects \ (revived \cup Usurped) :
    life[o] = "alive" <=> count[o] > 0 \/ (o \in pinned \cup loose /\ life[o] # "unborn")

\* A weak pointer finds its object, or learns that it is gone, from a block
\* that is there as long as anybody looks at it, and no longer.
WeakFinds ==
  \A o \in Objects :
    LET watched == \E w \in WeakPointers : weak[w] = o IN
    /\ weakCount[o] = Cardinality({w \in WeakPointers : weak[w] = o})
    /\ watched => block[o] = IF life[o] = "dead" THEN "expired" ELSE "made"
    /\ ~watched /\ life[o] = "dead" => block[o] \in {"none", "deleted"}
=============================================================================
