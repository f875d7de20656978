-------------------------- MODULE AsyncEventQueue --------------------------
(***************************************************************************)
(* neolib::async_event_queue of one thread, its owner: calls of slots are  *)
(* enqueued by any thread, and the owner makes them in pump_events(),      *)
(* which a handler may call again.  Slots and their sinks come and go      *)
(* meanwhile.  What happens under the queue's mutex is one step.           *)
(***************************************************************************)
EXTENDS Integers, SequencesExt

CONSTANTS Slots,       \* slot objects, in their lifetime
          At,          \* per slot: the address it is constructed at
          Events,
          EventOf,     \* per slot: the event it subscribes to
          Calls,       \* calls of a slot, each enqueued once at most
          SlotOf,      \* per call: the slot it calls
          Single,      \* calls enqueued with aNoDuplicates, or of a
                       \* stateless slot
          Holdable,    \* slots that a trigger's work list may be left holding
          Foreign,     \* ... of a thread other than the owner
          MaxDepth,    \* bound: pumps nested in one another
          MaxThrows    \* bound: handlers that throw

QueueAssumption ==
  /\ EventOf \in [Slots -> Events] /\ SlotOf \in [Calls -> Slots]
  /\ At \in [Slots -> Nat]
  /\ Single \subseteq Calls
  /\ Foreign \subseteq Holdable /\ Holdable \subseteq Slots
  /\ MaxDepth \in Nat /\ MaxThrows \in Nat

VARIABLES
  multiple,   \* iQueue.multiple
  single,     \* iQueue.single: entries by the address of their slot
  lists,      \* per depth of nesting: the owner's work_list
  pumps,      \* the owner's pump_events() calls in progress
  born,       \* slots that were constructed
  sunk,       \* slots that are in their sink and so in their event
  held,       \* slots that are in the work list of some trigger
  gone,       \* events that are destroyed
  throws,     \* exceptions so far
  posted,     \* history: calls in the order they were enqueued
  count,      \* history: per call: how often it was made
  torn        \* history: calls in a work list when it was left by a throw

queue == <<multiple, single, lists, pumps>>
life == <<born, sunk, held, gone>>
vars == <<queue, life, throws, posted, count, torn>>

\* An entry has the flag of the slot it was made for, and the latest call.
Entries == [slot : Slots, call : Calls]
Depths == 1 .. MaxDepth
Addresses == {At[s] : s \in Slots}

TypeOK ==
  /\ multiple \in Seq(Entries)
  /\ DOMAIN single \subseteq Addresses
  /\ \A a \in DOMAIN single : single[a] \in Entries
  /\ lists \in [Depths -> Seq(Entries)]
  /\ pumps \in Seq([at : Nat, phase : {"next", "call", "in"}])
  /\ \A d \in DOMAIN pumps :  \* the loop's iterator is valid
       d \in Depths /\ pumps[d].at \in
         1 .. Len(lists[d]) + IF pumps[d].phase = "next" THEN 1 ELSE 0
  /\ sunk \cup held \subseteq born /\ born \subseteq Slots
  /\ gone \subseteq Events
  /\ throws \in 0 .. MaxThrows
  /\ posted \in Seq(Calls)
  /\ count \in [Calls -> Nat] /\ torn \subseteq Calls

----------------------------------------------------------------------------
(* Slots, by reference counting, and events                                *)

Alive == sunk \cup held

\* *workLists[stack - 1]
ListAt(depth) == depth

\* The owner's pumps, innermost last.
Depth == Len(pumps)
Top == Last(pumps)
WorkList == lists[ListAt(Depth)]
Entry == WorkList[Top.at]
AtEnd == Top.at > Len(WorkList)

\* The owner runs code that is not the queue's: a handler, or whatever it
\* does outside every pump.
InUserCode == pumps # <<>> => Top.phase = "in"

Subscribe(s) ==
  /\ s \notin born /\ EventOf[s] \notin gone
  /\ \A z \in Alive : At[z] # At[s]
  /\ born' = born \cup {s} /\ sunk' = sunk \cup {s}
  /\ UNCHANGED <<queue, held, gone, throws, posted, count, torn>>

\* sink::clear(), in the thread of its slots
Unsubscribe(s) ==
  /\ InUserCode /\ s \in sunk
  /\ sunk' = sunk \ {s}
  /\ UNCHANGED <<queue, born, held, gone, throws, posted, count, torn>>

\* A trigger copies the slots of the event into its work list, which keeps
\* them when the trigger ends early ...
Hold(s) ==
  /\ s \in (sunk \cap Holdable) \ held /\ EventOf[s] \notin gone
  /\ s \in Foreign \/ InUserCode
  /\ held' = held \cup {s}
  /\ UNCHANGED <<queue, born, sunk, gone, throws, posted, count, torn>>

\* ... until a later trigger at that depth overwrites it.
Release(s) ==
  /\ s \in held
  /\ s \in Foreign \/ InUserCode
  /\ held' = held \ {s}
  /\ UNCHANGED <<queue, born, sunk, gone, throws, posted, count, torn>>

DestroyEvent(e) ==
  /\ InUserCode /\ e \notin gone
  /\ gone' = gone \cup {e}
  /\ UNCHANGED <<queue, born, sunk, held, throws, posted, count, torn>>

----------------------------------------------------------------------------
(* enqueue() and pump_events()                                             *)

\* Mutant: the call is appended to the others as well.
Replace_Both(c) ==
  /\ single' = [single EXCEPT ![At[SlotOf[c]]].call = c]
  /\ multiple' = Append(multiple, [slot |-> SlotOf[c], call |-> c])

\* A single call that finds one of that address only replaces its callback.
Replace(c) ==
  /\ single' = [single EXCEPT ![At[SlotOf[c]]].call = c]
  /\ UNCHANGED multiple

Appended(entry) == Append(multiple, entry)

\* async_trigger(), or sync_trigger() for a slot of the owner
Enqueue(c) ==
  LET s == SlotOf[c]
      entry == [slot |-> s, call |-> c] IN
  /\ c \notin ToSet(posted)
  /\ s \in Alive /\ EventOf[s] \notin gone
  /\ posted' = Append(posted, c)
  /\ \/ c \notin Single /\ multiple' = Appended(entry) /\ UNCHANGED single
     \/ c \in Single /\ At[s] \in DOMAIN single /\ Replace(c)
     \/ /\ c \in Single /\ At[s] \notin DOMAIN single
        /\ single' = [a \in DOMAIN single \cup {At[s]} |->
                        IF a = At[s] THEN entry ELSE single[a]]
        /\ UNCHANGED multiple
  /\ UNCHANGED <<lists, pumps, life, throws, count, torn>>

\* Mutant: the work list is copied, iQueue.multiple not emptied.
Swapped_Copied == multiple

\* What workList.swap(iQueue.multiple) leaves in the queue: what the last
\* pump at this depth left in the list, if a handler threw.
Swapped == lists[ListAt(Depth + 1)]

\* Mutant: the single calls are appended while they stay in the queue.
Taken_Kept == single

Taken == <<>>

\* pump_events() up to its loop.  The single calls are in a hash table.
Pump ==
  /\ InUserCode /\ Depth < MaxDepth
  /\ \E singles \in SetToSeqs({single[a] : a \in DOMAIN single}) :
       lists' = [lists EXCEPT ![ListAt(Depth + 1)] = multiple \o singles]
  /\ multiple' = Swapped
  /\ single' = Taken
  /\ pumps' = Append(pumps, [at |-> 1, phase |-> "next"])
  /\ UNCHANGED <<life, throws, posted, count, torn>>

\* entry.eventDestroyed || entry.slotDestroyed
Dead(entry) == EventOf[entry.slot] \in gone \/ entry.slot \notin Alive

AtEntry == pumps # <<>> /\ Top.phase = "next" /\ ~AtEnd

Skip ==
  /\ AtEntry /\ Dead(Entry)
  /\ pumps' = [pumps EXCEPT ![Depth].at = @ + 1]
  /\ UNCHANGED <<multiple, single, lists, life, throws, posted, count, torn>>

Test ==
  /\ AtEntry /\ ~Dead(Entry)
  /\ pumps' = [pumps EXCEPT ![Depth].phase = "call"]
  /\ UNCHANGED <<multiple, single, lists, life, throws, posted, count, torn>>

Call ==
  /\ pumps # <<>> /\ Top.phase = "call"
  /\ pumps' = [pumps EXCEPT ![Depth].phase = "in"]
  /\ count' = [count EXCEPT ![Entry.call] = @ + 1]
  /\ UNCHANGED <<multiple, single, lists, life, throws, posted, torn>>

Return ==
  /\ pumps # <<>> /\ Top.phase = "in"
  /\ pumps' = [pumps EXCEPT ![Depth] = [at |-> @.at + 1, phase |-> "next"]]
  /\ UNCHANGED <<multiple, single, lists, life, throws, posted, count, torn>>

\* The handler throws: pump_events() is left, its work list as it is.
Throw ==
  /\ pumps # <<>> /\ Top.phase = "in" /\ throws < MaxThrows
  /\ throws' = throws + 1
  /\ torn' = torn \cup {e.call : e \in ToSet(WorkList)}
  /\ pumps' = Front(pumps)
  /\ UNCHANGED <<multiple, single, lists, life, posted, count>>

End ==
  /\ pumps # <<>> /\ Top.phase = "next" /\ AtEnd
  /\ lists' = [lists EXCEPT ![ListAt(Depth)] = <<>>]
  /\ pumps' = Front(pumps)
  /\ UNCHANGED <<multiple, single, life, throws, posted, count, torn>>

----------------------------------------------------------------------------
Init ==
  /\ multiple = <<>> /\ single = <<>>
  /\ lists = [d \in Depths |-> <<>>] /\ pumps = <<>>
  /\ born = {} /\ sunk = {} /\ held = {} /\ gone = {}
  /\ throws = 0 /\ posted = <<>>
  /\ count = [c \in Calls |-> 0] /\ torn = {}

PumpStep == Skip \/ Test \/ Call \/ Return \/ End

Next ==
  \/ \E s \in Slots : Subscribe(s) \/ Unsubscribe(s) \/ Hold(s) \/ Release(s)
  \/ \E e \in Events : DestroyEvent(e)
  \/ \E c \in Calls : Enqueue(c)
  \/ Pump \/ PumpStep \/ Throw

Spec == Init /\ [][Next]_vars

\* The owner pumps again and again (async_task::do_work()), and a handler
\* returns however often it pumps.
FairSpec ==
  Spec /\ WF_vars(PumpStep) /\ SF_vars(Return) /\ WF_vars(Depth = 0 /\ Pump)

----------------------------------------------------------------------------
(* What the queue promises                                                 *)

\* The entries still to be looked at, by the list they are in.
Left(d) ==
  {lists[d][i] : i \in {j \in DOMAIN lists[d] :
     d <= Depth =>
       j > pumps[d].at \/ (j = pumps[d].at /\ pumps[d].phase # "in")}}
Queued == ToSet(multiple) \cup {single[a] : a \in DOMAIN single}
Waiting == Queued \cup UNION {Left(d) : d \in Depths}
Pending == {e.call : e \in Waiting}
Made == {c \in Calls : count[c] > 0}

\* When no handler throws, every call is made once or given up, whatever the
\* nesting of pumps does to the work lists.
AbstractQueue == INSTANCE CallQueue WITH pending <- Pending, made <- Made
CallQueueSpec == AbstractQueue!Spec

\* A call is made twice only if it was in a work list that an exception
\* left: pump_events() gives such a list back to the queue.
MadeOnce == \A c \in Calls : count[c] <= 1 \/ c \in torn

\* A callback, which has a bare reference to its slot, is called only while
\* that slot exists, whoever destroys slots and events in which handler.
CalledAlive ==
  [][\A c \in Calls : count'[c] > count[c] => SlotOf[c] \in Alive]_vars

\* A call is given up only when its slot or its event is destroyed, when
\* a later single call replaces it, or when it itself replaced the callback
\* of an entry whose slot was destroyed at the same address.
GivenUpForReason ==
  [][\A e \in Waiting :
       e.call \notin Pending' =>
         \/ count'[e.call] > count[e.call]
         \/ Dead(e)
         \/ /\ e.call \in Single
            /\ Len(posted') > Len(posted)
            /\ At[SlotOf[Last(posted')]] = At[e.slot]]_vars

Before(c, d) ==
  \E i, j \in DOMAIN posted : i < j /\ posted[i] = c /\ posted[j] = d

\* A multiple call overtakes an earlier one only if a pump further out has
\* that in its list, or an exception left it in one.
InOrder ==
  [][\A c \in Calls \ Single : count'[c] > count[c] =>
       \A e \in Waiting :
         e.call \notin Single /\ Before(e.call, c) =>
           \/ e.call \in torn
           \/ \E d \in 1 .. Depth - 1 : e \in Left(d)]_vars

\* A slot that was taken out of its sink is not called any more.
NotInSinkNotCalled ==
  [][\A c \in Calls : count'[c] > count[c] => SlotOf[c] \in sunk]_vars

\* Every call that is enqueued is made or given up.
Delivered == \A c \in Calls : c \in Pending ~> c \notin Pending
=============================================================================
