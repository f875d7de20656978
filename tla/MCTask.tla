------------------------------- MODULE MCTask -------------------------------
(***************************************************************************)
(* What neolib::task is made of besides the thread pool, as TLC checks it: *)
(* events (module Event), the queue of their calls, timers, and            *)
(* parallel_apply().  The parts share nothing here, so that a behaviour is *)
(* one of one part, the others staying as they begin.                      *)
(*                                                                         *)
(* Instances: one thread triggers two events in one another, the second    *)
(* thread a third of the same type.  Of the slots in the queue s3 may be   *)
(* constructed where s1 was; s1 has two calls, each other slot one.        *)
(***************************************************************************)
EXTENDS ParallelApply, TLC

CONSTANTS Parts,                \* the parts that are checked
          a, b,                 \* the threads
          s1, s2, s3, s4,       \* slots
          c1, c2, c3, c4,       \* calls in the queue
          first, second, third, \* events
          None,
          EventNames, SlotNames, SubscribesTo, Emitted, Prior, Remotes, \* of the events
          Calls, Single, Holdable,     \* of the queue
          QueueSlots, QueueEvents, QueueEventOf, CalledSlot, Address,
          TimerNames,
          MaxTriggers,
          MaxDepth,             \* bound: triggers, pumps and polls in one another
          SliceExpires,         \* of the timers
          MaxThrows             \* bound: of the queue, and of the timers

VARIABLES
  part,
  slots, active, eventLists, stack, dead, slotsBorn, triggers, result, cut, eventsTouched,
  multiple, single, queueLists, pumps, born, sunk, held, eventsGone, throws, posted, count, torn,
  timer, life, task, objects, objLists, subLists, polls, timerThrows, owed, timersStopped,
  timersTorn, timersTouched

E == INSTANCE Event WITH
  Events <- EventNames, Slots <- SlotNames,
  EventOf <- SubscribesTo, Emits <- Emitted, Priority <- Prior, Remote <- Remotes,
  lists <- eventLists, born <- slotsBorn, touched <- eventsTouched

Q == INSTANCE AsyncEventQueue WITH
  Slots <- QueueSlots, At <- Address, Events <- QueueEvents, EventOf <- QueueEventOf,
  SlotOf <- CalledSlot, Foreign <- {},
  lists <- queueLists, gone <- eventsGone

T == INSTANCE Timer WITH
  Timers <- TimerNames,
  throws <- timerThrows, stopped <- timersStopped, torn <- timersTorn, touched <- timersTouched

ASSUME PartsAssumption ==
  E!EventAssumption /\ E!EmittersApart /\ Q!QueueAssumption /\ T!TimerAssumption

\* The instances that TLC checks
MCSubscribesTo == s1 :> first @@ s2 :> first @@ s3 :> second @@ s4 :> third
MCEmitted == a :> {first, second} @@ b :> {third}
MCSlotOf == c1 :> s1 @@ c2 :> s1 @@ c3 :> s2 @@ c4 :> s3
MCSlots == {MCSlotOf[c] : c \in Calls}
MCEventOf == [s \in MCSlots |-> first]
MCCalledSlot == [c \in Calls |-> MCSlotOf[c]]
MCAddress == [s \in MCSlots |-> IF s = s2 THEN 2 ELSE 1]

eventVars == <<slots, active, eventLists, stack, dead, slotsBorn, triggers, result, cut, eventsTouched>>
queueVars == <<multiple, single, queueLists, pumps, born, sunk, held, eventsGone, throws, posted, count, torn>>
timerVars == <<timer, life, task, objects, objLists, subLists, polls, timerThrows, owed, timersStopped,
               timersTorn, timersTouched>>
all == <<part, vars, eventVars, queueVars, timerVars>>

TaskInit ==
  /\ part \in Parts
  /\ Init /\ (part # "apply" => size = 0)
  /\ E!Init /\ Q!Init /\ T!Init

ApplyStep == part = "apply" /\ Next /\ UNCHANGED <<part, eventVars, queueVars, timerVars>>
EventStep == part = "event" /\ E!Next /\ UNCHANGED <<part, vars, queueVars, timerVars>>
QueueStep == part = "queue" /\ Q!Next /\ UNCHANGED <<part, vars, eventVars, timerVars>>
TimerStep == part = "timer" /\ T!Next /\ UNCHANGED <<part, vars, eventVars, queueVars>>

TaskSpec == TaskInit /\ [][ApplyStep \/ EventStep \/ QueueStep \/ TimerStep]_all

Goes(p, A) == part = p /\ A

\* The fairness of each part, in behaviours of that part.
TaskFairSpec ==
  /\ TaskSpec
  /\ WF_vars(Goes("apply", Call \/ Loop \/ Rest \/ Return)) /\ WF_vars(Goes("apply", Stopped))
  /\ WF_vars(Goes("apply", Apply(Caller) \/ End(Caller)))
  /\ \A w \in Threads :
       WF_vars(Goes("apply", Take(w) \/ Apply(w) \/ End(w))) /\ WF_vars(Goes("apply", Leave(w)))
  /\ WF_queueVars(Goes("queue", Q!PumpStep)) /\ SF_queueVars(Goes("queue", Q!Return))
  /\ WF_queueVars(Goes("queue", Q!Depth = 0 /\ Q!Pump))
  /\ WF_timerVars(Goes("timer", T!PollStep)) /\ SF_timerVars(Goes("timer", T!Return))
  /\ WF_timerVars(Goes("timer", T!Depth = 0 /\ T!Poll))
  /\ \A t \in TimerNames : WF_timerVars(Goes("timer", T!TimePasses(t)))

----------------------------------------------------------------------------
\* A trigger goes on with the slots that it found, and accept() reaches the
\* innermost one and stops exactly that, whatever handlers do to the events
\* in the meantime.
EventSafe ==
  /\ [](E!TypeOK /\ E!WorkListKept /\ E!ActiveIsInnermost)
  /\ E!AcceptStops /\ E!AcceptedMeansAsked

\* A queued call is made once, while its slot exists, in the order of the
\* queue, or given up for one of three reasons; but for what an exception
\* leaves in a work list.
QueueSafe ==
  [](Q!TypeOK /\ Q!MadeOnce) /\ Q!CalledAlive /\ Q!GivenUpForReason /\ Q!InOrder

\* A timer is called once for each deadline that passes, knows whether it
\* waits, and is not used when it is destroyed, also by its own handler.
TimerSafe ==
  /\ [](T!TypeOK /\ T!ArmedWaits /\ T!WaitsForSomething /\ T!NoUseAfterDestroy)
  /\ T!ReadyWhenDue

\* A handler destroys the event that called it, as src/unit_tests/Event does:
\* sync_trigger() is to leave the event alone after that.
NoUseAfterDestroy == E!NoUseAfterDestroy

\* A slot that was taken out of its sink is not called any more.
NotInSinkNotCalled == Q!NotInSinkNotCalled

\* When no handler throws, the queue and its work lists are what CallQueue
\* promises.
CallQueueSpec == Q!CallQueueSpec

\* Every call that is enqueued is made or given up.
Delivered == Q!Delivered

\* A timer whose time has passed is called, cancelled or destroyed.
Served == T!Served

\* parallel_apply() returns, also when the pool is stopped around it.
ApplyReturns == part = "apply" ~> pc = "returned"
=============================================================================
