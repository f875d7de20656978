------------------------------- MODULE Logger -------------------------------
(***************************************************************************)
(* neolib::logger::logger: threads flush messages to buffers of their own, *)
(* which the logging thread, or whoever calls commit() while there is      *)
(* none, swaps with empty ones and writes to the log.  The messages of a   *)
(* thread are numbered.  A message that is filtered changes nothing.       *)
(***************************************************************************)
EXTENDS Integers, Sequences, SequencesExt

CONSTANTS Threads,
          Main,        \* the one that calls finalize()
          Service,     \* the logging thread
          MaxMessages  \* bound: of each thread

LoggerAssumption ==
  Main \in Threads /\ Service \notin Threads /\ MaxMessages \in Nat

VARIABLES
  pc,         \* where each thread is
  entries,    \* the threads in iBuffers
  front,      \* of each: the buffer it fills
  back,       \* ... and the one that is swapped with it
  temp,       \* tempBuffer of the one that commits
  log,        \* what is written
  destroying, \* is_destroying()
  created,    \* whether the logging thread is there from the beginning
  flushed,    \* history: messages of each thread
  before,     \* history: those when finalize() let the logging thread end
  left,       \* history: messages whose thread ended while nobody wrote them
  undefined   \* history: two threads were in iBuffers at once, one unlocked
vars == <<pc, entries, front, back, temp, log, destroying, created, flushed, before, left, undefined>>
buffers == <<entries, front, back, temp>>
history == <<created, flushed, before, left>>

Messages == [from : Threads, n : 1 .. MaxMessages]
Committers == Threads \cup {Service}

TypeOK ==
  /\ pc \in [Committers -> {"none", "out", "committing", "exiting", "gone", "finalizing", "waited",
                            "joining", "last", "finalized", "ended"}]
  /\ entries \subseteq Threads
  /\ front \in [Threads -> Seq(Messages)] /\ back \in [Threads -> Seq(Messages)]
  /\ temp \in Seq(Messages) /\ log \in Seq(Messages)
  /\ destroying \in BOOLEAN /\ created \in BOOLEAN /\ flushed \in [Threads -> 0 .. MaxMessages]
  /\ before \in [Threads -> 0 .. MaxMessages] /\ left \subseteq Messages /\ undefined \in BOOLEAN
  /\ \A t \in Threads \ entries : front[t] = <<>> /\ back[t] = <<>>

----------------------------------------------------------------------------
\* any_available()
Available == \E t \in entries : front[t] # <<>>

HasService == pc[Service] # "none"

\* The logging thread holds the mutex of the signal while it commits.
SignalFree == pc[Service] # "committing"

\* The threads that go through iBuffers, and the buffers swapped away, and
\* hold no mutex that others take to change them
Reading == {c \in Committers : pc[c] \in {"committing", "last"}}

Goes(c, where) == pc' = [pc EXCEPT ![c] = where]

Appended(s, m) == Append(s, m)

Flush(t) ==
  /\ pc[t] = "out" /\ SignalFree /\ flushed[t] < MaxMessages
  /\ flushed' = [flushed EXCEPT ![t] = @ + 1] /\ entries' = entries \cup {t}
  /\ front' = [front EXCEPT ![t] = Appended(@, [from |-> t, n |-> flushed'[t]])]
  /\ undefined' = (t \notin entries /\ Reading # {})
  /\ UNCHANGED <<pc, back, temp, log, destroying, created, before, left>>

\* commit(): the buffers are swapped ...
Swap ==
  /\ front' = back /\ back' = front /\ undefined' = (Reading # {})
  /\ UNCHANGED <<entries, temp, log, created, flushed, left>>

\* ... and what has been swapped away is collected, thread by thread in the
\* order of iBuffers, whatever that is, ...
Collect(t) ==
  /\ back[t] # <<>> /\ temp' = temp \o back[t] /\ back' = [back EXCEPT ![t] = <<>>]
  /\ UNCHANGED <<pc, entries, front, log, destroying, history, undefined>>

\* ... and written.
Write ==
  /\ \A t \in entries : back[t] = <<>>
  /\ log' = log \o temp /\ temp' = <<>>
  /\ UNCHANGED <<entries, front, back, destroying, history, undefined>>

\* commit() by a client, which does nothing when there is a logging thread
Commit(t) == pc[t] = "out" /\ ~HasService /\ Swap /\ Goes(t, "committing") /\ UNCHANGED <<destroying, before>>
Committed(t) == pc[t] = "committing" /\ Write /\ Goes(t, "out")
Collects == Reading # {} /\ \E t \in entries : Collect(t)

CreateService ==
  /\ ~HasService /\ pc[Main] = "out" /\ Goes(Service, "out")
  /\ UNCHANGED <<buffers, log, destroying, history, undefined>>

\* Mutant: it ends as soon as it is told to.
Roused_Ends == Available /\ ~destroying

Roused == Available \/ destroying

\* Mutant: it looks whether it is to end before it commits.
Serve_Leaves ==
  /\ pc[Service] = "out" /\ Roused
  /\ \/ ~destroying /\ Swap /\ Goes(Service, "committing") /\ UNCHANGED <<destroying, before>>
     \/ destroying /\ Goes(Service, "ended")
        /\ UNCHANGED <<buffers, log, destroying, history, undefined>>

Serve == pc[Service] = "out" /\ Roused /\ Swap /\ Goes(Service, "committing") /\ UNCHANGED <<destroying, before>>

Served ==
  /\ pc[Service] = "committing" /\ Write
  /\ Goes(Service, IF destroying THEN "ended" ELSE "out")

Erase(t) ==
  /\ entries' = entries \ {t}
  /\ front' = [front EXCEPT ![t] = <<>>] /\ back' = [back EXCEPT ![t] = <<>>]

\* The end of a thread that has logged: it waits, if there is a logging
\* thread, until nothing is available, and erases its buffers.
Exit(t) ==
  /\ pc[t] = "out" /\ t # Main /\ Goes(t, IF t \in entries THEN "exiting" ELSE "gone")
  /\ UNCHANGED <<buffers, log, destroying, history, undefined>>

Exited(t) ==
  /\ pc[t] = "exiting" /\ (HasService => ~Available) /\ Goes(t, "gone")
  /\ Erase(t)
  /\ left' = left \cup ToSet(front[t]) \cup ToSet(back[t])
  /\ undefined' = (Reading # {})
  /\ UNCHANGED <<temp, log, destroying, created, flushed, before>>

Finalize ==
  /\ pc[Main] = "out" /\ HasService /\ Goes(Main, "finalizing")
  /\ UNCHANGED <<buffers, log, destroying, history, undefined>>

\* wait(): the buffers are empty, or have been swapped away.
Waited ==
  /\ pc[Main] = "finalizing" /\ ~Available /\ Goes(Main, "waited")
  /\ UNCHANGED <<buffers, log, destroying, history, undefined>>

SetDestroying ==
  /\ pc[Main] = "waited" /\ SignalFree
  /\ destroying' = TRUE /\ before' = flushed /\ Goes(Main, "joining")
  /\ UNCHANGED <<buffers, log, created, flushed, left, undefined>>

Join ==
  /\ pc[Main] = "joining" /\ pc[Service] = "ended" /\ Goes(Main, "finalized")
  /\ UNCHANGED <<buffers, log, destroying, history, undefined>>

FinalizeAlone ==
  /\ pc[Main] = "out" /\ ~HasService /\ destroying' = TRUE
  /\ Swap /\ before' = flushed /\ Goes(Main, "last")

LastWritten == pc[Main] = "last" /\ Write /\ Goes(Main, "finalized")

Init ==
  /\ created \in BOOLEAN
  /\ pc = [c \in Committers |-> IF c = Service /\ ~created THEN "none" ELSE "out"]
  /\ entries = {} /\ front = [t \in Threads |-> <<>>] /\ back = front /\ temp = <<>> /\ log = <<>>
  /\ destroying = FALSE /\ flushed = [t \in Threads |-> 0] /\ before = flushed
  /\ left = {} /\ undefined = FALSE

Client(t) == Committed(t) \/ Exited(t)
Serving == Serve \/ Served
Finalizing == Waited \/ SetDestroying \/ Join \/ LastWritten

\* Of what follows once two threads use iBuffers at once nothing is said.
Next ==
  /\ ~undefined
  /\ \/ \E t \in Threads : Flush(t) \/ Commit(t) \/ Exit(t) \/ Client(t)
     \/ CreateService \/ Collects \/ Serving \/ Finalize \/ FinalizeAlone \/ Finalizing

Spec == Init /\ [][Next]_vars

\* A thread that commits, serves, exits or waits goes on.
FairSpec == Spec /\ WF_vars(Serving) /\ WF_vars(Collects) /\ WF_vars(Finalizing) /\ \A t \in Threads : WF_vars(Client(t))

----------------------------------------------------------------------------
\* The messages of a thread that are not lost, on their way to the log
Stream(t) == log \o temp \o back[t] \o front[t]

\* Every message is in the log, once, or on its way there, and those of a
\* thread are in their order, but for messages whose thread has ended while
\* there was no logging thread.
NoneLost ==
  ~undefined => \A t \in Threads :
    LET s == Stream(t) IN
    /\ \A i, j \in 1 .. Len(s) :
         i < j /\ s[i].from = t /\ s[j].from = t => s[i].n < s[j].n
    /\ \A n \in 1 .. flushed[t] : [from |-> t, n |-> n] \in ToSet(s) \cup left
    /\ created => left = {}

\* What was logged before finalize() let the logging thread end is in the
\* log when it returns.
FinalizedWritten ==
  pc[Main] = "finalized" /\ ~undefined =>
    \A t \in Threads : \A n \in 1 .. before[t] : [from |-> t, n |-> n] \in ToSet(log) \cup left

\* A message gets into the log, if there is a logging thread, unless it is
\* about to end, or nothing is said any more.
Written ==
  \A m \in Messages :
    created /\ flushed[m.from] >= m.n ~> m \in ToSet(log) \/ destroying \/ undefined

\* finalize() returns, and so does a thread that ends, unless it has logged
\* something after that.
Ends ==
  /\ pc[Main] \in {"finalizing", "waited", "joining", "last"} ~> pc[Main] = "finalized" \/ undefined
  /\ \A t \in Threads : pc[t] = "exiting" ~> pc[t] = "gone" \/ undefined \/ (pc[Main] = "finalized" /\ Available)
=============================================================================
