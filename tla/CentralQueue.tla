---------------------------- MODULE CentralQueue ----------------------------
(***************************************************************************)
(* What a pool of threads promises its callers, without saying how: one    *)
(* set of pending tasks served by all servers.  A task is left pending     *)
(* only if every server has one when it is submitted; a server that        *)
(* completes a task takes the most urgent pending one and rests only if    *)
(* there is none; no task is lost, and none is served twice.  A server     *)
(* that is opened later takes nothing by itself: tasks may be pending      *)
(* beside it, and the next one submitted, however urgent, goes straight    *)
(* to it.                                                                  *)
(***************************************************************************)
EXTENDS Integers, Sequences, FiniteSets

CONSTANTS Tasks, Priority, Servers, None

VARIABLES open,      \* the servers that exist
          order,     \* the tasks submitted so far, in that order
          pending,   \* the tasks no server has taken yet
          serving,   \* per server: the task it has
          done       \* the tasks completed

vars == <<open, order, pending, serving, done>>

Before(t, u) == \E i, j \in 1 .. Len(order) : i < j /\ order[i] = t /\ order[j] = u

\* A higher priority goes first, and at one priority the earlier submission.
MostUrgent(t) ==
  \A u \in pending \ {t} :
    \/ Priority[t] > Priority[u]
    \/ Priority[t] = Priority[u] /\ Before(t, u)

Submit(t) ==
  /\ \A i \in 1 .. Len(order) : order[i] # t
  /\ order' = Append(order, t)
  /\ \/ \E s \in open :
          /\ serving[s] = None
          /\ serving' = [serving EXCEPT ![s] = t]
          /\ UNCHANGED pending
     \/ /\ open # {} /\ \A s \in open : serving[s] # None
        /\ pending' = pending \cup {t}
        /\ UNCHANGED serving
  /\ UNCHANGED <<open, done>>

Complete(s) ==
  /\ serving[s] # None
  /\ done' = done \cup {serving[s]}
  /\ \/ /\ pending = {}
        /\ serving' = [serving EXCEPT ![s] = None]
        /\ UNCHANGED pending
     \/ \E t \in pending :
          /\ MostUrgent(t)
          /\ serving' = [serving EXCEPT ![s] = t]
          /\ pending' = pending \ {t}
  /\ UNCHANGED <<open, order>>

Open(S) ==
  /\ open \subseteq S
  /\ open' = S
  /\ UNCHANGED <<order, pending, serving, done>>

Init ==
  /\ open \subseteq Servers
  /\ order = <<>>
  /\ pending = {}
  /\ serving = [s \in Servers |-> None]
  /\ done = {}

Next ==
  \/ \E t \in Tasks : Submit(t)
  \/ \E s \in Servers : Complete(s)
  \/ \E S \in SUBSET Servers : Open(S)

Spec == Init /\ [][Next]_vars
=============================================================================
