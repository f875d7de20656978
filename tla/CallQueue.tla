----------------------------- MODULE CallQueue -----------------------------
(***************************************************************************)
(* What an asynchronous event queue promises of the calls put into it:     *)
(* each is made at most once, after it was posted, unless it is given up.  *)
(***************************************************************************)
CONSTANT Calls

VARIABLES pending,  \* calls in the queue
          made      \* calls that were made

vars == <<pending, made>>

Init == pending = {} /\ made = {}

\* A call is posted; it may take the place of one call that waits.
Post(c) ==
  /\ c \notin pending \cup made
  /\ \E old \in {{}} \cup {{p} : p \in pending} :
       pending' = (pending \ old) \cup {c}
  /\ UNCHANGED made

Make(c) ==
  /\ c \in pending
  /\ pending' = pending \ {c} /\ made' = made \cup {c}

GiveUp(c) == c \in pending /\ pending' = pending \ {c} /\ UNCHANGED made

Next == \E c \in Calls : Post(c) \/ Make(c) \/ GiveUp(c)

Spec == Init /\ [][Next]_vars
=============================================================================
