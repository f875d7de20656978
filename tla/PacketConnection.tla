-------------------------- MODULE PacketConnection --------------------------
(***************************************************************************)
(* neolib::basic_packet_connection with the packet_stream that owns it, in *)
(* the thread that runs the I/O: asynchronous operations complete one at a *)
(* time, and the handlers of the stream's events may use, close, reopen    *)
(* and destroy the stream.  An operation ends in a proxy, which close()    *)
(* orphans; resolving does not.  The network and asio are external: an     *)
(* operation that was started completes, well or with an error.            *)
(***************************************************************************)
EXTENDS Integers, SequencesExt

CONSTANTS Packets, None,
          MaxOpens,   \* bound: calls of open()
          MaxArrivals,\* bound: packets in what one read returns
          MaxDepth    \* bound: callbacks nested in one another

PacketConnectionAssumption ==
  None \notin Packets /\ MaxOpens \in Nat /\ MaxArrivals \in Nat /\ MaxDepth \in Nat \ {0}

Kinds == {"resolve", "connect", "handshake", "read", "write", "accept"}
NoOps == [k \in Kinds |-> 0]

VARIABLES
  life,    \* "alive" or "dead"
  secure,  \* iSecure
  conn,    \* the members of the connection, and the operations under way
           \* whose proxy is its own, or was orphaned
  stored,  \* iSendQueue of the stream, which owns the packets
  fresh,   \* packets that nobody has sent yet
  calls,   \* what follows each callback that is running, innermost last
  opens,
  crossed, \* history: a result for an earlier open() was taken for this one
  cut,     \* history: close() while a packet was written
  freed,   \* history: packets that close() of the stream freed, although
           \* the connection points at them
  early,   \* history: send_packet() during a handshake
  touched  \* history: what ran on a connection that was destroyed

history == <<crossed, cut, freed, early, touched>>
vars == <<life, secure, conn, stored, fresh, calls, opens, history>>

\* ... with the packets that are left to arrive
Continuations == {"established", "sent", "failed", "arrived", "nothing"} \X (0 .. MaxArrivals)

TypeOK ==
  /\ life \in {"alive", "dead"} /\ secure \in BOOLEAN
  /\ conn \in [opened : BOOLEAN, connected : BOOLEAN, queue : Seq(Packets),
               sent : Packets \cup {None}, own : [Kinds -> Nat], stale : [Kinds -> Nat]]
  /\ conn.connected => conn.opened
  /\ conn.own # NoOps => life = "alive" /\ conn.opened
  /\ stored \subseteq Packets /\ fresh \subseteq Packets /\ stored \cap fresh = {}
  /\ calls \in Seq(Continuations) /\ Len(calls) <= MaxDepth
  /\ opens \in 0 .. MaxOpens
  /\ crossed \in BOOLEAN /\ cut \in BOOLEAN /\ early \in BOOLEAN
  /\ freed \subseteq Packets /\ touched \subseteq {"resolve", "established", "sent", "failed", "arrived"}

----------------------------------------------------------------------------
(* The connection's own functions, on its members c                        *)

Start(c, k) == [c EXCEPT !.own[k] = @ + 1]

SendAny(c) ==
  IF c.connected /\ c.queue # <<>> /\ c.sent = None
  THEN Start([c EXCEPT !.sent = Head(c.queue), !.queue = Tail(@)], "write") ELSE c

ReceiveAny(c) == IF c.connected THEN Start(c, "read") ELSE c

\* handler_proxy::orphan()
Orphaned(c) ==
  [c EXCEPT !.own = NoOps, !.stale = [k \in Kinds |-> c.stale[k] + c.own[k]]]

\* close(), which clears neither the queue nor the packet being sent
Closed(c) == [Orphaned(c) EXCEPT !.opened = FALSE, !.connected = FALSE]

Close(c, outer) ==
  /\ conn' = Closed(c)
  /\ cut' = (cut \/ c.sent # None)
  /\ calls' = IF c.connected THEN Append(outer, <<"nothing", 0>>) ELSE outer

\* A callback of the owner begins.
Call(next) == Len(calls) < MaxDepth /\ calls' = Append(calls, next)

----------------------------------------------------------------------------
(* What the owner does, also in a callback                                 *)

\* open(); also when the socket cannot be opened, or nothing is to resolve
Open ==
  LET c == [conn EXCEPT !.opened = TRUE] IN
  /\ life = "alive" /\ ~conn.opened /\ opens < MaxOpens /\ opens' = opens + 1
  /\ \/ conn' \in {Start(c, "resolve"), Start(c, "accept"), c} /\ UNCHANGED calls
     \/ conn' = c /\ Call(<<"nothing", 0>>)      \* bind() failed
  /\ UNCHANGED <<life, secure, stored, fresh, history>>

SendPacket(p) ==
  /\ life = "alive" /\ p \in fresh
  /\ fresh' = fresh \ {p} /\ stored' = stored \cup {p}
  /\ \E queue \in {<<p>> \o conn.queue, Append(conn.queue, p)} :
       conn' = SendAny([conn EXCEPT !.queue = queue])
  /\ early' = (early \/ conn.own["handshake"] > 0)
  /\ UNCHANGED <<life, secure, calls, opens, crossed, cut, freed, touched>>

\* connection().close()
ConnectionClose ==
  /\ life = "alive" /\ Len(calls) < MaxDepth /\ Close(conn, calls)
  /\ UNCHANGED <<life, secure, stored, fresh, opens, crossed, freed, early, touched>>

\* packet_stream::close()
StreamClose ==
  /\ life = "alive" /\ Len(calls) < MaxDepth
  /\ stored' = {} /\ freed' = freed \cup stored /\ Close(conn, calls)
  /\ UNCHANGED <<life, secure, fresh, opens, crossed, early, touched>>

\* The stream's and the connection's destructors.  A handler of the last
\* connection_closed does nothing to the stream.
Destroy ==
  /\ life = "alive" /\ life' = "dead" /\ stored' = {} /\ conn' = Closed(conn)
  /\ UNCHANGED <<secure, fresh, calls, opens, history>>

----------------------------------------------------------------------------
(* Operations complete                                                     *)

InLoop == calls = <<>>

\* An operation of kind k whose handler goes on, and what then remains
Handled(k) == InLoop /\ conn.own[k] > 0
Done(k) == [conn EXCEPT !.own[k] = @ - 1]

\* One whose proxy was orphaned ends there.
Forgotten(k) ==
  /\ InLoop /\ conn.stale[k] > 0 /\ k # "resolve"
  /\ conn' = [conn EXCEPT !.stale[k] = @ - 1]
  /\ UNCHANGED <<life, secure, stored, fresh, calls, opens, history>>

\* handle_resolve(), with the results or an error; c is what remains.
Resolved(c) ==
  \/ ~c.opened /\ conn' = c /\ UNCHANGED calls
  \/ c.opened /\ conn' = Start(c, "connect") /\ UNCHANGED calls
  \/ c.opened /\ conn' = c /\ Call(<<"nothing", 0>>)

HandleResolve ==
  /\ Handled("resolve") /\ Resolved(Done("resolve"))
  /\ UNCHANGED <<life, secure, stored, fresh, opens, history>>

\* The lambda of resolve() calls the connection, however old it is.
HandleStaleResolve ==
  LET c == [conn EXCEPT !.stale["resolve"] = @ - 1] IN
  /\ InLoop /\ conn.stale["resolve"] > 0
  /\ \/ /\ life = "dead" /\ conn' = c /\ touched' = touched \cup {"resolve"}
        /\ UNCHANGED <<calls, crossed>>
     \/ /\ life = "alive" /\ Resolved(c) /\ UNCHANGED touched
        /\ crossed' = (crossed \/ conn'.own["connect"] > c.own["connect"])
  /\ UNCHANGED <<life, secure, stored, fresh, opens, cut, freed, early>>

Connected(c) ==
  \/ secure /\ conn' = Start(c, "handshake") /\ UNCHANGED calls
  \/ ~secure /\ conn' = c /\ Call(<<"established", 0>>)

HandleConnect ==
  LET c == Done("connect") IN
  /\ Handled("connect")
  /\ \/ Connected([c EXCEPT !.connected = TRUE])
     \/ conn' = c /\ Call(<<"nothing", 0>>)
  /\ UNCHANGED <<life, secure, stored, fresh, opens, history>>

HandleHandshake ==
  /\ Handled("handshake") /\ conn' = Done("handshake")
  /\ Call(<<"established", 0>>) \/ Call(<<"nothing", 0>>)
  /\ UNCHANGED <<life, secure, stored, fresh, opens, history>>

ServerAccept ==
  /\ Handled("accept")
  /\ conn' = ReceiveAny(SendAny([Done("accept") EXCEPT !.connected = TRUE]))
  /\ UNCHANGED <<life, secure, stored, fresh, calls, opens, history>>

Wrote(c) == [c EXCEPT !.sent = None]

\* handle_write(); the stream takes the packet out of its own queue.
HandleWrite ==
  /\ Handled("write") /\ conn' = Wrote(Done("write"))
  /\ stored' = stored \ {conn.sent}
  /\ Call(<<"sent", 0>>) \/ Call(<<"failed", 0>>)
  /\ UNCHANGED <<life, secure, fresh, opens, history>>

\* handle_read(): packets, a part of one, or an error
HandleRead ==
  /\ Handled("read")
  /\ \/ conn' = ReceiveAny(Done("read")) /\ UNCHANGED calls
     \/ /\ conn' = Done("read")
        /\ \/ Call(<<"failed", 0>>)
           \/ \E n \in 1 .. MaxArrivals : Call(<<"arrived", n - 1>>)
  /\ UNCHANGED <<life, secure, stored, fresh, opens, history>>

\* ... or the end of the stream
HandleEof ==
  /\ Handled("read") /\ Close(Done("read"), calls)
  /\ UNCHANGED <<life, secure, stored, fresh, opens, crossed, freed, early, touched>>

----------------------------------------------------------------------------
(* A callback returns, and what follows it                                 *)

Continue(at, left, outer) ==
  \/ at = "nothing" /\ calls' = outer /\ UNCHANGED <<conn, cut>>
  \/ at = "failed" /\ Close(conn, outer)
  \/ at = "arrived" /\ left > 0 /\ calls' = Append(outer, <<at, left - 1>>) /\ UNCHANGED <<conn, cut>>
  \/ /\ calls' = outer /\ UNCHANGED cut
     /\ \/ at = "arrived" /\ left = 0 /\ conn' = ReceiveAny(conn)
        \/ at = "established" /\ conn' = ReceiveAny(SendAny(conn))
        \/ at = "sent" /\ conn' = SendAny(conn)

\* Mutant: handle_packet_sent() may destroy the connection unnoticed.
Gone_NotSent(at) == life = "dead" /\ at # "sent"

\* destroyed_flag
Gone(at) == life = "dead"

Return ==
  LET at == Last(calls)[1] IN
  /\ calls # <<>>
  /\ IF Gone(at) THEN calls' = Front(calls) /\ UNCHANGED <<conn, cut, touched>>
     ELSE /\ Continue(at, Last(calls)[2], Front(calls))
          /\ touched' = IF life = "dead" /\ at # "nothing" THEN touched \cup {at} ELSE touched
  /\ UNCHANGED <<life, secure, stored, fresh, opens, crossed, freed, early>>

Init ==
  /\ life = "alive" /\ secure \in BOOLEAN
  /\ conn = [opened |-> FALSE, connected |-> FALSE, queue |-> <<>>, sent |-> None,
             own |-> NoOps, stale |-> NoOps]
  /\ stored = {} /\ fresh = Packets /\ calls = <<>> /\ opens = 0
  /\ crossed = FALSE /\ cut = FALSE /\ freed = {} /\ early = FALSE /\ touched = {}

Owner ==
  \/ Open \/ ConnectionClose \/ StreamClose \/ Destroy
  \/ \E p \in Packets : SendPacket(p)

Completes ==
  \/ HandleResolve \/ HandleStaleResolve \/ HandleConnect \/ HandleHandshake
  \/ ServerAccept \/ HandleWrite \/ HandleRead \/ HandleEof
  \/ \E k \in Kinds : Forgotten(k)

Next == Owner \/ Completes \/ Return

Spec == Init /\ [][Next]_vars

\* A callback returns, and a write that was started completes.
FairSpec == Spec /\ WF_vars(Return) /\ SF_vars(HandleWrite)

----------------------------------------------------------------------------
\* Nothing runs on a connection that was destroyed, be it destroyed in one
\* of its own callbacks, but the handler of resolve().
NoUseAfterDestroy == touched \subseteq {"resolve"}

\* The packets that the connection points at exist, but for those that
\* close() of the stream has freed.
PacketsThere ==
  life = "alive" =>
    ToSet(conn.queue) \cup ({conn.sent} \ {None}) \subseteq stored \cup freed

\* A packet is being sent exactly while its write is under way, one write
\* and one read at a time, unless close() has cut a write off before, or
\* the result for an earlier open() was taken.
OneAtATime ==
  crossed \/ /\ conn.own["write"] <= 1 /\ conn.own["read"] <= 1
             /\ conn.own["write"] = 1 => conn.sent # None
             /\ cut \/ life = "dead" \/ (conn.sent # None => conn.own["write"] = 1)

\* Nothing is written into a handshake but what the owner sends then.
HandshakeAlone ==
  conn.own["handshake"] > 0 /\ conn.own["write"] > 0 => early \/ crossed

\* While a packet is written, those that wait behind it are written, too,
\* or the connection ends.
Written ==
  \A p \in Packets :
    (p \in ToSet(conn.queue) /\ conn.own["write"] > 0)
      ~> (p \notin ToSet(conn.queue) \/ ~conn.connected)
=============================================================================
