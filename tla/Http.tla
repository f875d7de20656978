-------------------------------- MODULE Http --------------------------------
(***************************************************************************)
(* neolib::http, a client of one request at a time, in the thread that     *)
(* runs the I/O.  Each request has a packet_stream of its own, which the   *)
(* next one destroys.  What the network and the server do is external: a   *)
(* response is a succession of characters, which can be cut anywhere.  The *)
(* handlers of Failure, Progress and Completed may make the next request.  *)
(*                                                                         *)
(* http_packet declares a has_delimiters() that is false and overrides     *)
(* nothing: the line ends, which packet_arrived() waits for, are taken for *)
(* delimiters of packets and never come to it.                             *)
(***************************************************************************)
EXTENDS Integers, SequencesExt

CONSTANTS MaxRequests, \* bound: calls of request()
          MaxBody,     \* bound: characters in the body of a response
          MaxDepth     \* bound: handlers nested in one another

HttpAssumption == {MaxRequests, MaxBody} \subseteq Nat /\ MaxDepth \in Nat \ {0}

Requests == 1 .. MaxRequests
Unknown == -1

VARIABLES
  made,        \* how many requests were made
  current,     \* the request that the members are those of
  phase,       \* of its stream
  error,       \* has_error() of the stream
  response,    \* state, crlf (iPreviousWasCRLF), line (iResponseLine is not empty), ok,
               \* length, chunked, body, last (chunk in it), reported (Progress)
  calls,       \* what follows each handler that is running, innermost last
  ends,        \* history: how often a request was told to have completed, or failed
  silenced,    \* history: requests whose stream the handling of an earlier failure closed
  doubled,     \* history: requests current when open() or close(), having told a failure, went on
  misused      \* history: what was used although it was destroyed

history == <<ends, silenced, doubled, misused>>
vars == <<made, current, phase, error, response, calls, history>>

NoResponse ==
  [state |-> "ResponseStatus", crlf |-> FALSE, line |-> FALSE, ok |-> FALSE, length |-> Unknown,
   chunked |-> FALSE, body |-> 0, last |-> FALSE, reported |-> FALSE]

Phases == {"none", "opening", "handshake", "connected", "closed", "destroying"}
Continuations == {"done", "close", "fail", "completed", "open", "packet"} \X (Requests \cup {0})

TypeOK ==
  /\ made \in 0 .. MaxRequests /\ current \in 0 .. made /\ phase \in Phases /\ error \in BOOLEAN
  /\ response.state \in {"ResponseStatus", "ResponseHeaders", "Body", "Finished"}
  /\ response.length \in {Unknown} \cup 0 .. MaxBody /\ response.body \in 0 .. MaxBody
  /\ calls \in Seq(Continuations) /\ Len(calls) <= MaxDepth
  /\ silenced \cup doubled \subseteq Requests
  /\ ends \in [Requests -> [completed : Nat, failed : Nat]] /\ misused \subseteq {"packet", "storage"}

IsConnected == phase \in {"handshake", "connected"}
Cleared(r) == [r EXCEPT !.length = Unknown, !.body = 0, !.last = FALSE]

\* Events are told of the current request, the handler runs, and then what is `next`.
Tell(event, next, outer) ==
  /\ Len(outer) < MaxDepth /\ calls' = Append(outer, <<next, current'>>)
  /\ ends' = IF current' = 0 THEN ends ELSE [ends EXCEPT ![current'][event] = @ + 1]
Quiet(outer) == calls' = outer /\ UNCHANGED ends

----------------------------------------------------------------------------
(* connection_closed()                                                     *)

\* Whether the response is taken for complete: with decode(), which sets
\* iBodyLength to the size of what was chunked
Whole(r) ==
  /\ r.ok /\ ~error
  /\ r.chunked => r.last
  /\ r.length # Unknown /\ ~r.chunked => r.length = r.body

ConnectionClosed(outer) ==
  /\ response' = [IF Whole(response) THEN response ELSE Cleared(response) EXCEPT !.state = "Finished"]
  /\ IF Whole(response)
     THEN Len(outer) < MaxDepth /\ calls' = Append(outer, <<"completed", current>>) /\ UNCHANGED ends
     ELSE Tell("failed", "done", outer)

\* Mutant: connection_failure() does not close the stream.
CloseStream_Forgotten(outer) == Quiet(outer) /\ UNCHANGED <<phase, response, doubled, silenced>>

\* close() of the stream, after a failure was told
CloseStream(outer) ==
  /\ phase' = "closed"
  /\ IF IsConnected
     THEN ConnectionClosed(outer) /\ doubled' = doubled \cup {current} /\ UNCHANGED silenced
     ELSE /\ Quiet(outer) /\ UNCHANGED <<response, doubled>>
          /\ silenced' = IF phase = "opening" /\ ends[current].failed = 0
                         THEN silenced \cup {current} ELSE silenced

----------------------------------------------------------------------------
(* request()                                                               *)

\* What reset() sets before it destroys the stream
Reset(r) == NoResponse

\* The new stream is opened: it resolves, or has failed, which it may have
\* told itself, before open() returns.
Opened(r, outer) ==
  /\ current' = r /\ error' = FALSE
  /\ \/ phase' = "opening" /\ Quiet(outer) /\ UNCHANGED doubled
     \/ phase' = "closed" /\ Tell("failed", "done", outer) /\ UNCHANGED doubled
     \/ phase' = "opening" /\ Tell("failed", "fail", outer) /\ doubled' = doubled \cup {r}

\* The stream of the last request is destroyed, which closes it: when it is
\* connected, connection_closed() tells that request's failure.
Request ==
  /\ made < MaxRequests /\ made' = made + 1 /\ misused = {}
  /\ response' = IF IsConnected THEN [Reset(response) EXCEPT !.state = "Finished"] ELSE Reset(response)
  /\ CASE phase = "destroying" ->
            /\ misused' = misused \cup {"storage"}
            /\ UNCHANGED <<current, phase, error, calls, ends, doubled>>
       [] IsConnected ->
            /\ UNCHANGED current /\ phase' = "destroying" /\ Tell("failed", "open", calls)
            /\ doubled' = IF ends[current].failed > 0 THEN doubled \cup {current} ELSE doubled
            /\ UNCHANGED <<error, misused>>
       [] OTHER -> Opened(made', calls) /\ UNCHANGED misused
  /\ UNCHANGED silenced

----------------------------------------------------------------------------
(* The stream's events                                                     *)

InLoop == calls = <<>> /\ misused = {}

Connects ==
  /\ InLoop /\ \/ phase = "opening" /\ phase' \in {"handshake", "connected"}
               \/ phase = "handshake" /\ phase' = "connected"
  /\ UNCHANGED <<made, current, error, response, calls, history>>

\* connection_failure() and transfer_failure(), which are the same
Fails ==
  /\ InLoop /\ phase \in {"opening", "handshake", "connected"}
  /\ error' = TRUE /\ response' = Cleared(response) /\ UNCHANGED current
  /\ Tell("failed", "close", calls)
  /\ UNCHANGED <<made, phase, silenced, doubled, misused>>

\* The server, or what is between, closes the connection.
Eof ==
  /\ InLoop /\ phase = "connected" /\ phase' = "closed" /\ UNCHANGED current
  /\ ConnectionClosed(calls)
  /\ UNCHANGED <<made, error, silenced, doubled, misused>>

\* The end of a line: the status line says whether the request succeeded, a
\* header may say where the body ends, and after an empty line the body begins.
LineEnds(r) ==
  IF r.crlf THEN {[r EXCEPT !.crlf = FALSE, !.state = "Body"]}
  ELSE LET read == [r EXCEPT !.crlf = TRUE, !.line = FALSE] IN
    CASE r.state = "ResponseStatus" ->
           {[read EXCEPT !.state = "ResponseHeaders", !.ok = ok] : ok \in {FALSE, r.line}}
      [] r.state = "ResponseHeaders" ->
           IF ~r.line THEN {read}
           ELSE {read, [read EXCEPT !.chunked = TRUE]} \cup {[read EXCEPT !.length = n] : n \in 0 .. MaxBody}
      [] OTHER -> {[r EXCEPT !.crlf = TRUE]}

\* packet_arrived(), a character at a time
PacketArrived(ch, r) ==
  CASE r.state = "Body" -> {[r EXCEPT !.body = @ + 1, !.last = last, !.reported = TRUE] : last \in BOOLEAN}
    [] r.state # "Body" /\ ch = "cr" -> {r}
    [] r.state # "Body" /\ ch = "lf" -> LineEnds(r)
    [] OTHER -> {[r EXCEPT !.line = TRUE, !.crlf = FALSE]}

\* default_string_packet_traits, which are those of http_packet
IsDelimiter(ch) == ch \in {"cr", "lf"}

\* A character arrives, with the packet that take_some() makes of what is between
\* delimiters, or is such a delimiter.  Progress is told once.
Arrives(ch) ==
  /\ InLoop /\ phase = "connected" /\ response.body < MaxBody
  /\ response' \in IF IsDelimiter(ch) THEN {response} ELSE PacketArrived(ch, response)
  /\ calls' = IF response'.reported /\ ~response.reported THEN Append(calls, <<"packet", current>>) ELSE calls
  /\ UNCHANGED <<made, current, phase, error, history>>

----------------------------------------------------------------------------
(* A handler returns, and what follows it                                  *)

Return ==
  LET next == Last(calls)[1]
      outer == Front(calls)
  IN
  /\ calls # <<>> /\ misused = {}
  /\ misused' = IF next = "packet" /\ current # Last(calls)[2] THEN {"packet"} ELSE misused
  /\ CASE next \in {"done", "packet"} ->
            Quiet(outer) /\ UNCHANGED <<current, phase, error, response, doubled, silenced>>
       [] next = "close" ->
            UNCHANGED current /\ CloseStream(outer) /\ UNCHANGED error
       [] next = "completed" ->
            /\ UNCHANGED current /\ Tell("completed", "done", outer)
            /\ UNCHANGED <<phase, error, response, doubled, silenced>>
       [] next = "open" -> Opened(made, outer) /\ UNCHANGED <<response, silenced>>
       [] next = "fail" ->
            /\ UNCHANGED current /\ phase' = "closed" /\ Tell("failed", "done", outer)
            /\ silenced' = IF ends[current].failed = 0 THEN silenced \cup {current} ELSE silenced
            /\ doubled' = doubled \cup {current} /\ UNCHANGED <<error, response>>
  /\ UNCHANGED made

Init ==
  /\ made = 0 /\ current = 0 /\ phase = "none" /\ error = FALSE /\ response = NoResponse
  /\ calls = <<>>
  /\ ends = [r \in Requests |-> [completed |-> 0, failed |-> 0]]
  /\ silenced = {} /\ doubled = {} /\ misused = {}

Next ==
  \/ Request \/ Connects \/ Fails \/ Eof \/ Return
  \/ \E ch \in {"cr", "lf", "other"} : Arrives(ch)

Spec == Init /\ [][Next]_vars

\* Handlers return; the network connects or fails, and does not stay connected.
FairSpec == Spec /\ WF_vars(Return) /\ WF_vars(Connects \/ Fails) /\ WF_vars(Fails \/ Eof)

----------------------------------------------------------------------------
(* Properties                                                              *)

\* No response is taken for complete, whatever the server sends: the status
\* line, which iOk is set from, does not end.
NeverCompleted == \A r \in Requests : ends[r].completed = 0

\* A request ends once, unless a failure was told and the close of the stream,
\* which follows, then told another.
EndsOnce == \A r \in Requests \ doubled : ends[r].completed + ends[r].failed <= 1

\* A request ends, unless the next one replaces it, or it was made in the handler
\* of a failure, after which the stream, now its own, is closed in silence.
Ends ==
  \A r \in Requests :
    (current = r) ~> (\/ ends[r].completed + ends[r].failed > 0
                     \/ current # r \/ r \in silenced \/ misused # {})
=============================================================================
