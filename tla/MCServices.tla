----------------------------- MODULE MCServices -----------------------------
(***************************************************************************)
(* What a program gets from the library ready-made, as TLC checks it:      *)
(* services (module Services), the log, packet streams with the string     *)
(* packets that they cut what they read into, the HTTP client, and the     *)
(* JSON parser.  The parts share nothing here, so that a behaviour is one  *)
(* of one part, the others staying as they begin.                          *)
(***************************************************************************)
EXTENDS Services

CONSTANTS Parts,                                  \* the parts that are checked
          Loggers, Main, LoggingThread, MaxMessages,
          Packets, NoPacket, MaxOpens, MaxArrivals,
          MaxDepth,                               \* of callbacks
          StreamLetters, CR, LF, MaxStream, MaxRead,
          MaxRequests, MaxBody,                   \* of HTTP
          MaxNesting

VARIABLES
  part,
  at, entries, front, back, temp, log, destroying, created, flushed, before, left, undefined,
  life, secure, conn, stored, fresh, calls, opens, mixed, cut, freed, early, used,
  buffer, packet, delivered, received, joined,
  made, current, phase, error, response, handlers, ends, silenced, doubled, misused,
  goals, p

L == INSTANCE Logger WITH Threads <- Loggers, Service <- LoggingThread, pc <- at
P == INSTANCE PacketConnection WITH None <- NoPacket, crossed <- mixed, touched <- used
X == INSTANCE StringPacket WITH Letters <- StreamLetters
H == INSTANCE Http WITH calls <- handlers
J == INSTANCE JsonParser WITH EscapesNames <- FALSE

ASSUME PartsAssumption ==
  /\ L!LoggerAssumption /\ P!PacketConnectionAssumption
  /\ X!StringPacketAssumption /\ H!HttpAssumption /\ J!JsonParserAssumption

logVars == <<at, entries, front, back, temp, log, destroying, created, flushed, before, left, undefined>>
packetVars == <<life, secure, conn, stored, fresh, calls, opens, mixed, cut, freed, early, used>>
stringVars == <<buffer, packet, delivered, received, joined>>
httpVars == <<made, current, phase, error, response, handlers, ends, silenced, doubled, misused>>
jsonVars == <<goals, p>>

MCInit ==
  /\ part \in Parts /\ Init /\ L!Init /\ P!Init /\ X!Init /\ H!Init /\ J!Init
  /\ part # "services" => registered[Other] = None
  /\ part # "log" => created
  /\ part # "packets" => ~secure

ServicesStep ==
  /\ part = "services" /\ Next
  /\ UNCHANGED <<part, logVars, packetVars, stringVars, httpVars, jsonVars>>
LogStep ==
  /\ part = "log" /\ L!Next
  /\ UNCHANGED <<part, vars, packetVars, stringVars, httpVars, jsonVars>>
PacketStep ==
  /\ part = "packets" /\ P!Next
  /\ UNCHANGED <<part, vars, logVars, stringVars, httpVars, jsonVars>>
StringStep ==
  /\ part = "strings" /\ X!Next
  /\ UNCHANGED <<part, vars, logVars, packetVars, httpVars, jsonVars>>
HttpStep ==
  /\ part = "http" /\ H!Next
  /\ UNCHANGED <<part, vars, logVars, packetVars, stringVars, jsonVars>>
JsonStep ==
  /\ part = "json" /\ J!Next
  /\ UNCHANGED <<part, vars, logVars, packetVars, stringVars, httpVars>>

Acts(name, A) == part = name /\ A

\* The fairness is that of each part, in its behaviours.
MCSpec ==
  /\ MCInit
  /\ [][ServicesStep \/ LogStep \/ PacketStep \/ StringStep \/ HttpStep \/ JsonStep]_
       <<part, vars, logVars, packetVars, stringVars, httpVars, jsonVars>>
  /\ \A t \in Threads : WF_vars(Acts("services", Step(t)))
  /\ WF_logVars(Acts("log", L!Serving)) /\ WF_logVars(Acts("log", L!Collects))
  /\ WF_logVars(Acts("log", L!Finalizing))
  /\ \A t \in Loggers : WF_logVars(Acts("log", L!Client(t)))
  /\ WF_packetVars(Acts("packets", P!Return)) /\ SF_packetVars(Acts("packets", P!HandleWrite))
  /\ WF_httpVars(Acts("http", H!Return)) /\ WF_httpVars(Acts("http", H!Connects \/ H!Fails))
  /\ WF_httpVars(Acts("http", H!Fails \/ H!Eof))

----------------------------------------------------------------------------
\* No message is lost, doubled or out of its thread's order, and finalize()
\* returns when those logged before are written.
LogSafe == part = "log" => L!TypeOK /\ L!NoneLost /\ L!FinalizedWritten

\* A connection that was destroyed, be it in one of its callbacks, is left
\* alone, the packets it has exist, and it writes one at a time.
ConnectionSafe ==
  part = "packets" =>
    P!TypeOK /\ P!NoUseAfterDestroy /\ P!PacketsThere /\ P!OneAtATime /\ P!HandshakeAlone

\* A request ends once, but for those whose failure open() or close() tells
\* again; and it fails, since line ends never come to where they are waited for.
RequestsSafe == part = "http" => H!TypeOK /\ H!EndsOnce /\ H!NeverCompleted

\* The string packets that arrive are the lines of the stream, however it was
\* cut into reads, and a JSON text is accepted.
InputParsed ==
  /\ part = "strings" => X!TypeOK /\ X!TheLines
  /\ part = "json" => J!TypeOK /\ J!AcceptsJson /\ J!HoldsOpen

\* service() and finalize() return, a message gets into the log, the packets
\* behind the one that is written are written, and a request ends.
NothingHangs == Returns /\ (part = "log" => L!Written /\ L!Ends) /\ P!Written /\ H!Ends
=============================================================================
