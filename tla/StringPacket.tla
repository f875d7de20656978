---------------------------- MODULE StringPacket ----------------------------
(***************************************************************************)
(* How packet_connection::handle_read() cuts what it reads into string     *)
(* packets: basic_string_packet::take_some(), called until it says that    *)
(* there is no packet.  A stream comes in reads of any size.               *)
(***************************************************************************)
EXTENDS Integers, Sequences, SequencesExt, FiniteSets

CONSTANTS Letters, CR, LF,
          MaxStream, MaxRead \* bounds: characters in all, and in a read

StringPacketAssumption ==
  CR # LF /\ {CR, LF} \cap Letters = {} /\ MaxStream \in Nat /\ MaxRead \in Nat

VARIABLES
  buffer,    \* what of the read has not been taken
  packet,    \* the contents of iReceivePacket
  delivered, \* the packets that have arrived
  received,  \* history: all that was read
  joined     \* history: a line that a CR ended went on with the next read
vars == <<buffer, packet, delivered, received, joined>>

Characters == Letters \cup {CR, LF}

TypeOK ==
  /\ buffer \in Seq(Characters) /\ Len(buffer) <= MaxRead
  /\ packet \in Seq(Letters) /\ delivered \in Seq(Seq(Letters)) /\ joined \in BOOLEAN
  /\ received \in Seq(Characters) /\ Len(received) <= MaxStream
  /\ <<>> \notin ToSet(delivered)

----------------------------------------------------------------------------
IsDelimiter(c) == c \in {CR, LF}

\* How many of s are the delimiters at its beginning, up to the one that
\* terminates
Skipped(s) ==
  LET rest == {i \in 1 .. Len(s) : ~IsDelimiter(s[i])}
      ends == {i \in 1 .. Len(s) : s[i] = LF /\ \A j \in rest : i < j} IN
  IF ends # {} THEN CHOOSE i \in ends : \A j \in ends : i <= j
  ELSE IF rest # {} THEN (CHOOSE i \in rest : \A j \in rest : i <= j) - 1
  ELSE Len(s)

Terminated(s) == LET n == Skipped(s) IN n > 0 /\ s[n] = LF

\* How many of s come before the first delimiter
Content(s) ==
  LET ends == {i \in 1 .. Len(s) : IsDelimiter(s[i])} IN
  IF ends = {} THEN Len(s) ELSE (CHOOSE i \in ends : \A j \in ends : i <= j) - 1

Without(s, n) == SubSeq(s, n + 1, Len(s))

\* Whether the n characters that s begins with end the packet
Whole(s, n) == Terminated(Without(s, n)) \/ n < Len(s)

Arrived(p) == IF p = <<>> THEN delivered ELSE Append(delivered, p)

\* take_some() of what is a packet of its own, or the end of one: ...
TakeEnd ==
  /\ buffer # <<>> /\ Terminated(buffer)
  /\ buffer' = Without(buffer, Skipped(buffer))
  /\ delivered' = Arrived(packet)
  /\ packet' = <<>>
  /\ UNCHANGED <<received, joined>>

Taken(s) == packet \o s

\* ... and of what has content, which may end the packet or not.
TakeContent ==
  /\ buffer # <<>> /\ ~Terminated(buffer)
  /\ LET s == Without(buffer, Skipped(buffer))
         n == Content(s) IN
     /\ joined' = (joined \/ (packet # <<>> /\ n > 0 /\ received[Len(received) - Len(s)] = CR))
     /\ IF n > 0 /\ Whole(s, n)
        THEN /\ delivered' = Arrived(Taken(SubSeq(s, 1, n))) /\ packet' = <<>>
             /\ buffer' = Without(s, n + Skipped(Without(s, n)))
        ELSE packet' = Taken(SubSeq(s, 1, n)) /\ buffer' = <<>> /\ UNCHANGED delivered
  /\ UNCHANGED received

\* async_read_some() completes.
Read(s) ==
  /\ buffer = <<>> /\ s # <<>> /\ Len(received) + Len(s) <= MaxStream
  /\ buffer' = s /\ received' = received \o s
  /\ UNCHANGED <<packet, delivered, joined>>

Init == buffer = <<>> /\ packet = <<>> /\ delivered = <<>> /\ received = <<>> /\ joined = FALSE

Next == TakeEnd \/ TakeContent \/ \E s \in BoundedSeq(Characters, MaxRead) : Read(s)

Spec == Init /\ [][Next]_vars

----------------------------------------------------------------------------
\* The lines of a stream: what stands between delimiters, and is followed
\* by one
Lines(s) ==
  LET ends == {i \in 2 .. Len(s) : IsDelimiter(s[i]) /\ ~IsDelimiter(s[i - 1])}
      begin(i) == CHOOSE j \in 1 .. i - 1 : /\ j = 1 \/ IsDelimiter(s[j - 1])
                                           /\ \A k \in j .. i - 1 : ~IsDelimiter(s[k])
  IN [n \in 1 .. Cardinality(ends) |->
        LET i == CHOOSE i \in ends : Cardinality({k \in ends : k <= i}) = n IN
        SubSeq(s, begin(i), i - 1)]

\* The packets that arrive are the lines of the stream, however it was cut
\* into reads; of a line whose CR came in a read of its own the packet may
\* wait for the LF.  When none comes, the line is joined with the next.
TheLines ==
  buffer = <<>> /\ ~joined =>
    Lines(received) \in {delivered, delivered \o <<packet>>}
=============================================================================
