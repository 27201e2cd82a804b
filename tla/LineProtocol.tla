---------------------------- MODULE LineProtocol ----------------------------
(***************************************************************************)
(* txstratum/utils.py, LineProtocol: the bytes of a connection come in     *)
(* chunks cut anywhere, and its lines are handed on one by one.  A line    *)
(* that is too long, or whose handler closes the transport, is the last    *)
(* thing that is looked at.                                                *)
(***************************************************************************)
EXTENDS Naturals, Sequences, SequencesExt, FiniteSetsExt

CONSTANTS Bytes, Delimiter,
          Closing,      \* a line with this byte makes its handler close
          MaxLength,    \* MAX_LENGTH
          StreamLength  \* bound: bytes that are sent

ASSUME LineAssumption ==
    /\ {Delimiter, Closing} \subseteq Bytes /\ Delimiter # Closing
    /\ MaxLength \in Nat /\ StreamLength \in Nat

VARIABLES
    stream,     \* what the peer sends
    position,   \* bytes received so far
    buffer,     \* _buffer
    received,   \* lines handed to line_received
    closing     \* transport.is_closing()

vars == <<stream, position, buffer, received, closing>>

Init ==
    /\ stream \in [1..StreamLength -> Bytes]
    /\ position = 0
    /\ buffer = <<>>
    /\ received = <<>>
    /\ closing = FALSE
-----------------------------------------------------------------------------
\* bytes.split: the parts of s between delimiters, the last one without.
Split(s) ==
    LET parts[i \in 0..Len(s)] ==
          IF i = 0 THEN << <<>> >>
          ELSE LET before == parts[i - 1] IN
               IF s[i] = Delimiter THEN Append(before, <<>>)
               ELSE [before EXCEPT ![Len(before)] = Append(@, s[i])]
    IN  parts[Len(s)]

Closes(line) == Contains(line, Closing)

\* Mutant of Handled: the lines of the chunk go on after one that closes.
HandledOn(lines) ==
    LET n == Max({k \in 0..Len(lines) : \A i \in 1..k : Len(lines[i]) <= MaxLength})
    IN  SubSeq(lines, 1, n)

\* The lines of one chunk that are handed on: those before the first that is
\* too long, up to the first whose handler closes.
Handled(lines) ==
    LET n == Max({k \in 0..Len(lines) :
                   /\ \A i \in 1..k : Len(lines[i]) <= MaxLength
                   /\ \A i \in 1..(k - 1) : ~Closes(lines[i])})
    IN  SubSeq(lines, 1, n)

\* Mutant of DataReceived: what is left of the last chunk is lost.
DataReceivedAfresh(n) ==
    LET parts == Split(SubSeq(stream, position + 1, position + n))
        lines == Front(parts)
        handled == Handled(lines)
    IN
    /\ ~closing
    /\ position' = position + n
    /\ buffer' = Last(parts)
    /\ received' = received \o handled
    /\ closing' = (\/ handled # lines
                   \/ handled # <<>> /\ Closes(Last(handled))
                   \/ Len(buffer') > MaxLength)
    /\ UNCHANGED stream

\* data_received, with the next n bytes.  A transport that closes reads no
\* more.
DataReceived(n) ==
    LET parts == Split(buffer \o SubSeq(stream, position + 1, position + n))
        lines == Front(parts)
        handled == Handled(lines)
    IN
    /\ ~closing
    /\ position' = position + n
    /\ buffer' = Last(parts)
    /\ received' = received \o handled
    /\ closing' = (\/ handled # lines
                   \/ handled # <<>> /\ Closes(Last(handled))
                   \/ Len(buffer') > MaxLength)
    /\ UNCHANGED stream

Next == \E n \in 1..(StreamLength - position) : DataReceived(n)

Spec == Init /\ [][Next]_vars
-----------------------------------------------------------------------------
(* Properties.                                                             *)

\* The state space.
TypeOK ==
    /\ stream \in [1..StreamLength -> Bytes]
    /\ position \in 0..StreamLength
    /\ buffer \in Seq(Bytes)
    /\ received \in Seq(Seq(Bytes))
    /\ closing \in BOOLEAN

Sent == SubSeq(stream, 1, position)

\* Lines as they are sent, each with its delimiter.
Joined(lines) ==
    LET upTo[i \in 0..Len(lines)] ==
          IF i = 0 THEN <<>> ELSE upTo[i - 1] \o Append(lines[i], Delimiter)
    IN  upTo[Len(lines)]

\* Nothing is lost, repeated, merged or cut, wherever the chunks are cut: the
\* lines handed on, each with its delimiter, and the buffer are the stream.
LinesAreTheStream ==
    /\ IsPrefix(Joined(received), Sent)
    /\ ~closing => Joined(received) \o buffer = Sent
    /\ \A i \in DOMAIN received : ~Contains(received[i], Delimiter)
    /\ ~closing => ~Contains(buffer, Delimiter)

\* A connection closes for the same line however the stream is cut, and
\* nothing is handed on after that: the line handed on last, or the one after
\* it, which is too long.  It closes in time: the buffer of an open connection
\* is never longer than a line may be.
ClosesWhereItMust ==
    /\ ~closing => Len(buffer) <= MaxLength
    /\ \A i \in DOMAIN received : Closes(received[i]) => i = Len(received) /\ closing
    /\ closing => \/ received # <<>> /\ Closes(Last(received))
                  \/ \A i \in 1..(MaxLength + 1) :
                       /\ Len(Joined(received)) + i <= position
                       /\ stream[Len(Joined(received)) + i] # Delimiter
=============================================================================
