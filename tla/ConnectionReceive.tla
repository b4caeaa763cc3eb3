------------------------- MODULE ConnectionReceive --------------------------
(***************************************************************************)
(* The receiving half of Connection::Connection: a chain of asynchronous   *)
(* reads on the network thread, each of which brings any number of bytes   *)
(* of the stream, and the extraction of the framed messages from them.     *)
(* The game may close the connection at any moment.                        *)
(*                                                                         *)
(* A byte is <<i, k>>, the k-th byte of the i-th frame of the peer.  The   *)
(* first two bytes of a frame hold the size of the rest, the next two its  *)
(* opcode, which is part of the message handed on.  A frame may be shorter *)
(* than that: its header is then read on into the frame behind it.         *)
(***************************************************************************)
EXTENDS ConnectionState, Sequences, Naturals

CONSTANTS
    Sizes,               \* values of MessageHeader::Size that peers send
    ReceiveBufferSizes,  \* values of m_AplicationReceiveBuferSize
    BufferMultiplier,    \* m_IncrementBufferSizeMultiplier
    MaxFrames            \* bound on the number of frames the peer sends

SizeBytes == 2           \* sizeof(MessageSize)
HeaderBytes == 4         \* sizeof(MessageHeader)

ASSUME ReceiveAssumption ==
    /\ Sizes \subseteq Nat
    /\ ReceiveBufferSizes \subseteq Nat \ {0}
    /\ BufferMultiplier \in Nat \ {0, 1}
    /\ MaxFrames \in Nat

VARIABLES
    frames,     \* the frames sent so far: their Size, and whether IsValidHeader accepts them
    stream,     \* bytes sent by the peer and not yet read
    phase,      \* where the chain of reads is
    asked,      \* how many bytes the outstanding read may bring
    buffer,     \* m_NetworkReceiveByteBuffer up to its write position
    readPos,    \* its read position
    capacity,   \* its size
    extracted,  \* m_ExtractedMessage
    delivered   \* messages handed to ISessionHook::ProcessReceivedMessage

receiveVars == <<frames, stream, phase, asked, buffer, readPos, capacity, extracted, delivered, closed>>

\* m_ExtractedMessage = nullptr
NoMessage == [size |-> 0, bytes |-> <<>>]

ActiveSize == Len(buffer) - readPos
NextByte == buffer[readPos + 1]
Active(n) == SubSeq(buffer, readPos + 1, readPos + n)

ReceiveInit ==
    /\ frames = <<>>
    /\ stream = <<>>
    /\ phase = "created"
    /\ asked = 0
    /\ buffer = <<>>
    /\ readPos = 0
    /\ capacity \in ReceiveBufferSizes
    /\ extracted = NoMessage
    /\ delivered = <<>>
    /\ closed = FALSE

-----------------------------------------------------------------------------
\* Connection::Start: when the hook refuses the socket nothing is ever read,
\* and the connection is not closed either.
Start ==
    /\ phase = "created"
    /\ phase' \in {"rearm", "refused"}
    /\ UNCHANGED <<frames, stream, asked, buffer, readPos, capacity, extracted, delivered, closed>>

\* A frame of the peer, and what IsValidHeader will say of its size and opcode.
PeerSends(size, valid) ==
    /\ Len(frames) < MaxFrames
    /\ frames' = Append(frames, [size |-> size, valid |-> valid])
    /\ stream' = stream \o [k \in 1 .. SizeBytes + size |-> <<Len(frames) + 1, k>>]
    /\ UNCHANGED <<phase, asked, buffer, readPos, capacity, extracted, delivered, closed>>

CloseWhileReceiving ==
    /\ ~closed
    /\ Close
    /\ UNCHANGED <<frames, stream, phase, asked, buffer, readPos, capacity, extracted, delivered>>

-----------------------------------------------------------------------------
(* AsyncReadSome.                                                          *)

ReadUnlessClosed ==
    /\ phase = "rearm"
    /\ phase' = IF closed THEN "stopped" ELSE "arm"
    /\ UNCHANGED <<frames, stream, asked, buffer, readPos, capacity, extracted, delivered, closed>>

\* Mutation: a full buffer does not grow.
ReadWithoutGrowth ==
    /\ phase = "arm"
    /\ buffer' = Active(ActiveSize)
    /\ readPos' = 0
    /\ asked' = capacity - Len(buffer')
    /\ phase' = "reading"
    /\ UNCHANGED <<frames, stream, capacity, extracted, delivered, closed>>

\* NormalizeBuffer moves the unread bytes to the front; a full buffer grows,
\* but the read that is started still asks for the space there was before.
AsyncReadSome ==
    /\ phase = "arm"
    /\ buffer' = Active(ActiveSize)
    /\ readPos' = 0
    /\ asked' = capacity - Len(buffer')
    /\ capacity' = IF asked' = 0 THEN capacity * BufferMultiplier ELSE capacity
    /\ phase' = "reading"
    /\ UNCHANGED <<frames, stream, extracted, delivered, closed>>

-----------------------------------------------------------------------------
(* HandleRead.                                                             *)

\* The read brings n bytes, which were written behind the write position.
ReadCompletes(n) ==
    /\ phase = "reading"
    /\ n <= asked /\ n <= Len(stream)
    /\ n = 0 <=> asked = 0
    /\ buffer' = buffer \o SubSeq(stream, 1, n)
    /\ stream' = SubSeq(stream, n + 1, Len(stream))
    /\ phase' = "extract"
    /\ UNCHANGED <<frames, asked, readPos, capacity, extracted, delivered, closed>>

\* The peer is gone.
ReadFails ==
    /\ phase = "reading"
    /\ Close
    /\ phase' = "stopped"
    /\ UNCHANGED <<frames, stream, asked, buffer, readPos, capacity, extracted, delivered>>

-----------------------------------------------------------------------------
(* ExtractMessages, one action per branch of its loop.                     *)

\* Nothing is left, or less than a header.
ExtractNothing ==
    /\ phase = "extract"
    /\ \/ ActiveSize = 0
       \/ extracted = NoMessage /\ ActiveSize < HeaderBytes
    /\ phase' = "rearm"
    /\ UNCHANGED <<frames, stream, asked, buffer, readPos, capacity, extracted, delivered, closed>>

HasHeader == phase = "extract" /\ extracted = NoMessage /\ ActiveSize >= HeaderBytes

Header == frames[NextByte[1]]

\* Mutation: the read position passes the opcode too.
ExtractWholeHeader ==
    /\ HasHeader /\ (Header.valid => Header.size > 0)
    /\ readPos' = readPos + HeaderBytes
    /\ IF Header.valid
       THEN /\ extracted' = [size |-> Header.size, bytes |-> <<>>]
            /\ UNCHANGED <<phase, closed>>
       ELSE /\ Close
            /\ phase' = "rearm"
            /\ UNCHANGED extracted
    /\ UNCHANGED <<frames, stream, asked, buffer, capacity, delivered>>

\* The read position passes the size only: the opcode belongs to the message.
ExtractHeader ==
    /\ HasHeader /\ (Header.valid => Header.size > 0)
    /\ readPos' = readPos + SizeBytes
    /\ IF Header.valid
       THEN /\ extracted' = [size |-> Header.size, bytes |-> <<>>]
            /\ UNCHANGED <<phase, closed>>
       ELSE /\ Close
            /\ phase' = "rearm"
            /\ UNCHANGED extracted
    /\ UNCHANGED <<frames, stream, asked, buffer, capacity, delivered>>

\* Of a message without bytes nothing is missing when its header is read.
ExtractEmptyMessage ==
    /\ HasHeader /\ Header.valid /\ Header.size = 0
    /\ delivered' = Append(delivered, <<>>)
    /\ readPos' = readPos + SizeBytes
    /\ UNCHANGED <<frames, stream, phase, asked, buffer, capacity, extracted, closed>>

Missing == extracted.size - Len(extracted.bytes)

\* The rest of the message is still to come.
ExtractPart ==
    /\ phase = "extract" /\ extracted # NoMessage
    /\ ActiveSize > 0 /\ ActiveSize < Missing
    /\ extracted' = [extracted EXCEPT !.bytes = @ \o Active(ActiveSize)]
    /\ readPos' = readPos + ActiveSize
    /\ phase' = "rearm"
    /\ UNCHANGED <<frames, stream, asked, buffer, capacity, delivered, closed>>

ExtractMessage ==
    /\ phase = "extract" /\ extracted # NoMessage
    /\ ActiveSize > 0 /\ ActiveSize >= Missing
    /\ delivered' = Append(delivered, extracted.bytes \o Active(Missing))
    /\ readPos' = readPos + Missing
    /\ extracted' = NoMessage
    /\ UNCHANGED <<frames, stream, phase, asked, buffer, capacity, closed>>

-----------------------------------------------------------------------------
HandleRead ==
    \/ ExtractNothing
    \/ ExtractHeader
    \/ ExtractEmptyMessage
    \/ ExtractPart
    \/ ExtractMessage
    \/ ReadUnlessClosed
    \/ AsyncReadSome

Arrival == \E n \in 0 .. Len(stream) : ReadCompletes(n)

ReceiveNext ==
    \/ Start
    \/ \E size \in Sizes, valid \in BOOLEAN : PeerSends(size, valid)
    \/ CloseWhileReceiving
    \/ Arrival
    \/ ReadFails
    \/ HandleRead

ReceiveSpec == ReceiveInit /\ [][ReceiveNext]_receiveVars

\* The network thread starts what it was given and runs its handlers, and the
\* socket delivers what was sent.
ReceiveFairness ==
    WF_receiveVars(Start) /\ WF_receiveVars(HandleRead) /\ WF_receiveVars(Arrival)

FairReceiveSpec == ReceiveSpec /\ ReceiveFairness

-----------------------------------------------------------------------------
Byte == (1 .. MaxFrames) \X Nat

\* No copy leaves its buffer: a read fits behind the write position, and a
\* message is never longer than its header said (Connection.h:159, 225, 232).
ReceiveTypeOK ==
    /\ frames \in Seq([size : Sizes, valid : BOOLEAN])
    /\ stream \in Seq(Byte)
    /\ phase \in {"created", "refused", "rearm", "arm", "reading", "extract", "stopped"}
    /\ asked \in Nat
    /\ buffer \in Seq(Byte)
    /\ Len(buffer) <= capacity
    /\ phase = "reading" => Len(buffer) + asked <= capacity
    /\ readPos \in 0 .. Len(buffer)
    /\ capacity \in Nat \ {0}
    /\ extracted \in [size : Sizes \cup {0}, bytes : Seq(Byte)]
    /\ Len(extracted.bytes) <= extracted.size
    /\ delivered \in Seq(Seq(Byte))
    /\ closed \in BOOLEAN

Body(i) == [k \in 1 .. frames[i].size |-> <<i, SizeBytes + k>>]

\* However the stream is cut into reads, the messages handed on are the bodies
\* of the peer's frames, in order, whole and without a gap, and none from the
\* first rejected header on (Connection.h ExtractMessages).
DeliveredAreTheFrames ==
    /\ Len(delivered) <= Len(frames)
    /\ \A i \in 1 .. Len(delivered) : delivered[i] = Body(i) /\ frames[i].valid

\* A header is looked at once four bytes are there, which of a shorter frame
\* takes the next frame (Connection.h:206).
Accepted(i) ==
    /\ Len(frames) >= i /\ \A j \in 1 .. i : frames[j].valid
    /\ SizeBytes + frames[i].size >= HeaderBytes \/ Len(frames) > i

\* A frame sent behind valid frames only is handed on, a frame shorter than a
\* header once another follows it, unless the connection is closed before or
\* was refused by its hook when it started (Connection.h:75).
EventuallyDelivered ==
    \A i \in 1 .. MaxFrames :
        Accepted(i) ~> (Len(delivered) >= i \/ closed \/ phase = "refused")
=============================================================================
