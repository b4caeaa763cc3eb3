-------------------------- MODULE ConnectionProofs --------------------------
(***************************************************************************)
(* Both halves of a Connection keep the bytes in their order: what is sent *)
(* reaches the wire without a gap, whatever parts of it the socket takes,  *)
(* and what is received is cut into the frames of the peer, whatever parts *)
(* of them a read brings, for any sizes of messages and buffers.           *)
(***************************************************************************)
EXTENDS ConnectionSend, ConnectionReceive, SequenceTheorems, WellFoundedInduction, TLAPS

-----------------------------------------------------------------------------
(* Receiving: the types.                                                   *)

Frames == [size : Sizes, valid : BOOLEAN]

\* What was read and not extracted, then what was not read.
UnreadLen == Len(buffer) - readPos + Len(stream)
UnreadAt(j) ==
    IF j <= Len(buffer) - readPos THEN buffer[readPos + j] ELSE stream[j - (Len(buffer) - readPos)]

LEMMA SizesAre == \A size \in Sizes : size \in Nat
BY ReceiveAssumption

LEMMA ReceiveNumbers ==
    ASSUME ReceiveTypeOK
    PROVE  /\ Len(buffer) \in Nat /\ Len(stream) \in Nat /\ Len(frames) \in Nat /\ Len(delivered) \in Nat
           /\ readPos \in Nat /\ readPos <= Len(buffer) /\ ActiveSize \in Nat /\ UnreadLen \in Nat
           /\ capacity \in Nat \ {0} /\ asked \in Nat
           /\ extracted.size \in Nat /\ Len(extracted.bytes) \in Nat /\ extracted.bytes \in Seq(Byte)
           /\ \A i \in 1 .. Len(frames) : frames[i] \in Frames /\ frames[i].size \in Nat
                                          /\ frames[i].size \in Sizes
<1>1. Len(buffer) \in Nat /\ Len(stream) \in Nat /\ Len(frames) \in Nat /\ Len(delivered) \in Nat
  BY LenProperties DEF ReceiveTypeOK
<1>2. readPos \in Nat /\ readPos <= Len(buffer) /\ ActiveSize \in Nat /\ UnreadLen \in Nat
  BY <1>1 DEF ReceiveTypeOK, ActiveSize, UnreadLen
<1>3. extracted.size \in Nat /\ extracted.bytes \in Seq(Byte)
  BY SizesAre DEF ReceiveTypeOK
<1>4. Len(extracted.bytes) \in Nat
  BY <1>3, LenProperties
<1>5. ASSUME NEW i \in 1 .. Len(frames)
      PROVE  frames[i] \in Frames /\ frames[i].size \in Nat /\ frames[i].size \in Sizes
  <2>1. frames[i] \in Frames
    BY ElementOfSeq DEF ReceiveTypeOK, Frames
  <2>2. frames[i].size \in Sizes
    BY <2>1 DEF Frames
  <2> QED BY <2>1, <2>2, SizesAre
<1> QED BY <1>1, <1>2, <1>3, <1>4, <1>5 DEF ReceiveTypeOK

LEMMA UnreadBytes ==
    ASSUME ReceiveTypeOK, NEW j \in 1 .. UnreadLen
    PROVE  UnreadAt(j) \in Byte
<1>1. buffer \in Seq(Byte) /\ stream \in Seq(Byte)
  BY DEF ReceiveTypeOK
<1>2. CASE j <= Len(buffer) - readPos
  <2>1. readPos + j \in 1 .. Len(buffer)
    BY <1>2, ReceiveNumbers DEF UnreadLen
  <2> QED BY <1>1, <1>2, <2>1, ElementOfSeq DEF UnreadAt
<1>3. CASE ~(j <= Len(buffer) - readPos)
  <2>1. j - (Len(buffer) - readPos) \in 1 .. Len(stream)
    BY <1>3, ReceiveNumbers DEF UnreadLen
  <2> QED BY <1>1, <1>3, <2>1, ElementOfSeq DEF UnreadAt
<1> QED BY <1>2, <1>3

\* The first bytes that were read and not extracted.
LEMMA ActiveBytes ==
    ASSUME ReceiveTypeOK, NEW n \in 0 .. ActiveSize
    PROVE  /\ Active(n) \in Seq(Byte) /\ Len(Active(n)) = n
           /\ \A j \in 1 .. n : Active(n)[j] = UnreadAt(j) /\ j \in 1 .. UnreadLen
<1>0. /\ buffer \in Seq(Byte) /\ n \in Nat /\ readPos \in Nat
      /\ readPos + 1 \in Int /\ readPos + n \in Int
  BY ReceiveNumbers DEF ReceiveTypeOK
<1>1. \A i \in readPos + 1 .. readPos + n : buffer[i] \in Byte
  <2> TAKE i \in readPos + 1 .. readPos + n
  <2>1. i \in 1 .. Len(buffer)
    BY <1>0, ReceiveNumbers DEF ActiveSize
  <2> QED BY <1>0, <2>1, ElementOfSeq
<1> DEFINE from == readPos + 1
           to == readPos + n
           s == SubSeq(buffer, from, to)
<1>2. /\ s \in Seq(Byte)
      /\ Len(s) = IF from <= to THEN to - from + 1 ELSE 0
      /\ \A i \in 1 .. to - from + 1 : s[i] = buffer[from + i - 1]
  <2>1. from \in Int /\ to \in Int /\ \A i \in from .. to : buffer[i] \in Byte
    BY <1>0, <1>1
  <2> HIDE DEF from, to
  <2> QED BY <2>1, SubSeqProperties
<1>3. s = Active(n)
  BY DEF Active
<1> HIDE DEF s
<1>4. Len(s) = n
  BY <1>0, <1>2
<1>5. ASSUME NEW j \in 1 .. n PROVE s[j] = UnreadAt(j) /\ j \in 1 .. UnreadLen
  <2>1. j \in 1 .. to - from + 1 /\ from + j - 1 = readPos + j
    BY <1>0
  <2>2. s[j] = buffer[readPos + j]
    BY <1>2, <2>1
  <2>3. j <= Len(buffer) - readPos
    BY <1>0, ReceiveNumbers DEF ActiveSize
  <2> QED BY <1>0, <2>2, <2>3, ReceiveNumbers DEF UnreadAt, UnreadLen
<1> QED BY <1>2, <1>3, <1>4, <1>5

LEMMA ReceiveTypesInitially == ReceiveInit => ReceiveTypeOK
<1> SUFFICES ASSUME ReceiveInit PROVE ReceiveTypeOK
  OBVIOUS
<1>1. /\ frames \in Seq([size : Sizes, valid : BOOLEAN]) /\ stream \in Seq(Byte)
      /\ buffer \in Seq(Byte) /\ Len(buffer) = 0 /\ delivered \in Seq(Seq(Byte))
  BY EmptySeq DEF ReceiveInit
<1>2. extracted \in [size : Sizes \cup {0}, bytes : Seq(Byte)] /\ Len(extracted.bytes) <= extracted.size
  <2>1. <<>> \in Seq(Byte) /\ Len(<<>>) = 0
    BY EmptySeq
  <2>2. extracted = [size |-> 0, bytes |-> <<>>]
    BY DEF ReceiveInit, NoMessage
  <2> QED BY <2>1, <2>2
<1>3. capacity \in Nat \ {0}
  BY ReceiveAssumption DEF ReceiveInit
<1>4. phase = "created" /\ asked = 0 /\ readPos = 0 /\ closed = FALSE
  BY DEF ReceiveInit
<1>5. readPos \in 0 .. Len(buffer) /\ Len(buffer) <= capacity
  BY <1>1, <1>3, <1>4
<1> QED BY <1>1, <1>2, <1>3, <1>4, <1>5 DEF ReceiveTypeOK

\* Reading leaves what is unread as it is, a byte behind the other.
LEMMA ReadUnread ==
    ASSUME ReceiveTypeOK, NEW n \in 0 .. Len(stream), ReadCompletes(n)
    PROVE  /\ buffer' \in Seq(Byte) /\ stream' \in Seq(Byte)
           /\ Len(buffer') = Len(buffer) + n
           /\ UnreadLen' = UnreadLen /\ \A j \in 1 .. UnreadLen : UnreadAt(j)' = UnreadAt(j)
<1> DEFINE first == SubSeq(stream, 1, n)
           rest == SubSeq(stream, n + 1, Len(stream))
<1>0. /\ buffer \in Seq(Byte) /\ stream \in Seq(Byte) /\ Len(stream) \in Nat /\ n \in Nat /\ n <= Len(stream)
      /\ Len(buffer) \in Nat /\ readPos \in Nat /\ readPos <= Len(buffer) /\ readPos' = readPos
      /\ buffer' = buffer \o first /\ stream' = rest
  BY ReceiveNumbers DEF ReceiveTypeOK, ReadCompletes
<1>1. first \in Seq(Byte) /\ Len(first) = n /\ \A i \in 1 .. n : first[i] = stream[i]
  <2>1. 1 \in Int /\ n \in Int /\ \A i \in 1 .. n : stream[i] \in Byte
    BY <1>0, ElementOfSeq
  <2>2. /\ first \in Seq(Byte)
        /\ Len(first) = IF 1 <= n THEN n - 1 + 1 ELSE 0
        /\ \A i \in 1 .. n - 1 + 1 : first[i] = stream[1 + i - 1]
    BY <2>1, SubSeqProperties
  <2> HIDE DEF first
  <2>3. \A i \in 1 .. n : i \in 1 .. n - 1 + 1 /\ 1 + i - 1 = i
    BY <1>0
  <2>4. Len(first) = n
    BY <1>0, <2>2
  <2> QED BY <2>2, <2>3, <2>4
<1>2. /\ rest \in Seq(Byte) /\ Len(rest) = Len(stream) - n
      /\ \A i \in 1 .. Len(stream) - n : rest[i] = stream[n + i]
  <2>1. n + 1 \in Int /\ Len(stream) \in Int /\ \A i \in n + 1 .. Len(stream) : stream[i] \in Byte
    BY <1>0, ElementOfSeq
  <2>2. /\ rest \in Seq(Byte)
        /\ Len(rest) = IF n + 1 <= Len(stream) THEN Len(stream) - (n + 1) + 1 ELSE 0
        /\ \A i \in 1 .. Len(stream) - (n + 1) + 1 : rest[i] = stream[n + 1 + i - 1]
    BY <2>1, SubSeqProperties
  <2> HIDE DEF rest
  <2>3. \A i \in 1 .. Len(stream) - n : i \in 1 .. Len(stream) - (n + 1) + 1 /\ n + 1 + i - 1 = n + i
    BY <1>0
  <2>4. Len(rest) = Len(stream) - n
    BY <1>0, <2>2
  <2> QED BY <2>2, <2>3, <2>4
<1> HIDE DEF first, rest
<1>3. /\ buffer' \in Seq(Byte) /\ Len(buffer') = Len(buffer) + n
      /\ \A i \in 1 .. Len(buffer) + n : buffer'[i] = IF i <= Len(buffer) THEN buffer[i] ELSE first[i - Len(buffer)]
  BY <1>0, <1>1, ConcatProperties
<1>4. UnreadLen' = UnreadLen
  BY <1>0, <1>2, <1>3 DEF UnreadLen
<1>5. ASSUME NEW j \in 1 .. UnreadLen PROVE UnreadAt(j)' = UnreadAt(j)
  <2> DEFINE active == Len(buffer) - readPos
  <2>1. CASE j <= active
    <3>1. readPos + j \in 1 .. Len(buffer) + n /\ readPos + j <= Len(buffer) /\ j <= Len(buffer') - readPos'
      BY <1>0, <1>3, <2>1
    <3> QED BY <1>0, <1>3, <2>1, <3>1 DEF UnreadAt
  <2>2. CASE active < j /\ j <= active + n
    <3>1. /\ readPos + j \in 1 .. Len(buffer) + n /\ ~(readPos + j <= Len(buffer)) /\ j <= Len(buffer') - readPos'
          /\ j - active \in 1 .. n /\ readPos + j - Len(buffer) = j - active /\ ~(j <= active)
      BY <1>0, <1>3, <2>2
    <3>2. buffer'[readPos + j] = stream[j - active]
      <4>1. buffer'[readPos + j] = first[j - active]
        BY <1>0, <1>3, <3>1
      <4>2. first[j - active] = stream[j - active]
        BY <1>1, <3>1
      <4> QED BY <3>1, <4>1, <4>2
    <3> QED BY <1>0, <3>1, <3>2 DEF UnreadAt
  <2>3. CASE active + n < j
    <3>1. /\ ~(j <= Len(buffer') - readPos') /\ ~(j <= active)
          /\ j - (Len(buffer') - readPos') \in 1 .. Len(stream) - n
          /\ n + (j - (Len(buffer') - readPos')) = j - active
      BY <1>0, <1>3, <2>3 DEF UnreadLen
    <3>2. stream'[j - (Len(buffer') - readPos')] = stream[j - active]
      BY <1>0, <1>2, <3>1
    <3> QED BY <3>1, <3>2 DEF UnreadAt
  <2> QED BY <1>0, <2>1, <2>2, <2>3
<1> QED BY <1>0, <1>2, <1>3, <1>4, <1>5

\* AsyncReadSome moves what is unread to the front of the buffer.
LEMMA NormalizeUnread ==
    ASSUME ReceiveTypeOK, AsyncReadSome
    PROVE  /\ buffer' \in Seq(Byte) /\ Len(buffer') = ActiveSize
           /\ UnreadLen' = UnreadLen /\ \A j \in 1 .. UnreadLen : UnreadAt(j)' = UnreadAt(j)
<1>0. /\ buffer' = Active(ActiveSize) /\ readPos' = 0 /\ stream' = stream
      /\ Len(buffer) \in Nat /\ Len(stream) \in Nat /\ readPos \in Nat /\ readPos <= Len(buffer)
      /\ ActiveSize = Len(buffer) - readPos
  BY ReceiveNumbers DEF AsyncReadSome, ActiveSize
<1>1. ActiveSize \in 0 .. ActiveSize
  BY <1>0
<1>2. /\ buffer' \in Seq(Byte) /\ Len(buffer') = ActiveSize
      /\ \A j \in 1 .. ActiveSize : buffer'[j] = UnreadAt(j)
  BY <1>0, <1>1, ActiveBytes
<1>3. UnreadLen' = UnreadLen
  <2>1. UnreadLen' = Len(buffer') - readPos' + Len(stream')
    BY DEF UnreadLen
  <2>2. UnreadLen' = ActiveSize - 0 + Len(stream)
    BY <1>0, <1>2, <2>1
  <2> QED BY <1>0, <2>2 DEF UnreadLen
<1>4. ASSUME NEW j \in 1 .. UnreadLen PROVE UnreadAt(j)' = UnreadAt(j)
  <2>1. CASE j <= ActiveSize
    <3>1. j \in 1 .. ActiveSize /\ j <= Len(buffer') - readPos' /\ readPos' + j = j
      BY <1>0, <1>2, <2>1
    <3> QED BY <1>2, <3>1 DEF UnreadAt
  <2>2. CASE ~(j <= ActiveSize)
    <3>1. ~(j <= Len(buffer') - readPos') /\ Len(buffer') - readPos' = Len(buffer) - readPos
      BY <1>0, <1>2, <2>2
    <3> QED BY <1>0, <2>2, <3>1 DEF UnreadAt
  <2> QED BY <2>1, <2>2
<1> QED BY <1>2, <1>3, <1>4

\* Extracting passes the first of the unread bytes.
LEMMA ExtractUnread ==
    ASSUME ReceiveTypeOK, NEW n \in 0 .. ActiveSize, readPos' = readPos + n, UNCHANGED <<buffer, stream>>
    PROVE  /\ readPos' \in 0 .. Len(buffer) /\ n <= UnreadLen
           /\ UnreadLen' = UnreadLen - n /\ \A j \in 1 .. UnreadLen - n : UnreadAt(j)' = UnreadAt(j + n)
<1>0. /\ Len(buffer) \in Nat /\ Len(stream) \in Nat /\ readPos \in Nat /\ readPos <= Len(buffer)
      /\ ActiveSize = Len(buffer) - readPos /\ n \in Nat /\ n <= ActiveSize
  BY ReceiveNumbers DEF ActiveSize
<1>1. readPos' \in 0 .. Len(buffer) /\ UnreadLen' = UnreadLen - n /\ n <= UnreadLen /\ UnreadLen \in Nat
  BY <1>0 DEF UnreadLen
<1>2. ASSUME NEW j \in 1 .. UnreadLen - n PROVE UnreadAt(j)' = UnreadAt(j + n)
  <2>1. UnreadAt(j)' = IF j <= Len(buffer) - (readPos + n)
                       THEN buffer[readPos + n + j] ELSE stream[j - (Len(buffer) - (readPos + n))]
    BY DEF UnreadAt
  <2>2. CASE j <= Len(buffer) - (readPos + n)
    <3>1. j + n <= Len(buffer) - readPos /\ readPos + n + j = readPos + (j + n)
      BY <1>0, <1>1, <2>2
    <3> QED BY <2>1, <2>2, <3>1 DEF UnreadAt
  <2>3. CASE ~(j <= Len(buffer) - (readPos + n))
    <3>1. /\ ~(j + n <= Len(buffer) - readPos)
          /\ j - (Len(buffer) - (readPos + n)) = j + n - (Len(buffer) - readPos)
      BY <1>0, <1>1, <2>3
    <3> QED BY <1>0, <2>1, <2>3, <3>1 DEF UnreadAt
  <2> QED BY <2>2, <2>3
<1> QED BY <1>1, <1>2

\* Of U bytes the first a are in the buffer, and n come behind them all.
LEMMA PlacesBehind ==
    ASSUME NEW U \in Nat, NEW a \in Nat, NEW s \in Nat, U = a + s, NEW n \in Nat, NEW j \in U + 1 .. U + n
    PROVE  /\ j - U \in 1 .. n
           /\ j - a \in 1 .. s + n /\ ~(j - a <= s) /\ j - a - s = j - U /\ ~(j <= a)
OBVIOUS

\* The peer's next frame comes behind what is unread.
LEMMA SendUnread ==
    ASSUME ReceiveTypeOK, NEW size \in Sizes, NEW valid \in BOOLEAN, PeerSends(size, valid)
    PROVE  /\ stream' \in Seq(Byte) /\ frames' \in Seq(Frames) /\ Len(frames') = Len(frames) + 1
           /\ \A i \in 1 .. Len(frames) : frames'[i] = frames[i]
           /\ frames'[Len(frames) + 1] = [size |-> size, valid |-> valid]
           /\ UnreadLen' = UnreadLen + SizeBytes + size
           /\ \A j \in 1 .. UnreadLen : UnreadAt(j)' = UnreadAt(j)
           /\ \A j \in UnreadLen + 1 .. UnreadLen + SizeBytes + size : UnreadAt(j)' = <<Len(frames) + 1, j - UnreadLen>>
<1>0. /\ Len(buffer) \in Nat /\ Len(stream) \in Nat /\ readPos \in Nat /\ readPos <= Len(buffer)
      /\ Len(frames) \in Nat /\ frames \in Seq(Frames) /\ stream \in Seq(Byte)
      /\ UNCHANGED <<buffer, readPos>> /\ Len(frames) < MaxFrames
  BY ReceiveNumbers DEF ReceiveTypeOK, PeerSends, Frames
<1> DEFINE frame == [size |-> size, valid |-> valid]
           n == SizeBytes + size
           bytes == [k \in 1 .. n |-> <<Len(frames) + 1, k>>]
<1>1. /\ frames' \in Seq(Frames) /\ Len(frames') = Len(frames) + 1
      /\ \A i \in 1 .. Len(frames) : frames'[i] = frames[i]
      /\ frames'[Len(frames) + 1] = frame
  <2>1. frame \in Frames /\ frames' = Append(frames, frame)
    BY DEF Frames, PeerSends
  <2> HIDE DEF frame
  <2> QED BY <1>0, <2>1, AppendProperties
<1>2. bytes \in Seq(Byte) /\ Len(bytes) = n /\ n \in Nat /\ \A k \in 1 .. n : bytes[k] = <<Len(frames) + 1, k>>
  <2>1. n \in Nat
    BY SizesAre DEF SizeBytes
  <2>2. Len(frames) + 1 \in 1 .. MaxFrames
    BY <1>0, ReceiveAssumption
  <2>3. \A k \in 1 .. n : <<Len(frames) + 1, k>> \in Byte
    BY <2>1, <2>2 DEF Byte
  <2> HIDE DEF n
  <2>4. bytes \in Seq(Byte) /\ Len(bytes) = n
    BY <2>1, <2>3
  <2> QED BY <2>1, <2>4
<1>3. stream' = stream \o bytes
  BY DEF PeerSends
<1> HIDE DEF bytes
<1>4. /\ stream' \in Seq(Byte) /\ Len(stream') = Len(stream) + n
      /\ \A i \in 1 .. Len(stream) + n : stream'[i] = IF i <= Len(stream) THEN stream[i] ELSE bytes[i - Len(stream)]
  BY <1>0, <1>2, <1>3, ConcatProperties
<1>5. UnreadLen' = UnreadLen + n /\ UnreadLen' = UnreadLen + SizeBytes + size
  BY <1>0, <1>2, <1>4, SizesAre DEF UnreadLen, SizeBytes
<1> DEFINE active == Len(buffer) - readPos
<1>6. ASSUME NEW j \in 1 .. UnreadLen PROVE UnreadAt(j)' = UnreadAt(j)
  <2>1. CASE j <= active
    BY <1>0, <2>1 DEF UnreadAt
  <2>2. CASE ~(j <= active)
    <3>1. j - active \in 1 .. Len(stream) + n /\ j - active <= Len(stream)
      BY <1>0, <1>2, <2>2 DEF UnreadLen
    <3>2. stream'[j - active] = stream[j - active]
      BY <1>0, <1>4, <3>1
    <3> QED BY <1>0, <2>2, <3>2 DEF UnreadAt
  <2> QED BY <2>1, <2>2
<1>7. ASSUME NEW j \in UnreadLen + 1 .. UnreadLen + SizeBytes + size
      PROVE  UnreadAt(j)' = <<Len(frames) + 1, j - UnreadLen>>
  <2> DEFINE k == j - UnreadLen
  <2>1. UnreadLen = active + Len(stream) /\ UnreadLen \in Nat /\ active \in Nat /\ j \in Nat
    BY <1>0 DEF UnreadLen
  <2>0. j \in UnreadLen + 1 .. UnreadLen + n /\ n \in Nat /\ Len(stream) \in Nat
    <3>1. size \in Nat
      BY SizesAre
    <3> QED BY <1>0, <2>1, <3>1 DEF SizeBytes
  <2> HIDE DEF n, active
  <2>2. k \in 1 .. n
    BY <2>0, <2>1, PlacesBehind
  <2>3. j - active \in 1 .. Len(stream) + n /\ ~(j - active <= Len(stream)) /\ j - active - Len(stream) = k
        /\ ~(j <= active)
    BY <2>0, <2>1, PlacesBehind
  <2> HIDE DEF k
  <2>4. stream'[j - active] = bytes[k]
    BY <1>4, <2>3
  <2>5. stream'[j - active] = <<Len(frames) + 1, k>>
    BY <1>2, <2>2, <2>4
  <2> QED BY <1>0, <2>3, <2>5 DEF UnreadAt, k, active
<1> QED BY <1>1, <1>4, <1>5, <1>6, <1>7

-----------------------------------------------------------------------------
(* Receiving: the frames.                                                  *)

\* The frame of an unread byte, its place in it, and where the frame ends.
Frame(j) == UnreadAt(j)[1]
Place(j) == UnreadAt(j)[2]
EndOf(j) == j + SizeBytes + frames[Frame(j)].size - Place(j)

\* From an unread byte on its frame is there to the end, and the next frame
\* behind it, unless it is the last one.
FramesWhole ==
    \A j \in 1 .. UnreadLen :
        /\ Frame(j) \in 1 .. Len(frames) /\ Place(j) \in 1 .. SizeBytes + frames[Frame(j)].size
        /\ EndOf(j) <= UnreadLen
        /\ \A h \in j .. EndOf(j) : Frame(h) = Frame(j) /\ Place(h) = Place(j) + (h - j)
        /\ EndOf(j) < UnreadLen => Frame(EndOf(j) + 1) = Frame(j) + 1 /\ Place(EndOf(j) + 1) = 1
        /\ EndOf(j) = UnreadLen => Frame(j) = Len(frames)

\* The first of the unread bytes is the one the extraction waits for.
ReadOn ==
    IF UnreadLen = 0
    THEN extracted = NoMessage /\ Len(delivered) = Len(frames)
    ELSE /\ Frame(1) = Len(delivered) + 1
         /\ Place(1) = IF extracted = NoMessage THEN 1 ELSE SizeBytes + Len(extracted.bytes) + 1

\* A rejected header leaves the extraction out of step, but closes.
Stopping == phase = "stopped" \/ (phase = "rearm" /\ closed)

StreamInv == ~Stopping => FramesWhole /\ ReadOn

\* What was extracted of a message is the beginning of its frame's body.
ExtractedInv ==
    extracted # NoMessage =>
        LET i == Len(delivered) + 1 IN
        /\ i \in 1 .. Len(frames) /\ frames[i].valid
        /\ extracted.size = frames[i].size
        /\ Len(extracted.bytes) < extracted.size
        /\ \A k \in 1 .. Len(extracted.bytes) : extracted.bytes[k] = <<i, SizeBytes + k>>

ReceiveInv == ReceiveTypeOK /\ StreamInv /\ ExtractedInv /\ DeliveredAreTheFrames

LEMMA PlacesAreNumbers ==
    ASSUME ReceiveTypeOK, NEW j \in 1 .. UnreadLen
    PROVE  Frame(j) \in Nat /\ Place(j) \in Nat /\ UnreadAt(j) = <<Frame(j), Place(j)>>
BY UnreadBytes DEF Frame, Place, Byte

\* Frames whose first bytes were passed are whole behind them.
LEMMA FramesStayWhole ==
    ASSUME ReceiveTypeOK, FramesWhole, frames' = frames, NEW n \in 0 .. UnreadLen,
           UnreadLen' = UnreadLen - n, \A j \in 1 .. UnreadLen - n : UnreadAt(j)' = UnreadAt(j + n)
    PROVE  FramesWhole'
<1>0. UnreadLen \in Nat /\ n \in Nat
  BY ReceiveNumbers
<1>1. \A j \in 1 .. UnreadLen - n : j + n \in 1 .. UnreadLen /\ Frame(j)' = Frame(j + n) /\ Place(j)' = Place(j + n)
  BY <1>0 DEF Frame, Place
<1> SUFFICES ASSUME NEW j \in 1 .. UnreadLen - n
             PROVE  /\ Frame(j)' \in 1 .. Len(frames) /\ Place(j)' \in 1 .. SizeBytes + frames[Frame(j)'].size
                    /\ EndOf(j)' <= UnreadLen - n
                    /\ \A h \in j .. EndOf(j)' : Frame(h)' = Frame(j)' /\ Place(h)' = Place(j)' + (h - j)
                    /\ EndOf(j)' < UnreadLen - n => \A h : h = EndOf(j)' + 1 => Frame(h)' = Frame(j)' + 1 /\ Place(h)' = 1
                    /\ EndOf(j)' = UnreadLen - n => Frame(j)' = Len(frames)
  BY DEF FramesWhole
<1> DEFINE i == j + n
           e == EndOf(i)
<1>2. /\ i \in 1 .. UnreadLen /\ Frame(j)' = Frame(i) /\ Place(j)' = Place(i) /\ Frame(i) \in Nat /\ Place(i) \in Nat
      /\ frames[Frame(i)].size \in Nat /\ Place(i) <= SizeBytes + frames[Frame(i)].size
  <2>1. i \in 1 .. UnreadLen /\ Frame(j)' = Frame(i) /\ Place(j)' = Place(i)
    BY <1>1
  <2>2. Frame(i) \in Nat /\ Place(i) \in Nat
    BY <2>1, PlacesAreNumbers
  <2>3. Frame(i) \in 1 .. Len(frames) /\ Place(i) \in 1 .. SizeBytes + frames[Frame(i)].size
    BY <2>1 DEF FramesWhole
  <2>4. frames[Frame(i)].size \in Nat
    BY <2>3, ReceiveNumbers
  <2> QED BY <2>1, <2>2, <2>3, <2>4
<1>3. EndOf(j)' = e - n /\ e \in Nat /\ i <= e
  BY <1>0, <1>2 DEF EndOf, SizeBytes
<1>4. /\ Frame(i) \in 1 .. Len(frames) /\ Place(i) \in 1 .. SizeBytes + frames[Frame(i)].size
      /\ e <= UnreadLen
      /\ \A h \in i .. e : Frame(h) = Frame(i) /\ Place(h) = Place(i) + (h - i)
      /\ e < UnreadLen => Frame(e + 1) = Frame(i) + 1 /\ Place(e + 1) = 1
      /\ e = UnreadLen => Frame(i) = Len(frames)
  BY <1>2 DEF FramesWhole
<1> HIDE DEF e
<1>5. \A h \in j .. EndOf(j)' : Frame(h)' = Frame(j)' /\ Place(h)' = Place(j)' + (h - j)
  <2> TAKE h \in j .. EndOf(j)'
  <2>1. h \in 1 .. UnreadLen - n /\ h + n \in i .. e /\ (h + n) - i = h - j
    BY <1>0, <1>3, <1>4
  <2> QED BY <1>1, <1>2, <1>4, <2>1
<1>6. ASSUME EndOf(j)' < UnreadLen - n, NEW h, h = EndOf(j)' + 1 PROVE Frame(h)' = Frame(j)' + 1 /\ Place(h)' = 1
  <2>1. h \in 1 .. UnreadLen - n /\ h + n = e + 1 /\ e < UnreadLen
    BY <1>0, <1>3, <1>6
  <2> QED BY <1>1, <1>2, <1>4, <2>1
<1>7. EndOf(j)' <= UnreadLen - n /\ (EndOf(j)' = UnreadLen - n => e = UnreadLen)
  BY <1>0, <1>3, <1>4
<1> QED BY <1>2, <1>4, <1>5, <1>6, <1>7

\* A frame that the peer sends is whole, and behind the others.
LEMMA FramesGrow ==
    ASSUME ReceiveTypeOK, FramesWhole, ReadOn,
           NEW size \in Sizes, NEW valid \in BOOLEAN, PeerSends(size, valid)
    PROVE  FramesWhole' /\ ReadOn'
<1> DEFINE n == SizeBytes + size
           U == UnreadLen
           F == Len(frames)
<1>0. /\ U \in Nat /\ F \in Nat /\ n \in Nat /\ n >= 2 /\ size \in Nat
      /\ \A i \in 1 .. F : frames[i].size \in Nat
  <2>1. U \in Nat /\ F \in Nat /\ \A i \in 1 .. F : frames[i].size \in Nat
    BY ReceiveNumbers
  <2>2. size \in Nat
    BY SizesAre
  <2> QED BY <2>1, <2>2 DEF SizeBytes
<1>1. /\ Len(frames') = F + 1 /\ frames'[F + 1] = [size |-> size, valid |-> valid]
      /\ \A i \in 1 .. F : frames'[i] = frames[i]
      /\ UnreadLen' = U + SizeBytes + size
      /\ \A j \in 1 .. U : UnreadAt(j)' = UnreadAt(j)
      /\ \A j \in U + 1 .. U + SizeBytes + size : UnreadAt(j)' = <<F + 1, j - U>>
  BY SendUnread
<1>2. UnreadLen' = U + n /\ \A j \in U + 1 .. U + n : Frame(j)' = F + 1 /\ Place(j)' = j - U
  <2>1. UnreadLen' = U + n /\ U + n = U + SizeBytes + size
    BY <1>0, <1>1 DEF SizeBytes
  <2>2. ASSUME NEW j \in U + 1 .. U + n PROVE Frame(j)' = F + 1 /\ Place(j)' = j - U
    <3>1. UnreadAt(j)' = <<F + 1, j - U>>
      BY <1>1, <2>1
    <3> QED BY <3>1 DEF Frame, Place
  <2> QED BY <2>1, <2>2
<1>3. \A j \in 1 .. U : Frame(j)' = Frame(j) /\ Place(j)' = Place(j)
  BY <1>1 DEF Frame, Place
<1>s. frames'[F + 1].size = size
  BY <1>1
<1> HIDE DEF n, U, F
<1>4. ASSUME NEW j \in 1 .. U + n
      PROVE  /\ Frame(j)' \in 1 .. F + 1 /\ Place(j)' \in 1 .. SizeBytes + frames'[Frame(j)'].size
             /\ EndOf(j)' <= U + n
             /\ \A h \in j .. EndOf(j)' : Frame(h)' = Frame(j)' /\ Place(h)' = Place(j)' + (h - j)
             /\ EndOf(j)' < U + n => \A h : h = EndOf(j)' + 1 => Frame(h)' = Frame(j)' + 1 /\ Place(h)' = 1
             /\ EndOf(j)' = U + n => Frame(j)' = F + 1
  <2>1. CASE j \in 1 .. U
    <3>1. Frame(j)' = Frame(j) /\ Place(j)' = Place(j) /\ Frame(j) \in Nat /\ Place(j) \in Nat
      BY <1>3, <2>1, PlacesAreNumbers DEF U
    <3> DEFINE e == EndOf(j)
    <3>2. /\ Frame(j) \in 1 .. F /\ Place(j) \in 1 .. SizeBytes + frames[Frame(j)].size
          /\ e <= U
          /\ \A h \in j .. e : Frame(h) = Frame(j) /\ Place(h) = Place(j) + (h - j)
          /\ e < U => Frame(e + 1) = Frame(j) + 1 /\ Place(e + 1) = 1
          /\ e = U => Frame(j) = F
      BY <2>1 DEF FramesWhole, U, F
    <3>3. frames'[Frame(j)] = frames[Frame(j)]
      BY <1>1, <3>2 DEF F
    <3>4. EndOf(j)' = e /\ e \in Nat /\ j <= e
      BY <1>0, <3>1, <3>2, <3>3 DEF EndOf, SizeBytes
    <3> HIDE DEF e
    <3>5. \A h \in j .. e : Frame(h)' = Frame(j)' /\ Place(h)' = Place(j)' + (h - j)
      <4> TAKE h \in j .. e
      <4>1. h \in 1 .. U
        BY <1>0, <2>1, <3>2, <3>4
      <4> QED BY <1>3, <3>1, <3>2, <4>1
    <3>6. ASSUME NEW h, h = e + 1 PROVE Frame(h)' = Frame(j)' + 1 /\ Place(h)' = 1
      <4>1. CASE e < U
        <5>1. h \in 1 .. U
          BY <1>0, <3>4, <3>6, <4>1
        <5> QED BY <1>3, <3>1, <3>2, <3>6, <4>1, <5>1
      <4>2. CASE e = U
        <5>1. h \in U + 1 .. U + n /\ h - U = 1
          BY <1>0, <3>4, <3>6, <4>2
        <5> QED BY <1>2, <3>1, <3>2, <4>2, <5>1
      <4> QED BY <1>0, <3>2, <3>4, <4>1, <4>2
    <3>7. e <= U + n /\ e # U + n
      BY <1>0, <3>2, <3>4
    <3> QED BY <1>0, <3>1, <3>2, <3>3, <3>4, <3>5, <3>6, <3>7
  <2>2. CASE j \in U + 1 .. U + n
    <3>1. Frame(j)' = F + 1 /\ Place(j)' = j - U
      BY <1>2, <2>2
    <3>2. EndOf(j)' = U + n
      <4>1. EndOf(j)' = j + SizeBytes + frames'[Frame(j)'].size - Place(j)'
        BY DEF EndOf
      <4> QED BY <1>0, <1>s, <2>2, <3>1, <4>1 DEF n, SizeBytes
    <3>3. \A h \in j .. U + n : Frame(h)' = Frame(j)' /\ Place(h)' = Place(j)' + (h - j)
      <4> TAKE h \in j .. U + n
      <4>1. h \in U + 1 .. U + n /\ h - U = j - U + (h - j)
        BY <1>0, <2>2
      <4> QED BY <1>2, <3>1, <4>1
    <3>4. Place(j)' \in 1 .. SizeBytes + frames'[Frame(j)'].size /\ F + 1 \in 1 .. F + 1
      <4>1. j - U \in 1 .. n
        BY <1>0, <2>2
      <4> QED BY <1>0, <1>s, <3>1, <4>1 DEF n
    <3> QED BY <1>0, <3>1, <3>2, <3>3, <3>4
  <2> QED BY <1>0, <2>1, <2>2
<1>5. FramesWhole'
  BY <1>1, <1>2, <1>4 DEF FramesWhole, F
<1>6. ReadOn'
  <2>1. UNCHANGED <<extracted, delivered>> /\ UnreadLen' # 0
    BY <1>0, <1>2 DEF PeerSends
  <2>2. CASE U = 0
    <3>1. 1 \in U + 1 .. U + n /\ 1 - U = 1
      BY <1>0, <2>2
    <3>2. Frame(1)' = F + 1 /\ Place(1)' = 1
      BY <1>2, <3>1
    <3> QED BY <2>1, <2>2, <3>2 DEF ReadOn, U, F
  <2>3. CASE U # 0
    <3>1. 1 \in 1 .. U
      BY <1>0, <2>3
    <3>2. Frame(1)' = Frame(1) /\ Place(1)' = Place(1)
      BY <1>3, <3>1
    <3> QED BY <2>1, <2>3, <3>2 DEF ReadOn, U
  <2> QED BY <2>2, <2>3
<1> QED BY <1>5, <1>6

\* Where the extraction of a message is.
LEMMA AtMessage ==
    ASSUME ReceiveInv, phase = "extract", extracted # NoMessage
    PROVE  LET i == Len(delivered) + 1 IN
           /\ i \in 1 .. Len(frames) /\ frames[i].valid
           /\ Missing \in Nat \ {0} /\ Missing = frames[i].size - Len(extracted.bytes)
           /\ Missing <= UnreadLen
           /\ \A j \in 1 .. Missing : UnreadAt(j) = <<i, SizeBytes + Len(extracted.bytes) + j>>
           /\ Missing < UnreadLen => Frame(Missing + 1) = i + 1 /\ Place(Missing + 1) = 1
           /\ Missing = UnreadLen => i = Len(frames)
<1> DEFINE i == Len(delivered) + 1
           L == Len(extracted.bytes)
<1>0. ReceiveTypeOK /\ FramesWhole /\ ReadOn /\ L \in Nat /\ UnreadLen \in Nat /\ Len(delivered) \in Nat
  BY ReceiveNumbers DEF ReceiveInv, StreamInv, Stopping
<1>1. i \in 1 .. Len(frames) /\ frames[i].valid /\ extracted.size = frames[i].size /\ L < extracted.size
  BY DEF ReceiveInv, ExtractedInv
<1>2. frames[i].size \in Nat /\ Missing = frames[i].size - L /\ Missing \in Nat \ {0}
  <2>1. extracted.size \in Nat
    BY <1>0, ReceiveNumbers
  <2> HIDE DEF i, L
  <2>2. extracted.size - L \in Nat \ {0} /\ frames[i].size = extracted.size
    BY <1>0, <1>1, <2>1
  <2> QED BY <2>1, <2>2 DEF Missing, L
<1>3. 1 \in 1 .. UnreadLen /\ Frame(1) = i /\ Place(1) = SizeBytes + L + 1
  BY <1>0 DEF ReadOn
<1>4. EndOf(1) = Missing
  BY <1>0, <1>2, <1>3 DEF EndOf, SizeBytes
<1>5. /\ Missing <= UnreadLen
      /\ \A h \in 1 .. Missing : Frame(h) = i /\ Place(h) = SizeBytes + L + 1 + (h - 1)
      /\ Missing < UnreadLen => Frame(Missing + 1) = i + 1 /\ Place(Missing + 1) = 1
      /\ Missing = UnreadLen => i = Len(frames)
  BY <1>0, <1>3, <1>4 DEF FramesWhole
<1>6. \A j \in 1 .. Missing : UnreadAt(j) = <<i, SizeBytes + L + j>>
  <2> TAKE j \in 1 .. Missing
  <2>1. j \in 1 .. UnreadLen /\ SizeBytes + L + 1 + (j - 1) = SizeBytes + L + j
    BY <1>0, <1>2, <1>5 DEF SizeBytes
  <2>2. UnreadAt(j) = <<Frame(j), Place(j)>>
    BY <1>0, <2>1, PlacesAreNumbers
  <2> QED BY <1>5, <2>1, <2>2
<1> QED BY <1>1, <1>2, <1>5, <1>6

\* And of a header.
LEMMA AtHeader ==
    ASSUME ReceiveInv, HasHeader
    PROVE  LET i == Len(delivered) + 1 IN
           /\ i \in 1 .. Len(frames) /\ Header = frames[i] /\ frames[i].size \in Nat
           /\ 2 < UnreadLen
           /\ frames[i].size > 0 => Frame(3) = i /\ Place(3) = 3
           /\ frames[i].size = 0 => Frame(3) = i + 1 /\ Place(3) = 1
<1> DEFINE i == Len(delivered) + 1
<1>0. /\ ReceiveTypeOK /\ FramesWhole /\ ReadOn /\ extracted = NoMessage
      /\ UnreadLen \in Nat /\ ActiveSize \in Nat /\ ActiveSize >= 4 /\ UnreadLen >= 4
      /\ readPos \in Nat /\ Len(buffer) \in Nat /\ Len(delivered) \in Nat
  BY ReceiveNumbers DEF ReceiveInv, StreamInv, Stopping, HasHeader, HeaderBytes, UnreadLen, ActiveSize
<1>1. 1 \in 1 .. UnreadLen /\ Frame(1) = i /\ Place(1) = 1
  BY <1>0 DEF ReadOn
<1>2. i \in 1 .. Len(frames)
  BY <1>1, <1>0 DEF FramesWhole
<1>3. frames[i].size \in Nat
  BY <1>0, <1>2, ReceiveNumbers
<1>4. EndOf(1) = 2 + frames[i].size
  BY <1>1, <1>3 DEF EndOf, SizeBytes
<1>5. /\ \A h \in 1 .. EndOf(1) : Frame(h) = i /\ Place(h) = 1 + (h - 1)
      /\ EndOf(1) < UnreadLen => Frame(EndOf(1) + 1) = i + 1 /\ Place(EndOf(1) + 1) = 1
  BY <1>0, <1>1 DEF FramesWhole
<1>6. ASSUME frames[i].size > 0 PROVE Frame(3) = i /\ Place(3) = 3
  <2>1. 3 \in 1 .. EndOf(1) /\ 1 + (3 - 1) = 3
    BY <1>3, <1>4, <1>6
  <2> QED BY <1>5, <2>1
<1>7. ASSUME frames[i].size = 0 PROVE Frame(3) = i + 1 /\ Place(3) = 1
  <2>1. EndOf(1) = 2 /\ EndOf(1) < UnreadLen /\ EndOf(1) + 1 = 3
    BY <1>0, <1>4, <1>7
  <2> QED BY <1>5, <2>1
<1>8. NextByte = UnreadAt(1)
  BY <1>0 DEF NextByte, UnreadAt, ActiveSize
<1>9. Header = frames[i]
  BY <1>1, <1>8 DEF Header, Frame
<1> QED BY <1>0, <1>2, <1>3, <1>6, <1>7, <1>9

LEMMA SameUnread ==
    ASSUME ReceiveTypeOK, FramesWhole, ReadOn, UNCHANGED <<frames, extracted, delivered>>,
           UnreadLen' = UnreadLen, \A j \in 1 .. UnreadLen : UnreadAt(j)' = UnreadAt(j)
    PROVE  FramesWhole' /\ ReadOn'
<1>0. UnreadLen \in Nat /\ 0 \in 0 .. UnreadLen
  BY ReceiveNumbers
<1>1. UnreadLen' = UnreadLen - 0 /\ \A j \in 1 .. UnreadLen - 0 : UnreadAt(j)' = UnreadAt(j + 0)
  BY <1>0
<1>2. FramesWhole'
  BY <1>0, <1>1, FramesStayWhole
<1>3. UnreadLen # 0 => Frame(1)' = Frame(1) /\ Place(1)' = Place(1)
  BY <1>0 DEF Frame, Place
<1> QED BY <1>2, <1>3 DEF ReadOn

LEMMA PeerSendsStep ==
    ASSUME ReceiveInv, NEW size \in Sizes, NEW valid \in BOOLEAN, PeerSends(size, valid)
    PROVE  ReceiveInv'
<1>0. ReceiveTypeOK /\ Len(frames) \in Nat /\ Len(delivered) \in Nat
  BY ReceiveNumbers DEF ReceiveInv
<1>1. UNCHANGED <<phase, asked, buffer, readPos, capacity, extracted, delivered, closed>>
  BY DEF PeerSends
<1>2. /\ stream' \in Seq(Byte) /\ frames' \in Seq(Frames) /\ Len(frames') = Len(frames) + 1
      /\ \A i \in 1 .. Len(frames) : frames'[i] = frames[i]
  BY <1>0, SendUnread
<1>3. ReceiveTypeOK'
  BY <1>0, <1>1, <1>2 DEF ReceiveTypeOK, Frames
<1>4. StreamInv'
  BY <1>0, <1>1, FramesGrow DEF ReceiveInv, StreamInv, Stopping
<1>5. ExtractedInv'
  <2> SUFFICES ASSUME extracted # NoMessage
               PROVE  LET i == Len(delivered) + 1 IN
                      /\ i \in 1 .. Len(frames') /\ frames'[i].valid
                      /\ extracted.size = frames'[i].size
                      /\ Len(extracted.bytes) < extracted.size
                      /\ \A k \in 1 .. Len(extracted.bytes) : extracted.bytes[k] = <<i, SizeBytes + k>>
    BY <1>1 DEF ExtractedInv, NoMessage
  <2> DEFINE i == Len(delivered) + 1
  <2>1. /\ i \in 1 .. Len(frames) /\ frames[i].valid
        /\ extracted.size = frames[i].size
        /\ Len(extracted.bytes) < extracted.size
        /\ \A k \in 1 .. Len(extracted.bytes) : extracted.bytes[k] = <<i, SizeBytes + k>>
    BY DEF ReceiveInv, ExtractedInv
  <2>2. i \in 1 .. Len(frames') /\ frames'[i] = frames[i]
    BY <1>0, <1>2, <2>1
  <2> QED BY <2>1, <2>2
<1>6. DeliveredAreTheFrames'
  <2>1. Len(delivered) <= Len(frames')
    BY <1>0, <1>2 DEF ReceiveInv, DeliveredAreTheFrames
  <2>2. ASSUME NEW i \in 1 .. Len(delivered) PROVE delivered[i] = Body(i)' /\ frames'[i].valid
    <3>1. i \in 1 .. Len(frames) /\ delivered[i] = Body(i) /\ frames[i].valid
      BY <1>0 DEF ReceiveInv, DeliveredAreTheFrames
    <3>2. frames'[i] = frames[i]
      BY <1>2, <3>1
    <3> QED BY <3>1, <3>2 DEF Body
  <2> QED BY <1>1, <2>1, <2>2 DEF DeliveredAreTheFrames
<1> QED BY <1>3, <1>4, <1>5, <1>6 DEF ReceiveInv

\* Closing, and failing to read, only stop.
LEMMA StopsStep ==
    ASSUME ReceiveInv, UNCHANGED <<frames, stream, asked, buffer, readPos, capacity, extracted, delivered>>,
           closed' \in BOOLEAN, phase' \in {"refused", "rearm", "arm", "extract", "stopped", phase},
           ~Stopping' => ~Stopping
    PROVE  ReceiveInv'
<1>1. ReceiveTypeOK'
  BY DEF ReceiveInv, ReceiveTypeOK
<1>2. UnreadLen' = UnreadLen /\ \A j \in 1 .. UnreadLen : UnreadAt(j)' = UnreadAt(j)
  BY DEF UnreadLen, UnreadAt
<1>3. StreamInv'
  BY <1>2, SameUnread DEF ReceiveInv, StreamInv
<1>4. ExtractedInv' /\ DeliveredAreTheFrames'
  BY DEF ReceiveInv, ExtractedInv, NoMessage, DeliveredAreTheFrames, Body
<1> QED BY <1>1, <1>3, <1>4 DEF ReceiveInv

LEMMA ReadStep ==
    ASSUME ReceiveInv, AsyncReadSome \/ \E n \in 0 .. Len(stream) : ReadCompletes(n)
    PROVE  ReceiveInv'
<1>0. /\ ReceiveTypeOK /\ UNCHANGED <<frames, extracted, delivered, closed>>
      /\ Len(buffer) \in Nat /\ readPos \in Nat /\ readPos <= Len(buffer) /\ capacity \in Nat \ {0}
      /\ ActiveSize = Len(buffer) - readPos /\ asked \in Nat
  BY ReceiveNumbers DEF ReceiveInv, AsyncReadSome, ReadCompletes, ActiveSize
<1>1. /\ UnreadLen' = UnreadLen /\ \A j \in 1 .. UnreadLen : UnreadAt(j)' = UnreadAt(j)
      /\ ReceiveTypeOK'
  <2>1. CASE AsyncReadSome
    <3>1. /\ buffer' \in Seq(Byte) /\ Len(buffer') = ActiveSize
          /\ UnreadLen' = UnreadLen /\ \A j \in 1 .. UnreadLen : UnreadAt(j)' = UnreadAt(j)
      BY <1>0, <2>1, NormalizeUnread
    <3>2. /\ readPos' = 0 /\ asked' = capacity - Len(buffer') /\ phase' = "reading" /\ UNCHANGED stream
          /\ capacity' = IF asked' = 0 THEN capacity * BufferMultiplier ELSE capacity
      BY <2>1 DEF AsyncReadSome
    <3>3. Len(buffer) <= capacity
      BY DEF ReceiveInv, ReceiveTypeOK
    <3>4. asked' \in Nat /\ Len(buffer') + asked' = capacity
      BY <1>0, <3>1, <3>2, <3>3
    <3>5. capacity' \in Nat \ {0} /\ capacity <= capacity'
      <4>1. BufferMultiplier \in Nat /\ BufferMultiplier >= 2
        BY ReceiveAssumption
      <4>2. capacity * BufferMultiplier \in Nat \ {0} /\ capacity <= capacity * BufferMultiplier
        BY <1>0, <4>1
      <4> QED BY <1>0, <3>2, <4>2
    <3>6. Len(buffer') <= capacity' /\ Len(buffer') + asked' <= capacity' /\ readPos' \in 0 .. Len(buffer')
      BY <1>0, <3>1, <3>2, <3>4, <3>5
    <3> QED BY <1>0, <3>1, <3>2, <3>4, <3>5, <3>6 DEF ReceiveTypeOK
  <2>2. ASSUME NEW n \in 0 .. Len(stream), ReadCompletes(n)
        PROVE  /\ UnreadLen' = UnreadLen /\ \A j \in 1 .. UnreadLen : UnreadAt(j)' = UnreadAt(j)
               /\ ReceiveTypeOK'
    <3>1. /\ buffer' \in Seq(Byte) /\ stream' \in Seq(Byte)
          /\ Len(buffer') = Len(buffer) + n
          /\ UnreadLen' = UnreadLen /\ \A j \in 1 .. UnreadLen : UnreadAt(j)' = UnreadAt(j)
      BY <1>0, <2>2, ReadUnread
    <3>2. /\ phase = "reading" /\ phase' = "extract" /\ n <= asked /\ UNCHANGED <<asked, readPos, capacity>>
      BY <2>2 DEF ReadCompletes
    <3>3. Len(buffer) + asked <= capacity
      BY <3>2 DEF ReceiveInv, ReceiveTypeOK
    <3>4. Len(buffer') <= capacity' /\ readPos' \in 0 .. Len(buffer')
      BY <1>0, <3>1, <3>2, <3>3
    <3> QED BY <1>0, <3>1, <3>2, <3>4 DEF ReceiveTypeOK
  <2> QED BY <2>1, <2>2
<1>2. ~Stopping
  BY DEF AsyncReadSome, ReadCompletes, Stopping
<1>3. StreamInv'
  BY <1>0, <1>1, <1>2, SameUnread DEF ReceiveInv, StreamInv
<1>4. ExtractedInv' /\ DeliveredAreTheFrames'
  BY <1>0 DEF ReceiveInv, ExtractedInv, NoMessage, DeliveredAreTheFrames, Body
<1> QED BY <1>1, <1>3, <1>4 DEF ReceiveInv

LEMMA ExtractHeaderStep ==
    ASSUME ReceiveInv, ExtractHeader
    PROVE  ReceiveInv'
<1> DEFINE i == Len(delivered) + 1
<1>0. /\ ReceiveTypeOK /\ UNCHANGED <<frames, stream, asked, buffer, capacity, delivered>>
      /\ HasHeader /\ readPos' = readPos + 2 /\ phase = "extract" /\ extracted = NoMessage
      /\ ActiveSize \in Nat /\ ActiveSize >= 4 /\ UnreadLen \in Nat /\ Len(buffer) \in Nat
  BY ReceiveNumbers DEF ReceiveInv, ExtractHeader, HasHeader, HeaderBytes, SizeBytes
<1>1. /\ i \in 1 .. Len(frames) /\ Header = frames[i] /\ 2 < UnreadLen
      /\ frames[i].size > 0 => Frame(3) = i /\ Place(3) = 3
  BY <1>0, AtHeader
<1>2. 2 \in 0 .. ActiveSize
  BY <1>0
<1>3. /\ readPos' \in 0 .. Len(buffer)
      /\ UnreadLen' = UnreadLen - 2 /\ \A j \in 1 .. UnreadLen - 2 : UnreadAt(j)' = UnreadAt(j + 2)
  BY <1>0, <1>2, ExtractUnread
<1>4. frames[i].size \in Sizes /\ frames[i].size \in Nat
  BY <1>0, <1>1, ReceiveNumbers
<1>5. DeliveredAreTheFrames'
  BY <1>0 DEF ReceiveInv, DeliveredAreTheFrames, Body
<1> HIDE DEF i
<1>6. CASE frames[i].valid
  <2>1. /\ extracted' = [size |-> frames[i].size, bytes |-> <<>>] /\ UNCHANGED <<phase, closed>>
        /\ frames[i].size > 0
    BY <1>1, <1>6 DEF ExtractHeader
  <2>2. /\ extracted' \in [size : Sizes \cup {0}, bytes : Seq(Byte)] /\ extracted'.size = frames[i].size
        /\ Len(extracted'.bytes) = 0 /\ extracted' # NoMessage
    <3>1. <<>> \in Seq(Byte) /\ Len(<<>>) = 0
      BY EmptySeq
    <3> QED BY <1>4, <2>1, <3>1 DEF NoMessage
  <2>3. ReceiveTypeOK'
    BY <1>0, <1>3, <1>4, <2>1, <2>2 DEF ReceiveTypeOK
  <2>4. ExtractedInv'
    BY <1>0, <1>1, <1>4, <1>6, <2>1, <2>2 DEF ExtractedInv, NoMessage, i
  <2>5. FramesWhole'
    <3>1. FramesWhole /\ 2 \in 0 .. UnreadLen
      BY <1>0, <1>1 DEF ReceiveInv, StreamInv, Stopping
    <3> QED BY <1>0, <1>3, <3>1, FramesStayWhole
  <2>6. ReadOn'
    <3>1. 1 \in 1 .. UnreadLen - 2 /\ 1 + 2 = 3
      BY <1>0, <1>1
    <3>2. Frame(1)' = Frame(3) /\ Place(1)' = Place(3) /\ UnreadLen' # 0
      BY <1>0, <1>1, <1>3, <3>1 DEF Frame, Place
    <3> QED BY <1>0, <1>1, <2>1, <2>2, <3>2 DEF ReadOn, NoMessage, SizeBytes, i
  <2> QED BY <1>5, <2>3, <2>4, <2>5, <2>6 DEF ReceiveInv, StreamInv
<1>7. CASE ~frames[i].valid
  <2>1. closed' = TRUE /\ phase' = "rearm" /\ extracted' = extracted
    BY <1>1, <1>7 DEF ExtractHeader, Close
  <2>2. ReceiveTypeOK'
    BY <1>0, <1>3, <2>1 DEF ReceiveTypeOK
  <2>3. StreamInv' /\ ExtractedInv'
    BY <1>0, <2>1 DEF StreamInv, Stopping, ExtractedInv, NoMessage
  <2> QED BY <1>5, <2>2, <2>3 DEF ReceiveInv
<1> QED BY <1>6, <1>7

LEMMA ExtractEmptyMessageStep ==
    ASSUME ReceiveInv, ExtractEmptyMessage
    PROVE  ReceiveInv'
<1> DEFINE i == Len(delivered) + 1
<1>0. /\ ReceiveTypeOK /\ FramesWhole /\ extracted = NoMessage
      /\ UNCHANGED <<frames, stream, phase, asked, buffer, capacity, extracted, closed>>
      /\ HasHeader /\ readPos' = readPos + 2 /\ delivered' = Append(delivered, <<>>)
      /\ Header.valid /\ Header.size = 0
      /\ ActiveSize \in Nat /\ ActiveSize >= 4 /\ UnreadLen \in Nat /\ Len(delivered) \in Nat
      /\ delivered \in Seq(Seq(Byte))
  BY ReceiveNumbers
     DEF ReceiveInv, ReceiveTypeOK, ExtractEmptyMessage, HasHeader, HeaderBytes, SizeBytes, StreamInv, Stopping
<1>1. /\ i \in 1 .. Len(frames) /\ frames[i].valid /\ frames[i].size = 0
      /\ 2 < UnreadLen /\ Frame(3) = i + 1 /\ Place(3) = 1
  BY <1>0, AtHeader
<1>2. /\ readPos' \in 0 .. Len(buffer)
      /\ UnreadLen' = UnreadLen - 2 /\ \A j \in 1 .. UnreadLen - 2 : UnreadAt(j)' = UnreadAt(j + 2)
  <2>1. 2 \in 0 .. ActiveSize
    BY <1>0
  <2> QED BY <1>0, <2>1, ExtractUnread
<1> HIDE DEF i
<1>3. /\ delivered' \in Seq(Seq(Byte)) /\ Len(delivered') = i /\ delivered'[i] = <<>>
      /\ \A k \in 1 .. Len(delivered) : delivered'[k] = delivered[k]
  <2>1. <<>> \in Seq(Byte)
    BY EmptySeq
  <2> QED BY <1>0, <2>1, AppendProperties DEF i
<1>4. ReceiveTypeOK'
  BY <1>0, <1>2, <1>3 DEF ReceiveTypeOK
<1>5. ExtractedInv'
  BY <1>0 DEF ExtractedInv, NoMessage
<1>6. FramesWhole'
  <2>1. 2 \in 0 .. UnreadLen
    BY <1>0, <1>1
  <2> QED BY <1>0, <1>2, <2>1, FramesStayWhole
<1>7. ReadOn'
  <2>1. 1 \in 1 .. UnreadLen - 2 /\ 1 + 2 = 3 /\ UnreadLen' # 0
    BY <1>0, <1>1, <1>2
  <2>2. Frame(1)' = i + 1 /\ Place(1)' = 1
    BY <1>1, <1>2, <2>1 DEF Frame, Place
  <2> QED BY <1>0, <1>3, <2>1, <2>2 DEF ReadOn, NoMessage
<1>8. DeliveredAreTheFrames'
  <2>1. Len(delivered') <= Len(frames)
    BY <1>0, <1>1, <1>3, ReceiveNumbers
  <2>2. Body(i) = <<>>
    BY <1>1 DEF Body
  <2>3. ASSUME NEW k \in 1 .. Len(delivered') PROVE delivered'[k] = Body(k) /\ frames[k].valid
    <3>1. CASE k = i
      BY <1>1, <1>3, <2>2, <3>1
    <3>2. CASE k # i
      <4>1. k \in 1 .. Len(delivered)
        BY <1>0, <1>3, <3>2 DEF i
      <4> QED BY <1>3, <4>1 DEF ReceiveInv, DeliveredAreTheFrames
    <3> QED BY <3>1, <3>2
  <2> QED BY <1>0, <2>1, <2>3 DEF DeliveredAreTheFrames, Body
<1> QED BY <1>4, <1>5, <1>6, <1>7, <1>8 DEF ReceiveInv, StreamInv

\* Arithmetic on the length L of what was extracted.
LEMMA PlaceArithmetic ==
    ASSUME NEW L \in Nat, NEW n \in Nat
    PROVE  /\ \A k \in 1 .. L + n : ~(k <= L) => k - L \in 1 .. n /\ SizeBytes + L + (k - L) = SizeBytes + k
           /\ \A k \in 1 .. L + n : k <= L => k \in 1 .. L
           /\ SizeBytes + L + (n + 1) = SizeBytes + L + n + 1
           /\ SizeBytes + (L + n) + 1 = SizeBytes + L + n + 1
           /\ \A s \in Nat : n = s - L => L + n = s
BY DEF SizeBytes

\* What the extraction adds to the message is the next of its frame's body.
LEMMA NextOfBody ==
    ASSUME ReceiveInv, phase = "extract", extracted # NoMessage, NEW n \in 0 .. ActiveSize, n <= Missing
    PROVE  LET bytes == extracted.bytes \o Active(n) IN
           /\ bytes \in Seq(Byte) /\ Len(bytes) = Len(extracted.bytes) + n
           /\ \A k \in 1 .. Len(extracted.bytes) + n : bytes[k] = <<Len(delivered) + 1, SizeBytes + k>>
<1> DEFINE i == Len(delivered) + 1
           L == Len(extracted.bytes)
           active == Active(n)
           bytes == extracted.bytes \o active
<1>0. ReceiveTypeOK /\ L \in Nat /\ extracted.bytes \in Seq(Byte) /\ n \in Nat /\ Missing \in Nat
  BY ReceiveNumbers, AtMessage DEF ReceiveInv
<1>1. active \in Seq(Byte) /\ Len(active) = n /\ \A j \in 1 .. n : active[j] = UnreadAt(j)
  BY <1>0, ActiveBytes
<1>2. \A j \in 1 .. n : UnreadAt(j) = <<i, SizeBytes + L + j>>
  BY <1>0, AtMessage
<1>3. \A k \in 1 .. L : extracted.bytes[k] = <<i, SizeBytes + k>>
  BY DEF ReceiveInv, ExtractedInv
<1> HIDE DEF active, i
<1>4. bytes \in Seq(Byte) /\ Len(bytes) = L + n
      /\ \A k \in 1 .. L + n : bytes[k] = IF k <= L THEN extracted.bytes[k] ELSE active[k - L]
  BY <1>0, <1>1, ConcatProperties
<1> HIDE DEF bytes
<1>5. ASSUME NEW k \in 1 .. L + n PROVE bytes[k] = <<i, SizeBytes + k>>
  <2>1. CASE k <= L
    <3>1. k \in 1 .. L
      BY <1>0, <2>1
    <3> QED BY <1>3, <1>4, <2>1, <3>1
  <2>2. CASE ~(k <= L)
    <3> HIDE DEF L
    <3>0. L \in Nat /\ n \in Nat
      BY <1>0
    <3>1. k - L \in 1 .. n /\ SizeBytes + L + (k - L) = SizeBytes + k
      BY <2>2, <3>0, PlaceArithmetic
    <3>2. bytes[k] = active[k - L]
      BY <1>0, <1>4, <2>2
    <3> QED BY <1>1, <1>2, <3>1, <3>2
  <2> QED BY <2>1, <2>2
<1> QED BY <1>4, <1>5 DEF bytes, active, i

LEMMA ExtractPartStep ==
    ASSUME ReceiveInv, ExtractPart
    PROVE  ReceiveInv'
<1> DEFINE i == Len(delivered) + 1
           L == Len(extracted.bytes)
           n == ActiveSize
           bytes == extracted.bytes \o Active(n)
<1>0. /\ ReceiveTypeOK /\ FramesWhole /\ ReadOn /\ UNCHANGED <<frames, stream, asked, buffer, capacity, delivered, closed>>
      /\ phase = "extract" /\ phase' = "rearm" /\ extracted # NoMessage
      /\ n \in Nat \ {0} /\ n < Missing /\ readPos' = readPos + n /\ L \in Nat /\ UnreadLen \in Nat
      /\ Len(delivered) \in Nat
  BY ReceiveNumbers DEF ReceiveInv, ExtractPart, StreamInv, Stopping
<1>1. extracted' = [extracted EXCEPT !.bytes = bytes]
  BY DEF ExtractPart
<1>2. /\ i \in 1 .. Len(frames) /\ frames[i].valid
      /\ Missing \in Nat \ {0} /\ Missing = frames[i].size - L
      /\ Missing <= UnreadLen
      /\ \A j \in 1 .. Missing : UnreadAt(j) = <<i, SizeBytes + L + j>>
  BY <1>0, AtMessage DEF ReceiveInv
<1>3. /\ bytes \in Seq(Byte) /\ Len(bytes) = L + n
      /\ \A k \in 1 .. L + n : bytes[k] = <<i, SizeBytes + k>>
  <2>1. n \in 0 .. ActiveSize /\ n <= Missing
    BY <1>0, <1>2
  <2> QED BY <1>0, <2>1, NextOfBody
<1>4. /\ readPos' \in 0 .. Len(buffer)
      /\ UnreadLen' = UnreadLen - n /\ \A j \in 1 .. UnreadLen - n : UnreadAt(j)' = UnreadAt(j + n)
  <2>1. n \in 0 .. ActiveSize
    BY <1>0
  <2> QED BY <1>0, <2>1, ExtractUnread
<1>5. frames[i].size \in Nat /\ extracted.size = frames[i].size
  BY <1>0, <1>2, ReceiveNumbers DEF ReceiveInv, ExtractedInv
<1> HIDE DEF i, n, bytes
<1>6. /\ extracted' \in [size : Sizes \cup {0}, bytes : Seq(Byte)]
      /\ extracted'.size = extracted.size /\ extracted'.bytes = bytes
  BY <1>0, <1>1, <1>3 DEF ReceiveTypeOK
<1>7. L + n < frames[i].size /\ extracted.size # 0
  BY <1>0, <1>2, <1>5
<1>8. ReceiveTypeOK'
  BY <1>0, <1>3, <1>4, <1>5, <1>6, <1>7 DEF ReceiveTypeOK
<1>9. ExtractedInv'
  BY <1>0, <1>2, <1>3, <1>5, <1>6, <1>7 DEF ExtractedInv, i
<1>10. FramesWhole'
  <2>1. n \in 0 .. UnreadLen
    BY <1>0, <1>2
  <2> QED BY <1>0, <1>4, <2>1, FramesStayWhole
<1>11. ReadOn'
  <2>1. 1 \in 1 .. UnreadLen - n /\ n + 1 \in 1 .. Missing /\ UnreadLen' # 0
    BY <1>0, <1>2, <1>4
  <2>2. UnreadAt(1)' = <<i, SizeBytes + L + n + 1>>
    <3>1. UnreadAt(1)' = UnreadAt(1 + n) /\ 1 + n = n + 1
      BY <1>0, <1>4, <2>1
    <3>2. UnreadAt(n + 1) = <<i, SizeBytes + L + (n + 1)>>
      BY <1>2, <2>1
    <3>3. SizeBytes + L + (n + 1) = SizeBytes + L + n + 1
      BY <1>0, PlaceArithmetic
    <3> QED BY <3>1, <3>2, <3>3
  <2>3. Frame(1)' = i /\ Place(1)' = SizeBytes + L + n + 1
    BY <2>2 DEF Frame, Place
  <2>4. extracted' # NoMessage
    BY <1>6, <1>7 DEF NoMessage
  <2>5. SizeBytes + (L + n) + 1 = SizeBytes + L + n + 1
    BY <1>0, PlaceArithmetic
  <2> QED BY <1>0, <1>3, <1>6, <2>1, <2>3, <2>4, <2>5 DEF ReadOn, NoMessage, i
<1>12. DeliveredAreTheFrames'
  BY <1>0 DEF ReceiveInv, DeliveredAreTheFrames, Body
<1> QED BY <1>8, <1>9, <1>10, <1>11, <1>12 DEF ReceiveInv, StreamInv

LEMMA ExtractMessageStep ==
    ASSUME ReceiveInv, ExtractMessage
    PROVE  ReceiveInv'
<1> DEFINE i == Len(delivered) + 1
           L == Len(extracted.bytes)
           n == Missing
           bytes == extracted.bytes \o Active(n)
<1>0. /\ ReceiveTypeOK /\ FramesWhole /\ ReadOn
      /\ UNCHANGED <<frames, stream, phase, asked, buffer, capacity, closed>>
      /\ phase = "extract" /\ extracted # NoMessage /\ extracted' = NoMessage
      /\ ActiveSize \in Nat /\ ActiveSize >= n /\ readPos' = readPos + n /\ L \in Nat /\ UnreadLen \in Nat
      /\ Len(delivered) \in Nat /\ delivered' = Append(delivered, bytes) /\ delivered \in Seq(Seq(Byte))
  BY ReceiveNumbers DEF ReceiveInv, ReceiveTypeOK, ExtractMessage, StreamInv, Stopping
<1>1. /\ i \in 1 .. Len(frames) /\ frames[i].valid
      /\ n \in Nat \ {0} /\ n = frames[i].size - L
      /\ n <= UnreadLen
      /\ n < UnreadLen => Frame(n + 1) = i + 1 /\ Place(n + 1) = 1
      /\ n = UnreadLen => i = Len(frames)
  BY <1>0, AtMessage
<1>2. n \in 0 .. ActiveSize /\ n \in 0 .. UnreadLen /\ n <= Missing
  BY <1>0, <1>1
<1>3. /\ bytes \in Seq(Byte) /\ Len(bytes) = L + n
      /\ \A k \in 1 .. L + n : bytes[k] = <<i, SizeBytes + k>>
  BY <1>0, <1>2, NextOfBody
<1>4. /\ readPos' \in 0 .. Len(buffer)
      /\ UnreadLen' = UnreadLen - n /\ \A j \in 1 .. UnreadLen - n : UnreadAt(j)' = UnreadAt(j + n)
  BY <1>0, <1>2, ExtractUnread
<1>5. frames[i].size \in Nat /\ L + n = frames[i].size
  <2>1. frames[i].size \in Nat
    BY <1>0, <1>1, ReceiveNumbers
  <2>2. n \in Nat /\ n = frames[i].size - L
    BY <1>1
  <2>3. L \in Nat
    BY <1>0
  <2> HIDE DEF n, L
  <2> QED BY <2>1, <2>2, <2>3
<1> HIDE DEF i, n, bytes
<1>6. bytes = Body(i)
  <2> DEFINE body == [k \in 1 .. frames[i].size |-> <<i, SizeBytes + k>>]
  <2>1. bytes \in [1 .. Len(bytes) -> Byte]
    BY <1>3, LenProperties
  <2>2. bytes = [k \in 1 .. Len(bytes) |-> bytes[k]]
    BY <2>1
  <2>3. bytes = body
    BY <1>3, <1>5, <2>2
  <2> QED BY <2>3 DEF Body
<1>7. /\ delivered' \in Seq(Seq(Byte)) /\ Len(delivered') = i /\ delivered'[i] = bytes
      /\ \A k \in 1 .. Len(delivered) : delivered'[k] = delivered[k]
  BY <1>0, <1>3, AppendProperties DEF i
<1>8. ReceiveTypeOK'
  <2>1. /\ NoMessage \in [size : Sizes \cup {0}, bytes : Seq(Byte)]
        /\ Len(NoMessage.bytes) <= NoMessage.size
    <3>1. <<>> \in Seq(Byte) /\ Len(<<>>) = 0
      BY EmptySeq
    <3> QED BY <3>1 DEF NoMessage
  <2> QED BY <1>0, <1>4, <1>7, <2>1 DEF ReceiveTypeOK
<1>9. ExtractedInv'
  BY <1>0 DEF ExtractedInv, NoMessage
<1>10. FramesWhole'
  BY <1>0, <1>2, <1>4, FramesStayWhole
<1>11. ReadOn'
  <2>1. CASE n = UnreadLen
    BY <1>0, <1>1, <1>4, <1>7, <2>1 DEF ReadOn, NoMessage
  <2>2. CASE n < UnreadLen
    <3>1. 1 \in 1 .. UnreadLen - n /\ 1 + n = n + 1 /\ UnreadLen' # 0
      BY <1>0, <1>1, <1>4, <2>2
    <3>2. Frame(1)' = i + 1 /\ Place(1)' = 1
      BY <1>1, <1>4, <2>2, <3>1 DEF Frame, Place
    <3> QED BY <1>0, <1>7, <3>1, <3>2 DEF ReadOn, NoMessage
  <2> QED BY <1>0, <1>1, <2>1, <2>2
<1>12. DeliveredAreTheFrames'
  <2>1. Len(delivered') <= Len(frames)
    BY <1>0, <1>1, <1>7, ReceiveNumbers
  <2>2. ASSUME NEW k \in 1 .. Len(delivered') PROVE delivered'[k] = Body(k) /\ frames[k].valid
    <3>1. CASE k = i
      BY <1>1, <1>6, <1>7, <3>1
    <3>2. CASE k # i
      <4>1. k \in 1 .. Len(delivered)
        BY <1>0, <1>7, <3>2 DEF i
      <4> QED BY <1>7, <4>1 DEF ReceiveInv, DeliveredAreTheFrames
    <3> QED BY <3>1, <3>2
  <2> QED BY <1>0, <2>1, <2>2 DEF DeliveredAreTheFrames, Body
<1> QED BY <1>8, <1>9, <1>10, <1>11, <1>12 DEF ReceiveInv, StreamInv

LEMMA ReceiveInvInductive == ReceiveInv /\ [ReceiveNext]_receiveVars => ReceiveInv'
<1> SUFFICES ASSUME ReceiveInv, [ReceiveNext]_receiveVars PROVE ReceiveInv'
  OBVIOUS
<1>0. closed \in BOOLEAN /\ phase \in {"created", "refused", "rearm", "arm", "reading", "extract", "stopped"}
  BY DEF ReceiveInv, ReceiveTypeOK
<1>1. CASE UNCHANGED receiveVars
  BY <1>0, <1>1, StopsStep DEF receiveVars, Stopping
<1>2. CASE CloseWhileReceiving
  BY <1>2, StopsStep DEF CloseWhileReceiving, Close, Stopping
<1>3. CASE ReadFails \/ ReadUnlessClosed
  BY <1>0, <1>3, StopsStep DEF ReadFails, ReadUnlessClosed, Close, Stopping
<1>4. CASE ExtractNothing
  BY <1>0, <1>4, StopsStep DEF ExtractNothing, Stopping
<1>5. CASE Start
  BY <1>0, <1>5, StopsStep DEF Start, Stopping
<1> QED BY <1>1, <1>2, <1>3, <1>4, <1>5, PeerSendsStep, ReadStep, ExtractHeaderStep, ExtractEmptyMessageStep,
           ExtractPartStep, ExtractMessageStep
        DEF ReceiveNext, Arrival, HandleRead

LEMMA ReceiveInvAlways == ReceiveSpec => []ReceiveInv
<1>1. ReceiveInit => ReceiveInv
  <2> SUFFICES ASSUME ReceiveInit PROVE ReceiveInv
    OBVIOUS
  <2>1. ReceiveTypeOK
    BY ReceiveTypesInitially
  <2>2. /\ frames = <<>> /\ stream = <<>> /\ buffer = <<>> /\ readPos = 0 /\ delivered = <<>>
        /\ Len(stream) = 0 /\ Len(buffer) = 0 /\ Len(delivered) = 0 /\ Len(frames) = 0 /\ extracted = NoMessage
    BY EmptySeq DEF ReceiveInit
  <2>3. UnreadLen = 0
    BY <2>2 DEF UnreadLen
  <2>4. FramesWhole /\ ReadOn
    BY <2>2, <2>3 DEF FramesWhole, ReadOn
  <2>5. ExtractedInv /\ DeliveredAreTheFrames
    BY <2>2 DEF ExtractedInv, DeliveredAreTheFrames
  <2> QED BY <2>1, <2>4, <2>5 DEF ReceiveInv, StreamInv
<1> QED BY <1>1, ReceiveInvInductive, PTL DEF ReceiveSpec

\* No read is given more room than there is, and no message grows beyond the
\* size its header gave, for any sizes and buffers (Connection.h:159, 225, 232).
THEOREM ReceiveTypeCorrect == ReceiveSpec => []ReceiveTypeOK
<1>1. ReceiveInv => ReceiveTypeOK
  BY DEF ReceiveInv
<1> QED BY <1>1, ReceiveInvAlways, PTL

\* However a read cuts the stream, what is handed on is the bodies of the
\* peer's frames in their order, whole, up to the first rejected header
\* (Connection.h ExtractMessages).
THEOREM FramesAreDelivered == ReceiveSpec => []DeliveredAreTheFrames
<1>1. ReceiveInv => DeliveredAreTheFrames
  BY DEF ReceiveInv
<1> QED BY <1>1, ReceiveInvAlways, PTL

-----------------------------------------------------------------------------
(* Induction, from the well-foundedness of Nat: a set of numbers without a *)
(* least one is empty.                                                     *)

Less == {pair \in Nat \X Nat : pair[1] < pair[2]}

LEMMA LeastNumber ==
    ASSUME NEW T, T \subseteq Nat, T # {}
    PROVE  \E n \in T : \A m \in T : n <= m
<1>1. IsWellFoundedOn(Less, Nat)
  BY NatLessThanWellFounded DEF OpToRel, Less
<1>2. PICK n \in T : \A m \in T : ~(<<m, n>> \in Less)
  BY <1>1, WFMin
<1>3. ASSUME NEW m \in T PROVE n <= m
  <2>1. n \in Nat /\ m \in Nat /\ ~(m < n)
    BY <1>2 DEF Less
  <2> QED BY <2>1
<1> QED BY <1>3

LEMMA Induction ==
    ASSUME NEW P, 0 \in P, \A n \in Nat : n \in P => n + 1 \in P
    PROVE  Nat \subseteq P
<1> SUFFICES ASSUME ~(Nat \subseteq P) PROVE FALSE
  OBVIOUS
<1> DEFINE T == Nat \ P
<1>1. T # {} /\ T \subseteq Nat
  OBVIOUS
<1>2. PICK n \in T : \A m \in T : n <= m
  BY <1>1, LeastNumber
<1>3. n # 0 /\ n \in Nat
  BY <1>2
<1>4. n - 1 \in Nat /\ n - 1 \in P
  <2>1. n - 1 \in Nat /\ ~(n <= n - 1)
    BY <1>3
  <2> QED BY <1>2, <2>1
<1>5. (n - 1) + 1 \in P
  BY <1>4
<1> QED BY <1>2, <1>3, <1>5

-----------------------------------------------------------------------------
(* FlattenSeq, whose definition chooses a recursive function.              *)

IsFlat(f, s, n) == f = [i \in 1 .. n |-> IF i = 1 THEN s[i] ELSE f[i - 1] \o s[i]]

LEMMA FlatStep ==
    ASSUME NEW s, NEW n \in Nat, NEW f, IsFlat(f, s, n), NEW i \in 1 .. n
    PROVE  f[i] = (IF i = 1 THEN s[1] ELSE f[i - 1] \o s[i])
<1> DEFINE g == [j \in 1 .. n |-> IF j = 1 THEN s[j] ELSE f[j - 1] \o s[j]]
<1>1. f = g
  BY DEF IsFlat
<1>2. g[i] = (IF i = 1 THEN s[1] ELSE f[i - 1] \o s[i])
  OBVIOUS
<1> HIDE DEF g
<1> QED BY <1>1, <1>2

LEMMA FlatExists ==
    ASSUME NEW s, NEW n \in Nat
    PROVE  \E f : IsFlat(f, s, n)
<1> DEFINE P == {k \in Nat : \E f : IsFlat(f, s, k)}
<1>1. 0 \in P
  <2>1. IsFlat(<<>>, s, 0)
    BY DEF IsFlat
  <2> QED BY <2>1
<1>2. ASSUME NEW k \in Nat, k \in P PROVE k + 1 \in P
  <2>1. PICK f : IsFlat(f, s, k)
    BY <1>2
  <2> DEFINE step(h, i) == IF i = 1 THEN s[i] ELSE h[i - 1] \o s[i]
             g == [i \in 1 .. k + 1 |-> step(f, i)]
  <2>2. \A i \in 1 .. k : f[i] = step(f, i)
    BY <2>1, FlatStep
  <2>3. \A i \in 1 .. k + 1 : g[i] = step(f, i)
    OBVIOUS
  <2>4. \A i \in 1 .. k : g[i] = f[i]
    <3> HIDE DEF g, step
    <3> QED BY <2>2, <2>3
  <2>5. ASSUME NEW i \in 1 .. k + 1 PROVE step(f, i) = step(g, i)
    <3>1. i # 1 => i - 1 \in 1 .. k
      OBVIOUS
    <3> HIDE DEF g
    <3> QED BY <2>4, <3>1
  <2>6. g = [i \in 1 .. k + 1 |-> step(g, i)]
    <3> HIDE DEF step
    <3> QED BY <2>5
  <2>7. IsFlat(g, s, k + 1)
    <3> HIDE DEF g
    <3> QED BY <2>6 DEF IsFlat
  <2> HIDE DEF g
  <2> QED BY <2>7
<1> HIDE DEF P
<1>3. \A k \in Nat : k \in P => k + 1 \in P
  BY <1>2
<1>4. n \in P
  BY <1>1, <1>3, Induction
<1> QED BY <1>4 DEF P

LEMMA FlattenIsFlat ==
    ASSUME NEW s, Len(s) \in Nat, Len(s) # 0
    PROVE  \E f : IsFlat(f, s, Len(s)) /\ FlattenSeq(s) = f[Len(s)]
<1> DEFINE flatten == CHOOSE f : f = [i \in 1 .. Len(s) |-> IF i = 1 THEN s[i] ELSE f[i - 1] \o s[i]]
<1>1. \E f : f = [i \in 1 .. Len(s) |-> IF i = 1 THEN s[i] ELSE f[i - 1] \o s[i]]
  BY FlatExists DEF IsFlat
<1>2. flatten = [i \in 1 .. Len(s) |-> IF i = 1 THEN s[i] ELSE flatten[i - 1] \o s[i]]
  BY <1>1, Zenon
<1>3. FlattenSeq(s) = flatten[Len(s)]
  BY Zenon DEF FlattenSeq
<1> QED BY <1>2, <1>3, Zenon DEF IsFlat

LEMMA FlattenEmpty == FlattenSeq(<<>>) = <<>>
BY EmptySeq DEF FlattenSeq

LEMMA FlattenOne ==
    ASSUME NEW T, NEW x \in T
    PROVE  FlattenSeq(<<x>>) = x
<1>1. PICK s : s = <<x>>
  OBVIOUS
<1>2. Len(s) \in Nat /\ Len(s) # 0 /\ Len(s) = 1 /\ s[1] = x
  BY <1>1
<1>3. PICK f : IsFlat(f, s, 1) /\ FlattenSeq(s) = f[1]
  BY <1>2, FlattenIsFlat
<1>4. f[1] = s[1]
  <2>1. 1 \in Nat /\ 1 \in 1 .. 1
    OBVIOUS
  <2> QED BY <1>3, <2>1, FlatStep
<1> QED BY <1>1, <1>2, <1>3, <1>4

\* Two functions built from sequences that agree agree.
LEMMA FlatAgrees ==
    ASSUME NEW s, NEW t, NEW n \in Nat, NEW m \in Nat, n <= m,
           NEW f, IsFlat(f, s, n), NEW g, IsFlat(g, t, m),
           \A i \in 1 .. n : s[i] = t[i]
    PROVE  \A i \in 1 .. n : f[i] = g[i]
<1> DEFINE P == {k \in Nat : k \in 1 .. n => f[k] = g[k]}
<1>1. 0 \in P
  OBVIOUS
<1>2. ASSUME NEW k \in Nat, k \in P PROVE k + 1 \in P
  <2>1. CASE k + 1 \notin 1 .. n
    BY <2>1
  <2>2. CASE k + 1 \in 1 .. n
    <3>1. k + 1 \in 1 .. m /\ (k + 1 # 1 => k \in 1 .. n) /\ (k + 1) - 1 = k
      BY <2>2
    <3>2. k + 1 # 1 => f[k] = g[k]
      BY <1>2, <3>1
    <3>3. f[k + 1] = (IF k + 1 = 1 THEN s[1] ELSE f[k] \o s[k + 1])
      BY <2>2, <3>1, FlatStep
    <3>4. g[k + 1] = (IF k + 1 = 1 THEN t[1] ELSE g[k] \o t[k + 1])
      BY <3>1, FlatStep
    <3>5. s[k + 1] = t[k + 1]
      BY <2>2
    <3> QED BY <3>2, <3>3, <3>4, <3>5
  <2> QED BY <2>1, <2>2
<1> HIDE DEF P
<1>3. Nat \subseteq P
  BY <1>1, <1>2, Induction
<1> QED BY <1>3 DEF P

LEMMA Associative ==
    ASSUME NEW T, NEW a, NEW b, NEW c, a \in Seq(T) /\ b \in Seq(T) /\ c \in Seq(T)
    PROVE  (a \o b) \o c = a \o (b \o c)
BY ConcatAssociative

LEMMA FlattenAppend ==
    ASSUME NEW T, NEW s \in Seq(Seq(T)), NEW x \in Seq(T)
    PROVE  FlattenSeq(Append(s, x)) = FlattenSeq(s) \o x
<1>1. CASE s = <<>>
  <2>1. Append(s, x) = <<x>>
    BY <1>1
  <2>2. FlattenSeq(<<x>>) = x /\ FlattenSeq(s) = <<>>
    BY <1>1, FlattenOne, FlattenEmpty
  <2> QED BY <2>1, <2>2, ConcatEmptySeq
<1>2. CASE s # <<>>
  <2>1. PICK t : t = Append(s, x)
    OBVIOUS
  <2>2. PICK n : n = Len(s)
    OBVIOUS
  <2>3. n \in Nat /\ n # 0
    BY <1>2, <2>2, EmptySeq
  <2>4. Len(t) = n + 1 /\ t[n + 1] = x /\ \A i \in 1 .. n : t[i] = s[i]
    BY <2>1, <2>2, AppendProperties
  <2>5. PICK f : IsFlat(f, s, n) /\ FlattenSeq(s) = f[n]
    BY <2>2, <2>3, FlattenIsFlat
  <2>6. PICK g : IsFlat(g, t, n + 1) /\ FlattenSeq(t) = g[n + 1]
    BY <2>3, <2>4, FlattenIsFlat
  <2>7. n + 1 \in Nat /\ n <= n + 1 /\ n + 1 \in 1 .. n + 1 /\ n + 1 # 1 /\ (n + 1) - 1 = n /\ n \in 1 .. n
    BY <2>3
  <2>8. f[n] = g[n]
    BY <2>3, <2>4, <2>5, <2>6, <2>7, FlatAgrees
  <2>9. g[n + 1] = g[n] \o t[n + 1]
    <3>1. g[n + 1] = (IF n + 1 = 1 THEN t[1] ELSE g[(n + 1) - 1] \o t[n + 1])
      <4>1. PICK m : m = n + 1
        OBVIOUS
      <4>2. m \in Nat /\ m \in 1 .. m /\ IsFlat(g, t, m)
        BY <2>6, <2>7, <4>1
      <4>3. g[m] = (IF m = 1 THEN t[1] ELSE g[m - 1] \o t[m])
        BY <4>2, FlatStep
      <4> QED BY <4>1, <4>3
    <3> QED BY <2>7, <3>1
  <2> QED BY <2>1, <2>4, <2>5, <2>6, <2>8, <2>9
<1> QED BY <1>1, <1>2

\* By induction on the length.
LEMMA FlattenTypeOf ==
    ASSUME NEW T, NEW s \in Seq(Seq(T))
    PROVE  FlattenSeq(s) \in Seq(T)
<1> DEFINE P == {k \in Nat : \A r \in Seq(Seq(T)) : Len(r) = k => FlattenSeq(r) \in Seq(T)}
<1>0. <<>> \in Seq(T)
  BY EmptySeq
<1>1. 0 \in P
  <2>1. ASSUME NEW r \in Seq(Seq(T)), Len(r) = 0 PROVE FlattenSeq(r) \in Seq(T)
    <3>1. r = <<>>
      BY <2>1, EmptySeq
    <3> QED BY <1>0, <3>1, FlattenEmpty
  <2> QED BY <2>1
<1>2. ASSUME NEW k \in Nat, k \in P PROVE k + 1 \in P
  <2>1. ASSUME NEW r \in Seq(Seq(T)), Len(r) = k + 1 PROVE FlattenSeq(r) \in Seq(T)
    <3>1. r # <<>>
      BY <2>1, EmptySeq
    <3>2. PICK q \in Seq(Seq(T)), x \in Seq(T) : r = Append(q, x)
      BY <3>1, SequenceEmptyOrAppend
    <3>3. Len(q) = k
      <4>1. Len(r) = Len(q) + 1 /\ Len(q) \in Nat
        BY <3>2, AppendProperties, LenProperties
      <4> QED BY <2>1, <4>1
    <3>4. FlattenSeq(q) \in Seq(T)
      BY <1>2, <3>3
    <3> QED BY <3>2, <3>4, FlattenAppend, ConcatProperties
  <2> QED BY <2>1
<1> HIDE DEF P
<1>3. Nat \subseteq P
  BY <1>1, <1>2, Induction
<1>4. Len(s) \in Nat
  BY LenProperties
<1> QED BY <1>3, <1>4 DEF P

LEMMA FlattenConsStep ==
    ASSUME NEW T, NEW q \in Seq(Seq(T)), NEW x \in Seq(T),
           q # <<>> => FlattenSeq(q) = Head(q) \o FlattenSeq(Tail(q))
    PROVE  FlattenSeq(Append(q, x)) = Head(Append(q, x)) \o FlattenSeq(Tail(Append(q, x)))
<1>1. FlattenSeq(Append(q, x)) = FlattenSeq(q) \o x
  BY FlattenAppend
<1>2. CASE q = <<>>
  <2>1. Head(Append(q, x)) = x /\ Tail(Append(q, x)) = <<>>
    BY <1>2, HeadTailAppend
  <2>2. <<>> \o x = x /\ x \o <<>> = x
    BY ConcatEmptySeq
  <2> QED BY <1>1, <1>2, <2>1, <2>2, FlattenEmpty
<1>3. CASE q # <<>>
  <2>1. PICK head, rest : head = Head(q) /\ rest = FlattenSeq(Tail(q))
    OBVIOUS
  <2>2. Head(Append(q, x)) = head /\ Tail(Append(q, x)) = Append(Tail(q), x)
    BY <1>3, <2>1, HeadTailAppend
  <2>3. head \in Seq(T) /\ Tail(q) \in Seq(Seq(T))
    BY <1>3, <2>1, HeadTailProperties
  <2>4. FlattenSeq(Append(Tail(q), x)) = rest \o x /\ rest \in Seq(T)
    BY <2>1, <2>3, FlattenAppend, FlattenTypeOf
  <2>5. FlattenSeq(q) = head \o rest
    BY <1>3, <2>1
  <2>6. (head \o rest) \o x = head \o (rest \o x)
    <3>1. head \in Seq(T) /\ rest \in Seq(T) /\ x \in Seq(T)
      BY <2>3, <2>4
    <3> QED BY <3>1, Associative
  <2> QED BY <1>1, <2>2, <2>4, <2>5, <2>6
<1> QED BY <1>2, <1>3

\* By induction on the length.
LEMMA FlattenCons ==
    ASSUME NEW T, NEW s \in Seq(Seq(T)), s # <<>>
    PROVE  FlattenSeq(s) = Head(s) \o FlattenSeq(Tail(s))
<1> DEFINE Holds(r) == r # <<>> => FlattenSeq(r) = Head(r) \o FlattenSeq(Tail(r))
           P == {k \in Nat : \A r \in Seq(Seq(T)) : Len(r) = k => Holds(r)}
<1>1. 0 \in P
  BY EmptySeq
<1>2. ASSUME NEW k \in Nat, k \in P PROVE k + 1 \in P
  <2>1. ASSUME NEW r \in Seq(Seq(T)), Len(r) = k + 1 PROVE Holds(r)
    <3>1. r # <<>>
      BY <2>1, EmptySeq
    <3>2. PICK q \in Seq(Seq(T)), x \in Seq(T) : r = Append(q, x)
      BY <3>1, SequenceEmptyOrAppend
    <3>3. Len(q) = k
      <4>1. Len(r) = Len(q) + 1 /\ Len(q) \in Nat
        BY <3>2, AppendProperties, LenProperties
      <4> QED BY <2>1, <4>1
    <3>4. Holds(q)
      BY <1>2, <3>3
    <3>5. FlattenSeq(r) = Head(r) \o FlattenSeq(Tail(r))
      BY <3>2, <3>4, FlattenConsStep
    <3> HIDE DEF Holds
    <3> QED BY <3>5 DEF Holds
  <2> HIDE DEF Holds
  <2> QED BY <2>1
<1> HIDE DEF P, Holds
<1>3. Nat \subseteq P
  BY <1>1, <1>2, Induction
<1>4. Len(s) \in Nat
  BY LenProperties
<1>5. Holds(s)
  BY <1>3, <1>4 DEF P
<1> QED BY <1>5 DEF Holds

\* Concatenation under a name, so that the provers take it as it is.
Cat(s, t) == s \o t

LEMMA CatFacts ==
    ASSUME NEW T
    PROVE  /\ \A a, b \in Seq(T) : Cat(a, b) \in Seq(T)
           /\ \A a, b, c \in Seq(T) : Cat(Cat(a, b), c) = Cat(a, Cat(b, c))
           /\ \A a \in Seq(T) : Cat(a, <<>>) = a /\ Cat(<<>>, a) = a
           /\ <<>> \in Seq(T)
<1>1. ASSUME NEW a \in Seq(T), NEW b \in Seq(T) PROVE Cat(a, b) \in Seq(T)
  BY ConcatProperties DEF Cat
<1>2. ASSUME NEW a \in Seq(T), NEW b \in Seq(T), NEW c \in Seq(T)
      PROVE  Cat(Cat(a, b), c) = Cat(a, Cat(b, c))
  BY ConcatAssociative DEF Cat
<1>3. ASSUME NEW a \in Seq(T) PROVE Cat(a, <<>>) = a /\ Cat(<<>>, a) = a
  BY ConcatEmptySeq DEF Cat
<1> QED BY <1>1, <1>2, <1>3, EmptySeq

LEMMA FlattenConcatStep ==
    ASSUME NEW T, NEW s \in Seq(Seq(T)), NEW q \in Seq(Seq(T)), NEW x \in Seq(T),
           FlattenSeq(s \o q) = FlattenSeq(s) \o FlattenSeq(q)
    PROVE  FlattenSeq(s \o Append(q, x)) = FlattenSeq(s) \o FlattenSeq(Append(q, x))
<1>1. PICK first, second : first = FlattenSeq(s) /\ second = FlattenSeq(q)
  OBVIOUS
<1>2. s \o q \in Seq(Seq(T)) /\ s \o Append(q, x) = Append(s \o q, x)
  <2>1. Append(q, x) = q \o <<x>> /\ <<x>> \in Seq(Seq(T)) /\ s \o q \in Seq(Seq(T))
    BY AppendIsConcat, ConcatProperties
  <2>2. Append(s \o q, x) = (s \o q) \o <<x>>
    BY <2>1, AppendIsConcat
  <2>3. (s \o q) \o <<x>> = s \o (q \o <<x>>)
    <3>1. PICK last : last = <<x>>
      OBVIOUS
    <3>2. s \in Seq(Seq(T)) /\ q \in Seq(Seq(T)) /\ last \in Seq(Seq(T))
      BY <2>1, <3>1
    <3>3. Cat(Cat(s, q), last) = Cat(s, Cat(q, last))
      BY <3>2, CatFacts
    <3> QED BY <3>1, <3>3 DEF Cat
  <2> QED BY <2>1, <2>2, <2>3
<1>3. first \in Seq(T) /\ second \in Seq(T) /\ x \in Seq(T)
  BY <1>1, FlattenTypeOf
<1>4. FlattenSeq(Append(s \o q, x)) = FlattenSeq(s \o q) \o x
  BY <1>2, FlattenAppend
<1>5. FlattenSeq(Append(q, x)) = second \o x
  BY <1>1, FlattenAppend
<1>6. (first \o second) \o x = first \o (second \o x)
  <2>1. Cat(Cat(first, second), x) = Cat(first, Cat(second, x))
    BY <1>3, CatFacts
  <2> QED BY <2>1 DEF Cat
<1> QED BY <1>1, <1>2, <1>4, <1>5, <1>6

\* By induction on the length.
LEMMA FlattenConcat ==
    ASSUME NEW T, NEW s \in Seq(Seq(T)), NEW t \in Seq(Seq(T))
    PROVE  FlattenSeq(s \o t) = FlattenSeq(s) \o FlattenSeq(t)
<1> DEFINE Holds(r) == FlattenSeq(s \o r) = FlattenSeq(s) \o FlattenSeq(r)
           P == {k \in Nat : \A r \in Seq(Seq(T)) : Len(r) = k => Holds(r)}
<1>0. PICK flat : flat = FlattenSeq(s)
  OBVIOUS
<1>1. flat \in Seq(T)
  BY <1>0, FlattenTypeOf
<1>2. 0 \in P
  <2>1. ASSUME NEW r \in Seq(Seq(T)), Len(r) = 0 PROVE Holds(r)
    <3>1. r = <<>>
      BY <2>1, EmptySeq
    <3>2. s \o <<>> = s /\ flat \o <<>> = flat
      BY <1>1, ConcatEmptySeq
    <3> QED BY <1>0, <3>1, <3>2, FlattenEmpty
  <2> QED BY <2>1
<1>3. ASSUME NEW k \in Nat, k \in P PROVE k + 1 \in P
  <2>1. ASSUME NEW r \in Seq(Seq(T)), Len(r) = k + 1 PROVE Holds(r)
    <3>1. r # <<>>
      BY <2>1, EmptySeq
    <3>2. PICK q \in Seq(Seq(T)), x \in Seq(T) : r = Append(q, x)
      BY <3>1, SequenceEmptyOrAppend
    <3>3. Len(q) = k
      <4>1. Len(r) = Len(q) + 1 /\ Len(q) \in Nat
        BY <3>2, AppendProperties, LenProperties
      <4> QED BY <2>1, <4>1
    <3>4. FlattenSeq(s \o q) = flat \o FlattenSeq(q)
      BY <1>0, <1>3, <3>3
    <3> HIDE DEF Holds, P
    <3>5. FlattenSeq(s \o Append(q, x)) = flat \o FlattenSeq(Append(q, x))
      BY <1>0, <3>4, FlattenConcatStep
    <3> QED BY <1>0, <3>2, <3>5 DEF Holds
  <2> HIDE DEF Holds
  <2> QED BY <2>1
<1> HIDE DEF P, Holds
<1>4. Nat \subseteq P
  BY <1>2, <1>3, Induction
<1>5. Len(t) \in Nat
  BY LenProperties
<1>6. Holds(t)
  BY <1>4, <1>5 DEF P
<1> QED BY <1>6 DEF Holds

-----------------------------------------------------------------------------
(* Sending: what is left of the front buffer, before and after what the    *)
(* socket took of it.                                                      *)

Taken(s, n) == SubSeq(s, 1, n)
Rest(s, n) == SubSeq(s, n + 1, Len(s))

LEMMA TakenAndRest ==
    ASSUME NEW T, NEW s \in Seq(T), NEW n \in 0 .. Len(s)
    PROVE  /\ Taken(s, n) \in Seq(T) /\ Rest(s, n) \in Seq(T)
           /\ Taken(s, n) \o Rest(s, n) = s
           /\ Rest(s, 0) = s
           /\ Len(Rest(s, n)) = Len(s) - n
<1>0. Len(s) \in Nat /\ n \in Nat
  BY LenProperties
<1>1. Taken(s, n) \in Seq(T)
  <2>1. \A i \in 1 .. n : s[i] \in T
    BY <1>0, ElementOfSeq
  <2> QED BY <1>0, <2>1, SubSeqProperties DEF Taken
<1>2. Rest(s, n) \in Seq(T) /\ Len(Rest(s, n)) = Len(s) - n
  <2>1. \A i \in n + 1 .. Len(s) : s[i] \in T
    BY <1>0, ElementOfSeq
  <2>2. n + 1 \in Int /\ Len(s) \in Int
    BY <1>0
  <2>3. /\ SubSeq(s, n + 1, Len(s)) \in Seq(T)
        /\ Len(SubSeq(s, n + 1, Len(s))) = (IF n + 1 <= Len(s) THEN Len(s) - (n + 1) + 1 ELSE 0)
    BY <2>1, <2>2, SubSeqProperties
  <2>4. (IF n + 1 <= Len(s) THEN Len(s) - (n + 1) + 1 ELSE 0) = Len(s) - n
    BY <1>0
  <2> QED BY <2>3, <2>4 DEF Rest
<1>3. Taken(s, n) \o Rest(s, n) = s
  <2>1. 1 \in 1 .. Len(s) + 1 /\ n \in 1 - 1 .. Len(s) /\ Len(s) \in n .. Len(s)
    BY <1>0
  <2>2. SubSeq(s, 1, n) \o SubSeq(s, n + 1, Len(s)) = SubSeq(s, 1, Len(s))
    BY <2>1, ConcatAdjacentSubSeq
  <2> QED BY <2>2, SubSeqFull DEF Taken, Rest
<1>4. Rest(s, 0) = s
  BY SubSeqFull DEF Rest
<1> QED BY <1>1, <1>2, <1>3, <1>4

LEMMA RestElement ==
    ASSUME NEW T, NEW s \in Seq(T), NEW n \in 0 .. Len(s)
    PROVE  \A i \in 1 .. Len(Rest(s, n)) : Rest(s, n)[i] = s[n + i]
<1>0. Len(s) \in Nat /\ n \in Nat
  BY LenProperties
<1>1. \A i \in n + 1 .. Len(s) : s[i] \in T
  BY <1>0, ElementOfSeq
<1>2. n + 1 \in Int /\ Len(s) \in Int
  BY <1>0
<1>3. \A i \in 1 .. Len(s) - (n + 1) + 1 : SubSeq(s, n + 1, Len(s))[i] = s[(n + 1) + i - 1]
  BY <1>1, <1>2, SubSeqProperties
<1>4. Len(Rest(s, n)) = Len(s) - n
  BY TakenAndRest
<1>5. ASSUME NEW i \in 1 .. Len(Rest(s, n)) PROVE Rest(s, n)[i] = s[n + i]
  <2>1. i \in 1 .. Len(s) - (n + 1) + 1 /\ (n + 1) + i - 1 = n + i
    BY <1>0, <1>4
  <2>2. SubSeq(s, n + 1, Len(s))[i] = s[(n + 1) + i - 1]
    BY <1>3, <2>1
  <2> QED BY <2>1, <2>2 DEF Rest
<1> QED BY <1>5

LEMMA RestOfConcat ==
    ASSUME NEW T, NEW s \in Seq(T), NEW t \in Seq(T), NEW n \in 0 .. Len(s)
    PROVE  Rest(s \o t, n) = Rest(s, n) \o t
<1>0. PICK whole : whole = s \o t
  OBVIOUS
<1>1. whole \in Seq(T) /\ Len(whole) = Len(s) + Len(t) /\ Len(s) \in Nat /\ Len(t) \in Nat /\ n \in Nat
      /\ \A i \in 1 .. Len(s) + Len(t) : whole[i] = IF i <= Len(s) THEN s[i] ELSE t[i - Len(s)]
  BY <1>0, ConcatProperties, LenProperties
<1>2. n \in 0 .. Len(whole)
  BY <1>1
<1>3. PICK rest, left, both : rest = Rest(whole, n) /\ left = Rest(s, n) /\ both = left \o t
  OBVIOUS
<1>4. left \in Seq(T) /\ Len(left) = Len(s) - n /\ rest \in Seq(T) /\ Len(rest) = Len(whole) - n
  BY <1>1, <1>2, <1>3, TakenAndRest
<1>5. both \in Seq(T) /\ Len(both) = Len(left) + Len(t)
      /\ \A i \in 1 .. Len(left) + Len(t) : both[i] = IF i <= Len(left) THEN left[i] ELSE t[i - Len(left)]
  BY <1>3, <1>4, ConcatProperties
<1>6. Len(rest) = Len(both)
  BY <1>1, <1>4, <1>5
<1>7. \A i \in 1 .. Len(rest) : rest[i] = whole[n + i]
  BY <1>1, <1>2, <1>3, <1>4, RestElement
<1>8. \A i \in 1 .. Len(left) : left[i] = s[n + i]
  BY <1>1, <1>3, <1>4, RestElement
<1>9. ASSUME NEW i \in 1 .. Len(rest) PROVE rest[i] = both[i]
  <2>0. i \in Nat /\ n + i \in 1 .. Len(s) + Len(t) /\ i \in 1 .. Len(left) + Len(t)
    BY <1>1, <1>4
  <2>1. CASE i <= Len(left)
    <3>1. i \in 1 .. Len(left) /\ n + i <= Len(s)
      BY <1>1, <1>4, <2>0, <2>1
    <3> QED BY <1>1, <1>5, <1>7, <1>8, <2>0, <2>1, <3>1
  <2>2. CASE ~(i <= Len(left))
    <3>1. ~(n + i <= Len(s)) /\ n + i - Len(s) = i - Len(left)
      BY <1>1, <1>4, <2>0, <2>2
    <3>2. rest[i] = t[n + i - Len(s)]
      BY <1>1, <1>7, <2>0, <3>1
    <3>3. both[i] = t[i - Len(left)]
      BY <1>5, <2>0, <2>2
    <3> QED BY <3>1, <3>2, <3>3
  <2> QED BY <2>1, <2>2
<1> QED BY <1>0, <1>3, <1>4, <1>5, <1>6, <1>9, SeqEqual

-----------------------------------------------------------------------------
(* Sending: the invariant.                                                 *)

Number == 1 .. MaxBytes

\* A write is outstanding only while the queue of buffers is processed, and
\* is one of its front buffer.
WriteHasBuffer == write # "none" => processing /\ buffers # <<>>

\* Between two runs of EndSendings nothing is batched.
BatchIsSent == ~looping => batch = <<>>

SendInv ==
    /\ TypeOK
    /\ WriteHasBuffer
    /\ BatchIsSent
    /\ StreamIntact

\* Unwritten, of any buffers and any outstanding write.
Left(bufs, outstanding, n) ==
    IF outstanding = "done" THEN Rest(FlattenSeq(bufs), n) ELSE FlattenSeq(bufs)

LEMMA UnwrittenIsLeft == Unwritten = Left(buffers, write, written)
BY DEF Unwritten, Left, Rest

LEMMA FrontIsNoLonger ==
    ASSUME NEW T, NEW bufs \in Seq(Seq(T)), bufs # <<>>
    PROVE  /\ Head(bufs) \in Seq(T) /\ FlattenSeq(Tail(bufs)) \in Seq(T)
           /\ FlattenSeq(bufs) = Head(bufs) \o FlattenSeq(Tail(bufs))
           /\ Len(Head(bufs)) \in Nat /\ Len(FlattenSeq(bufs)) \in Nat
           /\ Len(Head(bufs)) <= Len(FlattenSeq(bufs))
<1>1. Head(bufs) \in Seq(T) /\ Tail(bufs) \in Seq(Seq(T))
  BY HeadTailProperties
<1>2. PICK front, behind : front = Head(bufs) /\ behind = FlattenSeq(Tail(bufs))
  OBVIOUS
<1>3. front \in Seq(T) /\ behind \in Seq(T)
  BY <1>1, <1>2, FlattenTypeOf
<1>4. FlattenSeq(bufs) = front \o behind
  BY <1>2, FlattenCons
<1>5. Len(front \o behind) = Len(front) + Len(behind) /\ Len(front) \in Nat /\ Len(behind) \in Nat
  BY <1>3, ConcatProperties, LenProperties
<1>6. Len(front) <= Len(front) + Len(behind) /\ Len(front) + Len(behind) \in Nat
  BY <1>5
<1> QED BY <1>2, <1>3, <1>4, <1>5, <1>6

LEMMA LeftType ==
    ASSUME NEW T, NEW bufs \in Seq(Seq(T)), NEW outstanding,
           NEW n \in Nat, outstanding = "done" => bufs # <<>> /\ n <= Len(Head(bufs))
    PROVE  Left(bufs, outstanding, n) \in Seq(T)
<1>1. PICK all : all = FlattenSeq(bufs)
  OBVIOUS
<1>2. all \in Seq(T)
  BY <1>1, FlattenTypeOf
<1>3. CASE outstanding # "done"
  BY <1>1, <1>2, <1>3 DEF Left
<1>4. CASE outstanding = "done"
  <2>1. n \in 0 .. Len(all)
    BY <1>1, <1>4, FrontIsNoLonger
  <2> QED BY <1>1, <1>2, <1>4, <2>1, TakenAndRest DEF Left
<1> QED BY <1>3, <1>4

LEMMA LeftGrows ==
    ASSUME NEW T, NEW bufs \in Seq(Seq(T)), NEW more \in Seq(Seq(T)), NEW outstanding, NEW later,
           outstanding = "done" <=> later = "done",
           NEW n \in Nat, outstanding = "done" => bufs # <<>> /\ n <= Len(Head(bufs))
    PROVE  Left(bufs \o more, later, n) = Left(bufs, outstanding, n) \o FlattenSeq(more)
<1>0. PICK all, x : all = FlattenSeq(bufs) /\ x = FlattenSeq(more)
  OBVIOUS
<1>1. FlattenSeq(bufs \o more) = all \o x
  BY <1>0, FlattenConcat
<1>2. all \in Seq(T) /\ x \in Seq(T)
  BY <1>0, FlattenTypeOf
<1>3. CASE outstanding # "done"
  BY <1>0, <1>1, <1>2, <1>3 DEF Left
<1>4. CASE outstanding = "done"
  <2>1. n \in 0 .. Len(all)
    BY <1>0, <1>4, FrontIsNoLonger
  <2>2. Rest(all \o x, n) = Rest(all, n) \o x
    BY <1>2, <2>1, RestOfConcat
  <2> QED BY <1>0, <1>1, <1>4, <2>2 DEF Left
<1> QED BY <1>3, <1>4

\* EnqueueByteBuffers puts its buffers behind what is left to write.
LEMMA EnqueueByteBuffersStep ==
    ASSUME TypeOK, WriteHasBuffer, NEW bufs \in Seq(Seq(Number)), EnqueueByteBuffers(bufs)
    PROVE  /\ buffers' \in Seq(Seq(Number))
           /\ processing' \in BOOLEAN /\ write' \in {"none", "pending", "done", "failed"}
           /\ written' \in 0 .. (IF buffers' = <<>> THEN 0 ELSE Len(Head(buffers')))
           /\ WriteHasBuffer'
           /\ Unwritten \in Seq(Number)
           /\ Unwritten' = Unwritten \o FlattenSeq(bufs)
<1>0. /\ buffers \in Seq(Seq(Number)) /\ processing \in BOOLEAN /\ write \in {"none", "pending", "done", "failed"}
      /\ written \in 0 .. (IF buffers = <<>> THEN 0 ELSE Len(Head(buffers)))
  BY DEF TypeOK, Number
<1>1. buffers' = buffers \o bufs /\ written' = written
  BY DEF EnqueueByteBuffers
<1>2. /\ processing' \in BOOLEAN /\ write' \in {"none", "pending", "done", "failed"}
      /\ write = "done" <=> write' = "done"
      /\ write' # "none" => processing' /\ (write # "none" \/ bufs # <<>>)
  <2>1. CASE bufs = <<>> \/ processing
    BY <1>0, <2>1 DEF EnqueueByteBuffers, WriteHasBuffer
  <2>2. CASE ~(bufs = <<>> \/ processing)
    <3>1. processing' = TRUE /\ write' = "pending" /\ write = "none"
      BY <1>0, <2>2 DEF EnqueueByteBuffers, WriteHasBuffer
    <3> QED BY <2>2, <3>1
  <2> QED BY <2>1, <2>2
<1>3. buffers' \in Seq(Seq(Number)) /\ (buffers' = <<>> <=> buffers = <<>> /\ bufs = <<>>)
  BY <1>0, <1>1, ConcatProperties, ConcatEqualIffEmpty
<1>4. WriteHasBuffer'
  BY <1>2, <1>3 DEF WriteHasBuffer
<1>5. buffers # <<>> => Head(buffers') = Head(buffers) /\ Len(Head(buffers)) \in Nat
  <2>1. ASSUME buffers # <<>> PROVE Head(buffers') = Head(buffers) /\ Len(Head(buffers)) \in Nat
    <3>1. Len(Head(buffers)) \in Nat
      BY <1>0, <2>1, FrontIsNoLonger
    <3>2. Len(buffers) \in Nat \ {0} /\ Len(bufs) \in Nat
      BY <1>0, <2>1, EmptySeq, LenProperties
    <3>3. 1 \in 1 .. Len(buffers) + Len(bufs) /\ 1 <= Len(buffers)
      BY <3>2
    <3>4. buffers'[1] = buffers[1]
      BY <1>0, <1>1, <3>3, ConcatProperties
    <3>5. Head(buffers) = buffers[1] /\ Head(buffers') = buffers'[1]
      BY <1>3, <2>1
    <3> QED BY <3>1, <3>4, <3>5
  <2> QED BY <2>1
<1>6. written' \in 0 .. (IF buffers' = <<>> THEN 0 ELSE Len(Head(buffers'))) /\ written \in Nat
  <2>1. CASE buffers # <<>>
    BY <1>0, <1>1, <1>3, <1>5, <2>1
  <2>2. CASE buffers = <<>>
    <3>1. written = 0
      BY <1>0, <2>2
    <3>2. buffers' # <<>> => Len(Head(buffers')) \in Nat
      BY <1>3, HeadTailProperties, LenProperties
    <3> QED BY <1>1, <3>1, <3>2
  <2> QED BY <2>1, <2>2
<1>7. /\ Left(buffers, write, written) \in Seq(Number)
      /\ Left(buffers', write', written') = Left(buffers, write, written) \o FlattenSeq(bufs)
  <2>1. write = "done" => buffers # <<>> /\ written <= Len(Head(buffers))
    BY <1>0, <1>5 DEF WriteHasBuffer
  <2>2. PICK bufs0, write0, written0, write1 :
             bufs0 = buffers /\ write0 = write /\ written0 = written /\ write1 = write'
    OBVIOUS
  <2>3. /\ bufs0 \in Seq(Seq(Number)) /\ written0 \in Nat /\ (write0 = "done" <=> write1 = "done")
        /\ write0 = "done" => bufs0 # <<>> /\ written0 <= Len(Head(bufs0))
    BY <1>0, <1>2, <1>6, <2>1, <2>2
  <2>4. /\ Left(bufs0, write0, written0) \in Seq(Number)
        /\ Left(bufs0 \o bufs, write1, written0) = Left(bufs0, write0, written0) \o FlattenSeq(bufs)
    BY <2>3, LeftGrows, LeftType
  <2> QED BY <1>1, <2>2, <2>4
<1>8. Unwritten' = Left(buffers', write', written')
  BY DEF Unwritten, Left, Rest
<1> QED BY <1>2, <1>3, <1>4, <1>6, <1>7, <1>8, UnwrittenIsLeft

\* The stream: wire, left to write, batch, queue, then what Send adds.
LEMMA Regroup ==
    ASSUME NEW T, NEW w \in Seq(T), NEW u \in Seq(T), NEW b \in Seq(T), NEW q \in Seq(T), NEW m \in Seq(T)
    PROVE  Cat(Cat(Cat(w, u), b), Cat(q, m)) = Cat(Cat(Cat(Cat(w, u), b), q), m)
<1>1. PICK wu, wub : wu = Cat(w, u) /\ wub = Cat(wu, b)
  OBVIOUS
<1>2. wu \in Seq(T) /\ wub \in Seq(T)
  BY <1>1, CatFacts
<1>3. Cat(wub, Cat(q, m)) = Cat(Cat(wub, q), m)
  BY <1>2, CatFacts
<1> QED BY <1>1, <1>3

\* The same when m goes from the queue to the batch.
LEMMA RegroupMoved ==
    ASSUME NEW T, NEW w \in Seq(T), NEW u \in Seq(T), NEW b \in Seq(T), NEW m \in Seq(T), NEW q \in Seq(T)
    PROVE  Cat(Cat(Cat(w, u), b), Cat(m, q)) = Cat(Cat(w, Cat(Cat(u, b), m)), q)
<1>1. PICK ub : ub = Cat(u, b)
  OBVIOUS
<1>2. ub \in Seq(T) /\ Cat(w, ub) = Cat(Cat(w, u), b)
  BY <1>1, CatFacts
<1>3. Cat(Cat(w, ub), m) = Cat(w, Cat(ub, m))
  BY <1>2, CatFacts
<1>4. Cat(Cat(Cat(w, u), b), Cat(m, q)) = Cat(Cat(Cat(Cat(w, u), b), m), q)
  BY Regroup
<1> QED BY <1>1, <1>2, <1>3, <1>4

LEMMA SendTypes ==
    ASSUME SendInv
    PROVE  /\ queue \in Seq(Seq(Number)) /\ FlattenSeq(queue) \in Seq(Number)
           /\ buffers \in Seq(Seq(Number)) /\ batch \in Seq(Number) /\ wire \in Seq(Number)
           /\ Unwritten \in Seq(Number)
           /\ written \in Nat /\ Len(batch) \in Nat /\ MaxBytes \in Nat /\ SendBufferSize \in Nat \ {0}
           /\ write = "done" => buffers # <<>> /\ written <= Len(Head(buffers))
<1>1. queue \in Seq(Seq(Number)) /\ buffers \in Seq(Seq(Number)) /\ batch \in Seq(Number) /\ wire \in Seq(Number)
  BY DEF SendInv, TypeOK, Number
<1>2. FlattenSeq(queue) \in Seq(Number) /\ Len(batch) \in Nat
  BY <1>1, FlattenTypeOf, LenProperties
<1>3. buffers # <<>> => Len(Head(buffers)) \in Nat
  BY <1>1, FrontIsNoLonger
<1>4. written \in Nat
  <2>1. written \in 0 .. (IF buffers = <<>> THEN 0 ELSE Len(Head(buffers)))
    BY DEF SendInv, TypeOK
  <2> QED BY <1>3, <2>1
<1>5. write = "done" => buffers # <<>> /\ written <= Len(Head(buffers))
  <2>1. written \in 0 .. (IF buffers = <<>> THEN 0 ELSE Len(Head(buffers)))
    BY DEF SendInv, TypeOK
  <2>2. write = "done" => buffers # <<>>
    BY DEF SendInv, WriteHasBuffer
  <2> QED BY <1>3, <2>1, <2>2
<1>6. Left(buffers, write, written) \in Seq(Number)
  BY <1>1, <1>4, <1>5, LeftType
<1> QED BY <1>1, <1>2, <1>4, <1>5, <1>6, UnwrittenIsLeft, SendAssumption

LEMMA BytesFollow ==
    ASSUME NEW from \in Nat, NEW size \in Nat, from + size <= MaxBytes
    PROVE  /\ Bytes(from, size) \in Seq(Number)
           /\ [i \in 1 .. from |-> i] \o Bytes(from, size) = [i \in 1 .. from + size |-> i]
<1> DEFINE first == [i \in 1 .. from |-> i]
           next == [i \in 1 .. size |-> from + i]
           all == [i \in 1 .. from + size |-> i]
<1>0. MaxBytes \in Nat
  BY SendAssumption
<1>1. first \in Seq(Number) /\ Len(first) = from /\ \A i \in 1 .. from : first[i] = i
  <2>1. \A i \in 1 .. from : i \in Number
    BY <1>0 DEF Number
  <2> QED BY <2>1
<1>2. next \in Seq(Number) /\ Len(next) = size /\ \A i \in 1 .. size : next[i] = from + i
  <2>1. \A i \in 1 .. size : from + i \in Number
    BY <1>0 DEF Number
  <2> QED BY <2>1
<1>3. all \in Seq(Number) /\ Len(all) = from + size /\ \A i \in 1 .. from + size : all[i] = i
  <2>1. \A i \in 1 .. from + size : i \in Number
    BY <1>0 DEF Number
  <2> QED BY <2>1
<1>4. next = Bytes(from, size)
  BY DEF Bytes
<1> HIDE DEF first, next, all
<1>5. PICK both : both = first \o next
  OBVIOUS
<1>6. both \in Seq(Number) /\ Len(both) = from + size
      /\ \A i \in 1 .. from + size : both[i] = IF i <= from THEN first[i] ELSE next[i - from]
  BY <1>1, <1>2, <1>5, ConcatProperties
<1>7. ASSUME NEW i \in 1 .. from + size PROVE both[i] = all[i]
  <2>1. CASE i <= from
    <3>1. i \in 1 .. from
      BY <2>1
    <3> QED BY <1>1, <1>3, <1>6, <2>1, <3>1
  <2>2. CASE ~(i <= from)
    <3>1. i - from \in 1 .. size /\ from + (i - from) = i
      BY <2>2
    <3>2. both[i] = next[i - from]
      BY <1>6, <2>2
    <3>3. next[i - from] = i
      BY <1>2, <3>1
    <3> QED BY <1>3, <3>2, <3>3
  <2> QED BY <2>1, <2>2
<1>8. both = all
  BY <1>3, <1>6, <1>7, SeqEqual
<1> QED BY <1>2, <1>4, <1>5, <1>8 DEF first, all

\* A step that leaves the bytes alone.
bytesVars == <<queue, total, batch, bufferVars, wire>>

LEMMA BytesUnchanged ==
    ASSUME SendInv, UNCHANGED bytesVars
    PROVE  /\ WriteHasBuffer' /\ StreamIntact'
           /\ looping' = looping => BatchIsSent'
BY DEF SendInv, bytesVars, bufferVars, WriteHasBuffer, StreamIntact, Unwritten, BatchIsSent

LEMMA SendEnqueueStep ==
    ASSUME SendInv, NEW s \in Senders, NEW size \in MessageSizes, SendEnqueue(s, size)
    PROVE  SendInv'
<1>0. /\ total \in Nat /\ size \in Nat /\ total + size <= MaxBytes /\ total' = total + size
      /\ queue' = Append(queue, Bytes(total, size)) /\ linking' = linking \cup {s} /\ overlap' = dequeuing
      /\ sender' = [sender EXCEPT ![s] = "return"]
      /\ UNCHANGED <<dequeuing, output, looping, batch, bufferVars, closed, shutdown, attached, wire>>
  BY SendAssumption DEF SendInv, TypeOK, SendEnqueue, Queue!EnqueueTakesEffect
<1>1. PICK bytes, q, q1 : bytes = Bytes(total, size) /\ q = FlattenSeq(queue) /\ q1 = FlattenSeq(queue')
  OBVIOUS
<1>2. bytes \in Seq(Number) /\ [i \in 1 .. total |-> i] \o bytes = [i \in 1 .. total + size |-> i]
  BY <1>0, <1>1, BytesFollow
<1>3. queue' \in Seq(Seq(Number)) /\ q1 = q \o bytes
  <2>1. queue \in Seq(Seq(Number)) /\ queue' = Append(queue, bytes)
    BY <1>0, <1>1, SendTypes
  <2>2. Append(queue, bytes) \in Seq(Seq(Number))
    BY <1>2, <2>1, AppendProperties
  <2>3. FlattenSeq(Append(queue, bytes)) = FlattenSeq(queue) \o bytes
    BY <1>2, <2>1, FlattenAppend
  <2> QED BY <1>1, <2>1, <2>2, <2>3
<1>4. TypeOK'
  <2>1. total' \in 0 .. MaxBytes
    BY <1>0, SendTypes
  <2>2. sender' \in [Senders -> {"idle", "enqueue", "return"}]
    BY <1>0 DEF SendInv, TypeOK
  <2> QED BY <1>0, <1>3, <2>1, <2>2 DEF SendInv, TypeOK, Number, bufferVars
<1>5. WriteHasBuffer' /\ BatchIsSent'
  BY <1>0 DEF SendInv, WriteHasBuffer, BatchIsSent, bufferVars
<1>6. Unwritten' = Unwritten
  BY <1>0 DEF Unwritten, bufferVars
<1>7. StreamIntact'
  <2>1. wire \o Unwritten \o batch \o (q \o bytes) = (wire \o Unwritten \o batch \o q) \o bytes
    <3>1. /\ wire \in Seq(Number) /\ Unwritten \in Seq(Number) /\ batch \in Seq(Number)
          /\ q \in Seq(Number) /\ bytes \in Seq(Number)
      BY <1>1, <1>2, SendTypes
    <3>2. Cat(Cat(Cat(wire, Unwritten), batch), Cat(q, bytes)) = Cat(Cat(Cat(Cat(wire, Unwritten), batch), q), bytes)
      BY <3>1, Regroup
    <3> QED BY <3>2 DEF Cat
  <2>2. wire \o Unwritten \o batch \o q = [i \in 1 .. total |-> i]
    BY <1>1 DEF SendInv, StreamIntact
  <2>3. wire' \o Unwritten' \o batch' \o q1 = [i \in 1 .. total' |-> i]
    BY <1>0, <1>2, <1>3, <1>6, <2>1, <2>2
  <2> QED BY <1>1, <2>3 DEF StreamIntact
<1> QED BY <1>4, <1>5, <1>7 DEF SendInv

\* Messages move from the queue to the batch and from there to the buffers.
LEMMA BytesMove ==
    ASSUME SendInv, NEW moved \in Seq(Number), NEW q \in Seq(Number), FlattenSeq(queue) = moved \o q,
           Unwritten' \in Seq(Number), batch' \in Seq(Number), FlattenSeq(queue') = q,
           UNCHANGED <<wire, total>>,
           Unwritten' \o batch' = (Unwritten \o batch) \o moved
    PROVE  StreamIntact'
<1>1. PICK w, u, u1, b, b1 : w = wire /\ u = Unwritten /\ u1 = Unwritten' /\ b = batch /\ b1 = batch'
  OBVIOUS
<1>2. w \in Seq(Number) /\ u \in Seq(Number) /\ u1 \in Seq(Number) /\ b \in Seq(Number) /\ b1 \in Seq(Number)
  BY <1>1, SendTypes
<1>3. Cat(Cat(Cat(w, u1), b1), q) = Cat(Cat(w, Cat(u1, b1)), q)
  <2>1. Cat(Cat(w, u1), b1) = Cat(w, Cat(u1, b1))
    BY <1>2, CatFacts
  <2> QED BY <2>1
<1>4. Cat(Cat(Cat(w, u), b), Cat(moved, q)) = Cat(Cat(w, Cat(Cat(u, b), moved)), q)
  BY <1>2, RegroupMoved
<1>5. Cat(u1, b1) = Cat(Cat(u, b), moved) /\ FlattenSeq(queue) = Cat(moved, q)
  BY <1>1 DEF Cat
<1>6. Cat(Cat(Cat(w, u1), b1), q) = Cat(Cat(Cat(w, u), b), FlattenSeq(queue))
  BY <1>3, <1>4, <1>5
<1>7. Cat(Cat(Cat(w, u), b), FlattenSeq(queue)) = [i \in 1 .. total |-> i]
  BY <1>1 DEF SendInv, StreamIntact, Cat
<1>8. Cat(Cat(Cat(w, u1), b1), q) = [i \in 1 .. total |-> i]
  BY <1>6, <1>7
<1> QED BY <1>1, <1>8 DEF StreamIntact, Cat

LEMMA BatchEndStep ==
    ASSUME SendInv, BatchEnd
    PROVE  SendInv'
<1> DEFINE bufs == IF batch # <<>> THEN <<batch>> ELSE <<>>
<1>0. /\ queue' = queue /\ linking' = linking /\ dequeuing' = FALSE /\ overlap' = FALSE /\ output' = <<>>
      /\ EnqueueByteBuffers(bufs) /\ batch' = <<>> /\ looping' = FALSE /\ attached' = ~closed
      /\ UNCHANGED <<sender, total, closed, shutdown, wire>>
  BY DEF BatchEnd, Queue!DequeueEmpty, sendVars
<1>1. bufs \in Seq(Seq(Number)) /\ FlattenSeq(bufs) = batch
  <2>1. batch \in Seq(Number)
    BY SendTypes
  <2>2. CASE batch # <<>>
    <3>1. <<batch>> \in Seq(Seq(Number))
      BY <2>1
    <3> QED BY <2>1, <2>2, <3>1, FlattenOne
  <2>3. CASE batch = <<>>
    BY <2>3, EmptySeq, FlattenEmpty
  <2> QED BY <2>2, <2>3
<1> HIDE DEF bufs
<1>2. /\ buffers' \in Seq(Seq(Number))
      /\ processing' \in BOOLEAN /\ write' \in {"none", "pending", "done", "failed"}
      /\ written' \in 0 .. (IF buffers' = <<>> THEN 0 ELSE Len(Head(buffers')))
      /\ WriteHasBuffer'
      /\ Unwritten \in Seq(Number)
      /\ Unwritten' = Unwritten \o FlattenSeq(bufs)
  BY <1>0, <1>1, EnqueueByteBuffersStep DEF SendInv
<1>3. <<>> \in Seq(Number) /\ Len(<<>>) = 0
  BY EmptySeq
<1>4. TypeOK'
  <2>1. Len(batch') <= SendBufferSize /\ batch' \in Seq(Number)
    BY <1>0, <1>3, SendAssumption
  <2>2. attached' \in BOOLEAN
    BY <1>0
  <2> QED BY <1>0, <1>2, <2>1, <2>2 DEF SendInv, TypeOK, Number
<1>5. StreamIntact'
  <2>1. PICK u, b, q : u = Unwritten /\ b = batch /\ q = FlattenSeq(queue)
    OBVIOUS
  <2>2. u \in Seq(Number) /\ b \in Seq(Number) /\ q \in Seq(Number)
    BY <2>1, SendTypes
  <2>3. u \o b \in Seq(Number)
    BY <2>2, ConcatProperties
  <2>4. <<>> \o q = q /\ (u \o b) \o <<>> = u \o b
    BY <2>2, <2>3, ConcatEmptySeq
  <2>5. Unwritten' = u \o b
    BY <1>1, <1>2, <2>1
  <2>6. Unwritten' \o batch' = (Unwritten \o batch) \o <<>>
    BY <1>0, <2>1, <2>4, <2>5
  <2>7. Unwritten' \in Seq(Number) /\ batch' \in Seq(Number) /\ FlattenSeq(queue') = q /\ FlattenSeq(queue) = <<>> \o q
    BY <1>0, <1>3, <2>1, <2>3, <2>4, <2>5
  <2> QED BY <1>0, <1>3, <2>2, <2>6, <2>7, BytesMove
<1>6. BatchIsSent'
  BY <1>0 DEF BatchIsSent
<1> QED BY <1>2, <1>4, <1>5, <1>6 DEF SendInv

\* What the socket took leaves the front buffer for the wire ...
LEMMA SocketWritesStep ==
    ASSUME SendInv, NEW n \in 0 .. MaxBytes, SocketWrites(n)
    PROVE  SendInv'
<1>0. /\ write = "pending" /\ write' = "done" /\ written' = n /\ n <= Len(Head(buffers))
      /\ wire' = wire \o SubSeq(Head(buffers), 1, n)
      /\ UNCHANGED <<queueVars, sendVars, looping, batch, buffers, processing, closed, shutdown, attached>>
  BY DEF SocketWrites
<1>1. buffers # <<>> /\ processing
  BY <1>0 DEF SendInv, WriteHasBuffer
<1>2. PICK front, behind, w, u1, b, q :
          /\ front = Head(buffers) /\ behind = FlattenSeq(Tail(buffers))
          /\ w = wire /\ u1 = Unwritten' /\ b = batch /\ q = FlattenSeq(queue)
  OBVIOUS
<1>3. /\ front \in Seq(Number) /\ behind \in Seq(Number) /\ FlattenSeq(buffers) = front \o behind
      /\ Len(front) \in Nat
  BY <1>1, <1>2, SendTypes, FrontIsNoLonger
<1>4. n \in 0 .. Len(front) /\ n \in Nat
  BY <1>0, <1>2, <1>3, SendTypes
<1>5. PICK taken, left : taken = Taken(front, n) /\ left = Rest(front, n)
  OBVIOUS
<1>6. taken \in Seq(Number) /\ left \in Seq(Number) /\ Cat(taken, left) = front
  BY <1>3, <1>4, <1>5, TakenAndRest DEF Cat
<1>7. Unwritten = Cat(front, behind)
  BY <1>0, <1>3 DEF Unwritten, Cat
<1>8. u1 = Cat(left, behind)
  <2>1. u1 = Rest(FlattenSeq(buffers), n)
    BY <1>0, <1>2 DEF Unwritten, Rest
  <2>2. Rest(front \o behind, n) = Rest(front, n) \o behind
    BY <1>3, <1>4, RestOfConcat
  <2> QED BY <1>3, <1>5, <2>1, <2>2 DEF Cat
<1>9. wire' = Cat(w, taken)
  BY <1>0, <1>2, <1>5 DEF Cat, Taken
<1>10. /\ w \in Seq(Number) /\ b \in Seq(Number) /\ q \in Seq(Number)
  BY <1>2, SendTypes
<1>11. wire' \in Seq(Number) /\ Cat(Cat(w, taken), u1) = Cat(w, Unwritten)
  <2>1. Cat(Cat(taken, left), behind) = Cat(taken, u1) /\ u1 \in Seq(Number)
    BY <1>3, <1>6, <1>8, CatFacts
  <2>2. Cat(taken, u1) = Unwritten
    BY <1>6, <1>7, <2>1
  <2>3. Cat(Cat(w, taken), u1) = Cat(w, Cat(taken, u1)) /\ Cat(w, taken) \in Seq(Number)
    BY <1>6, <1>10, <2>1, CatFacts
  <2> QED BY <1>9, <2>2, <2>3
<1>12. TypeOK'
  <2>1. written' \in 0 .. (IF buffers' = <<>> THEN 0 ELSE Len(Head(buffers')))
    BY <1>0, <1>1, <1>2, <1>4
  <2> QED BY <1>0, <1>11, <2>1 DEF SendInv, TypeOK, Number, queueVars, sendVars
<1>13. StreamIntact'
  <2>1. Cat(Cat(Cat(w, Unwritten), b), q) = [i \in 1 .. total |-> i]
    BY <1>2 DEF SendInv, StreamIntact, Cat
  <2>2. Cat(Cat(Cat(wire', u1), b), q) = [i \in 1 .. total |-> i]
    BY <1>9, <1>11, <2>1
  <2>3. batch' = b /\ FlattenSeq(queue') = q /\ total' = total
    BY <1>0, <1>2 DEF queueVars, sendVars
  <2> QED BY <1>2, <2>2, <2>3 DEF StreamIntact, Cat
<1>14. WriteHasBuffer' /\ BatchIsSent'
  BY <1>0, <1>1 DEF SendInv, WriteHasBuffer, BatchIsSent
<1> QED BY <1>12, <1>13, <1>14 DEF SendInv

\* ... and the handler cuts it off.
LEMMA WriteHandlerStep ==
    ASSUME SendInv, WriteHandler
    PROVE  SendInv'
<1> DEFINE left == SubSeq(Head(buffers), written + 1, Len(Head(buffers)))
<1>0. /\ write = "done" /\ written' = 0
      /\ buffers' = (IF left = <<>> THEN Tail(buffers) ELSE [buffers EXCEPT ![1] = left])
      /\ UNCHANGED <<queueVars, sendVars, looping, batch, closed, shutdown, attached, wire>>
  BY DEF WriteHandler
<1>1. /\ processing' \in BOOLEAN /\ write' \in {"none", "pending"}
      /\ write' # "none" => processing' /\ buffers' # <<>>
  BY DEF WriteHandler
<1>2. PICK front, behind : front = Head(buffers) /\ behind = FlattenSeq(Tail(buffers))
  OBVIOUS
<1>3. /\ buffers # <<>> /\ buffers \in Seq(Seq(Number)) /\ front \in Seq(Number) /\ behind \in Seq(Number)
      /\ FlattenSeq(buffers) = front \o behind
      /\ written \in 0 .. Len(front)
  <2>1. buffers # <<>> /\ buffers \in Seq(Seq(Number)) /\ written \in Nat /\ written <= Len(front)
    BY <1>0, <1>2, SendTypes
  <2>2. /\ front \in Seq(Number) /\ behind \in Seq(Number) /\ FlattenSeq(buffers) = front \o behind
        /\ Len(front) \in Nat
    BY <1>2, <2>1, FrontIsNoLonger
  <2> QED BY <2>1, <2>2
<1>4. left = Rest(front, written)
  BY <1>2 DEF Rest
<1> HIDE DEF left
<1>5. left \in Seq(Number)
  BY <1>3, <1>4, TakenAndRest
<1>6. Unwritten = left \o behind
  <2>1. Unwritten = Rest(front \o behind, written)
    BY <1>0, <1>3 DEF Unwritten, Rest
  <2>2. Rest(front \o behind, written) = Rest(front, written) \o behind
    BY <1>3, RestOfConcat
  <2> QED BY <1>4, <2>1, <2>2
<1>7. buffers' \in Seq(Seq(Number)) /\ FlattenSeq(buffers') = left \o behind
  <2>1. Tail(buffers) \in Seq(Seq(Number))
    BY <1>3, HeadTailProperties
  <2>2. CASE left = <<>>
    <3>1. buffers' = Tail(buffers) /\ <<>> \o behind = behind
      BY <1>0, <1>3, <2>2, ConcatEmptySeq
    <3> QED BY <1>2, <2>1, <2>2, <3>1
  <2>3. CASE left # <<>>
    <3>1. PICK bufs : bufs = [buffers EXCEPT ![1] = left]
      OBVIOUS
    <3>2. Len(buffers) \in Nat \ {0}
      BY <1>3, EmptySeq
    <3>3. 1 \in 1 .. Len(buffers)
      BY <3>2
    <3>4. bufs \in Seq(Seq(Number)) /\ Len(bufs) = Len(buffers)
          /\ \A j \in 1 .. Len(buffers) : bufs[j] = IF j = 1 THEN left ELSE buffers[j]
      BY <1>3, <1>5, <3>1, <3>3, ExceptSeq
    <3>5. bufs # <<>>
      BY <3>2, <3>4, EmptySeq
    <3>6. Head(bufs) = left
      <4>1. Head(bufs) = bufs[1]
        BY <3>4, <3>5
      <4> QED BY <3>3, <3>4, <4>1
    <3>7. Tail(bufs) = Tail(buffers)
      <4>1. /\ Tail(bufs) \in Seq(Seq(Number)) /\ Len(Tail(bufs)) = Len(bufs) - 1
            /\ \A i \in 1 .. Len(Tail(bufs)) : Tail(bufs)[i] = bufs[i + 1]
        BY <3>4, <3>5, HeadTailProperties
      <4>2. /\ Len(Tail(buffers)) = Len(buffers) - 1
            /\ \A i \in 1 .. Len(Tail(buffers)) : Tail(buffers)[i] = buffers[i + 1]
        BY <1>3, HeadTailProperties
      <4>3. Len(Tail(bufs)) = Len(Tail(buffers))
        BY <3>4, <4>1, <4>2
      <4>4. ASSUME NEW i \in 1 .. Len(Tail(bufs)) PROVE Tail(bufs)[i] = Tail(buffers)[i]
        <5>1. i + 1 \in 1 .. Len(buffers) /\ i + 1 # 1
          BY <3>2, <3>4, <4>1
        <5>2. bufs[i + 1] = buffers[i + 1]
          BY <3>4, <5>1
        <5> QED BY <4>1, <4>2, <4>3, <5>2
      <4> QED BY <2>1, <4>1, <4>3, <4>4, SeqEqual
    <3>8. FlattenSeq(bufs) = Head(bufs) \o FlattenSeq(Tail(bufs))
      BY <3>4, <3>5, FlattenCons
    <3> QED BY <1>0, <1>2, <2>3, <3>1, <3>4, <3>6, <3>7, <3>8
  <2> QED BY <2>2, <2>3
<1>8. Unwritten' = Unwritten
  BY <1>1, <1>6, <1>7 DEF Unwritten
<1>9. TypeOK'
  <2>1. written' \in 0 .. (IF buffers' = <<>> THEN 0 ELSE Len(Head(buffers')))
    <3>1. buffers' # <<>> => Len(Head(buffers')) \in Nat
      BY <1>7, FrontIsNoLonger
    <3> QED BY <1>0, <3>1
  <2>2. write' \in {"none", "pending", "done", "failed"}
    BY <1>1
  <2> QED BY <1>0, <1>1, <1>7, <2>1, <2>2 DEF SendInv, TypeOK, Number, queueVars, sendVars
<1>10. StreamIntact'
  BY <1>0, <1>8 DEF SendInv, StreamIntact, queueVars, sendVars
<1>11. WriteHasBuffer' /\ BatchIsSent'
  BY <1>0, <1>1 DEF SendInv, WriteHasBuffer, BatchIsSent
<1> QED BY <1>9, <1>10, <1>11 DEF SendInv

\* One turn of the loop, whichever buffers it sends off.
LEMMA BatchMessageMoves ==
    ASSUME SendInv, BatchMessage, NEW bufs \in Seq(Seq(Number)), EnqueueByteBuffers(bufs),
           batch' \in Seq(Number), Len(batch') <= SendBufferSize,
           Cat(FlattenSeq(bufs), batch') = Cat(batch, Head(queue))
    PROVE  SendInv'
<1>0. /\ queue # <<>> /\ queue' = Tail(queue) /\ dequeuing' = FALSE /\ overlap' = FALSE
      /\ UNCHANGED <<linking, sender, total, looping, closed, shutdown, attached, wire>> /\ looping
  BY DEF BatchMessage, Queue!DequeueMessage, sendVars
<1>1. /\ buffers' \in Seq(Seq(Number))
      /\ processing' \in BOOLEAN /\ write' \in {"none", "pending", "done", "failed"}
      /\ written' \in 0 .. (IF buffers' = <<>> THEN 0 ELSE Len(Head(buffers')))
      /\ WriteHasBuffer'
      /\ Unwritten \in Seq(Number)
      /\ Unwritten' = Unwritten \o FlattenSeq(bufs)
  BY EnqueueByteBuffersStep DEF SendInv
<1>2. PICK message, q, u, u1, b, b1, f :
          /\ message = Head(queue) /\ q = FlattenSeq(Tail(queue))
          /\ u = Unwritten /\ u1 = Unwritten' /\ b = batch /\ b1 = batch' /\ f = FlattenSeq(bufs)
  OBVIOUS
<1>3. /\ queue \in Seq(Seq(Number)) /\ message \in Seq(Number) /\ q \in Seq(Number)
      /\ FlattenSeq(queue) = message \o q
  BY <1>0, <1>2, SendTypes, FrontIsNoLonger
<1>4. u \in Seq(Number) /\ b \in Seq(Number) /\ b1 \in Seq(Number) /\ f \in Seq(Number)
  BY <1>1, <1>2, SendTypes, FlattenTypeOf
<1>5. u1 = Cat(u, f) /\ Cat(f, b1) = Cat(b, message)
  BY <1>1, <1>2 DEF Cat
<1>6. u1 \in Seq(Number) /\ Cat(u1, b1) = Cat(Cat(u, b), message)
  <2>1. Cat(u, f) \in Seq(Number) /\ Cat(Cat(u, f), b1) = Cat(u, Cat(f, b1))
    BY <1>4, CatFacts
  <2>2. Cat(Cat(u, b), message) = Cat(u, Cat(b, message))
    BY <1>3, <1>4, CatFacts
  <2> QED BY <1>5, <2>1, <2>2
<1>7. StreamIntact'
  <2>1. Unwritten' \o batch' = (Unwritten \o batch) \o message
    BY <1>2, <1>6 DEF Cat
  <2>2. Unwritten' \in Seq(Number) /\ FlattenSeq(queue') = q
    BY <1>0, <1>2, <1>6
  <2> QED BY <1>0, <1>3, <2>1, <2>2, BytesMove
<1>8. queue' \in Seq(Seq(Number))
  BY <1>0, <1>3, HeadTailProperties
<1>9. TypeOK'
  BY <1>0, <1>1, <1>8 DEF SendInv, TypeOK, Number
<1>10. BatchIsSent'
  BY <1>0 DEF BatchIsSent
<1> QED BY <1>1, <1>7, <1>9, <1>10 DEF SendInv

LEMMA BatchMessageStep ==
    ASSUME SendInv, BatchMessage
    PROVE  SendInv'
<1> DEFINE message == Head(queue)
           flush == SendBufferSize - Len(batch) < Len(message)
           base == IF flush THEN <<>> ELSE batch
           flushed == IF flush THEN <<batch>> ELSE <<>>
<1>0. /\ queue # <<>>
      /\ IF SendBufferSize - Len(base) >= Len(message)
         THEN batch' = base \o message /\ EnqueueByteBuffers(flushed)
         ELSE batch' = base /\ EnqueueByteBuffers(Append(flushed, message))
  BY DEF BatchMessage, Queue!DequeueMessage
<1>1. /\ message \in Seq(Number) /\ Len(message) \in Nat /\ batch \in Seq(Number) /\ Len(batch) \in Nat
      /\ SendBufferSize \in Nat /\ Len(<<>>) = 0 /\ <<>> \in Seq(Number) /\ <<>> \in Seq(Seq(Number))
  BY <1>0, SendTypes, FrontIsNoLonger, EmptySeq
<1> HIDE DEF message
<1>2. CASE ~flush
  <2>1. batch' = batch \o message /\ EnqueueByteBuffers(<<>>)
    BY <1>0, <1>1, <1>2
  <2>2. batch \o message \in Seq(Number) /\ Len(batch \o message) = Len(batch) + Len(message)
    BY <1>1, ConcatProperties
  <2>3. Len(batch') <= SendBufferSize
    BY <1>1, <1>2, <2>1, <2>2
  <2>4. batch' = Cat(batch, message) /\ Cat(<<>>, batch') = batch'
    BY <1>1, <2>1, <2>2, CatFacts DEF Cat
  <2>5. Cat(FlattenSeq(<<>>), batch') = Cat(batch, Head(queue))
    BY <2>4, FlattenEmpty DEF message
  <2> QED BY <1>1, <2>1, <2>2, <2>3, <2>5, BatchMessageMoves
<1>3. CASE flush /\ SendBufferSize >= Len(message)
  <2>1. batch' = <<>> \o message /\ EnqueueByteBuffers(<<batch>>)
    BY <1>0, <1>1, <1>3
  <2>2. batch' = message
    BY <1>1, <2>1, ConcatEmptySeq
  <2>3. <<batch>> \in Seq(Seq(Number)) /\ FlattenSeq(<<batch>>) = batch
    BY <1>1, FlattenOne
  <2>4. Cat(FlattenSeq(<<batch>>), batch') = Cat(batch, Head(queue))
    BY <2>2, <2>3 DEF message
  <2> QED BY <1>1, <1>3, <2>1, <2>2, <2>3, <2>4, BatchMessageMoves
<1>4. CASE flush /\ ~(SendBufferSize >= Len(message))
  <2>1. batch' = <<>> /\ EnqueueByteBuffers(Append(<<batch>>, message))
    BY <1>0, <1>1, <1>4
  <2>2. <<batch>> \in Seq(Seq(Number)) /\ FlattenSeq(<<batch>>) = batch
    BY <1>1, FlattenOne
  <2>3. PICK bufs : bufs = Append(<<batch>>, message)
    OBVIOUS
  <2>4. bufs \in Seq(Seq(Number))
    BY <1>1, <2>2, <2>3, AppendProperties
  <2>5. FlattenSeq(bufs) = batch \o message
    BY <1>1, <2>2, <2>3, FlattenAppend
  <2>6. FlattenSeq(bufs) = Cat(batch, message) /\ Cat(batch, message) \in Seq(Number)
    BY <1>1, <2>5, CatFacts DEF Cat
  <2>7. Cat(Cat(batch, message), <<>>) = Cat(batch, message)
    BY <2>6, CatFacts
  <2>8. Cat(FlattenSeq(bufs), batch') = Cat(batch, Head(queue))
    BY <2>1, <2>6, <2>7 DEF message
  <2>9. Len(batch') <= SendBufferSize /\ batch' \in Seq(Number)
    BY <1>1, <2>1
  <2> QED BY <2>1, <2>3, <2>4, <2>8, <2>9, BatchMessageMoves
<1> QED BY <1>2, <1>3, <1>4

LEMMA SendInvInit == Init => SendInv
<1> SUFFICES ASSUME Init PROVE SendInv
  OBVIOUS
<1>0. /\ queue = <<>> /\ linking = {} /\ dequeuing = FALSE /\ overlap = FALSE /\ total = 0
      /\ sender = [s \in Senders |-> "idle"] /\ looping = FALSE /\ batch = <<>> /\ buffers = <<>>
      /\ processing = FALSE /\ write = "none" /\ written = 0 /\ wire = <<>>
      /\ closed = FALSE /\ shutdown = FALSE /\ attached = TRUE
  BY DEF Init, Queue!Init
<1>1. <<>> \in Seq(Number) /\ <<>> \in Seq(Seq(Number)) /\ Len(<<>>) = 0
  BY EmptySeq
<1>2. sender \in [Senders -> {"idle", "enqueue", "return"}]
  BY <1>0
<1>3. TypeOK
  <2>1. total \in 0 .. MaxBytes /\ Len(batch) <= SendBufferSize /\ linking \subseteq Senders
    BY <1>0, <1>1, SendAssumption
  <2>2. written \in 0 .. (IF buffers = <<>> THEN 0 ELSE Len(Head(buffers)))
    BY <1>0
  <2>3. queue \in Seq(Seq(Number)) /\ buffers \in Seq(Seq(Number)) /\ batch \in Seq(Number) /\ wire \in Seq(Number)
    BY <1>0, <1>1
  <2> QED BY <1>0, <1>2, <2>1, <2>2, <2>3 DEF TypeOK, Number
<1>4. StreamIntact
  <2>1. Unwritten = <<>> /\ FlattenSeq(queue) = <<>>
    BY <1>0, FlattenEmpty DEF Unwritten
  <2>2. <<>> \o <<>> = <<>>
    BY <1>1, ConcatEmptySeq
  <2>3. [i \in 1 .. 0 |-> i] = <<>>
    OBVIOUS
  <2> QED BY <1>0, <2>1, <2>2, <2>3 DEF StreamIntact
<1> QED BY <1>0, <1>3, <1>4 DEF SendInv, WriteHasBuffer, BatchIsSent

LEMMA SendInvStep == SendInv /\ [Next]_vars => SendInv'
<1> SUFFICES ASSUME SendInv, [Next]_vars PROVE SendInv'
  OBVIOUS
<1>1. ASSUME NEW s \in Senders, SendCheck(s) PROVE SendInv'
  <2>1. UNCHANGED bytesVars /\ looping' = looping
    BY <1>1 DEF SendCheck, bytesVars, queueVars
  <2>2. sender' \in [Senders -> {"idle", "enqueue", "return"}]
    BY <1>1 DEF SendCheck, SendInv, TypeOK
  <2>3. TypeOK'
    BY <1>1, <2>2 DEF SendCheck, SendInv, TypeOK, queueVars, bufferVars
  <2> QED BY <2>1, <2>3, BytesUnchanged DEF SendInv
<1>2. ASSUME NEW s \in Senders, NEW size \in MessageSizes, SendEnqueue(s, size) PROVE SendInv'
  BY <1>2, SendEnqueueStep
<1>3. ASSUME NEW s \in Senders, SendReturn(s) PROVE SendInv'
  <2>1. UNCHANGED bytesVars /\ looping' = looping
    BY <1>3 DEF SendReturn, Queue!EnqueueReturns, bytesVars
  <2>2. sender' \in [Senders -> {"idle", "enqueue", "return"}]
    BY <1>3 DEF SendReturn, SendInv, TypeOK
  <2>3. TypeOK'
    BY <1>3, <2>2 DEF SendReturn, Queue!EnqueueReturns, SendInv, TypeOK, bufferVars
  <2> QED BY <2>1, <2>3, BytesUnchanged DEF SendInv
<1>4. CASE GameCloses
  <2>1. UNCHANGED bytesVars /\ looping' = looping
    BY <1>4 DEF GameCloses, bytesVars, queueVars, sendVars
  <2>2. TypeOK'
    BY <1>4 DEF GameCloses, Close, SendInv, TypeOK, queueVars, bufferVars, sendVars
  <2> QED BY <2>1, <2>2, BytesUnchanged DEF SendInv
<1>5. CASE ShutdownSend
  <2>1. UNCHANGED bytesVars /\ looping' = looping
    BY <1>5 DEF ShutdownSend, bytesVars, queueVars, sendVars
  <2>2. TypeOK'
    BY <1>5 DEF ShutdownSend, SendInv, TypeOK, queueVars, bufferVars, sendVars
  <2> QED BY <2>1, <2>2, BytesUnchanged DEF SendInv
<1>6. CASE BatchBegin
  <2>1. ~looping /\ looping' = TRUE /\ batch' = <<>>
        /\ UNCHANGED <<queueVars, sendVars, bufferVars, closed, shutdown, attached, wire>>
    BY <1>6 DEF BatchBegin
  <2>2. batch' = batch
    BY <2>1 DEF SendInv, BatchIsSent
  <2>3. UNCHANGED bytesVars /\ BatchIsSent'
    BY <2>1, <2>2 DEF bytesVars, queueVars, sendVars, BatchIsSent
  <2>4. TypeOK'
    BY <2>1, <2>2 DEF SendInv, TypeOK, queueVars, bufferVars, sendVars
  <2> QED BY <2>3, <2>4, BytesUnchanged DEF SendInv
<1>7. CASE DequeueSendingMessage
  <2>1. UNCHANGED bytesVars /\ looping' = looping
    BY <1>7 DEF DequeueSendingMessage, Queue!DequeueCall, bytesVars, sendVars
  <2>2. overlap' \in BOOLEAN
    BY <1>7 DEF DequeueSendingMessage, Queue!DequeueCall
  <2>3. TypeOK'
    BY <1>7, <2>2 DEF DequeueSendingMessage, Queue!DequeueCall, SendInv, TypeOK, bufferVars, sendVars
  <2> QED BY <2>1, <2>3, BytesUnchanged DEF SendInv
<1>8. CASE BatchMessage
  BY <1>8, BatchMessageStep
<1>9. CASE BatchEnd
  BY <1>9, BatchEndStep
<1>10. CASE SocketFails
  <2>1. /\ write = "pending" /\ write' = "failed"
        /\ UNCHANGED <<queueVars, sendVars, looping, batch, buffers, processing, written, closed, shutdown, attached, wire>>
    BY <1>10 DEF SocketFails
  <2>2. WriteHasBuffer' /\ BatchIsSent'
    BY <2>1 DEF SendInv, WriteHasBuffer, BatchIsSent
  <2>3. Unwritten' = Unwritten
    BY <2>1 DEF Unwritten
  <2>4. StreamIntact'
    BY <2>1, <2>3 DEF SendInv, StreamIntact, queueVars, sendVars
  <2>5. TypeOK'
    BY <2>1 DEF SendInv, TypeOK, queueVars, sendVars
  <2> QED BY <2>2, <2>4, <2>5 DEF SendInv
<1>11. ASSUME NEW n \in 0 .. MaxBytes, SocketWrites(n) PROVE SendInv'
  BY <1>11, SocketWritesStep
<1>12. CASE WriteHandler
  BY <1>12, WriteHandlerStep
<1>13. CASE WriteHandlerError
  <2>1. /\ write = "failed" /\ write' = "none" /\ closed' = TRUE
        /\ UNCHANGED <<queueVars, sendVars, looping, batch, buffers, processing, written, shutdown, attached, wire>>
    BY <1>13 DEF WriteHandlerError, Close
  <2>2. WriteHasBuffer' /\ BatchIsSent'
    BY <2>1 DEF SendInv, WriteHasBuffer, BatchIsSent
  <2>3. Unwritten' = Unwritten
    BY <2>1 DEF Unwritten
  <2>4. StreamIntact'
    BY <2>1, <2>3 DEF SendInv, StreamIntact, queueVars, sendVars
  <2>5. TypeOK'
    BY <2>1 DEF SendInv, TypeOK, queueVars, sendVars
  <2> QED BY <2>2, <2>4, <2>5 DEF SendInv
<1>14. CASE UNCHANGED vars
  <2>1. UNCHANGED bytesVars /\ looping' = looping
    BY <1>14 DEF vars, bytesVars, queueVars, sendVars
  <2>2. TypeOK'
    BY <1>14 DEF vars, queueVars, bufferVars, sendVars, SendInv, TypeOK
  <2> QED BY <2>1, <2>2, BytesUnchanged DEF SendInv
<1> QED BY <1>1, <1>2, <1>3, <1>4, <1>5, <1>6, <1>7, <1>8, <1>9, <1>10, <1>11, <1>12, <1>13, <1>14
        DEF Next, Game, EndSendings, Write, Handler

\* The types of the sending half: among them that a batch never outgrows the
\* buffer it is copied into, and that no more of the front buffer is written
\* than it holds (Connection.h EndSendings, WriteHandler).
THEOREM SendTypeCorrect == Spec => []TypeOK
<1>1. SendInv => TypeOK
  BY DEF SendInv
<1> QED BY <1>1, SendInvInit, SendInvStep, PTL DEF Spec

\* For any number of senders, any sizes of messages and any send buffer: what
\* the socket took, the buffers, the batch and the queue are in this order
\* every byte Send accepted (Connection.h Send, EndSendings, WriteHandler).
THEOREM StreamStaysIntact == Spec => []StreamIntact
<1>1. SendInv => StreamIntact
  BY DEF SendInv
<1> QED BY <1>1, SendInvInit, SendInvStep, PTL DEF Spec
=============================================================================
