--------------------------- MODULE ConnectionSend ---------------------------
(***************************************************************************)
(* The sending half of Connection::Connection.  Game threads call Send and *)
(* Close; the one network thread of the connection runs EndSendings from   *)
(* its timer, which packs the queued messages into buffers, and the        *)
(* completion handlers of the asynchronous writes, of which at most one is *)
(* outstanding and which may write a part of a buffer only.                *)
(*                                                                         *)
(* The bytes of all messages are numbered in the order in which Send       *)
(* enqueues them, so a buffer is a sequence of numbers and what the peer   *)
(* receives is right when it is 1, 2, 3, ...                               *)
(***************************************************************************)
EXTENDS ConnectionState, Sequences, Naturals, SequencesExt

CONSTANTS
    Senders,            \* threads that call Send
    MessageSizes,       \* sizes, in bytes, of the messages they send
    SendBufferSize,     \* m_AplicationSendBufferSize
    MaxBytes            \* bound on the bytes ever enqueued

ASSUME SendAssumption ==
    /\ MessageSizes \subseteq Nat \ {0}
    /\ SendBufferSize \in Nat \ {0}
    /\ MaxBytes \in Nat

VARIABLES
    queue, linking, dequeuing, overlap, output, \* m_SendingMessages
    sender,     \* where each sender is inside Send
    total,      \* number of bytes enqueued so far
    looping,    \* the network thread is inside EndSendings
    batch,      \* content of EndSendings' networkByteBuffer
    buffers,    \* m_SensingNetworkByteBuffers: what is left of each to write
    processing, \* m_ProcessingQueue
    write,      \* the outstanding asynchronous write
    written,    \* bytes it wrote, when it is done
    shutdown,   \* the send side of the socket is shut down
    attached,   \* the connection is in the thread's m_Connections
    wire        \* the bytes the socket has taken

queueVars == <<queue, linking, dequeuing, overlap, output>>
sendVars == <<sender, total>>
bufferVars == <<buffers, processing, write, written>>
vars == <<queueVars, sendVars, looping, batch, bufferVars, closed, shutdown, attached, wire>>

Bytes(from, size) == [i \in 1 .. size |-> from + i]

Queue == INSTANCE MessageQueue WITH
    Producers <- Senders,
    Messages <- Seq(Nat),
    Null <- <<>>

Init ==
    /\ Queue!Init
    /\ sender = [s \in Senders |-> "idle"]
    /\ total = 0
    /\ looping = FALSE
    /\ batch = <<>>
    /\ buffers = <<>>
    /\ processing = FALSE
    /\ write = "none"
    /\ written = 0
    /\ closed = FALSE
    /\ shutdown = FALSE
    /\ attached = TRUE
    /\ wire = <<>>

-----------------------------------------------------------------------------
(* The game threads.                                                       *)

\* Send(message): a closed connection drops the message.
SendCheck(s) ==
    /\ sender[s] = "idle"
    /\ ~closed
    /\ sender' = [sender EXCEPT ![s] = "enqueue"]
    /\ UNCHANGED <<queueVars, total, looping, batch, bufferVars, closed, shutdown, attached, wire>>

SendEnqueue(s, size) ==
    /\ sender[s] = "enqueue"
    /\ total + size <= MaxBytes
    /\ Queue!EnqueueTakesEffect(s, Bytes(total, size))
    /\ total' = total + size
    /\ sender' = [sender EXCEPT ![s] = "return"]
    /\ UNCHANGED <<looping, batch, bufferVars, closed, shutdown, attached, wire>>

SendReturn(s) ==
    /\ sender[s] = "return"
    /\ Queue!EnqueueReturns(s)
    /\ sender' = [sender EXCEPT ![s] = "idle"]
    /\ UNCHANGED <<total, looping, batch, bufferVars, closed, shutdown, attached, wire>>

\* Close() from the game sets m_Closed ...
GameCloses ==
    /\ ~closed
    /\ Close
    /\ UNCHANGED <<queueVars, sendVars, looping, batch, bufferVars, shutdown, attached, wire>>

\* ... and then the shutdown of the send side, by the thread that closed.
ShutdownSend ==
    /\ closed /\ ~shutdown
    /\ shutdown' = TRUE
    /\ UNCHANGED <<queueVars, sendVars, looping, batch, bufferVars, closed, attached, wire>>

-----------------------------------------------------------------------------
(* The network thread: EndSendings.                                        *)

\* EnqueueByteBuffer for each of bufs, with AsyncProcessSendingQueue.
EnqueueByteBuffers(bufs) ==
    /\ buffers' = buffers \o bufs
    /\ IF bufs = <<>> \/ processing
       THEN UNCHANGED <<processing, write>>
       ELSE processing' = TRUE /\ write' = "pending"
    /\ UNCHANGED written

BatchBegin ==
    /\ attached /\ ~looping
    /\ looping' = TRUE
    /\ batch' = <<>>
    /\ UNCHANGED <<queueVars, sendVars, bufferVars, closed, shutdown, attached, wire>>

DequeueSendingMessage ==
    /\ looping
    /\ Queue!DequeueCall
    /\ UNCHANGED <<sendVars, looping, batch, bufferVars, closed, shutdown, attached, wire>>

\* One turn of the loop: a message that does not fit behind what is batched
\* sends the batch off (even an empty one); one that fits no batch goes alone.
BatchMessage ==
    /\ looping
    /\ Queue!DequeueMessage
    /\ LET message == Head(queue)
           flush == SendBufferSize - Len(batch) < Len(message)
           base == IF flush THEN <<>> ELSE batch
           flushed == IF flush THEN <<batch>> ELSE <<>>
       IN IF SendBufferSize - Len(base) >= Len(message)
          THEN /\ batch' = base \o message
               /\ EnqueueByteBuffers(flushed)
          ELSE /\ batch' = base
               /\ EnqueueByteBuffers(Append(flushed, message))
    /\ UNCHANGED <<sendVars, looping, closed, shutdown, attached, wire>>

\* Mutation: the last, partly filled batch is forgotten.
BatchEndForgetsBatch ==
    /\ looping
    /\ Queue!DequeueEmpty
    /\ batch' = <<>>
    /\ looping' = FALSE
    /\ attached' = ~closed
    /\ UNCHANGED <<sendVars, bufferVars, closed, shutdown, wire>>

\* Mutation: EndSendings always reports a connection in use.
BatchEndKeepsConnection ==
    /\ looping
    /\ Queue!DequeueEmpty
    /\ EnqueueByteBuffers(IF batch # <<>> THEN <<batch>> ELSE <<>>)
    /\ batch' = <<>>
    /\ looping' = FALSE
    /\ UNCHANGED <<sendVars, closed, shutdown, attached, wire>>

\* The loop ends; a closed connection is removed by NetworkThread::Update.
BatchEnd ==
    /\ looping
    /\ Queue!DequeueEmpty
    /\ EnqueueByteBuffers(IF batch # <<>> THEN <<batch>> ELSE <<>>)
    /\ batch' = <<>>
    /\ looping' = FALSE
    /\ attached' = ~closed
    /\ UNCHANGED <<sendVars, closed, shutdown, wire>>

-----------------------------------------------------------------------------
(* The asynchronous writes.                                                *)

\* The socket takes n bytes of the front buffer (none of an empty one).
SocketWrites(n) ==
    /\ write = "pending" /\ ~shutdown
    /\ n <= Len(Head(buffers))
    /\ n = 0 <=> Head(buffers) = <<>>
    /\ write' = "done"
    /\ written' = n
    /\ wire' = wire \o SubSeq(Head(buffers), 1, n)
    /\ UNCHANGED <<queueVars, sendVars, looping, batch, buffers, processing, closed, shutdown, attached>>

\* The write fails: the send side is shut down, or the peer is gone.
SocketFails ==
    /\ write = "pending"
    /\ write' = "failed"
    /\ UNCHANGED <<queueVars, sendVars, looping, batch, buffers, processing, written,
                   closed, shutdown, attached, wire>>

\* Handlers run on the network thread, never inside EndSendings.
WriteHandlerError ==
    /\ write = "failed" /\ ~looping
    /\ write' = "none"
    /\ Close
    /\ UNCHANGED <<queueVars, sendVars, looping, batch, buffers, processing, written,
                   shutdown, attached, wire>>

\* Mutation: a buffer is popped although a part of it was written only.
WriteHandlerPops ==
    /\ write = "done" /\ ~looping
    /\ buffers' = Tail(buffers)
    /\ written' = 0
    /\ IF buffers' # <<>>
       THEN processing' = TRUE /\ write' = "pending"
       ELSE processing' = FALSE /\ write' = "none"
    /\ UNCHANGED <<queueVars, sendVars, looping, batch, closed, shutdown, attached, wire>>

WriteHandler ==
    /\ write = "done" /\ ~looping
    /\ LET left == SubSeq(Head(buffers), written + 1, Len(Head(buffers))) IN
       buffers' = IF left = <<>> THEN Tail(buffers) ELSE [buffers EXCEPT ![1] = left]
    /\ written' = 0
    /\ IF buffers' # <<>>
       THEN processing' = TRUE /\ write' = "pending"
       ELSE processing' = FALSE /\ write' = "none"
    /\ UNCHANGED <<queueVars, sendVars, looping, batch, closed, shutdown, attached, wire>>

-----------------------------------------------------------------------------
Game(s) ==
    \/ SendCheck(s)
    \/ \E size \in MessageSizes : SendEnqueue(s, size)
    \/ SendReturn(s)

EndSendings ==
    \/ BatchBegin
    \/ DequeueSendingMessage
    \/ BatchMessage
    \/ BatchEnd

Write == SocketFails \/ \E n \in 0 .. MaxBytes : SocketWrites(n)

Handler == WriteHandler \/ WriteHandlerError

Next ==
    \/ \E s \in Senders : Game(s)
    \/ GameCloses
    \/ ShutdownSend
    \/ EndSendings
    \/ Write
    \/ Handler

Spec == Init /\ [][Next]_vars

\* The timer calls EndSendings for ever while the connection is attached, the
\* io_service runs a ready handler, also between two timer ticks that are
\* always due (hence strong fairness: BatchBegin disables it), the socket
\* answers every write, and a thread inside Send or Close goes on.
Fairness ==
    /\ WF_vars(EndSendings)
    /\ SF_vars(Handler)
    /\ WF_vars(Write)
    /\ WF_vars(ShutdownSend)
    /\ \A s \in Senders : WF_vars(SendReturn(s))

FairSpec == Spec /\ Fairness

-----------------------------------------------------------------------------
\* A batch never outgrows the buffer it is copied into (Connection.h:105), and
\* no more is written than the front buffer holds.
TypeOK ==
    /\ queue \in Seq(Seq(1 .. MaxBytes))
    /\ linking \subseteq Senders
    /\ dequeuing \in BOOLEAN /\ overlap \in BOOLEAN
    /\ sender \in [Senders -> {"idle", "enqueue", "return"}]
    /\ total \in 0 .. MaxBytes
    /\ looping \in BOOLEAN
    /\ batch \in Seq(1 .. MaxBytes)
    /\ Len(batch) <= SendBufferSize
    /\ buffers \in Seq(Seq(1 .. MaxBytes))
    /\ processing \in BOOLEAN
    /\ write \in {"none", "pending", "done", "failed"}
    /\ written \in 0 .. (IF buffers = <<>> THEN 0 ELSE Len(Head(buffers)))
    /\ closed \in BOOLEAN /\ shutdown \in BOOLEAN /\ attached \in BOOLEAN
    /\ wire \in Seq(1 .. MaxBytes)

\* The part of the front buffer the socket has taken is still in it until
\* the handler has run.
Unwritten ==
    LET all == FlattenSeq(buffers)
    IN IF write = "done" THEN SubSeq(all, written + 1, Len(all)) ELSE all

\* Partial writes, batching and the oversized messages that bypass the batch
\* neither lose, double nor reorder a byte: what the socket has, what the
\* buffers hold, the batch and the queue, in this order, are all the bytes
\* ever accepted by Send (Connection.h EndSendings, WriteHandler).
StreamIntact ==
    wire \o Unwritten \o batch \o FlattenSeq(queue) = [i \in 1 .. total |-> i]

\* What Send accepted reaches the socket unless the connection is closed.
EventuallyWritten ==
    \A k \in 1 .. MaxBytes : (total >= k) ~> (Len(wire) >= k \/ closed)

\* The network thread lets go of a connection anybody closed.
EventuallyDetached == closed ~> ~attached
=============================================================================
