---------------------------- MODULE MessageQueue ----------------------------
(***************************************************************************)
(* What Connection::MPSCQueue promises its users: one first-in first-out   *)
(* queue, filled by many producers and emptied by one consumer.  An        *)
(* enqueue takes effect at one instant but goes on for a while after it;   *)
(* a dequeue may answer "empty" wrongly, but only when an enqueue was      *)
(* under way at some moment of that dequeue.                               *)
(***************************************************************************)
EXTENDS Sequences

CONSTANTS Producers,   \* the threads that call Enqueue
          Messages,    \* the objects that can be enqueued
          Null         \* the "empty" answer of Dequeue

VARIABLES queue,       \* the messages enqueued and not yet dequeued
          linking,     \* producers whose enqueue took effect and has not returned
          dequeuing,   \* the consumer is inside Dequeue
          overlap,     \* an enqueue was under way during this Dequeue
          output       \* the answer of the last Dequeue that returned

vars == <<queue, linking, dequeuing, overlap, output>>

Init ==
    /\ queue = <<>>
    /\ linking = {}
    /\ dequeuing = FALSE
    /\ overlap = FALSE
    /\ output = Null

EnqueueTakesEffect(p, m) ==
    /\ p \notin linking
    /\ queue' = Append(queue, m)
    /\ linking' = linking \cup {p}
    /\ overlap' = dequeuing
    /\ UNCHANGED <<dequeuing, output>>

EnqueueReturns(p) ==
    /\ p \in linking
    /\ linking' = linking \ {p}
    /\ UNCHANGED <<queue, dequeuing, overlap, output>>

DequeueCall ==
    /\ ~dequeuing
    /\ dequeuing' = TRUE
    /\ overlap' = (linking # {})
    /\ UNCHANGED <<queue, linking, output>>

DequeueMessage ==
    /\ dequeuing
    /\ queue # <<>>
    /\ output' = Head(queue)
    /\ queue' = Tail(queue)
    /\ dequeuing' = FALSE
    /\ overlap' = FALSE
    /\ UNCHANGED linking

DequeueEmpty ==
    /\ dequeuing
    /\ queue = <<>> \/ overlap
    /\ output' = Null
    /\ dequeuing' = FALSE
    /\ overlap' = FALSE
    /\ UNCHANGED <<queue, linking>>

Next ==
    \/ \E p \in Producers, m \in Messages : EnqueueTakesEffect(p, m)
    \/ \E p \in Producers : EnqueueReturns(p)
    \/ DequeueCall
    \/ DequeueMessage
    \/ DequeueEmpty

Spec == Init /\ [][Next]_vars
=============================================================================
