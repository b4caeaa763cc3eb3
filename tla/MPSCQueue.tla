----------------------------- MODULE MPSCQueue ------------------------------
(***************************************************************************)
(* Connection::MPSCQueueIntrusive, the lock-free queue in which the game   *)
(* threads leave the messages a network thread has to send.  The queue is  *)
(* a linked list threaded through the messages themselves; a dummy node    *)
(* stands in when the list would become empty.                             *)
(*                                                                         *)
(* Each action is one access to shared memory (m_Head or a link) together  *)
(* with the thread-local work that follows it.  m_Tail is read and written *)
(* by the consumer alone.  The orderings the code asks for (acquire on the *)
(* loads, release on the stores, acq_rel on the exchange) make every       *)
(* interleaving of these accesses the only behaviour to consider.          *)
(***************************************************************************)
EXTENDS Sequences, Naturals

CONSTANTS Producers,   \* threads that call Enqueue
          Messages,    \* memory that can hold a message
          Dummy,       \* the address m_dummyPtr
          Null         \* nullptr

ASSUME DistinctNodes ==
    /\ Dummy \notin Messages
    /\ Null \notin Messages
    /\ Null # Dummy

Nodes == Messages \cup {Dummy}

VARIABLES
    link,      \* the intrusive link of every node
    head,      \* m_Head
    tail,      \* m_Tail
    enq,       \* for every producer, where it is inside Enqueue
    deq,       \* where the consumer is inside Dequeue
    prevHead,  \* the consumer's prevHead while it enqueues the dummy
    live,      \* messages handed to Enqueue and not yet deleted by the consumer
    output,    \* what the last Dequeue returned, Null for false
    chain,     \* history: nodes in the order of their exchanges, from m_Tail on
    overlap    \* history: an enqueue was being linked during this Dequeue

vars == <<link, head, tail, enq, deq, prevHead, live, output, chain, overlap>>

Idle == [at |-> "idle", node |-> Null, prev |-> Null]

Linking == {p \in Producers : enq[p].at = "link"}

Init ==
    /\ link = [n \in Nodes |-> Null]
    /\ head = Dummy
    /\ tail = Dummy
    /\ enq = [p \in Producers |-> Idle]
    /\ deq = "idle"
    /\ prevHead = Null
    /\ live = {}
    /\ output = Null
    /\ chain = <<Dummy>>
    /\ overlap = FALSE

-----------------------------------------------------------------------------
(* Enqueue(input), called by producer p with a message it has just built:  *)
(* the allocator may hand out the memory of any message already deleted.   *)

\* Mutation: Enqueue leaves the old link in a reused message.
EnqueueKeepsLink(p, m) ==
    /\ enq[p].at = "idle"
    /\ m \notin live
    /\ live' = live \cup {m}
    /\ enq' = [enq EXCEPT ![p] = [at |-> "exchange", node |-> m, prev |-> Null]]
    /\ UNCHANGED <<link, head, tail, deq, prevHead, output, chain, overlap>>

EnqueueClear(p, m) ==
    /\ enq[p].at = "idle"
    /\ m \notin live
    /\ live' = live \cup {m}
    /\ link' = [link EXCEPT ![m] = Null]
    /\ enq' = [enq EXCEPT ![p] = [at |-> "exchange", node |-> m, prev |-> Null]]
    /\ UNCHANGED <<head, tail, deq, prevHead, output, chain, overlap>>

EnqueueExchange(p) ==
    /\ enq[p].at = "exchange"
    /\ enq' = [enq EXCEPT ![p] = [at |-> "link", node |-> enq[p].node, prev |-> head]]
    /\ head' = enq[p].node
    /\ chain' = Append(chain, enq[p].node)
    /\ overlap' = (deq # "idle")
    /\ UNCHANGED <<link, tail, deq, prevHead, live, output>>

EnqueueLink(p) ==
    /\ enq[p].at = "link"
    /\ link' = [link EXCEPT ![enq[p].prev] = enq[p].node]
    /\ enq' = [enq EXCEPT ![p] = Idle]
    /\ UNCHANGED <<head, tail, deq, prevHead, live, output, chain, overlap>>

-----------------------------------------------------------------------------
(* Dequeue(result), called by the one consumer.                            *)

\* Dequeue returns true with message m: m_Tail moves on to next, and the
\* consumer copies m into its buffer and deletes it.
DequeueReturn(m, next) ==
    /\ tail' = next
    /\ output' = m
    /\ live' = live \ {m}
    /\ deq' = "idle"
    /\ chain' = Tail(chain)
    /\ overlap' = FALSE

\* Dequeue returns false.
DequeueFail ==
    /\ output' = Null
    /\ deq' = "idle"
    /\ overlap' = FALSE
    /\ UNCHANGED <<tail, live, chain>>

DequeueCall ==
    /\ deq = "idle"
    /\ deq' = "load"
    /\ overlap' = (Linking # {})
    /\ UNCHANGED <<link, head, tail, enq, prevHead, live, output, chain>>

\* The first load of the tail's link; the dummy is stepped over.
DequeueLoad ==
    /\ deq = "load"
    /\ LET next == link[tail] IN
       IF tail = Dummy
       THEN IF next = Null
            THEN DequeueFail
            ELSE /\ tail' = next
                 /\ chain' = Tail(chain)
                 /\ deq' = "reload"
                 /\ UNCHANGED <<live, output, overlap>>
       ELSE IF next # Null
            THEN DequeueReturn(tail, next)
            ELSE /\ deq' = "head"
                 /\ UNCHANGED <<tail, live, output, chain, overlap>>
    /\ UNCHANGED <<link, head, enq, prevHead>>

\* Mutation: Dequeue gives up instead of enqueuing the dummy.
DequeueReloadGivesUp ==
    /\ deq = "reload"
    /\ IF link[tail] # Null
       THEN DequeueReturn(tail, link[tail])
       ELSE DequeueFail
    /\ UNCHANGED <<link, head, enq, prevHead>>

\* Mutation: Dequeue waits for a successor.
DequeueReloadSpins ==
    /\ deq = "reload"
    /\ IF link[tail] # Null
       THEN DequeueReturn(tail, link[tail])
       ELSE UNCHANGED <<tail, live, output, deq, chain, overlap>>
    /\ UNCHANGED <<link, head, enq, prevHead>>

\* The load of the link of the node behind the dummy.
DequeueReload ==
    /\ deq = "reload"
    /\ IF link[tail] # Null
       THEN DequeueReturn(tail, link[tail])
       ELSE /\ deq' = "head"
            /\ UNCHANGED <<tail, live, output, chain, overlap>>
    /\ UNCHANGED <<link, head, enq, prevHead>>

\* The tail has no successor: give up if a producer has taken m_Head away.
DequeueCheckHead ==
    /\ deq = "head"
    /\ IF tail # head
       THEN DequeueFail
       ELSE /\ deq' = "clear"
            /\ UNCHANGED <<tail, live, output, chain, overlap>>
    /\ UNCHANGED <<link, head, enq, prevHead>>

\* Enqueue(m_dummyPtr), in the three steps of every Enqueue.
DummyClear ==
    /\ deq = "clear"
    /\ link' = [link EXCEPT ![Dummy] = Null]
    /\ deq' = "exchange"
    /\ UNCHANGED <<head, tail, enq, prevHead, live, output, chain, overlap>>

DummyExchange ==
    /\ deq = "exchange"
    /\ prevHead' = head
    /\ head' = Dummy
    /\ chain' = Append(chain, Dummy)
    /\ deq' = "link"
    /\ UNCHANGED <<link, tail, enq, live, output, overlap>>

DummyLink ==
    /\ deq = "link"
    /\ link' = [link EXCEPT ![prevHead] = Dummy]
    /\ prevHead' = Null
    /\ deq' = "recheck"
    /\ UNCHANGED <<head, tail, enq, live, output, chain, overlap>>

\* Mutation: the dummy just enqueued is taken for the tail's successor.
DequeueTrustsDummy ==
    /\ deq = "recheck"
    /\ DequeueReturn(tail, Dummy)
    /\ UNCHANGED <<link, head, enq, prevHead>>

\* The tail has a successor now, unless a producer exchanged m_Head after
\* DequeueCheckHead and has not linked its message yet.
DequeueRecheck ==
    /\ deq = "recheck"
    /\ IF link[tail] # Null
       THEN DequeueReturn(tail, link[tail])
       ELSE DequeueFail
    /\ UNCHANGED <<link, head, enq, prevHead>>

-----------------------------------------------------------------------------
Enqueue(p) ==
    \/ \E m \in Messages : EnqueueClear(p, m)
    \/ EnqueueExchange(p)
    \/ EnqueueLink(p)

Dequeue ==
    \/ DequeueCall
    \/ DequeueLoad
    \/ DequeueReload
    \/ DequeueCheckHead
    \/ DummyClear
    \/ DummyExchange
    \/ DummyLink
    \/ DequeueRecheck

Next == Dequeue \/ \E p \in Producers : Enqueue(p)

Spec == Init /\ [][Next]_vars

\* A thread inside Enqueue is not descheduled for ever, and the network
\* thread calls EndSendings, hence Dequeue, from its 1 ms timer.
Fairness ==
    /\ \A p \in Producers : WF_vars(EnqueueExchange(p) \/ EnqueueLink(p))
    /\ WF_vars(Dequeue)

FairSpec == Spec /\ Fairness

-----------------------------------------------------------------------------
DequeuePoints ==
    {"idle", "load", "reload", "head", "clear", "exchange", "link", "recheck"}

TypeOK ==
    /\ link \in [Nodes -> Nodes \cup {Null}]
    /\ head \in Nodes
    /\ tail \in Nodes
    /\ enq \in [Producers -> [at : {"idle", "exchange", "link"},
                              node : Messages \cup {Null},
                              prev : Nodes \cup {Null}]]
    /\ deq \in DequeuePoints
    /\ prevHead \in Nodes \cup {Null}
    /\ live \subseteq Messages
    /\ output \in Messages \cup {Null}
    /\ chain \in Seq(Nodes)
    /\ overlap \in BOOLEAN

\* node b was exchanged into m_Head right after a and is still to be linked.
Pending(a, b) ==
    \/ \E p \in Producers : /\ enq[p].at = "link"
                            /\ enq[p].prev = a
                            /\ enq[p].node = b
    \/ deq = "link" /\ prevHead = a /\ b = Dummy

\* The list is exactly the nodes enqueued and not yet dequeued, in the order
\* of their exchanges on m_Head: each node is linked to the next one, or
\* somebody is about to link it; nothing is lost, doubled or reordered
\* (MPSCQueue.h Enqueue and Dequeue).
ListIsInOrder ==
    /\ chain # <<>>
    /\ chain[1] = tail
    /\ chain[Len(chain)] = head
    /\ link[head] = Null
    /\ \A i, j \in 1 .. Len(chain) : i # j => chain[i] # chain[j]
    /\ \A i \in 1 .. Len(chain) - 1 :
          \/ link[chain[i]] = chain[i + 1]
          \/ link[chain[i]] = Null /\ Pending(chain[i], chain[i + 1])

InChain(n) == \E i \in 1 .. Len(chain) : chain[i] = n

\* The link a thread is about to write is in a node that is still in the
\* list: no Enqueue writes into a message that the consumer has been given
\* and has deleted (MPSCQueue.h:90 against Connection.h EndSendings).
NoWriteToDeleted ==
    /\ \A p \in Producers : enq[p].at = "link" =>
          /\ InChain(enq[p].prev)
          /\ enq[p].prev \in live \cup {Dummy}
    /\ deq = "link" => prevHead \in live

-----------------------------------------------------------------------------
(* What makes the two invariants above inductive.                          *)

\* A message being enqueued belongs to one Enqueue alone; before its exchange
\* it is outside the list, with no successor.
EnqueuesAreSeparate ==
    /\ \A p, q \in Producers :
          p # q /\ enq[p].at # "idle" /\ enq[q].at # "idle" => enq[p].node # enq[q].node
    /\ \A p \in Producers : enq[p].at # "idle" => enq[p].node \in live
    /\ \A p \in Producers : enq[p].at = "exchange" =>
          ~InChain(enq[p].node) /\ link[enq[p].node] = Null

\* A link about to be written is the missing link between two neighbours.
PendingAreNeighbours ==
    /\ \A p \in Producers : enq[p].at = "link" =>
          \E i \in 1 .. Len(chain) - 1 :
              /\ chain[i] = enq[p].prev
              /\ chain[i + 1] = enq[p].node
              /\ link[chain[i]] = Null
    /\ deq = "link" =>
          \E i \in 1 .. Len(chain) - 1 :
              /\ chain[i] = prevHead
              /\ chain[i + 1] = Dummy
              /\ link[chain[i]] = Null

\* Only live messages and the dummy are in the list; past the dummy, Dequeue
\* works on a message; it enqueues the dummy only when that is out of the list.
DummyIsQueuedOnce ==
    /\ \A i \in 1 .. Len(chain) : chain[i] \in live \cup {Dummy}
    /\ deq \notin {"idle", "load"} => tail # Dummy
    /\ deq \in {"clear", "exchange"} => ~InChain(Dummy)
    /\ deq = "exchange" => link[Dummy] = Null

IInv ==
    /\ TypeOK
    /\ ListIsInOrder
    /\ EnqueuesAreSeparate
    /\ PendingAreNeighbours
    /\ DummyIsQueuedOnce

-----------------------------------------------------------------------------
(* The abstract queue is the list without the dummy.                       *)

\* It is in the list once at most; what is behind it moves up.
DummyAmong(s, i) == \E j \in 1 .. i : s[j] = Dummy

WithoutDummy(s) ==
    [i \in 1 .. (IF DummyAmong(s, Len(s)) THEN Len(s) - 1 ELSE Len(s)) |->
        IF DummyAmong(s, i) THEN s[i + 1] ELSE s[i]]

Abstract == INSTANCE MessageQueue WITH
    queue <- WithoutDummy(chain),
    linking <- Linking,
    dequeuing <- deq # "idle"

\* Every behaviour of the linked list is a behaviour of the first-in first-out
\* queue: a message is answered in the order of the exchanges, and "empty" is
\* answered only when the queue is empty or an enqueue ran meanwhile.
ImplementsMessageQueue == Abstract!Spec

\* Every message handed to Enqueue is dequeued: the network thread polls, and
\* an interrupted Enqueue delays what is queued behind it but loses nothing.
EventuallyDequeued == \A m \in Messages : (m \in live) ~> (m \notin live)
=============================================================================
