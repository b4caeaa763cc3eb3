------------------------ MODULE NetworkThreadProofs -------------------------
(***************************************************************************)
(* What the network threads share with the other threads: the lock-free    *)
(* queue of messages, for any number of producers and messages, and the    *)
(* counts of the connections every thread has, for any number of threads   *)
(* and connections, as long as the counts have room for the connections.   *)
(***************************************************************************)
EXTENDS MPSCQueue, NetworkPool, SequenceTheorems, FiniteSetTheorems, WellFoundedInduction, TLAPS

-----------------------------------------------------------------------------
(* The list, seen as a sequence.                                           *)

\* Appending to a sequence leaves what was there and puts the new element last.
LEMMA AppendIndex ==
    ASSUME NEW S, NEW s \in Seq(S), NEW e \in S
    PROVE  /\ Append(s, e) \in Seq(S)
           /\ Len(Append(s, e)) = Len(s) + 1
           /\ \A i \in 1 .. Len(s) : Append(s, e)[i] = s[i]
           /\ Append(s, e)[Len(s) + 1] = e
BY AppendProperties

\* Dropping the first element shifts the rest by one.
LEMMA TailIndex ==
    ASSUME NEW S, NEW s \in Seq(S), s # <<>>
    PROVE  /\ Tail(s) \in Seq(S)
           /\ Len(Tail(s)) = Len(s) - 1
           /\ \A i \in 1 .. Len(s) - 1 : Tail(s)[i] = s[i + 1]
BY HeadTailProperties, LenProperties

\* The code reads a non-null link of the tail only when there is a second
\* node, and then that link is the second node.
LEMMA SuccessorOfTail ==
    ASSUME IInv, link[tail] # Null
    PROVE  /\ Len(chain) \in Nat
           /\ Len(chain) > 1
           /\ link[tail] = chain[2]
<1>1. Len(chain) \in Nat /\ Len(chain) > 0
  BY EmptySeq, LenProperties DEF IInv, TypeOK, ListIsInOrder
<1>2. Len(chain) # 1
  BY DEF IInv, ListIsInOrder
<1>3. 1 \in 1 .. Len(chain) - 1 /\ chain[1] = tail
  BY <1>1, <1>2 DEF IInv, ListIsInOrder
<1>4. QED
  BY <1>1, <1>3 DEF IInv, ListIsInOrder

-----------------------------------------------------------------------------
LEMMA InitIInv == Init => IInv
<1> SUFFICES ASSUME Init PROVE IInv
  OBVIOUS
<1>1. chain = <<Dummy>> /\ Len(chain) = 1 /\ chain[1] = Dummy /\ chain \in Seq(Nodes)
  BY DEF Init, Nodes
<1>2. TypeOK
  BY <1>1 DEF Init, TypeOK, Idle, DequeuePoints, Nodes
<1>3. ListIsInOrder
  BY <1>1 DEF Init, ListIsInOrder, Nodes
<1>4. EnqueuesAreSeparate /\ PendingAreNeighbours /\ DummyIsQueuedOnce
  BY <1>1 DEF Init, EnqueuesAreSeparate, PendingAreNeighbours, DummyIsQueuedOnce, Idle
<1>5. QED
  BY <1>2, <1>3, <1>4 DEF IInv

LEMMA EnqueueClearIInv ==
    ASSUME IInv, NEW p \in Producers, NEW m \in Messages, EnqueueClear(p, m)
    PROVE  IInv'
<1> USE DEF EnqueueClear, IInv
<1>1. TypeOK'
  BY DEF TypeOK, Nodes
<1>2. ~InChain(m) /\ m # Dummy
  BY DistinctNodes DEF InChain, DummyIsQueuedOnce
<1>3. \A i \in 1 .. Len(chain) : link'[chain[i]] = link[chain[i]]
  BY <1>2, LenProperties DEF InChain, TypeOK
<1>4. Len(chain) \in Nat /\ Len(chain) > 0
  BY EmptySeq, LenProperties DEF TypeOK, ListIsInOrder
<1>5. \A a, b : Pending(a, b) => Pending(a, b)'
  BY DEF Pending, TypeOK
<1>6. ListIsInOrder'
  BY <1>3, <1>4, <1>5 DEF ListIsInOrder
<1>7. EnqueuesAreSeparate'
  BY <1>2 DEF EnqueuesAreSeparate, InChain, TypeOK, Nodes
<1>8. PendingAreNeighbours'
  <2>1. \A i \in 1 .. Len(chain) - 1 : link'[chain[i]] = link[chain[i]]
    BY <1>3, <1>4
  <2>2. ASSUME NEW q \in Producers, enq'[q].at = "link"
        PROVE  enq'[q] = enq[q]
    BY <2>2 DEF TypeOK
  <2>3. ASSUME NEW q \in Producers, enq'[q].at = "link"
        PROVE  \E i \in 1 .. Len(chain) - 1 :
                 chain[i] = enq'[q].prev /\ chain[i + 1] = enq'[q].node /\ link'[chain[i]] = Null
    <3>1. enq[q].at = "link"
      BY <2>2, <2>3
    <3>2. QED
      BY <2>1, <2>2, <2>3, <3>1 DEF PendingAreNeighbours
  <2>4. deq = "link" =>
          \E i \in 1 .. Len(chain) - 1 :
              chain[i] = prevHead /\ chain[i + 1] = Dummy /\ link'[chain[i]] = Null
    BY <2>1 DEF PendingAreNeighbours
  <2>5. chain' = chain /\ deq' = deq /\ prevHead' = prevHead
    OBVIOUS
  <2>6. QED
    BY <2>3, <2>4, <2>5 DEF PendingAreNeighbours
<1>9. DummyIsQueuedOnce'
  BY <1>2 DEF DummyIsQueuedOnce, InChain, TypeOK, Nodes
<1>10. QED
  BY <1>1, <1>6, <1>7, <1>8, <1>9

LEMMA EnqueueLinkIInv ==
    ASSUME IInv, NEW p \in Producers, EnqueueLink(p)
    PROVE  IInv'
<1> USE DEF EnqueueLink, IInv
<1>1. PICK i \in 1 .. Len(chain) - 1 : /\ chain[i] = enq[p].prev
                                       /\ chain[i + 1] = enq[p].node
                                       /\ link[chain[i]] = Null
  BY DEF PendingAreNeighbours
<1>2. Len(chain) \in Nat /\ Len(chain) > 0
  BY EmptySeq, LenProperties DEF TypeOK, ListIsInOrder
<1>3. \A j \in 1 .. Len(chain) : chain[j] \in Nodes
  BY ElementOfSeq DEF TypeOK
<1>4. /\ link'[chain[i]] = chain[i + 1]
      /\ \A n \in Nodes : n # chain[i] => link'[n] = link[n]
  BY <1>1, <1>2, <1>3 DEF TypeOK
<1>5. TypeOK'
  BY <1>1, <1>2, <1>3 DEF TypeOK, Idle
<1>6. \A j \in 1 .. Len(chain) : j # i => link'[chain[j]] = link[chain[j]]
  BY <1>2, <1>3, <1>4 DEF ListIsInOrder
<1>7. \A j \in 1 .. Len(chain) - 1 :
         j # i /\ Pending(chain[j], chain[j + 1]) => Pending(chain[j], chain[j + 1])'
  <2> SUFFICES ASSUME NEW j \in 1 .. Len(chain) - 1, j # i, Pending(chain[j], chain[j + 1])
               PROVE  Pending(chain[j], chain[j + 1])'
    OBVIOUS
  <2>1. chain[j] # enq[p].prev
    BY <1>1, <1>2 DEF ListIsInOrder
  <2>2. QED
    BY <2>1 DEF Pending, TypeOK
<1>8. ListIsInOrder'
  BY <1>1, <1>2, <1>4, <1>6, <1>7, SMTT(30) DEF ListIsInOrder
<1>9. EnqueuesAreSeparate'
  BY <1>1, <1>2, <1>4 DEF EnqueuesAreSeparate, InChain, Idle, TypeOK, Nodes
<1>10. PendingAreNeighbours'
  <2>1. ASSUME NEW q \in Producers, enq'[q].at = "link"
        PROVE  \E j \in 1 .. Len(chain) - 1 :
                  chain[j] = enq'[q].prev /\ chain[j + 1] = enq'[q].node /\ link'[chain[j]] = Null
    <3>1. q # p /\ enq'[q] = enq[q]
      BY <2>1 DEF Idle, TypeOK
    <3>2. PICK j \in 1 .. Len(chain) - 1 : /\ chain[j] = enq[q].prev
                                           /\ chain[j + 1] = enq[q].node
                                           /\ link[chain[j]] = Null
      BY <2>1, <3>1 DEF PendingAreNeighbours
    <3>3. j # i
      BY <1>1, <2>1, <3>1, <3>2 DEF EnqueuesAreSeparate
    <3>4. QED
      BY <1>2, <1>6, <3>1, <3>2, <3>3
  <2>2. ASSUME deq = "link"
        PROVE  \E j \in 1 .. Len(chain) - 1 :
                  chain[j] = prevHead /\ chain[j + 1] = Dummy /\ link'[chain[j]] = Null
    <3>1. PICK j \in 1 .. Len(chain) - 1 : /\ chain[j] = prevHead
                                           /\ chain[j + 1] = Dummy
                                           /\ link[chain[j]] = Null
      BY <2>2 DEF PendingAreNeighbours
    <3>2. enq[p].node \in live /\ enq[p].node # Dummy
      BY DistinctNodes DEF EnqueuesAreSeparate, TypeOK
    <3>3. j # i
      BY <1>1, <3>1, <3>2
    <3>4. QED
      BY <1>2, <1>6, <3>1, <3>3
  <2>3. chain' = chain /\ deq' = deq /\ prevHead' = prevHead
    OBVIOUS
  <2>4. QED
    BY <2>1, <2>2, <2>3 DEF PendingAreNeighbours
<1>11. DummyIsQueuedOnce'
  BY <1>1, <1>2, <1>4 DEF DummyIsQueuedOnce, InChain, TypeOK, Nodes
<1>12. QED
  BY <1>5, <1>8, <1>9, <1>10, <1>11

LEMMA EnqueueExchangeIInv ==
    ASSUME IInv, NEW p \in Producers, EnqueueExchange(p)
    PROVE  IInv'
<1> USE DEF EnqueueExchange, IInv
<1> DEFINE n == Len(chain)
           m == enq[p].node
<1>1. m \in Messages /\ m \in live /\ ~InChain(m) /\ link[m] = Null /\ m # Dummy
  BY DistinctNodes DEF TypeOK, EnqueuesAreSeparate
<1>2. n \in Nat /\ n > 0
  BY EmptySeq, LenProperties DEF TypeOK, ListIsInOrder
<1>3. /\ chain' \in Seq(Nodes)
      /\ Len(chain') = n + 1
      /\ \A i \in 1 .. n : chain'[i] = chain[i]
      /\ chain'[n + 1] = m
  BY <1>1, AppendIndex DEF TypeOK, Nodes
<1>4. TypeOK'
  <2>1. head' \in Nodes /\ chain' \in Seq(Nodes) /\ overlap' \in BOOLEAN
    BY <1>1, <1>3 DEF Nodes
  <2>2. enq' \in [Producers -> [at : {"idle", "exchange", "link"},
                               node : Messages \cup {Null},
                               prev : Nodes \cup {Null}]]
    BY DEF TypeOK
  <2>3. QED
    BY <2>1, <2>2 DEF TypeOK
<1>5. /\ enq'[p].at = "link" /\ enq'[p].prev = head /\ enq'[p].node = m
      /\ \A q \in Producers : q # p => enq'[q] = enq[q]
  BY DEF TypeOK
<1>6. ASSUME NEW i \in 1 .. n - 1, Pending(chain[i], chain[i + 1])
      PROVE  Pending(chain[i], chain[i + 1])'
  <2>1. i \in 1 .. n /\ i + 1 \in 1 .. n
    BY <1>2
  <2>2. chain'[i] = chain[i] /\ chain'[i + 1] = chain[i + 1]
    BY <2>1, <1>3
  <2>3. CASE \E q \in Producers : /\ enq[q].at = "link"
                                 /\ enq[q].prev = chain[i]
                                 /\ enq[q].node = chain[i + 1]
    BY <2>2, <2>3, <1>5 DEF Pending
  <2>4. CASE deq = "link" /\ prevHead = chain[i] /\ chain[i + 1] = Dummy
    BY <2>2, <2>4 DEF Pending
  <2>5. QED
    BY <2>3, <2>4, <1>6 DEF Pending
<1>7. ListIsInOrder'
  <2>1. chain' # <<>> /\ chain'[1] = tail' /\ chain'[Len(chain')] = head' /\ link'[head'] = Null
    BY <1>1, <1>2, <1>3, EmptySeq DEF ListIsInOrder
  <2>2. ASSUME NEW i \in 1 .. n + 1, NEW j \in 1 .. n + 1, i # j
        PROVE  chain'[i] # chain'[j]
    BY <2>2, <1>1, <1>2, <1>3 DEF ListIsInOrder, InChain
  <2>3. ASSUME NEW i \in 1 .. n
        PROVE  \/ link'[chain'[i]] = chain'[i + 1]
               \/ link'[chain'[i]] = Null /\ Pending(chain[i], chain[i + 1])'
    <3>1. CASE i = n
      <4>1. chain'[i] = head /\ chain'[i + 1] = m /\ link'[head] = Null
        BY <3>1, <1>2, <1>3 DEF ListIsInOrder
      <4>2. QED
        BY <4>1, <1>5 DEF Pending
    <3>2. CASE i \in 1 .. n - 1
      <4>1. chain'[i] = chain[i] /\ chain'[i + 1] = chain[i + 1]
        BY <3>2, <1>2, <1>3
      <4>2. QED
        BY <4>1, <3>2, <1>6 DEF ListIsInOrder
    <3>3. QED
      BY <3>1, <3>2, <1>2
  <2>4. QED
    BY <2>1, <2>2, <2>3, <1>2, <1>3 DEF ListIsInOrder
<1>8. EnqueuesAreSeparate'
  <2>1. \A q \in Producers : /\ enq'[q].node = enq[q].node
                             /\ enq'[q].at # "idle" <=> enq[q].at # "idle"
                             /\ enq'[q].at = "exchange" => q # p /\ enq[q].at = "exchange"
    BY DEF TypeOK
  <2>2. \A x : x # m /\ ~InChain(x) => ~InChain(x)'
    BY <1>2, <1>3 DEF InChain
  <2>3. ASSUME NEW q \in Producers, enq'[q].at = "exchange"
        PROVE  ~InChain(enq[q].node)' /\ link'[enq'[q].node] = Null
    BY <2>1, <2>2, <2>3 DEF EnqueuesAreSeparate
  <2>4. ASSUME NEW q \in Producers, NEW r \in Producers, q # r,
               enq'[q].at # "idle", enq'[r].at # "idle"
        PROVE  enq'[q].node # enq'[r].node
    BY <2>1, <2>4 DEF EnqueuesAreSeparate
  <2>5. \A q \in Producers : enq'[q].at # "idle" => enq'[q].node \in live'
    <3>1. live' = live
      OBVIOUS
    <3>2. QED
      BY <2>1, <3>1 DEF EnqueuesAreSeparate
  <2>6. QED
    BY <2>3, <2>4, <2>5 DEF EnqueuesAreSeparate
<1>9. PendingAreNeighbours'
  <2>1. ASSUME NEW q \in Producers, enq'[q].at = "link"
        PROVE  \E i \in 1 .. Len(chain') - 1 :
                 chain'[i] = enq'[q].prev /\ chain'[i + 1] = enq'[q].node /\ link'[chain'[i]] = Null
    <3>1. CASE q = p
      <4>1. n \in 1 .. Len(chain') - 1 /\ chain'[n] = head /\ link[head] = Null
        BY <1>2, <1>3 DEF ListIsInOrder
      <4>2. QED
        BY <3>1, <4>1, <1>3, <1>5
    <3>2. CASE q # p
      <4>1. enq'[q] = enq[q]
        BY <3>2 DEF TypeOK
      <4>2. PICK i \in 1 .. n - 1 : /\ chain[i] = enq[q].prev
                                    /\ chain[i + 1] = enq[q].node
                                    /\ link[chain[i]] = Null
        BY <2>1, <4>1 DEF PendingAreNeighbours
      <4>3. i \in 1 .. Len(chain') - 1 /\ chain'[i] = chain[i] /\ chain'[i + 1] = chain[i + 1]
        BY <1>2, <1>3
      <4>4. QED
        BY <4>1, <4>2, <4>3
    <3>3. QED
      BY <3>1, <3>2
  <2>2. ASSUME deq = "link"
        PROVE  \E i \in 1 .. Len(chain') - 1 :
                 chain'[i] = prevHead /\ chain'[i + 1] = Dummy /\ link'[chain'[i]] = Null
    <3>1. PICK i \in 1 .. n - 1 : chain[i] = prevHead /\ chain[i + 1] = Dummy /\ link[chain[i]] = Null
      BY <2>2 DEF PendingAreNeighbours
    <3>2. i \in 1 .. Len(chain') - 1 /\ chain'[i] = chain[i] /\ chain'[i + 1] = chain[i + 1]
      BY <1>2, <1>3
    <3>3. QED
      BY <3>1, <3>2
  <2>3. QED
    BY <2>1, <2>2 DEF PendingAreNeighbours
<1>10. DummyIsQueuedOnce'
  BY <1>1, <1>2, <1>3 DEF DummyIsQueuedOnce, InChain, TypeOK, Nodes
<1>11. QED
  BY <1>4, <1>7, <1>8, <1>9, <1>10

-----------------------------------------------------------------------------
\* Whatever takes the first node off the list, when its link is not null,
\* keeps the rest of the list as it was.
LEMMA AdvanceTail ==
    ASSUME IInv, link[tail] # Null, tail' = link[tail], chain' = Tail(chain),
           UNCHANGED <<link, head, enq, prevHead>>,
           deq # "link", deq' # "link",
           live' = live \ {tail}
    PROVE  /\ chain' \in Seq(Nodes)
           /\ Len(chain') \in Nat
           /\ Len(chain') = Len(chain) - 1
           /\ tail' \in Nodes
           /\ tail' # tail
           /\ \A i \in 1 .. Len(chain') : chain'[i] = chain[i + 1]
           /\ ListIsInOrder'
           /\ EnqueuesAreSeparate'
           /\ PendingAreNeighbours'
           /\ \A i \in 1 .. Len(chain') : chain'[i] \in live' \cup {Dummy}
<1> USE DEF IInv
<1> DEFINE n == Len(chain)
<1>1. n \in Nat /\ n > 1 /\ link[tail] = chain[2]
  BY SuccessorOfTail
<1>2. /\ chain' \in Seq(Nodes)
      /\ Len(chain') = n - 1
      /\ \A i \in 1 .. n - 1 : chain'[i] = chain[i + 1]
  BY TailIndex DEF TypeOK, ListIsInOrder
<1>3. tail' \in Nodes /\ tail' # tail
  BY <1>1, ElementOfSeq DEF TypeOK, ListIsInOrder
<1>5. ListIsInOrder'
  <2>1. chain' # <<>> /\ chain'[1] = tail' /\ chain'[Len(chain')] = head' /\ link'[head'] = Null
    <3>1. chain' # <<>>
      <4>1. Len(chain') # 0
        BY <1>1, <1>2
      <4>2. QED
        BY <4>1
    <3>2. chain'[1] = chain[2] /\ chain'[Len(chain')] = chain[n]
      BY <1>1, <1>2
    <3>3. QED
      BY <3>1, <3>2, <1>1 DEF ListIsInOrder
  <2>2. ASSUME NEW i \in 1 .. n - 1, NEW j \in 1 .. n - 1, i # j
        PROVE  chain'[i] # chain'[j]
    BY <2>2, <1>1, <1>2 DEF ListIsInOrder
  <2>3. ASSUME NEW i \in 1 .. n - 2
        PROVE  \/ link'[chain'[i]] = chain'[i + 1]
               \/ link'[chain'[i]] = Null /\ Pending(chain[i], chain[i + 1])'
    <3>1. i + 1 \in 1 .. n - 1 /\ chain'[i] = chain[i + 1] /\ chain'[i + 1] = chain[(i + 1) + 1]
      BY <1>1, <1>2
    <3>2. Pending(chain[i + 1], chain[(i + 1) + 1]) => Pending(chain[i], chain[i + 1])'
      BY <3>1 DEF Pending
    <3>3. QED
      BY <3>1, <3>2 DEF ListIsInOrder
  <2>4. QED
    BY <2>1, <2>2, <2>3, <1>1, <1>2 DEF ListIsInOrder
<1>6. \A x : InChain(x)' => InChain(x) /\ x # tail
  BY <1>1, <1>2 DEF InChain, ListIsInOrder
<1>7. \A q \in Producers : enq[q].at # "idle" => enq[q].node # tail
  <2> SUFFICES ASSUME NEW q \in Producers, enq[q].at # "idle" PROVE enq[q].node # tail
    OBVIOUS
  <2>1. CASE enq[q].at = "exchange"
    BY <2>1, <1>1 DEF EnqueuesAreSeparate, InChain, ListIsInOrder
  <2>2. CASE enq[q].at = "link"
    <3>1. PICK i \in 1 .. n - 1 : chain[i + 1] = enq[q].node
      BY <2>2 DEF PendingAreNeighbours
    <3>2. QED
      BY <3>1, <1>1 DEF ListIsInOrder
  <2>3. QED
    BY <2>1, <2>2 DEF TypeOK
<1>8. EnqueuesAreSeparate'
  BY <1>6, <1>7 DEF EnqueuesAreSeparate
<1>9. PendingAreNeighbours'
  <2> SUFFICES ASSUME NEW q \in Producers, enq[q].at = "link"
               PROVE  \E i \in 1 .. Len(chain') - 1 :
                        /\ chain'[i] = enq[q].prev
                        /\ chain'[i + 1] = enq[q].node
                        /\ link[chain'[i]] = Null
    BY DEF PendingAreNeighbours
  <2>1. PICK i \in 1 .. n - 1 : /\ chain[i] = enq[q].prev
                                /\ chain[i + 1] = enq[q].node
                                /\ link[chain[i]] = Null
    BY DEF PendingAreNeighbours
  <2>2. i # 1
    BY <2>1 DEF ListIsInOrder
  <2>3. i - 1 \in 1 .. Len(chain') - 1 /\ chain'[i - 1] = chain[i] /\ chain'[(i - 1) + 1] = chain[i + 1]
    BY <2>2, <1>1, <1>2
  <2>4. QED
    BY <2>1, <2>3
<1>10. \A i \in 1 .. Len(chain') : chain'[i] \in live' \cup {Dummy}
  BY <1>1, <1>2 DEF DummyIsQueuedOnce, ListIsInOrder
<1>11. QED
  BY <1>1, <1>2, <1>3, <1>5, <1>8, <1>9, <1>10

\* Dequeue hands out the tail when its link is not null.
LEMMA DequeueReturnIInv ==
    ASSUME IInv, link[tail] # Null, DequeueReturn(tail, link[tail]),
           UNCHANGED <<link, head, enq, prevHead>>,
           tail # Dummy, deq # "link"
    PROVE  IInv'
<1> USE DEF DequeueReturn
<1>1. /\ chain' \in Seq(Nodes)
      /\ tail' \in Nodes
      /\ ListIsInOrder' /\ EnqueuesAreSeparate' /\ PendingAreNeighbours'
      /\ \A i \in 1 .. Len(chain') : chain'[i] \in live' \cup {Dummy}
  BY AdvanceTail
<1>2. output' \in Messages \cup {Null}
  <2>1. tail \in live \cup {Dummy} /\ live \subseteq Messages
    BY SuccessorOfTail DEF IInv, TypeOK, DummyIsQueuedOnce, ListIsInOrder
  <2>2. QED
    BY <2>1
<1>3. TypeOK'
  BY <1>1, <1>2 DEF IInv, TypeOK, DequeuePoints
<1>4. DummyIsQueuedOnce'
  BY <1>1 DEF DummyIsQueuedOnce
<1>5. QED
  BY <1>1, <1>3, <1>4 DEF IInv

\* A step of Dequeue that leaves the list, the links and the messages alone.
LEMMA LocalStepIInv ==
    ASSUME IInv, UNCHANGED <<link, head, tail, enq, prevHead, live, chain>>,
           deq # "link", deq' \in DequeuePoints \ {"link"},
           output' \in Messages \cup {Null}, overlap' \in BOOLEAN,
           deq' \notin {"idle", "load"} => tail # Dummy,
           deq' \in {"clear", "exchange"} => ~InChain(Dummy),
           deq' = "exchange" => link[Dummy] = Null
    PROVE  IInv'
<1> USE DEF IInv
<1>1. TypeOK'
  BY DEF TypeOK
<1>2. ListIsInOrder'
  <2>1. ASSUME NEW i \in 1 .. Len(chain) - 1, Pending(chain[i], chain[i + 1])
        PROVE  Pending(chain[i], chain[i + 1])'
    BY <2>1 DEF Pending
  <2>2. QED
    BY <2>1 DEF ListIsInOrder
<1>3. EnqueuesAreSeparate'
  BY DEF EnqueuesAreSeparate, InChain
<1>4. PendingAreNeighbours'
  BY DEF PendingAreNeighbours
<1>5. DummyIsQueuedOnce'
  BY DEF DummyIsQueuedOnce, InChain
<1>6. QED
  BY <1>1, <1>2, <1>3, <1>4, <1>5

LEMMA DequeueCallIInv == ASSUME IInv, DequeueCall PROVE IInv'
BY LocalStepIInv DEF DequeueCall, DequeuePoints, IInv, TypeOK

LEMMA DequeueLoadIInv == ASSUME IInv, DequeueLoad PROVE IInv'
<1>1. CASE tail = Dummy /\ link[tail] = Null
  BY <1>1, LocalStepIInv DEF DequeueLoad, DequeueFail, DequeuePoints
<1>2. CASE tail = Dummy /\ link[tail] # Null
  <2>1. /\ tail' = link[tail] /\ chain' = Tail(chain) /\ deq = "load" /\ deq' = "reload"
        /\ UNCHANGED <<live, output, overlap, link, head, enq, prevHead>>
    BY <1>2 DEF DequeueLoad
  <2>2. live' = live \ {tail}
    BY <1>2, <2>1, DistinctNodes DEF IInv, TypeOK
  <2>3. /\ chain' \in Seq(Nodes) /\ tail' \in Nodes /\ tail' # tail
        /\ ListIsInOrder' /\ EnqueuesAreSeparate' /\ PendingAreNeighbours'
        /\ \A i \in 1 .. Len(chain') : chain'[i] \in live' \cup {Dummy}
    BY <1>2, <2>1, <2>2, AdvanceTail
  <2>4. TypeOK'
    BY <2>1, <2>3 DEF IInv, TypeOK, DequeuePoints
  <2>5. DummyIsQueuedOnce'
    BY <1>2, <2>1, <2>3 DEF DummyIsQueuedOnce
  <2>6. QED
    BY <2>3, <2>4, <2>5 DEF IInv
<1>3. CASE tail # Dummy /\ link[tail] # Null
  BY <1>3, DequeueReturnIInv DEF DequeueLoad
<1>4. CASE tail # Dummy /\ link[tail] = Null
  BY <1>4, LocalStepIInv DEF DequeueLoad, DequeuePoints, IInv, TypeOK
<1>5. QED
  BY <1>1, <1>2, <1>3, <1>4

LEMMA DequeueReloadIInv == ASSUME IInv, DequeueReload PROVE IInv'
<1>1. tail # Dummy
  BY DEF DequeueReload, IInv, DummyIsQueuedOnce
<1>2. CASE link[tail] # Null
  BY <1>1, <1>2, DequeueReturnIInv DEF DequeueReload
<1>3. CASE link[tail] = Null
  BY <1>1, <1>3, LocalStepIInv DEF DequeueReload, DequeuePoints, IInv, TypeOK
<1>4. QED
  BY <1>2, <1>3

LEMMA DequeueCheckHeadIInv == ASSUME IInv, DequeueCheckHead PROVE IInv'
<1>1. tail # Dummy
  BY DEF DequeueCheckHead, IInv, DummyIsQueuedOnce
<1>2. CASE tail # head
  BY <1>2, LocalStepIInv DEF DequeueCheckHead, DequeueFail, DequeuePoints
<1>3. CASE tail = head
  <2>1. Len(chain) \in Nat /\ Len(chain) > 0
    BY EmptySeq, LenProperties DEF IInv, TypeOK, ListIsInOrder
  <2>2. Len(chain) = 1 /\ chain[1] = tail
    <3>1. 1 \in 1 .. Len(chain) /\ Len(chain) \in 1 .. Len(chain) /\ chain[1] = chain[Len(chain)]
      BY <1>3, <2>1 DEF IInv, ListIsInOrder
    <3>2. QED
      BY <3>1 DEF IInv, ListIsInOrder
  <2>3. ~InChain(Dummy)
    BY <1>1, <2>2 DEF InChain
  <2>4. QED
    BY <1>1, <1>3, <2>3, LocalStepIInv DEF DequeueCheckHead, DequeuePoints, IInv, TypeOK
<1>4. QED
  BY <1>2, <1>3

LEMMA DequeueRecheckIInv == ASSUME IInv, DequeueRecheck PROVE IInv'
<1>1. tail # Dummy
  BY DEF DequeueRecheck, IInv, DummyIsQueuedOnce
<1>2. CASE link[tail] # Null
  BY <1>1, <1>2, DequeueReturnIInv DEF DequeueRecheck
<1>3. CASE link[tail] = Null
  BY <1>3, LocalStepIInv DEF DequeueRecheck, DequeueFail, DequeuePoints
<1>4. QED
  BY <1>2, <1>3

-----------------------------------------------------------------------------
LEMMA DummyClearIInv == ASSUME IInv, DummyClear PROVE IInv'
<1> USE DEF DummyClear, IInv
<1>1. ~InChain(Dummy)
  BY DEF DummyIsQueuedOnce
<1>2. \A i \in 1 .. Len(chain) : chain[i] \in Nodes /\ chain[i] # Dummy
  BY <1>1, ElementOfSeq DEF InChain, TypeOK
<1>3. Len(chain) \in Nat /\ Len(chain) > 0
  BY EmptySeq, LenProperties DEF TypeOK, ListIsInOrder
<1>4. \A n \in Nodes : link'[n] = IF n = Dummy THEN Null ELSE link[n]
  BY DEF TypeOK
<1>5. TypeOK'
  BY DEF TypeOK, DequeuePoints, Nodes
<1>6. ListIsInOrder'
  <2>1. ASSUME NEW i \in 1 .. Len(chain) - 1, Pending(chain[i], chain[i + 1])
        PROVE  Pending(chain[i], chain[i + 1])'
    BY <2>1 DEF Pending
  <2>2. head \in Nodes /\ head # Dummy
    BY <1>2, <1>3 DEF ListIsInOrder
  <2>3. QED
    BY <1>2, <1>3, <1>4, <2>1, <2>2 DEF ListIsInOrder
<1>7. EnqueuesAreSeparate'
  BY DEF EnqueuesAreSeparate, InChain, TypeOK, Nodes
<1>8. PendingAreNeighbours'
  <2>1. \A i \in 1 .. Len(chain) - 1 : link'[chain[i]] = link[chain[i]]
    BY <1>2, <1>3, <1>4
  <2>2. chain' = chain /\ enq' = enq /\ deq' # "link"
    OBVIOUS
  <2>3. QED
    BY <2>1, <2>2 DEF PendingAreNeighbours
<1>9. DummyIsQueuedOnce'
  BY <1>1, <1>4 DEF DummyIsQueuedOnce, InChain, Nodes
<1>10. QED
  BY <1>5, <1>6, <1>7, <1>8, <1>9

LEMMA DummyExchangeIInv == ASSUME IInv, DummyExchange PROVE IInv'
<1> USE DEF DummyExchange, IInv
<1> DEFINE n == Len(chain)
<1>1. ~InChain(Dummy) /\ link[Dummy] = Null /\ Dummy \in Nodes
  BY DEF DummyIsQueuedOnce, Nodes
<1>2. n \in Nat /\ n > 0
  BY EmptySeq, LenProperties DEF TypeOK, ListIsInOrder
<1>3. /\ chain' \in Seq(Nodes)
      /\ Len(chain') = n + 1
      /\ \A i \in 1 .. n : chain'[i] = chain[i]
      /\ chain'[n + 1] = Dummy
  BY <1>1, AppendIndex DEF TypeOK
<1>4. TypeOK'
  BY <1>1, <1>3 DEF TypeOK, DequeuePoints
<1>5. ListIsInOrder'
  <2>1. chain' # <<>> /\ chain'[1] = tail' /\ chain'[Len(chain')] = head' /\ link'[head'] = Null
    BY <1>1, <1>2, <1>3, EmptySeq DEF ListIsInOrder
  <2>2. ASSUME NEW i \in 1 .. n + 1, NEW j \in 1 .. n + 1, i # j
        PROVE  chain'[i] # chain'[j]
    BY <2>2, <1>1, <1>2, <1>3 DEF ListIsInOrder, InChain
  <2>3. ASSUME NEW i \in 1 .. n
        PROVE  \/ link'[chain'[i]] = chain'[i + 1]
               \/ link'[chain'[i]] = Null /\ Pending(chain[i], chain[i + 1])'
    <3>1. CASE i = n
      <4>1. chain'[i] = head /\ chain'[i + 1] = Dummy /\ link'[head] = Null
        BY <3>1, <1>2, <1>3 DEF ListIsInOrder
      <4>2. QED
        BY <4>1 DEF Pending
    <3>2. CASE i \in 1 .. n - 1
      <4>1. chain'[i] = chain[i] /\ chain'[i + 1] = chain[i + 1]
        BY <3>2, <1>2, <1>3
      <4>2. Pending(chain[i], chain[i + 1]) => Pending(chain[i], chain[i + 1])'
        BY <4>1 DEF Pending
      <4>3. QED
        BY <4>1, <4>2, <3>2 DEF ListIsInOrder
    <3>3. QED
      BY <3>1, <3>2, <1>2
  <2>4. QED
    BY <2>1, <2>2, <2>3, <1>2, <1>3 DEF ListIsInOrder
<1>6. EnqueuesAreSeparate'
  <2>1. \A x : x # Dummy /\ ~InChain(x) => ~InChain(x)'
    BY <1>2, <1>3 DEF InChain
  <2>2. ASSUME NEW q \in Producers, enq[q].at = "exchange"
        PROVE  ~InChain(enq[q].node)'
    <3>1. enq[q].node # Dummy
      BY <2>2, DistinctNodes DEF EnqueuesAreSeparate, TypeOK
    <3>2. QED
      BY <2>1, <2>2, <3>1 DEF EnqueuesAreSeparate
  <2>3. QED
    BY <2>2 DEF EnqueuesAreSeparate
<1>7. PendingAreNeighbours'
  <2>1. ASSUME NEW q \in Producers, enq[q].at = "link"
        PROVE  \E i \in 1 .. Len(chain') - 1 :
                 chain'[i] = enq[q].prev /\ chain'[i + 1] = enq[q].node /\ link[chain'[i]] = Null
    <3>1. PICK i \in 1 .. n - 1 : /\ chain[i] = enq[q].prev
                                  /\ chain[i + 1] = enq[q].node
                                  /\ link[chain[i]] = Null
      BY <2>1 DEF PendingAreNeighbours
    <3>2. i \in 1 .. Len(chain') - 1 /\ chain'[i] = chain[i] /\ chain'[i + 1] = chain[i + 1]
      BY <1>2, <1>3
    <3>3. QED
      BY <3>1, <3>2
  <2>2. \E i \in 1 .. Len(chain') - 1 :
           chain'[i] = prevHead' /\ chain'[i + 1] = Dummy /\ link[chain'[i]] = Null
    <3>1. /\ n \in 1 .. Len(chain') - 1
          /\ chain'[n] = prevHead' /\ chain'[n + 1] = Dummy /\ link[chain'[n]] = Null
      BY <1>2, <1>3 DEF ListIsInOrder
    <3>2. QED
      BY <3>1
  <2>3. QED
    BY <2>1, <2>2 DEF PendingAreNeighbours
<1>8. DummyIsQueuedOnce'
  BY <1>1, <1>2, <1>3 DEF DummyIsQueuedOnce
<1>9. QED
  BY <1>4, <1>5, <1>6, <1>7, <1>8

LEMMA DummyLinkIInv == ASSUME IInv, DummyLink PROVE IInv'
<1> USE DEF DummyLink, IInv
<1>1. PICK i \in 1 .. Len(chain) - 1 : /\ chain[i] = prevHead
                                       /\ chain[i + 1] = Dummy
                                       /\ link[chain[i]] = Null
  BY DEF PendingAreNeighbours
<1>2. Len(chain) \in Nat /\ Len(chain) > 0
  BY EmptySeq, LenProperties DEF TypeOK, ListIsInOrder
<1>3. \A j \in 1 .. Len(chain) : chain[j] \in Nodes
  BY ElementOfSeq DEF TypeOK
<1>4. /\ link'[chain[i]] = chain[i + 1]
      /\ \A n \in Nodes : n # chain[i] => link'[n] = link[n]
  BY <1>1, <1>2, <1>3 DEF TypeOK
<1>5. TypeOK'
  BY <1>1, <1>2, <1>3 DEF TypeOK, DequeuePoints, Nodes
<1>6. \A j \in 1 .. Len(chain) : j # i => link'[chain[j]] = link[chain[j]]
  BY <1>2, <1>3, <1>4 DEF ListIsInOrder
<1>7. \A j \in 1 .. Len(chain) - 1 :
         j # i /\ Pending(chain[j], chain[j + 1]) => Pending(chain[j], chain[j + 1])'
  <2> SUFFICES ASSUME NEW j \in 1 .. Len(chain) - 1, j # i, Pending(chain[j], chain[j + 1])
               PROVE  Pending(chain[j], chain[j + 1])'
    OBVIOUS
  <2>1. chain[j] # prevHead
    BY <1>1, <1>2 DEF ListIsInOrder
  <2>2. QED
    BY <2>1 DEF Pending
<1>8. ListIsInOrder'
  BY <1>1, <1>2, <1>4, <1>6, <1>7 DEF ListIsInOrder
<1>9. EnqueuesAreSeparate'
  BY <1>1, <1>2, <1>4 DEF EnqueuesAreSeparate, InChain, TypeOK, Nodes
<1>10. PendingAreNeighbours'
  <2>1. ASSUME NEW q \in Producers, enq[q].at = "link"
        PROVE  \E j \in 1 .. Len(chain) - 1 :
                  chain[j] = enq[q].prev /\ chain[j + 1] = enq[q].node /\ link'[chain[j]] = Null
    <3>1. PICK j \in 1 .. Len(chain) - 1 : /\ chain[j] = enq[q].prev
                                           /\ chain[j + 1] = enq[q].node
                                           /\ link[chain[j]] = Null
      BY <2>1 DEF PendingAreNeighbours
    <3>2. j # i
      BY <1>1, <2>1, <3>1, DistinctNodes DEF EnqueuesAreSeparate, TypeOK
    <3>3. QED
      BY <1>2, <1>6, <3>1, <3>2
  <2>2. chain' = chain /\ enq' = enq /\ deq' # "link"
    OBVIOUS
  <2>3. QED
    BY <2>1, <2>2, SMTT(60) DEF PendingAreNeighbours
<1>11. DummyIsQueuedOnce'
  BY DEF DummyIsQueuedOnce, InChain
<1>12. QED
  BY <1>5, <1>8, <1>9, <1>10, <1>11

-----------------------------------------------------------------------------
\* IInv is inductive: every access to the list by any thread keeps it.
LEMMA StepIInv == ASSUME IInv, [Next]_vars PROVE IInv'
<1>1. CASE UNCHANGED vars
  BY <1>1 DEF vars, IInv, TypeOK, ListIsInOrder, Pending, EnqueuesAreSeparate,
              PendingAreNeighbours, DummyIsQueuedOnce, InChain
<1>2. ASSUME NEW p \in Producers, Enqueue(p) PROVE IInv'
  BY <1>2, EnqueueClearIInv, EnqueueExchangeIInv, EnqueueLinkIInv DEF Enqueue
<1>3. CASE Dequeue
  BY <1>3, DequeueCallIInv, DequeueLoadIInv, DequeueReloadIInv, DequeueCheckHeadIInv,
     DummyClearIInv, DummyExchangeIInv, DummyLinkIInv, DequeueRecheckIInv DEF Dequeue
<1>4. QED
  BY <1>1, <1>2, <1>3 DEF Next

\* The inductive invariant holds in every reachable state of the queue.
THEOREM Inductive == Spec => []IInv
<1>1. Init => IInv
  BY InitIInv
<1>2. IInv /\ [Next]_vars => IInv'
  BY StepIInv
<1>3. QED
  BY <1>1, <1>2, PTL DEF Spec

\* Every variable of the queue keeps its type, whatever the threads do.
THEOREM TypeCorrect == Spec => []TypeOK
<1>1. IInv => TypeOK
  BY DEF IInv
<1>2. QED
  BY <1>1, Inductive, PTL

\* For any number of producers, the linked list is the sequence of the nodes
\* in the order of their exchanges on m_Head: none is lost, doubled, reordered.
THEOREM InOrder == Spec => []ListIsInOrder
<1>1. IInv => ListIsInOrder
  BY DEF IInv
<1>2. QED
  BY <1>1, Inductive, PTL

\* No Enqueue, however long it is interrupted between its exchange and its
\* store, writes into a message the consumer has already deleted.
THEOREM NoUseAfterDelete == Spec => []NoWriteToDeleted
<1>1. IInv => NoWriteToDeleted
  <2> SUFFICES ASSUME IInv PROVE NoWriteToDeleted
    OBVIOUS
  <2>1. Len(chain) \in Nat
    BY LenProperties DEF IInv, TypeOK
  <2>2. ASSUME NEW p \in Producers, enq[p].at = "link"
        PROVE  InChain(enq[p].prev) /\ enq[p].prev \in live \cup {Dummy}
    <3>1. PICK i \in 1 .. Len(chain) - 1 : chain[i] = enq[p].prev
      BY <2>2 DEF IInv, PendingAreNeighbours
    <3>2. QED
      BY <2>1, <3>1 DEF IInv, DummyIsQueuedOnce, InChain
  <2>3. ASSUME deq = "link" PROVE prevHead \in live
    <3>1. PICK i \in 1 .. Len(chain) - 1 : chain[i] = prevHead /\ chain[i + 1] = Dummy
      BY <2>3 DEF IInv, PendingAreNeighbours
    <3>2. prevHead # Dummy
      BY <2>1, <3>1 DEF IInv, ListIsInOrder
    <3>3. QED
      BY <2>1, <3>1, <3>2 DEF IInv, DummyIsQueuedOnce
  <2>4. QED
    BY <2>2, <2>3 DEF NoWriteToDeleted
<1>2. QED
  BY <1>1, Inductive, PTL

-----------------------------------------------------------------------------
(* The list without the dummy is a first-in first-out queue.               *)

\* A list: a sequence of nodes in which none is twice.
IsList(s) ==
    /\ s \in Seq(Nodes)
    /\ \A i, j \in 1 .. Len(s) : i # j => s[i] # s[j]

LEMMA WithoutDummyIndex ==
    ASSUME NEW s, IsList(s)
    PROVE  /\ WithoutDummy(s) \in Seq(Nodes)
           /\ Len(WithoutDummy(s)) = IF DummyAmong(s, Len(s)) THEN Len(s) - 1 ELSE Len(s)
           /\ \A i \in 1 .. Len(WithoutDummy(s)) :
                 WithoutDummy(s)[i] = IF DummyAmong(s, i) THEN s[i + 1] ELSE s[i]
<1> DEFINE n == IF DummyAmong(s, Len(s)) THEN Len(s) - 1 ELSE Len(s)
<1>1. Len(s) \in Nat /\ \A i \in 1 .. Len(s) : s[i] \in Nodes
  BY LenProperties, ElementOfSeq DEF IsList
<1>2. n \in Nat BY <1>1 DEF DummyAmong
<1>3. \A i \in 1 .. n : (IF DummyAmong(s, i) THEN s[i + 1] ELSE s[i]) \in Nodes
  <2> SUFFICES ASSUME NEW i \in 1 .. n PROVE (IF DummyAmong(s, i) THEN s[i + 1] ELSE s[i]) \in Nodes
    OBVIOUS
  <2>1. CASE DummyAmong(s, i)
    <3>1. DummyAmong(s, Len(s)) BY <1>1, <1>2, <2>1 DEF DummyAmong
    <3> QED BY <1>1, <2>1, <3>1
  <2>2. CASE ~DummyAmong(s, i) BY <1>1, <1>2, <2>2
  <2> QED BY <2>1, <2>2
<1>4. WithoutDummy(s) = [i \in 1 .. n |-> IF DummyAmong(s, i) THEN s[i + 1] ELSE s[i]]
  BY DEF WithoutDummy
<1> HIDE DEF n
<1>5. WithoutDummy(s) \in [1 .. n -> Nodes] BY <1>3, <1>4
<1>6. WithoutDummy(s) \in Seq(Nodes) /\ Len(WithoutDummy(s)) = n BY <1>2, <1>5
<1>7. \A i \in 1 .. n : WithoutDummy(s)[i] = IF DummyAmong(s, i) THEN s[i + 1] ELSE s[i] BY <1>4
<1>8. \A i \in 1 .. Len(WithoutDummy(s)) :
         WithoutDummy(s)[i] = IF DummyAmong(s, i) THEN s[i + 1] ELSE s[i]
  BY <1>6, <1>7
<1>9. Len(WithoutDummy(s)) = IF DummyAmong(s, Len(s)) THEN Len(s) - 1 ELSE Len(s) BY <1>6 DEF n
<1> QED BY <1>6, <1>8, <1>9

\* A message that is put behind the list is put behind the queue, ...
LEMMA AppendMessage ==
    ASSUME NEW s, IsList(s), NEW m \in Messages, IsList(Append(s, m))
    PROVE  WithoutDummy(Append(s, m)) = Append(WithoutDummy(s), m)
<1> DEFINE t == Append(s, m)
           q == WithoutDummy(s)
           r == WithoutDummy(t)
<1>1. /\ Len(s) \in Nat /\ Len(t) = Len(s) + 1 /\ m \in Nodes /\ m # Dummy
      /\ \A i \in 1 .. Len(s) : t[i] = s[i]
      /\ t[Len(s) + 1] = m
  BY AppendIndex, LenProperties, DistinctNodes DEF IsList, Nodes
<1>2. \A i \in 1 .. Len(s) : DummyAmong(t, i) <=> DummyAmong(s, i) BY <1>1 DEF DummyAmong
<1>3. DummyAmong(t, Len(t)) <=> DummyAmong(s, Len(s)) BY <1>1 DEF DummyAmong
<1>4. /\ q \in Seq(Nodes) /\ Len(q) \in Nat
      /\ Len(q) = IF DummyAmong(s, Len(s)) THEN Len(s) - 1 ELSE Len(s)
      /\ \A i \in 1 .. Len(q) : q[i] = IF DummyAmong(s, i) THEN s[i + 1] ELSE s[i]
  BY WithoutDummyIndex, LenProperties
<1>5. /\ r \in Seq(Nodes)
      /\ Len(r) = IF DummyAmong(t, Len(t)) THEN Len(t) - 1 ELSE Len(t)
      /\ \A i \in 1 .. Len(r) : r[i] = IF DummyAmong(t, i) THEN t[i + 1] ELSE t[i]
  BY WithoutDummyIndex
<1>6. /\ Append(q, m) \in Seq(Nodes) /\ Len(Append(q, m)) = Len(q) + 1
      /\ \A i \in 1 .. Len(q) : Append(q, m)[i] = q[i]
      /\ Append(q, m)[Len(q) + 1] = m
  BY <1>1, <1>4, AppendIndex
<1> HIDE DEF t, q, r
<1>7. Len(r) = Len(q) + 1 BY <1>1, <1>3, <1>4, <1>5
<1>8. ASSUME NEW i \in 1 .. Len(q) PROVE r[i] = q[i]
  <2>1. CASE DummyAmong(s, i)
    <3>1. DummyAmong(s, Len(s)) /\ i + 1 \in 1 .. Len(s) /\ i \in 1 .. Len(s)
      BY <1>1, <1>4, <2>1 DEF DummyAmong
    <3> QED BY <1>1, <1>2, <1>4, <1>5, <1>7, <2>1, <3>1
  <2>2. CASE ~DummyAmong(s, i)
    <3>1. i \in 1 .. Len(s) BY <1>1, <1>4
    <3> QED BY <1>1, <1>2, <1>4, <1>5, <1>7, <2>2, <3>1
  <2> QED BY <2>1, <2>2
<1>9. r[Len(q) + 1] = m
  <2>1. CASE DummyAmong(s, Len(s))
    <3>1. Len(q) + 1 = Len(s) /\ Len(s) \in 1 .. Len(s) BY <1>1, <1>4, <2>1 DEF DummyAmong
    <3> QED BY <1>1, <1>2, <1>4, <1>5, <1>7, <2>1, <3>1
  <2>2. CASE ~DummyAmong(s, Len(s))
    <3>1. Len(q) + 1 = Len(t) /\ ~DummyAmong(t, Len(t)) BY <1>1, <1>3, <1>4, <2>2
    <3> QED BY <1>1, <1>4, <1>5, <1>7, <3>1
  <2> QED BY <2>1, <2>2
<1>10. \A i \in 1 .. Len(r) : r[i] = Append(q, m)[i]
  <2> SUFFICES ASSUME NEW i \in 1 .. Len(r) PROVE r[i] = Append(q, m)[i] OBVIOUS
  <2>1. CASE i = Len(q) + 1 BY <1>6, <1>9, <2>1
  <2>2. CASE i # Len(q) + 1 BY <1>4, <1>6, <1>7, <1>8, <2>2
  <2> QED BY <2>1, <2>2
<1>11. r = Append(q, m) BY <1>5, <1>6, <1>7, <1>10, SeqEqual
<1> QED BY <1>11 DEF t, q, r

\* ... the dummy makes no difference there, ...
LEMMA AppendDummy ==
    ASSUME NEW s, IsList(s), ~DummyAmong(s, Len(s)), IsList(Append(s, Dummy))
    PROVE  WithoutDummy(Append(s, Dummy)) = WithoutDummy(s)
<1> DEFINE t == Append(s, Dummy)
<1>1. /\ Len(s) \in Nat /\ Len(t) = Len(s) + 1
      /\ \A i \in 1 .. Len(s) : t[i] = s[i]
      /\ t[Len(s) + 1] = Dummy
  BY AppendIndex, LenProperties DEF IsList, Nodes
<1>2. \A i \in 1 .. Len(s) : ~DummyAmong(s, i) /\ ~DummyAmong(t, i) BY <1>1 DEF DummyAmong
<1>3. DummyAmong(t, Len(t)) BY <1>1 DEF DummyAmong
<1>4. /\ WithoutDummy(s) \in Seq(Nodes) /\ Len(WithoutDummy(s)) = Len(s)
      /\ \A i \in 1 .. Len(s) : WithoutDummy(s)[i] = s[i]
  BY <1>2, WithoutDummyIndex
<1>5. /\ WithoutDummy(t) \in Seq(Nodes) /\ Len(WithoutDummy(t)) = Len(t) - 1
      /\ \A i \in 1 .. Len(t) - 1 : WithoutDummy(t)[i] = IF DummyAmong(t, i) THEN t[i + 1] ELSE t[i]
  BY <1>3, WithoutDummyIndex
<1> HIDE DEF t
<1>6. Len(WithoutDummy(t)) = Len(WithoutDummy(s))
      /\ \A i \in 1 .. Len(WithoutDummy(t)) : WithoutDummy(t)[i] = WithoutDummy(s)[i]
  BY <1>1, <1>2, <1>4, <1>5
<1>7. WithoutDummy(t) = WithoutDummy(s) BY <1>4, <1>5, <1>6, SeqEqual
<1> QED BY <1>7 DEF t

\* ... nor at the front, ...
LEMMA SkipDummy ==
    ASSUME NEW s, IsList(s), s # <<>>, s[1] = Dummy, IsList(Tail(s))
    PROVE  WithoutDummy(Tail(s)) = WithoutDummy(s)
<1> DEFINE t == Tail(s)
<1>1. /\ Len(s) \in Nat /\ Len(s) > 0 /\ Len(t) = Len(s) - 1
      /\ \A i \in 1 .. Len(s) - 1 : t[i] = s[i + 1]
  BY TailIndex, EmptySeq, LenProperties DEF IsList
<1>2. \A i \in 1 .. Len(s) : DummyAmong(s, i) BY <1>1 DEF DummyAmong
<1>3. \A i \in 1 .. Len(t) : ~DummyAmong(t, i) BY <1>1 DEF DummyAmong, IsList
<1>4. ~DummyAmong(t, Len(t)) BY <1>1, <1>3 DEF DummyAmong
<1>5. /\ WithoutDummy(s) \in Seq(Nodes) /\ Len(WithoutDummy(s)) = Len(s) - 1
      /\ \A i \in 1 .. Len(s) - 1 : WithoutDummy(s)[i] = s[i + 1]
  <2>1. Len(s) \in 1 .. Len(s) BY <1>1
  <2>2. DummyAmong(s, Len(s)) BY <1>2, <2>1
  <2>3. WithoutDummy(s) \in Seq(Nodes) /\ Len(WithoutDummy(s)) = Len(s) - 1 BY <2>2, WithoutDummyIndex
  <2> QED BY <1>1, <1>2, <2>3, WithoutDummyIndex
<1>6. /\ WithoutDummy(t) \in Seq(Nodes) /\ Len(WithoutDummy(t)) = Len(t)
      /\ \A i \in 1 .. Len(t) : WithoutDummy(t)[i] = t[i]
  BY <1>3, <1>4, WithoutDummyIndex
<1> HIDE DEF t
<1>7. Len(WithoutDummy(t)) = Len(WithoutDummy(s))
      /\ \A i \in 1 .. Len(WithoutDummy(t)) : WithoutDummy(t)[i] = WithoutDummy(s)[i]
  BY <1>1, <1>5, <1>6
<1>8. WithoutDummy(t) = WithoutDummy(s) BY <1>5, <1>6, <1>7, SeqEqual
<1> QED BY <1>8 DEF t

\* ... and a message at the front of the list is at the front of the queue.
LEMMA TakeMessage ==
    ASSUME NEW s, IsList(s), s # <<>>, s[1] # Dummy, IsList(Tail(s))
    PROVE  /\ WithoutDummy(s) # <<>>
           /\ Head(WithoutDummy(s)) = s[1]
           /\ WithoutDummy(Tail(s)) = Tail(WithoutDummy(s))
<1> DEFINE t == Tail(s)
           q == WithoutDummy(s)
           r == WithoutDummy(t)
<1>1. /\ Len(s) \in Nat /\ Len(s) > 0 /\ Len(t) = Len(s) - 1
      /\ \A i \in 1 .. Len(s) - 1 : t[i] = s[i + 1]
  BY TailIndex, EmptySeq, LenProperties DEF IsList
<1>2. \A i \in 0 .. Len(t) : DummyAmong(t, i) <=> DummyAmong(s, i + 1)
  <2> SUFFICES ASSUME NEW i \in 0 .. Len(t) PROVE DummyAmong(t, i) <=> DummyAmong(s, i + 1) OBVIOUS
  <2>1. ASSUME DummyAmong(t, i) PROVE DummyAmong(s, i + 1)
    <3>1. PICK j \in 1 .. i : t[j] = Dummy BY <2>1 DEF DummyAmong
    <3>2. j + 1 \in 1 .. i + 1 /\ s[j + 1] = Dummy BY <1>1, <3>1
    <3> QED BY <3>2 DEF DummyAmong
  <2>2. ASSUME DummyAmong(s, i + 1) PROVE DummyAmong(t, i)
    <3>1. PICK j \in 1 .. i + 1 : s[j] = Dummy BY <2>2 DEF DummyAmong
    <3>2. j - 1 \in 1 .. i /\ t[j - 1] = Dummy BY <1>1, <3>1
    <3> QED BY <3>2 DEF DummyAmong
  <2> QED BY <2>1, <2>2
<1>3. /\ q \in Seq(Nodes) /\ Len(q) \in Nat
      /\ Len(q) = IF DummyAmong(s, Len(s)) THEN Len(s) - 1 ELSE Len(s)
      /\ \A i \in 1 .. Len(q) : q[i] = IF DummyAmong(s, i) THEN s[i + 1] ELSE s[i]
  BY WithoutDummyIndex, LenProperties
<1>4. /\ r \in Seq(Nodes)
      /\ Len(r) = IF DummyAmong(t, Len(t)) THEN Len(t) - 1 ELSE Len(t)
      /\ \A i \in 1 .. Len(r) : r[i] = IF DummyAmong(t, i) THEN t[i + 1] ELSE t[i]
  BY WithoutDummyIndex
<1> HIDE DEF t, q, r
<1>5. DummyAmong(s, Len(s)) => Len(s) > 1 BY <1>1 DEF DummyAmong
<1>6. Len(q) > 0 BY <1>1, <1>3, <1>5
<1>7. ~DummyAmong(s, 1) BY DEF DummyAmong
<1>8. q[1] = s[1] BY <1>3, <1>6, <1>7
<1>9. q # <<>> BY <1>6
<1>10. /\ Tail(q) \in Seq(Nodes) /\ Len(Tail(q)) = Len(q) - 1
       /\ \A i \in 1 .. Len(q) - 1 : Tail(q)[i] = q[i + 1]
  BY <1>3, <1>9, TailIndex
<1>11. DummyAmong(t, Len(t)) <=> DummyAmong(s, Len(s))
  <2>1. Len(t) \in 0 .. Len(t) /\ Len(t) + 1 = Len(s) BY <1>1
  <2> QED BY <1>2, <2>1
<1>12. Len(r) = Len(Tail(q)) BY <1>1, <1>3, <1>4, <1>10, <1>11
<1>13. ASSUME NEW i \in 1 .. Len(r) PROVE r[i] = Tail(q)[i]
  <2>1. i \in 0 .. Len(t) /\ i \in 1 .. Len(t) /\ i + 1 \in 1 .. Len(q) /\ i \in 1 .. Len(q) - 1
    BY <1>1, <1>3, <1>4, <1>10, <1>12
  <2>2. Tail(q)[i] = IF DummyAmong(s, i + 1) THEN s[i + 1 + 1] ELSE s[i + 1] BY <1>3, <1>10, <2>1
  <2>3. r[i] = IF DummyAmong(s, i + 1) THEN t[i + 1] ELSE t[i] BY <1>2, <1>4, <2>1
  <2>4. t[i] = s[i + 1] BY <1>1, <2>1
  <2>5. DummyAmong(s, i + 1) => t[i + 1] = s[i + 1 + 1]
    <3>1. SUFFICES ASSUME DummyAmong(s, i + 1) PROVE t[i + 1] = s[i + 1 + 1] OBVIOUS
    <3>2. DummyAmong(t, Len(t)) BY <1>1, <1>2, <2>1, <3>1 DEF DummyAmong
    <3>3. i + 1 \in 1 .. Len(s) - 1 BY <1>1, <1>4, <3>2
    <3> QED BY <1>1, <3>3
  <2> QED BY <2>2, <2>3, <2>4, <2>5
<1>14. r = Tail(q) BY <1>4, <1>10, <1>12, <1>13, SeqEqual
<1>15. Head(q) = q[1] BY <1>3, <1>9
<1> QED BY <1>8, <1>9, <1>14, <1>15 DEF t, q, r

-----------------------------------------------------------------------------
(* The refinement.                                                         *)

\* Whatever makes Dequeue find no successor although there is one has happened
\* during this Dequeue.
OverlapIsKnown ==
    /\ deq # "idle" /\ Linking # {} => overlap
    /\ deq = "head" /\ tail # head => overlap
    /\ deq \in {"link", "recheck"} => Len(chain) > 1

LEMMA ChainIsList == ASSUME IInv PROVE IsList(chain) /\ chain # <<>> /\ chain[1] = tail
BY DEF IInv, TypeOK, ListIsInOrder, IsList

\* A tail without a link is the last node, or somebody is about to link it.
LEMMA LonelyTail ==
    ASSUME IInv, link[tail] = Null, deq # "link"
    PROVE  (Len(chain) = 1 /\ tail = head) \/ Linking # {}
<1>1. Len(chain) \in Nat /\ Len(chain) > 0
  BY EmptySeq, LenProperties DEF IInv, TypeOK, ListIsInOrder
<1>2. CASE Len(chain) = 1 BY <1>2 DEF IInv, ListIsInOrder
<1>3. CASE Len(chain) > 1
  <2>1. 1 \in 1 .. Len(chain) - 1 /\ chain[1] = tail BY <1>1, <1>3 DEF IInv, ListIsInOrder
  <2>2. chain[1 + 1] # Null
    <3>1. 1 + 1 \in 1 .. Len(chain) BY <1>1, <1>3
    <3>2. chain[1 + 1] \in Nodes BY <3>1, ElementOfSeq DEF IInv, TypeOK
    <3> QED BY <3>2, DistinctNodes DEF Nodes
  <2>3. Pending(chain[1], chain[1 + 1]) BY <2>1, <2>2 DEF IInv, ListIsInOrder
  <2> QED BY <2>3 DEF Pending, Linking
<1>4. Len(chain) = 1 \/ Len(chain) > 1 BY <1>1, SMTT(30)
<1> QED BY <1>2, <1>3, <1>4

LEMMA InitOverlap == Init => OverlapIsKnown
BY DEF Init, OverlapIsKnown, Linking, Idle

LEMMA EnqueueOverlap ==
    ASSUME IInv, OverlapIsKnown, NEW p \in Producers, Enqueue(p)
    PROVE  OverlapIsKnown'
<1> USE DEF OverlapIsKnown
<1>1. ASSUME NEW m \in Messages, EnqueueClear(p, m) PROVE OverlapIsKnown'
  <2>1. Linking' \subseteq Linking BY <1>1 DEF Linking, EnqueueClear, IInv, TypeOK
  <2> QED BY <1>1, <2>1 DEF EnqueueClear
<1>2. CASE EnqueueExchange(p)
  <2>1. Len(chain') = Len(chain) + 1 /\ Len(chain) \in Nat
    BY <1>2, AppendIndex, LenProperties, DistinctNodes DEF EnqueueExchange, IInv, TypeOK, EnqueuesAreSeparate, Nodes
  <2>2. deq' = deq /\ (deq # "idle" => overlap') BY <1>2 DEF EnqueueExchange
  <2>3. Len(chain) > 1 => Len(chain') > 1 BY <2>1
  <2> QED BY <2>2, <2>3
<1>3. CASE EnqueueLink(p)
  <2>1. Linking' \subseteq Linking BY <1>3 DEF Linking, EnqueueLink, Idle, IInv, TypeOK
  <2> QED BY <1>3, <2>1 DEF EnqueueLink
<1> QED BY <1>1, <1>2, <1>3 DEF Enqueue

LEMMA DequeueOverlap == ASSUME IInv, OverlapIsKnown, Dequeue PROVE OverlapIsKnown'
<1> USE DEF OverlapIsKnown
<1>1. enq' = enq /\ Linking' = Linking
  BY DEF Dequeue, DequeueCall, DequeueLoad, DequeueReload, DequeueCheckHead, DummyClear, DummyExchange,
         DummyLink, DequeueRecheck, DequeueReturn, DequeueFail, Linking
<1>2. CASE DequeueCall BY <1>1, <1>2 DEF DequeueCall
<1>3. CASE DequeueLoad BY <1>1, <1>3, LonelyTail DEF DequeueLoad, DequeueReturn, DequeueFail
<1>4. CASE DequeueReload BY <1>1, <1>4, LonelyTail DEF DequeueReload, DequeueReturn
<1>5. CASE DequeueCheckHead BY <1>1, <1>5 DEF DequeueCheckHead, DequeueFail
<1>6. CASE DummyClear BY <1>1, <1>6 DEF DummyClear
<1>7. CASE DummyExchange
  <2>1. Len(chain) \in Nat /\ Len(chain) > 0
    BY EmptySeq, LenProperties DEF IInv, TypeOK, ListIsInOrder
  <2>2. Len(chain') = Len(chain) + 1 BY <1>7, AppendIndex DEF DummyExchange, IInv, TypeOK, Nodes
  <2> QED BY <1>1, <1>7, <2>1, <2>2 DEF DummyExchange
<1>8. CASE DummyLink BY <1>1, <1>8 DEF DummyLink
<1>9. CASE DequeueRecheck BY <1>1, <1>9 DEF DequeueRecheck, DequeueReturn, DequeueFail
<1> QED BY <1>2, <1>3, <1>4, <1>5, <1>6, <1>7, <1>8, <1>9 DEF Dequeue

\* An exchange is where an enqueue takes effect, and its link is its return.
LEMMA EnqueueRefines ==
    ASSUME IInv, IInv', NEW p \in Producers, Enqueue(p)
    PROVE  Abstract!Next \/ UNCHANGED Abstract!vars
<1>1. ASSUME NEW m \in Messages, EnqueueClear(p, m) PROVE UNCHANGED Abstract!vars
  <2>1. Linking' = Linking BY <1>1 DEF Linking, EnqueueClear, IInv, TypeOK
  <2> QED BY <1>1, <2>1 DEF EnqueueClear, Abstract!vars
<1>2. CASE EnqueueExchange(p)
  <2> DEFINE m == enq[p].node
  <2>1. m \in Messages
    <3>1. m \in live BY <1>2 DEF EnqueueExchange, IInv, EnqueuesAreSeparate
    <3> QED BY <3>1 DEF IInv, TypeOK
  <2>2. chain' = Append(chain, m) /\ overlap' = (deq # "idle") /\ UNCHANGED <<deq, output>>
    BY <1>2 DEF EnqueueExchange
  <2>3. WithoutDummy(chain)' = Append(WithoutDummy(chain), m)
    <3>1. IsList(chain) BY ChainIsList
    <3>2. IsList(chain') BY DEF IInv, TypeOK, ListIsInOrder, IsList
    <3>3. WithoutDummy(Append(chain, m)) = Append(WithoutDummy(chain), m)
      BY <2>1, <2>2, <3>1, <3>2, AppendMessage
    <3> QED BY <2>2, <3>3
  <2>4. p \notin Linking /\ Linking' = Linking \cup {p}
    BY <1>2 DEF EnqueueExchange, Linking, IInv, TypeOK
  <2>5. Abstract!EnqueueTakesEffect(p, m) BY <2>2, <2>3, <2>4 DEF Abstract!EnqueueTakesEffect
  <2> QED BY <2>1, <2>5 DEF Abstract!Next
<1>3. CASE EnqueueLink(p)
  <2>1. p \in Linking /\ Linking' = Linking \ {p}
    BY <1>3 DEF EnqueueLink, Linking, Idle, IInv, TypeOK
  <2>2. UNCHANGED <<chain, deq, overlap, output>> BY <1>3 DEF EnqueueLink
  <2>3. Abstract!EnqueueReturns(p) BY <2>1, <2>2 DEF Abstract!EnqueueReturns
  <2> QED BY <2>3 DEF Abstract!Next
<1> QED BY <1>1, <1>2, <1>3 DEF Enqueue

\* Every way to return a message returns the first of the queue.
LEMMA ReturnRefines ==
    ASSUME IInv, IInv', deq # "idle", tail # Dummy, NEW n, DequeueReturn(tail, n), UNCHANGED enq
    PROVE  Abstract!Next
<1>1. /\ WithoutDummy(chain) # <<>> /\ Head(WithoutDummy(chain)) = tail
      /\ WithoutDummy(chain)' = Tail(WithoutDummy(chain))
  <2>1. chain' = Tail(chain) BY DEF DequeueReturn
  <2>2. IsList(Tail(chain)) BY <2>1 DEF IInv, TypeOK, ListIsInOrder, IsList
  <2> QED BY <2>1, <2>2, ChainIsList, TakeMessage
<1>2. Abstract!DequeueMessage
  BY <1>1 DEF DequeueReturn, Linking, Abstract!DequeueMessage
<1> QED BY <1>2 DEF Abstract!Next

\* "Empty" is the answer when the queue is, or when there was an overlap.
LEMMA FailRefines ==
    ASSUME deq # "idle", DequeueFail, UNCHANGED enq, WithoutDummy(chain) = <<>> \/ overlap
    PROVE  Abstract!Next
<1>1. Abstract!DequeueEmpty BY DEF DequeueFail, Linking, Abstract!DequeueEmpty
<1> QED BY <1>1 DEF Abstract!Next

LEMMA DequeueRefines ==
    ASSUME IInv, IInv', OverlapIsKnown, Dequeue
    PROVE  Abstract!Next \/ UNCHANGED Abstract!vars
<1>1. CASE DequeueCall
  <2>1. Abstract!DequeueCall BY <1>1 DEF DequeueCall, Linking, Abstract!DequeueCall
  <2> QED BY <2>1 DEF Abstract!Next
<1>2. CASE DequeueLoad
  <2>1. CASE tail = Dummy /\ link[tail] = Null
    <3>1. DequeueFail /\ deq # "idle" /\ UNCHANGED enq BY <1>2, <2>1 DEF DequeueLoad
    <3>2. Len(chain) = 1 \/ overlap BY <1>2, <2>1, LonelyTail DEF DequeueLoad, OverlapIsKnown
    <3>3. ASSUME Len(chain) = 1 PROVE WithoutDummy(chain) = <<>>
      <4>1. DummyAmong(chain, Len(chain)) BY <2>1, <3>3, ChainIsList DEF DummyAmong
      <4>2. Len(WithoutDummy(chain)) = 0 /\ WithoutDummy(chain) \in Seq(Nodes)
        BY <3>3, <4>1, ChainIsList, WithoutDummyIndex
      <4> QED BY <4>2, EmptySeq
    <3> QED BY <3>1, <3>2, <3>3, FailRefines
  <2>2. CASE tail = Dummy /\ link[tail] # Null
    <3>1. chain' = Tail(chain) /\ deq' # "idle" /\ deq # "idle" /\ UNCHANGED <<enq, output, overlap>>
      BY <1>2, <2>2 DEF DequeueLoad
    <3>2. IsList(Tail(chain)) BY <3>1 DEF IInv, TypeOK, ListIsInOrder, IsList
    <3>3. WithoutDummy(chain)' = WithoutDummy(chain) BY <2>2, <3>1, <3>2, ChainIsList, SkipDummy
    <3> QED BY <3>1, <3>3 DEF Linking, Abstract!vars
  <2>3. CASE tail # Dummy /\ link[tail] # Null
    BY <1>2, <2>3, ReturnRefines DEF DequeueLoad
  <2>4. CASE tail # Dummy /\ link[tail] = Null
    BY <1>2, <2>4 DEF DequeueLoad, Linking, Abstract!vars
  <2> QED BY <2>1, <2>2, <2>3, <2>4
<1>3. CASE DequeueReload
  <2>1. tail # Dummy BY <1>3 DEF DequeueReload, IInv, DummyIsQueuedOnce
  <2>2. CASE link[tail] # Null BY <1>3, <2>1, <2>2, ReturnRefines DEF DequeueReload
  <2>3. CASE link[tail] = Null BY <1>3, <2>3 DEF DequeueReload, Linking, Abstract!vars
  <2> QED BY <2>2, <2>3
<1>4. CASE DequeueCheckHead
  <2>1. CASE tail # head BY <1>4, <2>1, FailRefines DEF DequeueCheckHead, OverlapIsKnown
  <2>2. CASE tail = head BY <1>4, <2>2 DEF DequeueCheckHead, Linking, Abstract!vars
  <2> QED BY <2>1, <2>2
<1>5. CASE DummyClear \/ DummyLink BY <1>5 DEF DummyClear, DummyLink, Linking, Abstract!vars
<1>6. CASE DummyExchange
  <2>1. chain' = Append(chain, Dummy) /\ deq' # "idle" /\ deq # "idle" /\ UNCHANGED <<enq, output, overlap>>
    BY <1>6 DEF DummyExchange
  <2>2. ~DummyAmong(chain, Len(chain))
    BY <1>6 DEF DummyExchange, IInv, DummyIsQueuedOnce, InChain, DummyAmong
  <2>3. IsList(Append(chain, Dummy)) BY <2>1 DEF IInv, TypeOK, ListIsInOrder, IsList
  <2>4. WithoutDummy(chain)' = WithoutDummy(chain) BY <2>1, <2>2, <2>3, ChainIsList, AppendDummy
  <2> QED BY <2>1, <2>4 DEF Linking, Abstract!vars
<1>7. CASE DequeueRecheck
  <2>1. tail # Dummy BY <1>7 DEF DequeueRecheck, IInv, DummyIsQueuedOnce
  <2>2. CASE link[tail] # Null BY <1>7, <2>1, <2>2, ReturnRefines DEF DequeueRecheck
  <2>3. CASE link[tail] = Null
    <3>1. deq = "recheck" /\ Len(chain) > 1 BY <1>7 DEF DequeueRecheck, OverlapIsKnown
    <3>2. Len(chain) # 1 BY <3>1, SMTT(30)
    <3>3. overlap BY <2>3, <3>1, <3>2, LonelyTail DEF OverlapIsKnown
    <3> QED BY <1>7, <2>3, <3>3, FailRefines DEF DequeueRecheck
  <2> QED BY <2>2, <2>3
<1> QED BY <1>1, <1>2, <1>3, <1>4, <1>5, <1>6, <1>7 DEF Dequeue

LEMMA InitRefines == Init => Abstract!Init
<1> SUFFICES ASSUME Init PROVE Abstract!Init OBVIOUS
<1>1. IInv BY InitIInv
<1>2. Len(chain) = 1 /\ DummyAmong(chain, Len(chain)) BY DEF Init, DummyAmong
<1>3. Len(WithoutDummy(chain)) = 0 /\ WithoutDummy(chain) \in Seq(Nodes)
  BY <1>1, <1>2, ChainIsList, WithoutDummyIndex
<1>4. WithoutDummy(chain) = <<>> BY <1>3, EmptySeq
<1> QED BY <1>4 DEF Init, Linking, Idle, Abstract!Init

\* Any number of producers and the consumer, however their accesses interleave,
\* make one first-in first-out queue of the linked list; "empty" is answered
\* wrongly only when an enqueue was under way during that Dequeue.
THEOREM IsMessageQueue == Spec => ImplementsMessageQueue
<1>1. Init => IInv /\ OverlapIsKnown /\ Abstract!Init BY InitIInv, InitOverlap, InitRefines
<1>2. IInv /\ OverlapIsKnown /\ [Next]_vars => IInv' /\ OverlapIsKnown'
  <2>1. UNCHANGED vars /\ OverlapIsKnown => OverlapIsKnown' BY DEF vars, OverlapIsKnown, Linking
  <2> QED BY <2>1, StepIInv, EnqueueOverlap, DequeueOverlap DEF Next
<1>3. IInv /\ IInv' /\ OverlapIsKnown /\ [Next]_vars => [Abstract!Next]_(Abstract!vars)
  <2>1. UNCHANGED vars => UNCHANGED Abstract!vars BY DEF vars, Linking, Abstract!vars
  <2> QED BY <2>1, EnqueueRefines, DequeueRefines DEF Next
<1> QED BY <1>1, <1>2, <1>3, PTL DEF Spec, ImplementsMessageQueue, Abstract!Spec

-----------------------------------------------------------------------------
(* The counts of the pool of threads.                                      *)

PoolTypes ==
    /\ count \in [Threads -> 0 .. CountModulus - 1]
    /\ added \in [Threads -> SUBSET Connections]
    /\ attached \in [Threads -> SUBSET Connections]
    /\ closed \subseteq Connections
    /\ counter \in Threads \cup {None}
    /\ selected \in Threads \cup {None}
    /\ fresh \subseteq Connections

\* How many connections were opened so far: no count goes beyond, so none wraps
\* but the one that is counted down for others.
Opened == Cardinality(Connections) - Cardinality(fresh)

CountsAreBetween ==
    \A t \in Threads : t # counter => Load(t) =< count[t] /\ count[t] =< Opened

PoolInv == PoolTypes /\ CountsAreBetween

-----------------------------------------------------------------------------
LEMMA ThreadFacts == Threads \subseteq Nat /\ None \notin Threads
BY PoolAssumption DEF Threads

\* Sets of connections have a number.
LEMMA Numbers == \A S \in SUBSET Connections : IsFiniteSet(S) /\ Cardinality(S) \in Nat
BY PoolAssumption, FS_Subset, FS_CardinalityType

LEMMA WrapInRange ==
    \A n \in Int : /\ Wrap(n) \in 0 .. CountModulus - 1
                   /\ n \in 0 .. CountModulus - 1 => Wrap(n) = n
BY PoolAssumption DEF Wrap

LEMMA LoadIsNumber ==
    ASSUME PoolTypes, NEW t \in Threads
    PROVE  Load(t) \in Nat /\ count[t] \in Nat /\ Opened \in Int
BY Numbers DEF PoolTypes, Load, Opened

LEMMA InitPoolInv == PoolInit => PoolInv
<1> SUFFICES ASSUME PoolInit PROVE PoolInv OBVIOUS
<1>1. PoolTypes BY PoolAssumption DEF PoolTypes, PoolInit
<1>2. ASSUME NEW t \in Threads PROVE Load(t) = 0 /\ count[t] = 0 /\ Opened = 0
  <2>1. added[t] = {} /\ attached[t] = {} /\ count[t] = 0 /\ fresh = Connections BY DEF PoolInit
  <2> QED BY <2>1, Numbers, FS_EmptySet DEF Load, Opened
<1> QED BY <1>1, <1>2 DEF PoolInv, CountsAreBetween

-----------------------------------------------------------------------------
\* Where the load falls or stays, and the count with it at most.
LEMMA QuietPoolInv ==
    ASSUME PoolInv, PoolTypes', UNCHANGED <<count, added, attached, fresh>>,
           counter' = counter \/ counter = None
    PROVE  PoolInv'
<1>1. \A t \in Threads : Load(t)' = Load(t) BY DEF Load
<1>2. Opened' = Opened BY DEF Opened
<1>3. \A t \in Threads : t # counter' => t # counter \/ counter' = counter
  BY ThreadFacts
<1>4. \A t \in Threads : t # counter' => t # counter BY <1>3, ThreadFacts
<1> QED BY <1>1, <1>2, <1>4 DEF PoolInv, CountsAreBetween

LEMMA AcceptPoolInv == ASSUME PoolInv, NEW c \in Connections, HandleAccept(c) PROVE PoolInv'
<1>1. /\ selected \in Threads /\ c \in fresh /\ fresh' = fresh \ {c}
      /\ count' = [count EXCEPT ![selected] = Wrap(@ + 1)]
      /\ added' = [added EXCEPT ![selected] = @ \cup {c}]
      /\ selected' = None
      /\ UNCHANGED <<attached, closed, counter>>
  BY DEF HandleAccept, PoolInv, PoolTypes
<1>2. count[selected] \in 0 .. CountModulus - 1 /\ added[selected] \in SUBSET Connections
  BY <1>1 DEF PoolInv, PoolTypes
<1>3. Wrap(count[selected] + 1) \in 0 .. CountModulus - 1 BY <1>2, WrapInRange, PoolAssumption
<1>4. PoolTypes' BY <1>1, <1>2, <1>3 DEF PoolInv, PoolTypes
<1>5. /\ Cardinality(fresh') = Cardinality(fresh) - 1
      /\ Cardinality(fresh) \in Nat /\ Cardinality(fresh') \in Nat /\ Cardinality(Connections) \in Nat
  <2>1. fresh \in SUBSET Connections BY DEF PoolInv, PoolTypes
  <2> QED BY <1>1, <2>1, Numbers, FS_RemoveElement
<1>6. Opened \in Int /\ Opened' = Opened + 1 /\ Opened' < CountModulus
  BY <1>5, PoolAssumption DEF Opened
<1>7. ASSUME NEW t \in Threads, t # counter PROVE Load(t)' =< count'[t] /\ count'[t] =< Opened'
  <2>1. /\ Load(t) \in Nat /\ count[t] \in Nat /\ Load(t) =< count[t] /\ count[t] =< Opened
    BY <1>7, LoadIsNumber DEF PoolInv, CountsAreBetween
  <2>2. CASE t # selected
    <3>1. Load(t)' = Load(t) /\ count'[t] = count[t] BY <1>1, <2>2 DEF Load, PoolInv, PoolTypes
    <3> QED BY <1>6, <2>1, <3>1
  <2>3. CASE t = selected
    <3>1. added'[t] = added[t] \cup {c} BY <1>1, <2>3 DEF PoolInv, PoolTypes
    <3>2. /\ Cardinality(added[t] \cup {c}) =< Cardinality(added[t]) + 1
          /\ Cardinality(added[t]) \in Nat /\ Cardinality(added[t] \cup {c}) \in Nat
      BY <1>2, <2>3, Numbers, FS_AddElement, FS_CardinalityType, SMTT(30)
    <3>3. Cardinality(attached[t]) \in Nat BY Numbers DEF PoolInv, PoolTypes
    <3>4. Load(t)' =< Load(t) + 1 /\ Load(t)' \in Nat BY <1>1, <3>1, <3>2, <3>3 DEF Load
    <3>5. count[t] + 1 \in 0 .. CountModulus - 1 BY <1>6, <2>1, PoolAssumption
    <3>6. count'[t] = count[t] + 1 BY <1>1, <2>3, <3>5, WrapInRange DEF PoolInv, PoolTypes
    <3> QED BY <1>6, <2>1, <3>4, <3>6
  <2> QED BY <2>2, <2>3
<1> QED BY <1>1, <1>4, <1>7 DEF PoolInv, CountsAreBetween

\* What is closed already is neither attached nor counted.
LEMMA AddNewPoolInv == ASSUME PoolInv, NEW u \in Threads, AddNewConnections(u) PROVE PoolInv'
<1> DEFINE gone == Cardinality(added[u] \cap closed)
<1>1. /\ attached' = [attached EXCEPT ![u] = @ \cup (added[u] \ closed)]
      /\ count' = [count EXCEPT ![u] = Wrap(@ - gone)]
      /\ added' = [added EXCEPT ![u] = {}]
      /\ UNCHANGED <<closed, counter, selected, fresh>>
  BY DEF AddNewConnections
<1>2. /\ added[u] \in SUBSET Connections /\ attached[u] \in SUBSET Connections
      /\ count[u] \in 0 .. CountModulus - 1
  BY DEF PoolInv, PoolTypes
<1>3. /\ gone \in Nat /\ Cardinality(added[u]) \in Nat /\ Cardinality(attached[u]) \in Nat
      /\ Cardinality(added[u] \ closed) \in Nat
      /\ Cardinality(attached[u] \cup (added[u] \ closed)) \in Nat
  <2>1. /\ added[u] \cap closed \in SUBSET Connections /\ added[u] \ closed \in SUBSET Connections
        /\ attached[u] \cup (added[u] \ closed) \in SUBSET Connections
    BY <1>2
  <2> QED BY <1>2, <2>1, Numbers
<1>4. Cardinality(added[u] \ closed) = Cardinality(added[u]) - gone
  BY <1>2, Numbers, FS_Difference
<1>5. Cardinality(attached[u] \cup (added[u] \ closed))
        =< Cardinality(attached[u]) + Cardinality(added[u] \ closed)
  <2>1. IsFiniteSet(attached[u]) /\ IsFiniteSet(added[u] \ closed)
    BY <1>2, Numbers, FS_Difference
  <2>2. attached[u] \cap (added[u] \ closed) \in SUBSET Connections BY <1>2
  <2>3. Cardinality(attached[u] \cap (added[u] \ closed)) \in Nat BY <2>2, Numbers
  <2>4. Cardinality(attached[u] \cup (added[u] \ closed)) =
          Cardinality(attached[u]) + Cardinality(added[u] \ closed)
          - Cardinality(attached[u] \cap (added[u] \ closed))
    BY <2>1, FS_Union
  <2> QED BY <1>3, <2>3, <2>4
<1>6. Wrap(count[u] - gone) \in 0 .. CountModulus - 1 BY <1>2, <1>3, WrapInRange
<1>7. PoolTypes' BY <1>1, <1>2, <1>6 DEF PoolInv, PoolTypes
<1>8. ASSUME NEW t \in Threads, t # counter PROVE Load(t)' =< count'[t] /\ count'[t] =< Opened'
  <2>0. Opened' = Opened /\ Opened \in Int BY <1>1, LoadIsNumber DEF Opened, PoolInv
  <2>1. Load(t) \in Nat /\ count[t] \in Nat /\ Load(t) =< count[t] /\ count[t] =< Opened
    BY <1>8, LoadIsNumber DEF PoolInv, CountsAreBetween
  <2>2. CASE t # u
    <3>1. Load(t)' = Load(t) /\ count'[t] = count[t] BY <1>1, <2>2 DEF Load, PoolInv, PoolTypes
    <3> QED BY <2>0, <2>1, <3>1
  <2>3. CASE t = u
    <3>1. added'[t] = {} /\ attached'[t] = attached[t] \cup (added[t] \ closed)
      BY <1>1, <2>3 DEF PoolInv, PoolTypes
    <3>2. Load(t)' =< Load(t) - gone /\ Load(t)' \in Nat /\ gone =< Load(t)
      BY <1>3, <1>4, <1>5, <2>3, <3>1, FS_EmptySet DEF Load
    <3>3. count[t] - gone \in 0 .. CountModulus - 1 BY <1>2, <1>3, <2>1, <2>3, <3>2, PoolAssumption
    <3>4. count'[t] = count[t] - gone BY <1>1, <2>3, <3>3, WrapInRange DEF PoolInv, PoolTypes
    <3> QED BY <1>3, <2>0, <2>1, <3>2, <3>4
  <2> QED BY <2>2, <2>3
<1> QED BY <1>1, <1>7, <1>8 DEF PoolInv, CountsAreBetween

LEMMA RemovePoolInv ==
    ASSUME PoolInv, NEW u \in Threads, NEW c \in Connections, RemoveConnection(u, c)
    PROVE  PoolInv'
<1>1. /\ counter \in Threads
      /\ attached' = [attached EXCEPT ![u] = @ \ {c}]
      /\ count' = [count EXCEPT ![counter] = Wrap(@ - 1)]
      /\ UNCHANGED <<added, closed, counter, selected, fresh>>
  BY DEF RemoveConnection, PoolInv, PoolTypes
<1>2. Wrap(count[counter] - 1) \in 0 .. CountModulus - 1
  <2>1. count[counter] \in 0 .. CountModulus - 1 BY <1>1 DEF PoolInv, PoolTypes
  <2> QED BY <2>1, WrapInRange
<1>3. PoolTypes' BY <1>1, <1>2 DEF PoolInv, PoolTypes
<1>4. ASSUME NEW t \in Threads, t # counter PROVE Load(t)' =< count'[t] /\ count'[t] =< Opened'
  <2>1. Load(t) \in Nat /\ count[t] \in Nat /\ Load(t) =< count[t] /\ count[t] =< Opened
    BY <1>4, LoadIsNumber DEF PoolInv, CountsAreBetween
  <2>2. count'[t] = count[t] /\ Opened' = Opened BY <1>1, <1>4 DEF PoolInv, PoolTypes, Opened
  <2>3. attached'[t] \in SUBSET attached[t] /\ attached[t] \in SUBSET Connections /\ added[t] \in SUBSET Connections
    BY <1>1 DEF PoolInv, PoolTypes
  <2>4. Cardinality(attached'[t]) =< Cardinality(attached[t]) BY <2>3, Numbers, FS_Subset
  <2>5. Cardinality(attached'[t]) \in Nat /\ Cardinality(attached[t]) \in Nat /\ Cardinality(added[t]) \in Nat
    <3>1. attached'[t] \in SUBSET Connections BY <2>3
    <3> QED BY <2>3, <3>1, Numbers
  <2>6. Load(t)' = Cardinality(added[t]) + Cardinality(attached'[t]) BY <1>1 DEF Load
  <2> QED BY <2>1, <2>2, <2>4, <2>5, <2>6 DEF Load
<1> QED BY <1>1, <1>3, <1>4 DEF PoolInv, CountsAreBetween

LEMMA NextPoolInv == ASSUME PoolInv, [PoolNext]_poolVars PROVE PoolInv'
<1>1. CASE Accept \/ UNCHANGED poolVars
  <2>1. UNCHANGED <<count, added, attached, fresh, closed, counter>> BY <1>1 DEF Accept, poolVars
  <2>2. PoolTypes' BY <1>1, <2>1 DEF Accept, poolVars, PoolInv, PoolTypes
  <2> QED BY <2>1, <2>2, QuietPoolInv
<1>2. ASSUME NEW c \in Connections, Close(c) PROVE PoolInv'
  <2>1. PoolTypes' BY <1>2 DEF Close, PoolInv, PoolTypes
  <2> QED BY <1>2, <2>1, QuietPoolInv DEF Close
<1>3. ASSUME NEW t \in Threads, BuildRemoveDecision(t) PROVE PoolInv'
  <2>1. PoolTypes' BY <1>3 DEF BuildRemoveDecision, PoolInv, PoolTypes
  <2> QED BY <1>3, <2>1, QuietPoolInv DEF BuildRemoveDecision
<1> QED BY <1>1, <1>2, <1>3, AcceptPoolInv, AddNewPoolInv, RemovePoolInv DEF PoolNext, Update

\* Every connection is in one place, and what the counts may be lies between.
THEOREM PoolInductive == PoolSpec => []PoolInv
BY InitPoolInv, NextPoolInv, PTL DEF PoolSpec

\* In a pool of any size, whichever thread runs Update first: all others count
\* what they have at least, and no count of theirs wraps.
THEOREM OthersNeverUndercount == PoolSpec => []OnlyCounterUndercounts
<1>1. PoolInv => OnlyCounterUndercounts
  BY LoadIsNumber DEF PoolInv, CountsAreBetween, OnlyCounterUndercounts
<1> QED BY <1>1, PoolInductive, PTL

-----------------------------------------------------------------------------
(* Induction, from the well-foundedness of Nat: a set of numbers without a *)
(* least one is empty.                                                     *)

Less == {pair \in Nat \X Nat : pair[1] < pair[2]}

LEMMA LeastNumber ==
    ASSUME NEW T, T \subseteq Nat, T # {}
    PROVE  \E n \in T : \A m \in T : n <= m
<1>1. IsWellFoundedOn(Less, Nat)
  BY NatLessThanWellFounded DEF OpToRel, Less
<1>2. PICK n \in T : \A m \in T : ~(<<m, n>> \in Less)
  BY <1>1, WFMin
<1>3. ASSUME NEW m \in T PROVE n <= m
  <2>1. n \in Nat /\ m \in Nat /\ ~(m < n)
    BY <1>2 DEF Less
  <2> QED BY <2>1
<1> QED BY <1>3

LEMMA Induction ==
    ASSUME NEW P, 0 \in P, \A n \in Nat : n \in P => n + 1 \in P
    PROVE  Nat \subseteq P
<1> SUFFICES ASSUME ~(Nat \subseteq P) PROVE FALSE
  OBVIOUS
<1> DEFINE T == Nat \ P
<1>1. T # {} /\ T \subseteq Nat
  OBVIOUS
<1>2. PICK n \in T : \A m \in T : n <= m
  BY <1>1, LeastNumber
<1>3. n # 0 /\ n \in Nat
  BY <1>2
<1>4. n - 1 \in Nat /\ n - 1 \in P
  <2>1. n - 1 \in Nat /\ ~(n <= n - 1)
    BY <1>3
  <2> QED BY <1>2, <2>1
<1>5. (n - 1) + 1 \in P
  BY <1>4
<1> QED BY <1>2, <1>3, <1>5

-----------------------------------------------------------------------------
(* MapThenSumSet, whose definition chooses a recursive function: a sum     *)
(* does not depend on the order in which the terms are taken.              *)

Some(s) == CHOOSE x \in s : TRUE

SumStep(f, g, s) == IF s = {} THEN 0 ELSE g[Some(s)] + f[s \ {Some(s)}]

IsSum(f, g, S) == f = [s \in SUBSET S |-> SumStep(f, g, s)]

LEMMA SomeIsOne ==
    ASSUME NEW S, IsFiniteSet(S), NEW s \in SUBSET S
    PROVE  /\ IsFiniteSet(s) /\ Cardinality(s) \in Nat
           /\ s # {} => Some(s) \in s
           /\ \A x \in s : /\ s \ {x} \in SUBSET S
                           /\ Cardinality(s) # 0 /\ Cardinality(s \ {x}) = Cardinality(s) - 1
<1>1. IsFiniteSet(s) /\ Cardinality(s) \in Nat
  BY FS_Subset, FS_CardinalityType
<1>2. s # {} => Some(s) \in s
  BY DEF Some
<1>3. ASSUME NEW x \in s
      PROVE  s \ {x} \in SUBSET S /\ Cardinality(s) # 0 /\ Cardinality(s \ {x}) = Cardinality(s) - 1
  BY <1>1, FS_RemoveElement, FS_EmptySet
<1> QED BY <1>1, <1>2, <1>3

\* A function that is a sum for the sets of n elements gives one for n + 1.
LEMMA SumGrows ==
    ASSUME NEW S, IsFiniteSet(S), NEW g, NEW n \in Nat, NEW f, NEW h,
           \A s \in SUBSET S : Cardinality(s) <= n => f[s] = SumStep(f, g, s),
           h = [s \in SUBSET S |-> SumStep(f, g, s)]
    PROVE  \A s \in SUBSET S : Cardinality(s) <= n + 1 => h[s] = SumStep(h, g, s)
<1>1. \A s \in SUBSET S : h[s] = SumStep(f, g, s)
  <2> HIDE DEF SumStep
  <2> QED OBVIOUS
<1>2. ASSUME NEW s \in SUBSET S, Cardinality(s) <= n + 1 PROVE SumStep(f, g, s) = SumStep(h, g, s)
  <2>1. CASE s = {}
    BY <2>1 DEF SumStep
  <2>2. CASE s # {}
    <3>1. PICK r : r = s \ {Some(s)}
      OBVIOUS
    <3>2. r \in SUBSET S /\ Cardinality(r) = Cardinality(s) - 1 /\ Cardinality(s) \in Nat
      BY <2>2, <3>1, SomeIsOne
    <3>3. Cardinality(r) <= n
      BY <1>2, <3>2
    <3>4. f[r] = h[r]
      BY <1>1, <3>2, <3>3
    <3> QED BY <2>2, <3>1, <3>4 DEF SumStep
  <2> QED BY <2>1, <2>2
<1> QED BY <1>1, <1>2

LEMMA SumExists ==
    ASSUME NEW S, IsFiniteSet(S), NEW g
    PROVE  \E f : IsSum(f, g, S)
<1> DEFINE UpTo(f, k) == \A s \in SUBSET S : Cardinality(s) <= k => f[s] = SumStep(f, g, s)
           P == {k \in Nat : \E f : UpTo(f, k)}
<1>1. 0 \in P
  <2> DEFINE f == [s \in SUBSET S |-> 0]
  <2>1. ASSUME NEW s \in SUBSET S, Cardinality(s) <= 0 PROVE f[s] = SumStep(f, g, s)
    <3>1. s = {}
      BY <2>1, SomeIsOne, FS_EmptySet
    <3> QED BY <3>1 DEF SumStep
  <2> HIDE DEF f
  <2> QED BY <2>1
<1>2. ASSUME NEW k \in Nat, k \in P PROVE k + 1 \in P
  <2>1. PICK f : UpTo(f, k)
    BY <1>2
  <2>2. PICK h : h = [s \in SUBSET S |-> SumStep(f, g, s)]
    OBVIOUS
  <2>3. UpTo(h, k + 1)
    <3>1. \A s \in SUBSET S : Cardinality(s) <= k => f[s] = SumStep(f, g, s)
      BY <2>1
    <3>2. \A s \in SUBSET S : Cardinality(s) <= k + 1 => h[s] = SumStep(h, g, s)
      <4> HIDE DEF UpTo, P
      <4> QED BY <2>2, <3>1, SumGrows
    <3> QED BY <3>2
  <2> QED BY <2>3
<1>3. Nat \subseteq P
  <2> HIDE DEF P
  <2> QED BY <1>1, <1>2, Induction
<1>4. Cardinality(S) \in Nat /\ \A s \in SUBSET S : Cardinality(s) <= Cardinality(S)
  BY FS_Subset, FS_CardinalityType
<1>5. PICK f : UpTo(f, Cardinality(S))
  BY <1>3, <1>4
<1>6. \A s \in SUBSET S : f[s] = SumStep(f, g, s)
  BY <1>4, <1>5
<1>7. PICK h : h = [s \in SUBSET S |-> SumStep(f, g, s)]
  OBVIOUS
<1>8. ASSUME NEW s \in SUBSET S PROVE SumStep(f, g, s) = SumStep(h, g, s)
  <2>1. s # {} => s \ {Some(s)} \in SUBSET S
    BY SomeIsOne
  <2>2. s # {} => h[s \ {Some(s)}] = f[s \ {Some(s)}]
    BY <1>6, <1>7, <2>1
  <2> QED BY <2>2 DEF SumStep
<1>9. h = [s \in SUBSET S |-> SumStep(h, g, s)]
  BY <1>7, <1>8
<1> QED BY <1>9 DEF IsSum

LEMMA SumUnfold ==
    ASSUME NEW S, NEW g, NEW f, IsSum(f, g, S)
    PROVE  \A s \in SUBSET S : f[s] = SumStep(f, g, s)
<1>1. PICK h : h = [s \in SUBSET S |-> SumStep(f, g, s)]
  OBVIOUS
<1>2. \A s \in SUBSET S : h[s] = SumStep(f, g, s)
  BY <1>1
<1> QED BY <1>1, <1>2 DEF IsSum

LEMMA SumIsInt ==
    ASSUME NEW S, IsFiniteSet(S), NEW g \in [S -> Int], NEW f, IsSum(f, g, S)
    PROVE  \A s \in SUBSET S : f[s] \in Int
<1> DEFINE P == {k \in Nat : \A s \in SUBSET S : Cardinality(s) = k => f[s] \in Int}
<1>0. \A s \in SUBSET S : f[s] = SumStep(f, g, s)
  BY SumUnfold
<1>1. 0 \in P
  <2>1. ASSUME NEW s \in SUBSET S, Cardinality(s) = 0 PROVE f[s] \in Int
    <3>1. s = {}
      BY <2>1, SomeIsOne, FS_EmptySet
    <3>2. f[s] = SumStep(f, g, s)
      BY <1>0
    <3> QED BY <3>1, <3>2 DEF SumStep
  <2> QED BY <2>1
<1>2. ASSUME NEW k \in Nat, k \in P PROVE k + 1 \in P
  <2>1. ASSUME NEW s \in SUBSET S, Cardinality(s) = k + 1 PROVE f[s] \in Int
    <3>1. s # {}
      BY <2>1, FS_EmptySet
    <3>2. PICK x, r : x = Some(s) /\ r = s \ {x}
      OBVIOUS
    <3>3. x \in s /\ r \in SUBSET S /\ Cardinality(r) = Cardinality(s) - 1
      BY <3>1, <3>2, SomeIsOne
    <3>4. Cardinality(r) = k
      BY <2>1, <3>3
    <3>5. f[r] \in Int /\ g[x] \in Int
      BY <1>2, <3>3, <3>4
    <3>6. f[s] = g[x] + f[r]
      BY <1>0, <3>1, <3>2 DEF SumStep
    <3> QED BY <3>5, <3>6
  <2> QED BY <2>1
<1> HIDE DEF P
<1>3. Nat \subseteq P
  BY <1>1, <1>2, Induction
<1>4. ASSUME NEW s \in SUBSET S PROVE f[s] \in Int
  <2>1. Cardinality(s) \in Nat
    BY SomeIsOne
  <2> QED BY <1>3, <2>1 DEF P
<1> QED BY <1>4

\* Any term may be taken out of a sum.
LEMMA SumRemove ==
    ASSUME NEW S, IsFiniteSet(S), NEW g \in [S -> Int], NEW f, IsSum(f, g, S)
    PROVE  \A s \in SUBSET S : \A y \in s : f[s] = g[y] + f[s \ {y}]
<1> DEFINE Holds(s) == \A y \in s : f[s] = g[y] + f[s \ {y}]
           P == {k \in Nat : \A s \in SUBSET S : Cardinality(s) = k => Holds(s)}
<1>0. \A s \in SUBSET S : f[s] = SumStep(f, g, s)
  BY SumUnfold
<1>1. 0 \in P
  <2>1. ASSUME NEW s \in SUBSET S, Cardinality(s) = 0 PROVE Holds(s)
    <3>1. s = {}
      BY <2>1, SomeIsOne, FS_EmptySet
    <3> QED BY <3>1
  <2> QED BY <2>1
<1>2. ASSUME NEW k \in Nat, k \in P PROVE k + 1 \in P
  <2>1. ASSUME NEW s \in SUBSET S, Cardinality(s) = k + 1 PROVE Holds(s)
    <3>0. s # {}
      BY <2>1, FS_EmptySet
    <3>1. PICK x : x = Some(s)
      OBVIOUS
    <3>2. x \in s
      BY <3>0, <3>1, SomeIsOne
    <3>3. f[s] = g[x] + f[s \ {x}]
      BY <1>0, <3>0, <3>1 DEF SumStep
    <3>4. \A y \in s : s \ {y} \in SUBSET S /\ Cardinality(s \ {y}) = k
      <4>1. Cardinality(s) - 1 = k
        BY <2>1
      <4> QED BY <4>1, SomeIsOne
    <3>5. \A y \in s : Holds(s \ {y})
      BY <1>2, <3>4
    <3>6. ASSUME NEW y \in s PROVE f[s] = g[y] + f[s \ {y}]
      <4>1. CASE y = x
        BY <3>3, <4>1
      <4>2. CASE y # x
        <5>1. y \in s \ {x} /\ x \in s \ {y} /\ (s \ {x}) \ {y} = (s \ {y}) \ {x}
          BY <3>2, <4>2
        <5>2. f[s \ {x}] = g[y] + f[(s \ {x}) \ {y}]
          BY <3>2, <3>5, <5>1
        <5>3. f[s \ {y}] = g[x] + f[(s \ {y}) \ {x}]
          BY <3>5, <5>1
        <5>4. PICK a, b, r : a = g[x] /\ b = g[y] /\ r = f[(s \ {x}) \ {y}]
          OBVIOUS
        <5>5. a \in Int /\ b \in Int
          BY <3>2, <5>4
        <5>6. r \in Int
          BY <5>4, SumIsInt
        <5>7. f[s] = a + (b + r)
          BY <3>3, <5>2, <5>4
        <5>8. g[y] + f[s \ {y}] = b + (a + r)
          BY <5>1, <5>3, <5>4
        <5> QED BY <5>5, <5>6, <5>7, <5>8
      <4> QED BY <4>1, <4>2
    <3> QED BY <3>6
  <2> QED BY <2>1
<1> HIDE DEF Holds, P
<1>3. Nat \subseteq P
  BY <1>1, <1>2, Induction
<1>4. ASSUME NEW s \in SUBSET S PROVE Holds(s)
  <2>1. Cardinality(s) \in Nat
    BY SomeIsOne
  <2> QED BY <1>3, <2>1 DEF P
<1> QED BY <1>4 DEF Holds

\* Two sums of the same terms, and of terms that differ in one place.
LEMMA SumAgrees ==
    ASSUME NEW S, IsFiniteSet(S), NEW g, NEW f, IsSum(f, g, S), NEW e, NEW h, IsSum(h, e, S),
           NEW T \in SUBSET S, \A x \in T : g[x] = e[x]
    PROVE  f[T] = h[T]
<1> DEFINE P == {k \in Nat : \A s \in SUBSET T : Cardinality(s) = k => f[s] = h[s]}
<1>0. \A s \in SUBSET T : s \in SUBSET S /\ f[s] = SumStep(f, g, s) /\ h[s] = SumStep(h, e, s)
  BY SumUnfold
<1>1. 0 \in P
  <2>1. ASSUME NEW s \in SUBSET T, Cardinality(s) = 0 PROVE f[s] = h[s]
    <3>1. s = {}
      BY <1>0, <2>1, SomeIsOne, FS_EmptySet
    <3> QED BY <1>0, <3>1 DEF SumStep
  <2> QED BY <2>1
<1>2. ASSUME NEW k \in Nat, k \in P PROVE k + 1 \in P
  <2>1. ASSUME NEW s \in SUBSET T, Cardinality(s) = k + 1 PROVE f[s] = h[s]
    <3>1. s # {} /\ s \in SUBSET S
      <4>1. Cardinality(s) # 0
        BY <2>1
      <4> QED BY <4>1, FS_EmptySet
    <3>2. PICK x, r : x = Some(s) /\ r = s \ {x}
      OBVIOUS
    <3>3. x \in s /\ Cardinality(r) = Cardinality(s) - 1
      BY <3>1, <3>2, SomeIsOne
    <3>4. Cardinality(r) = k /\ r \in SUBSET T
      BY <2>1, <3>2, <3>3
    <3>5. f[r] = h[r] /\ g[x] = e[x]
      BY <1>2, <3>3, <3>4
    <3>6. f[s] = g[x] + f[r] /\ h[s] = e[x] + h[r]
      BY <1>0, <3>1, <3>2 DEF SumStep
    <3> QED BY <3>5, <3>6
  <2> QED BY <2>1
<1> HIDE DEF P
<1>3. Nat \subseteq P
  BY <1>1, <1>2, Induction
<1>4. Cardinality(T) \in Nat
  BY SomeIsOne
<1> QED BY <1>3, <1>4 DEF P

LEMMA SumChange ==
    ASSUME NEW S, IsFiniteSet(S), NEW g \in [S -> Int], NEW f, IsSum(f, g, S),
           NEW e \in [S -> Int], NEW h, IsSum(h, e, S),
           NEW y \in S, \A x \in S \ {y} : g[x] = e[x]
    PROVE  f[S] \in Int /\ h[S] = f[S] + (e[y] - g[y])
<1>1. f[S] = g[y] + f[S \ {y}] /\ h[S] = e[y] + h[S \ {y}]
  BY SumRemove
<1>2. f[S] \in Int /\ f[S \ {y}] \in Int /\ g[y] \in Int /\ e[y] \in Int
  BY SumIsInt
<1>3. f[S \ {y}] = h[S \ {y}]
  BY SumAgrees
<1> QED BY <1>1, <1>2, <1>3

-----------------------------------------------------------------------------
(* The counts of the pool and the connections it has.                      *)

LEMMA ThreadsAreFinite == IsFiniteSet(Threads)
BY PoolAssumption, FS_Interval DEF Threads

CountSum(g) ==
    (CHOOSE f : f = [s \in SUBSET Threads |->
         IF s = {} THEN 0 ELSE g[CHOOSE x \in s : TRUE] + f[s \ {CHOOSE x \in s : TRUE}]])[Threads]

LEMMA CountSumIsSum ==
    ASSUME NEW g
    PROVE  \E f : IsSum(f, g, Threads) /\ CountSum(g) = f[Threads]
<1> DEFINE iter == CHOOSE f : f = [s \in SUBSET Threads |->
                       IF s = {} THEN 0
                       ELSE g[CHOOSE x \in s : TRUE] + f[s \ {CHOOSE x \in s : TRUE}]]
<1>1. PICK f : IsSum(f, g, Threads)
  BY ThreadsAreFinite, SumExists
<1>2. f = [s \in SUBSET Threads |->
          IF s = {} THEN 0 ELSE g[CHOOSE x \in s : TRUE] + f[s \ {CHOOSE x \in s : TRUE}]]
  BY <1>1, Zenon DEF IsSum, SumStep, Some
<1>3. iter = [s \in SUBSET Threads |->
          IF s = {} THEN 0 ELSE g[CHOOSE x \in s : TRUE] + iter[s \ {CHOOSE x \in s : TRUE}]]
  BY <1>2, Zenon
<1>4. CountSum(g) = iter[Threads]
  BY Zenon DEF CountSum
<1> HIDE DEF iter
<1>5. IsSum(iter, g, Threads)
  BY <1>3, Zenon DEF IsSum, SumStep, Some
<1> QED BY <1>4, <1>5

Loads(news, olds) == [t \in Threads |-> Cardinality(news[t]) + Cardinality(olds[t])]

LoadSum(news, olds) ==
    (CHOOSE f : f = [s \in SUBSET Threads |->
         IF s = {} THEN 0
         ELSE (Cardinality(news[CHOOSE x \in s : TRUE]) + Cardinality(olds[CHOOSE x \in s : TRUE]))
              + f[s \ {CHOOSE x \in s : TRUE}]])[Threads]

LEMMA LoadSumIsSum ==
    ASSUME NEW news, NEW olds
    PROVE  \E f : IsSum(f, Loads(news, olds), Threads) /\ LoadSum(news, olds) = f[Threads]
<1> DEFINE loads == Loads(news, olds)
           one(s) == CHOOSE x \in s : TRUE
           iter == CHOOSE f : f = [s \in SUBSET Threads |->
                       IF s = {} THEN 0
                       ELSE (Cardinality(news[one(s)]) + Cardinality(olds[one(s)])) + f[s \ {one(s)}]]
<1>1. PICK f : IsSum(f, loads, Threads)
  BY ThreadsAreFinite, SumExists
<1>2. ASSUME NEW h, NEW s \in SUBSET Threads
      PROVE  SumStep(h, loads, s) =
                 IF s = {} THEN 0
                 ELSE (Cardinality(news[one(s)]) + Cardinality(olds[one(s)])) + h[s \ {one(s)}]
  <2>1. CASE s = {}
    BY <2>1 DEF SumStep
  <2>2. CASE s # {}
    <3>1. one(s) \in Threads /\ one(s) = Some(s)
      BY <2>2 DEF Some
    <3>2. loads[one(s)] = Cardinality(news[one(s)]) + Cardinality(olds[one(s)])
      BY <3>1 DEF Loads
    <3> QED BY <2>2, <3>1, <3>2 DEF SumStep
  <2> QED BY <2>1, <2>2
<1>3. ASSUME NEW h
      PROVE  IsSum(h, loads, Threads) <=>
             h = [s \in SUBSET Threads |->
                     IF s = {} THEN 0
                     ELSE (Cardinality(news[one(s)]) + Cardinality(olds[one(s)])) + h[s \ {one(s)}]]
  <2> DEFINE step(s) == IF s = {} THEN 0
                        ELSE (Cardinality(news[one(s)]) + Cardinality(olds[one(s)])) + h[s \ {one(s)}]
  <2>1. \A s \in SUBSET Threads : SumStep(h, loads, s) = step(s)
    BY <1>2
  <2> HIDE DEF step, loads
  <2>2. [s \in SUBSET Threads |-> SumStep(h, loads, s)] = [s \in SUBSET Threads |-> step(s)]
    BY <2>1
  <2>3. IsSum(h, loads, Threads) <=> h = [s \in SUBSET Threads |-> step(s)]
    BY <2>2 DEF IsSum
  <2> QED BY <2>3 DEF step
<1>4. iter = [s \in SUBSET Threads |->
                 IF s = {} THEN 0
                 ELSE (Cardinality(news[one(s)]) + Cardinality(olds[one(s)])) + iter[s \ {one(s)}]]
  <2>1. \E h : h = [s \in SUBSET Threads |->
                       IF s = {} THEN 0
                       ELSE (Cardinality(news[one(s)]) + Cardinality(olds[one(s)])) + h[s \ {one(s)}]]
    <3> HIDE DEF loads, one
    <3> QED BY <1>1, <1>3
  <2> HIDE DEF one
  <2> QED BY <2>1, Zenon
<1>5. LoadSum(news, olds) = iter[Threads]
  BY Zenon DEF LoadSum
<1> HIDE DEF iter, loads
<1>6. IsSum(iter, loads, Threads)
  BY <1>3, <1>4
<1> QED BY <1>5, <1>6 DEF loads

LEMMA Remainder ==
    ASSUME NEW M \in Nat \ {0}, NEW n \in Int, NEW q \in Int, NEW r \in 0 .. M - 1, n = M * q + r
    PROVE  n % M = r
OBVIOUS

\* Numbers with the same remainder.
LEMMA WrapCongruent ==
    ASSUME NEW a \in Int, NEW b \in Int, NEW k \in Int, a = b + k * CountModulus
    PROVE  Wrap(a) = Wrap(b)
<1>0. CountModulus \in Nat \ {0}
  BY PoolAssumption
<1>1. PICK r, q : r = b % CountModulus /\ q = b \div CountModulus
  OBVIOUS
<1>2. r \in 0 .. CountModulus - 1 /\ q \in Int
  BY <1>0, <1>1
<1>3. b = CountModulus * q + r
  <2>1. b % CountModulus = b - CountModulus * (b \div CountModulus)
    BY <1>0
  <2>2. CountModulus * q \in Int
    BY <1>0, <1>2
  <2> QED BY <1>1, <1>2, <2>1, <2>2
<1>4. a = CountModulus * (q + k) + r
  <2>1. CountModulus * (q + k) = CountModulus * q + k * CountModulus
    BY <1>0, <1>2
  <2>2. CountModulus * q \in Int /\ k * CountModulus \in Int
    BY <1>0, <1>2
  <2> QED BY <1>2, <1>3, <2>1, <2>2
<1>5. a % CountModulus = r
  <2>1. PICK z : z = q + k
    OBVIOUS
  <2>2. z \in Int /\ a = CountModulus * z + r
    BY <1>2, <1>4, <2>1
  <2> QED BY <1>0, <1>2, <2>2, Remainder
<1> QED BY <1>1, <1>5 DEF Wrap

LEMMA WrapTurns ==
    ASSUME NEW n \in Int
    PROVE  \E k \in Int : Wrap(n) = n + k * CountModulus
<1>0. CountModulus \in Nat \ {0}
  BY PoolAssumption
<1>1. PICK q : q = n \div CountModulus
  OBVIOUS
<1>2. q \in Int /\ n % CountModulus = n - CountModulus * q
  BY <1>0, <1>1
<1>3. n - CountModulus * q = n + (0 - q) * CountModulus /\ 0 - q \in Int
  BY <1>0, <1>2
<1> QED BY <1>2, <1>3 DEF Wrap

\* Both grow by the same but for turns of the counter.
LEMMA WrapStays ==
    ASSUME NEW a \in Int, NEW b \in Int, NEW d \in Int, NEW k \in Int, Wrap(a) = Wrap(b),
           NEW a1, NEW b1, a1 = a + (d + k * CountModulus), b1 = b + d
    PROVE  Wrap(a1) = Wrap(b1)
<1>0. CountModulus \in Nat \ {0}
  BY PoolAssumption
<1>1. PICK p \in Int : Wrap(a) = a + p * CountModulus
  BY WrapTurns
<1>2. PICK q \in Int : Wrap(b) = b + q * CountModulus
  BY WrapTurns
<1>3. PICK M : M = CountModulus
  OBVIOUS
<1>4. a + p * M = b + q * M /\ p * M \in Int /\ q * M \in Int /\ k * M \in Int
  <2>1. a + p * CountModulus = b + q * CountModulus
    BY <1>1, <1>2
  <2>2. p * CountModulus \in Int /\ q * CountModulus \in Int /\ k * CountModulus \in Int
    BY <1>0
  <2> QED BY <1>3, <2>1, <2>2
<1>5. ((q + k) - p) * M = (q * M + k * M) - p * M /\ (q + k) - p \in Int
  BY <1>0, <1>1, <1>2, <1>3
<1>6. a1 = b1 + ((q + k) - p) * M
  BY <1>3, <1>4, <1>5
<1>7. a1 \in Int /\ b1 \in Int
  BY <1>3, <1>4
<1> QED BY <1>3, <1>5, <1>6, <1>7, WrapCongruent

\* A connection is fresh, added or attached, and nothing twice.
ConnectionsApart ==
    \A t \in Threads : /\ added[t] \cap attached[t] = {}
                       /\ fresh \cap (added[t] \cup attached[t]) = {}

SumInv == PoolTypes /\ ConnectionsApart /\ CountsAddUp

LEMMA SumsAre ==
    /\ CountsAddUp <=> Wrap(CountSum(count)) = Wrap(LoadSum(added, attached))
    /\ CountsAddUp' <=> Wrap(CountSum(count')) = Wrap(LoadSum(added', attached'))
<1>1. CountsAddUp <=> Wrap(CountSum(count)) = Wrap(LoadSum(added, attached))
  BY Zenon DEF CountsAddUp, CountSum, LoadSum, Load, MapThenSumSet, MapThenFoldSet
<1>2. CountsAddUp' <=> Wrap(CountSum(count')) = Wrap(LoadSum(added', attached'))
  BY Zenon DEF CountsAddUp, CountSum, LoadSum, Load, MapThenSumSet, MapThenFoldSet
<1> QED BY <1>1, <1>2

\* What a step does to one count and to one load.
LEMMA SumStays ==
    ASSUME PoolTypes, PoolTypes', CountsAddUp,
           NEW t \in Threads, NEW u \in Threads, NEW d \in Int,
           \A x \in Threads \ {t} : count'[x] = count[x],
           count'[t] = Wrap(count[t] + d),
           \A x \in Threads \ {u} : Load(x)' = Load(x),
           Load(u)' = Load(u) + d
    PROVE  CountsAddUp'
<1>0. /\ count \in [Threads -> Int] /\ count' \in [Threads -> Int]
      /\ \A x \in Threads : count[x] \in Int
  BY PoolAssumption DEF PoolTypes
<1>1. PICK a, a1, b, b1 : /\ a = CountSum(count) /\ a1 = CountSum(count')
                          /\ b = LoadSum(added, attached) /\ b1 = LoadSum(added', attached')
  OBVIOUS
<1>2. PICK f : IsSum(f, count, Threads) /\ a = f[Threads]
  BY <1>1, CountSumIsSum
<1>3. PICK h : IsSum(h, count', Threads) /\ a1 = h[Threads]
  BY <1>1, CountSumIsSum
<1>4. PICK k \in Int : count'[t] = count[t] + d + k * CountModulus
  <2>1. count[t] + d \in Int
    BY <1>0
  <2> QED BY <2>1, WrapTurns
<1>5. a \in Int /\ a1 = a + (d + k * CountModulus)
  <2>1. f[Threads] \in Int /\ h[Threads] = f[Threads] + (count'[t] - count[t])
    <3>1. \A x \in Threads \ {t} : count[x] = count'[x]
      OBVIOUS
    <3>2. PICK g, e : g = count /\ e = count'
      OBVIOUS
    <3>3. g \in [Threads -> Int] /\ e \in [Threads -> Int] /\ IsSum(f, g, Threads) /\ IsSum(h, e, Threads)
          /\ \A x \in Threads \ {t} : g[x] = e[x]
      BY <1>0, <1>2, <1>3, <3>1, <3>2
    <3>4. f[Threads] \in Int /\ h[Threads] = f[Threads] + (e[t] - g[t])
      BY <3>3, ThreadsAreFinite, SumChange
    <3> QED BY <3>2, <3>4
  <2>2. CountModulus \in Nat /\ count[t] \in Int /\ k * CountModulus \in Int
    BY <1>0, PoolAssumption
  <2>3. count'[t] - count[t] = d + k * CountModulus
    BY <1>4, <2>2
  <2> QED BY <1>2, <1>3, <2>1, <2>3
<1>6. PICK g, e : g = Loads(added, attached) /\ e = Loads(added', attached')
  OBVIOUS
<1>7. /\ g \in [Threads -> Int] /\ e \in [Threads -> Int]
      /\ \A x \in Threads : g[x] = Load(x) /\ e[x] = Load(x)'
  <2>1. \A x \in Threads : Load(x) \in Int /\ Load(x)' \in Int
    <3>1. \A x \in Threads : /\ added[x] \in SUBSET Connections /\ attached[x] \in SUBSET Connections
                             /\ added'[x] \in SUBSET Connections /\ attached'[x] \in SUBSET Connections
      BY DEF PoolTypes
    <3> QED BY <3>1, Numbers DEF Load
  <2> QED BY <1>6, <2>1 DEF Loads, Load
<1>8. PICK p : IsSum(p, g, Threads) /\ b = p[Threads]
  BY <1>1, <1>6, LoadSumIsSum
<1>9. PICK q : IsSum(q, e, Threads) /\ b1 = q[Threads]
  BY <1>1, <1>6, LoadSumIsSum
<1>10. b \in Int /\ b1 = b + d
  <2>1. \A x \in Threads \ {u} : g[x] = e[x]
    BY <1>7
  <2>2. p[Threads] \in Int /\ q[Threads] = p[Threads] + (e[u] - g[u])
    BY <1>7, <1>8, <1>9, <2>1, ThreadsAreFinite, SumChange
  <2>3. e[u] - g[u] = d
    <3>1. e[u] = g[u] + d /\ g[u] \in Int
      BY <1>7
    <3> QED BY <3>1
  <2> QED BY <1>8, <1>9, <2>2, <2>3
<1>11. Wrap(a) = Wrap(b)
  BY <1>1, SumsAre
<1>12. Wrap(a1) = Wrap(b1)
  BY <1>4, <1>5, <1>10, <1>11, WrapStays
<1> QED BY <1>1, <1>12, SumsAre

\* Where neither changes.
LEMMA QuietSumInv ==
    ASSUME SumInv, PoolTypes', UNCHANGED <<count, added, attached, fresh>>
    PROVE  SumInv'
<1>1. ConnectionsApart'
  BY DEF SumInv, ConnectionsApart
<1>2. CountsAddUp'
  <2>1. Wrap(CountSum(count')) = Wrap(LoadSum(added', attached'))
    BY SumsAre DEF SumInv
  <2> QED BY <2>1, SumsAre
<1> QED BY <1>1, <1>2 DEF SumInv

LEMMA AcceptSumInv ==
    ASSUME SumInv, PoolTypes', NEW c \in Connections, HandleAccept(c)
    PROVE  SumInv'
<1>0. PICK t : t = selected
  OBVIOUS
<1>1. /\ t \in Threads /\ c \in fresh /\ fresh' = fresh \ {c}
      /\ count' = [count EXCEPT ![t] = Wrap(@ + 1)]
      /\ added' = [added EXCEPT ![t] = @ \cup {c}]
      /\ UNCHANGED <<attached, closed, counter>>
  BY <1>0 DEF HandleAccept, SumInv, PoolTypes
<1>2. /\ \A x \in Threads : added[x] \in SUBSET Connections /\ attached[x] \in SUBSET Connections
      /\ \A x \in Threads \ {t} : added'[x] = added[x] /\ count'[x] = count[x]
      /\ added'[t] = added[t] \cup {c} /\ count'[t] = Wrap(count[t] + 1)
  BY <1>1 DEF SumInv, PoolTypes
<1>3. ConnectionsApart'
  BY <1>1, <1>2 DEF SumInv, ConnectionsApart
<1>4. c \notin added[t]
  BY <1>1 DEF SumInv, ConnectionsApart
<1>5. Load(t)' = Load(t) + 1
  <2>1. IsFiniteSet(added[t]) /\ Cardinality(added[t]) \in Nat /\ Cardinality(attached[t]) \in Nat
    BY <1>1, <1>2, Numbers
  <2>2. Cardinality(added[t] \cup {c}) = Cardinality(added[t]) + 1
    BY <1>4, <2>1, FS_AddElement
  <2>3. Load(t)' = Cardinality(added[t] \cup {c}) + Cardinality(attached[t])
    BY <1>1, <1>2 DEF Load
  <2> QED BY <2>1, <2>2, <2>3 DEF Load
<1>6. \A x \in Threads \ {t} : Load(x)' = Load(x)
  BY <1>1, <1>2 DEF Load
<1>7. CountsAddUp'
  <2>1. PICK d : d = 1
    OBVIOUS
  <2>2. d \in Int /\ count'[t] = Wrap(count[t] + d) /\ Load(t)' = Load(t) + d
    BY <1>2, <1>5, <2>1
  <2> QED BY <1>1, <1>2, <1>6, <2>2, SumStays DEF SumInv
<1> QED BY <1>3, <1>7 DEF SumInv

LEMMA AddNewSumInv ==
    ASSUME SumInv, PoolTypes', NEW u \in Threads, AddNewConnections(u)
    PROVE  SumInv'
<1>0. PICK gone, kept : gone = added[u] \cap closed /\ kept = added[u] \ closed
  OBVIOUS
<1>1. /\ attached' = [attached EXCEPT ![u] = @ \cup kept]
      /\ count' = [count EXCEPT ![u] = Wrap(@ - Cardinality(gone))]
      /\ added' = [added EXCEPT ![u] = {}]
      /\ UNCHANGED <<closed, counter, selected, fresh>>
  BY <1>0 DEF AddNewConnections
<1>2. /\ \A x \in Threads : added[x] \in SUBSET Connections /\ attached[x] \in SUBSET Connections
      /\ \A x \in Threads \ {u} : added'[x] = added[x] /\ attached'[x] = attached[x] /\ count'[x] = count[x]
      /\ added'[u] = {} /\ attached'[u] = attached[u] \cup kept
      /\ count'[u] = Wrap(count[u] - Cardinality(gone))
  BY <1>1 DEF SumInv, PoolTypes
<1>3. ConnectionsApart'
  BY <1>0, <1>1, <1>2 DEF SumInv, ConnectionsApart
<1>4. /\ gone \in SUBSET Connections /\ kept \in SUBSET Connections
      /\ attached[u] \cap kept = {} /\ kept = added[u] \ gone /\ added[u] \cap gone = gone
  BY <1>0, <1>2 DEF SumInv, ConnectionsApart
<1>5. /\ IsFiniteSet(gone) /\ IsFiniteSet(kept) /\ IsFiniteSet(added[u]) /\ IsFiniteSet(attached[u])
      /\ Cardinality(gone) \in Nat /\ Cardinality(kept) \in Nat
      /\ Cardinality(added[u]) \in Nat /\ Cardinality(attached[u]) \in Nat
  BY <1>2, <1>4, Numbers
<1>6. Cardinality(kept) = Cardinality(added[u]) - Cardinality(gone)
  BY <1>4, <1>5, FS_Difference
<1>7. Cardinality(attached[u] \cup kept) = Cardinality(attached[u]) + Cardinality(kept)
  <2>1. Cardinality(attached[u] \cap kept) = 0
    BY <1>4, FS_EmptySet
  <2>2. Cardinality(attached[u] \cup kept) =
            Cardinality(attached[u]) + Cardinality(kept) - Cardinality(attached[u] \cap kept)
    BY <1>5, FS_Union
  <2> QED BY <1>5, <2>1, <2>2
<1>8. PICK d : d = 0 - Cardinality(gone)
  OBVIOUS
<1>9. Load(u)' = Load(u) + d
  BY <1>2, <1>5, <1>6, <1>7, <1>8, FS_EmptySet DEF Load
<1>10. \A x \in Threads \ {u} : Load(x)' = Load(x)
  BY <1>2 DEF Load
<1>11. d \in Int /\ count'[u] = Wrap(count[u] + d)
  <2>1. count[u] \in Int
    BY PoolAssumption DEF SumInv, PoolTypes
  <2>2. d \in Int /\ count[u] - Cardinality(gone) = count[u] + d
    BY <1>5, <1>8, <2>1
  <2> QED BY <1>2, <2>2
<1>12. CountsAddUp'
  BY <1>2, <1>9, <1>10, <1>11, SumStays DEF SumInv
<1> QED BY <1>3, <1>12 DEF SumInv

LEMMA RemoveSumInv ==
    ASSUME SumInv, PoolTypes', NEW u \in Threads, NEW c \in Connections, RemoveConnection(u, c)
    PROVE  SumInv'
<1>1. /\ counter \in Threads /\ c \in attached[u]
      /\ attached' = [attached EXCEPT ![u] = @ \ {c}]
      /\ count' = [count EXCEPT ![counter] = Wrap(@ - 1)]
      /\ UNCHANGED <<added, closed, counter, selected, fresh>>
  BY DEF RemoveConnection, SumInv, PoolTypes
<1>2. /\ \A x \in Threads : added[x] \in SUBSET Connections /\ attached[x] \in SUBSET Connections
      /\ \A x \in Threads \ {u} : attached'[x] = attached[x]
      /\ \A x \in Threads \ {counter} : count'[x] = count[x]
      /\ attached'[u] = attached[u] \ {c} /\ count'[counter] = Wrap(count[counter] - 1)
  BY <1>1 DEF SumInv, PoolTypes
<1>3. ConnectionsApart'
  BY <1>1, <1>2 DEF SumInv, ConnectionsApart
<1>4. /\ IsFiniteSet(attached[u]) /\ Cardinality(added[u]) \in Nat /\ Cardinality(attached[u]) \in Nat
      /\ count[counter] \in Int
  BY <1>1, <1>2, Numbers, PoolAssumption DEF SumInv, PoolTypes
<1>5. Cardinality(attached[u] \ {c}) = Cardinality(attached[u]) - 1
  BY <1>1, <1>4, FS_RemoveElement
<1>6. PICK d : d = 0 - 1
  OBVIOUS
<1>7. Load(u)' = Load(u) + d
  <2>1. Load(u)' = Cardinality(added[u]) + Cardinality(attached[u] \ {c})
    BY <1>1, <1>2 DEF Load
  <2> QED BY <1>4, <1>5, <1>6, <2>1 DEF Load
<1>8. \A x \in Threads \ {u} : Load(x)' = Load(x)
  BY <1>1, <1>2 DEF Load
<1>9. d \in Int /\ count'[counter] = Wrap(count[counter] + d)
  <2>1. d \in Int /\ count[counter] - 1 = count[counter] + d
    BY <1>4, <1>6
  <2> QED BY <1>2, <2>1
<1>10. CountsAddUp'
  BY <1>1, <1>2, <1>7, <1>8, <1>9, SumStays DEF SumInv
<1> QED BY <1>3, <1>10 DEF SumInv

LEMMA InitSumInv == PoolInit => SumInv
<1> SUFFICES ASSUME PoolInit PROVE SumInv
  OBVIOUS
<1>1. PoolTypes
  BY InitPoolInv DEF PoolInv
<1>2. ConnectionsApart
  BY DEF PoolInit, ConnectionsApart
<1>3. CountsAddUp
  <2>1. \A t \in Threads : count[t] = 0 /\ Loads(added, attached)[t] = 0
    <3>1. \A t \in Threads : count[t] = 0 /\ added[t] = {} /\ attached[t] = {}
      BY DEF PoolInit
    <3> QED BY <3>1, FS_EmptySet DEF Loads
  <2>2. PICK f : IsSum(f, count, Threads) /\ CountSum(count) = f[Threads]
    BY CountSumIsSum
  <2>3. PICK h : IsSum(h, Loads(added, attached), Threads) /\ LoadSum(added, attached) = h[Threads]
    BY LoadSumIsSum
  <2>4. PICK g, e : g = count /\ e = Loads(added, attached)
    OBVIOUS
  <2>5. f[Threads] = h[Threads]
    <3>1. IsSum(f, g, Threads) /\ IsSum(h, e, Threads) /\ \A x \in Threads : g[x] = e[x]
      BY <2>1, <2>2, <2>3, <2>4
    <3> QED BY <3>1, ThreadsAreFinite, SumAgrees
  <2> QED BY <2>2, <2>3, <2>5, SumsAre
<1> QED BY <1>1, <1>2, <1>3 DEF SumInv

LEMMA NextSumInv == ASSUME PoolInv, SumInv, [PoolNext]_poolVars PROVE SumInv'
<1>0. PoolTypes'
  BY NextPoolInv DEF PoolInv
<1>1. CASE Accept \/ UNCHANGED poolVars
  <2>1. UNCHANGED <<count, added, attached, fresh>>
    BY <1>1 DEF Accept, poolVars
  <2> QED BY <1>0, <2>1, QuietSumInv
<1>2. ASSUME NEW c \in Connections, Close(c) PROVE SumInv'
  BY <1>0, <1>2, QuietSumInv DEF Close
<1>3. ASSUME NEW t \in Threads, BuildRemoveDecision(t) PROVE SumInv'
  BY <1>0, <1>3, QuietSumInv DEF BuildRemoveDecision
<1> QED BY <1>0, <1>1, <1>2, <1>3, AcceptSumInv, AddNewSumInv, RemoveSumInv DEF PoolNext, Update

\* In a pool of any size the counts add up, modulo their width, to the
\* connections there are, though removals are counted down in one thread
\* (NetworkThread.h AddConnection, AddNewConnections, Update).
THEOREM PoolCountsAddUp == PoolSpec => []CountsAddUp
<1>1. PoolInv /\ SumInv /\ [PoolNext]_poolVars => PoolInv' /\ SumInv'
  BY NextPoolInv, NextSumInv
<1>2. SumInv => CountsAddUp
  BY DEF SumInv
<1> QED BY <1>1, <1>2, InitPoolInv, InitSumInv, PTL DEF PoolSpec
=============================================================================
