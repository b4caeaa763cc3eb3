\* Three producers race on m_Head; of three messages, two can wait in the list
\* while the third is being linked.
CONSTANTS
    Producers = {p1, p2, p3}
    Messages = {m1, m2, m3}
    Dummy = dummy
    Null = null
SPECIFICATION FairSpec
INVARIANTS ListIsInOrder NoWriteToDeleted
PROPERTIES ImplementsMessageQueue EventuallyDequeued
