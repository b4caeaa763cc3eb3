---------------------------- MODULE NetworkPool -----------------------------
(***************************************************************************)
(* The pool of Connection::NetworkThread objects and the way BaseServer's  *)
(* Acceptor spreads the connections over it.  The acceptor chooses a       *)
(* thread when it starts to wait for a peer and adds the connection when   *)
(* the peer comes.  Each network thread takes its new connections over and *)
(* drops the closed ones from its 1 ms timer.                              *)
(*                                                                         *)
(* NetworkThread::Update removes through a lambda that is a function-local *)
(* static: it is built once, by the first thread that runs Update, and     *)
(* keeps that thread's this.  Every removal, in whatever thread, counts    *)
(* down m_ConnectionsCount of that thread.                                 *)
(***************************************************************************)
EXTENDS Integers, FiniteSets, FiniteSetsExt

CONSTANTS
    ThreadCount,    \* m_ThreadCount
    Connections,    \* connections that peers open during the run
    CountModulus,   \* 2^32, the range of std::atomic<std::uint32_t>
    None

ASSUME PoolAssumption ==
    /\ ThreadCount \in Nat \ {0}
    /\ IsFiniteSet(Connections)
    /\ CountModulus \in Nat \ {0}
    /\ None \notin Nat
    /\ Cardinality(Connections) < CountModulus

Threads == 0 .. ThreadCount - 1

VARIABLES
    count,      \* m_ConnectionsCount of every thread
    added,      \* m_NewConnections of every thread
    attached,   \* m_Connections of every thread
    closed,     \* connections with m_Closed set
    counter,    \* the this captured by removeDecision, None before any Update
    selected,   \* threadIndex of the outstanding accept
    fresh       \* connections no peer has opened yet

poolVars == <<count, added, attached, closed, counter, selected, fresh>>

Wrap(n) == n % CountModulus

\* SelectThreadWithMinConnections: the first thread with the least count.
SelectThread(t) ==
    /\ \A u \in Threads : count[t] <= count[u]
    /\ \A u \in Threads : u < t => count[t] < count[u]

PoolInit ==
    /\ count = [t \in Threads |-> 0]
    /\ added = [t \in Threads |-> {}]
    /\ attached = [t \in Threads |-> {}]
    /\ closed = {}
    /\ counter = None
    /\ selected = None
    /\ fresh = Connections

\* Accept: choose the thread and wait for a peer.
Accept ==
    /\ selected = None
    /\ \E t \in Threads : SelectThread(t) /\ selected' = t
    /\ UNCHANGED <<count, added, attached, closed, counter, fresh>>

\* Mutation: AddConnection does not count the connection.
HandleAcceptUncounted(c) ==
    /\ selected # None
    /\ c \in fresh
    /\ fresh' = fresh \ {c}
    /\ added' = [added EXCEPT ![selected] = @ \cup {c}]
    /\ selected' = None
    /\ UNCHANGED <<count, attached, closed, counter>>

\* HandleAccept: AddConnection to the thread chosen back then.
HandleAccept(c) ==
    /\ selected # None
    /\ c \in fresh
    /\ fresh' = fresh \ {c}
    /\ count' = [count EXCEPT ![selected] = Wrap(@ + 1)]
    /\ added' = [added EXCEPT ![selected] = @ \cup {c}]
    /\ selected' = None
    /\ UNCHANGED <<attached, closed, counter>>

\* The game, the peer or a read or write error closes a connection.
Close(c) ==
    /\ c \notin fresh
    /\ c \notin closed
    /\ closed' = closed \cup {c}
    /\ UNCHANGED <<count, added, attached, counter, selected, fresh>>

\* Update: the static lambda is built at the first call ...
BuildRemoveDecision(t) ==
    /\ counter = None
    /\ counter' = t
    /\ UNCHANGED <<count, added, attached, closed, selected, fresh>>

\* Mutation: connections closed before they are attached stay counted.
AddNewConnectionsUncounted(t) ==
    /\ counter # None
    /\ added[t] # {}
    /\ attached' = [attached EXCEPT ![t] = @ \cup (added[t] \ closed)]
    /\ added' = [added EXCEPT ![t] = {}]
    /\ UNCHANGED <<count, closed, counter, selected, fresh>>

\* Mutation: connections closed before they are attached are left where they are.
AddNewConnectionsSkips(t) ==
    /\ counter # None
    /\ added[t] \ closed # {}
    /\ attached' = [attached EXCEPT ![t] = @ \cup (added[t] \ closed)]
    /\ added' = [added EXCEPT ![t] = @ \cap closed]
    /\ UNCHANGED <<count, closed, counter, selected, fresh>>

\* ... AddNewConnections: what is closed already is not attached ...
AddNewConnections(t) ==
    /\ counter # None
    /\ added[t] # {}
    /\ attached' = [attached EXCEPT ![t] = @ \cup (added[t] \ closed)]
    /\ count' = [count EXCEPT ![t] = Wrap(@ - Cardinality(added[t] \cap closed))]
    /\ added' = [added EXCEPT ![t] = {}]
    /\ UNCHANGED <<closed, counter, selected, fresh>>

\* ... and removeDecision for one connection whose EndSendings says closed.
RemoveConnection(t, c) ==
    /\ counter # None
    /\ c \in attached[t] \cap closed
    /\ attached' = [attached EXCEPT ![t] = @ \ {c}]
    /\ count' = [count EXCEPT ![counter] = Wrap(@ - 1)]
    /\ UNCHANGED <<added, closed, counter, selected, fresh>>

Update(t) ==
    \/ BuildRemoveDecision(t)
    \/ AddNewConnections(t)
    \/ \E c \in Connections : RemoveConnection(t, c)

PoolNext ==
    \/ Accept
    \/ \E c \in Connections : HandleAccept(c) \/ Close(c)
    \/ \E t \in Threads : Update(t)

PoolSpec == PoolInit /\ [][PoolNext]_poolVars

\* Every network thread's timer fires again and again.
FairPoolSpec == PoolSpec /\ \A t \in Threads : WF_poolVars(Update(t))

-----------------------------------------------------------------------------
PoolTypeOK ==
    /\ count \in [Threads -> 0 .. CountModulus - 1]
    /\ added \in [Threads -> SUBSET Connections]
    /\ attached \in [Threads -> SUBSET Connections]
    /\ closed \subseteq Connections
    /\ counter \in Threads \cup {None}
    /\ selected \in Threads \cup {None}
    /\ fresh \subseteq Connections

\* The connections a thread really has.
Load(t) == Cardinality(added[t]) + Cardinality(attached[t])

\* Every addition is counted up once and every removal down once, if not in
\* the thread it belongs to: the counts of the pool add up, modulo their
\* width, to the connections the pool has (NetworkThread.h:66, 87, 114).  In a
\* pool of one thread this makes the count exact.
CountsAddUp ==
    Wrap(MapThenSumSet(LAMBDA t : count[t], Threads)) =
    Wrap(MapThenSumSet(Load, Threads))

\* Removals count down one thread alone, so no other thread ever believes it
\* has fewer connections than it has: the acceptor's choice can only be wrong
\* about the thread that ran Update first (NetworkThread.h:106).
OnlyCounterUndercounts ==
    \A t \in Threads : t # counter => count[t] >= Load(t)

\* A connection that was closed leaves its thread, even when it was closed
\* before the thread has taken it over.
EventuallyRemoved ==
    \A c \in Connections :
        (c \in closed) ~> \A t \in Threads : c \notin added[t] /\ c \notin attached[t]
=============================================================================
