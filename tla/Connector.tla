----------------------------- MODULE Connector -----------------------------
(***************************************************************************)
(* Connector::ConnectionManager: the client library that connects, and     *)
(* hands out identifiers, which are places of the vector m_Connections.    *)
(*                                                                         *)
(* The application's thread calls the exported functions.  A connect       *)
(* completes on the network thread it was given to; HandleConnect reads    *)
(* the size of the vector, adds the connection to the thread, appends it   *)
(* and calls back, and nothing keeps two of them apart.  An append is      *)
(* undefined behaviour when it overlaps another one or a close; here it    *)
(* begins with the vector it finds and stores afterwards, behind the last  *)
(* place it found or, when the vector grows, into a copy of what it found. *)
(* So one of two appends is lost, or a close undone.                       *)
(*                                                                         *)
(* The choice of a thread is open, for the counts that it compares can be  *)
(* wrong (NetworkPool).  What a connection does is in ConnectionSend and   *)
(* ConnectionReceive.  All lists of addresses have one at least.           *)
(***************************************************************************)
EXTENDS Naturals, Sequences, FiniteSets

CONSTANTS
    Requests,      \* calls of AsyncConnect, each with its connection
    Threads,       \* m_NetworkThreads
    MaxAddresses,  \* bound on the addresses of a request
    MaxStarts,     \* bound on the calls of Start that start
    None           \* nullptr

ASSUME ConnectorAssumption ==
    /\ None \notin Requests \cup Threads
    /\ MaxAddresses \in Nat \ {0} /\ MaxStarts \in Nat

VARIABLES
    started,     \* m_Started
    starts,      \* history: how often that was set
    stopped,     \* m_Stopped of the network threads
    stopping,    \* the application is in Stop
    request,     \* of every request, how far it is
    thread,      \* the network thread it was given to
    addresses,   \* addresses it has not tried yet
    id,          \* the identifier the application was given
    handling,    \* the request whose HandleConnect every thread executes
    step,        \* the step it is at
    found,       \* the vector as its append found it
    slots,       \* m_Connections
    closed,      \* history: identifiers the application has closed since they
                 \* were last given
    overlapped   \* history: requests whose HandleConnect overlapped another
                 \* one or a close, and those closed meanwhile

lifeVars == <<started, starts, stopped, stopping>>
handlerVars == <<handling, step, found>>
vars == <<lifeVars, request, thread, addresses, id, handlerVars, slots, closed, overlapped>>

Init ==
    /\ started = FALSE /\ starts = 0
    /\ stopped = FALSE /\ stopping = FALSE
    /\ request = [r \in Requests |-> "new"]
    /\ thread = [r \in Requests |-> None]
    /\ addresses = [r \in Requests |-> 0]
    /\ id = [r \in Requests |-> 0]
    /\ handling = [t \in Threads |-> None]
    /\ step = [t \in Threads |-> "idle"]
    /\ found = [t \in Threads |-> <<>>]
    /\ slots = <<>>
    /\ closed = {} /\ overlapped = {}

-----------------------------------------------------------------------------
(* The application's thread.                                               *)

Start ==
    /\ ~stopping /\ ~started
    /\ starts < MaxStarts
    /\ started' = TRUE /\ starts' = starts + 1
    /\ UNCHANGED <<stopped, stopping, request, thread, addresses, id, handlerVars, slots, closed, overlapped>>

\* Every network thread is stopped ...
Stop ==
    /\ ~stopping /\ started
    /\ stopping' = TRUE /\ stopped' = TRUE
    /\ UNCHANGED <<started, starts, request, thread, addresses, id, handlerVars, slots, closed, overlapped>>

\* ... and joined, which lets the handler under way end.
StopWaits ==
    /\ stopping
    /\ \A t \in Threads : handling[t] = None
    /\ stopping' = FALSE /\ started' = FALSE
    /\ UNCHANGED <<starts, stopped, request, thread, addresses, id, handlerVars, slots, closed, overlapped>>

\* A manager that is not started ignores the call, without an answer.
AsyncConnectIgnored(r) ==
    /\ ~stopping /\ request[r] = "new" /\ ~started
    /\ request' = [request EXCEPT ![r] = "ignored"]
    /\ UNCHANGED <<lifeVars, thread, addresses, id, handlerVars, slots, closed, overlapped>>

AsyncConnect(r, t, count) ==
    /\ ~stopping /\ request[r] = "new" /\ started
    /\ request' = [request EXCEPT ![r] = "connecting"]
    /\ thread' = [thread EXCEPT ![r] = t]
    /\ addresses' = [addresses EXCEPT ![r] = count - 1]
    /\ UNCHANGED <<lifeVars, id, handlerVars, slots, closed, overlapped>>

\* SendTo, ReceiveFrom, CloseConnection and ConnectionClosed look it up.
ConnectionAt(i) == IF i < Len(slots) THEN slots[i + 1] ELSE None

Handlers == {handling[t] : t \in Threads} \ {None}

\* Mutation: the place is taken out of the vector.
CloseConnectionErases(i) ==
    /\ ~stopping
    /\ ConnectionAt(i) # None
    /\ slots' = SubSeq(slots, 1, i) \o SubSeq(slots, i + 2, Len(slots))
    /\ closed' = closed \cup {i}
    /\ overlapped' = IF Handlers = {} THEN overlapped ELSE overlapped \cup Handlers \cup {ConnectionAt(i)}
    /\ UNCHANGED <<lifeVars, request, thread, addresses, id, handlerVars>>

\* The place stays empty from now on.
CloseConnection(i) ==
    /\ ~stopping
    /\ ConnectionAt(i) # None
    /\ slots' = [slots EXCEPT ![i + 1] = None]
    /\ closed' = closed \cup {i}
    /\ overlapped' = IF Handlers = {} THEN overlapped ELSE overlapped \cup Handlers \cup {ConnectionAt(i)}
    /\ UNCHANGED <<lifeVars, request, thread, addresses, id, handlerVars>>

-----------------------------------------------------------------------------
(* HandleConnect on a network thread.                                      *)

\* async_connect completes; a stopped thread calls no handler any more.
Completes(t, r) ==
    /\ ~stopped /\ handling[t] = None
    /\ request[r] = "connecting" /\ thread[r] = t

\* The next address is tried with the same socket, ...
NextAddress(t, r) ==
    /\ Completes(t, r)
    /\ addresses[r] > 0
    /\ addresses' = [addresses EXCEPT ![r] = @ - 1]
    /\ UNCHANGED <<lifeVars, request, thread, id, handlerVars, slots, closed, overlapped>>

\* Mutation: nobody is told.
FailsSilently(t, r) ==
    /\ Completes(t, r)
    /\ addresses[r] = 0
    /\ request' = [request EXCEPT ![r] = "ignored"]
    /\ UNCHANGED <<lifeVars, thread, addresses, id, handlerVars, slots, closed, overlapped>>

\* ... after the last one the callback gets the error.
ConnectFails(t, r) ==
    /\ Completes(t, r)
    /\ addresses[r] = 0
    /\ request' = [request EXCEPT ![r] = "failed"]
    /\ UNCHANGED <<lifeVars, thread, addresses, id, handlerVars, slots, closed, overlapped>>

\* The identifier is the size of the vector; then the thread is given the
\* connection, ...
ConnectSucceeds(t, r) ==
    /\ Completes(t, r)
    /\ handling' = [handling EXCEPT ![t] = r]
    /\ step' = [step EXCEPT ![t] = "append"]
    /\ id' = [id EXCEPT ![r] = Len(slots)]
    /\ closed' = closed \ {Len(slots)}
    /\ overlapped' = IF Handlers = {} THEN overlapped ELSE overlapped \cup Handlers \cup {r}
    /\ UNCHANGED <<lifeVars, request, thread, addresses, found, slots>>

\* ... it is appended, ...
AppendBegins(t) ==
    /\ step[t] = "append"
    /\ found' = [found EXCEPT ![t] = slots]
    /\ step' = [step EXCEPT ![t] = "store"]
    /\ UNCHANGED <<lifeVars, request, thread, addresses, id, handling, slots, closed, overlapped>>

AppendEnds(t) ==
    /\ step[t] = "store"
    /\ \/ slots' = Append(found[t], handling[t])
       \/ /\ Len(found[t]) < Len(slots)
          /\ slots' = [slots EXCEPT ![Len(found[t]) + 1] = handling[t]]
       \/ /\ Len(found[t]) >= Len(slots)
          /\ slots' = Append(slots, handling[t])
    /\ found' = [found EXCEPT ![t] = <<>>]
    /\ step' = [step EXCEPT ![t] = "answer"]
    /\ UNCHANGED <<lifeVars, request, thread, addresses, id, handling, closed, overlapped>>

\* ... and the callback gets the identifier.
OnConnect(t) ==
    /\ step[t] = "answer"
    /\ request' = [request EXCEPT ![handling[t]] = "connected"]
    /\ handling' = [handling EXCEPT ![t] = None]
    /\ step' = [step EXCEPT ![t] = "idle"]
    /\ UNCHANGED <<lifeVars, thread, addresses, id, found, slots, closed, overlapped>>

HandleConnect(t) ==
    \/ \E r \in Requests : NextAddress(t, r) \/ ConnectFails(t, r) \/ ConnectSucceeds(t, r)
    \/ AppendBegins(t)
    \/ AppendEnds(t)
    \/ OnConnect(t)

-----------------------------------------------------------------------------
Application ==
    \/ Start \/ Stop \/ StopWaits
    \/ \E r \in Requests :
        \/ AsyncConnectIgnored(r)
        \/ \E t \in Threads, count \in 1 .. MaxAddresses : AsyncConnect(r, t, count)
        \/ request[r] = "connected" /\ CloseConnection(id[r])

Next == Application \/ \E t \in Threads : HandleConnect(t)

Spec == Init /\ [][Next]_vars

\* A network thread goes on with its handlers, the network ends every connect,
\* and the join in Stop returns.
FairSpec ==
    /\ Spec
    /\ WF_vars(StopWaits)
    /\ \A t \in Threads : WF_vars(HandleConnect(t))

-----------------------------------------------------------------------------
TypeOK ==
    /\ started \in BOOLEAN /\ stopped \in BOOLEAN /\ stopping \in BOOLEAN
    /\ request \in [Requests -> {"new", "ignored", "connecting", "failed", "connected"}]
    /\ addresses \in [Requests -> 0 .. MaxAddresses]
    /\ handling \in [Threads -> Requests \cup {None}]
    /\ slots \in Seq(Requests \cup {None})
    /\ overlapped \subseteq Requests

\* An identifier names the connection it was given for, until the application
\* closes it, and then nothing, however many are given later; unless
\* HandleConnect overlapped another one or a close (ConnectionManager.cpp:194).
\* After an overlap the vector may be shorter, and identifiers that were given,
\* or closed, are given again.
IdentifierNamesItsConnection ==
    \A r \in Requests \ overlapped : request[r] = "connected" =>
        ConnectionAt(id[r]) = IF id[r] \in closed THEN None ELSE r

\* A connect that was begun is answered, if the manager is never stopped.  Once
\* it was, it answers nothing even when it is started again
\* (NetworkThread.h:131, ConnectionManager.cpp:66).
EveryConnectIsAnswered ==
    \A r \in Requests : request[r] = "connecting" ~> (request[r] \in {"failed", "connected"} \/ stopped)
=============================================================================
