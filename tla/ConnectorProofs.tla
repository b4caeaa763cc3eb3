-------------------------- MODULE ConnectorProofs --------------------------
(***************************************************************************)
(* Identifiers name their connections, for any number of requests and      *)
(* network threads.                                                        *)
(***************************************************************************)
EXTENDS Connector, TLAPS

Slots == Seq(Requests \cup {None})

Types ==
    /\ request \in [Requests -> {"new", "ignored", "connecting", "failed", "connected"}]
    /\ thread \in [Requests -> Threads \cup {None}]
    /\ id \in [Requests -> Nat]
    /\ handling \in [Threads -> Requests \cup {None}]
    /\ step \in [Threads -> {"idle", "append", "store", "answer"}]
    /\ found \in [Threads -> Slots]
    /\ slots \in Slots
    /\ overlapped \subseteq Requests

\* A thread that handles a connect is its thread, and it is not answered yet.
HandlersMatch ==
    \A t \in Threads :
        /\ step[t] = "idle" <=> handling[t] = None
        /\ handling[t] # None => request[handling[t]] = "connecting" /\ thread[handling[t]] = t

\* A handler that did not overlap another one is alone.
HandlesAlone ==
    \A t, u \in Threads :
        t # u /\ handling[t] # None /\ handling[u] # None => handling[t] \in overlapped

\* The connections that are in the vector, or were until they were closed.
Placed ==
    {r \in Requests \ overlapped :
        request[r] = "connected" \/ \E t \in Threads : handling[t] = r /\ step[t] = "answer"}

PlacedAreThere ==
    \A r \in Placed :
        /\ id[r] < Len(slots)
        /\ slots[id[r] + 1] = IF id[r] \in closed THEN None ELSE r

\* An append that was begun has found them there.
PlacedAreFound ==
    \A r \in Placed, t \in Threads : step[t] = "store" =>
        id[r] < Len(found[t]) /\ found[t][id[r] + 1] = slots[id[r] + 1]

\* Until it ends nobody else has appended or closed, unless it was overlapped.
PlaceIsFree ==
    \A t \in Threads : handling[t] # None /\ handling[t] \notin overlapped =>
        /\ step[t] \in {"append", "store"} => id[handling[t]] = Len(slots) /\ Len(slots) \notin closed
        /\ step[t] = "store" => found[t] = slots

IInv ==
    /\ Types
    /\ HandlersMatch
    /\ HandlesAlone
    /\ PlacedAreThere
    /\ PlacedAreFound
    /\ PlaceIsFree

-----------------------------------------------------------------------------
LEMMA InitIInv == Init => IInv
<1> SUFFICES ASSUME Init PROVE IInv OBVIOUS
<1> USE DEF Init
<1>1. Types BY DEF Types, Slots
<1>2. HandlersMatch BY DEF HandlersMatch
<1>3. HandlesAlone BY DEF HandlesAlone
<1>4. Placed = {} BY DEF Placed
<1>5. PlaceIsFree BY DEF PlaceIsFree
<1> QED BY <1>1, <1>2, <1>3, <1>4, <1>5 DEF IInv, PlacedAreThere, PlacedAreFound

\* Where no handler and no place is concerned: nothing that is connected, or
\* handled, is anything else before or after.
LEMMA QuietIInv ==
    ASSUME IInv, Types', UNCHANGED <<handlerVars, id, slots, closed, overlapped>>,
           \A r \in Requests : request[r] = "connected" <=> request'[r] = "connected",
           \A r \in Requests : (\E t \in Threads : handling[t] = r) =>
               request'[r] = request[r] /\ thread'[r] = thread[r]
    PROVE  IInv'
<1> USE DEF handlerVars
<1>1. Placed' = Placed BY DEF Placed
<1>2. HandlersMatch' BY DEF IInv, HandlersMatch, Types
<1>3. HandlesAlone' BY DEF IInv, HandlesAlone
<1>4. PlacedAreThere' BY <1>1 DEF IInv, PlacedAreThere
<1>5. PlacedAreFound' BY <1>1 DEF IInv, PlacedAreFound
<1>6. PlaceIsFree' BY DEF IInv, PlaceIsFree
<1> QED BY <1>2, <1>3, <1>4, <1>5, <1>6 DEF IInv

LEMMA ApplicationQuiet ==
    ASSUME IInv, \/ Start \/ Stop \/ StopWaits \/ UNCHANGED vars
                 \/ \E r \in Requests : AsyncConnectIgnored(r)
                 \/ \E r \in Requests, t \in Threads, count \in 1 .. MaxAddresses : AsyncConnect(r, t, count)
    PROVE  IInv'
<1>1. CASE Start \/ Stop \/ StopWaits \/ UNCHANGED vars
  <2>1. UNCHANGED <<request, thread, id, handlerVars, slots, closed, overlapped>>
    BY <1>1 DEF Start, Stop, StopWaits, vars
  <2>2. Types' BY <2>1 DEF IInv, Types, handlerVars
  <2> QED BY <2>1, <2>2, QuietIInv
<1>2. ASSUME NEW r \in Requests, AsyncConnectIgnored(r) PROVE IInv'
  <2>1. /\ UNCHANGED <<thread, id, handlerVars, slots, closed, overlapped>>
        /\ request[r] = "new" /\ request' = [request EXCEPT ![r] = "ignored"]
    BY <1>2 DEF AsyncConnectIgnored
  <2>2. Types' BY <2>1 DEF IInv, Types, handlerVars
  <2>3. \A t \in Threads : handling[t] # r
    BY <2>1, ConnectorAssumption DEF IInv, HandlersMatch
  <2> QED BY <2>1, <2>2, <2>3, QuietIInv DEF IInv, Types
<1>3. ASSUME NEW r \in Requests, NEW t \in Threads, NEW count \in 1 .. MaxAddresses, AsyncConnect(r, t, count)
      PROVE  IInv'
  <2>1. /\ UNCHANGED <<id, handlerVars, slots, closed, overlapped>>
        /\ request[r] = "new" /\ request' = [request EXCEPT ![r] = "connecting"]
        /\ thread' = [thread EXCEPT ![r] = t]
    BY <1>3 DEF AsyncConnect
  <2>2. Types' BY <2>1 DEF IInv, Types, handlerVars
  <2>3. \A u \in Threads : handling[u] # r
    BY <2>1, ConnectorAssumption DEF IInv, HandlersMatch
  <2> QED BY <2>1, <2>2, <2>3, QuietIInv DEF IInv, Types
<1> QED BY <1>1, <1>2, <1>3

LEMMA FailureQuiet ==
    ASSUME IInv, NEW t \in Threads, NEW r \in Requests, NextAddress(t, r) \/ ConnectFails(t, r)
    PROVE  IInv'
<1>1. /\ UNCHANGED <<thread, id, handlerVars, slots, closed, overlapped>>
      /\ request[r] = "connecting" /\ thread[r] = t /\ handling[t] = None
      /\ request' \in {request, [request EXCEPT ![r] = "failed"]}
  BY DEF NextAddress, ConnectFails, Completes
<1>2. Types' BY <1>1 DEF IInv, Types, handlerVars
<1>3. \A u \in Threads : handling[u] # r
  BY <1>1, ConnectorAssumption DEF IInv, HandlersMatch
<1> QED BY <1>1, <1>2, <1>3, QuietIInv DEF IInv, Types

-----------------------------------------------------------------------------
\* Whoever is handled while it closes, and the connection that is closed, are
\* overlapped.
LEMMA CloseIInv == ASSUME IInv, NEW i \in Nat, CloseConnection(i) PROVE IInv'
<1> DEFINE connection == slots[i + 1]
<1>1. /\ i < Len(slots) /\ connection # None /\ ConnectionAt(i) = connection
      /\ slots' = [slots EXCEPT ![i + 1] = None]
      /\ closed' = closed \cup {i}
      /\ UNCHANGED <<request, thread, id, handlerVars>>
  BY DEF CloseConnection, ConnectionAt
<1>2. /\ slots \in Slots /\ i + 1 \in 1 .. Len(slots) /\ connection \in Requests
      /\ slots' \in Slots /\ Len(slots') = Len(slots)
  BY <1>1 DEF IInv, Types, Slots
<1>3. \A t \in Threads : handling[t] # None => handling[t] \in overlapped'
  BY DEF CloseConnection, Handlers
<1>4. overlapped \subseteq overlapped' /\ overlapped' \subseteq Requests
  <2>1. Handlers \subseteq Requests BY DEF Handlers, IInv, Types
  <2>2. overlapped' = overlapped \/ overlapped' = overlapped \cup Handlers \cup {connection}
    BY <1>1 DEF CloseConnection
  <2> QED BY <1>2, <2>1, <2>2 DEF IInv, Types
<1>5. (\E t \in Threads : handling[t] # None) => connection \in overlapped'
  BY <1>1 DEF CloseConnection, Handlers
<1>6. Placed' \subseteq Placed /\ \A r \in Placed' : request[r] = "connected"
  BY <1>1, <1>3, <1>4 DEF Placed, handlerVars, IInv, HandlersMatch
<1>7. Types' BY <1>1, <1>2, <1>4 DEF IInv, Types, handlerVars
<1>8. HandlersMatch' BY <1>1 DEF IInv, HandlersMatch, handlerVars
<1>9. HandlesAlone' BY <1>1, <1>3 DEF HandlesAlone, handlerVars
<1>10. PlacedAreThere'
  <2> SUFFICES ASSUME NEW r \in Placed'
               PROVE  id[r] < Len(slots') /\ slots'[id[r] + 1] = IF id[r] \in closed' THEN None ELSE r
    BY <1>1 DEF PlacedAreThere
  <2>1. /\ id[r] \in Nat /\ id[r] < Len(slots)
        /\ slots[id[r] + 1] = IF id[r] \in closed THEN None ELSE r
    BY <1>6 DEF IInv, PlacedAreThere, Types, Placed
  <2>2. CASE id[r] = i BY <1>1, <1>2, <2>1, <2>2 DEF Slots
  <2>3. CASE id[r] # i BY <1>1, <1>2, <2>1, <2>3 DEF Slots
  <2> QED BY <2>2, <2>3
<1>11. PlacedAreFound'
  <2> SUFFICES ASSUME NEW r \in Placed', NEW t \in Threads, step[t] = "store"
               PROVE  id[r] < Len(found[t]) /\ found[t][id[r] + 1] = slots'[id[r] + 1]
    BY <1>1 DEF PlacedAreFound, handlerVars
  <2>1. handling[t] # None BY DEF IInv, HandlersMatch
  <2>2. connection # r BY <1>1, <1>5, <2>1 DEF Placed
  <2>3. /\ id[r] \in Nat /\ id[r] < Len(slots)
        /\ slots[id[r] + 1] = IF id[r] \in closed THEN None ELSE r
        /\ id[r] < Len(found[t]) /\ found[t][id[r] + 1] = slots[id[r] + 1]
    BY <1>6 DEF IInv, PlacedAreThere, PlacedAreFound, Types, Placed
  <2>4. id[r] # i BY <1>1, <2>2, <2>3
  <2> QED BY <1>1, <1>2, <2>3, <2>4 DEF Slots
<1>12. PlaceIsFree' BY <1>1, <1>3 DEF PlaceIsFree, handlerVars
<1> QED BY <1>7, <1>8, <1>9, <1>10, <1>11, <1>12 DEF IInv

\* Who is handled meanwhile is overlapped, and so is the newcomer then.
LEMMA ConnectIInv ==
    ASSUME IInv, NEW t \in Threads, NEW r \in Requests, ConnectSucceeds(t, r)
    PROVE  IInv'
<1>1. /\ handling[t] = None /\ request[r] = "connecting" /\ thread[r] = t
      /\ handling' = [handling EXCEPT ![t] = r]
      /\ step' = [step EXCEPT ![t] = "append"]
      /\ id' = [id EXCEPT ![r] = Len(slots)]
      /\ closed' = closed \ {Len(slots)}
      /\ UNCHANGED <<request, thread, found, slots>>
  BY DEF ConnectSucceeds, Completes
<1>2. /\ handling \in [Threads -> Requests \cup {None}]
      /\ step \in [Threads -> {"idle", "append", "store", "answer"}]
      /\ id \in [Requests -> Nat] /\ Len(slots) \in Nat /\ r # None
  BY ConnectorAssumption DEF IInv, Types, Slots
<1>3. \A u \in Threads : handling[u] # None => handling[u] \in overlapped' /\ r \in overlapped'
  BY DEF ConnectSucceeds, Handlers
<1>4. overlapped \subseteq overlapped' /\ overlapped' \subseteq Requests
  <2>1. Handlers \subseteq Requests BY <1>2 DEF Handlers
  <2>2. overlapped' = overlapped \/ overlapped' = overlapped \cup Handlers \cup {r}
    BY DEF ConnectSucceeds
  <2> QED BY <2>1, <2>2 DEF IInv, Types
<1>5. \A u \in Threads : handling[u] # r BY <1>1, <1>2 DEF IInv, HandlersMatch
<1>6. Placed' \subseteq Placed /\ r \notin Placed'
  <2>1. \A s \in Requests : request'[s] = "connected" => request[s] = "connected" /\ s # r
    BY <1>1
  <2>2. \A s \in Requests, u \in Threads : handling'[u] = s /\ step'[u] = "answer" =>
            handling[u] = s /\ step[u] = "answer" /\ s # r
    BY <1>1, <1>2, <1>5
  <2> QED BY <1>1, <1>4, <2>1, <2>2 DEF Placed
<1>7. Types' BY <1>1, <1>2, <1>4 DEF IInv, Types
<1>8. HandlersMatch' BY <1>1, <1>2 DEF IInv, HandlersMatch
<1>9. HandlesAlone' BY <1>1, <1>2, <1>3 DEF HandlesAlone
<1>10. \A s \in Placed' : s \in Placed /\ id'[s] = id[s] /\ id[s] # Len(slots)
  BY <1>1, <1>2, <1>6 DEF IInv, PlacedAreThere, Placed
<1>11. PlacedAreThere' BY <1>1, <1>10 DEF IInv, PlacedAreThere
<1>12. PlacedAreFound'
  <2>1. \A u \in Threads : step'[u] = "store" => step[u] = "store" BY <1>1, <1>2
  <2> QED BY <1>1, <1>10, <2>1 DEF IInv, PlacedAreFound
<1>13. PlaceIsFree'
  <2> SUFFICES ASSUME NEW u \in Threads, handling'[u] # None, handling'[u] \notin overlapped'
               PROVE  /\ step'[u] \in {"append", "store"} =>
                          id'[handling'[u]] = Len(slots) /\ Len(slots) \notin closed'
                      /\ step'[u] = "store" => found[u] = slots
    BY <1>1 DEF PlaceIsFree
  <2>1. u = t BY <1>1, <1>2, <1>3
  <2> QED BY <1>1, <1>2, <2>1
<1> QED BY <1>7, <1>8, <1>9, <1>11, <1>12, <1>13 DEF IInv

LEMMA AppendBeginsIInv == ASSUME IInv, NEW t \in Threads, AppendBegins(t) PROVE IInv'
<1>1. /\ step[t] = "append" /\ step' = [step EXCEPT ![t] = "store"]
      /\ found' = [found EXCEPT ![t] = slots]
      /\ UNCHANGED <<request, thread, id, handling, slots, closed, overlapped>>
  BY DEF AppendBegins
<1>2. Types' BY <1>1 DEF IInv, Types
<1>3. step \in [Threads -> {"idle", "append", "store", "answer"}] /\ found \in [Threads -> Slots]
  BY DEF IInv, Types
<1>4. HandlersMatch' BY <1>1, <1>3 DEF IInv, HandlersMatch
<1>5. HandlesAlone' BY <1>1 DEF IInv, HandlesAlone
<1>6. Placed' = Placed BY <1>1, <1>3 DEF Placed
<1>7. PlacedAreThere' BY <1>1, <1>6 DEF IInv, PlacedAreThere
<1>8. PlacedAreFound' BY <1>1, <1>3, <1>6 DEF IInv, PlacedAreFound, PlacedAreThere
<1>9. PlaceIsFree' BY <1>1, <1>3 DEF IInv, PlaceIsFree
<1> QED BY <1>2, <1>4, <1>5, <1>7, <1>8, <1>9 DEF IInv

\* Whatever the append finds and wherever it stores, it leaves the places of the
\* others as they are, and goes behind them when it was not overlapped.
LEMMA AppendEndsIInv == ASSUME IInv, NEW t \in Threads, AppendEnds(t) PROVE IInv'
<1> DEFINE r == handling[t]
<1>1. /\ step[t] = "store" /\ step' = [step EXCEPT ![t] = "answer"]
      /\ found' = [found EXCEPT ![t] = <<>>]
      /\ UNCHANGED <<request, thread, id, handling, closed, overlapped>>
      /\ \/ slots' = Append(found[t], r)
         \/ /\ Len(found[t]) < Len(slots)
            /\ slots' = [slots EXCEPT ![Len(found[t]) + 1] = r]
         \/ /\ Len(found[t]) >= Len(slots)
            /\ slots' = Append(slots, r)
  BY DEF AppendEnds
<1>2. /\ step \in [Threads -> {"idle", "append", "store", "answer"}]
      /\ found \in [Threads -> Slots] /\ slots \in Slots /\ r \in Requests
      /\ id \in [Requests -> Nat]
  BY <1>1 DEF IInv, Types, HandlersMatch
<1>3. slots' \in Slots
  <2>1. CASE slots' = Append(found[t], r) BY <1>2, <2>1 DEF Slots
  <2>2. CASE Len(found[t]) < Len(slots) /\ slots' = [slots EXCEPT ![Len(found[t]) + 1] = r]
    BY <1>2, <2>2 DEF Slots
  <2>3. CASE slots' = Append(slots, r) BY <1>2, <2>3 DEF Slots
  <2> QED BY <1>1, <2>1, <2>2, <2>3
<1>4. ASSUME NEW i \in Nat, i < Len(slots), i < Len(found[t]), found[t][i + 1] = slots[i + 1]
      PROVE  i < Len(slots') /\ slots'[i + 1] = slots[i + 1]
  <2>1. CASE slots' = Append(found[t], r) BY <1>2, <1>4, <2>1 DEF Slots
  <2>2. CASE Len(found[t]) < Len(slots) /\ slots' = [slots EXCEPT ![Len(found[t]) + 1] = r]
    BY <1>2, <1>4, <2>2 DEF Slots
  <2>3. CASE slots' = Append(slots, r) BY <1>2, <1>4, <2>3 DEF Slots
  <2> QED BY <1>1, <2>1, <2>2, <2>3
<1>5. Placed' \subseteq Placed \cup {r} BY <1>1, <1>2 DEF Placed
<1>6. \A u \in Threads : handling[u] = r => u = t
  BY <1>2, ConnectorAssumption DEF IInv, HandlersMatch
<1>7. \A s \in Placed : s # r
  BY <1>1, <1>2, <1>6, ConnectorAssumption DEF Placed, IInv, HandlersMatch
<1>8. ASSUME NEW s \in Placed
      PROVE  id[s] \in Nat /\ id[s] < Len(slots) /\ id[s] < Len(slots') /\ slots'[id[s] + 1] = slots[id[s] + 1]
  <2>1. id[s] \in Nat /\ id[s] < Len(slots) /\ id[s] < Len(found[t]) /\ found[t][id[s] + 1] = slots[id[s] + 1]
    BY <1>1, <1>2 DEF IInv, PlacedAreThere, PlacedAreFound, Placed
  <2> QED BY <1>4, <2>1
<1>9. ASSUME r \notin overlapped
      PROVE  /\ id[r] < Len(slots') /\ slots'[id[r] + 1] = r /\ id[r] \notin closed
             /\ \A u \in Threads : step[u] = "store" => u = t
  <2>1. found[t] = slots /\ id[r] = Len(slots) /\ id[r] \notin closed
    BY <1>1, <1>2, <1>9, ConnectorAssumption DEF IInv, PlaceIsFree
  <2>2. slots' = Append(slots, r) BY <1>1, <1>2, <2>1 DEF Slots
  <2>3. Len(slots') = Len(slots) + 1 /\ slots'[Len(slots) + 1] = r /\ Len(slots) \in Nat
    BY <1>2, <2>2 DEF Slots
  <2>4. \A u \in Threads : step[u] = "store" => u = t
    BY <1>1, <1>9 DEF IInv, HandlersMatch, HandlesAlone
  <2> QED BY <2>1, <2>3, <2>4
<1>10. Types' BY <1>1, <1>2, <1>3 DEF IInv, Types, Slots
<1>11. HandlersMatch' BY <1>1, <1>2 DEF IInv, HandlersMatch
<1>12. HandlesAlone' BY <1>1 DEF IInv, HandlesAlone
<1>13. PlacedAreThere'
  <2> SUFFICES ASSUME NEW s \in Placed'
               PROVE  id[s] < Len(slots') /\ slots'[id[s] + 1] = IF id[s] \in closed THEN None ELSE s
    BY <1>1 DEF PlacedAreThere
  <2>1. CASE s \in Placed BY <1>8, <2>1 DEF IInv, PlacedAreThere
  <2>2. CASE s = r BY <1>1, <1>9, <2>2 DEF Placed
  <2> QED BY <1>5, <2>1, <2>2
<1>14. PlacedAreFound'
  <2> SUFFICES ASSUME NEW s \in Placed', NEW u \in Threads, step'[u] = "store"
               PROVE  id[s] < Len(found'[u]) /\ found'[u][id[s] + 1] = slots'[id[s] + 1]
    BY <1>1 DEF PlacedAreFound
  <2>1. u # t /\ step[u] = "store" /\ found'[u] = found[u] BY <1>1, <1>2
  <2>2. s \in Placed BY <1>1, <1>5, <1>9, <2>1 DEF Placed
  <2> QED BY <1>8, <2>1, <2>2 DEF IInv, PlacedAreFound
<1>15. PlaceIsFree'
  <2> SUFFICES ASSUME NEW u \in Threads, handling[u] # None, handling[u] \notin overlapped,
                      step'[u] \in {"append", "store"}
               PROVE  FALSE
    BY <1>1 DEF PlaceIsFree
  <2>1. u # t BY <1>1, <1>2
  <2> QED BY <1>2, <2>1, ConnectorAssumption DEF IInv, HandlesAlone
<1> QED BY <1>10, <1>11, <1>12, <1>13, <1>14, <1>15 DEF IInv

LEMMA OnConnectIInv == ASSUME IInv, NEW t \in Threads, OnConnect(t) PROVE IInv'
<1> DEFINE r == handling[t]
<1>1. /\ step[t] = "answer" /\ step' = [step EXCEPT ![t] = "idle"]
      /\ request' = [request EXCEPT ![r] = "connected"]
      /\ handling' = [handling EXCEPT ![t] = None]
      /\ UNCHANGED <<thread, id, found, slots, closed, overlapped>>
  BY DEF OnConnect
<1>2. /\ step \in [Threads -> {"idle", "append", "store", "answer"}]
      /\ handling \in [Threads -> Requests \cup {None}]
      /\ request \in [Requests -> {"new", "ignored", "connecting", "failed", "connected"}]
      /\ r \in Requests
  BY <1>1 DEF IInv, Types, HandlersMatch
<1>3. \A u \in Threads : handling[u] = r => u = t
  BY <1>2, ConnectorAssumption DEF IInv, HandlersMatch
<1>4. Placed' \subseteq Placed BY <1>1, <1>2 DEF Placed
<1>5. Types' BY <1>1, <1>2 DEF IInv, Types
<1>6. HandlersMatch' BY <1>1, <1>2, <1>3 DEF IInv, HandlersMatch
<1>7. HandlesAlone' BY <1>1, <1>2 DEF IInv, HandlesAlone
<1>8. PlacedAreThere' BY <1>1, <1>4 DEF IInv, PlacedAreThere
<1>9. PlacedAreFound' BY <1>1, <1>2, <1>4 DEF IInv, PlacedAreFound
<1>10. PlaceIsFree' BY <1>1, <1>2 DEF IInv, PlaceIsFree
<1> QED BY <1>5, <1>6, <1>7, <1>8, <1>9, <1>10 DEF IInv

LEMMA NextIInv == ASSUME IInv, [Next]_vars PROVE IInv'
<1>1. ASSUME NEW r \in Requests, request[r] = "connected" /\ CloseConnection(id[r]) PROVE IInv'
  BY <1>1, CloseIInv DEF IInv, Types
<1>2. CASE Application BY <1>1, <1>2, ApplicationQuiet DEF Application
<1>3. ASSUME NEW t \in Threads, HandleConnect(t) PROVE IInv'
  BY <1>3, FailureQuiet, ConnectIInv, AppendBeginsIInv, AppendEndsIInv, OnConnectIInv DEF HandleConnect
<1> QED BY <1>2, <1>3, ApplicationQuiet DEF Next

\* The invariant holds whatever number of requests and threads there is.
THEOREM Inductive == Spec => []IInv
BY InitIInv, NextIInv, PTL DEF Spec

\* However many connects complete on however many threads, an identifier names
\* its connection until that is closed, and nothing afterwards, but for those
\* that overlapped another connect or a close.
THEOREM IdentifiersHold == Spec => []IdentifierNamesItsConnection
<1>1. IInv => IdentifierNamesItsConnection
  <2> SUFFICES ASSUME IInv, NEW r \in Requests \ overlapped, request[r] = "connected"
               PROVE  ConnectionAt(id[r]) = IF id[r] \in closed THEN None ELSE r
    BY DEF IdentifierNamesItsConnection
  <2>1. r \in Placed BY DEF Placed
  <2> QED BY <2>1 DEF IInv, PlacedAreThere, ConnectionAt
<1> QED BY <1>1, Inductive, PTL
=============================================================================
