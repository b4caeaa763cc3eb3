--------------------------- MODULE DatabaseProofs ---------------------------
(***************************************************************************)
(* The asynchronous database, with the synchronous one beside it, loses no *)
(* work and no callback, in the order in which the queue gives them out,   *)
(* for any number of workers, connections and statements.                  *)
(***************************************************************************)
EXTENDS Database, SequenceTheorems, FiniteSetTheorems, TLAPS

-----------------------------------------------------------------------------
(* Sequences.                                                              *)

\* RemoveAt drops one element and keeps the order of the others.
LEMMA RemoveAtProperties ==
    ASSUME NEW S, NEW s \in Seq(S), NEW n \in 1 .. Len(s)
    PROVE  /\ RemoveAt(s, n) \in Seq(S)
           /\ Len(RemoveAt(s, n)) = Len(s) - 1
           /\ \A i \in 1 .. Len(s) - 1 :
                 RemoveAt(s, n)[i] = IF i < n THEN s[i] ELSE s[i + 1]
<1> DEFINE before == SubSeq(s, 1, n - 1)
           after == SubSeq(s, n + 1, Len(s))
<1>0. Len(s) \in Nat /\ n \in Nat /\ 1 <= n /\ n <= Len(s)
  BY LenProperties
<1>1. before \in Seq(S) /\ Len(before) = n - 1 /\ \A i \in 1 .. n - 1 : before[i] = s[i]
  <2>1. 1 \in Int /\ n - 1 \in Int /\ \A i \in 1 .. n - 1 : s[i] \in S
    BY <1>0, ElementOfSeq
  <2>2. /\ before \in Seq(S)
        /\ Len(before) = IF 1 <= n - 1 THEN n - 1 - 1 + 1 ELSE 0
        /\ \A i \in 1 .. n - 1 - 1 + 1 : before[i] = s[1 + i - 1]
    BY <2>1, SubSeqProperties
  <2> HIDE DEF before
  <2>3. \A i \in 1 .. n - 1 : before[i] = s[i]
    <3> TAKE i \in 1 .. n - 1
    <3>1. i \in 1 .. n - 1 - 1 + 1 /\ 1 + i - 1 = i
      BY <1>0
    <3> QED BY <3>1, <2>2
  <2>4. (IF 1 <= n - 1 THEN n - 1 - 1 + 1 ELSE 0) = n - 1
    BY <1>0
  <2> QED BY <2>2, <2>3, <2>4
<1>2. after \in Seq(S) /\ Len(after) = Len(s) - n /\ \A i \in 1 .. Len(s) - n : after[i] = s[i + n]
  <2>1. n + 1 \in Int /\ Len(s) \in Int /\ \A i \in n + 1 .. Len(s) : s[i] \in S
    BY <1>0, ElementOfSeq
  <2>2. /\ after \in Seq(S)
        /\ Len(after) = IF n + 1 <= Len(s) THEN Len(s) - (n + 1) + 1 ELSE 0
        /\ \A i \in 1 .. Len(s) - (n + 1) + 1 : after[i] = s[n + 1 + i - 1]
    BY <2>1, SubSeqProperties
  <2> HIDE DEF after
  <2>3. \A i \in 1 .. Len(s) - n : after[i] = s[i + n]
    <3> TAKE i \in 1 .. Len(s) - n
    <3>1. i \in 1 .. Len(s) - (n + 1) + 1 /\ n + 1 + i - 1 = i + n
      BY <1>0
    <3> QED BY <3>1, <2>2
  <2>4. (IF n + 1 <= Len(s) THEN Len(s) - (n + 1) + 1 ELSE 0) = Len(s) - n
    BY <1>0
  <2> QED BY <2>2, <2>3, <2>4
<1>3. RemoveAt(s, n) = before \o after
  BY DEF RemoveAt
<1> HIDE DEF before, after
<1>4. /\ before \o after \in Seq(S)
      /\ Len(before \o after) = Len(before) + Len(after)
      /\ \A i \in 1 .. Len(before) + Len(after) : (before \o after)[i] =
            IF i <= Len(before) THEN before[i] ELSE after[i - Len(before)]
  BY <1>1, <1>2, ConcatProperties, Zenon
<1>5. \A i \in 1 .. Len(s) - 1 : RemoveAt(s, n)[i] = IF i < n THEN s[i] ELSE s[i + 1]
  <2> TAKE i \in 1 .. Len(s) - 1
  <2>1. i \in 1 .. Len(before) + Len(after)
    BY <1>0, <1>1, <1>2
  <2>2. CASE i < n
    BY <2>1, <2>2, <1>0, <1>1, <1>3, <1>4
  <2>3. CASE ~(i < n)
    <3>1. i - (n - 1) \in 1 .. Len(s) - n /\ (i - (n - 1)) + n = i + 1 /\ ~(i <= n - 1)
      BY <2>3, <1>0
    <3>2. RemoveAt(s, n)[i] = after[i - (n - 1)]
      BY <2>1, <3>1, <1>1, <1>3, <1>4
    <3>3. after[i - (n - 1)] = s[i + 1]
      BY <3>1, <1>2
    <3> QED BY <3>2, <3>3, <2>3
  <2> QED BY <2>2, <2>3
<1> QED BY <1>0, <1>1, <1>2, <1>3, <1>4, <1>5

\* Append puts one element behind the others.
LEMMA AppendElements ==
    ASSUME NEW S, NEW s \in Seq(S), NEW x \in S
    PROVE  /\ Append(s, x) \in Seq(S)
           /\ Len(Append(s, x)) = Len(s) + 1
           /\ \A i \in 1 .. Len(s) : Append(s, x)[i] = s[i]
           /\ Append(s, x)[Len(s) + 1] = x
OBVIOUS

\* Append keeps the elements apart when its own is new.
LEMMA AppendNewElement ==
    ASSUME NEW S, NEW s \in Seq(S), NEW x \in S,
           \A i, j \in 1 .. Len(s) : s[i] = s[j] => i = j,
           \A i \in 1 .. Len(s) : s[i] # x
    PROVE  \A i, j \in 1 .. Len(Append(s, x)) : Append(s, x)[i] = Append(s, x)[j] => i = j
<1> DEFINE t == Append(s, x)
<1>1. /\ Len(s) \in Nat /\ Len(t) = Len(s) + 1
      /\ \A i \in 1 .. Len(s) : t[i] = s[i]
      /\ t[Len(s) + 1] = x
  BY AppendElements, LenProperties
<1> HIDE DEF t
<1>2. \A i \in 1 .. Len(t) : i \in 1 .. Len(s) \/ i = Len(s) + 1
  BY <1>1
<1>3. \A i, j \in 1 .. Len(t) : t[i] = t[j] => i = j
  <2> TAKE i, j \in 1 .. Len(t)
  <2> HAVE t[i] = t[j]
  <2>1. CASE i \in 1 .. Len(s) /\ j \in 1 .. Len(s)
    BY <1>1, <2>1
  <2>2. CASE i \in 1 .. Len(s) /\ j = Len(s) + 1
    BY <1>1, <2>2
  <2>3. CASE j \in 1 .. Len(s) /\ i = Len(s) + 1
    BY <1>1, <2>3
  <2> QED BY <1>2, <2>1, <2>2, <2>3
<1> QED BY <1>3 DEF t

\* A function on 1 .. n is a sequence and grows by Append.
LEMMA AppendToFunction ==
    ASSUME NEW S, NEW n \in Nat, NEW f \in [1 .. n -> S], NEW x \in S
    PROVE  /\ Append(f, x) \in [1 .. n + 1 -> S]
           /\ \A i \in 1 .. n : Append(f, x)[i] = f[i]
           /\ Append(f, x)[n + 1] = x
<1>1. f \in Seq(S) /\ Len(f) = n
  OBVIOUS
<1>2. Append(f, x) \in Seq(S) /\ Len(Append(f, x)) = n + 1
  BY <1>1, AppendElements
<1>3. Append(f, x) \in [1 .. n + 1 -> S]
  BY <1>2, LenProperties
<1> QED BY <1>1, <1>3, AppendElements

-----------------------------------------------------------------------------
(* The Database: its inductive invariant.                                  *)

\* Where the client is, the workers it has opened and closed, and the
\* connections of the synchronous pool.
ClientInv ==
    /\ client = "connect" =>
        /\ opened = 0
        /\ trying \in 1 .. Connections
        /\ linked \subseteq 1 .. trying
        /\ \A c \in 1 .. Connections : c > trying => prepared[c] = 0
    /\ client = "opening" => opened < pool
    /\ client \in {"opened", "loading", "running", "draining", "abandoned", "closed"} => opened = pool
    /\ client \notin {"next", "cancel", "join", "undo", "failed", "closed"} => closing = 1
    /\ client \in {"next", "cancel", "join"} =>
        /\ closing <= opened
        /\ \A w \in Workers : w < closing => worker[w] = "ended"
        /\ opened = pool => linked = {} /\ \A c \in 1 .. Connections : prepared[c] = 0
    /\ client \in {"undo", "failed", "closed"} => \A w \in Workers : worker[w] = "ended"
    /\ client = "closed" => linked = {} /\ \A c \in 1 .. Connections : prepared[c] = 0
    /\ client = "failed" => linked \subseteq {trying} /\ \A c \in 1 .. Connections : prepared[c] = 0
    /\ \A w \in Workers : w > opened => worker[w] = "ended" /\ holds[w] = 0

InQueue(k) == \E i \in 1 .. Len(queue) : queue[i] = k
IsHeld(k) == \E w \in Workers : holds[w] = k
IsDone(k) == \E i \in 1 .. Len(executed) : executed[i] = k
HasCallback(k) == \E i \in 1 .. Len(callbacks) : callbacks[i] = k

\* Every work is in one place at most, in that place once, and its future
\* tells which.
WorksInv ==
    /\ \A i \in 1 .. Len(queue) : queue[i] \in 1 .. issued
    /\ \A i \in 1 .. Len(executed) : executed[i] \in 1 .. issued
    /\ \A w \in Workers : holds[w] \in 0 .. issued
    /\ \A i, j \in 1 .. Len(queue) : queue[i] = queue[j] => i = j
    /\ \A i, j \in 1 .. Len(executed) : executed[i] = executed[j] => i = j
    /\ \A w, v \in Workers : holds[w] = holds[v] /\ holds[w] # 0 => w = v
    /\ \A w \in Workers : worker[w] \in {"check", "do"} => holds[w] # 0
    /\ \A w \in Workers : worker[w] \in {"pop", "asleep"} => holds[w] = 0
    /\ \A k \in 1 .. issued :
        /\ InQueue(k) => result[k] = "pending" /\ ~IsHeld(k)
        /\ IsHeld(k) => result[k] = "pending"
        /\ IsDone(k) <=> result[k] \in {"value", "error"}
        /\ result[k] = "pending" => InQueue(k) \/ IsHeld(k)

\* A work has its callback until the callback was run, or dropped for an error;
\* who drained has none left, and issues nothing any more.
CallbacksInv ==
    /\ Len(callbacks) <= issued
    /\ \A i \in 1 .. Len(callbacks) : callbacks[i] \in 1 .. issued
    /\ \A i, j \in 1 .. Len(callbacks) : callbacks[i] = callbacks[j] => i = j
    /\ \A k \in 1 .. issued :
        HasCallback(k) \/ result[k] = "error" \/ (result[k] = "value" /\ k \in invoked)
    /\ drained => callbacks = <<>> /\ client \in {"next", "cancel", "join", "undo", "failed", "closed"}

DatabaseInv == TypeOK /\ ClientInv /\ WorksInv /\ CallbacksInv

USE DatabaseAssumption, SynchronousAssumption DEF Workers, Works

LEMMA DatabaseInitially == Init => DatabaseInv
<1> SUFFICES ASSUME Init PROVE DatabaseInv
  OBVIOUS
<1> USE DEF Init, AsyncInit
<1>1. TypeOK
  <2>1. result \in [1 .. issued -> {"pending", "value", "error", "broken"}]
    <3>1. <<>> \in [1 .. 0 -> {"pending", "value", "error", "broken"}]
      BY EmptySeq, LenProperties
    <3> QED BY <3>1
  <2>2. prepared \in [1 .. Connections -> 0 .. StatementCount]
    OBVIOUS
  <2>3. closed \in [Workers -> BOOLEAN] /\ working \in [1 .. Connections -> BOOLEAN]
    OBVIOUS
  <2>4. queue \in Seq(Works) /\ executed \in Seq(Works) /\ callbacks \in Seq(Works)
    BY EmptySeq
  <2>5. pool \in Workers /\ opened \in 0 .. pool /\ closing \in Workers
    OBVIOUS
  <2>6. worker \in [Workers -> {"pop", "asleep", "check", "do", "ended"}] /\ holds \in [Workers -> Works \cup {0}]
    OBVIOUS
  <2>7. trying \in 1 .. Connections + 1 /\ linked \subseteq 1 .. Connections /\ query \in 0 .. Connections /\ queries \in 0 .. MaxQueries
    OBVIOUS
  <2>8. itr \in 0 .. MaxWorks + 1 /\ invoked \subseteq Works /\ issued \in 0 .. MaxWorks
    OBVIOUS
  <2> QED BY <2>1, <2>2, <2>3, <2>4, <2>5, <2>6, <2>7, <2>8 DEF TypeOK, AsyncTypeOK
<1>2. ClientInv
  BY DEF ClientInv
<1>3. WorksInv
  BY DEF WorksInv, InQueue, IsHeld, IsDone
<1>4. CallbacksInv
  BY DEF CallbacksInv
<1> QED BY <1>1, <1>2, <1>3, <1>4 DEF DatabaseInv

\* The steps of the client that leave the workers alone.
SyncStep == Open \/ LoadWorld \/ Abandon \/ Query \/ MainLoop \/ Close

asyncOnlyVars == <<pool, opened, queue, cancelled, worker, holds, closed, result, executed, issued,
                   callbacks, itr, invoked, closing>>

LEMMA SyncStepsKeep == SyncStep => UNCHANGED asyncOnlyVars
BY DEF SyncStep, Open, Connect, PrepareStatement, Opened, OpenFails, UndoOpen, LoadWorld, Abandon,
       Query, Wait, ExecuteQuery, MainLoop, Close, Goes, openVars, queueVars, workerVars, asyncOnlyVars

LEMMA AsyncTypesKept ==
    ASSUME AsyncTypeOK, UNCHANGED asyncOnlyVars, drained' \in BOOLEAN,
           client' \in {"connect", "opening", "opened", "loading", "running", "draining", "next",
                        "cancel", "join", "undo", "failed", "abandoned", "closed"}
    PROVE  AsyncTypeOK'
BY DEF AsyncTypeOK, asyncOnlyVars

LEMMA SyncStepTypes ==
    ASSUME DatabaseInv, SyncStep
    PROVE  TypeOK'
<1> USE DEF DatabaseInv, TypeOK, syncVars
<1>0. UNCHANGED asyncOnlyVars
  BY SyncStepsKeep
<1>1. AsyncTypeOK'
  <2>1. drained' \in BOOLEAN
    BY DEF AsyncTypeOK, SyncStep, Open, Connect, PrepareStatement, Opened, OpenFails, UndoOpen,
           LoadWorld, Abandon, Query, Wait, ExecuteQuery, MainLoop, Close
  <2>2. client' \in {"connect", "opening", "opened", "loading", "running", "draining", "next",
                     "cancel", "join", "undo", "failed", "abandoned", "closed"}
    BY DEF SyncStep, Open, Connect, PrepareStatement, Opened, OpenFails, UndoOpen,
           LoadWorld, Abandon, Query, Wait, ExecuteQuery, MainLoop, Close, Goes
  <2> QED BY <1>0, <2>1, <2>2, AsyncTypesKept
<1>2. CASE Connect
  BY <1>1, <1>2 DEF Connect, ClientInv
<1>3. CASE PrepareStatement
  BY <1>1, <1>3 DEF PrepareStatement, ClientInv
<1>4. CASE Opened
  BY <1>1, <1>4 DEF Opened, ClientInv
<1>5. CASE OpenFails
  BY <1>1, <1>5 DEF OpenFails, CloseStatements, ClientInv
<1>6. CASE UndoOpen
  BY <1>1, <1>6 DEF UndoOpen, CloseConnections, CloseStatements
<1>7. CASE LoadWorld \/ Abandon \/ MainLoop
  BY <1>1, <1>7 DEF LoadWorld, Abandon, MainLoop
<1>8. CASE Wait
  <2>1. PICK c \in 1 .. Connections : query' = c /\ working' = [working EXCEPT ![c] = TRUE]
    BY <1>8 DEF Wait
  <2>2. working' \in [1 .. Connections -> BOOLEAN]
    BY <2>1
  <2>3. query' \in 0 .. Connections /\ queries' \in 0 .. MaxQueries
    BY <2>1, <1>8 DEF Wait
  <2> QED BY <1>1, <1>8, <2>2, <2>3 DEF Wait
<1>9. CASE ExecuteQuery
  <2>1. working' \in [1 .. Connections -> BOOLEAN]
    BY <1>9 DEF ExecuteQuery
  <2>2. query' \in 0 .. Connections
    BY <1>9 DEF ExecuteQuery
  <2> QED BY <1>1, <1>9, <2>1, <2>2 DEF ExecuteQuery
<1>10. CASE Close
  BY <1>1, <1>10 DEF Close, CloseConnections, CloseStatements
<1> QED BY <1>2, <1>3, <1>4, <1>5, <1>6, <1>7, <1>8, <1>9, <1>10 DEF SyncStep, Open, Query

LEMMA SyncStepClient ==
    ASSUME DatabaseInv, SyncStep
    PROVE  ClientInv'
<1> USE DEF DatabaseInv, TypeOK, syncVars, ClientInv, Goes
<1>0. UNCHANGED asyncOnlyVars
  BY SyncStepsKeep
<1> USE DEF asyncOnlyVars
<1>2. CASE Connect
  BY <1>0, <1>2 DEF Connect
<1>3. CASE PrepareStatement
  BY <1>0, <1>3 DEF PrepareStatement
<1>4. CASE Opened
  BY <1>0, <1>4 DEF Opened, AsyncTypeOK
<1>5. CASE OpenFails
  BY <1>0, <1>5 DEF OpenFails, CloseStatements
<1>6. CASE UndoOpen
  BY <1>0, <1>6 DEF UndoOpen, CloseConnections, CloseStatements
<1>7. CASE LoadWorld \/ Abandon \/ MainLoop
  BY <1>0, <1>7 DEF LoadWorld, Abandon, MainLoop
<1>8. CASE Wait \/ ExecuteQuery
  BY <1>0, <1>8 DEF Wait, ExecuteQuery
<1>10. CASE Close
  <2>1. client' = "next" /\ client \in {"running", "draining"} /\ UNCHANGED <<pool, opened, worker, holds, closing>>
    BY <1>0, <1>10 DEF Close
  <2>2. linked' = {} /\ \A c \in 1 .. Connections : prepared'[c] = 0
    BY <1>10 DEF Close, CloseConnections, CloseStatements
  <2>3. opened = pool /\ closing = 1 /\ \A w \in Workers : w > opened => worker[w] = "ended" /\ holds[w] = 0
    BY <2>1
  <2>4. opened \in Workers
    BY <2>3 DEF AsyncTypeOK
  <2>5. closing' <= opened' /\ \A w \in Workers : ~(w < closing')
    BY <2>1, <2>3, <2>4
  <2> QED BY <2>1, <2>2, <2>3, <2>5
<1> QED BY <1>2, <1>3, <1>4, <1>5, <1>6, <1>7, <1>8, <1>10 DEF SyncStep, Open, Query

LEMMA SyncStepInv ==
    ASSUME DatabaseInv, SyncStep
    PROVE  DatabaseInv'
<1>1. UNCHANGED asyncOnlyVars
  BY SyncStepsKeep
<1>2. WorksInv'
  BY <1>1 DEF DatabaseInv, WorksInv, InQueue, IsHeld, IsDone, asyncOnlyVars
<1>3. CallbacksInv'
  <2>1. drained' => callbacks' = <<>> /\ client' \in {"next", "cancel", "join", "undo", "failed", "closed"}
    BY <1>1 DEF DatabaseInv, CallbacksInv, asyncOnlyVars, SyncStep, Open, Connect, PrepareStatement,
           Opened, OpenFails, UndoOpen, LoadWorld, Abandon, Query, Wait, ExecuteQuery, MainLoop, Close, Goes
  <2> QED BY <1>1, <2>1 DEF DatabaseInv, CallbacksInv, HasCallback, asyncOnlyVars
<1> QED BY <1>2, <1>3, SyncStepTypes, SyncStepClient DEF DatabaseInv

-----------------------------------------------------------------------------
(* The steps of the workers, and of the client with them.                  *)

LEMMA AsyncStepTypes ==
    ASSUME DatabaseInv, AsyncNext
    PROVE  AsyncTypeOK'
<1> USE DEF DatabaseInv, TypeOK, openVars, queueVars, workerVars, clientVars
<1>0. AsyncTypeOK /\ closing \in Nat /\ opened \in Nat /\ pool \in Nat /\ issued \in Nat
  BY DEF AsyncTypeOK
<1>1. CASE OpenWorker
  <2>1. opened' \in 0 .. pool /\ opened' \in Workers
    BY <1>0, <1>1 DEF OpenWorker, AsyncTypeOK, ClientInv
  <2>2. closed' \in [Workers -> BOOLEAN]
    BY <1>0, <1>1 DEF OpenWorker, AsyncTypeOK
  <2>3. worker' \in [Workers -> {"pop", "asleep", "check", "do", "ended"}]
    BY <1>0, <1>1 DEF OpenWorker, AsyncTypeOK, Wake
  <2>4. client' \in {"opened", "opening"}
    BY <1>1 DEF OpenWorker
  <2> QED BY <1>0, <1>1, <2>1, <2>2, <2>3, <2>4 DEF OpenWorker, AsyncTypeOK
<1>2. CASE OpenWorkerFails
  BY <1>0, <1>2 DEF OpenWorkerFails, AsyncTypeOK
<1>3. CASE ExecuteStatement
  <2>1. issued' \in 0 .. MaxWorks /\ issued' \in Works
    BY <1>0, <1>3 DEF ExecuteStatement, AsyncTypeOK
  <2>2. result' \in [1 .. issued' -> {"pending", "value", "error", "broken"}]
    BY <1>0, <1>3, AppendToFunction DEF ExecuteStatement, AsyncTypeOK
  <2>3. queue' \in Seq(Works) /\ callbacks' \in Seq(Works)
    BY <1>0, <1>3, <2>1, AppendElements DEF ExecuteStatement, AsyncTypeOK
  <2>4. worker' \in [Workers -> {"pop", "asleep", "check", "do", "ended"}]
    BY <1>0, <1>3 DEF ExecuteStatement, AsyncTypeOK, Wake
  <2> QED BY <1>0, <1>3, <2>1, <2>2, <2>3, <2>4 DEF ExecuteStatement, AsyncTypeOK
<1>4. CASE TryProccess
  BY <1>0, <1>4 DEF TryProccess, AsyncTypeOK
<1>5. CASE Invoke
  <2>1. itr \in 1 .. Len(callbacks) /\ callbacks' = RemoveAt(callbacks, itr)
    BY <1>5 DEF Invoke
  <2>2. callbacks' \in Seq(Works)
    BY <1>0, <2>1, RemoveAtProperties DEF AsyncTypeOK
  <2>3. callbacks[itr] \in Works
    BY <1>0, <2>1, ElementOfSeq DEF AsyncTypeOK
  <2>4. invoked' \subseteq Works
    BY <1>0, <1>5, <2>3 DEF Invoke, AsyncTypeOK
  <2> QED BY <1>0, <1>5, <2>2, <2>4 DEF Invoke, AsyncTypeOK
<1>6. CASE PassOver
  <2>1. itr \in 1 .. Len(callbacks) /\ Len(callbacks) \in Nat /\ Len(callbacks) <= MaxWorks
    BY <1>0, <1>6, LenProperties DEF PassOver, AsyncTypeOK, CallbacksInv
  <2>2. itr' \in 0 .. MaxWorks + 1
    BY <1>6, <2>1 DEF PassOver
  <2> QED BY <1>0, <1>6, <2>2 DEF PassOver, AsyncTypeOK
<1>7. CASE PassEnds
  BY <1>0, <1>7 DEF PassEnds, AsyncTypeOK
<1>8. CASE Drain
  BY <1>0, <1>8 DEF Drain, AsyncTypeOK
<1>9. CASE CloseWorker
  <2>1. closed' \in [Workers -> BOOLEAN]
    BY <1>0, <1>9 DEF CloseWorker, AsyncTypeOK
  <2> QED BY <1>0, <1>9, <2>1 DEF CloseWorker, AsyncTypeOK
<1>10. CASE Cancel
  <2>1. result' \in [1 .. issued -> {"pending", "value", "error", "broken"}]
    BY <1>0, <1>10 DEF Cancel, AsyncTypeOK
  <2>2. worker' \in [Workers -> {"pop", "asleep", "check", "do", "ended"}]
    BY <1>0, <1>10 DEF Cancel, AsyncTypeOK, Wake
  <2> QED BY <1>0, <1>10, <2>1, <2>2, EmptySeq DEF Cancel, AsyncTypeOK
<1>11. CASE JoinWorker
  <2>1. closing' \in Workers
    <3>1. closing \in Workers /\ opened \in 0 .. MaxWorkers
      BY <1>0, <1>11 DEF AsyncTypeOK
    <3>2. closing' = closing \/ (closing < opened /\ closing' = closing + 1)
      BY <1>11 DEF JoinWorker
    <3> QED BY <3>1, <3>2
  <2>2. client' \in {"next", "undo", "closed"}
    BY <1>11 DEF JoinWorker
  <2> QED BY <1>0, <1>11, <2>1, <2>2 DEF JoinWorker, AsyncTypeOK
<1>12. ASSUME NEW w \in Workers, WaitAndPop(w) PROVE AsyncTypeOK'
  <2>1. worker' \in [Workers -> {"pop", "asleep", "check", "do", "ended"}]
    BY <1>0, <1>12 DEF WaitAndPop, AsyncTypeOK
  <2>2. CASE ~cancelled /\ queue # <<>>
    <3>1. Head(queue) \in Works /\ Tail(queue) \in Seq(Works)
      BY <1>0, <2>2, HeadTailProperties DEF AsyncTypeOK
    <3>2. queue' \in Seq(Works) /\ holds' \in [Workers -> Works \cup {0}]
      <4>1. queue' = Tail(queue) /\ holds' = [holds EXCEPT ![w] = Head(queue)]
        BY <1>12, <2>2 DEF WaitAndPop
      <4>2. holds \in [Workers -> Works \cup {0}]
        BY <1>0 DEF AsyncTypeOK
      <4> QED BY <3>1, <4>1, <4>2
    <3> QED BY <1>0, <1>12, <2>1, <3>2 DEF WaitAndPop, AsyncTypeOK
  <2>3. CASE cancelled \/ queue = <<>>
    BY <1>0, <1>12, <2>1, <2>3 DEF WaitAndPop, AsyncTypeOK
  <2> QED BY <2>2, <2>3
<1>13. ASSUME NEW w \in Workers, CheckClosed(w) PROVE AsyncTypeOK'
  <2>1. worker' \in [Workers -> {"pop", "asleep", "check", "do", "ended"}]
    BY <1>0, <1>13 DEF CheckClosed, AsyncTypeOK
  <2> QED BY <1>0, <1>13, <2>1 DEF CheckClosed, AsyncTypeOK
<1>14. ASSUME NEW w \in Workers, NEW outcome \in {"value", "error"}, Do(w, outcome) PROVE AsyncTypeOK'
  <2>1. worker' \in [Workers -> {"pop", "asleep", "check", "do", "ended"}]
    BY <1>0, <1>14 DEF Do, AsyncTypeOK
  <2>2. holds' \in [Workers -> Works \cup {0}]
    BY <1>0, <1>14 DEF Do, AsyncTypeOK
  <2>3. result' \in [1 .. issued -> {"pending", "value", "error", "broken"}]
    BY <1>0, <1>14 DEF Do, AsyncTypeOK
  <2>4. holds[w] \in Works
    BY <1>0, <1>14 DEF Do, AsyncTypeOK, WorksInv
  <2>5. executed' \in Seq(Works)
    BY <1>0, <1>14, <2>4, AppendElements DEF Do, AsyncTypeOK
  <2> QED BY <1>0, <1>14, <2>1, <2>2, <2>3, <2>5 DEF Do, AsyncTypeOK
<1> QED BY <1>1, <1>2, <1>3, <1>4, <1>5, <1>6, <1>7, <1>8, <1>9, <1>10, <1>11, <1>12, <1>13, <1>14
        DEF AsyncNext, OpenWorkers, Process, CloseWorkers, Work

LEMMA AsyncStepClient ==
    ASSUME DatabaseInv, AsyncNext, UNCHANGED syncVars
    PROVE  ClientInv'
<1> USE DEF DatabaseInv, TypeOK, AsyncTypeOK, ClientInv, openVars, queueVars, workerVars, clientVars, syncVars
<1>1. CASE OpenWorker
  BY <1>1 DEF OpenWorker, Wake
<1>2. CASE OpenWorkerFails
  BY <1>2 DEF OpenWorkerFails
<1>3. CASE ExecuteStatement
  <2>1. client = "running" /\ UNCHANGED <<pool, opened, holds, client, closing, trying, linked, prepared>>
    BY <1>3 DEF ExecuteStatement
  <2>2. \A v \in Workers : worker[v] = "ended" => worker'[v] = "ended"
    <3>1. worker' = worker \/ \E w \in Asleep : Wake({w})
      BY <1>3 DEF ExecuteStatement
    <3>2. ASSUME NEW w \in Asleep, Wake({w}), NEW v \in Workers, worker[v] = "ended" PROVE worker'[v] = "ended"
      <4>1. v # w
        BY <3>2 DEF Asleep
      <4> QED BY <3>2, <4>1 DEF Wake
    <3> QED BY <3>1, <3>2
  <2> HIDE DEF TypeOK, AsyncTypeOK
  <2> QED BY <2>1, <2>2
<1>4. CASE TryProccess \/ PassOver \/ PassEnds
  <2>1. UNCHANGED <<pool, opened, worker, holds, client, closing>>
    BY <1>4 DEF TryProccess, PassOver, PassEnds
  <2> QED BY <2>1
<1>12. CASE Drain
  BY <1>12 DEF Drain
<1>11. CASE Invoke
  BY <1>11 DEF Invoke
<1>5. CASE CloseWorker
  BY <1>5 DEF CloseWorker
<1>6. CASE Cancel
  BY <1>6 DEF Cancel, Wake, Asleep
<1>7. CASE JoinWorker
  <2>0. client = "join" /\ worker[closing] = "ended"
    BY <1>7 DEF JoinWorker
  <2>1. /\ client = "join" /\ worker[closing] = "ended"
        /\ closing \in Workers /\ closing <= opened /\ opened <= pool /\ opened \in Nat /\ pool \in Nat
        /\ \A w \in Workers : w <= closing => worker[w] = "ended"
    <3>1. closing \in Workers /\ opened <= pool /\ opened \in Nat /\ pool \in Nat
      OBVIOUS
    <3>2. closing <= opened /\ \A w \in Workers : w < closing => worker[w] = "ended"
      BY <2>0
    <3>3. ASSUME NEW w \in Workers, w <= closing PROVE worker[w] = "ended"
      <4>1. w = closing \/ w < closing
        BY <3>1, <3>3
      <4> QED BY <2>0, <3>2, <4>1
    <3> QED BY <2>0, <3>1, <3>2, <3>3
  <2>2. UNCHANGED <<pool, opened, worker, holds, trying, linked, prepared>>
    BY <1>7 DEF JoinWorker
  <2>3. CASE closing < opened
    <3>1. client' = "next" /\ closing' = closing + 1
      BY <1>7, <2>3 DEF JoinWorker
    <3>2. \A w \in Workers : w < closing' => worker[w] = "ended"
      BY <2>1, <3>1
    <3> QED BY <2>1, <2>2, <2>3, <3>1, <3>2
  <2>4. CASE closing = opened
    <3>1. \A w \in Workers : worker[w] = "ended"
      BY <2>1, <2>4
    <3>2. CASE opened < pool
      <4>1. client' = "undo" /\ closing' = closing
        BY <1>7, <2>4, <3>2 DEF JoinWorker
      <4> QED BY <2>1, <2>2, <3>1, <4>1
    <3>3. CASE ~(opened < pool)
      <4>1. client' = "closed" /\ closing' = closing
        BY <1>7, <2>1, <2>4, <3>3 DEF JoinWorker
      <4>2. opened = pool
        BY <2>1, <3>3
      <4> QED BY <2>1, <2>2, <3>1, <4>1, <4>2
    <3> QED BY <3>2, <3>3
  <2> QED BY <2>1, <2>3, <2>4
<1>8. ASSUME NEW w \in Workers, WaitAndPop(w) PROVE ClientInv'
  <2>1. UNCHANGED <<pool, opened, client, closing, trying, linked, prepared>> /\ worker[w] = "pop"
    BY <1>8 DEF WaitAndPop
  <2>2. \A v \in Workers : v # w => worker'[v] = worker[v] /\ holds'[v] = holds[v]
    <3>1. \/ UNCHANGED holds /\ \E to \in {"ended", "asleep"} : worker' = [worker EXCEPT ![w] = to]
          \/ /\ worker' = [worker EXCEPT ![w] = "check"]
             /\ holds' = [holds EXCEPT ![w] = Head(queue)]
      BY <1>8 DEF WaitAndPop
    <3>2. DOMAIN worker = Workers /\ DOMAIN holds = Workers
      OBVIOUS
    <3> QED BY <3>1, <3>2
  <2>3. \A v \in Workers : worker[v] = "ended" => v # w
    BY <2>1
  <2>4. \A v \in Workers : worker[v] = "ended" => worker'[v] = "ended" /\ holds'[v] = holds[v]
    BY <2>2, <2>3
  <2> HIDE DEF TypeOK, AsyncTypeOK
  <2> QED BY <2>1, <2>4
<1>9. ASSUME NEW w \in Workers, CheckClosed(w) PROVE ClientInv'
  BY <1>9 DEF CheckClosed
<1>10. ASSUME NEW w \in Workers, NEW outcome \in {"value", "error"}, Do(w, outcome) PROVE ClientInv'
  BY <1>10 DEF Do
<1> QED BY <1>1, <1>2, <1>3, <1>4, <1>5, <1>6, <1>7, <1>8, <1>9, <1>10, <1>11, <1>12
        DEF AsyncNext, OpenWorkers, Process, CloseWorkers, Work

-----------------------------------------------------------------------------
(* Where the works are.                                                    *)

\* The part of WorksInv about the elements of the sequences and the hands of
\* the workers, and the part about the futures.
WorksApart ==
    /\ \A i \in 1 .. Len(queue) : queue[i] \in 1 .. issued
    /\ \A i \in 1 .. Len(executed) : executed[i] \in 1 .. issued
    /\ \A w \in Workers : holds[w] \in 0 .. issued
    /\ \A i, j \in 1 .. Len(queue) : queue[i] = queue[j] => i = j
    /\ \A i, j \in 1 .. Len(executed) : executed[i] = executed[j] => i = j
    /\ \A w, v \in Workers : holds[w] = holds[v] /\ holds[w] # 0 => w = v

WorkersHold ==
    /\ \A w \in Workers : worker[w] \in {"check", "do"} => holds[w] # 0
    /\ \A w \in Workers : worker[w] \in {"pop", "asleep"} => holds[w] = 0

FuturesTell ==
    \A k \in 1 .. issued :
        /\ InQueue(k) => result[k] = "pending" /\ ~IsHeld(k)
        /\ IsHeld(k) => result[k] = "pending"
        /\ IsDone(k) <=> result[k] \in {"value", "error"}
        /\ result[k] = "pending" => InQueue(k) \/ IsHeld(k)

LEMMA WorksInvParts == WorksInv <=> WorksApart /\ WorkersHold /\ FuturesTell
BY DEF WorksInv, WorksApart, WorkersHold, FuturesTell

LEMMA WorksInvPartsNext == WorksInv' <=> WorksApart' /\ WorkersHold' /\ FuturesTell'
BY DEF WorksInv, WorksApart, WorkersHold, FuturesTell

\* Steps that leave the works where they are.
LEMMA WorksKept ==
    ASSUME WorksInv, UNCHANGED <<queue, executed, holds, issued, result, worker>>
    PROVE  WorksInv'
BY DEF WorksInv, InQueue, IsHeld, IsDone

LEMMA OpenWorkerWorks ==
    ASSUME DatabaseInv, OpenWorker
    PROVE  WorksInv'
<1> USE DEF DatabaseInv, TypeOK, AsyncTypeOK, openVars, queueVars, OpenWorker
<1>1. UNCHANGED <<queue, executed, holds, issued, result>>
  OBVIOUS
<1>2. WorksApart /\ WorkersHold /\ FuturesTell
  BY WorksInvParts
<1>3. WorksApart' /\ FuturesTell'
  BY <1>1, <1>2 DEF WorksApart, FuturesTell, InQueue, IsHeld, IsDone
<1>4. opened' = opened + 1 /\ opened' \in Workers /\ holds[opened'] = 0
  BY DEF ClientInv
<1>5. \A w \in Workers : worker'[w] = IF w = opened' THEN "pop" ELSE worker[w]
  BY DEF Wake
<1>6. WorkersHold'
  BY <1>1, <1>2, <1>4, <1>5 DEF WorkersHold
<1> QED BY <1>3, <1>6, WorksInvPartsNext

LEMMA FutureIssued ==
    ASSUME DatabaseInv, ExecuteStatement
    PROVE  (\A k \in 1 .. issued : result'[k] = result[k]) /\ result'[issued'] = "pending"
<1>1. PICK S : S = {"pending", "value", "error", "broken"}
  OBVIOUS
<1>2. issued \in Nat /\ result \in [1 .. issued -> S] /\ "pending" \in S
  BY <1>1 DEF DatabaseInv, TypeOK, AsyncTypeOK
<1>3. result' = Append(result, "pending") /\ issued' = issued + 1
  BY DEF ExecuteStatement
<1>4. /\ \A k \in 1 .. issued : Append(result, "pending")[k] = result[k]
      /\ Append(result, "pending")[issued + 1] = "pending"
  BY <1>2, AppendToFunction
<1> QED BY <1>3, <1>4

LEMMA ExecuteStatementWorks ==
    ASSUME DatabaseInv, ExecuteStatement
    PROVE  WorksInv'
<1> USE DEF DatabaseInv, TypeOK
<1>1. /\ issued \in Nat /\ issued' = issued + 1
      /\ queue \in Seq(Works) /\ result \in [1 .. issued -> {"pending", "value", "error", "broken"}]
      /\ issued' \in Works
      /\ queue' = Append(queue, issued') /\ result' = Append(result, "pending")
      /\ holds' = holds /\ executed' = executed
  BY DEF ExecuteStatement, AsyncTypeOK
<1>2. WorksApart /\ WorkersHold /\ FuturesTell
  BY WorksInvParts
<1>3. /\ Len(queue) \in Nat /\ Len(queue') = Len(queue) + 1
      /\ \A i \in 1 .. Len(queue) : queue'[i] = queue[i]
      /\ queue'[Len(queue) + 1] = issued'
  BY <1>1, AppendElements, LenProperties
<1>4. (\A k \in 1 .. issued : result'[k] = result[k]) /\ result'[issued'] = "pending"
  BY FutureIssued
<1>5. WorksApart'
  <2>1. \A i \in 1 .. Len(queue') : queue'[i] \in 1 .. issued'
    BY <1>1, <1>2, <1>3 DEF WorksApart
  <2>2. \A i, j \in 1 .. Len(queue') : queue'[i] = queue'[j] => i = j
    <3>1. \A i \in 1 .. Len(queue) : queue[i] # issued'
      BY <1>1, <1>2 DEF WorksApart
    <3>2. \A i, j \in 1 .. Len(queue) : queue[i] = queue[j] => i = j
      BY <1>2 DEF WorksApart
    <3> QED BY <1>1, <3>1, <3>2, AppendNewElement
  <2>3. /\ \A i \in 1 .. Len(executed) : executed[i] \in 1 .. issued'
        /\ \A w \in Workers : holds[w] \in 0 .. issued'
    BY <1>1, <1>2 DEF WorksApart
  <2> QED BY <1>1, <1>2, <2>1, <2>2, <2>3 DEF WorksApart
<1>6. WorkersHold'
  <2>1. \A w \in Workers : worker'[w] = worker[w] \/ (worker[w] = "asleep" /\ worker'[w] = "pop")
    BY DEF ExecuteStatement, AsyncTypeOK, Asleep, Wake
  <2> QED BY <1>1, <1>2, <2>1 DEF WorkersHold
<1>7. FuturesTell'
  <2> SUFFICES ASSUME NEW k \in 1 .. issued'
               PROVE  /\ InQueue(k)' => result'[k] = "pending" /\ ~IsHeld(k)'
                      /\ IsHeld(k)' => result'[k] = "pending"
                      /\ IsDone(k)' <=> result'[k] \in {"value", "error"}
                      /\ result'[k] = "pending" => InQueue(k)' \/ IsHeld(k)'
    BY DEF FuturesTell
  <2>1. (IsHeld(k)' <=> IsHeld(k)) /\ (IsDone(k)' <=> IsDone(k))
    BY <1>1 DEF IsHeld, IsDone
  <2>2. CASE k = issued'
    <3>1. ~IsHeld(k) /\ ~IsDone(k)
      BY <1>1, <1>2, <2>2 DEF WorksApart, IsHeld, IsDone
    <3>2. InQueue(k)'
      BY <1>3, <2>2 DEF InQueue
    <3> QED BY <1>4, <2>1, <2>2, <3>1, <3>2
  <2>3. CASE k \in 1 .. issued
    <3>1. InQueue(k)' <=> InQueue(k)
      BY <1>1, <1>3, <2>3 DEF InQueue
    <3> QED BY <1>2, <1>4, <2>1, <2>3, <3>1 DEF FuturesTell
  <2> QED BY <1>1, <2>2, <2>3
<1> QED BY <1>5, <1>6, <1>7, WorksInvPartsNext

LEMMA CancelWorks ==
    ASSUME DatabaseInv, Cancel
    PROVE  WorksInv'
<1> USE DEF DatabaseInv, TypeOK
<1>1. /\ queue \in Seq(Works) /\ queue' = <<>> /\ issued' = issued /\ issued \in Nat
      /\ result' = [k \in 1 .. issued |-> IF Contains(queue, k) THEN "broken" ELSE result[k]]
      /\ holds' = holds /\ executed' = executed
  BY DEF Cancel, AsyncTypeOK
<1>2. WorksApart /\ WorkersHold /\ FuturesTell
  BY WorksInvParts
<1>3. Len(queue') = 0
  BY <1>1
<1>4. WorksApart'
  BY <1>1, <1>2, <1>3 DEF WorksApart
<1>5. WorkersHold'
  <2>1. \A w \in Workers : worker'[w] = worker[w] \/ (worker[w] = "asleep" /\ worker'[w] = "pop")
    BY DEF Cancel, AsyncTypeOK, Asleep, Wake
  <2> QED BY <1>1, <1>2, <2>1 DEF WorkersHold
<1>6. FuturesTell'
  <2> SUFFICES ASSUME NEW k \in 1 .. issued
               PROVE  /\ InQueue(k)' => result'[k] = "pending" /\ ~IsHeld(k)'
                      /\ IsHeld(k)' => result'[k] = "pending"
                      /\ IsDone(k)' <=> result'[k] \in {"value", "error"}
                      /\ result'[k] = "pending" => InQueue(k)' \/ IsHeld(k)'
    BY <1>1 DEF FuturesTell
  <2>1. (IsHeld(k)' <=> IsHeld(k)) /\ (IsDone(k)' <=> IsDone(k)) /\ ~InQueue(k)'
    BY <1>1, <1>3 DEF IsHeld, IsDone, InQueue
  <2>2. Contains(queue, k) <=> InQueue(k)
    BY DEF Contains, InQueue
  <2>3. result'[k] = IF InQueue(k) THEN "broken" ELSE result[k]
    BY <1>1, <2>2
  <2> QED BY <1>2, <2>1, <2>3 DEF FuturesTell
<1> QED BY <1>4, <1>5, <1>6, WorksInvPartsNext

LEMMA WaitAndPopWorks ==
    ASSUME DatabaseInv, NEW w \in Workers, WaitAndPop(w)
    PROVE  WorksInv'
<1> USE DEF DatabaseInv, TypeOK
<1>1. /\ worker \in [Workers -> {"pop", "asleep", "check", "do", "ended"}]
      /\ holds \in [Workers -> Works \cup {0}] /\ queue \in Seq(Works)
      /\ worker[w] = "pop" /\ executed' = executed /\ issued' = issued /\ result' = result
      /\ issued \in Nat
  BY DEF WaitAndPop, AsyncTypeOK, clientVars
<1>2. WorksApart /\ WorkersHold /\ FuturesTell
  BY WorksInvParts
<1>3. CASE cancelled \/ queue = <<>>
  <2>1. UNCHANGED <<queue, holds>> /\ \E to \in {"ended", "asleep"} : worker' = [worker EXCEPT ![w] = to]
    BY <1>3 DEF WaitAndPop
  <2>2. WorksApart' /\ FuturesTell'
    BY <1>1, <1>2, <2>1 DEF WorksApart, FuturesTell, InQueue, IsHeld, IsDone
  <2>3. WorkersHold'
    BY <1>1, <1>2, <2>1 DEF WorkersHold
  <2> QED BY <2>2, <2>3, WorksInvPartsNext
<1>4. CASE ~cancelled /\ queue # <<>>
  <2>1. /\ worker' = [worker EXCEPT ![w] = "check"]
        /\ holds' = [holds EXCEPT ![w] = Head(queue)]
        /\ queue' = Tail(queue)
    BY <1>4 DEF WaitAndPop
  <2>2. /\ Len(queue) \in Nat \ {0} /\ Len(queue') = Len(queue) - 1
        /\ \A i \in 1 .. Len(queue') : queue'[i] = queue[i + 1]
        /\ Head(queue) = queue[1]
    BY <1>1, <1>4, <2>1, HeadTailProperties, EmptySeq
  <2>3. queue[1] \in 1 .. issued /\ holds[w] = 0
    BY <1>1, <1>2, <2>2 DEF WorksApart, WorkersHold
  <2>4. \A v \in Workers : holds'[v] = IF v = w THEN queue[1] ELSE holds[v]
    BY <1>1, <2>1, <2>2
  <2>5. InQueue(queue[1])
    BY <2>2 DEF InQueue
  <2>6. result[queue[1]] = "pending" /\ \A v \in Workers : holds[v] # queue[1]
    BY <1>2, <2>3, <2>5 DEF FuturesTell, IsHeld
  <2>7. WorksApart'
    <3>1. \A i \in 1 .. Len(queue') : i + 1 \in 1 .. Len(queue) /\ queue'[i] = queue[i + 1]
      <4> TAKE i \in 1 .. Len(queue')
      <4>1. queue'[i] = queue[i + 1]
        BY <2>2
      <4>2. i + 1 \in 1 .. Len(queue)
        BY <2>2
      <4> QED BY <4>1, <4>2
    <3>2. \A i \in 1 .. Len(queue') : queue'[i] \in 1 .. issued
      BY <1>2, <3>1 DEF WorksApart
    <3>3. \A i, j \in 1 .. Len(queue') : queue'[i] = queue'[j] => i = j
      <4> TAKE i, j \in 1 .. Len(queue')
      <4> HAVE queue'[i] = queue'[j]
      <4>1. i + 1 = j + 1
        BY <1>2, <3>1 DEF WorksApart
      <4> QED BY <4>1, <2>2
    <3>4. \A v, u \in Workers : holds'[v] = holds'[u] /\ holds'[v] # 0 => v = u
      BY <1>2, <2>3, <2>4, <2>6 DEF WorksApart
    <3>5. \A v \in Workers : holds'[v] \in 0 .. issued
      <4>1. \A v \in Workers : holds[v] \in 0 .. issued
        BY <1>2 DEF WorksApart
      <4>2. queue[1] \in 0 .. issued
        BY <1>1, <2>3
      <4> QED BY <2>4, <4>1, <4>2
    <3> QED BY <1>1, <1>2, <3>2, <3>3, <3>4, <3>5 DEF WorksApart
  <2>8. WorkersHold'
    <3>1. \A v \in Workers : worker'[v] = IF v = w THEN "check" ELSE worker[v]
      BY <1>1, <2>1
    <3>2. holds'[w] # 0 /\ \A v \in Workers : v # w => holds'[v] = holds[v]
      BY <1>1, <2>3, <2>4
    <3> QED BY <1>2, <3>1, <3>2 DEF WorkersHold
  <2>9. FuturesTell'
    <3> SUFFICES ASSUME NEW k \in 1 .. issued
                 PROVE  /\ InQueue(k)' => result[k] = "pending" /\ ~IsHeld(k)'
                        /\ IsHeld(k)' => result[k] = "pending"
                        /\ IsDone(k)' <=> result[k] \in {"value", "error"}
                        /\ result[k] = "pending" => InQueue(k)' \/ IsHeld(k)'
      BY <1>1 DEF FuturesTell
    <3>1. IsDone(k)' <=> IsDone(k)
      BY <1>1 DEF IsDone
    <3>2. IsHeld(k)' <=> IsHeld(k) \/ k = queue[1]
      BY <2>3, <2>4 DEF IsHeld
    <3>3. InQueue(k)' <=> InQueue(k) /\ k # queue[1]
      <4>1. ASSUME InQueue(k)' PROVE InQueue(k) /\ k # queue[1]
        <5>1. PICK i \in 1 .. Len(queue') : queue'[i] = k
          BY <4>1 DEF InQueue
        <5>2. i + 1 \in 1 .. Len(queue) /\ queue[i + 1] = k /\ i + 1 # 1 /\ 1 \in 1 .. Len(queue)
          BY <2>2, <5>1
        <5>3. k # queue[1]
          BY <1>2, <5>2 DEF WorksApart
        <5> QED BY <5>2, <5>3 DEF InQueue
      <4>2. ASSUME InQueue(k), k # queue[1] PROVE InQueue(k)'
        <5>1. PICK i \in 1 .. Len(queue) : queue[i] = k
          BY <4>2 DEF InQueue
        <5>2. i - 1 \in 1 .. Len(queue') /\ (i - 1) + 1 = i
          BY <2>2, <4>2, <5>1
        <5>3. queue'[i - 1] = k
          BY <2>2, <5>1, <5>2
        <5> QED BY <5>2, <5>3 DEF InQueue
      <4> QED BY <4>1, <4>2
    <3> QED BY <1>2, <2>6, <3>1, <3>2, <3>3 DEF FuturesTell
  <2> QED BY <2>7, <2>8, <2>9, WorksInvPartsNext
<1> QED BY <1>3, <1>4

LEMMA CheckClosedWorks ==
    ASSUME DatabaseInv, NEW w \in Workers, CheckClosed(w)
    PROVE  WorksInv'
<1> USE DEF DatabaseInv, TypeOK
<1>1. WorksApart /\ WorkersHold /\ FuturesTell
  BY WorksInvParts
<1>2. UNCHANGED <<queue, executed, holds, issued, result>>
  BY DEF CheckClosed, queueVars, clientVars
<1>3. WorksApart' /\ FuturesTell'
  BY <1>1, <1>2 DEF WorksApart, FuturesTell, InQueue, IsHeld, IsDone
<1>4. WorkersHold'
  BY <1>1, <1>2 DEF WorkersHold, CheckClosed, AsyncTypeOK
<1> QED BY <1>3, <1>4, WorksInvPartsNext

LEMMA DoWorks ==
    ASSUME DatabaseInv, NEW w \in Workers, NEW outcome \in {"value", "error"}, Do(w, outcome)
    PROVE  WorksInv'
<1> USE DEF DatabaseInv, TypeOK
<1>1. /\ worker \in [Workers -> {"pop", "asleep", "check", "do", "ended"}]
      /\ holds \in [Workers -> Works \cup {0}] /\ executed \in Seq(Works)
      /\ worker[w] = "do" /\ worker' = [worker EXCEPT ![w] = "pop"]
      /\ queue' = queue /\ issued' = issued /\ issued \in Nat
      /\ result \in [1 .. issued -> {"pending", "value", "error", "broken"}]
      /\ result' = [result EXCEPT ![holds[w]] = outcome]
      /\ executed' = Append(executed, holds[w])
      /\ holds' = [holds EXCEPT ![w] = 0]
  BY DEF Do, AsyncTypeOK, queueVars, clientVars
<1>2. WorksApart /\ WorkersHold /\ FuturesTell
  BY WorksInvParts
<1>3. holds[w] \in 1 .. issued /\ holds[w] \in Works /\ IsHeld(holds[w])
  BY <1>1, <1>2 DEF WorksApart, WorkersHold, IsHeld
<1>4. result[holds[w]] = "pending" /\ ~InQueue(holds[w]) /\ ~IsDone(holds[w])
  BY <1>2, <1>3 DEF FuturesTell
<1>5. /\ Len(executed) \in Nat /\ Len(executed') = Len(executed) + 1
      /\ \A i \in 1 .. Len(executed) : executed'[i] = executed[i]
      /\ executed'[Len(executed) + 1] = holds[w]
  BY <1>1, <1>3, AppendElements, LenProperties
<1>6. \A v \in Workers : holds'[v] = IF v = w THEN 0 ELSE holds[v]
  BY <1>1
<1>7. WorksApart'
  <2>1. \A i \in 1 .. Len(executed') : executed'[i] \in 1 .. issued
    <3> TAKE i \in 1 .. Len(executed')
    <3>1. CASE i = Len(executed) + 1
      BY <1>3, <1>5, <3>1
    <3>2. CASE i \in 1 .. Len(executed)
      BY <1>2, <1>5, <3>2 DEF WorksApart
    <3> QED BY <1>5, <3>1, <3>2
  <2>2. \A i, j \in 1 .. Len(executed') : executed'[i] = executed'[j] => i = j
    <3>1. \A i \in 1 .. Len(executed) : executed[i] # holds[w]
      BY <1>4 DEF IsDone
    <3>2. \A i, j \in 1 .. Len(executed) : executed[i] = executed[j] => i = j
      BY <1>2 DEF WorksApart
    <3>3. executed \in Seq(Works) /\ holds[w] \in Works
      BY <1>1, <1>3
    <3>4. \A i, j \in 1 .. Len(Append(executed, holds[w])) :
              Append(executed, holds[w])[i] = Append(executed, holds[w])[j] => i = j
      BY <3>1, <3>2, <3>3, AppendNewElement
    <3> QED BY <1>1, <3>4
  <2>3. \A v, u \in Workers : holds'[v] = holds'[u] /\ holds'[v] # 0 => v = u
    BY <1>2, <1>6 DEF WorksApart
  <2>4. \A v \in Workers : holds'[v] \in 0 .. issued
    BY <1>1, <1>2, <1>6 DEF WorksApart
  <2> QED BY <1>1, <1>2, <2>1, <2>2, <2>3, <2>4 DEF WorksApart
<1>8. WorkersHold'
  BY <1>1, <1>2, <1>6 DEF WorkersHold
<1>9. FuturesTell'
  <2> SUFFICES ASSUME NEW k \in 1 .. issued
               PROVE  /\ InQueue(k)' => result'[k] = "pending" /\ ~IsHeld(k)'
                      /\ IsHeld(k)' => result'[k] = "pending"
                      /\ IsDone(k)' <=> result'[k] \in {"value", "error"}
                      /\ result'[k] = "pending" => InQueue(k)' \/ IsHeld(k)'
    BY <1>1 DEF FuturesTell
  <2>1. result'[k] = IF k = holds[w] THEN outcome ELSE result[k]
    BY <1>1
  <2>2. InQueue(k)' <=> InQueue(k)
    BY <1>1 DEF InQueue
  <2>3. IsHeld(k)' <=> IsHeld(k) /\ k # holds[w]
    <3>1. \A v \in Workers : holds[v] = holds[w] => v = w
      BY <1>2, <1>3 DEF WorksApart
    <3>2. k # 0
      BY <1>1
    <3> QED BY <1>6, <3>1, <3>2 DEF IsHeld
  <2>4. IsDone(k)' <=> IsDone(k) \/ k = holds[w]
    <3>1. \A i \in 1 .. Len(executed') : i \in 1 .. Len(executed) \/ i = Len(executed) + 1
      BY <1>5
    <3>2. \A i \in 1 .. Len(executed) + 1 : i \in 1 .. Len(executed')
      BY <1>5
    <3>3. Len(executed) + 1 \in 1 .. Len(executed) + 1 /\ 1 .. Len(executed) \subseteq 1 .. Len(executed) + 1
      BY <1>5
    <3>4. ASSUME IsDone(k)' PROVE IsDone(k) \/ k = holds[w]
      <4>1. PICK i \in 1 .. Len(executed') : executed'[i] = k
        BY <3>4 DEF IsDone
      <4> QED BY <1>5, <3>1, <4>1 DEF IsDone
    <3>5. ASSUME IsDone(k) PROVE IsDone(k)'
      <4>1. PICK i \in 1 .. Len(executed) : executed[i] = k
        BY <3>5 DEF IsDone
      <4> QED BY <1>5, <3>2, <3>3, <4>1 DEF IsDone
    <3>6. ASSUME k = holds[w] PROVE IsDone(k)'
      BY <1>5, <3>2, <3>3, <3>6 DEF IsDone
    <3> QED BY <3>4, <3>5, <3>6
  <2>5. CASE k = holds[w]
    BY <1>4, <2>1, <2>2, <2>3, <2>4, <2>5
  <2>6. CASE k # holds[w]
    BY <1>2, <2>1, <2>2, <2>3, <2>4, <2>6 DEF FuturesTell
  <2> QED BY <2>5, <2>6
<1> QED BY <1>7, <1>8, <1>9, WorksInvPartsNext

LEMMA AsyncStepWorks ==
    ASSUME DatabaseInv, AsyncNext
    PROVE  WorksInv'
<1>1. CASE OpenWorkerFails \/ Process \/ Drain \/ CloseWorker \/ JoinWorker
  <2>1. UNCHANGED <<queue, executed, holds, issued, result, worker>>
    BY <1>1 DEF OpenWorkerFails, Process, TryProccess, Invoke, PassOver, PassEnds, Drain, CloseWorker,
                JoinWorker, queueVars, workerVars
  <2> QED BY <2>1, WorksKept DEF DatabaseInv
<1> QED BY <1>1, OpenWorkerWorks, ExecuteStatementWorks, CancelWorks, WaitAndPopWorks, CheckClosedWorks,
           DoWorks DEF AsyncNext, OpenWorkers, CloseWorkers, Work

-----------------------------------------------------------------------------
(* The callbacks.                                                          *)

\* CallbacksInv, the futures apart.
CallbacksApart ==
    /\ Len(callbacks) <= issued
    /\ \A i \in 1 .. Len(callbacks) : callbacks[i] \in 1 .. issued
    /\ \A i, j \in 1 .. Len(callbacks) : callbacks[i] = callbacks[j] => i = j

Collected(k) == result[k] = "error" \/ (result[k] = "value" /\ k \in invoked)

DrainedInv ==
    drained => callbacks = <<>> /\ client \in {"next", "cancel", "join", "undo", "failed", "closed"}

LEMMA CallbacksInvParts ==
    /\ CallbacksInv <=>
        CallbacksApart /\ (\A k \in 1 .. issued : HasCallback(k) \/ Collected(k)) /\ DrainedInv
    /\ CallbacksInv' <=>
        CallbacksApart' /\ (\A k \in 1 .. issued' : HasCallback(k)' \/ Collected(k)') /\ DrainedInv'
BY DEF CallbacksInv, CallbacksApart, Collected, DrainedInv

\* Who drained has nothing to collect and issues nothing.
LEMMA AsyncStepDrained ==
    ASSUME DatabaseInv, AsyncNext
    PROVE  DrainedInv'
<1> USE DEF DatabaseInv, CallbacksInv, DrainedInv, openVars, queueVars, workerVars, clientVars
<1>1. CASE OpenWorker \/ OpenWorkerFails \/ ExecuteStatement \/ TryProccess \/ Drain
  BY <1>1 DEF OpenWorker, OpenWorkerFails, ExecuteStatement, TryProccess, Drain
<1>2. CASE Invoke
  <2>1. Len(callbacks) # 0
    BY <1>2 DEF Invoke, TypeOK, AsyncTypeOK
  <2> QED BY <1>2, <2>1 DEF Invoke
<1>3. CASE PassOver \/ PassEnds \/ CloseWorker \/ Cancel \/ JoinWorker
  BY <1>3 DEF PassOver, PassEnds, CloseWorker, Cancel, JoinWorker
<1>4. ASSUME NEW w \in Workers, Work(w) PROVE DrainedInv'
  BY <1>4 DEF Work, WaitAndPop, CheckClosed, Do
<1> QED BY <1>1, <1>2, <1>3, <1>4 DEF AsyncNext, OpenWorkers, Process, CloseWorkers

LEMMA ExecuteStatementCallbacks ==
    ASSUME DatabaseInv, ExecuteStatement
    PROVE  CallbacksApart' /\ \A k \in 1 .. issued' : HasCallback(k)' \/ Collected(k)'
<1> USE DEF DatabaseInv, TypeOK
<1>1. /\ issued \in Nat /\ issued' = issued + 1 /\ issued' \in Works
      /\ callbacks \in Seq(Works) /\ result \in [1 .. issued -> {"pending", "value", "error", "broken"}]
      /\ result' = Append(result, "pending") /\ callbacks' = Append(callbacks, issued')
      /\ invoked' = invoked
  BY DEF ExecuteStatement, AsyncTypeOK
<1>2. CallbacksApart /\ \A k \in 1 .. issued : HasCallback(k) \/ Collected(k)
  BY CallbacksInvParts
<1>3. /\ Len(callbacks) \in Nat /\ Len(callbacks') = Len(callbacks) + 1
      /\ \A i \in 1 .. Len(callbacks) : callbacks'[i] = callbacks[i]
      /\ callbacks'[Len(callbacks) + 1] = issued'
  BY <1>1, AppendElements, LenProperties
<1>4. \A k \in 1 .. issued : result'[k] = result[k]
  BY FutureIssued
<1>5. CallbacksApart'
  <2>1. \A i \in 1 .. Len(callbacks) : callbacks[i] # issued'
    BY <1>1, <1>2 DEF CallbacksApart
  <2>2. \A i, j \in 1 .. Len(callbacks') : callbacks'[i] = callbacks'[j] => i = j
    <3>1. callbacks \in Seq(Works) /\ issued' \in Works /\ callbacks' = Append(callbacks, issued')
      BY <1>1
    <3>2. \A i, j \in 1 .. Len(callbacks) : callbacks[i] = callbacks[j] => i = j
      BY <1>2 DEF CallbacksApart
    <3>3. PICK k : k = issued'
      OBVIOUS
    <3>4. \A i, j \in 1 .. Len(Append(callbacks, k)) : Append(callbacks, k)[i] = Append(callbacks, k)[j] => i = j
      BY <2>1, <3>1, <3>2, <3>3, AppendNewElement
    <3> QED BY <3>1, <3>3, <3>4
  <2>3. \A i \in 1 .. Len(callbacks') : callbacks'[i] \in 1 .. issued'
    <3> TAKE i \in 1 .. Len(callbacks')
    <3>1. CASE i = Len(callbacks) + 1
      BY <1>1, <1>3, <3>1
    <3>2. CASE i \in 1 .. Len(callbacks)
      BY <1>1, <1>2, <1>3, <3>2 DEF CallbacksApart
    <3> QED BY <1>3, <3>1, <3>2
  <2>4. Len(callbacks') <= issued'
    BY <1>1, <1>2, <1>3 DEF CallbacksApart
  <2> QED BY <2>2, <2>3, <2>4 DEF CallbacksApart
<1>6. ASSUME NEW k \in 1 .. issued' PROVE HasCallback(k)' \/ Collected(k)'
  <2>1. CASE k = issued'
    BY <1>3, <2>1 DEF HasCallback
  <2>2. CASE k \in 1 .. issued
    <3>1. HasCallback(k) => HasCallback(k)'
      BY <1>3 DEF HasCallback
    <3>2. Collected(k) => Collected(k)'
      BY <1>1, <1>4, <2>2 DEF Collected
    <3> QED BY <1>2, <2>2, <3>1, <3>2
  <2> QED BY <1>1, <2>1, <2>2
<1> QED BY <1>5, <1>6

LEMMA InvokeCallbacks ==
    ASSUME DatabaseInv, Invoke
    PROVE  CallbacksApart' /\ \A k \in 1 .. issued' : HasCallback(k)' \/ Collected(k)'
<1> USE DEF DatabaseInv, TypeOK
<1>1. /\ issued \in Nat /\ issued' = issued /\ result' = result
      /\ callbacks \in Seq(Works) /\ itr \in 1 .. Len(callbacks)
      /\ callbacks' = RemoveAt(callbacks, itr)
      /\ result[callbacks[itr]] \in {"value", "error"}
      /\ invoked' = IF result[callbacks[itr]] = "value" THEN invoked \cup {callbacks[itr]} ELSE invoked
  BY DEF Invoke, AsyncTypeOK, IsReady, openVars, queueVars, workerVars
<1>2. CallbacksApart /\ \A k \in 1 .. issued : HasCallback(k) \/ Collected(k)
  BY CallbacksInvParts
<1>3. /\ Len(callbacks) \in Nat /\ Len(callbacks') = Len(callbacks) - 1
      /\ \A i \in 1 .. Len(callbacks) - 1 :
            callbacks'[i] = IF i < itr THEN callbacks[i] ELSE callbacks[i + 1]
  BY <1>1, RemoveAtProperties, LenProperties
<1>4. CallbacksApart'
  <2> DEFINE from(i) == IF i < itr THEN i ELSE i + 1
  <2>1. \A i \in 1 .. Len(callbacks') :
            from(i) \in 1 .. Len(callbacks) /\ callbacks'[i] = callbacks[from(i)]
    <3> TAKE i \in 1 .. Len(callbacks')
    <3>1. i \in 1 .. Len(callbacks) - 1 /\ itr \in Nat
      BY <1>1, <1>3
    <3>2. CASE i < itr
      <4>1. i \in 1 .. Len(callbacks) /\ from(i) = i
        BY <1>1, <1>3, <3>1, <3>2
      <4> QED BY <1>3, <3>1, <3>2, <4>1
    <3>3. CASE ~(i < itr)
      BY <1>3, <3>1, <3>3
    <3> QED BY <3>2, <3>3
  <2>2. \A i, j \in 1 .. Len(callbacks') : from(i) = from(j) => i = j
    <3>1. itr \in Nat /\ \A i \in 1 .. Len(callbacks') : i \in Nat
      BY <1>1, <1>3
    <3> QED BY <3>1
  <2> HIDE DEF from
  <2>3. \A i, j \in 1 .. Len(callbacks') : callbacks'[i] = callbacks'[j] => i = j
    BY <1>2, <2>1, <2>2 DEF CallbacksApart
  <2>4. \A i \in 1 .. Len(callbacks') : callbacks'[i] \in 1 .. issued
    BY <1>2, <2>1 DEF CallbacksApart
  <2> QED BY <1>1, <1>2, <1>3, <2>3, <2>4 DEF CallbacksApart
<1>5. ASSUME NEW k \in 1 .. issued PROVE HasCallback(k)' \/ Collected(k)'
  <2>1. Collected(k) => Collected(k)'
    BY <1>1 DEF Collected
  <2>2. CASE k = callbacks[itr]
    BY <1>1, <2>2 DEF Collected
  <2>3. ASSUME HasCallback(k), k # callbacks[itr] PROVE HasCallback(k)'
    <3>1. PICK i \in 1 .. Len(callbacks) : callbacks[i] = k
      BY <2>3 DEF HasCallback
    <3>2. CASE i < itr
      <4>1. i \in 1 .. Len(callbacks')
        BY <1>1, <1>3, <3>2
      <4>2. callbacks'[i] = k
        BY <1>3, <3>1, <3>2, <4>1
      <4> QED BY <4>1, <4>2 DEF HasCallback
    <3>3. CASE i > itr
      <4>1. i - 1 \in 1 .. Len(callbacks') /\ ~(i - 1 < itr) /\ (i - 1) + 1 = i
        BY <1>1, <1>3, <3>3
      <4>2. callbacks'[i - 1] = k
        BY <1>3, <3>1, <4>1
      <4> QED BY <4>1, <4>2 DEF HasCallback
    <3>4. i # itr
      BY <2>3, <3>1
    <3> QED BY <1>1, <3>2, <3>3, <3>4
  <2> QED BY <1>2, <2>1, <2>2, <2>3
<1> QED BY <1>1, <1>4, <1>5

\* Steps that touch futures only: a future that is no error and no value that
\* was passed on has its callback before and after.
LEMMA FutureCallbacks ==
    ASSUME DatabaseInv, UNCHANGED <<callbacks, issued, invoked>>,
           \A k \in 1 .. issued : result[k] \in {"value", "error"} => result'[k] = result[k]
    PROVE  CallbacksApart' /\ \A k \in 1 .. issued' : HasCallback(k)' \/ Collected(k)'
<1>1. CallbacksApart /\ \A k \in 1 .. issued : HasCallback(k) \/ Collected(k)
  BY CallbacksInvParts DEF DatabaseInv
<1>2. CallbacksApart'
  BY <1>1 DEF CallbacksApart
<1>3. ASSUME NEW k \in 1 .. issued PROVE HasCallback(k)' \/ Collected(k)'
  BY <1>1, <1>3 DEF HasCallback, Collected
<1> QED BY <1>2, <1>3

LEMMA AsyncStepCallbacks ==
    ASSUME DatabaseInv, AsyncNext
    PROVE  CallbacksInv'
<1> USE DEF DatabaseInv, TypeOK, openVars, queueVars, workerVars, clientVars
<1> DEFINE Goal == CallbacksApart' /\ \A k \in 1 .. issued' : HasCallback(k)' \/ Collected(k)'
<1>1. ASSUME OpenWorkers \/ TryProccess \/ PassOver \/ PassEnds \/ Drain \/ CloseWorker \/ JoinWorker
      PROVE  Goal
  <2>1. UNCHANGED <<callbacks, issued, invoked, result>>
    BY <1>1 DEF OpenWorkers, OpenWorker, OpenWorkerFails, TryProccess, PassOver, PassEnds, Drain,
                CloseWorker, JoinWorker
  <2> QED BY <2>1, FutureCallbacks
<1>2. ASSUME Cancel PROVE Goal
  <2>1. UNCHANGED <<callbacks, issued, invoked>>
    BY <1>2 DEF Cancel
  <2>2. \A k \in 1 .. issued : result[k] \in {"value", "error"} => result'[k] = result[k]
    <3>1. ASSUME NEW k \in 1 .. issued, result[k] \in {"value", "error"} PROVE ~Contains(queue, k)
      BY <3>1 DEF WorksInv, InQueue, Contains
    <3> QED BY <1>2, <3>1 DEF Cancel
  <2> QED BY <2>1, <2>2, FutureCallbacks
<1>3. ASSUME NEW w \in Workers, WaitAndPop(w) \/ CheckClosed(w) PROVE Goal
  <2>1. UNCHANGED <<callbacks, issued, invoked, result>>
    BY <1>3 DEF WaitAndPop, CheckClosed
  <2> QED BY <2>1, FutureCallbacks
<1>4. ASSUME NEW w \in Workers, NEW outcome \in {"value", "error"}, Do(w, outcome) PROVE Goal
  <2>1. UNCHANGED <<callbacks, issued, invoked>>
    BY <1>4 DEF Do
  <2>2. holds[w] \in 1 .. issued /\ result[holds[w]] = "pending"
    BY <1>4 DEF Do, WorksInv, IsHeld, AsyncTypeOK
  <2>3. \A k \in 1 .. issued : result[k] \in {"value", "error"} => result'[k] = result[k]
    BY <1>4, <2>2 DEF Do, AsyncTypeOK
  <2> QED BY <2>1, <2>3, FutureCallbacks
<1>5. Goal
  BY <1>1, <1>2, <1>3, <1>4, ExecuteStatementCallbacks, InvokeCallbacks
     DEF AsyncNext, OpenWorkers, Process, CloseWorkers, Work
<1> QED BY <1>5, AsyncStepDrained, CallbacksInvParts

-----------------------------------------------------------------------------
(* The invariant holds, and what follows from it.                          *)

LEMMA DatabaseInductive == DatabaseInv /\ [Next]_vars => DatabaseInv'
<1> SUFFICES ASSUME DatabaseInv, [Next]_vars PROVE DatabaseInv'
  OBVIOUS
<1>1. CASE SyncStep
  BY <1>1, SyncStepInv
<1>2. CASE AsyncNext /\ UNCHANGED syncVars
  <2>1. TypeOK'
    BY <1>2, AsyncStepTypes DEF DatabaseInv, TypeOK, syncVars
  <2> QED BY <1>2, <2>1, AsyncStepClient, AsyncStepWorks, AsyncStepCallbacks DEF DatabaseInv
<1>3. CASE UNCHANGED vars
  <2> USE <1>3 DEF DatabaseInv, vars, asyncVars, syncVars, openVars, queueVars, workerVars, clientVars
  <2>1. TypeOK'
    BY DEF TypeOK, AsyncTypeOK
  <2>2. ClientInv'
    BY DEF ClientInv
  <2>3. WorksInv'
    BY WorksKept
  <2>4. CallbacksInv'
    BY DEF CallbacksInv, HasCallback
  <2> QED BY <2>1, <2>2, <2>3, <2>4
<1> QED BY <1>1, <1>2, <1>3 DEF Next, SyncStep

LEMMA DatabaseInvariant == Spec => []DatabaseInv
BY DatabaseInitially, DatabaseInductive, PTL DEF Spec

\* The variables of the database, of its pool and of its client always have
\* their types: no worker is counted beyond the pool, none is closed twice,
\* and the walk over the callbacks stays on the list (Database module).
THEOREM DatabaseTypeCorrect == Spec => []TypeOK
<1>1. DatabaseInv => TypeOK
  BY DEF DatabaseInv
<1> QED BY <1>1, DatabaseInvariant, PTL

\* A database that was closed, or could not be opened, has no running thread,
\* no prepared statement and no connection but the one whose statement was
\* refused, for any number of workers, connections and statements
\* (SynchronousDatabase.h Open and Close, AsynchronousDatabase.h Open and Close).
THEOREM DatabaseLeavesNothingBehind == Spec => []NothingLeftBehind
<1>1. DatabaseInv => NothingLeftBehind
  BY DEF DatabaseInv, ClientInv, NothingLeftBehind
<1> QED BY <1>1, DatabaseInvariant, PTL

LEMMA AtMostOneElement ==
    ASSUME NEW S, \A x, y \in S : x = y
    PROVE  Cardinality(S) = IF S = {} THEN 0 ELSE 1
<1>1. CASE S = {}
  BY <1>1, FS_EmptySet
<1>2. CASE S # {}
  <2>1. PICK x \in S : S = {x}
    BY <1>2
  <2> QED BY <1>2, <2>1, FS_Singleton
<1> QED BY <1>1, <1>2

LEMMA PlacesOfAWork ==
    ASSUME DatabaseInv, NEW k \in 1 .. issued
    PROVE  /\ Cardinality({i \in DOMAIN queue : queue[i] = k}) = IF InQueue(k) THEN 1 ELSE 0
           /\ Cardinality({w \in Workers : holds[w] = k}) = IF IsHeld(k) THEN 1 ELSE 0
           /\ Cardinality({i \in DOMAIN executed : executed[i] = k}) = IF IsDone(k) THEN 1 ELSE 0
<1> USE DEF DatabaseInv, TypeOK, AsyncTypeOK
<1>0. WorksApart /\ k # 0
  BY WorksInvParts
<1>1. DOMAIN queue = 1 .. Len(queue) /\ DOMAIN executed = 1 .. Len(executed)
  BY LenProperties
<1>2. Cardinality({i \in DOMAIN queue : queue[i] = k}) = IF InQueue(k) THEN 1 ELSE 0
  <2> DEFINE S == {i \in DOMAIN queue : queue[i] = k}
  <2>1. \A x, y \in S : x = y
    BY <1>0, <1>1 DEF WorksApart
  <2>2. S = {} <=> ~InQueue(k)
    BY <1>1 DEF InQueue
  <2> HIDE DEF S
  <2>3. Cardinality(S) = IF InQueue(k) THEN 1 ELSE 0
    BY <2>1, <2>2, AtMostOneElement
  <2> QED BY <2>3 DEF S
<1>3. Cardinality({w \in Workers : holds[w] = k}) = IF IsHeld(k) THEN 1 ELSE 0
  <2> DEFINE S == {w \in Workers : holds[w] = k}
  <2>1. \A x, y \in S : x = y
    BY <1>0 DEF WorksApart
  <2>2. S = {} <=> ~IsHeld(k)
    BY DEF IsHeld
  <2> HIDE DEF S
  <2>3. Cardinality(S) = IF IsHeld(k) THEN 1 ELSE 0
    BY <2>1, <2>2, AtMostOneElement
  <2> QED BY <2>3 DEF S
<1>4. Cardinality({i \in DOMAIN executed : executed[i] = k}) = IF IsDone(k) THEN 1 ELSE 0
  <2> DEFINE S == {i \in DOMAIN executed : executed[i] = k}
  <2>1. \A x, y \in S : x = y
    BY <1>0, <1>1 DEF WorksApart
  <2>2. S = {} <=> ~IsDone(k)
    BY <1>1 DEF IsDone
  <2> HIDE DEF S
  <2>3. Cardinality(S) = IF IsDone(k) THEN 1 ELSE 0
    BY <2>1, <2>2, AtMostOneElement
  <2> QED BY <2>3 DEF S
<1> QED BY <1>2, <1>3, <1>4

\* A work is in the queue, with one worker, done or, cancelled, nowhere, and
\* done once: for any number of workers and of works
\* (ProducerConsumerQueue.h WaitAndPop, DatabaseWorker.h Work).
THEOREM WorksAreDoneOnce == Spec => []WorkIsSomewhereOnce
<1>1. DatabaseInv => WorkIsSomewhereOnce
  <2> SUFFICES ASSUME DatabaseInv, NEW k \in 1 .. issued
               PROVE  LET inQueue == Cardinality({i \in DOMAIN queue : queue[i] = k})
                          held == Cardinality({w \in Workers : holds[w] = k})
                          done == Cardinality({i \in DOMAIN executed : executed[i] = k})
                      IN /\ inQueue + held + done = (IF result[k] = "broken" THEN 0 ELSE 1)
                         /\ done = 1 <=> result[k] \in {"value", "error"}
    BY DEF WorkIsSomewhereOnce
  <2> DEFINE inQueue == Cardinality({i \in DOMAIN queue : queue[i] = k})
             held == Cardinality({w \in Workers : holds[w] = k})
             done == Cardinality({i \in DOMAIN executed : executed[i] = k})
  <2>1. /\ inQueue = IF InQueue(k) THEN 1 ELSE 0
        /\ held = IF IsHeld(k) THEN 1 ELSE 0
        /\ done = IF IsDone(k) THEN 1 ELSE 0
    BY PlacesOfAWork
  <2>2. /\ InQueue(k) => result[k] = "pending" /\ ~IsHeld(k)
        /\ IsHeld(k) => result[k] = "pending"
        /\ IsDone(k) <=> result[k] \in {"value", "error"}
        /\ result[k] = "pending" => InQueue(k) \/ IsHeld(k)
    BY DEF DatabaseInv, WorksInv
  <2>3. result[k] \in {"pending", "value", "error", "broken"}
    BY DEF DatabaseInv, TypeOK, AsyncTypeOK
  <2> HIDE DEF inQueue, held, done
  <2>4. /\ inQueue + held + done = (IF result[k] = "broken" THEN 0 ELSE 1)
        /\ done = 1 <=> result[k] \in {"value", "error"}
    BY <2>1, <2>2, <2>3
  <2> QED BY <2>4 DEF inQueue, held, done
<1> QED BY <1>1, DatabaseInvariant, PTL

\* Who polls until no callback is left and closes then loses nothing: every
\* statement was answered, every successful one's callback was run, no worker
\* holds a work (DatabaseCallback.h ProcessEverithing, Game.h:39, Match.h:57).
THEOREM DrainedCloseLosesNothing == Spec => []NothingLostAtClose
<1>1. DatabaseInv => NothingLostAtClose
  <2> SUFFICES ASSUME DatabaseInv, drained
               PROVE  /\ \A k \in 1 .. issued :
                            result[k] = "error" \/ (result[k] = "value" /\ k \in invoked)
                      /\ \A w \in Workers : holds[w] = 0
    BY DEF NothingLostAtClose
  <2>1. Len(callbacks) = 0
    BY DEF DatabaseInv, CallbacksInv
  <2>2. \A k \in 1 .. issued : result[k] = "error" \/ (result[k] = "value" /\ k \in invoked)
    BY <2>1 DEF DatabaseInv, CallbacksInv, HasCallback
  <2>3. ASSUME NEW w \in Workers, holds[w] # 0 PROVE FALSE
    <3>1. holds[w] \in 1 .. issued
      BY <2>3 DEF DatabaseInv, WorksInv, TypeOK, AsyncTypeOK
    <3>2. result[holds[w]] = "pending"
      BY <3>1 DEF DatabaseInv, WorksInv, IsHeld
    <3> QED BY <2>2, <3>1, <3>2
  <2> QED BY <2>2, <2>3
<1> QED BY <1>1, DatabaseInvariant, PTL

-----------------------------------------------------------------------------
(* A database of one worker implements the StatementQueue.                 *)

\* What the refinement maps the queue's variables to.
OrderedPending == IF Single THEN Taken \o queue ELSE <<>>
OrderedAnswered ==
    IF Single THEN {<<callbacks[i], result[callbacks[i]]>> : i \in Collectable} ELSE {}

\* A collectable answer is the one of a work with a callback.
IsAnswer(x) ==
    \E i \in 1 .. Len(callbacks) :
        result[callbacks[i]] \in {"value", "error"} /\ x = <<callbacks[i], result[callbacks[i]]>>

LEMMA AnswersAre == Single /\ callbacks \in Seq(Works) => \A x : x \in OrderedAnswered <=> IsAnswer(x)
BY LenProperties DEF OrderedAnswered, Collectable, IsReady, IsAnswer

LEMMA AnswersAreNext == Single' /\ callbacks' \in Seq(Works) => \A x : x \in OrderedAnswered' <=> IsAnswer(x)'
BY LenProperties DEF OrderedAnswered, Collectable, IsReady, IsAnswer

\* The database's steps in terms of the mapped variables.
OrderedIssue(k) == OrderedPending' = Append(OrderedPending, k) /\ OrderedAnswered' = OrderedAnswered
OrderedExecute(outcome) ==
    /\ OrderedPending # <<>>
    /\ OrderedAnswered' = OrderedAnswered \cup {<<Head(OrderedPending), outcome>>}
    /\ OrderedPending' = Tail(OrderedPending)
OrderedCollect(answer) ==
    /\ answer \in OrderedAnswered
    /\ OrderedAnswered' = OrderedAnswered \ {answer}
    /\ OrderedPending' = OrderedPending
OrderedDrop ==
    /\ \E taken \in {0, 1} :
          taken <= Len(OrderedPending) /\ OrderedPending' = SubSeq(OrderedPending, 1, taken)
    /\ OrderedAnswered' = OrderedAnswered
OrderedStutter == OrderedPending' = OrderedPending /\ OrderedAnswered' = OrderedAnswered

LEMMA AppendBehind ==
    ASSUME NEW S, NEW t \in Seq(S), NEW q \in Seq(S), NEW k \in S
    PROVE  t \o Append(q, k) = Append(t \o q, k)
OBVIOUS

LEMMA TakenIsSequence ==
    ASSUME DatabaseInv
    PROVE  Taken \in Seq(Works) /\ Taken = IF holds[1] = 0 THEN <<>> ELSE <<holds[1]>>
<1>1. 1 \in Workers
  OBVIOUS
<1>2. holds[1] \in Works \cup {0}
  BY <1>1 DEF DatabaseInv, TypeOK, AsyncTypeOK
<1>3. CASE holds[1] = 0
  BY <1>3, EmptySeq DEF Taken
<1>4. CASE holds[1] \in Works
  <2>1. <<holds[1]>> \in Seq(Works)
    BY <1>4
  <2>2. holds[1] # 0
    BY <1>4
  <2>3. Taken = <<holds[1]>>
    BY <2>2 DEF Taken
  <2> QED BY <2>1, <2>2, <2>3
<1> QED BY <1>2, <1>3, <1>4

LEMMA ExecuteStatementIssues ==
    ASSUME DatabaseInv, Single, ExecuteStatement
    PROVE  OrderedIssue(issued') /\ issued' \in Works
<1>1. /\ issued \in Nat /\ issued' = issued + 1 /\ issued' \in Works /\ Single'
      /\ callbacks \in Seq(Works) /\ result \in [1 .. issued -> {"pending", "value", "error", "broken"}]
      /\ queue \in Seq(Works) /\ queue' = Append(queue, issued') /\ holds' = holds
      /\ result' = Append(result, "pending") /\ callbacks' = Append(callbacks, issued')
  BY DEF ExecuteStatement, DatabaseInv, TypeOK, AsyncTypeOK, Single, openVars
<1>2. OrderedPending' = Append(OrderedPending, issued')
  <2>1. Taken \in Seq(Works) /\ Taken' = Taken
    BY <1>1, TakenIsSequence DEF Taken
  <2>2. Taken \o Append(queue, issued') = Append(Taken \o queue, issued')
    <3>1. PICK q, k, t : q = queue /\ k = issued' /\ t = Taken
      OBVIOUS
    <3>2. q \in Seq(Works) /\ k \in Works /\ t \in Seq(Works)
      BY <1>1, <2>1, <3>1
    <3>3. t \o Append(q, k) = Append(t \o q, k)
      BY <3>2, AppendBehind
    <3> QED BY <3>1, <3>3
  <2> QED BY <1>1, <2>1, <2>2 DEF OrderedPending
<1>3. /\ Len(callbacks) \in Nat /\ Len(callbacks') = Len(callbacks) + 1 /\ callbacks' \in Seq(Works)
      /\ \A i \in 1 .. Len(callbacks) : callbacks'[i] = callbacks[i]
      /\ callbacks'[Len(callbacks) + 1] = issued'
  BY <1>1, AppendElements, LenProperties
<1>4. (\A k \in 1 .. issued : result'[k] = result[k]) /\ result'[issued'] = "pending"
  BY FutureIssued
<1>5. \A i \in 1 .. Len(callbacks) : result'[callbacks'[i]] = result[callbacks[i]]
  BY <1>3, <1>4 DEF DatabaseInv, CallbacksInv
<1>6. ASSUME NEW x PROVE IsAnswer(x)' <=> IsAnswer(x)
  <2>1. ASSUME IsAnswer(x)' PROVE IsAnswer(x)
    <3>1. PICK i \in 1 .. Len(callbacks') :
              result'[callbacks'[i]] \in {"value", "error"} /\ x = <<callbacks'[i], result'[callbacks'[i]]>>
      BY <2>1 DEF IsAnswer
    <3>2. i # Len(callbacks) + 1
      BY <1>3, <1>4, <3>1
    <3>3. i \in 1 .. Len(callbacks)
      BY <1>3, <3>2
    <3> QED BY <1>3, <1>5, <3>1, <3>3 DEF IsAnswer
  <2>2. ASSUME IsAnswer(x) PROVE IsAnswer(x)'
    <3>1. PICK i \in 1 .. Len(callbacks) :
              result[callbacks[i]] \in {"value", "error"} /\ x = <<callbacks[i], result[callbacks[i]]>>
      BY <2>2 DEF IsAnswer
    <3>2. i \in 1 .. Len(callbacks')
      BY <1>3
    <3> QED BY <1>3, <1>5, <3>1, <3>2 DEF IsAnswer
  <2> QED BY <2>1, <2>2
<1>7. OrderedAnswered' = OrderedAnswered
  <2>1. \A x : x \in OrderedAnswered' <=> x \in OrderedAnswered
    BY <1>1, <1>3, <1>6, AnswersAre, AnswersAreNext
  <2> QED BY <1>1, <2>1 DEF OrderedAnswered
<1> QED BY <1>1, <1>2, <1>7 DEF OrderedIssue

LEMMA InvokeCollects ==
    ASSUME DatabaseInv, Single, Invoke
    PROVE  \E answer \in OrderedAnswered : OrderedCollect(answer)
<1>1. /\ Single' /\ queue' = queue /\ holds' = holds /\ result' = result
      /\ callbacks \in Seq(Works) /\ itr \in 1 .. Len(callbacks)
      /\ callbacks' = RemoveAt(callbacks, itr)
      /\ result[callbacks[itr]] \in {"value", "error"}
  BY DEF Invoke, DatabaseInv, TypeOK, AsyncTypeOK, IsReady, Single, openVars, queueVars, workerVars
<1>2. OrderedPending' = OrderedPending
  BY <1>1 DEF OrderedPending, Taken
<1>3. /\ Len(callbacks) \in Nat /\ Len(callbacks') = Len(callbacks) - 1 /\ callbacks' \in Seq(Works)
      /\ \A i \in 1 .. Len(callbacks) - 1 :
            callbacks'[i] = IF i < itr THEN callbacks[i] ELSE callbacks[i + 1]
  BY <1>1, RemoveAtProperties, LenProperties
<1>4. \A i, j \in 1 .. Len(callbacks) : callbacks[i] = callbacks[j] => i = j
  BY DEF DatabaseInv, CallbacksInv
<1>0. itr \in Nat /\ itr >= 1 /\ itr <= Len(callbacks)
  BY <1>1, <1>3
<1> DEFINE answer == <<callbacks[itr], result[callbacks[itr]]>>
<1>5. IsAnswer(answer)
  BY <1>1 DEF IsAnswer
<1>6. ASSUME NEW x PROVE IsAnswer(x)' <=> IsAnswer(x) /\ x # answer
  <2>1. ASSUME IsAnswer(x)' PROVE IsAnswer(x) /\ x # answer
    <3>1. PICK i \in 1 .. Len(callbacks') :
              result[callbacks'[i]] \in {"value", "error"} /\ x = <<callbacks'[i], result[callbacks'[i]]>>
      BY <1>1, <2>1 DEF IsAnswer
    <3> DEFINE j == IF i < itr THEN i ELSE i + 1
    <3>2. j \in 1 .. Len(callbacks) /\ j # itr /\ callbacks'[i] = callbacks[j]
      <4>0. i \in 1 .. Len(callbacks) - 1
        BY <1>3
      <4>1. CASE i < itr
        <5>1. j = i /\ i \in 1 .. Len(callbacks) /\ i # itr
          BY <1>0, <1>3, <4>0, <4>1
        <5> QED BY <1>3, <4>0, <4>1, <5>1
      <4>2. CASE ~(i < itr)
        <5>1. j = i + 1 /\ i + 1 \in 1 .. Len(callbacks) /\ i + 1 # itr
          BY <1>0, <1>3, <4>0, <4>2
        <5> QED BY <1>3, <4>0, <4>2, <5>1
      <4> QED BY <4>1, <4>2
    <3> HIDE DEF j
    <3>3. callbacks[j] # callbacks[itr]
      BY <1>1, <1>4, <3>2
    <3> QED BY <3>1, <3>2, <3>3 DEF IsAnswer
  <2>2. ASSUME IsAnswer(x), x # answer PROVE IsAnswer(x)'
    <3>1. PICK i \in 1 .. Len(callbacks) :
              result[callbacks[i]] \in {"value", "error"} /\ x = <<callbacks[i], result[callbacks[i]]>>
      BY <2>2 DEF IsAnswer
    <3>2. i # itr
      BY <2>2, <3>1
    <3>3. \E j \in 1 .. Len(callbacks') : callbacks'[j] = callbacks[i]
      <4>1. CASE i < itr
        <5>1. i \in 1 .. Len(callbacks) - 1
          BY <1>0, <1>3, <4>1
        <5>2. callbacks'[i] = callbacks[i]
          BY <1>3, <4>1, <5>1
        <5> QED BY <1>3, <5>1, <5>2
      <4>2. CASE i > itr
        <5>1. i - 1 \in 1 .. Len(callbacks') /\ ~(i - 1 < itr) /\ (i - 1) + 1 = i
          BY <1>0, <1>3, <4>2
        <5>2. callbacks'[i - 1] = callbacks[i]
          BY <1>3, <5>1
        <5> QED BY <5>1, <5>2
      <4> QED BY <1>1, <3>2, <4>1, <4>2
    <3> QED BY <1>1, <3>1, <3>3 DEF IsAnswer
  <2> QED BY <2>1, <2>2
<1> HIDE DEF answer
<1>7. answer \in OrderedAnswered /\ OrderedAnswered' = OrderedAnswered \ {answer}
  <2>1. \A x : x \in OrderedAnswered' <=> x \in OrderedAnswered /\ x # answer
    BY <1>1, <1>3, <1>6, AnswersAre, AnswersAreNext
  <2>2. answer \in OrderedAnswered
    BY <1>1, <1>5, AnswersAre
  <2>3. \A S, T : (\A x : x \in S <=> x \in T) => S = T
    OBVIOUS
  <2> QED BY <2>1, <2>2, <2>3
<1> QED BY <1>2, <1>7 DEF OrderedCollect

LEMMA DoExecutes ==
    ASSUME DatabaseInv, Single, NEW outcome \in {"value", "error"}, Do(1, outcome)
    PROVE  OrderedExecute(outcome)
<1>1. /\ Single' /\ queue' = queue /\ queue \in Seq(Works) /\ callbacks' = callbacks /\ callbacks \in Seq(Works)
      /\ holds \in [Workers -> Works \cup {0}] /\ holds' = [holds EXCEPT ![1] = 0] /\ 1 \in Workers
      /\ result \in [1 .. issued -> {"pending", "value", "error", "broken"}]
      /\ result' = [result EXCEPT ![holds[1]] = outcome]
      /\ worker[1] = "do"
  BY DEF Do, DatabaseInv, TypeOK, AsyncTypeOK, Single, openVars, queueVars, clientVars
<1>2. holds[1] \in 1 .. issued /\ result[holds[1]] = "pending" /\ holds[1] # 0
  BY <1>1 DEF DatabaseInv, WorksInv, IsHeld
<1>3. Taken = <<holds[1]>> /\ Taken' = <<>> /\ holds[1] \in Works
  BY <1>1, <1>2 DEF Taken
<1>4. OrderedPending = <<holds[1]>> \o queue /\ OrderedPending' = <<>> \o queue
  BY <1>1, <1>3 DEF OrderedPending
<1>5. OrderedPending # <<>> /\ Head(OrderedPending) = holds[1] /\ OrderedPending' = Tail(OrderedPending)
  <2>1. <<holds[1]>> \o queue # <<>> /\ Head(<<holds[1]>> \o queue) = holds[1]
    BY <1>1, <1>3
  <2>2. Tail(<<holds[1]>> \o queue) = queue /\ <<>> \o queue = queue
    BY <1>1, <1>3
  <2> QED BY <1>4, <2>1, <2>2
<1>6. HasCallback(holds[1])
  BY <1>2 DEF DatabaseInv, CallbacksInv
<1>7. \A i \in 1 .. Len(callbacks) :
          callbacks[i] \in 1 .. issued
          /\ result'[callbacks[i]] = IF callbacks[i] = holds[1] THEN outcome ELSE result[callbacks[i]]
  BY <1>1 DEF DatabaseInv, CallbacksInv
<1>8. ASSUME NEW x PROVE IsAnswer(x)' <=> IsAnswer(x) \/ x = <<holds[1], outcome>>
  <2>1. ASSUME IsAnswer(x)' PROVE IsAnswer(x) \/ x = <<holds[1], outcome>>
    BY <1>1, <1>7, <2>1 DEF IsAnswer
  <2>2. ASSUME IsAnswer(x) PROVE IsAnswer(x)'
    BY <1>1, <1>2, <1>7, <2>2 DEF IsAnswer
  <2>3. ASSUME x = <<holds[1], outcome>> PROVE IsAnswer(x)'
    BY <1>1, <1>6, <1>7, <2>3 DEF IsAnswer, HasCallback
  <2> QED BY <2>1, <2>2, <2>3
<1>9. OrderedAnswered' = OrderedAnswered \cup {<<holds[1], outcome>>}
  <2>1. \A x : x \in OrderedAnswered' <=> x \in OrderedAnswered \/ x = <<holds[1], outcome>>
    BY <1>1, <1>8, AnswersAre, AnswersAreNext
  <2>2. \A S, T : (\A x : x \in S <=> x \in T) => S = T
    OBVIOUS
  <2> QED BY <2>1, <2>2
<1> QED BY <1>5, <1>9 DEF OrderedExecute

LEMMA CancelDrops ==
    ASSUME DatabaseInv, Single, Cancel
    PROVE  OrderedDrop
<1>1. /\ Single' /\ queue' = <<>> /\ queue \in Seq(Works) /\ callbacks' = callbacks /\ callbacks \in Seq(Works)
      /\ holds' = holds
      /\ result' = [k \in 1 .. issued |-> IF Contains(queue, k) THEN "broken" ELSE result[k]]
  BY DEF Cancel, DatabaseInv, TypeOK, AsyncTypeOK, Single, openVars
<1>2. /\ Taken' = Taken /\ Taken \in Seq(Works) /\ Len(Taken) \in {0, 1}
  BY <1>1, TakenIsSequence DEF Taken
<1>3. OrderedPending = Taken \o queue /\ OrderedPending' = Taken
  BY <1>1, <1>2, ConcatEmptySeq DEF OrderedPending
<1>4. /\ Len(Taken) <= Len(Taken \o queue)
      /\ SubSeq(Taken \o queue, 1, Len(Taken)) = Taken
  <2>1. Len(Taken \o queue) = Len(Taken) + Len(queue) /\ Len(queue) \in Nat
    BY <1>1, <1>2, ConcatProperties, LenProperties
  <2>2. CASE Len(Taken) = 0
    <3>1. Taken = <<>>
      BY <1>2, <2>2, EmptySeq
    <3> QED BY <2>1, <2>2, <3>1, SubSeqEmpty
  <2>3. CASE Len(Taken) = 1
    <3>1. SubSeq(Taken \o queue, 1, Len(Taken)) = SubSeq(Taken, 1, Len(Taken))
      <4>1. 1 \in 1 .. Len(Taken) /\ Len(Taken) \in 1 .. Len(Taken)
        BY <2>3
      <4> QED BY <1>1, <1>2, <4>1, SubSeqOfConcat1
    <3> QED BY <1>2, <2>1, <2>3, <3>1, SubSeqFull
  <2> QED BY <1>2, <2>2, <2>3
<1>5. \A i \in 1 .. Len(callbacks) :
          /\ callbacks[i] \in 1 .. issued
          /\ result'[callbacks[i]] = IF InQueue(callbacks[i]) THEN "broken" ELSE result[callbacks[i]]
          /\ InQueue(callbacks[i]) => result[callbacks[i]] = "pending"
  BY <1>1 DEF DatabaseInv, CallbacksInv, WorksInv, Contains, InQueue
<1>6. ASSUME NEW x PROVE IsAnswer(x)' <=> IsAnswer(x)
  BY <1>1, <1>5 DEF IsAnswer
<1>7. OrderedAnswered' = OrderedAnswered
  <2>1. \A x : x \in OrderedAnswered' <=> x \in OrderedAnswered
    BY <1>1, <1>6, AnswersAre, AnswersAreNext
  <2>2. \A S, T : (\A x : x \in S <=> x \in T) => S = T
    OBVIOUS
  <2> QED BY <2>1, <2>2
<1> QED BY <1>2, <1>3, <1>4, <1>7 DEF OrderedDrop

LEMMA WaitAndPopStutters ==
    ASSUME DatabaseInv, Single, WaitAndPop(1)
    PROVE  OrderedStutter
<1>1. /\ Single' /\ callbacks' = callbacks /\ result' = result /\ worker[1] = "pop" /\ 1 \in Workers
      /\ holds \in [Workers -> Works \cup {0}] /\ queue \in Seq(Works)
  BY DEF WaitAndPop, DatabaseInv, TypeOK, AsyncTypeOK, Single, openVars, clientVars
<1>2. OrderedAnswered' = OrderedAnswered
  BY <1>1 DEF OrderedAnswered, Collectable, IsReady
<1>3. OrderedPending' = OrderedPending
  <2>1. CASE cancelled \/ queue = <<>>
    BY <1>1, <2>1 DEF WaitAndPop, OrderedPending, Taken
  <2>2. CASE ~cancelled /\ queue # <<>>
    <3>1. holds' = [holds EXCEPT ![1] = Head(queue)] /\ queue' = Tail(queue)
      BY <2>2 DEF WaitAndPop
    <3>2. holds[1] = 0
      BY <1>1 DEF DatabaseInv, WorksInv
    <3>3. Head(queue) \in Works /\ Head(queue) # 0
      BY <1>1, <2>2, HeadTailProperties
    <3>4. Taken = <<>> /\ Taken' = <<Head(queue)>>
      BY <1>1, <3>1, <3>2, <3>3 DEF Taken
    <3>5. <<>> \o queue = queue /\ <<Head(queue)>> \o Tail(queue) = queue
      BY <1>1, <2>2
    <3> QED BY <1>1, <3>1, <3>4, <3>5 DEF OrderedPending
  <2> QED BY <2>1, <2>2
<1> QED BY <1>2, <1>3 DEF OrderedStutter

OrderedNext ==
    \/ \E k \in Works : OrderedIssue(k)
    \/ \E outcome \in {"value", "error"} : OrderedExecute(outcome)
    \/ \E answer \in OrderedAnswered : OrderedCollect(answer)
    \/ OrderedDrop
    \/ OrderedStutter

LEMMA DatabaseStepIsOrdered ==
    ASSUME DatabaseInv, [Next]_vars
    PROVE  OrderedNext
<1> USE DEF openVars, queueVars, workerVars, clientVars
<1>1. ASSUME UNCHANGED <<pool, queue, holds, callbacks, result>> PROVE OrderedStutter
  BY <1>1 DEF OrderedStutter, OrderedPending, OrderedAnswered, Single, Taken, Collectable, IsReady
<1>2. CASE SyncStep
  BY <1>1, <1>2, SyncStepsKeep DEF asyncOnlyVars, OrderedNext
<1>3. CASE UNCHANGED vars
  BY <1>1, <1>3 DEF vars, asyncVars, OrderedNext
<1>4. CASE AsyncNext
  <2>1. CASE OpenWorkers \/ TryProccess \/ PassOver \/ PassEnds \/ Drain \/ CloseWorker \/ JoinWorker
    <3>1. UNCHANGED <<pool, queue, holds, callbacks, result>>
      BY <2>1 DEF OpenWorkers, OpenWorker, OpenWorkerFails, TryProccess, PassOver, PassEnds, Drain,
                  CloseWorker, JoinWorker
    <3> QED BY <1>1, <3>1 DEF OrderedNext
  <2>2. CASE ~Single
    <3>1. pool' = pool
      BY <1>4 DEF AsyncNext, OpenWorkers, OpenWorker, OpenWorkerFails, ExecuteStatement, Process, TryProccess,
                  Invoke, PassOver, PassEnds, Drain, CloseWorkers, CloseWorker, Cancel, JoinWorker, Work,
                  WaitAndPop, CheckClosed, Do
    <3> QED BY <2>2, <3>1 DEF Single, OrderedNext, OrderedStutter, OrderedPending, OrderedAnswered
  <2>3. CASE Single
    <3>1. CASE ExecuteStatement
      BY <2>3, <3>1, ExecuteStatementIssues DEF OrderedNext
    <3>2. CASE Invoke
      BY <2>3, <3>2, InvokeCollects DEF OrderedNext
    <3>3. CASE Cancel
      BY <2>3, <3>3, CancelDrops DEF OrderedNext
    <3>4. ASSUME NEW w \in Workers, Work(w) PROVE OrderedNext
      <4>1. w = 1
        <5>1. worker[w] # "ended"
          BY <3>4 DEF Work, WaitAndPop, CheckClosed, Do
        <5>2. opened <= pool /\ opened \in Nat /\ \A v \in Workers : v > opened => worker[v] = "ended"
          BY DEF DatabaseInv, ClientInv, TypeOK, AsyncTypeOK
        <5> QED BY <2>3, <5>1, <5>2 DEF Single
      <4>2. CASE WaitAndPop(w)
        BY <2>3, <4>1, <4>2, WaitAndPopStutters DEF OrderedNext
      <4>3. CASE CheckClosed(w)
        BY <1>1, <4>3 DEF CheckClosed, OrderedNext
      <4>4. CASE \E outcome \in {"value", "error"} : Do(w, outcome)
        BY <2>3, <4>1, <4>4, DoExecutes DEF OrderedNext
      <4> QED BY <3>4, <4>2, <4>3, <4>4 DEF Work
    <3> QED BY <1>4, <2>1, <3>1, <3>2, <3>3, <3>4 DEF AsyncNext, Process, CloseWorkers
  <2> QED BY <2>2, <2>3
<1> QED BY <1>2, <1>3, <1>4 DEF Next, SyncStep

\* With one worker, as the game opens its databases, the database is a queue
\* of statements, executed in the order in which they were issued, each
\* answer of which waits for its callback: for any number of statements, and
\* through any close (AsynchronousDatabase.h, DatabaseWorker.h Work).
THEOREM DatabaseIsStatementQueue == Spec => ImplementsStatementQueue
<1>1. Init => Ordered!Init
  <2> SUFFICES ASSUME Init PROVE Ordered!Init
    OBVIOUS
  <2>1. holds[1] = 0 /\ queue = <<>> /\ callbacks = <<>>
    BY DEF Init, AsyncInit
  <2>2. OrderedPending = <<>>
    BY <2>1, ConcatEmptySeq, EmptySeq DEF OrderedPending, Taken
  <2>3. OrderedAnswered = {}
    BY <2>1 DEF OrderedAnswered, Collectable
  <2> QED BY <2>2, <2>3 DEF Ordered!Init, OrderedPending, OrderedAnswered
<1>2. OrderedNext => [Ordered!Next]_(Ordered!vars)
  <2>1. OrderedStutter => UNCHANGED Ordered!vars
    BY DEF OrderedStutter, Ordered!vars, OrderedPending, OrderedAnswered
  <2>2. \A k \in Works : OrderedIssue(k) => Ordered!Issue(k)
    BY DEF OrderedIssue, Ordered!Issue, OrderedPending, OrderedAnswered
  <2>3. \A outcome \in {"value", "error"} : OrderedExecute(outcome) => Ordered!Execute(outcome)
    BY DEF OrderedExecute, Ordered!Execute, OrderedPending, OrderedAnswered
  <2>4. ASSUME NEW answer \in OrderedAnswered, OrderedCollect(answer) PROVE Ordered!Collect({answer})
    BY <2>4 DEF OrderedCollect, Ordered!Collect, OrderedPending, OrderedAnswered
  <2>5. OrderedDrop => Ordered!Drop
    BY DEF OrderedDrop, Ordered!Drop, OrderedPending, OrderedAnswered
  <2> QED BY <2>1, <2>2, <2>3, <2>4, <2>5 DEF OrderedNext, Ordered!Next, OrderedAnswered
<1>3. DatabaseInv /\ [Next]_vars => [Ordered!Next]_(Ordered!vars)
  BY <1>2, DatabaseStepIsOrdered
<1> QED BY <1>1, <1>3, DatabaseInvariant, PTL DEF Spec, ImplementsStatementQueue, Ordered!Spec
=============================================================================
