------------------------ MODULE AsynchronousDatabase ------------------------
(***************************************************************************)
(* Database::AsynchronousDatabase with its DatabaseWorker threads, the     *)
(* ProducerConsumerQueue between them and the client, and the client's     *)
(* DatabaseProcessor, which invokes a callback when the future of its work *)
(* is ready.  The client is the game's main thread; module Database adds   *)
(* what it does around these steps, and the specification.                 *)
(*                                                                         *)
(* Works are numbered in the order in which they are issued.               *)
(***************************************************************************)
EXTENDS Naturals, Sequences, FiniteSets, SequencesExt

CONSTANTS
    MaxWorkers,  \* bound on the connections of the pool, one thread each
    MaxWorks     \* bound on the statements issued

ASSUME DatabaseAssumption ==
    /\ MaxWorkers \in Nat \ {0}
    /\ MaxWorks \in Nat

Workers == 1 .. MaxWorkers
Works == 1 .. MaxWorks

VARIABLES
    pool,       \* size of m_Workers
    opened,     \* how many of them were opened, which have a thread
    queue,      \* m_Queue of the ProducerConsumerQueue
    cancelled,  \* its m_Shutdown
    worker,     \* where every worker thread is in Work
    holds,      \* the databaseWork it has popped, 0 for none
    closed,     \* m_Closed of every worker
    issued,     \* number of works issued
    result,     \* the future of every issued work
    executed,   \* history: works in the order in which they were done
    callbacks,  \* m_Callbacks of the DatabaseProcessor
    itr,        \* its position in TryProccess, 0 outside
    invoked,    \* history: works whose callback was run
    client,     \* where the main thread is
    closing,    \* the worker it is closing
    drained     \* history: it waited for all callbacks before it closed

queueVars == <<queue, cancelled>>
workerVars == <<worker, holds>>
openVars == <<pool, opened>>
clientVars == <<issued, callbacks, itr, invoked, client, closing, drained>>
asyncVars == <<openVars, queueVars, workerVars, closed, result, executed, clientVars>>

AsyncInit ==
    /\ pool \in Workers /\ opened = 0
    /\ queue = <<>>
    /\ cancelled = FALSE
    /\ worker = [w \in Workers |-> "ended"]
    /\ holds = [w \in Workers |-> 0]
    /\ closed = [w \in Workers |-> TRUE]
    /\ issued = 0
    /\ result = <<>>
    /\ executed = <<>>
    /\ callbacks = <<>>
    /\ itr = 0
    /\ invoked = {}
    /\ client = "connect"
    /\ closing = 1
    /\ drained = FALSE

Asleep == {w \in Workers : worker[w] = "asleep"}
Wake(ws) == worker' = [w \in Workers |-> IF w \in ws THEN "pop" ELSE worker[w]]

-----------------------------------------------------------------------------
(* The client: Open.                                                       *)

\* A worker whose connection is open and whose statements are prepared starts.
OpenWorker ==
    /\ client = "opening"
    /\ opened' = opened + 1
    /\ closed' = [closed EXCEPT ![opened'] = FALSE]
    /\ Wake({opened'})
    /\ client' = IF opened' = pool THEN "opened" ELSE "opening"
    /\ UNCHANGED <<pool, queueVars, holds, result, executed, issued, callbacks, itr, invoked, closing, drained>>

\* Mutation: those opened already are left.
OpenWorkerFailsOnly ==
    /\ client = "opening"
    /\ client' = "undo"
    /\ UNCHANGED <<openVars, queueVars, workerVars, closed, result, executed, issued, callbacks,
                   itr, invoked, closing, drained>>

\* If one fails, those opened already are closed.
OpenWorkerFails ==
    /\ client = "opening"
    /\ client' = IF opened = 0 THEN "undo" ELSE "next"
    /\ UNCHANGED <<openVars, queueVars, workerVars, closed, result, executed, issued, callbacks,
                   itr, invoked, closing, drained>>

-----------------------------------------------------------------------------
(* The client: statements and callbacks.                                   *)

\* Mutation: Push wakes nobody.
ExecuteStatementSilently ==
    /\ client = "running" /\ itr = 0
    /\ issued < MaxWorks
    /\ issued' = issued + 1
    /\ result' = Append(result, "pending")
    /\ queue' = Append(queue, issued')
    /\ callbacks' = Append(callbacks, issued')
    /\ UNCHANGED <<openVars, cancelled, workerVars, closed, executed, itr, invoked, client, closing, drained>>

\* ExecuteStatement pushes the work, which wakes one worker, and the callback
\* is added to the processor.
ExecuteStatement ==
    /\ client = "running" /\ itr = 0
    /\ issued < MaxWorks
    /\ issued' = issued + 1
    /\ result' = Append(result, "pending")
    /\ queue' = Append(queue, issued')
    /\ IF Asleep = {} THEN UNCHANGED worker ELSE \E w \in Asleep : Wake({w})
    /\ callbacks' = Append(callbacks, issued')
    /\ UNCHANGED <<openVars, cancelled, holds, closed, executed, itr, invoked, client, closing, drained>>

\* TryProccess walks the list once; ProcessEverithing does so until it is empty.
TryProccess ==
    /\ client \in {"running", "draining"} /\ itr = 0
    /\ callbacks # <<>>
    /\ itr' = 1
    /\ UNCHANGED <<openVars, queueVars, workerVars, closed, result, executed, issued, callbacks,
                   invoked, client, closing, drained>>

IsReady(k) == result[k] \in {"value", "error"}

\* Invoke runs the result processor, except for a work that failed.
Invoke ==
    /\ itr \in 1 .. Len(callbacks)
    /\ IsReady(callbacks[itr])
    /\ invoked' = IF result[callbacks[itr]] = "value"
                  THEN invoked \cup {callbacks[itr]} ELSE invoked
    /\ callbacks' = RemoveAt(callbacks, itr)
    /\ UNCHANGED <<openVars, queueVars, workerVars, closed, result, executed, issued, itr, client, closing, drained>>

PassOver ==
    /\ itr \in 1 .. Len(callbacks)
    /\ ~IsReady(callbacks[itr])
    /\ itr' = itr + 1
    /\ UNCHANGED <<openVars, queueVars, workerVars, closed, result, executed, issued, callbacks,
                   invoked, client, closing, drained>>

PassEnds ==
    /\ itr > Len(callbacks)
    /\ itr' = 0
    /\ UNCHANGED <<openVars, queueVars, workerVars, closed, result, executed, issued, callbacks,
                   invoked, client, closing, drained>>

Drain ==
    /\ client = "running" /\ itr = 0
    /\ client' = "draining"
    /\ UNCHANGED <<openVars, queueVars, workerVars, closed, result, executed, issued, callbacks,
                   itr, invoked, closing, drained>>

\* Close, for one worker after the other: its m_Closed is set, ...
CloseWorker ==
    /\ client = "next"
    /\ closed' = [closed EXCEPT ![closing] = TRUE]
    /\ client' = "cancel"
    /\ UNCHANGED <<openVars, queueVars, workerVars, result, executed, issued, callbacks, itr,
                   invoked, closing, drained>>

\* Mutation: Cancel wakes nobody.
CancelSilently ==
    /\ client = "cancel"
    /\ result' = [k \in 1 .. issued |-> IF Contains(queue, k) THEN "broken" ELSE result[k]]
    /\ queue' = <<>>
    /\ cancelled' = TRUE
    /\ client' = "join"
    /\ UNCHANGED <<openVars, workerVars, closed, executed, issued, callbacks, itr, invoked, closing, drained>>

\* ... the queue is cancelled: its works are deleted, every sleeper is woken ...
Cancel ==
    /\ client = "cancel"
    /\ result' = [k \in 1 .. issued |-> IF Contains(queue, k) THEN "broken" ELSE result[k]]
    /\ queue' = <<>>
    /\ cancelled' = TRUE
    /\ Wake(Asleep)
    /\ client' = "join"
    /\ UNCHANGED <<openVars, holds, closed, executed, issued, callbacks, itr, invoked, closing, drained>>

\* ... and the worker's thread is joined.
JoinWorker ==
    /\ client = "join"
    /\ worker[closing] = "ended"
    /\ CASE closing < opened -> client' = "next" /\ closing' = closing + 1
         [] closing = opened /\ opened < pool -> client' = "undo" /\ UNCHANGED closing
         [] OTHER -> client' = "closed" /\ UNCHANGED closing
    /\ UNCHANGED <<openVars, queueVars, workerVars, closed, result, executed, issued, callbacks, itr, invoked, drained>>

-----------------------------------------------------------------------------
(* A worker thread: Work.                                                  *)

\* Mutation: the last work is taken.
WaitAndPopLast(w) ==
    /\ worker[w] = "pop"
    /\ IF cancelled
       THEN worker' = [worker EXCEPT ![w] = "ended"] /\ UNCHANGED <<queue, holds>>
       ELSE IF queue = <<>>
       THEN worker' = [worker EXCEPT ![w] = "asleep"] /\ UNCHANGED <<queue, holds>>
       ELSE /\ worker' = [worker EXCEPT ![w] = "check"]
            /\ holds' = [holds EXCEPT ![w] = Last(queue)]
            /\ queue' = Front(queue)
    /\ UNCHANGED <<openVars, cancelled, closed, result, executed, clientVars>>

\* Mutation: the work stays in the queue.
WaitAndKeep(w) ==
    /\ worker[w] = "pop"
    /\ IF cancelled
       THEN worker' = [worker EXCEPT ![w] = "ended"] /\ UNCHANGED holds
       ELSE IF queue = <<>>
       THEN worker' = [worker EXCEPT ![w] = "asleep"] /\ UNCHANGED holds
       ELSE /\ worker' = [worker EXCEPT ![w] = "check"]
            /\ holds' = [holds EXCEPT ![w] = Head(queue)]
    /\ UNCHANGED <<openVars, queueVars, closed, result, executed, clientVars>>

\* WaitAndPop sleeps on an empty queue, pops from a filled one, and gives
\* nothing, which ends the thread, once the queue is cancelled.
WaitAndPop(w) ==
    /\ worker[w] = "pop"
    /\ IF cancelled
       THEN worker' = [worker EXCEPT ![w] = "ended"] /\ UNCHANGED <<queue, holds>>
       ELSE IF queue = <<>>
       THEN worker' = [worker EXCEPT ![w] = "asleep"] /\ UNCHANGED <<queue, holds>>
       ELSE /\ worker' = [worker EXCEPT ![w] = "check"]
            /\ holds' = [holds EXCEPT ![w] = Head(queue)]
            /\ queue' = Tail(queue)
    /\ UNCHANGED <<openVars, cancelled, closed, result, executed, clientVars>>

\* A worker closed meanwhile returns with the work, which is never done.
CheckClosed(w) ==
    /\ worker[w] = "check"
    /\ worker' = [worker EXCEPT ![w] = IF closed[w] THEN "ended" ELSE "do"]
    /\ UNCHANGED <<openVars, queueVars, holds, closed, result, executed, clientVars>>

\* Do sets the value of the promise, or a DatabaseWorkException.
Do(w, outcome) ==
    /\ worker[w] = "do"
    /\ result' = [result EXCEPT ![holds[w]] = outcome]
    /\ executed' = Append(executed, holds[w])
    /\ holds' = [holds EXCEPT ![w] = 0]
    /\ worker' = [worker EXCEPT ![w] = "pop"]
    /\ UNCHANGED <<openVars, queueVars, closed, clientVars>>

-----------------------------------------------------------------------------
Process == TryProccess \/ Invoke \/ PassOver \/ PassEnds

OpenWorkers == OpenWorker \/ OpenWorkerFails

CloseWorkers == CloseWorker \/ Cancel \/ JoinWorker

Work(w) ==
    \/ WaitAndPop(w)
    \/ CheckClosed(w)
    \/ \E outcome \in {"value", "error"} : Do(w, outcome)

AsyncNext ==
    \/ OpenWorkers
    \/ ExecuteStatement
    \/ Process
    \/ Drain
    \/ CloseWorkers
    \/ \E w \in Workers : Work(w)

-----------------------------------------------------------------------------
AsyncTypeOK ==
    /\ pool \in Workers /\ opened \in 0 .. pool
    /\ queue \in Seq(Works)
    /\ cancelled \in BOOLEAN
    /\ worker \in [Workers -> {"pop", "asleep", "check", "do", "ended"}]
    /\ holds \in [Workers -> Works \cup {0}]
    /\ closed \in [Workers -> BOOLEAN]
    /\ issued \in 0 .. MaxWorks
    /\ result \in [1 .. issued -> {"pending", "value", "error", "broken"}]
    /\ executed \in Seq(Works)
    /\ callbacks \in Seq(Works)
    /\ itr \in 0 .. MaxWorks + 1
    /\ invoked \subseteq Works
    /\ client \in {"connect", "opening", "opened", "loading", "running", "draining", "next",
                   "cancel", "join", "undo", "failed", "abandoned", "closed"}
    /\ closing \in Workers
    /\ drained \in BOOLEAN

\* A work not yet answered is in the queue or with a worker, an answered one
\* was done exactly once: none is done twice or forgotten (WaitAndPop, Do).
WorkIsSomewhereOnce ==
    \A k \in 1 .. issued :
        LET inQueue == Cardinality({i \in DOMAIN queue : queue[i] = k})
            held == Cardinality({w \in Workers : holds[w] = k})
            done == Cardinality({i \in DOMAIN executed : executed[i] = k})
        IN /\ inQueue + held + done = (IF result[k] = "broken" THEN 0 ELSE 1)
           /\ done = 1 <=> result[k] \in {"value", "error"}

\* With one worker, as the game opens its databases, works are done in the
\* order in which they were issued, whatever the worker and the shutdown do:
\* the SELECT of a login reads what an earlier UPDATE saved.  A pool of more
\* workers keeps no order, and nothing is claimed of it here.
Single == pool = 1
Taken == IF holds[1] = 0 THEN <<>> ELSE <<holds[1]>>
Collectable == {i \in DOMAIN callbacks : IsReady(callbacks[i])}

Ordered == INSTANCE StatementQueue WITH
    Statements <- Works,
    Outcomes <- {"value", "error"},
    pending <- IF Single THEN Taken \o queue ELSE <<>>,
    answered <- IF Single THEN {<<callbacks[i], result[callbacks[i]]>> : i \in Collectable} ELSE {}

ImplementsStatementQueue == Ordered!Spec

\* A client that polled until it had no callback left closes a database that
\* has nothing left to do: Cancel deletes no work, no worker returns with one,
\* and every callback whose statement succeeded was run (ProcessEverithing
\* before Close, Game.h and Main.cpp).
NothingLostAtClose ==
    drained /\ client = "closed" =>
        /\ \A k \in 1 .. issued :
              result[k] = "error" \/ (result[k] = "value" /\ k \in invoked)
        /\ \A w \in Workers : holds[w] = 0

\* Every callback is eventually processed while the database is used.
EventuallyProcessed ==
    \A k \in Works :
        (issued >= k) ~> (~Contains(callbacks, k) \/ client \notin {"running", "draining"})

\* Closing terminates, after use and after an Open of which a worker failed,
\* with every worker joined: none sleeps through it.
CloseTerminates == (client = "cancel") ~> (client \in {"closed", "failed"})
=============================================================================
