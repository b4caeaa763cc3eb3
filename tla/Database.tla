------------------------------ MODULE Database ------------------------------
(***************************************************************************)
(* A Database::Database, its pool of synchronous connections beside the    *)
(* asynchronous one, in the hands of the server's main function: opened,   *)
(* together with the other of the game's two databases, read by the        *)
(* loaders, used by the main loop and closed at the end.                   *)
(*                                                                         *)
(* The main thread drains its callbacks before it closes, as ~Game does,   *)
(* or leaves them, which the library allows too.                           *)
(***************************************************************************)
EXTENDS AsynchronousDatabase

CONSTANTS
    Connections,  \* size of m_Connections of the SynchronousDatabase
    StatementCount,   \* number of statements to prepare on each
    MaxQueries    \* bound on the synchronous statements of the loaders

ASSUME SynchronousAssumption ==
    /\ Connections \in Nat \ {0}
    /\ StatementCount \in Nat
    /\ MaxQueries \in Nat

VARIABLES
    trying,    \* the connection that Open is at
    linked,    \* connections with a session at the server
    prepared,  \* how many of its m_Statements are valid
    working,   \* m_Working of every BlockingDatabase
    query,     \* the one the statement under way is executed on, 0 for none
    queries    \* number of statements asked

syncVars == <<trying, linked, prepared, working, query, queries>>
vars == <<asyncVars, syncVars>>

Init ==
    /\ AsyncInit
    /\ trying = 1
    /\ linked = {}
    /\ prepared = [c \in 1 .. Connections |-> 0]
    /\ working = [c \in 1 .. Connections |-> FALSE]
    /\ query = 0 /\ queries = 0

\* The main thread goes on; the workers and their queue are not touched.
Goes(from, to) ==
    /\ client = from
    /\ client' = to
    /\ UNCHANGED <<openVars, queueVars, workerVars, closed, result, executed, issued, callbacks,
                   itr, invoked, closing>>

-----------------------------------------------------------------------------
(* Open: every connection of the synchronous pool, then the workers.       *)

Connect ==
    /\ client = "connect"
    /\ trying \notin linked
    /\ linked' = linked \cup {trying}
    /\ Goes("connect", "connect") /\ UNCHANGED <<drained, trying, prepared, working, query, queries>>

PrepareStatement ==
    /\ client = "connect"
    /\ trying \in linked /\ prepared[trying] < StatementCount
    /\ prepared' = [prepared EXCEPT ![trying] = @ + 1]
    /\ Goes("connect", "connect") /\ UNCHANGED <<drained, trying, linked, working, query, queries>>

Opened ==
    /\ client = "connect"
    /\ trying \in linked /\ prepared[trying] = StatementCount
    /\ trying' = trying + 1
    /\ Goes("connect", IF trying = Connections THEN "opening" ELSE "connect")
    /\ UNCHANGED <<drained, linked, prepared, working, query, queries>>

CloseStatements(these) ==
    prepared' = [c \in 1 .. Connections |-> IF c \in these THEN 0 ELSE prepared[c]]

CloseConnections(these) == linked' = linked \ these /\ CloseStatements(these)

\* A connect or a statement fails: the statements prepared on this connection
\* are closed, but not the connection; those opened before are closed entirely.
OpenFails ==
    /\ client = "connect"
    /\ prepared[trying] < StatementCount \/ trying \notin linked
    /\ linked' = linked \ (1 .. trying - 1)
    /\ CloseStatements(1 .. trying)
    /\ Goes("connect", "failed") /\ UNCHANGED <<drained, trying, working, query, queries>>

\* A worker failed to open: the synchronous pool is closed.
UndoOpen ==
    /\ CloseConnections(1 .. Connections)
    /\ Goes("undo", "failed") /\ UNCHANGED <<drained, trying, working, query, queries>>

\* With the other database open too the game loads its maps.
LoadWorld ==
    /\ Goes("opened", "loading") /\ UNCHANGED <<drained, syncVars>>

\* With the other one not open, neither is closed: main returns.
Abandon ==
    /\ Goes("opened", "abandoned") /\ UNCHANGED <<drained, syncVars>>

-----------------------------------------------------------------------------
(* The loaders: ExecuteStatement of the SynchronousDatabase.               *)

IsWorking(c) == working[c]

\* Wait spins until a connection does not work, and takes the first of them.
Wait ==
    /\ query = 0 /\ queries < MaxQueries
    /\ \E c \in 1 .. Connections :
          /\ ~IsWorking(c) /\ \A b \in 1 .. c - 1 : IsWorking(b)
          /\ query' = c
          /\ working' = [working EXCEPT ![c] = TRUE]
    /\ queries' = queries + 1
    /\ Goes("loading", "loading") /\ UNCHANGED <<drained, trying, linked, prepared>>

\* The server answers, with the rows or an error, which the loaders ignore.
ExecuteQuery ==
    /\ query # 0
    /\ working' = [working EXCEPT ![query] = FALSE]
    /\ query' = 0
    /\ Goes("loading", "loading") /\ UNCHANGED <<drained, trying, linked, prepared, queries>>

MainLoop ==
    /\ query = 0 /\ queries = MaxQueries
    /\ Goes("loading", "running") /\ UNCHANGED <<drained, syncVars>>

-----------------------------------------------------------------------------
(* Close: the synchronous pool, then the workers.                          *)

\* Mutation: the draining is broken off.
CloseUndrained ==
    /\ itr = 0
    /\ drained' = (client = "draining")
    /\ CloseConnections(1 .. Connections)
    /\ (Goes("running", "next") \/ Goes("draining", "next"))
    /\ UNCHANGED <<trying, working, query, queries>>

Close ==
    /\ itr = 0
    /\ client = "draining" => callbacks = <<>>
    /\ drained' = (client = "draining")
    /\ CloseConnections(1 .. Connections)
    /\ (Goes("running", "next") \/ Goes("draining", "next"))
    /\ UNCHANGED <<trying, working, query, queries>>

-----------------------------------------------------------------------------
Open == Connect \/ PrepareStatement \/ Opened \/ OpenFails \/ UndoOpen

Query == Wait \/ ExecuteQuery

Next ==
    \/ Open
    \/ LoadWorld
    \/ Abandon
    \/ Query
    \/ MainLoop
    \/ Close
    \/ AsyncNext /\ UNCHANGED syncVars

Spec == Init /\ [][Next]_vars

\* The main loop polls its callbacks, an Open, a query and a Close that have
\* begun go on, and every worker thread runs and is answered by the server.
Fairness ==
    /\ WF_vars(Process /\ UNCHANGED syncVars)
    /\ WF_vars(Open \/ Query)
    /\ WF_vars(CloseWorkers /\ UNCHANGED syncVars)
    /\ \A w \in Workers : WF_vars(Work(w) /\ UNCHANGED syncVars)

FairSpec == Spec /\ Fairness

-----------------------------------------------------------------------------
TypeOK ==
    /\ AsyncTypeOK
    /\ trying \in 1 .. Connections + 1
    /\ linked \subseteq 1 .. Connections
    /\ prepared \in [1 .. Connections -> 0 .. StatementCount]
    /\ working \in [1 .. Connections -> BOOLEAN]
    /\ query \in 0 .. Connections
    /\ queries \in 0 .. MaxQueries

\* Whether a database was closed or could not be opened, at whichever connect,
\* statement or worker that was, no thread of it runs, no statement is
\* prepared, and no connection is held but one whose statement was refused,
\* which nothing closes before its destructor (SynchronousDatabaseConnection
\* Open).  A database abandoned because the other one failed is another
\* matter: its threads still run when main returns.
NothingLeftBehind ==
    client \in {"closed", "failed"} =>
        /\ \A w \in Workers : worker[w] = "ended"
        /\ \A c \in 1 .. Connections : prepared[c] = 0
        /\ linked \subseteq (IF client = "failed" THEN {trying} ELSE {})
=============================================================================
