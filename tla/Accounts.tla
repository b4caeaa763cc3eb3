------------------------------ MODULE Accounts ------------------------------
(***************************************************************************)
(* The life of a player's session in the game server: from the connection  *)
(* that becomes a GameSession, through signing in and loading the player,  *)
(* into the match of the player's map, over the jumps between matches, to  *)
(* the save and the signing out, and the shutdown of the game at any time. *)
(*                                                                         *)
(* The main thread runs Game::Update again and again: it takes over new    *)
(* sessions, updates the unauthenticated ones, then every match, then the  *)
(* callbacks of its statements.  Network threads announce sessions, and    *)
(* one worker executes statements, both at any moment.  The database is    *)
(* the StatementQueue that AsynchronousDatabase is shown to implement.     *)
(*                                                                         *)
(* A player is its map and its progress, which stands for all else that    *)
(* SavePlayer saves.  A session that has ended may stand for a new         *)
(* connection later.                                                       *)
(***************************************************************************)
EXTENDS Naturals, Sequences, FiniteSets, SequencesExt

CONSTANTS
    AccountIDs,   \* rows of the state table
    Sessions,     \* connections there can be
    MapCount,     \* maps, in the order in which m_Match is walked
    MaxProgress,  \* bound on what a player achieves
    NoAccount     \* no account yet

ASSUME AccountsAssumption ==
    /\ MapCount \in Nat \ {0}
    /\ MaxProgress \in Nat
    /\ NoAccount \notin AccountIDs

Maps == 1 .. MapCount
Players == [map : Maps, progress : 0 .. MaxProgress]

Select(s, a) == [kind |-> "select", session |-> s, account |-> a]
Update(a, player) == [kind |-> "update", account |-> a, player |-> player]

VARIABLES
    newSessions,   \* m_NewSessions of the game
    gameSessions,  \* its m_Sessions: not authenticated yet
    account,       \* the account a session plays
    inMatch,       \* m_Sessions of every match, NPCs left out
    transfers,     \* m_Transfers of every match
    jumping,       \* sessions with an entry in their match's m_Jumps
    leaving,       \* sessions whose m_DisconnectionTime is set
    progress,      \* the Player of every session, besides its map
    idle,          \* sessions whose extension has timed out
    signedIn,      \* m_IDs of the AccountManager
    row,           \* the state table
    pending,       \* statements issued and not executed
    answered,      \* statements executed, callback not run
    phase,         \* what the main thread is doing
    map,           \* the match it is doing it for
    todo,          \* the sessions its loop has still to visit
    left,          \* history: the player every account left the game with
    failed,        \* history: accounts whose last save the server refused
    stranded       \* history: accounts whose player died or was not loaded

connectionVars == <<newSessions, gameSessions, idle>>
matchVars == <<account, inMatch, transfers, jumping, leaving, progress>>
databaseVars == <<pending, answered>>
historyVars == <<left, failed, stranded>>
gameVars == <<connectionVars, matchVars, signedIn, row, databaseVars, phase, map, todo, historyVars>>

Statements ==
    {Select(s, a) : s \in Sessions, a \in AccountIDs}
    \cup {Update(a, player) : a \in AccountIDs, player \in Players}

\* What the server answers: the row of a SELECT, the success of an UPDATE.
Row(player) == [is |-> "row", player |-> player]
Done == [is |-> "done"]
Error == [is |-> "error"]
Outcomes == {Row(player) : player \in Players} \cup {Done, Error}

Database == INSTANCE StatementQueue

GameInit ==
    /\ newSessions = {} /\ gameSessions = {} /\ idle = {}
    /\ account = [s \in Sessions |-> NoAccount]
    /\ inMatch = [m \in Maps |-> {}]
    /\ transfers = [m \in Maps |-> {}]
    /\ jumping = {} /\ leaving = {}
    /\ progress = [s \in Sessions |-> 0]
    /\ signedIn = {}
    /\ row \in [AccountIDs -> {p \in Players : p.progress = 0}]
    /\ Database!Init
    /\ phase = "new" /\ map = 1 /\ todo = {}
    /\ left = row
    /\ failed = {} /\ stranded = {}

\* The sessions whose player is in a match, or between two.
Playing == UNION {inMatch[m] \cup transfers[m] : m \in Maps}

AnsweredStatements == {answer[1] : answer \in answered}
SessionsOf(statements) == {st.session : st \in {st \in statements : st.kind = "select"}}
Loading == SessionsOf(Range(pending) \cup AnsweredStatements)
Connected == newSessions \cup gameSessions \cup Loading \cup Playing

-----------------------------------------------------------------------------
(* Network threads and time.                                               *)

\* A session of a new connection is put together and announced, until the
\* game is unsubscribed.
NotifySession(s) ==
    /\ phase \notin {"drain", "destroy", "deleted", "closed"}
    /\ s \notin Connected
    /\ newSessions' = newSessions \cup {s}
    /\ idle' = idle \ {s}
    /\ UNCHANGED <<gameSessions, matchVars, signedIn, row, databaseVars, phase, map, todo, historyVars>>

\* A minute without a message, or the next message after it.  A connection
\* that has closed says nothing any more.
TimeOut(s) ==
    /\ s \in Connected
    /\ idle' = IF s \in idle THEN idle \ {s} ELSE idle \cup {s}
    /\ UNCHANGED <<newSessions, gameSessions, matchVars, signedIn, row, databaseVars, phase, map, todo, historyVars>>

-----------------------------------------------------------------------------
(* The database's worker.                                                  *)

\* The statement at the head is executed, or the server reports an error.
Execute ==
    /\ pending # <<>>
    /\ LET st == Head(pending) IN
        \/ /\ st.kind = "select"
           /\ Database!Execute(Row(row[st.account]))
           /\ UNCHANGED <<row, failed>>
        \/ /\ st.kind = "update"
           /\ Database!Execute(Done)
           /\ row' = [row EXCEPT ![st.account] = st.player]
           /\ failed' = failed \ {st.account}
        \/ /\ Database!Execute(Error)
           /\ failed' = IF st.kind = "update" THEN failed \cup {st.account} ELSE failed
           /\ UNCHANGED row
    /\ UNCHANGED <<connectionVars, matchVars, signedIn, phase, map, todo, left, stranded>>

-----------------------------------------------------------------------------
(* Game::Update, on the main thread.                                       *)

\* The main thread goes on to a phase, whose loop has these sessions to visit.
Enter(next, m, sessions) == phase' = next /\ map' = m /\ todo' = sessions

AddNewSessions ==
    /\ phase = "new"
    /\ gameSessions' = gameSessions \cup newSessions
    /\ newSessions' = {}
    /\ Enter("sessions", 1, gameSessions')
    /\ UNCHANGED <<idle, matchVars, signedIn, row, databaseVars, historyVars>>

\* A session without a complete authentication stays, unless its connection
\* has closed or timed out.
UpdateGameSession(s) ==
    /\ phase = "sessions" /\ s \in todo
    /\ \/ s \notin idle /\ UNCHANGED gameSessions
       \/ gameSessions' = gameSessions \ {s}
    /\ Enter(phase, map, todo \ {s})
    /\ UNCHANGED <<newSessions, idle, matchVars, signedIn, row, databaseVars, historyVars>>

\* Mutation: the account is signed in whether it is already or not.
StartLoadPlayerUnchecked(s, a) ==
    /\ phase = "sessions" /\ s \in todo
    /\ gameSessions' = gameSessions \ {s}
    /\ signedIn' = signedIn \cup {a}
    /\ Database!Issue(Select(s, a))
    /\ Enter(phase, map, todo \ {s})
    /\ UNCHANGED <<newSessions, idle, matchVars, row, historyVars>>

\* HandleAuthentificationChallenge gives the session to StartLoadPlayer, which
\* closes it when the account is signed in and else signs it in and selects.
StartLoadPlayer(s, a) ==
    /\ phase = "sessions" /\ s \in todo
    /\ gameSessions' = gameSessions \ {s}
    /\ IF a \in signedIn
       THEN UNCHANGED <<signedIn, databaseVars>>
       ELSE signedIn' = signedIn \cup {a} /\ Database!Issue(Select(s, a))
    /\ Enter(phase, map, todo \ {s})
    /\ UNCHANGED <<newSessions, idle, matchVars, row, historyVars>>

EndSessions ==
    /\ phase = "sessions" /\ todo = {}
    /\ Enter("transfers", 1, {})
    /\ UNCHANGED <<connectionVars, matchVars, signedIn, row, databaseVars, historyVars>>

\* Sessions that were transferred here enter the match under a new identifier,
\* with a copy of their player whose map is this one.
UpdateTransfers ==
    /\ phase = "transfers"
    /\ inMatch' = [inMatch EXCEPT ![map] = @ \cup transfers[map]]
    /\ transfers' = [transfers EXCEPT ![map] = {}]
    /\ Enter("jumps", map, jumping \cap inMatch'[map])
    /\ UNCHANGED <<connectionVars, account, jumping, leaving, progress, signedIn, row, databaseVars, historyVars>>

\* A jump takes a while, then moves the session to the transfers of another
\* map, or of this one.
UpdateJump(s) ==
    /\ phase = "jumps" /\ s \in todo
    /\ \/ UNCHANGED <<inMatch, transfers, jumping>>
       \/ /\ jumping' = jumping \ {s}
          /\ inMatch' = [inMatch EXCEPT ![map] = @ \ {s}]
          /\ \E destination \in Maps : transfers' = [transfers EXCEPT ![destination] = @ \cup {s}]
    /\ Enter(phase, map, todo \ {s})
    /\ UNCHANGED <<connectionVars, account, leaving, progress, signedIn, row, databaseVars, historyVars>>

\* Attacks hit players; one that dies is deleted there and then.  It is not
\* saved, and its account is not signed out.
UpdateAttacks ==
    /\ phase = "jumps" /\ todo = {}
    /\ \E killed \in SUBSET inMatch[map] : \E hit \in SUBSET (inMatch[map] \ killed) :
        /\ \A s \in hit : progress[s] < MaxProgress
        /\ progress' = [s \in Sessions |->
               CASE s \in hit -> progress[s] + 1 [] s \in killed -> 0 [] OTHER -> progress[s]]
        /\ inMatch' = [inMatch EXCEPT ![map] = @ \ killed]
        /\ stranded' = stranded \cup {account[s] : s \in killed}
        /\ account' = [s \in Sessions |-> IF s \in killed THEN NoAccount ELSE account[s]]
        /\ jumping' = jumping \ killed
        /\ leaving' = leaving \ killed
        /\ Enter("leave", map, inMatch'[map])
    /\ UNCHANGED <<connectionVars, transfers, signedIn, row, databaseVars, left, failed>>

\* A session's messages may activate a jump, start a disconnection or cancel it.
HandleMessages(s) ==
    /\ jumping' \in {jumping, jumping \cup {s}}
    /\ leaving' \in {leaving, leaving \cup {s}, leaving \ {s}}

\* Mutation: a jumping session is not timed out.
StayWhileJumping(s) ==
    /\ phase = "leave" /\ s \in todo
    /\ s \notin idle \ jumping
    /\ HandleMessages(s)
    /\ Enter(phase, map, todo \ {s})
    /\ UNCHANGED <<connectionVars, account, inMatch, transfers, progress, signedIn, row, databaseVars, historyVars>>

\* It stays unless it is idle.
StayInMatch(s) ==
    /\ phase = "leave" /\ s \in todo
    /\ s \notin idle
    /\ HandleMessages(s)
    /\ Enter(phase, map, todo \ {s})
    /\ UNCHANGED <<connectionVars, account, inMatch, transfers, progress, signedIn, row, databaseVars, historyVars>>

\* Mutation: only idle sessions are saved.
LeaveMatchUnsaved(s) ==
    /\ phase = "leave" /\ s \in todo
    /\ s \in idle \cup leaving
    /\ LET player == [map |-> map, progress |-> progress[s]] IN
        /\ IF s \in idle THEN Database!Issue(Update(account[s], player)) ELSE UNCHANGED databaseVars
        /\ left' = [left EXCEPT ![account[s]] = player]
    /\ inMatch' = [inMatch EXCEPT ![map] = @ \ {s}]
    /\ signedIn' = signedIn \ {account[s]}
    /\ account' = [account EXCEPT ![s] = NoAccount]
    /\ progress' = [progress EXCEPT ![s] = 0]
    /\ jumping' = jumping \ {s}
    /\ leaving' = leaving \ {s}
    /\ Enter(phase, map, todo \ {s})
    /\ UNCHANGED <<connectionVars, transfers, row, failed, stranded>>

\* An idle session, or one whose disconnection was started 20 seconds ago and
\* not cancelled since, is saved, erased and signed out.
LeaveMatch(s) ==
    /\ phase = "leave" /\ s \in todo
    /\ s \in idle \cup leaving
    /\ LET player == [map |-> map, progress |-> progress[s]] IN
        /\ Database!Issue(Update(account[s], player))
        /\ left' = [left EXCEPT ![account[s]] = player]
    /\ inMatch' = [inMatch EXCEPT ![map] = @ \ {s}]
    /\ signedIn' = signedIn \ {account[s]}
    /\ account' = [account EXCEPT ![s] = NoAccount]
    /\ progress' = [progress EXCEPT ![s] = 0]
    /\ jumping' = jumping \ {s}
    /\ leaving' = leaving \ {s}
    /\ Enter(phase, map, todo \ {s})
    /\ UNCHANGED <<connectionVars, transfers, row, failed, stranded>>

SavesAnswered(m) == {answer \in answered : answer[1].kind = "update" /\ answer[1].player.map = m}

\* A match ends with the callbacks of its saves, which do nothing.
EndMatch ==
    /\ phase = "leave" /\ todo = {}
    /\ Database!Collect(SavesAnswered(map))
    /\ IF map < MapCount
       THEN Enter("transfers", map + 1, {})
       ELSE Enter("loads", 1, SessionsOf({answer[1] : answer \in answered'}))
    /\ UNCHANGED <<connectionVars, matchVars, signedIn, row, historyVars>>

\* EndLoadPlayer puts the session into the match of the player's map.  After an
\* error it is not called: the session is forgotten, its account signed in.
EndLoadPlayer(answer) ==
    /\ phase \in {"loads", "drain"}
    /\ answer \in answered /\ answer[1].kind = "select"
    /\ LET s == answer[1].session
           a == answer[1].account
           outcome == answer[2]
       IN /\ IF outcome.is = "error"
             THEN stranded' = stranded \cup {a} /\ UNCHANGED <<account, inMatch, progress>>
             ELSE /\ inMatch' = [inMatch EXCEPT ![outcome.player.map] = @ \cup {s}]
                  /\ progress' = [progress EXCEPT ![s] = outcome.player.progress]
                  /\ account' = [account EXCEPT ![s] = a]
                  /\ UNCHANGED stranded
          /\ Enter(phase, map, todo \ {s})
    /\ Database!Collect({answer})
    /\ UNCHANGED <<connectionVars, transfers, jumping, leaving, signedIn, row, left, failed>>

EndUpdate ==
    /\ phase = "loads" /\ todo = {}
    /\ Enter("new", 1, {})
    /\ UNCHANGED <<connectionVars, matchVars, signedIn, row, databaseVars, historyVars>>

-----------------------------------------------------------------------------
(* The end of the main loop.                                               *)

\* A signal ends the loop; the game is unsubscribed and deleted.
Stop ==
    /\ phase = "new"
    /\ Enter("drain", 1, {})
    /\ UNCHANGED <<connectionVars, matchVars, signedIn, row, databaseVars, historyVars>>

\* ~Game runs the callbacks of all loads, then it deletes its sessions.
DeleteGame ==
    /\ phase = "drain"
    /\ Loading = {}
    /\ gameSessions' = {}
    /\ Enter("destroy", 1, {})
    /\ UNCHANGED <<newSessions, idle, matchVars, signedIn, row, databaseVars, historyVars>>

\* Mutation: ~Match polls its callbacks once and does not wait.
DeleteMatchAtOnce ==
    /\ phase = "destroy"
    /\ Database!Collect(SavesAnswered(map))
    /\ inMatch' = [inMatch EXCEPT ![map] = {}]
    /\ transfers' = [transfers EXCEPT ![map] = {}]
    /\ IF map < MapCount
       THEN Enter("destroy", map + 1, {}) /\ UNCHANGED newSessions
       ELSE Enter("deleted", 1, {}) /\ newSessions' = {}
    /\ UNCHANGED <<gameSessions, idle, account, jumping, leaving, progress, signedIn, row, historyVars>>

\* ~Match waits for all its saves, then closes and deletes its sessions, which
\* it does not save.  ~Game ends with the sessions never taken over.
DeleteMatch ==
    /\ phase = "destroy"
    /\ \A st \in Range(pending) : ~(st.kind = "update" /\ st.player.map = map)
    /\ Database!Collect(SavesAnswered(map))
    /\ inMatch' = [inMatch EXCEPT ![map] = {}]
    /\ transfers' = [transfers EXCEPT ![map] = {}]
    /\ IF map < MapCount
       THEN Enter("destroy", map + 1, {}) /\ UNCHANGED newSessions
       ELSE Enter("deleted", 1, {}) /\ newSessions' = {}
    /\ UNCHANGED <<gameSessions, idle, account, jumping, leaving, progress, signedIn, row, historyVars>>

\* Only then is the database closed.
CloseDatabase ==
    /\ phase = "deleted"
    /\ Database!Drop
    /\ Enter("closed", 1, {})
    /\ UNCHANGED <<connectionVars, matchVars, signedIn, row, historyVars>>

-----------------------------------------------------------------------------
GameUpdate ==
    \/ AddNewSessions
    \/ \E s \in Sessions :
        \/ UpdateGameSession(s)
        \/ \E a \in AccountIDs : StartLoadPlayer(s, a)
        \/ UpdateJump(s)
        \/ StayInMatch(s)
        \/ LeaveMatch(s)
    \/ EndSessions
    \/ UpdateTransfers
    \/ UpdateAttacks
    \/ EndMatch
    \/ \E answer \in answered : EndLoadPlayer(answer)
    \/ EndUpdate

Shutdown == DeleteGame \/ DeleteMatch \/ CloseDatabase

GameNext ==
    \/ \E s \in Sessions : NotifySession(s) \/ TimeOut(s)
    \/ Execute
    \/ GameUpdate
    \/ Stop
    \/ Shutdown

GameSpec == GameInit /\ [][GameNext]_gameVars

\* The main thread goes on, and the server answers every statement.
FairGameSpec == GameSpec /\ WF_gameVars(GameUpdate) /\ WF_gameVars(Shutdown) /\ WF_gameVars(Execute)

-----------------------------------------------------------------------------
GameTypeOK ==
    /\ newSessions \subseteq Sessions
    /\ gameSessions \subseteq Sessions
    /\ idle \subseteq Sessions
    /\ account \in [Sessions -> AccountIDs \cup {NoAccount}]
    /\ inMatch \in [Maps -> SUBSET Sessions]
    /\ transfers \in [Maps -> SUBSET Sessions]
    /\ jumping \subseteq Sessions
    /\ leaving \subseteq Sessions
    /\ progress \in [Sessions -> 0 .. MaxProgress]
    /\ signedIn \subseteq AccountIDs
    /\ row \in [AccountIDs -> Players]
    /\ pending \in Seq(Statements)
    /\ answered \subseteq Statements \X Outcomes
    /\ phase \in {"new", "sessions", "transfers", "jumps", "leave", "loads",
                  "drain", "destroy", "deleted", "closed"}
    /\ map \in Maps
    /\ todo \subseteq Sessions
    /\ left \in [AccountIDs -> Players]
    /\ failed \subseteq AccountIDs
    /\ stranded \subseteq AccountIDs

\* Where a session is, and the accounts the sessions past signing in play.
Places(s) ==
    (IF s \in newSessions THEN 1 ELSE 0) + (IF s \in gameSessions THEN 1 ELSE 0) +
    (IF s \in Loading THEN 1 ELSE 0) +
    Cardinality({m \in Maps : s \in inMatch[m]}) + Cardinality({m \in Maps : s \in transfers[m]})

LoadsOf(a) == {st \in Range(pending) \cup AnsweredStatements : st.kind = "select" /\ st.account = a}

PlayersOf(a) == {s \in Playing : account[s] = a}

\* An account is played by one session at a time, and its session is in one
\* place: not in two matches, and not in one while it is being loaded.  An
\* account is signed in exactly as long as it is loaded or played; but one
\* whose player died, or whose load failed, stays signed in
\* (Game.h:115, Match.h:277 and 335, DatabaseCallback.h:22).
OneSessionPerAccount ==
    /\ \A s \in Sessions : Places(s) <= 1
    /\ phase \notin {"destroy", "deleted", "closed"} =>
        \A a \in AccountIDs :
            Cardinality(LoadsOf(a)) + Cardinality(PlayersOf(a)) + (IF a \in stranded THEN 1 ELSE 0)
            = (IF a \in signedIn THEN 1 ELSE 0)

\* A login finds what its account left the game with, however the save and the
\* login race: the account is signed out once the save is queued, before it is
\* executed (Match.h:268, 277, Game.h:91).
LoadsLatest ==
    \A answer \in answered :
        answer[2].is = "row" /\ answer[1].account \notin failed
            => answer[2].player = left[answer[1].account]

\* When the game is deleted and the database closed, every save is in the
\* database, unless the server refused it (Game.h:39, Match.h:57, Main.cpp:198).
SavesSurviveShutdown ==
    phase \in {"deleted", "closed"} =>
        /\ pending = <<>>
        /\ \A a \in AccountIDs \ failed : row[a] = left[a]

\* A player whose connection has fallen silent for good is taken out of the
\* game, wherever jumps take it meanwhile (Match.h:266, 486).
SilentPlayersLeave ==
    \A s \in Sessions : (<>[](s \in idle)) => <>[](s \notin Connected)
=============================================================================
