--------------------------- MODULE SessionPairing ---------------------------
(***************************************************************************)
(* The Acceptor with what main builds around it: GameServer::SessionBuilder *)
(* pairs the two notifications of every accept, first the SessionExtension *)
(* made with the session hook, then the connection, to one Session, which  *)
(* the Game is given.  The acceptor thread runs before main has subscribed *)
(* the builder to its two subjects and the game to the builder, and longer *)
(* than they are subscribed.  Every subscription and notification holds a  *)
(* mutex and is one step.                                                  *)
(*                                                                         *)
(* A connection is its number, and so is the extension made for it.        *)
(***************************************************************************)
EXTENDS Acceptor

VARIABLES
    main,       \* how far main has come
    extension,  \* m_SessionExtension of the builder
    sessions,   \* history: sessions built: their connection and extension, and
                \* whether the game was given it
    early       \* history: connections hooked while the builder was not
                \* subscribed to the extensions

pairingVars == <<extension, sessions, early>>
allVars == <<vars, main, pairingVars>>

\* main's statements that matter here, each with the next.
Steps == {<<"started", "acceptor">>, <<"acceptor", "subject">>, <<"subject", "world">>,
          <<"world", "no world">>, <<"no world", "world deleted">>, <<"world deleted", "no subject">>,
          <<"no subject", "no acceptor">>, <<"no acceptor", "builder deleted">>}

\* Who is subscribed to whom.
BuilderHearsConnections == main \notin {"started", "no acceptor", "builder deleted"}
BuilderHearsExtensions == main \in {"subject", "world", "no world", "world deleted"}
GameHearsSessions == main = "world"

PairingInit ==
    /\ Init
    /\ main = "started"
    /\ extension = None
    /\ sessions = {}
    /\ early = {}

\* main subscribes the builder to the acceptor, then to the extensions, and the
\* game to the builder; when the main loop ends, or when a database could not be
\* opened, it takes all of it back and deletes the game and the builder.
MainGoesOn ==
    /\ \E step \in Steps : main = step[1] /\ main' = step[2]
    /\ UNCHANGED <<vars, pairingVars>>

\* SessionHookFactory::Create makes the extension, of which the subject's
\* observers are told.
CreateSessionHook ==
    /\ AcceptHooks
    /\ IF BuilderHearsExtensions
       THEN extension' = accepted + 1 /\ UNCHANGED early
       ELSE early' = early \cup {accepted + 1} /\ UNCHANGED extension
    /\ UNCHANGED <<main, sessions>>

\* Mutation: the extension is kept.
NotifyConnectionKeeps ==
    /\ AcceptNotifies
    /\ sessions' = IF BuilderHearsConnections
                   THEN sessions \cup {[connection |-> accepted, extension |-> extension,
                                        given |-> GameHearsSessions]}
                   ELSE sessions
    /\ UNCHANGED <<main, extension, early>>

\* NotifyConnection builds the session with the extension that it holds and
\* forgets that; the session goes to the game, or to nobody.
NotifyConnection ==
    /\ AcceptNotifies
    /\ IF BuilderHearsConnections
       THEN /\ sessions' = sessions \cup {[connection |-> accepted, extension |-> extension,
                                           given |-> GameHearsSessions]}
            /\ extension' = None
       ELSE UNCHANGED <<sessions, extension>>
    /\ UNCHANGED <<main, early>>

PairingClose ==
    /\ main = "builder deleted"
    /\ CloseMark

Accepting ==
    \/ CreateSessionHook
    \/ NotifyConnection
    \/ (Start \/ Reaccept) /\ UNCHANGED <<main, pairingVars>>

Ending == Close /\ UNCHANGED <<main, pairingVars>>

ThreadEnds(t) == NetworkThreadEnds(t) /\ UNCHANGED <<main, pairingVars>>

PairingNext ==
    \/ MainGoesOn
    \/ Accepting
    \/ (AcceptFails \/ AcceptSucceeds \/ PairingClose) /\ UNCHANGED <<main, pairingVars>>
    \/ Ending
    \/ \E t \in Threads : ThreadEnds(t)

PairingSpec == PairingInit /\ [][PairingNext]_allVars

\* The three kinds of thread run; a peer or an accept error need not come, and
\* nothing forces the shutdown.
Fairness ==
    /\ WF_allVars(Accepting)
    /\ WF_allVars(Ending)
    /\ \A t \in Threads : WF_allVars(ThreadEnds(t))

FairSpec == PairingSpec /\ Fairness

-----------------------------------------------------------------------------
PairingTypeOK ==
    /\ TypeOK
    /\ main \in UNION {{step[1], step[2]} : step \in Steps}
    /\ extension \in 1 .. MaxAccepts \cup {None}
    /\ sessions \subseteq [connection : 1 .. MaxAccepts,
                           extension : 1 .. MaxAccepts \cup {None}, given : BOOLEAN]
    /\ early \subseteq 1 .. MaxAccepts

\* A session never has the extension of another connection, and has its own
\* unless its hook was created while the builder was not subscribed to the
\* extensions: then it has none, and may be given to the game nevertheless when
\* the accept spans main's subscriptions (Main.cpp:155 against :180, :181, :184;
\* SessionBuilder.cpp:45).
SessionsArePaired ==
    \A s \in sessions :
        s.extension = IF s.connection \in early THEN None ELSE s.connection
=============================================================================
