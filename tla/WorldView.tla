----------------------------- MODULE WorldView -----------------------------
(***************************************************************************)
(* What the clients of one GameServer::Match know of it: who is there, who *)
(* attacks whom, which collectables lie about, and whether they collect.   *)
(* A client is told all of it when it enters (S_WorldState), and every     *)
(* change afterwards.  The collections and the spawner of collectables are *)
(* modelled with it.                                                       *)
(*                                                                         *)
(* A connection delivers its messages in order, so a view is the state a   *)
(* client reaches with all that was sent to it: every Send of the match is *)
(* part of the step that sends.  How a client keeps its view is not in the *)
(* repository; here it does what the messages say, and drops the attacks   *)
(* by and on a session that it is told has gone.                           *)
(*                                                                         *)
(* Match::Update runs alone; an action is one turn of one of its loops, in *)
(* any order of the unordered maps.  Distances and timers are choices.     *)
(* Identifiers count upwards; here a new one is any that nothing refers to.*)
(***************************************************************************)
EXTENDS Naturals, FiniteSets, FiniteSetsExt

CONSTANTS
    IDs,             \* identifiers of sessions, which bound their number
    MaxPlayers,      \* bounds on the players and on the NPCs in the match
    MaxNPCs,
    CollectableIDs,  \* identifiers of collectables
    SpawnerSize,     \* collectables of the spawner
    None             \* nothing

ASSUME WorldViewAssumption ==
    /\ None \notin IDs \cup CollectableIDs
    /\ MaxPlayers \in Nat /\ MaxNPCs \in Nat
    /\ SpawnerSize \in Nat
    /\ IsFiniteSet(CollectableIDs)

VARIABLES
    clients,       \* m_Sessions, those of players
    npcs,          \* and those of NPCs
    attacks,       \* m_Attacks: <<attacker, attacked>>
    collectables,  \* m_Collectables
    collection,    \* m_Collections: of every collector, if it has one
    due,           \* timers of the spawner that are zero
    waiting,       \* and those that are not
    view,          \* what every client was told
    walkedOff,     \* history: clients whose collection ended out of reach
                   \* after they were told that they collect
    phase,         \* the loop of Match::Update
    todo,          \* what it has still to visit
    current        \* the session being updated

sessionVars == <<clients, npcs>>
collectVars == <<collectables, collection, due, waiting, walkedOff>>
loopVars == <<phase, todo, current>>
vars == <<sessionVars, attacks, collectVars, view, loopVars>>

NoCollection == [what |-> None, told |-> FALSE, moved |-> FALSE]
NoView == [sessions |-> {}, attacks |-> {}, collectables |-> {}, collecting |-> None]

Init ==
    /\ clients = {} /\ npcs = {}
    /\ attacks = {}
    /\ collectables = {}
    /\ collection = [i \in IDs |-> NoCollection]
    /\ due = SpawnerSize /\ waiting = 0
    /\ view = [i \in IDs |-> NoView]
    /\ walkedOff = {}
    /\ phase = "enter" /\ todo = {} /\ current = None

Sessions == clients \cup npcs
Attackers == {attack[1] : attack \in attacks}
Parties(entries) == UNION {{attack[1], attack[2]} : attack \in entries}
Collectors == {i \in IDs : collection[i] # NoCollection}

\* CalculateNextID.
NewIDs ==
    IDs \ (Sessions \cup Parties(attacks) \cup Collectors
           \cup UNION {Parties(view[c].attacks) : c \in clients})
NewCollectableIDs ==
    CollectableIDs \ (collectables \cup {collection[i].what : i \in Collectors})

-----------------------------------------------------------------------------
(* The messages: what each changes in a view.  They go to the clients that  *)
(* are in m_Sessions; an NPC keeps no view.                                *)

SendNewPlayer(i, v) == [v EXCEPT !.sessions = @ \cup {i}]

\* S_Disconnection, S_SomeoneDies and S_SomeoneJumps.
SendSomeoneGone(i, v) ==
    [v EXCEPT !.sessions = @ \ {i},
              !.attacks = {attack \in @ : i \notin {attack[1], attack[2]}}]

\* S_StartAttack to all but the attacker, who gets S_AttackResponse.
SendStartAttack(started, v) == [v EXCEPT !.attacks = @ \cup started]

\* S_StopAttack; S_CancelAttack to the attacker.
SendStopAttack(a, v) == [v EXCEPT !.attacks = {attack \in @ : attack[1] # a}]

SendCollectableSpawn(spawned, v) == [v EXCEPT !.collectables = @ \cup spawned]

SendCollectableDespawn(k, v) == [v EXCEPT !.collectables = @ \ {k}]

SendCollecting(k, v) == [v EXCEPT !.collecting = k]

\* S_WorldState lists all that is in the match's maps.
WorldState(i) ==
    [sessions |-> Sessions, attacks |-> attacks, collectables |-> collectables, collecting |-> None]

-----------------------------------------------------------------------------
(* AddSession, UpdateTransfers, UpdateNPCSpawner, UpdateCollectableSpawner. *)

\* The others are told of a newcomer, which is inserted at last.
Enter(i) ==
    /\ phase = "enter"
    /\ i \in NewIDs
    /\ \/ /\ Cardinality(clients) < MaxPlayers
          /\ clients' = clients \cup {i}
          /\ UNCHANGED npcs
          /\ view' = [c \in IDs |-> CASE c = i -> WorldState(i)
                                      [] c \in clients -> SendNewPlayer(i, view[c])
                                      [] OTHER -> NoView]
       \/ /\ Cardinality(npcs) < MaxNPCs
          /\ npcs' = npcs \cup {i}
          /\ UNCHANGED clients
          /\ view' = [c \in IDs |-> IF c \in clients THEN SendNewPlayer(i, view[c]) ELSE NoView]
    /\ UNCHANGED <<attacks, collectVars, loopVars>>

\* Every timer that is zero gives a collectable; of the others, some get there.
UpdateCollectableSpawner ==
    /\ phase = "enter"
    /\ \E spawned \in kSubset(due, NewCollectableIDs) :
        /\ collectables' = collectables \cup spawned
        /\ view' = [c \in IDs |-> IF c \in clients
                                  THEN SendCollectableSpawn(spawned, view[c])
                                  ELSE NoView]
    /\ \E elapsed \in 0 .. waiting : due' = elapsed /\ waiting' = waiting - elapsed
    /\ phase' = "jumps"
    /\ UNCHANGED <<sessionVars, attacks, collection, walkedOff, todo, current>>

\* A session is erased and the others are told.
Leave(i) ==
    /\ clients' = clients \ {i}
    /\ npcs' = npcs \ {i}
    /\ walkedOff' = walkedOff \ {i}
    /\ view' = [c \in IDs |-> IF c \in clients \ {i} THEN SendSomeoneGone(i, view[c]) ELSE NoView]

\* UpdateJumps: some players are taken to another map.
JumpEnds(j) ==
    /\ phase = "jumps" /\ j \in clients
    /\ Leave(j)
    /\ UNCHANGED <<attacks, collectables, collection, due, waiting, loopVars>>

EndJumps ==
    /\ phase = "jumps"
    /\ phase' = "attacks" /\ todo' = attacks
    /\ UNCHANGED <<sessionVars, attacks, collectVars, view, current>>

-----------------------------------------------------------------------------
(* UpdateAttacks.                                                          *)

VisitAttack(attack) == phase = "attacks" /\ attack \in todo

Present(attack) == {attack[1], attack[2]} \subseteq Sessions

\* Entries leave m_Attacks, and the walk over it.
EraseAttacks(gone) ==
    /\ attacks' = attacks \ gone
    /\ todo' = todo \ gone
    /\ UNCHANGED <<phase, current>>

\* An attack whose attacker or attacked has gone is erased without a message.
DropAttack(attack) ==
    /\ VisitAttack(attack) /\ ~Present(attack)
    /\ EraseAttacks({attack})
    /\ UNCHANGED <<sessionVars, collectVars, view>>

AttackGoesOn(attack) ==
    /\ VisitAttack(attack) /\ Present(attack)
    /\ todo' = todo \ {attack}
    /\ UNCHANGED <<sessionVars, attacks, collectVars, view, phase, current>>

\* On a protected session it is cancelled: S_CancelAttack to the attacker,
\* S_StopAttack to the others.
AttackCancelled(attack) ==
    /\ VisitAttack(attack) /\ Present(attack)
    /\ EraseAttacks({attack})
    /\ view' = [c \in IDs |-> SendStopAttack(attack[1], view[c])]
    /\ UNCHANGED <<sessionVars, collectVars>>

\* The attacked dies.  The others are told of the death, not of its attacks.
AttackedDead(attack) ==
    /\ VisitAttack(attack) /\ Present(attack) /\ attack[1] # attack[2]
    /\ EraseAttacks({a \in attacks : a = attack \/ a[1] = attack[2]})
    /\ Leave(attack[2])
    /\ UNCHANGED <<collectables, collection, due, waiting>>

\* A client that kills itself: its attack is erased twice, and what the program
\* does from there on is undefined.
KillsItself(attack) ==
    /\ VisitAttack(attack) /\ Present(attack) /\ attack[1] = attack[2]
    /\ phase' = "undefined" /\ todo' = {}
    /\ UNCHANGED <<sessionVars, attacks, collectVars, view, current>>

\* Nothing is said of it any more.
Undefined == phase = "undefined" /\ UNCHANGED vars

EndAttacks ==
    /\ phase = "attacks" /\ todo = {}
    /\ phase' = "collections" /\ todo' = Collectors
    /\ UNCHANGED <<sessionVars, attacks, collectVars, view, current>>

-----------------------------------------------------------------------------
(* UpdateCollections and Collection::Update.                               *)

VisitCollection(i) == phase = "collections" /\ i \in todo

Visited(i) == todo' = todo \ {i} /\ UNCHANGED <<phase, current>>

EraseCollection(i) == collection' = [collection EXCEPT ![i] = NoCollection]

\* The collection of a collector that has gone is dropped ...
DropCollection(i) ==
    /\ VisitCollection(i) /\ i \notin Sessions
    /\ EraseCollection(i)
    /\ Visited(i)
    /\ UNCHANGED <<sessionVars, attacks, collectables, due, waiting, walkedOff, view>>

\* Mutation: the collector gets no result.
CollectedByAnotherSilently(i) ==
    /\ VisitCollection(i) /\ i \in Sessions
    /\ collection[i].what \notin collectables
    /\ EraseCollection(i)
    /\ Visited(i)
    /\ UNCHANGED <<sessionVars, attacks, collectables, due, waiting, walkedOff, view>>

\* S_CollectionResult to the collector.
SendCollectionResult(i, v) ==
    /\ view' = [v EXCEPT ![i].collecting = None]
    /\ walkedOff' = walkedOff \ {i}

\* ... one whose collectable has gone is answered and dropped, ...
CollectedByAnother(i) ==
    /\ VisitCollection(i) /\ i \in Sessions
    /\ collection[i].what \notin collectables
    /\ SendCollectionResult(i, view)
    /\ EraseCollection(i)
    /\ Visited(i)
    /\ UNCHANGED <<sessionVars, attacks, collectables, due, waiting>>

Collecting(i) ==
    /\ VisitCollection(i) /\ i \in Sessions
    /\ collection[i].what \in collectables

\* ... out of reach it goes on, its timer running, ...
StillWalking(i) ==
    /\ Collecting(i) /\ ~collection[i].moved
    /\ Visited(i)
    /\ UNCHANGED <<sessionVars, attacks, collectVars, view>>

\* ... unless the collector is on its way to somewhere else: then it ends
\* without a message, even if the collector was told that it collects.
CancelledBeforeCollecting(i) ==
    /\ Collecting(i) /\ collection[i].moved
    /\ walkedOff' = IF collection[i].told THEN walkedOff \cup {i} ELSE walkedOff
    /\ EraseCollection(i)
    /\ Visited(i)
    /\ UNCHANGED <<sessionVars, attacks, collectables, due, waiting, view>>

\* Within reach the collector is told once that it collects (S_Collecting); a
\* collector on its way to somewhere else gives up, ...
CancelledWhileCollecting(i) ==
    /\ Collecting(i) /\ collection[i].moved
    /\ SendCollectionResult(i, view)
    /\ EraseCollection(i)
    /\ Visited(i)
    /\ UNCHANGED <<sessionVars, attacks, collectables, due, waiting>>

\* ... while the timer runs the collection goes on, ...
CollectingGoesOn(i) ==
    /\ Collecting(i) /\ ~collection[i].moved
    /\ collection' = [collection EXCEPT ![i].told = TRUE]
    /\ IF collection[i].told
       THEN UNCHANGED <<view, walkedOff>>
       ELSE /\ view' = [view EXCEPT ![i] = SendCollecting(collection[i].what, @)]
            /\ walkedOff' = walkedOff \ {i}
    /\ Visited(i)
    /\ UNCHANGED <<sessionVars, attacks, collectables, due, waiting>>

\* Mutation: the collectable is not looked up first.
CollectedUnseen(i) ==
    /\ VisitCollection(i) /\ i \in Sessions /\ ~collection[i].moved
    /\ SendCollectionResult(i,
            [c \in IDs |-> SendCollectableDespawn(collection[i].what, view[c])])
    /\ collectables' = collectables \ {collection[i].what}
    /\ waiting' = waiting + 1
    /\ EraseCollection(i)
    /\ Visited(i)
    /\ UNCHANGED <<sessionVars, attacks, due>>

\* ... and at its end the collector gets it, all are told that it is gone, and
\* the spawner starts a timer.
Collected(i) ==
    /\ Collecting(i) /\ ~collection[i].moved
    /\ SendCollectionResult(i,
            [c \in IDs |-> SendCollectableDespawn(collection[i].what, view[c])])
    /\ collectables' = collectables \ {collection[i].what}
    /\ waiting' = waiting + 1
    /\ EraseCollection(i)
    /\ Visited(i)
    /\ UNCHANGED <<sessionVars, attacks, due>>

EndCollections ==
    /\ phase = "collections" /\ todo = {}
    /\ phase' = "sessions" /\ todo' = Sessions
    /\ UNCHANGED <<sessionVars, attacks, collectVars, view, current>>

-----------------------------------------------------------------------------
(* UpdateSessions: the messages of a client, or the AI of an NPC.          *)

UpdateSession(i) ==
    /\ phase = "sessions" /\ i \in todo /\ current = None
    /\ current' = i
    /\ todo' = todo \ {i}
    /\ UNCHANGED <<sessionVars, attacks, collectVars, view, phase>>

\* StartAttack by one that attacks nobody yet, on one that is there and may be
\* attacked.  A client may attack itself; AIs attack other factions only.  An
\* NPC that is attacked may attack back inside the same call.
StartAttack(a, b) ==
    /\ current = a /\ b \in Sessions
    /\ b = a => a \in clients
    /\ a \notin Attackers
    /\ \E answered \in BOOLEAN :
        LET started == {<<a, b>>} \cup (IF answered THEN {<<b, a>>} ELSE {})
        IN /\ answered => b \in npcs \ Attackers /\ b # a
           /\ attacks' = attacks \cup started
           /\ view' = [c \in IDs |-> IF c \in clients THEN SendStartAttack(started, view[c]) ELSE NoView]
    /\ UNCHANGED <<sessionVars, collectVars, loopVars>>

\* Mutation: only the others are told.
StopAttackTellsOthers(a) ==
    /\ current = a /\ a \in clients
    /\ attacks' = {attack \in attacks : attack[1] # a}
    /\ view' = [c \in IDs |-> IF c = a THEN view[c] ELSE SendStopAttack(a, view[c])]
    /\ UNCHANGED <<sessionVars, collectVars, loopVars>>

\* HandleStopAttack: all are told, the attacker too.
StopAttack(a) ==
    /\ current = a /\ a \in clients
    /\ attacks' = {attack \in attacks : attack[1] # a}
    /\ view' = [c \in IDs |-> SendStopAttack(a, view[c])]
    /\ UNCHANGED <<sessionVars, collectVars, loopVars>>

\* HandleCollect: nothing while an earlier collection is listed, or when the
\* collectable has gone.
Collect(i, k) ==
    /\ current = i /\ i \in clients
    /\ i \notin Collectors
    /\ k \in collectables
    /\ collection' = [collection EXCEPT ![i] = [what |-> k, told |-> FALSE, moved |-> FALSE]]
    /\ UNCHANGED <<sessionVars, attacks, collectables, due, waiting, walkedOff, view, loopVars>>

\* HandleMovement: the destination becomes another than the collection began
\* with, or the same again.
Movement(i, elsewhere) ==
    /\ current = i /\ i \in clients
    /\ i \in Collectors
    /\ collection' = [collection EXCEPT ![i].moved = elsewhere]
    /\ UNCHANGED <<sessionVars, attacks, collectables, due, waiting, walkedOff, view, loopVars>>

StayInMatch(i) ==
    /\ current = i
    /\ current' = None
    /\ UNCHANGED <<sessionVars, attacks, collectVars, view, phase, todo>>

\* A client that is idle or disconnects.
LeaveMatch(i) ==
    /\ current = i /\ i \in clients
    /\ Leave(i)
    /\ current' = None
    /\ UNCHANGED <<attacks, collectables, collection, due, waiting, phase, todo>>

EndUpdate ==
    /\ phase = "sessions" /\ todo = {} /\ current = None
    /\ phase' = "enter"
    /\ UNCHANGED <<sessionVars, attacks, collectVars, view, todo, current>>

-----------------------------------------------------------------------------
UpdateJumps == (\E j \in IDs : JumpEnds(j)) \/ EndJumps

UpdateAttacks ==
    \/ \E attack \in attacks :
        \/ DropAttack(attack) \/ AttackGoesOn(attack) \/ AttackCancelled(attack)
        \/ AttackedDead(attack) \/ KillsItself(attack)
    \/ EndAttacks

UpdateCollection(i) ==
    \/ DropCollection(i)
    \/ CollectedByAnother(i)
    \/ StillWalking(i)
    \/ CancelledBeforeCollecting(i)
    \/ CancelledWhileCollecting(i)
    \/ CollectingGoesOn(i)
    \/ Collected(i)

UpdateCollections == (\E i \in IDs : UpdateCollection(i)) \/ EndCollections

UpdateSessions ==
    \/ \E i \in IDs :
        \/ UpdateSession(i)
        \/ \E b \in IDs : StartAttack(i, b)
        \/ StopAttack(i)
        \/ \E k \in CollectableIDs : Collect(i, k)
        \/ \E elsewhere \in BOOLEAN : Movement(i, elsewhere)
        \/ StayInMatch(i)
        \/ LeaveMatch(i)
    \/ EndUpdate

Next ==
    \/ \E i \in IDs : Enter(i)
    \/ UpdateCollectableSpawner
    \/ UpdateJumps
    \/ UpdateAttacks
    \/ UpdateCollections
    \/ UpdateSessions
    \/ Undefined

Spec == Init /\ [][Next]_vars

-----------------------------------------------------------------------------
TypeOK ==
    /\ clients \subseteq IDs /\ npcs \subseteq IDs
    /\ attacks \subseteq IDs \X IDs
    /\ collectables \subseteq CollectableIDs
    /\ collection \in [IDs -> [what : CollectableIDs \cup {None}, told : BOOLEAN, moved : BOOLEAN]]
    /\ due \in Nat /\ waiting \in Nat
    /\ view \in [IDs -> [sessions : SUBSET IDs, attacks : SUBSET (IDs \X IDs),
                         collectables : SUBSET CollectableIDs,
                         collecting : CollectableIDs \cup {None}]]
    /\ walkedOff \subseteq clients
    /\ phase \in {"enter", "jumps", "attacks", "collections", "sessions", "undefined"}
    /\ current \in Sessions \cup {None}

\* Every client knows exactly who else is there, whatever happens between the
\* list it was sent and the messages after it (Match.h:94, 196).
KnowsWhoIsThere == \A c \in clients : view[c].sessions = Sessions \ {c}

\* Of those who are there, it knows exactly who attacks whom: entries that are
\* erased without a message have lost a party (Match.h:314, 330).
KnowsTheAttacks ==
    \A c \in clients : {attack \in view[c].attacks : Present(attack)} = {attack \in attacks : Present(attack)}

\* And it knows the collectables that can be collected (Match.h:455, 556).
KnowsTheCollectables == \A c \in clients : view[c].collectables = collectables

ViewsAgree == KnowsWhoIsThere /\ KnowsTheAttacks /\ KnowsTheCollectables

\* A client that was told that it collects is collecting or gets a result,
\* whoever else collects the same, but for one: it walked out of reach before
\* the next update saw it leave (Collection.cpp:19).
CollectingIsAnswered ==
    \A c \in clients \ walkedOff : view[c].collecting # None =>
        /\ collection[c].what = view[c].collecting
        /\ collection[c].told

\* Collectables and timers are as many as the spawner was configured with: what
\* several collect at a time is collected and spawned again once (Match.h:459).
CollectablesKept == Cardinality(collectables) + due + waiting = SpawnerSize
=============================================================================
