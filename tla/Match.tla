------------------------------- MODULE Match -------------------------------
(***************************************************************************)
(* One map: GameServer::Match with its sessions, which are players or NPCs *)
(* of a spawner, the attacks and jumps under way, and the enemies the NPCs *)
(* have in mind.  Attacks, jumps and NPCs keep pointers to sessions; a     *)
(* session goes when it jumps, dies or leaves, and the others are told.    *)
(*                                                                         *)
(* The main thread runs Match::Update alone; an action is one turn of one  *)
(* of its loops, and loops visit unordered maps in any order.  Positions,  *)
(* timers and damage are left open: whether somebody is in range, may be   *)
(* attacked (IsPvP) or dies is a choice.  Who enters and leaves the game   *)
(* besides is in Accounts.  Identifiers count upwards and never come back. *)
(***************************************************************************)
EXTENDS Naturals, FiniteSets

CONSTANTS
    MaxID,           \* bound on the identifiers, thus on the sessions there ever are
    MaxPlayers,      \* bound on the players in the match
    AggressiveSize,  \* NPCs of the spawner whose AI is FullAggresive
    DefensiveSize,   \* and of the one whose AI is Defensive
    None             \* nullptr

ASSUME MatchAssumption ==
    /\ MaxPlayers \in Nat /\ MaxID \in Nat
    /\ AggressiveSize \in Nat /\ DefensiveSize \in Nat
    /\ AggressiveSize + DefensiveSize <= MaxID
    /\ None \notin Nat

IDs == 0 .. MaxID - 1

Spawners == {"FullAggresive", "Defensive"}
Size(p) == IF p = "FullAggresive" THEN AggressiveSize ELSE DefensiveSize

VARIABLES
    players,     \* m_Sessions, those of players
    npcs,        \* and those of every spawner's NPCs
    nextID,      \* m_NextID
    attacks,     \* m_Attacks: <<attacker, attacked>>
    jumps,       \* m_Jumps
    dangling,    \* history: attacks and <<jump>>s that point to a gone session
    enemy,       \* m_Enemy of every NPC's AI
    target,      \* m_Target of every defensive NPC's AI
    distracted,  \* history: NPCs that chose an enemy while their last attack was
                 \* still listed
    due,         \* timers of every spawner that are zero
    waiting,     \* and those that are not
    phase,       \* the loop of Match::Update
    todo,        \* what it has still to visit
    current      \* the session being updated

timerVars == <<due, waiting>>
minds == <<enemy, target, distracted>>
entries == <<attacks, jumps, dangling>>
loopVars == <<phase, todo, current>>
vars == <<players, npcs, nextID, entries, minds, timerVars, loopVars>>

Init ==
    /\ players = {}
    /\ npcs = [p \in Spawners |-> {}]
    /\ nextID = 0
    /\ attacks = {} /\ jumps = {} /\ dangling = {}
    /\ enemy = [i \in IDs |-> None]
    /\ target = [i \in IDs |-> None]
    /\ distracted = {}
    /\ due = [p \in Spawners |-> Size(p)]
    /\ waiting = [p \in Spawners |-> 0]
    /\ phase = "enter" /\ todo = {} /\ current = None

NPCs == UNION {npcs[p] : p \in Spawners}
InMatch == players \cup NPCs
Attackers == {attack[1] : attack \in attacks}

\* Entries that point to a session that goes now.
PointsTo(i) == {attack \in attacks : i \in {attack[1], attack[2]}} \cup {<<j>> : j \in jumps \cap {i}}

\* Every NPC hears of it and forgets the session; its own mind goes with it.
SomeoneDisappear(i) ==
    /\ target' = [n \in IDs |-> IF target[n] = i \/ n = i THEN None ELSE target[n]]
    /\ enemy' = [n \in IDs |-> IF enemy[n] = i \/ n = i THEN None ELSE enemy[n]]
    /\ distracted' = {n \in distracted : enemy[n] # i /\ n # i}

-----------------------------------------------------------------------------
(* UpdateTransfers, UpdateNPCSpawner and UpdateJumps.                      *)

Due(timers) == timers["FullAggresive"] + timers["Defensive"]

\* A player that was loaded or transferred gets the next identifier; the bound
\* on them leaves enough for the NPCs that are due.
PlayerEnters ==
    /\ phase = "enter"
    /\ Cardinality(players) < MaxPlayers
    /\ nextID + Due(due) < MaxID
    /\ players' = players \cup {nextID}
    /\ nextID' = nextID + 1
    /\ UNCHANGED <<npcs, entries, minds, timerVars, loopVars>>

\* The identifiers that CalculateNextID gives to the NPCs of a spawner, one
\* spawner after the other.
Spawned(p) ==
    LET first == IF p = "FullAggresive" THEN nextID ELSE nextID + due["FullAggresive"]
    IN first .. first + due[p] - 1

\* The timers that are zero each give an NPC; of the others, some get there, as
\* far as the bound on the identifiers lets them.
UpdateNPCSpawner ==
    /\ phase = "enter"
    /\ npcs' = [p \in Spawners |-> npcs[p] \cup Spawned(p)]
    /\ nextID' = nextID + Due(due)
    /\ \E elapsed \in [Spawners -> 0 .. AggressiveSize + DefensiveSize] :
        /\ \A p \in Spawners : elapsed[p] <= waiting[p]
        /\ nextID' + Due(elapsed) <= MaxID
        /\ due' = elapsed
        /\ waiting' = [p \in Spawners |-> waiting[p] - elapsed[p]]
    /\ phase' = "jumps" /\ todo' = {<<j>> : j \in jumps}
    /\ UNCHANGED <<players, entries, minds, current>>

Visited(entry) == todo' = todo \ {entry} /\ UNCHANGED <<phase, current>>

\* A jump of a session that has gone is dropped ...
DropJump(j) ==
    /\ phase = "jumps" /\ <<j>> \in todo
    /\ j \notin InMatch
    /\ jumps' = jumps \ {j}
    /\ dangling' = dangling \ {<<j>>}
    /\ Visited(<<j>>)
    /\ UNCHANGED <<players, npcs, nextID, attacks, minds, timerVars>>

\* ... one whose time has not come stays, ...
JumpGoesOn(j) ==
    /\ phase = "jumps" /\ <<j>> \in todo
    /\ j \in InMatch
    /\ Visited(<<j>>)
    /\ UNCHANGED <<players, npcs, nextID, entries, minds, timerVars>>

\* ... and the others take the jumper to the transfers of another map.
JumpEnds(j) ==
    /\ phase = "jumps" /\ <<j>> \in todo
    /\ j \in InMatch
    /\ SomeoneDisappear(j)
    /\ players' = players \ {j}
    /\ jumps' = jumps \ {j}
    /\ dangling' = (dangling \cup PointsTo(j)) \ {<<j>>}
    /\ Visited(<<j>>)
    /\ UNCHANGED <<npcs, nextID, attacks, timerVars>>

EndJumps ==
    /\ phase = "jumps" /\ todo = {}
    /\ phase' = "attacks" /\ todo' = attacks
    /\ UNCHANGED <<players, npcs, nextID, entries, minds, timerVars, current>>

-----------------------------------------------------------------------------
(* UpdateAttacks.                                                          *)

Erase(gone) ==
    /\ attacks' = attacks \ gone
    /\ todo' = todo \ gone

\* An attack by or on a session that has gone is dropped.
DropAttack(attack) ==
    /\ phase = "attacks" /\ attack \in todo
    /\ ~({attack[1], attack[2]} \subseteq InMatch)
    /\ Erase({attack})
    /\ dangling' = dangling \ {attack}
    /\ UNCHANGED <<players, npcs, nextID, jumps, minds, timerVars, phase, current>>

\* Mutation: only the attacker is looked up.
AttackGoesOnUnchecked(attack) ==
    /\ phase = "attacks" /\ attack \in todo
    /\ attack[1] \in InMatch
    /\ Visited(attack)
    /\ UNCHANGED <<players, npcs, nextID, entries, minds, timerVars>>

\* One that waits, misses, hits or is out of range goes on.
AttackGoesOn(attack) ==
    /\ phase = "attacks" /\ attack \in todo
    /\ {attack[1], attack[2]} \subseteq InMatch
    /\ Visited(attack)
    /\ UNCHANGED <<players, npcs, nextID, entries, minds, timerVars>>

\* Mutation: the attacker is not told.
AttackCancelledSilently(attack) ==
    /\ phase = "attacks" /\ attack \in todo
    /\ {attack[1], attack[2]} \subseteq InMatch
    /\ Erase({attack})
    /\ UNCHANGED <<players, npcs, nextID, jumps, dangling, minds, timerVars, phase, current>>

\* One on a session in a demilitarized area is cancelled; an attacking NPC
\* gives its enemy up.
AttackCancelled(attack) ==
    /\ phase = "attacks" /\ attack \in todo
    /\ {attack[1], attack[2]} \subseteq InMatch
    /\ Erase({attack})
    /\ enemy' = [enemy EXCEPT ![attack[1]] = None]
    /\ distracted' = distracted \ {attack[1]}
    /\ UNCHANGED <<players, npcs, nextID, jumps, dangling, target, timerVars, phase, current>>

\* Mutation: a dead NPC does not start its spawner's timer.
AttackedDeadForGood(attack) ==
    /\ phase = "attacks" /\ attack \in todo
    /\ {attack[1], attack[2]} \subseteq InMatch /\ attack[1] # attack[2]
    /\ LET dead == attack[2]
           gone == {attack} \cup {a \in attacks : a[1] = dead}
       IN /\ SomeoneDisappear(dead)
          /\ Erase(gone)
          /\ dangling' = (dangling \cup PointsTo(dead)) \ gone
          /\ players' = players \ {dead}
          /\ npcs' = [p \in Spawners |-> npcs[p] \ {dead}]
    /\ UNCHANGED <<nextID, jumps, timerVars, phase, current>>

\* The attacked dies: an NPC starts a timer of its spawner, all NPCs are told,
\* this attack and the dead one's own are erased, and the session is deleted.
AttackedDead(attack) ==
    /\ phase = "attacks" /\ attack \in todo
    /\ {attack[1], attack[2]} \subseteq InMatch /\ attack[1] # attack[2]
    /\ LET dead == attack[2]
           gone == {attack} \cup {a \in attacks : a[1] = dead}
       IN /\ SomeoneDisappear(dead)
          /\ Erase(gone)
          /\ dangling' = (dangling \cup PointsTo(dead)) \ gone
          /\ players' = players \ {dead}
          /\ npcs' = [p \in Spawners |-> npcs[p] \ {dead}]
          /\ waiting' = [p \in Spawners |-> IF dead \in npcs[p] THEN waiting[p] + 1 ELSE waiting[p]]
    /\ UNCHANGED <<nextID, jumps, due, phase, current>>

\* Nothing keeps a player from attacking itself.  When it kills itself, the
\* attack is erased as its own and then once more through the iterator that
\* pointed to it; what the program does from there on is undefined.
KillsItself(attack) ==
    /\ phase = "attacks" /\ attack \in todo
    /\ attack[1] \in InMatch /\ attack[1] = attack[2]
    /\ phase' = "undefined" /\ todo' = {}
    /\ UNCHANGED <<players, npcs, nextID, entries, minds, timerVars, current>>

\* Nothing is said of it any more.
Undefined == phase = "undefined" /\ UNCHANGED vars

EndAttacks ==
    /\ phase = "attacks" /\ todo = {}
    /\ phase' = "sessions" /\ todo' = InMatch
    /\ UNCHANGED <<players, npcs, nextID, entries, minds, timerVars, current>>

-----------------------------------------------------------------------------
(* UpdateSessions.                                                         *)

UpdateSession(i) ==
    /\ phase = "sessions" /\ i \in todo
    /\ current = None
    /\ current' = i
    /\ todo' = todo \ {i}
    /\ UNCHANGED <<players, npcs, nextID, entries, minds, timerVars, phase>>

\* StartAttack by one that attacks nobody yet, on one that may be attacked.  A
\* defensive NPC without an enemy takes the attacker for one, and attacks it
\* if it attacks nobody yet and the attacker may be attacked.
StartAttack(a, b, enemies) ==
    LET started == attacks \cup {<<a, b>>}
    IN IF b \in npcs["Defensive"] /\ enemies[b] = None
       THEN /\ enemy' = [enemies EXCEPT ![b] = a]
            /\ attacks' \in {started} \cup (IF b \in Attackers THEN {} ELSE {started \cup {<<b, a>>}})
       ELSE enemy' = enemies /\ attacks' = started

HandleStartAttack(a, b) ==
    /\ current = a /\ a \in players
    /\ b \in InMatch
    /\ a \notin Attackers
    /\ StartAttack(a, b, enemy)
    /\ UNCHANGED <<players, npcs, nextID, jumps, dangling, target, distracted, timerVars, loopVars>>

HandleStopAttack(a) ==
    /\ current = a /\ a \in players
    /\ attacks' = {attack \in attacks : attack[1] # a}
    /\ dangling' = dangling \ (attacks \ attacks')
    /\ UNCHANGED <<players, npcs, nextID, jumps, minds, timerVars, loopVars>>

HandleJump(j) ==
    /\ current = j /\ j \in players
    /\ jumps' = jumps \cup {j}
    /\ UNCHANGED <<players, npcs, nextID, attacks, dangling, minds, timerVars, loopVars>>

StayInMatch(i) ==
    /\ current = i
    /\ current' = None
    /\ UNCHANGED <<players, npcs, nextID, entries, minds, timerVars, phase, todo>>

\* Mutation: the others are not told.
LeaveMatchSilently(i) ==
    /\ current = i /\ i \in players
    /\ players' = players \ {i}
    /\ dangling' = dangling \cup PointsTo(i)
    /\ current' = None
    /\ UNCHANGED <<npcs, nextID, attacks, jumps, minds, timerVars, phase, todo>>

\* A player that is idle or disconnected is erased, then the others are told.
LeaveMatch(i) ==
    /\ current = i /\ i \in players
    /\ players' = players \ {i}
    /\ dangling' = dangling \cup PointsTo(i)
    /\ SomeoneDisappear(i)
    /\ current' = None
    /\ UNCHANGED <<npcs, nextID, attacks, jumps, timerVars, phase, todo>>

\* An aggressive NPC without an enemy attacks the first it meets that may be
\* attacked.  It asks IsAttacking to see whether it does: when an earlier
\* attack of its own is still listed, StartAttack has done nothing, and the NPC
\* believes it attacks its new enemy.
DetectEnemies(n, s) ==
    /\ current = n /\ n \in npcs["FullAggresive"]
    /\ enemy[n] = None /\ s \in InMatch \ {n}
    /\ IF n \in Attackers
       THEN /\ enemy' = [enemy EXCEPT ![n] = s]
            /\ distracted' = distracted \cup {n}
            /\ UNCHANGED attacks
       ELSE /\ StartAttack(n, s, [enemy EXCEPT ![n] = s])
            /\ UNCHANGED distracted
    /\ current' = None
    /\ UNCHANGED <<players, npcs, nextID, jumps, dangling, target, timerVars, phase, todo>>

\* A defensive NPC finds a target to follow.
DetectTargets(n, s) ==
    /\ current = n /\ n \in npcs["Defensive"]
    /\ target[n] = None /\ s \in InMatch \ {n}
    /\ target' = [target EXCEPT ![n] = s]
    /\ current' = None
    /\ UNCHANGED <<players, npcs, nextID, entries, enemy, distracted, timerVars, phase, todo>>

\* It forgets the target when it turns to its enemy.
TransitionToAggresive(n) ==
    /\ current = n /\ n \in npcs["Defensive"]
    /\ enemy[n] # None
    /\ target' = [target EXCEPT ![n] = None]
    /\ current' = None
    /\ UNCHANGED <<players, npcs, nextID, entries, enemy, distracted, timerVars, phase, todo>>

EndUpdate ==
    /\ phase = "sessions" /\ todo = {} /\ current = None
    /\ phase' = "enter"
    /\ UNCHANGED <<players, npcs, nextID, entries, minds, timerVars, todo, current>>

-----------------------------------------------------------------------------
UpdateJumps ==
    \/ \E j \in IDs : DropJump(j) \/ JumpGoesOn(j) \/ JumpEnds(j)
    \/ EndJumps

UpdateAttacks ==
    \/ \E attack \in attacks :
        \/ DropAttack(attack)
        \/ AttackGoesOn(attack)
        \/ AttackCancelled(attack)
        \/ AttackedDead(attack)
        \/ KillsItself(attack)
    \/ EndAttacks

UpdateSessions ==
    \/ \E i \in IDs :
        \/ UpdateSession(i)
        \/ HandleStopAttack(i)
        \/ HandleJump(i)
        \/ StayInMatch(i)
        \/ LeaveMatch(i)
        \/ TransitionToAggresive(i)
        \/ \E s \in IDs : HandleStartAttack(i, s) \/ DetectEnemies(i, s) \/ DetectTargets(i, s)
    \/ EndUpdate

Next ==
    \/ PlayerEnters
    \/ UpdateNPCSpawner
    \/ UpdateJumps
    \/ UpdateAttacks
    \/ UpdateSessions
    \/ Undefined

Spec == Init /\ [][Next]_vars

-----------------------------------------------------------------------------
TypeOK ==
    /\ players \subseteq IDs
    /\ npcs \in [Spawners -> SUBSET IDs]
    /\ nextID \in 0 .. MaxID
    /\ attacks \subseteq IDs \X IDs
    /\ jumps \subseteq IDs
    /\ dangling \subseteq attacks \cup {<<j>> : j \in jumps}
    /\ enemy \in [IDs -> IDs \cup {None}]
    /\ target \in [IDs -> IDs \cup {None}]
    /\ distracted \subseteq npcs["FullAggresive"]
    /\ due \in [Spawners -> Nat]
    /\ waiting \in [Spawners -> Nat]
    /\ phase \in {"enter", "jumps", "attacks", "sessions", "undefined"}
    /\ todo \subseteq CASE phase = "attacks" -> attacks
                        [] phase = "jumps" -> {<<j>> : j \in jumps}
                        [] phase = "sessions" -> InMatch
                        [] OTHER -> {}
    /\ current \in InMatch \cup {None}
    /\ \A a, b \in attacks : a[1] = b[1] => a = b

\* What uses the pointers of an attack, and the one of a jump.
UsesAttack(attack) ==
    AttackGoesOn(attack) \/ AttackCancelled(attack) \/ AttackedDead(attack) \/ KillsItself(attack)
UsesJump(j) == JumpGoesOn(j) \/ JumpEnds(j)

\* Sessions are deleted while attacks and jumps still point to them, and others
\* enter.  No turn of a loop uses the pointers of an entry one of whose sessions
\* is gone: the look-ups by identifier before it keep it from that, wherever in
\* the walk the session went (Match.h:314, 318, 367).
NoUseAfterDelete ==
    [][/\ \A attack \in attacks : UsesAttack(attack) => attack \notin dangling
       /\ \A j \in jumps : UsesJump(j) => <<j>> \notin dangling]_vars

\* Nothing is looked up before an NPC follows its enemy or its target: it has
\* been told of every session that jumped, died or left (NPC.h:74).
NPCsKnowWhoIsThere ==
    \A n \in NPCs : {enemy[n], target[n]} \subseteq InMatch \cup {None}

\* An aggressive NPC that has an enemy attacks it, unless it chose the enemy
\* while its last attack was still listed: then it may follow an enemy for ever
\* that it does not attack (FullAggresiveNPCAI.h:61).
PursuerAttacks ==
    \A n \in npcs["FullAggresive"] \ distracted : enemy[n] # None => <<n, enemy[n]>> \in attacks

\* Every spawner's NPCs and timers are as many as were configured, whoever
\* kills whom in one turn of the loop (NPCSpawner.h:20, NPC.h:126).
PopulationKept ==
    \A p \in Spawners : Cardinality(npcs[p]) + due[p] + waiting[p] = Size(p)
=============================================================================
