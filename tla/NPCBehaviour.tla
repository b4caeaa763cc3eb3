---------------------------- MODULE NPCBehaviour ----------------------------
(***************************************************************************)
(* The two AIs of NPCs, FullAggresiveNPCAI and DefensiveNPCAI: the state   *)
(* that moves the NPC, and the enemy and the target it follows through     *)
(* pointers.  Match has what the AIs do to the other sessions of the map.  *)
(*                                                                         *)
(* One turn of the main loop updates the AI; between turns sessions come,  *)
(* go and attack.  Positions are left open, so distances are a choice, and *)
(* so are the timers that only say how often something is done.            *)
(***************************************************************************)
EXTENDS Naturals

CONSTANTS
    Others,     \* the other sessions of the map
    MaxPause,   \* turns an NPC may stand still between two walks
    Nobody      \* nullptr

ASSUME NPCAssumption == Nobody \notin Others /\ MaxPause \in Nat

VARIABLES
    ai,       \* which AI it has
    state,    \* m_State
    pause,    \* m_StoppedTimer
    enemy,    \* m_Enemy
    followed, \* m_Target, of a defensive AI only
    moving,   \* IsMoving of the NPC's player
    lowHP,    \* less than a fifth of its HP is left: HP never come back
    present,  \* the other sessions in the match
    turn,     \* where Update is
    faulted   \* history: a pointer to nobody was followed

others == <<ai, present>>
behaviourVars == <<others, state, pause, enemy, followed, moving, lowHP, turn, faulted>>

BehaviourInit ==
    /\ ai \in {"FullAggresive", "Defensive"}
    /\ state = "Deciding" /\ pause = 0
    /\ enemy = Nobody /\ followed = Nobody
    /\ moving = FALSE /\ lowHP = FALSE
    /\ present = {}
    /\ turn = "between"
    /\ faulted = FALSE

-----------------------------------------------------------------------------
(* Between two updates.                                                    *)

SomeoneEnters(s) ==
    /\ turn = "between" /\ s \notin present
    /\ present' = present \cup {s}
    /\ UNCHANGED <<ai, state, pause, enemy, followed, moving, lowHP, turn, faulted>>

SomeoneDisappear(s) ==
    /\ turn = "between" /\ s \in present
    /\ present' = present \ {s}
    /\ enemy' = IF enemy = s THEN Nobody ELSE enemy
    /\ followed' = IF followed = s THEN Nobody ELSE followed
    /\ UNCHANGED <<ai, state, pause, moving, lowHP, turn, faulted>>

\* A defensive AI takes the first attacker for its enemy.
SomeoneAttacks(s) ==
    /\ turn = "between" /\ s \in present
    /\ ai = "Defensive" /\ enemy = Nobody
    /\ enemy' = s
    /\ UNCHANGED <<others, state, pause, followed, moving, lowHP, turn, faulted>>

EnemyLost ==
    /\ turn = "between" /\ enemy # Nobody
    /\ enemy' = Nobody
    /\ UNCHANGED <<others, state, pause, followed, moving, lowHP, turn, faulted>>

LoseHP ==
    /\ turn = "between" /\ present # {} /\ ~lowHP
    /\ lowHP' = TRUE
    /\ UNCHANGED <<others, state, pause, enemy, followed, moving, turn, faulted>>

Arrive ==
    /\ turn = "between" /\ moving
    /\ moving' = FALSE
    /\ UNCHANGED <<others, state, pause, enemy, followed, lowHP, turn, faulted>>

-----------------------------------------------------------------------------
(* Update: first DetectEnemies or DetectTargets ...                        *)

\* Every second and a half, one without an enemy, or without a target, takes
\* the first session in range that it may attack.
Detect ==
    /\ turn = "between"
    /\ \/ UNCHANGED <<enemy, followed>>
       \/ /\ ai = "FullAggresive" /\ enemy = Nobody
          /\ enemy' \in present /\ UNCHANGED followed
       \/ /\ ai = "Defensive" /\ followed = Nobody
          /\ followed' \in present /\ UNCHANGED enemy
    /\ turn' = "state"
    /\ UNCHANGED <<others, state, pause, moving, lowHP, faulted>>

(* ... then the function of the state.                                     *)

\* The position of a session is asked.
Follow(session) == faulted' = (faulted \/ session \notin present)

\* One who is there already is not set moving.
MoveTo == moving' \in {moving, TRUE}

KeepState == UNCHANGED <<state, pause, followed, moving, faulted>>

\* The distance to the session changes nothing in this turn.
StayNear(session) == Follow(session) /\ UNCHANGED <<state, pause, followed, moving>>

TransitionToDeciding ==
    /\ state' = "Deciding"
    /\ pause' \in 0 .. MaxPause
    /\ UNCHANGED <<followed, moving, faulted>>

TransitionToSearching ==
    /\ state' = "Searching"
    /\ MoveTo
    /\ UNCHANGED <<pause, followed, faulted>>

TransitionToPasiveFollowing ==
    /\ state' = "PasiveFollowing"
    /\ MoveTo
    /\ Follow(followed)
    /\ UNCHANGED <<pause, followed>>

\* Near the target, with or without a last move towards it.
TransitionToPasiveStopped ==
    /\ state' = "PasiveStopped"
    /\ Follow(followed)
    /\ MoveTo
    /\ UNCHANGED <<pause, followed>>

TransitionToAggresiveFollowing ==
    /\ state' = "AggresiveFollowing"
    /\ followed' = Nobody
    /\ MoveTo
    /\ Follow(enemy)
    /\ UNCHANGED pause

\* Near the enemy, with or without a last move towards it.
TransitionToAggresiveStopped ==
    /\ state' = "AggresiveStopped"
    /\ followed' = Nobody
    /\ Follow(enemy)
    /\ MoveTo
    /\ UNCHANGED pause

TransitionToRunningAway ==
    /\ state' = "RunningAway"
    /\ MoveTo
    /\ UNCHANGED <<pause, followed, faulted>>

\* The end of the pause comes before an enemy, an enemy before a target.
DecidingState ==
    /\ state = "Deciding"
    /\ IF pause = 0 THEN TransitionToSearching
       ELSE IF enemy # Nobody THEN TransitionToAggresiveFollowing
       ELSE IF followed # Nobody THEN TransitionToPasiveFollowing
       ELSE pause' = pause - 1 /\ UNCHANGED <<state, followed, moving, faulted>>

SearchingState ==
    /\ state = "Searching"
    /\ IF ~moving THEN TransitionToDeciding
       ELSE IF enemy # Nobody THEN TransitionToAggresiveFollowing
       ELSE IF followed # Nobody THEN TransitionToPasiveFollowing
       ELSE KeepState

\* It follows its target, until it is near.
PasiveFollowing ==
    /\ state = "PasiveFollowing"
    /\ IF enemy # Nobody THEN TransitionToAggresiveFollowing
       ELSE IF followed = Nobody THEN TransitionToDeciding
       ELSE TransitionToPasiveFollowing \/ TransitionToPasiveStopped \/ StayNear(followed)

\* It stands near its target, until that is out of range.
PasiveStopped ==
    /\ state = "PasiveStopped"
    /\ IF enemy # Nobody
       THEN state' = "AggresiveStopped" /\ followed' = Nobody /\ UNCHANGED <<pause, moving, faulted>>
       ELSE IF followed = Nobody THEN TransitionToDeciding
       ELSE \/ TransitionToPasiveFollowing
            \/ StayNear(followed)

\* Mutation: one that has lost its enemy stays where it is.
AggresiveFollowingNobody ==
    /\ state = "AggresiveFollowing"
    /\ IF lowHP THEN TransitionToRunningAway
       ELSE IF enemy = Nobody THEN KeepState
       ELSE TransitionToAggresiveFollowing \/ TransitionToAggresiveStopped \/ StayNear(enemy)

\* It follows its enemy, until it is near.
AggresiveFollowing ==
    /\ state = "AggresiveFollowing"
    /\ IF lowHP THEN TransitionToRunningAway
       ELSE IF enemy = Nobody THEN TransitionToDeciding
       ELSE TransitionToAggresiveFollowing \/ TransitionToAggresiveStopped \/ StayNear(enemy)

\* Mutation: it does not look whether the enemy is still there.
AggresiveStoppedBlind ==
    /\ state = "AggresiveStopped"
    /\ IF lowHP THEN TransitionToRunningAway
       ELSE \/ TransitionToAggresiveFollowing
            \/ StayNear(enemy)

\* It stands near its enemy, until that is out of range.
AggresiveStopped ==
    /\ state = "AggresiveStopped"
    /\ IF lowHP THEN TransitionToRunningAway
       ELSE IF enemy = Nobody THEN TransitionToDeciding
       ELSE \/ TransitionToAggresiveFollowing
            \/ StayNear(enemy)

\* Nothing ends it.
RunningAway == state = "RunningAway" /\ KeepState

RunState ==
    /\ turn = "state"
    /\ \/ DecidingState \/ SearchingState \/ RunningAway
       \/ PasiveFollowing \/ PasiveStopped
       \/ AggresiveFollowing \/ AggresiveStopped
    /\ turn' = "between"
    /\ UNCHANGED <<others, enemy, lowHP>>

-----------------------------------------------------------------------------
BehaviourNext ==
    \/ \E s \in Others : SomeoneEnters(s) \/ SomeoneDisappear(s) \/ SomeoneAttacks(s)
    \/ EnemyLost
    \/ LoseHP
    \/ Arrive
    \/ Detect
    \/ RunState

BehaviourSpec == BehaviourInit /\ [][BehaviourNext]_behaviourVars

\* Every turn of the main loop updates the AI and moves the player on.
FairBehaviourSpec == BehaviourSpec /\ WF_behaviourVars(Detect) /\ WF_behaviourVars(RunState) /\ SF_behaviourVars(Arrive)

-----------------------------------------------------------------------------
BehaviourTypeOK ==
    /\ ai \in {"FullAggresive", "Defensive"}
    /\ state \in {"Deciding", "Searching", "PasiveFollowing", "PasiveStopped",
                  "AggresiveFollowing", "AggresiveStopped", "RunningAway"}
    /\ pause \in 0 .. MaxPause
    /\ enemy \in Others \cup {Nobody}
    /\ followed \in Others \cup {Nobody}
    /\ moving \in BOOLEAN /\ lowHP \in BOOLEAN /\ faulted \in BOOLEAN
    /\ present \subseteq Others
    /\ turn \in {"between", "state"}

\* No state asks where nobody is: enemy and target may vanish between any two
\* turns, and the conditions are asked in an order of their own in every state
\* (DefensiveNPCAI.h:164, 185, 214, 284).
FollowsSomebody == ~faulted

\* When everybody has gone for good the NPC walks about again, from whatever
\* it was doing, unless it has been hurt so much that it runs away for ever
\* (DefensiveNPCAI.h:235).
WalksAgain ==
    (<>[](present = {})) => (<>[](state = "RunningAway") \/ []<>(state = "Searching"))
=============================================================================
