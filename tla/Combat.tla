------------------------------- MODULE Combat -------------------------------
(***************************************************************************)
(* What attacks, auras and areas of one GameServer::Match do to a session: *)
(* damage to shield and hp (Attack::Update), the regeneration of the       *)
(* shield out of combat (ShieldRegeneratorAura), the protection in         *)
(* demilitarized areas (DemilitarizedArea, its aura and AttackerAura), and *)
(* the copies of the auras that a jump makes.  MatchSession and NPC have   *)
(* the same code for all of it.                                            *)
(*                                                                         *)
(* Distances and times are choices: whether a session is within an area or *)
(* a range, and whether a timer gets to zero at an update.  What happens   *)
(* to entries of sessions that have gone is in Match: here an attack ends  *)
(* with its parties.  A session that comes back is another with the name.  *)
(* Any session may be a client, so any may attack itself, as clients may.  *)
(***************************************************************************)
EXTENDS Naturals, FiniteSets, FiniteSetsExt

CONSTANTS
    Sessions,            \* those that may be in the match
    Citizens,            \* those with Faction < 3
    AreaCount,           \* m_ScriptableAreas, all demilitarized, may overlap
    MaxHP, MaxShield,    \* of every session
    Damage,              \* what CalculateDamage of every session may answer
    RegenerationShare,   \* a regeneration adds MaxShield over this: 25
    None                 \* nobody

ASSUME CombatAssumption ==
    /\ None \notin Sessions
    /\ Citizens \subseteq Sessions
    /\ AreaCount \in Nat
    /\ MaxHP \in [Sessions -> Nat \ {0}] /\ MaxShield \in [Sessions -> Nat]
    /\ Damage \in [Sessions -> SUBSET Nat]
    /\ RegenerationShare \in Nat \ {0}

VARIABLES
    here,        \* m_Sessions
    jumping,     \* sessions in the transfers of this or another match
    hp, shield,  \* Player::HP and Shield
    combat,      \* sessions whose m_CombatTimer is above zero
    pausing,     \* sessions whose m_ShieldRegenerationTimer is above zero
    attacking,   \* sessions whose m_AttackTimer is above zero
    protected,   \* sessions that have the DemilitarizedProtectionAura
    inAreas,     \* the areas whose m_SessionsOnArea has the session
    target,      \* m_Attacks, of every attacker
    told,        \* the hp and shield the clients were last told of a session
    carried,     \* history: protected sessions that brought the aura in a jump
                 \* and have passed no border of an area since
    stripped,    \* history: sessions that lost it inside an area, when they
                 \* left another
    phase,       \* the loop of Match::Update
    todo         \* attackers or sessions it has still to visit

placeVars == <<here, jumping>>
bodyVars == <<hp, shield, told>>
timerVars == <<combat, pausing, attacking>>
areaVars == <<protected, inAreas, carried, stripped>>
loopVars == <<phase, todo>>
vars == <<placeVars, bodyVars, timerVars, areaVars, target, loopVars>>

Areas == 1 .. AreaCount
Gone == <<0, 0>>

Init ==
    /\ here = {} /\ jumping = {}
    /\ hp = [i \in Sessions |-> 0] /\ shield = [i \in Sessions |-> 0]
    /\ told = [i \in Sessions |-> Gone]
    /\ combat = {} /\ pausing = {} /\ attacking = {}
    /\ protected = {} /\ carried = {} /\ stripped = {}
    /\ inAreas = [i \in Sessions |-> {}]
    /\ target = [i \in Sessions |-> None]
    /\ phase = "enter" /\ todo = {}

-----------------------------------------------------------------------------
(* Sessions that come and go.                                              *)

\* The attacks that a session takes part in.
StopAll(i) == [a \in Sessions |-> IF a = i \/ target[a] = i THEN None ELSE target[a]]

\* The match forgets a session, and it its auras.
Forget(i) ==
    /\ here' = here \ {i}
    /\ target' = StopAll(i)
    /\ hp' = [hp EXCEPT ![i] = 0] /\ shield' = [shield EXCEPT ![i] = 0]
    /\ told' = [told EXCEPT ![i] = Gone]
    /\ protected' = protected \ {i} /\ carried' = carried \ {i} /\ stripped' = stripped \ {i}
    /\ inAreas' = [inAreas EXCEPT ![i] = {}]

\* The hp and the shield a player may be loaded with: it was saved alive.
Saved(i) == (1 .. MaxHP[i]) \X (0 .. MaxShield[i])

\* A new session has the hp and the shield its player was saved with, two auras
\* whose timers have just begun, and one whose timer is zero.  The player is sent
\* to all: S_WorldState and S_NewPlayer.
Enter(i) ==
    /\ phase = "enter" /\ i \notin here \cup jumping
    /\ here' = here \cup {i}
    /\ \E saved \in Saved(i) :
        /\ hp' = [hp EXCEPT ![i] = saved[1]]
        /\ shield' = [shield EXCEPT ![i] = saved[2]]
        /\ told' = [told EXCEPT ![i] = saved]
    /\ combat' = combat \cup {i} /\ pausing' = pausing \cup {i} /\ attacking' = attacking \ {i}
    /\ UNCHANGED <<jumping, areaVars, target, loopVars>>

\* A jump takes the session away; in the match it gets to it is another one,
\* with copies of the player and of all auras, and in no area yet.
JumpEnds(i) ==
    /\ phase = "jumps" /\ i \in here
    /\ here' = here \ {i} /\ jumping' = jumping \cup {i}
    /\ target' = StopAll(i)
    /\ inAreas' = [inAreas EXCEPT ![i] = {}]
    /\ carried' = IF i \in protected THEN carried \cup {i} ELSE carried
    /\ stripped' = stripped \ {i}
    /\ UNCHANGED <<bodyVars, timerVars, protected, loopVars>>

Transfer(i) ==
    /\ phase = "enter" /\ i \in jumping
    /\ here' = here \cup {i} /\ jumping' = jumping \ {i}
    /\ told' = [told EXCEPT ![i] = <<hp[i], shield[i]>>]
    /\ UNCHANGED <<hp, shield, timerVars, areaVars, target, loopVars>>

EndJumps ==
    /\ phase = "jumps"
    /\ phase' = "attacks" /\ todo' = {a \in here : target[a] # None}
    /\ UNCHANGED <<placeVars, bodyVars, timerVars, areaVars, target>>

-----------------------------------------------------------------------------
(* UpdateAreas: the areas one after the other, every one with all sessions. *)

\* The areas whose border a session has passed, if it is now within these.
Passed(i, within) == SymDiff(within, inAreas[i])

\* Mutation: leaving an area removes nothing.
ProtectedOnceIn(i, within) ==
    \/ i \in protected
    \/ i \in Citizens /\ \E a \in Passed(i, within) : a \in within

\* OnAreaEnter adds the aura, unless there is one; OnAreaExit removes it, even
\* inside another area: the last area with a change decides.
ProtectedAfter(i, within) ==
    IF Passed(i, within) = {}
    THEN i \in protected
    ELSE i \in Citizens /\ Max(Passed(i, within)) \in within

UpdateAreas ==
    /\ phase = "enter"
    /\ \E within \in [here -> SUBSET Areas] :
        /\ inAreas' = [i \in Sessions |-> IF i \in here THEN within[i] ELSE inAreas[i]]
        /\ protected' = (protected \ here) \cup {i \in here : ProtectedAfter(i, within[i])}
        /\ carried' = carried \ {i \in here : Passed(i, within[i]) # {}}
        /\ stripped' = {i \in here : IF Passed(i, within[i]) = {}
                                     THEN i \in stripped
                                     ELSE within[i] # {} /\ Max(Passed(i, within[i])) \notin within[i]}
    /\ phase' = "jumps"
    /\ UNCHANGED <<placeVars, bodyVars, timerVars, target, todo>>

-----------------------------------------------------------------------------
(* Attack::Update, and UpdateAttacks with what it answers.                 *)

IsPvP(i) == i \in protected => i \in attacking

\* Absortion is 0.8f, and 1.0f - Absortion is just less than a fifth.
ShieldDamage(damage) == (4 * damage) \div 5
HPShare(damage) == IF damage = 0 THEN 0 ELSE (damage - 1) \div 5

ShieldAfter(i, damage) ==
    IF shield[i] > ShieldDamage(damage) THEN shield[i] - ShieldDamage(damage) ELSE 0

\* Mutation: what the shield did not hold is forgotten.
HPDamageForgets(i, damage) ==
    CASE shield[i] > ShieldDamage(damage) -> HPShare(damage)
      [] shield[i] \in 1 .. ShieldDamage(damage) - 1 -> HPShare(damage)
      [] OTHER -> damage

\* Without a shield, or with one that is exactly used up, all of it.
HPDamage(i, damage) ==
    CASE shield[i] > ShieldDamage(damage) -> HPShare(damage)
      [] shield[i] \in 1 .. ShieldDamage(damage) - 1 -> HPShare(damage) + (ShieldDamage(damage) - shield[i])
      [] OTHER -> damage

HPAfter(i, damage) == IF hp[i] > HPDamage(i, damage) THEN hp[i] - HPDamage(i, damage) ELSE 0

VisitAttack(a) == phase = "attacks" /\ a \in todo /\ target[a] # None

Visited(a) == todo' = todo \ {a} /\ UNCHANGED phase

\* Its parties have gone, its timer runs, or it is out of range.
AttackGoesOn(a) ==
    /\ phase = "attacks" /\ a \in todo
    /\ Visited(a)
    /\ UNCHANGED <<placeVars, bodyVars, timerVars, areaVars, target>>

\* Whether the attacked may be attacked is asked at every hit.
AttackCancelled(a) ==
    /\ VisitAttack(a) /\ ~IsPvP(target[a])
    /\ target' = [target EXCEPT ![a] = None]
    /\ Visited(a)
    /\ UNCHANGED <<placeVars, bodyVars, timerVars, areaVars>>

\* A miss is a hit without damage: it counts as an attack all the same.
Damages(a) == Damage[a] \cup {0}

\* Mutation: whether it may be attacked is asked by StartAttack only.
HitUnchecked(a, damage) ==
    LET attacked == target[a] IN
    /\ VisitAttack(a)
    /\ HPAfter(attacked, damage) > 0
    /\ hp' = [hp EXCEPT ![attacked] = HPAfter(attacked, damage)]
    /\ shield' = [shield EXCEPT ![attacked] = ShieldAfter(attacked, damage)]
    /\ told' = [told EXCEPT ![attacked] = <<hp'[attacked], shield'[attacked]>>]
    /\ attacking' = attacking \cup {a}
    /\ combat' = combat \cup {attacked}
    /\ Visited(a)
    /\ UNCHANGED <<placeVars, pausing, areaVars, target>>

\* The attacked lives: all clients are sent its status.
Hit(a, damage) ==
    LET attacked == target[a] IN
    /\ VisitAttack(a) /\ IsPvP(attacked)
    /\ HPAfter(attacked, damage) > 0
    /\ hp' = [hp EXCEPT ![attacked] = HPAfter(attacked, damage)]
    /\ shield' = [shield EXCEPT ![attacked] = ShieldAfter(attacked, damage)]
    /\ told' = [told EXCEPT ![attacked] = <<hp'[attacked], shield'[attacked]>>]
    /\ attacking' = attacking \cup {a}
    /\ combat' = combat \cup {attacked}
    /\ Visited(a)
    /\ UNCHANGED <<placeVars, pausing, areaVars, target>>

\* The attacked dies.
AttackedDead(a, damage) ==
    /\ VisitAttack(a) /\ IsPvP(target[a]) /\ target[a] # a
    /\ HPAfter(target[a], damage) = 0
    /\ attacking' = (attacking \cup {a}) \ {target[a]}
    /\ combat' = combat \ {target[a]} /\ pausing' = pausing \ {target[a]}
    /\ Forget(target[a])
    /\ Visited(a)
    /\ UNCHANGED jumping

\* One that kills itself: its attack is erased twice, and what the program does
\* from there on is undefined.
KillsItself(a, damage) ==
    /\ VisitAttack(a) /\ IsPvP(a) /\ target[a] = a
    /\ HPAfter(a, damage) = 0
    /\ phase' = "undefined" /\ todo' = {}
    /\ UNCHANGED <<placeVars, bodyVars, timerVars, areaVars, target>>

\* Nothing is said of it any more.
Undefined == phase = "undefined" /\ UNCHANGED vars

EndAttacks ==
    /\ phase = "attacks" /\ todo = {}
    /\ phase' = "sessions" /\ todo' = here
    /\ UNCHANGED <<placeVars, bodyVars, timerVars, areaVars, target>>

-----------------------------------------------------------------------------
(* UpdateSessions: what clients and AIs ask for, and the auras.            *)

StartAttack(a, b) ==
    /\ phase = "sessions" /\ a \in here /\ b \in here
    /\ target[a] = None
    /\ IsPvP(b)
    /\ target' = [target EXCEPT ![a] = b]
    /\ UNCHANGED <<placeVars, bodyVars, timerVars, areaVars, loopVars>>

StopAttack(a) ==
    /\ phase = "sessions" /\ a \in here
    /\ target' = [target EXCEPT ![a] = None]
    /\ UNCHANGED <<placeVars, bodyVars, timerVars, areaVars, loopVars>>

\* AttackerAura::Update.
AttackTimer(i) == attacking' \in {attacking, attacking \ {i}}

\* The turn of a session; when its connection is closed, its timers stand still.
UpdateOffline(i) ==
    /\ phase = "sessions" /\ i \in todo
    /\ Visited(i)
    /\ UNCHANGED <<placeVars, bodyVars, timerVars, areaVars, target>>

\* ShieldRegeneratorAura::Update: it waits for the end of the combat, ...
CombatGoesOn(i) ==
    /\ phase = "sessions" /\ i \in todo
    /\ i \in combat
    /\ combat' \in {combat, combat \ {i}}
    /\ AttackTimer(i)
    /\ Visited(i)
    /\ UNCHANGED <<placeVars, bodyVars, pausing, areaVars, target>>

\* ... has nothing to do, or waits for the end of the pause, ...
RegenerationWaits(i) ==
    /\ phase = "sessions" /\ i \in todo
    /\ i \notin combat
    /\ IF shield[i] >= MaxShield[i]
       THEN pausing' = pausing
       ELSE i \in pausing /\ pausing' \in {pausing, pausing \ {i}}
    /\ AttackTimer(i)
    /\ Visited(i)
    /\ UNCHANGED <<placeVars, bodyVars, combat, areaVars, target>>

\* Mutation: the clients are not sent the new status.
RegenerateSilently(i) ==
    /\ phase = "sessions" /\ i \in todo
    /\ i \notin combat \cup pausing /\ shield[i] < MaxShield[i]
    /\ shield' = [shield EXCEPT ![i] = Min({@ + MaxShield[i] \div RegenerationShare, MaxShield[i]})]
    /\ pausing' = pausing \cup {i}
    /\ AttackTimer(i)
    /\ Visited(i)
    /\ UNCHANGED <<placeVars, hp, told, combat, areaVars, target>>

\* ... and adds its share.
Regenerate(i) ==
    /\ phase = "sessions" /\ i \in todo
    /\ i \notin combat \cup pausing /\ shield[i] < MaxShield[i]
    /\ shield' = [shield EXCEPT ![i] = Min({@ + MaxShield[i] \div RegenerationShare, MaxShield[i]})]
    /\ told' = [told EXCEPT ![i] = <<hp[i], shield'[i]>>]
    /\ pausing' = pausing \cup {i}
    /\ AttackTimer(i)
    /\ Visited(i)
    /\ UNCHANGED <<placeVars, hp, combat, areaVars, target>>

Leave(i) ==
    /\ phase = "sessions" /\ i \in todo
    /\ Forget(i)
    /\ combat' = combat \ {i} /\ pausing' = pausing \ {i} /\ attacking' = attacking \ {i}
    /\ Visited(i)
    /\ UNCHANGED jumping

EndUpdate ==
    /\ phase = "sessions" /\ todo = {}
    /\ phase' = "enter"
    /\ UNCHANGED <<placeVars, bodyVars, timerVars, areaVars, target, todo>>

-----------------------------------------------------------------------------
UpdateTransfers == \E i \in Sessions : Enter(i) \/ Transfer(i)

UpdateJumps == (\E i \in Sessions : JumpEnds(i)) \/ EndJumps

UpdateAttacks ==
    \/ \E a \in Sessions :
        \/ AttackGoesOn(a)
        \/ AttackCancelled(a)
        \/ \E damage \in Damages(a) :
            Hit(a, damage) \/ AttackedDead(a, damage) \/ KillsItself(a, damage)
    \/ EndAttacks

UpdateSessions ==
    \/ \E i \in Sessions :
        \/ \E b \in Sessions : StartAttack(i, b)
        \/ StopAttack(i)
        \/ UpdateOffline(i)
        \/ CombatGoesOn(i)
        \/ RegenerationWaits(i)
        \/ Regenerate(i)
        \/ Leave(i)
    \/ EndUpdate

Next ==
    \/ UpdateTransfers
    \/ UpdateAreas
    \/ UpdateJumps
    \/ UpdateAttacks
    \/ UpdateSessions
    \/ Undefined

Spec == Init /\ [][Next]_vars

-----------------------------------------------------------------------------
TypeOK ==
    /\ here \subseteq Sessions /\ jumping \subseteq Sessions \ here
    /\ \A i \in Sessions : hp[i] \in 0 .. MaxHP[i] /\ shield[i] \in 0 .. MaxShield[i]
    /\ combat \cup pausing \cup attacking \cup todo \subseteq Sessions
    /\ protected \subseteq Citizens
    /\ inAreas \in [Sessions -> SUBSET Areas]
    /\ target \in [Sessions -> Sessions \cup {None}]
    /\ phase \in {"enter", "jumps", "attacks", "sessions", "undefined"}

\* The protection is for citizens inside demilitarized areas, but for two ways
\* around it: the aura is copied into the next match and stays until a border
\* is passed, and it is lost where one of two areas is left inside the other
\* (DemilitarizedArea.h:20, MatchSession.h:59).
ProtectionMatchesAreas ==
    \A i \in here : (i \in protected) =
        \/ i \in carried
        \/ i \in Citizens /\ inAreas[i] # {} /\ i \notin stripped

\* A citizen in an area that has hit nobody for a while is not harmed, not even
\* by attacks that began before it got there (Attack.cpp:24).
SafeInAreas ==
    [][\A i \in here \cap Citizens :
        (phase = "attacks" /\ inAreas[i] # {} /\ i \notin stripped \cup attacking)
        => i \in here' /\ hp'[i] = hp[i] /\ shield'[i] = shield[i]]_vars

\* Hp and shield together lose the damage, or one less by rounding while a
\* shield holds; but for a shield that is exactly used up, which is lost
\* besides (Attack.cpp:52).
HitsAddUp ==
    [][\A i \in here : phase = "attacks" /\ hp'[i] + shield'[i] < hp[i] + shield[i] /\ i \in here' =>
        \E a \in Sessions : target[a] = i /\ \E damage \in Damage[a] :
            LET lost == (hp[i] + shield[i]) - (hp'[i] + shield'[i]) IN
            \/ lost = damage
            \/ lost + 1 = damage /\ shield[i] > 0
            \/ lost = damage + shield[i] /\ shield[i] = ShieldDamage(damage)]_vars

\* The clients know the hp and the shield of everyone who is there
\* (Attack.cpp:83, ShieldRegeneratorAura.h:59).
StatusKnown == \A i \in here : told[i] = <<hp[i], shield[i]>>
=============================================================================
