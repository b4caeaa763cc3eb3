---------------------------- MODULE CombatProofs ----------------------------
(***************************************************************************)
(* Those who fight in a match.  Who is protected, from what, what a hit    *)
(* takes and what the clients are told, for any number of sessions and     *)
(* areas, any amounts of hp, shield and damage, and any share of           *)
(* regeneration; and that the AIs of NPCs never follow a pointer to        *)
(* nobody, for any number of other sessions and any length of a pause.     *)
(***************************************************************************)
EXTENDS Combat, NPCBehaviour, TLAPS

\* The amounts and the parties are of their types.
AmountsOK ==
    /\ here \subseteq Sessions
    /\ hp \in [Sessions -> Nat] /\ shield \in [Sessions -> Nat]
    /\ target \in [Sessions -> Sessions \cup {None}]
    /\ inAreas \in [Sessions -> SUBSET Areas]

\* ProtectionMatchesAreas for everyone, also during a jump.
AurasMatch ==
    /\ \A i \in Sessions : (i \in protected) =
          (i \in carried \/ (i \in Citizens /\ inAreas[i] # {} /\ i \notin stripped))
    /\ \A i \in Sessions \ here : inAreas[i] = {}

ClientsKnow == told \in [Sessions -> Nat \X Nat] /\ StatusKnown

IInv == AmountsOK /\ AurasMatch /\ ClientsKnow

LEMMA InitIInv == Init => IInv
<1> SUFFICES ASSUME Init PROVE IInv OBVIOUS
<1> USE DEF Init
<1>1. AmountsOK BY DEF AmountsOK, Areas
<1>2. AurasMatch BY DEF AurasMatch
<1>3. ClientsKnow BY DEF ClientsKnow, StatusKnown, Gone
<1> QED BY <1>1, <1>2, <1>3 DEF IInv

-----------------------------------------------------------------------------
(* The arithmetic of a hit and of a regeneration.                          *)

\* What the shield and the hp are to bear is the damage, or one less.
LEMMA SharesAddUp ==
    ASSUME NEW d \in Nat
    PROVE  /\ ShieldDamage(d) \in Nat /\ HPShare(d) \in Nat
           /\ ShieldDamage(d) + HPShare(d) \in {d, d - 1}
           /\ ShieldDamage(d) + HPShare(d) = d - 1 => d > 0
BY DEF ShieldDamage, HPShare

LEMMA MinOfTwo == ASSUME NEW a \in Nat, NEW b \in Nat PROVE Min({a, b}) \in Nat
<1>1. \E x \in {a, b} : \A y \in {a, b} : x =< y OBVIOUS
<1> QED BY <1>1 DEF Min

\* A shield that a hit breaks, passes or uses up.
LEMMA HitIsNat ==
    ASSUME AmountsOK, NEW i \in Sessions, NEW d \in Nat
    PROVE  /\ ShieldAfter(i, d) \in Nat /\ HPDamage(i, d) \in Nat /\ HPAfter(i, d) \in Nat
           /\ ShieldAfter(i, d) =< shield[i] /\ HPAfter(i, d) =< hp[i]
<1>1. hp[i] \in Nat /\ shield[i] \in Nat BY DEF AmountsOK
<1>2. ShieldDamage(d) \in Nat /\ HPShare(d) \in Nat BY SharesAddUp
<1>3. ShieldAfter(i, d) \in Nat /\ ShieldAfter(i, d) =< shield[i] BY <1>1, <1>2 DEF ShieldAfter
<1>4. HPDamage(i, d) \in Nat BY <1>1, <1>2 DEF HPDamage
<1> QED BY <1>1, <1>3, <1>4 DEF HPAfter

\* With its target alive a hit takes the damage, one less from a shield that
\* holds or breaks, or the shield besides when that is exactly used up.
LEMMA HitTakes ==
    ASSUME AmountsOK, NEW i \in Sessions, NEW d \in Nat, HPAfter(i, d) > 0
    PROVE  LET lost == (hp[i] + shield[i]) - (HPAfter(i, d) + ShieldAfter(i, d)) IN
           \/ lost = d
           \/ lost + 1 = d /\ shield[i] > 0
           \/ lost = d + shield[i] /\ shield[i] = ShieldDamage(d)
<1> DEFINE s == shield[i]
           h == hp[i]
           onShield == ShieldDamage(d)
           onHP == HPShare(d)
<1>1. h \in Nat /\ s \in Nat BY DEF AmountsOK
<1>2. /\ onShield \in Nat /\ onHP \in Nat
      /\ onShield + onHP = d \/ onShield + onHP = d - 1
  BY SharesAddUp
<1>3. HPDamage(i, d) \in Nat /\ HPAfter(i, d) = h - HPDamage(i, d)
  BY <1>1, HitIsNat DEF HPAfter
<1>4. CASE s > onShield
  <2>1. ShieldAfter(i, d) = s - onShield BY <1>4 DEF ShieldAfter
  <2>2. HPDamage(i, d) = onHP BY <1>1, <1>2, <1>4 DEF HPDamage
  <2> QED BY <2>1, <2>2, <1>1, <1>2, <1>3, <1>4
<1>5. CASE s \in 1 .. onShield - 1
  <2>1. ShieldAfter(i, d) = 0 BY <1>1, <1>2, <1>5 DEF ShieldAfter
  <2>2. HPDamage(i, d) = onHP + (onShield - s) BY <1>1, <1>2, <1>5 DEF HPDamage
  <2> QED BY <2>1, <2>2, <1>1, <1>2, <1>3, <1>5
<1>6. CASE s = 0 \/ s = onShield
  <2>1. ShieldAfter(i, d) = 0 BY <1>1, <1>2, <1>6 DEF ShieldAfter
  <2>2. HPDamage(i, d) = d BY <1>1, <1>2, <1>6 DEF HPDamage
  <2> QED BY <2>1, <2>2, <1>1, <1>2, <1>3, <1>6
<1>7. s > onShield \/ s \in 1 .. onShield - 1 \/ s = 0 \/ s = onShield BY <1>1, <1>2
<1> QED BY <1>4, <1>5, <1>6, <1>7

-----------------------------------------------------------------------------
(* The three parts of the invariant.                                       *)

LEMMA Assumptions ==
    /\ None \notin Sessions /\ Citizens \subseteq Sessions
    /\ \A i \in Sessions : MaxHP[i] \in Nat /\ MaxShield[i] \in Nat /\ Damages(i) \subseteq Nat
    /\ RegenerationShare \in Nat \ {0}
BY CombatAssumption DEF Damages

\* A regeneration adds a natural number.
LEMMA RegeneratedIsNat ==
    ASSUME AmountsOK, NEW i \in Sessions
    PROVE  Min({shield[i] + MaxShield[i] \div RegenerationShare, MaxShield[i]}) \in Nat
<1>1. shield[i] \in Nat /\ MaxShield[i] \in Nat /\ RegenerationShare \in Nat \ {0}
  BY Assumptions DEF AmountsOK
<1>2. \A m \in Nat, n \in Nat \ {0} : m \div n \in Nat OBVIOUS
<1>3. shield[i] + MaxShield[i] \div RegenerationShare \in Nat BY <1>1, <1>2
<1> QED BY <1>1, <1>3, MinOfTwo

LEMMA ForgetAmounts ==
    ASSUME AmountsOK, NEW i \in Sessions, Forget(i)
    PROVE  AmountsOK'
BY DEF Forget, StopAll, AmountsOK

LEMMA HitAmounts ==
    ASSUME AmountsOK, NEW a \in Sessions, NEW d \in Damages(a), Hit(a, d)
    PROVE  AmountsOK'
<1>1. target[a] \in Sessions BY DEF Hit, VisitAttack, AmountsOK
<1>2. d \in Nat BY Assumptions
<1>3. HPAfter(target[a], d) \in Nat /\ ShieldAfter(target[a], d) \in Nat BY <1>1, <1>2, HitIsNat
<1> QED BY <1>1, <1>3 DEF Hit, areaVars, AmountsOK, placeVars

LEMMA AmountsStep ==
    ASSUME AmountsOK, [Next]_vars
    PROVE  AmountsOK'
<1> USE DEF AmountsOK
<1>1. CASE UpdateTransfers
  <2> PICK i \in Sessions : Enter(i) \/ Transfer(i) BY <1>1 DEF UpdateTransfers
  <2>1. CASE Enter(i)
    <3>1. PICK saved \in Saved(i) :
            hp' = [hp EXCEPT ![i] = saved[1]] /\ shield' = [shield EXCEPT ![i] = saved[2]]
      BY <2>1 DEF Enter
    <3>2. saved[1] \in Nat /\ saved[2] \in Nat BY Assumptions DEF Saved
    <3> QED BY <2>1, <3>1, <3>2 DEF Enter, areaVars
  <2>2. CASE Transfer(i) BY <2>2 DEF Transfer, areaVars
  <2> QED BY <2>1, <2>2
<1>2. CASE UpdateAreas
  <2> PICK within \in [here -> SUBSET Areas] :
        inAreas' = [i \in Sessions |-> IF i \in here THEN within[i] ELSE inAreas[i]]
    BY <1>2 DEF UpdateAreas
  <2> QED BY <1>2 DEF UpdateAreas, placeVars, bodyVars
<1>3. CASE UpdateJumps
  <2>1. CASE EndJumps BY <2>1 DEF EndJumps, placeVars, bodyVars, areaVars
  <2>2. ASSUME NEW i \in Sessions, JumpEnds(i) PROVE AmountsOK'
    BY <2>2 DEF JumpEnds, bodyVars, StopAll
  <2> QED BY <1>3, <2>1, <2>2 DEF UpdateJumps
<1>4. CASE UpdateAttacks
  <2>1. CASE EndAttacks BY <2>1 DEF EndAttacks, placeVars, bodyVars, areaVars
  <2>2. ASSUME NEW a \in Sessions PROVE AttackGoesOn(a) => AmountsOK'
    BY <2>2 DEF AttackGoesOn, placeVars, bodyVars, areaVars
  <2>3. ASSUME NEW a \in Sessions PROVE AttackCancelled(a) => AmountsOK'
    BY <2>3 DEF AttackCancelled, placeVars, bodyVars, areaVars
  <2>4. ASSUME NEW a \in Sessions, NEW d \in Damages(a) PROVE Hit(a, d) => AmountsOK'
    BY <2>4, HitAmounts
  <2>5. ASSUME NEW a \in Sessions, NEW d \in Damages(a) PROVE AttackedDead(a, d) => AmountsOK'
    <3> SUFFICES ASSUME AttackedDead(a, d) PROVE AmountsOK' OBVIOUS
    <3>1. target[a] \in Sessions /\ Forget(target[a]) BY DEF AttackedDead, VisitAttack
    <3> QED BY <3>1, ForgetAmounts
  <2>6. ASSUME NEW a \in Sessions, NEW d \in Damages(a) PROVE KillsItself(a, d) => AmountsOK'
    BY <2>6 DEF KillsItself, placeVars, bodyVars, areaVars
  <2> QED BY <1>4, <2>1, <2>2, <2>3, <2>4, <2>5, <2>6 DEF UpdateAttacks
<1>5. CASE UpdateSessions
  <2>1. CASE EndUpdate BY <2>1 DEF EndUpdate, placeVars, bodyVars, areaVars
  <2>2. ASSUME NEW i \in Sessions, NEW b \in Sessions PROVE StartAttack(i, b) => AmountsOK'
    BY <2>2 DEF StartAttack, placeVars, bodyVars, areaVars
  <2>3. ASSUME NEW i \in Sessions
        PROVE  StopAttack(i) \/ UpdateOffline(i) \/ CombatGoesOn(i) \/ RegenerationWaits(i) => AmountsOK'
    BY <2>3 DEF StopAttack, UpdateOffline, CombatGoesOn, RegenerationWaits, placeVars, bodyVars, areaVars
  <2>4. ASSUME NEW i \in Sessions, Regenerate(i) PROVE AmountsOK'
    BY <2>4, RegeneratedIsNat DEF Regenerate, placeVars, areaVars
  <2>5. ASSUME NEW i \in Sessions, Leave(i) PROVE AmountsOK'
    BY <2>5, ForgetAmounts DEF Leave
  <2> QED BY <1>5, <2>1, <2>2, <2>3, <2>4, <2>5 DEF UpdateSessions
<1>6. CASE Undefined \/ UNCHANGED vars BY <1>6 DEF Undefined, vars, placeVars, bodyVars, areaVars
<1> QED BY <1>1, <1>2, <1>3, <1>4, <1>5, <1>6 DEF Next

LEMMA ForgetAuras ==
    ASSUME AmountsOK, AurasMatch, NEW i \in Sessions, Forget(i)
    PROVE  AurasMatch'
BY DEF Forget, AmountsOK, AurasMatch

\* Whichever border is passed last decides both who is protected and who was
\* stripped; without one nothing changes.
LEMMA UpdateAreasAuras ==
    ASSUME AmountsOK, AurasMatch, UpdateAreas
    PROVE  AurasMatch'
<1> PICK within \in [here -> SUBSET Areas] :
        /\ inAreas' = [i \in Sessions |-> IF i \in here THEN within[i] ELSE inAreas[i]]
        /\ protected' = (protected \ here) \cup {i \in here : ProtectedAfter(i, within[i])}
        /\ carried' = carried \ {i \in here : Passed(i, within[i]) # {}}
        /\ stripped' = {i \in here : IF Passed(i, within[i]) = {}
                                     THEN i \in stripped
                                     ELSE within[i] # {} /\ Max(Passed(i, within[i])) \notin within[i]}
  BY DEF UpdateAreas
<1>1. here' = here /\ here \subseteq Sessions BY DEF UpdateAreas, placeVars, AmountsOK
<1> SUFFICES ASSUME NEW i \in Sessions
             PROVE  /\ (i \in protected') = (i \in carried' \/ (i \in Citizens /\ inAreas'[i] # {} /\ i \notin stripped'))
                    /\ i \notin here => inAreas'[i] = {}
  BY <1>1 DEF AurasMatch
<1>2. CASE i \notin here
  BY <1>1, <1>2 DEF AurasMatch
<1>3. CASE i \in here /\ Passed(i, within[i]) = {}
  <2>1. within[i] = inAreas[i] BY <1>3 DEF Passed, SymDiff
  <2>2. inAreas'[i] = inAreas[i] BY <1>3, <2>1
  <2>3. (i \in protected') = (i \in protected) BY <1>3 DEF ProtectedAfter
  <2>4. (i \in carried') = (i \in carried) /\ (i \in stripped') = (i \in stripped) BY <1>3
  <2> QED BY <1>3, <2>2, <2>3, <2>4 DEF AurasMatch
<1>4. CASE i \in here /\ Passed(i, within[i]) # {}
  <2> DEFINE last == Max(Passed(i, within[i]))
  <2>1. (i \in protected') = (i \in Citizens /\ last \in within[i]) BY <1>4 DEF ProtectedAfter
  <2>2. i \notin carried' BY <1>4
  <2>3. (i \in stripped') = (within[i] # {} /\ last \notin within[i]) BY <1>4
  <2>4. inAreas'[i] = within[i] BY <1>4
  <2> HIDE DEF last
  <2> QED BY <1>4, <2>1, <2>2, <2>3, <2>4
<1> QED BY <1>2, <1>3, <1>4

LEMMA AurasStep ==
    ASSUME AmountsOK, AurasMatch, [Next]_vars
    PROVE  AurasMatch'
<1> USE DEF AurasMatch
<1>1. CASE UpdateTransfers
  <2> PICK i \in Sessions : Enter(i) \/ Transfer(i) BY <1>1 DEF UpdateTransfers
  <2>1. UNCHANGED areaVars /\ here \subseteq here' BY DEF Enter, Transfer
  <2> QED BY <2>1 DEF areaVars
<1>2. CASE UpdateAreas BY <1>2, UpdateAreasAuras
<1>3. CASE UpdateJumps
  <2>1. CASE EndJumps BY <2>1 DEF EndJumps, placeVars, areaVars
  <2>2. ASSUME NEW j \in Sessions, JumpEnds(j) PROVE AurasMatch'
    BY <2>2 DEF JumpEnds, AmountsOK
  <2> QED BY <1>3, <2>1, <2>2 DEF UpdateJumps
<1>4. CASE UpdateAttacks
  <2>1. CASE EndAttacks BY <2>1 DEF EndAttacks, placeVars, areaVars
  <2>2. ASSUME NEW a \in Sessions PROVE AttackGoesOn(a) \/ AttackCancelled(a) => AurasMatch'
    BY <2>2 DEF AttackGoesOn, AttackCancelled, placeVars, areaVars
  <2>3. ASSUME NEW a \in Sessions, NEW d \in Damages(a) PROVE Hit(a, d) \/ KillsItself(a, d) => AurasMatch'
    BY <2>3 DEF Hit, KillsItself, placeVars, areaVars
  <2>4. ASSUME NEW a \in Sessions, NEW d \in Damages(a), AttackedDead(a, d) PROVE AurasMatch'
    <3>1. target[a] \in Sessions /\ Forget(target[a])
      BY <2>4, Assumptions DEF AttackedDead, VisitAttack, AmountsOK
    <3> QED BY <3>1, ForgetAuras
  <2> QED BY <1>4, <2>1, <2>2, <2>3, <2>4 DEF UpdateAttacks
<1>5. CASE UpdateSessions
  <2>1. CASE EndUpdate BY <2>1 DEF EndUpdate, placeVars, areaVars
  <2>2. ASSUME NEW i \in Sessions, NEW b \in Sessions PROVE StartAttack(i, b) => AurasMatch'
    BY <2>2 DEF StartAttack, placeVars, areaVars
  <2>3. ASSUME NEW i \in Sessions
        PROVE  StopAttack(i) \/ UpdateOffline(i) \/ CombatGoesOn(i) \/ RegenerationWaits(i) \/ Regenerate(i) => AurasMatch'
    BY <2>3 DEF StopAttack, UpdateOffline, CombatGoesOn, RegenerationWaits, Regenerate, placeVars, areaVars
  <2>4. ASSUME NEW i \in Sessions, Leave(i) PROVE AurasMatch'
    BY <2>4, ForgetAuras DEF Leave
  <2> QED BY <1>5, <2>1, <2>2, <2>3, <2>4 DEF UpdateSessions
<1>6. CASE Undefined \/ UNCHANGED vars BY <1>6 DEF Undefined, vars, placeVars, areaVars
<1> QED BY <1>1, <1>2, <1>3, <1>4, <1>5, <1>6 DEF Next

\* Whatever changes hp or shield tells, with the new amounts.
LEMMA ClientsStep ==
    ASSUME AmountsOK, AmountsOK', ClientsKnow, [Next]_vars
    PROVE  ClientsKnow'
<1> USE DEF ClientsKnow, StatusKnown
<1>0. hp' \in [Sessions -> Nat] /\ shield' \in [Sessions -> Nat] BY DEF AmountsOK
<1>1. CASE UpdateTransfers
  <2> PICK i \in Sessions : Enter(i) \/ Transfer(i) BY <1>1 DEF UpdateTransfers
  <2>1. CASE Enter(i)
    <3>1. PICK saved \in Saved(i) :
            /\ hp' = [hp EXCEPT ![i] = saved[1]] /\ shield' = [shield EXCEPT ![i] = saved[2]]
            /\ told' = [told EXCEPT ![i] = saved]
      BY <2>1 DEF Enter
    <3>2. saved = <<saved[1], saved[2]>> /\ saved \in Nat \X Nat BY Assumptions DEF Saved
    <3> QED BY <2>1, <3>1, <3>2 DEF Enter, AmountsOK
  <2>2. CASE Transfer(i) BY <2>2 DEF Transfer, AmountsOK
  <2> QED BY <2>1, <2>2
<1>2. CASE UpdateAreas BY <1>2 DEF UpdateAreas, placeVars, bodyVars
<1>3. CASE UpdateJumps
  <2>1. CASE EndJumps BY <2>1 DEF EndJumps, placeVars, bodyVars
  <2>2. ASSUME NEW i \in Sessions, JumpEnds(i) PROVE ClientsKnow'
    BY <2>2 DEF JumpEnds, bodyVars
  <2> QED BY <1>3, <2>1, <2>2 DEF UpdateJumps
<1>4. ASSUME NEW i \in Sessions, Forget(i) PROVE ClientsKnow'
  BY <1>4 DEF Forget, Gone, AmountsOK
<1>5. CASE UpdateAttacks
  <2>1. CASE EndAttacks BY <2>1 DEF EndAttacks, placeVars, bodyVars
  <2>2. ASSUME NEW a \in Sessions PROVE AttackGoesOn(a) \/ AttackCancelled(a) => ClientsKnow'
    BY <2>2 DEF AttackGoesOn, AttackCancelled, placeVars, bodyVars
  <2>3. ASSUME NEW a \in Sessions, NEW d \in Damages(a), Hit(a, d) PROVE ClientsKnow'
    <3>1. target[a] \in Sessions BY <2>3 DEF Hit, VisitAttack, AmountsOK
    <3> QED BY <2>3, <3>1, <1>0 DEF Hit, placeVars, AmountsOK
  <2>4. ASSUME NEW a \in Sessions, NEW d \in Damages(a), AttackedDead(a, d) PROVE ClientsKnow'
    BY <2>4, <1>4 DEF AttackedDead, VisitAttack, AmountsOK
  <2>5. ASSUME NEW a \in Sessions, NEW d \in Damages(a) PROVE KillsItself(a, d) => ClientsKnow'
    BY <2>5 DEF KillsItself, placeVars, bodyVars
  <2> QED BY <1>5, <2>1, <2>2, <2>3, <2>4, <2>5 DEF UpdateAttacks
<1>6. CASE UpdateSessions
  <2>1. CASE EndUpdate BY <2>1 DEF EndUpdate, placeVars, bodyVars
  <2>2. ASSUME NEW i \in Sessions, NEW b \in Sessions PROVE StartAttack(i, b) => ClientsKnow'
    BY <2>2 DEF StartAttack, placeVars, bodyVars
  <2>3. ASSUME NEW i \in Sessions
        PROVE  StopAttack(i) \/ UpdateOffline(i) \/ CombatGoesOn(i) \/ RegenerationWaits(i) => ClientsKnow'
    BY <2>3 DEF StopAttack, UpdateOffline, CombatGoesOn, RegenerationWaits, placeVars, bodyVars
  <2>4. ASSUME NEW i \in Sessions, Regenerate(i) PROVE ClientsKnow'
    BY <2>4, <1>0 DEF Regenerate, placeVars, AmountsOK
  <2>5. ASSUME NEW i \in Sessions, Leave(i) PROVE ClientsKnow'
    BY <2>5, <1>4 DEF Leave
  <2> QED BY <1>6, <2>1, <2>2, <2>3, <2>4, <2>5 DEF UpdateSessions
<1>7. CASE Undefined \/ UNCHANGED vars BY <1>7 DEF Undefined, vars, placeVars, bodyVars
<1> QED BY <1>1, <1>2, <1>3, <1>5, <1>6, <1>7 DEF Next

-----------------------------------------------------------------------------
(* The theorems.                                                           *)

\* The amounts keep their types, auras match areas, and clients know both.
THEOREM Inductive == Spec => []IInv
<1>1. Init => IInv BY InitIInv
<1>2. IInv /\ [Next]_vars => IInv'
  <2> SUFFICES ASSUME IInv, [Next]_vars PROVE IInv' OBVIOUS
  <2>1. AmountsOK' BY AmountsStep DEF IInv
  <2>2. AurasMatch' BY AurasStep DEF IInv
  <2>3. ClientsKnow' BY <2>1, ClientsStep DEF IInv
  <2> QED BY <2>1, <2>2, <2>3 DEF IInv
<1> QED BY <1>1, <1>2, PTL DEF Spec

LEMMA IInvProtects == IInv => ProtectionMatchesAreas
BY DEF IInv, AmountsOK, AurasMatch, ProtectionMatchesAreas

\* Whatever areas overlap and whoever jumps between matches, the protection is
\* for citizens in areas, but for the two ways around it that the code has.
THEOREM ProtectionIsRight == Spec => []ProtectionMatchesAreas
BY Inductive, IInvProtects, PTL

\* No path that changes hp or shield leaves the clients behind.
THEOREM ClientsAreTold == Spec => []StatusKnown
<1>1. IInv => StatusKnown BY DEF IInv, ClientsKnow
<1> QED BY <1>1, Inductive, PTL

\* What the attacks of one update may do to a session.
LEMMA OnlyHits ==
    ASSUME IInv, [Next]_vars, phase = "attacks", NEW i \in here
    PROVE  \/ i \in here' /\ hp'[i] = hp[i] /\ shield'[i] = shield[i]
           \/ \E a \in Sessions : \E d \in Damages(a) :
                 target[a] = i /\ IsPvP(i) /\ (Hit(a, d) \/ AttackedDead(a, d))
<1>1. CASE UpdateTransfers
  BY <1>1 DEF UpdateTransfers, Enter, Transfer
<1>2. CASE UpdateAreas BY <1>2 DEF UpdateAreas
<1>3. CASE UpdateJumps
  BY <1>3 DEF UpdateJumps, EndJumps, JumpEnds
<1>4. CASE UpdateAttacks
  <2>1. CASE EndAttacks BY <2>1 DEF EndAttacks, placeVars, bodyVars
  <2>2. ASSUME NEW a \in Sessions, AttackGoesOn(a) \/ AttackCancelled(a)
        PROVE  i \in here' /\ hp'[i] = hp[i] /\ shield'[i] = shield[i]
    BY <2>2 DEF AttackGoesOn, AttackCancelled, placeVars, bodyVars
  <2>3. ASSUME NEW a \in Sessions, NEW d \in Damages(a), Hit(a, d) \/ AttackedDead(a, d), target[a] # i
        PROVE  i \in here' /\ hp'[i] = hp[i] /\ shield'[i] = shield[i]
    BY <2>3 DEF Hit, AttackedDead, Forget, placeVars, IInv, AmountsOK
  <2>4. ASSUME NEW a \in Sessions, NEW d \in Damages(a), Hit(a, d) \/ AttackedDead(a, d), target[a] = i
        PROVE  IsPvP(i)
    BY <2>4 DEF Hit, AttackedDead
  <2>5. ASSUME NEW a \in Sessions, NEW d \in Damages(a), KillsItself(a, d)
        PROVE  i \in here' /\ hp'[i] = hp[i] /\ shield'[i] = shield[i]
    BY <2>5 DEF KillsItself, placeVars, bodyVars
  <2> QED BY <1>4, <2>1, <2>2, <2>3, <2>4, <2>5 DEF UpdateAttacks
<1>5. CASE UpdateSessions
  BY <1>5 DEF UpdateSessions, EndUpdate, StartAttack, StopAttack, UpdateOffline, CombatGoesOn,
     RegenerationWaits, Regenerate, Leave
<1>6. CASE Undefined \/ UNCHANGED vars BY <1>6 DEF Undefined, vars, placeVars, bodyVars
<1> QED BY <1>1, <1>2, <1>3, <1>4, <1>5, <1>6 DEF Next

\* Nobody is harmed in an area who has the protection and has hit nobody.
LEMMA SafeStep ==
    ASSUME IInv, [Next]_vars, NEW i \in here \cap Citizens,
           phase = "attacks", inAreas[i] # {}, i \notin stripped \cup attacking
    PROVE  i \in here' /\ hp'[i] = hp[i] /\ shield'[i] = shield[i]
<1>1. i \in protected BY IInvProtects DEF ProtectionMatchesAreas
<1>2. ~IsPvP(i) BY <1>1 DEF IsPvP
<1> QED BY <1>2, OnlyHits

\* A citizen in an area that has hit nobody for a while loses nothing to any
\* attack, whenever that began.
THEOREM AreasAreSafe == Spec => SafeInAreas
<1>1. IInv /\ [Next]_vars =>
        [\A i \in here \cap Citizens :
            (phase = "attacks" /\ inAreas[i] # {} /\ i \notin stripped \cup attacking)
            => i \in here' /\ hp'[i] = hp[i] /\ shield'[i] = shield[i]]_vars
  BY SafeStep
<1> QED BY <1>1, Inductive, PTL DEF Spec, SafeInAreas

\* A hit that misses takes nothing.
LEMMA MissTakesNothing ==
    ASSUME AmountsOK, NEW i \in Sessions
    PROVE  HPAfter(i, 0) = hp[i] /\ ShieldAfter(i, 0) = shield[i]
<1>1. hp[i] \in Nat /\ shield[i] \in Nat BY DEF AmountsOK
<1>2. ShieldDamage(0) = 0 /\ HPShare(0) = 0 BY DEF ShieldDamage, HPShare
<1>3. ShieldAfter(i, 0) = shield[i] BY <1>1, <1>2 DEF ShieldAfter
<1>4. HPDamage(i, 0) = 0 BY <1>1, <1>2 DEF HPDamage
<1> QED BY <1>1, <1>3, <1>4 DEF HPAfter

LEMMA HitsAddUpStep ==
    ASSUME IInv, [Next]_vars, NEW i \in here, phase = "attacks",
           hp'[i] + shield'[i] < hp[i] + shield[i], i \in here'
    PROVE  \E a \in Sessions : target[a] = i /\ \E damage \in Damage[a] :
              LET lost == (hp[i] + shield[i]) - (hp'[i] + shield'[i]) IN
              \/ lost = damage
              \/ lost + 1 = damage /\ shield[i] > 0
              \/ lost = damage + shield[i] /\ shield[i] = ShieldDamage(damage)
<1>1. AmountsOK /\ i \in Sessions /\ hp[i] \in Nat /\ shield[i] \in Nat BY DEF IInv, AmountsOK
<1>2. PICK a \in Sessions : \E d \in Damages(a) : target[a] = i /\ (Hit(a, d) \/ AttackedDead(a, d))
  BY <1>1, OnlyHits
<1>3. PICK d \in Damages(a) : target[a] = i /\ (Hit(a, d) \/ AttackedDead(a, d)) BY <1>2
<1>4. ~AttackedDead(a, d) BY <1>3 DEF AttackedDead, Forget
<1>5. Hit(a, d) BY <1>3, <1>4
<1>6. HPAfter(i, d) > 0 /\ hp'[i] = HPAfter(i, d) /\ shield'[i] = ShieldAfter(i, d)
  BY <1>1, <1>3, <1>5 DEF Hit, AmountsOK
<1>7. d \in Nat BY Assumptions
<1>8. d \in Damage[a]
  <2>1. CASE d = 0
    <3>1. hp'[i] = hp[i] /\ shield'[i] = shield[i] BY <2>1, <1>1, <1>6, MissTakesNothing
    <3> QED BY <3>1, <1>1
  <2> QED BY <2>1, <1>3 DEF Damages
<1>9. LET lost == (hp[i] + shield[i]) - (hp'[i] + shield'[i]) IN
        \/ lost = d
        \/ lost + 1 = d /\ shield[i] > 0
        \/ lost = d + shield[i] /\ shield[i] = ShieldDamage(d)
  BY <1>1, <1>6, <1>7, HitTakes
<1> QED BY <1>3, <1>8, <1>9

\* Hp and shield together lose the damage, or one less by rounding while a
\* shield holds, or the shield besides when it is exactly used up; for every
\* damage, hp and shield.
THEOREM HitsTakeTheirDamage == Spec => HitsAddUp
<1>1. IInv /\ [Next]_vars =>
        [\A i \in here : phase = "attacks" /\ hp'[i] + shield'[i] < hp[i] + shield[i] /\ i \in here' =>
            \E a \in Sessions : target[a] = i /\ \E damage \in Damage[a] :
                LET lost == (hp[i] + shield[i]) - (hp'[i] + shield'[i]) IN
                \/ lost = damage
                \/ lost + 1 = damage /\ shield[i] > 0
                \/ lost = damage + shield[i] /\ shield[i] = ShieldDamage(damage)]_vars
  BY HitsAddUpStep
<1> QED BY <1>1, Inductive, PTL DEF Spec, HitsAddUp

-----------------------------------------------------------------------------
(* The AIs of NPCs.                                                        *)

\* SomeoneDisappear is told of everybody who leaves, so that who an NPC has in
\* mind is there.
InMindIsThere ==
    /\ enemy \in present \cup {Nobody}
    /\ followed \in present \cup {Nobody}

BehaviourInv == BehaviourTypeOK /\ InMindIsThere /\ FollowsSomebody

LEMMA InitBehaviourInv == BehaviourInit => BehaviourInv
<1> SUFFICES ASSUME BehaviourInit PROVE BehaviourInv OBVIOUS
<1>1. moving \in BOOLEAN /\ lowHP \in BOOLEAN /\ faulted \in BOOLEAN /\ ~faulted
  BY Zenon DEF BehaviourInit
<1>2. ai \in {"FullAggresive", "Defensive"} /\ turn \in {"between", "state"}
  BY DEF BehaviourInit
<1>3. pause \in 0 .. MaxPause BY NPCAssumption DEF BehaviourInit
<1>4. enemy = Nobody /\ followed = Nobody /\ present = {} /\ state = "Deciding" BY DEF BehaviourInit
<1> QED BY <1>1, <1>2, <1>3, <1>4 DEF BehaviourInv, BehaviourTypeOK, InMindIsThere, FollowsSomebody

\* Others come, go and attack between two turns, and the AI is told who goes.
LEMMA OthersBehaviourInv ==
    ASSUME BehaviourInv, NEW s \in Others,
           SomeoneEnters(s) \/ SomeoneDisappear(s) \/ SomeoneAttacks(s)
    PROVE  BehaviourInv'
<1>1. CASE SomeoneEnters(s)
  BY <1>1 DEF SomeoneEnters, BehaviourInv, BehaviourTypeOK, InMindIsThere, FollowsSomebody
<1>2. CASE SomeoneDisappear(s)
  BY <1>2 DEF SomeoneDisappear, BehaviourInv, BehaviourTypeOK, InMindIsThere, FollowsSomebody
<1>3. CASE SomeoneAttacks(s)
  BY <1>3 DEF SomeoneAttacks, others, BehaviourInv, BehaviourTypeOK, InMindIsThere, FollowsSomebody
<1> QED BY <1>1, <1>2, <1>3

\* What the function of a state may do to the variables of the invariant.
SafeTurn ==
    /\ state' \in {"Deciding", "Searching", "PasiveFollowing", "PasiveStopped",
                   "AggresiveFollowing", "AggresiveStopped", "RunningAway"}
    /\ pause' \in 0 .. MaxPause
    /\ followed' \in {followed, Nobody}
    /\ moving' \in BOOLEAN
    /\ faulted' = FALSE

\* The transitions that ask for no position are always safe ...
LEMMA BlindTransitions ==
    ASSUME BehaviourInv
    PROVE  /\ KeepState => SafeTurn
           /\ TransitionToDeciding => SafeTurn
           /\ TransitionToSearching => SafeTurn
           /\ TransitionToRunningAway => SafeTurn
<1>1. KeepState => SafeTurn
  BY DEF KeepState, BehaviourInv, BehaviourTypeOK, FollowsSomebody, SafeTurn
<1>2. TransitionToDeciding => SafeTurn
  BY DEF TransitionToDeciding, BehaviourInv, BehaviourTypeOK, FollowsSomebody, SafeTurn
<1>3. TransitionToSearching => SafeTurn
  <2> SUFFICES ASSUME TransitionToSearching PROVE SafeTurn OBVIOUS
  <2>1. moving' \in BOOLEAN /\ ~faulted'
    BY Zenon DEF TransitionToSearching, MoveTo, BehaviourInv, BehaviourTypeOK, FollowsSomebody
  <2> QED BY <2>1 DEF TransitionToSearching, BehaviourInv, BehaviourTypeOK, SafeTurn
<1>4. TransitionToRunningAway => SafeTurn
  <2> SUFFICES ASSUME TransitionToRunningAway PROVE SafeTurn OBVIOUS
  <2>1. moving' \in BOOLEAN /\ ~faulted'
    BY Zenon DEF TransitionToRunningAway, MoveTo, BehaviourInv, BehaviourTypeOK, FollowsSomebody
  <2> QED BY <2>1 DEF TransitionToRunningAway, BehaviourInv, BehaviourTypeOK, SafeTurn
<1> QED BY <1>1, <1>2, <1>3, <1>4

\* ... those that ask where the target is when there is a target ...
LEMMA PasiveTransitions ==
    ASSUME BehaviourInv, followed # Nobody
    PROVE  /\ TransitionToPasiveFollowing => SafeTurn
           /\ TransitionToPasiveStopped => SafeTurn
           /\ StayNear(followed) => SafeTurn
BY DEF BehaviourInv, BehaviourTypeOK, InMindIsThere, FollowsSomebody, SafeTurn, Follow, MoveTo, StayNear,
       TransitionToPasiveFollowing, TransitionToPasiveStopped

\* ... and those that ask where the enemy is when there is an enemy.
LEMMA AggresiveTransitions ==
    ASSUME BehaviourInv, enemy # Nobody
    PROVE  /\ TransitionToAggresiveFollowing => SafeTurn
           /\ TransitionToAggresiveStopped => SafeTurn
           /\ StayNear(enemy) => SafeTurn
BY DEF BehaviourInv, BehaviourTypeOK, InMindIsThere, FollowsSomebody, SafeTurn, Follow, MoveTo, StayNear,
       TransitionToAggresiveFollowing, TransitionToAggresiveStopped

\* Every state has looked for whom it asks before it asks.
LEMMA StatesAreSafe ==
    ASSUME BehaviourInv, RunState
    PROVE  SafeTurn
<1>1. CASE DecidingState
  <2>1. CASE pause = 0 BY <1>1, <2>1, BlindTransitions DEF DecidingState
  <2>2. CASE pause # 0 /\ enemy # Nobody BY <1>1, <2>2, AggresiveTransitions DEF DecidingState
  <2>3. CASE pause # 0 /\ enemy = Nobody /\ followed # Nobody
    BY <1>1, <2>3, PasiveTransitions DEF DecidingState
  <2>4. CASE pause # 0 /\ enemy = Nobody /\ followed = Nobody
    BY <1>1, <2>4, NPCAssumption DEF DecidingState, BehaviourInv, BehaviourTypeOK, FollowsSomebody, SafeTurn
  <2> QED BY <2>1, <2>2, <2>3, <2>4
<1>2. CASE SearchingState
  BY <1>2, BlindTransitions, PasiveTransitions, AggresiveTransitions DEF SearchingState
<1>3. CASE RunningAway
  BY <1>3, BlindTransitions DEF RunningAway
<1>4. CASE PasiveFollowing
  BY <1>4, BlindTransitions, PasiveTransitions, AggresiveTransitions DEF PasiveFollowing
<1>5. CASE PasiveStopped
  <2>1. CASE enemy # Nobody
    BY <1>5, <2>1 DEF PasiveStopped, BehaviourInv, BehaviourTypeOK, FollowsSomebody, SafeTurn
  <2>2. CASE enemy = Nobody
    BY <1>5, <2>2, BlindTransitions, PasiveTransitions DEF PasiveStopped
  <2> QED BY <2>1, <2>2
<1>6. CASE AggresiveFollowing
  BY <1>6, BlindTransitions, AggresiveTransitions DEF AggresiveFollowing
<1>7. CASE AggresiveStopped
  BY <1>7, BlindTransitions, AggresiveTransitions DEF AggresiveStopped
<1> QED BY <1>1, <1>2, <1>3, <1>4, <1>5, <1>6, <1>7 DEF RunState

LEMMA StepBehaviourInv == ASSUME BehaviourInv, [BehaviourNext]_behaviourVars PROVE BehaviourInv'
<1>1. CASE RunState
  <2>1. SafeTurn BY <1>1, StatesAreSafe
  <2>2. faulted' \in BOOLEAN /\ ~faulted' /\ moving' \in BOOLEAN /\ lowHP' \in BOOLEAN
    BY <2>1, <1>1, Zenon DEF SafeTurn, RunState, BehaviourInv, BehaviourTypeOK
  <2>3. enemy' \in present' \cup {Nobody} /\ followed' \in present' \cup {Nobody}
    BY <1>1, <2>1 DEF RunState, SafeTurn, others, BehaviourInv, InMindIsThere
  <2> QED
    BY <1>1, <2>1, <2>2, <2>3 DEF RunState, SafeTurn, others, BehaviourInv, BehaviourTypeOK, InMindIsThere,
       FollowsSomebody
<1>2. CASE UNCHANGED behaviourVars
  BY <1>2 DEF behaviourVars, others, BehaviourInv, BehaviourTypeOK, InMindIsThere, FollowsSomebody
<1>3. CASE \E s \in Others : SomeoneEnters(s) \/ SomeoneDisappear(s) \/ SomeoneAttacks(s)
  BY <1>3, OthersBehaviourInv
<1>4. CASE EnemyLost
  BY <1>4 DEF EnemyLost, others, BehaviourInv, BehaviourTypeOK, InMindIsThere, FollowsSomebody
<1>5. CASE LoseHP
  BY <1>5 DEF LoseHP, others, BehaviourInv, BehaviourTypeOK, InMindIsThere, FollowsSomebody
<1>6. CASE Arrive
  BY <1>6 DEF Arrive, others, BehaviourInv, BehaviourTypeOK, InMindIsThere, FollowsSomebody
<1>7. CASE Detect
  BY <1>7 DEF Detect, others, BehaviourInv, BehaviourTypeOK, InMindIsThere, FollowsSomebody
<1> QED BY <1>1, <1>2, <1>3, <1>4, <1>5, <1>6, <1>7 DEF BehaviourNext

\* Who an NPC has in mind is in the match, and the rest of the invariant.
THEOREM BehaviourInductive == BehaviourSpec => []BehaviourInv
<1>1. BehaviourInv /\ [BehaviourNext]_behaviourVars => BehaviourInv' BY StepBehaviourInv
<1> QED BY InitBehaviourInv, <1>1, PTL DEF BehaviourSpec

\* The AI's variables keep their types (DefensiveNPCAI.h:376, FullAggresiveNPCAI.h:254).
THEOREM BehaviourTypeCorrect == BehaviourSpec => []BehaviourTypeOK
<1>1. BehaviourInv => BehaviourTypeOK BY DEF BehaviourInv
<1> QED BY BehaviourInductive, <1>1, PTL

\* No state asks where nobody is, whoever vanishes between two turns
\* (DefensiveNPCAI.h:164, 185, 214, 284).
THEOREM NeverFollowsNobody == BehaviourSpec => []FollowsSomebody
<1>1. BehaviourInv => FollowsSomebody BY DEF BehaviourInv
<1> QED BY BehaviourInductive, <1>1, PTL
=============================================================================
