-------------------------- MODULE WorldViewProofs --------------------------
(***************************************************************************)
(* Clients agree with the match, and collections are answered, for any     *)
(* number of players, NPCs and collectables.                               *)
(***************************************************************************)
EXTENDS WorldView, FiniteSetTheorems, TLAPS

Views == [sessions : SUBSET IDs, attacks : SUBSET (IDs \X IDs),
          collectables : SUBSET CollectableIDs, collecting : CollectableIDs \cup {None}]

Collections == [what : CollectableIDs \cup {None}, told : BOOLEAN, moved : BOOLEAN]

\* What the messages are sent from and to is of its type.
ViewTypes ==
    /\ clients \subseteq IDs /\ npcs \subseteq IDs
    /\ attacks \subseteq IDs \X IDs
    /\ collectables \subseteq CollectableIDs
    /\ collection \in [IDs -> Collections]
    /\ view \in [IDs -> Views]

\* StartAttack is ignored while an entry of the attacker is listed.
OneAttackEach == \A x, y \in attacks : x[1] = y[1] => x = y

\* ViewsAgree for one client.
Correct(c) ==
    /\ view[c].sessions = Sessions \ {c}
    /\ \A a, b \in Sessions : <<a, b>> \in view[c].attacks <=> <<a, b>> \in attacks
    /\ view[c].collectables = collectables

ViewsCorrect == \A c \in clients : Correct(c)

IInv == ViewTypes /\ OneAttackEach /\ ViewsCorrect /\ CollectingIsAnswered

LEMMA InitIInv == Init => IInv
<1> SUFFICES ASSUME Init PROVE IInv OBVIOUS
<1> USE DEF Init
<1>1. ViewTypes BY DEF ViewTypes, Views, Collections, NoCollection, NoView
<1>2. OneAttackEach BY DEF OneAttackEach
<1>3. ViewsCorrect BY DEF ViewsCorrect
<1>4. CollectingIsAnswered BY DEF CollectingIsAnswered
<1> QED BY <1>1, <1>2, <1>3, <1>4 DEF IInv

-----------------------------------------------------------------------------
(* What each message makes of a view, field by field.                      *)

Shows(v, sessions, entries, things, thing) ==
    /\ v \in Views
    /\ v.sessions = sessions /\ v.attacks = entries
    /\ v.collectables = things /\ v.collecting = thing

LEMMA SessionMessages ==
    ASSUME NEW v \in Views, NEW i \in IDs
    PROVE  /\ Shows(SendNewPlayer(i, v), v.sessions \cup {i}, v.attacks, v.collectables, v.collecting)
           /\ Shows(SendSomeoneGone(i, v), v.sessions \ {i},
                    {attack \in v.attacks : i \notin {attack[1], attack[2]}},
                    v.collectables, v.collecting)
           /\ Shows(SendStopAttack(i, v), v.sessions, {attack \in v.attacks : attack[1] # i},
                    v.collectables, v.collecting)
           /\ Shows([v EXCEPT !.collecting = None], v.sessions, v.attacks, v.collectables, None)
<1> USE DEF Views, Shows
<1>1. Shows(SendNewPlayer(i, v), v.sessions \cup {i}, v.attacks, v.collectables, v.collecting)
  BY DEF SendNewPlayer
<1>2. Shows(SendSomeoneGone(i, v), v.sessions \ {i},
            {attack \in v.attacks : i \notin {attack[1], attack[2]}}, v.collectables, v.collecting)
  BY DEF SendSomeoneGone
<1>3. Shows(SendStopAttack(i, v), v.sessions, {attack \in v.attacks : attack[1] # i},
            v.collectables, v.collecting)
  BY DEF SendStopAttack
<1>4. Shows([v EXCEPT !.collecting = None], v.sessions, v.attacks, v.collectables, None)
  OBVIOUS
<1> QED BY <1>1, <1>2, <1>3, <1>4

LEMMA StartAttackMessage ==
    ASSUME NEW v \in Views, NEW started \in SUBSET (IDs \X IDs)
    PROVE  Shows(SendStartAttack(started, v), v.sessions, v.attacks \cup started,
                 v.collectables, v.collecting)
BY DEF Views, Shows, SendStartAttack

LEMMA SpawnMessage ==
    ASSUME NEW v \in Views, NEW more \in SUBSET CollectableIDs
    PROVE  Shows(SendCollectableSpawn(more, v), v.sessions, v.attacks, v.collectables \cup more, v.collecting)
BY DEF Views, Shows, SendCollectableSpawn

LEMMA CollectableMessages ==
    ASSUME NEW v \in Views, NEW k \in CollectableIDs
    PROVE  /\ Shows(SendCollectableDespawn(k, v), v.sessions, v.attacks, v.collectables \ {k}, v.collecting)
           /\ Shows(SendCollecting(k, v), v.sessions, v.attacks, v.collectables, k)
<1> USE DEF Views, Shows
<1>1. Shows(SendCollectableDespawn(k, v), v.sessions, v.attacks, v.collectables \ {k}, v.collecting)
  BY DEF SendCollectableDespawn
<1>2. Shows(SendCollecting(k, v), v.sessions, v.attacks, v.collectables, k)
  BY DEF SendCollecting
<1> QED BY <1>1, <1>2

-----------------------------------------------------------------------------
(* Sessions that come and go.                                              *)

\* Nothing refers to a new identifier.
LEMMA NewIsNobody ==
    ASSUME IInv, NEW i \in NewIDs
    PROVE  /\ i \in IDs /\ i \notin Sessions
           /\ \A a, b : <<a, b>> \in attacks => a # i /\ b # i
           /\ \A c \in clients : \A a, b : <<a, b>> \in view[c].attacks => a # i /\ b # i
<1>1. i \in IDs /\ i \notin Sessions /\ i \notin Parties(attacks)
      /\ i \notin UNION {Parties(view[c].attacks) : c \in clients}
  BY DEF NewIDs
<1>2. \A entries, a, b : <<a, b>> \in entries => a \in Parties(entries) /\ b \in Parties(entries)
  <2> SUFFICES ASSUME NEW entries, NEW a, NEW b, <<a, b>> \in entries
               PROVE  a \in Parties(entries) /\ b \in Parties(entries)
    OBVIOUS
  <2>1. {<<a, b>>[1], <<a, b>>[2]} \in {{attack[1], attack[2]} : attack \in entries} OBVIOUS
  <2> QED BY <2>1 DEF Parties
<1> QED BY <1>1, <1>2

LEMMA EnterIInv == ASSUME IInv, NEW i \in IDs, Enter(i) PROVE IInv'
<1> USE DEF IInv, ViewTypes
<1>1. /\ i \notin Sessions
      /\ \A a, b : <<a, b>> \in attacks => a # i /\ b # i
      /\ \A c \in clients : \A a, b : <<a, b>> \in view[c].attacks => a # i /\ b # i
  BY NewIsNobody DEF Enter
<1>2. Sessions' = Sessions \cup {i} /\ clients \subseteq clients' /\ clients' \subseteq clients \cup {i}
  BY DEF Enter, Sessions
<1>3. \A c \in clients : view'[c] = SendNewPlayer(i, view[c])
  BY <1>1 DEF Enter, Sessions
<1>4. i \in clients' => view'[i] = WorldState(i) BY <1>1 DEF Enter, Sessions
<1>5. \A c \in IDs : view'[c] \in Views
  <2>1. WorldState(i) \in Views BY DEF WorldState, Views, Sessions
  <2>2. NoView \in Views BY DEF NoView, Views
  <2>3. \A c \in clients : SendNewPlayer(i, view[c]) \in Views BY SessionMessages DEF Shows
  <2> QED BY <2>1, <2>2, <2>3 DEF Enter
<1>6. ViewTypes'
  <2>1. view' \in [IDs -> Views] BY <1>5 DEF Enter
  <2> QED BY <2>1 DEF Enter, collectVars
<1>7. OneAttackEach' BY DEF Enter, OneAttackEach
<1>8. ViewsCorrect'
  <2> SUFFICES ASSUME NEW c \in clients' PROVE Correct(c)' BY DEF ViewsCorrect
  <2>0. attacks' = attacks /\ collectables' = collectables BY DEF Enter, collectVars
  <2>1. CASE c \in clients
    <3>1. Correct(c) /\ c # i BY <2>1, <1>1 DEF ViewsCorrect, Sessions
    <3>2. Shows(view'[c], view[c].sessions \cup {i}, view[c].attacks, view[c].collectables, view[c].collecting)
      BY <1>3, <2>1, SessionMessages
    <3> QED BY <1>1, <1>2, <2>0, <2>1, <3>1, <3>2 DEF Correct, Shows
  <2>2. CASE c = i
    <3>1. view'[c] = [sessions |-> Sessions, attacks |-> attacks, collectables |-> collectables, collecting |-> None]
      BY <1>4, <2>2 DEF WorldState
    <3> QED BY <1>1, <1>2, <2>0, <2>2, <3>1 DEF Correct
  <2> QED BY <1>2, <2>1, <2>2
<1>9. CollectingIsAnswered'
  <2> SUFFICES ASSUME NEW c \in clients' \ walkedOff', view'[c].collecting # None
               PROVE  collection'[c].what = view'[c].collecting /\ collection'[c].told
    BY DEF CollectingIsAnswered
  <2>1. collection' = collection /\ walkedOff' = walkedOff BY DEF Enter, collectVars
  <2>2. c # i BY <1>4 DEF WorldState
  <2>3. c \in clients BY <1>2, <2>2
  <2>4. view'[c].collecting = view[c].collecting
    <3>1. view[c] \in Views BY <2>3
    <3>2. view'[c] = SendNewPlayer(i, view[c]) BY <1>3, <2>3
    <3>3. Shows(SendNewPlayer(i, view[c]), view[c].sessions \cup {i}, view[c].attacks,
                view[c].collectables, view[c].collecting)
      BY <3>1, SessionMessages
    <3> QED BY <3>2, <3>3 DEF Shows
  <2> QED BY <2>1, <2>3, <2>4 DEF CollectingIsAnswered
<1> QED BY <1>6, <1>7, <1>8, <1>9

\* A session leaves, and of the attacks only such as it was part of.
LEMMA LeaveIInv ==
    ASSUME IInv, NEW i \in IDs, Leave(i),
           collectables' = collectables, collection' = collection,
           attacks' \subseteq attacks,
           \A a, b \in Sessions \ {i} : <<a, b>> \in attacks => <<a, b>> \in attacks'
    PROVE  IInv'
<1> USE DEF IInv, ViewTypes
<1>1. Sessions' = Sessions \ {i} /\ clients' = clients \ {i} /\ walkedOff' = walkedOff \ {i}
  BY DEF Leave, Sessions
<1>2. \A c \in clients' : view'[c] = SendSomeoneGone(i, view[c]) BY <1>1 DEF Leave
<1>3. \A c \in clients' :
        Shows(view'[c], view[c].sessions \ {i}, {attack \in view[c].attacks : i \notin {attack[1], attack[2]}},
              view[c].collectables, view[c].collecting)
  <2> SUFFICES ASSUME NEW c \in clients'
               PROVE Shows(view'[c], view[c].sessions \ {i},
                           {attack \in view[c].attacks : i \notin {attack[1], attack[2]}},
                           view[c].collectables, view[c].collecting)
    OBVIOUS
  <2>1. view[c] \in Views BY <1>1
  <2> QED BY <1>2, <2>1, SessionMessages
<1>4. ViewTypes'
  <2>1. NoView \in Views BY DEF NoView, Views
  <2>2. \A c \in IDs : view'[c] \in Views BY <1>1, <1>3, <2>1 DEF Leave, Shows
  <2>3. view' \in [IDs -> Views] BY <2>2 DEF Leave
  <2> QED BY <2>3 DEF Leave
<1>5. OneAttackEach' BY DEF OneAttackEach
<1>6. ViewsCorrect'
  <2> SUFFICES ASSUME NEW c \in clients' PROVE Correct(c)' BY DEF ViewsCorrect
  <2>1. Correct(c) BY <1>1 DEF ViewsCorrect
  <2>2. \A a, b \in Sessions' : <<a, b>> \in view'[c].attacks <=> <<a, b>> \in view[c].attacks
    BY <1>1, <1>3 DEF Shows
  <2>3. \A a, b \in Sessions' : <<a, b>> \in attacks' <=> <<a, b>> \in attacks BY <1>1
  <2> QED BY <1>1, <1>3, <2>1, <2>2, <2>3 DEF Correct, Shows
<1>7. CollectingIsAnswered' BY <1>1, <1>3 DEF CollectingIsAnswered, Shows
<1> QED BY <1>4, <1>5, <1>6, <1>7

LEMMA JumpEndsIInv == ASSUME IInv, NEW j \in IDs, JumpEnds(j) PROVE IInv'
BY LeaveIInv DEF JumpEnds

LEMMA LeaveMatchIInv == ASSUME IInv, NEW i \in IDs, LeaveMatch(i) PROVE IInv'
BY LeaveIInv DEF LeaveMatch

\* The entries that are erased with the attacked are its own and the one that
\* killed it.
LEMMA AttackedDeadIInv == ASSUME IInv, NEW attack \in attacks, AttackedDead(attack) PROVE IInv'
<1>1. attack[1] \in IDs /\ attack[2] \in IDs /\ Leave(attack[2])
  BY DEF AttackedDead, IInv, ViewTypes
<1>2. attacks' = attacks \ {a \in attacks : a = attack \/ a[1] = attack[2]}
  BY DEF AttackedDead, EraseAttacks
<1>3. \A a, b \in Sessions \ {attack[2]} : <<a, b>> \in attacks => <<a, b>> \in attacks'
  BY <1>2
<1> QED BY <1>1, <1>2, <1>3, LeaveIInv DEF AttackedDead

-----------------------------------------------------------------------------
(* Attacks and collectables, with everyone where they were.                *)

\* The views still agree if every client sees the same changes as the match.
LEMMA SameChanges ==
    ASSUME IInv, UNCHANGED sessionVars,
           \A c \in clients :
              /\ view'[c].sessions = view[c].sessions
              /\ \A a, b \in Sessions :
                    (<<a, b>> \in view[c].attacks <=> <<a, b>> \in attacks)
                    => (<<a, b>> \in view'[c].attacks <=> <<a, b>> \in attacks')
              /\ view[c].collectables = collectables => view'[c].collectables = collectables'
    PROVE  ViewsCorrect'
<1>1. Sessions' = Sessions /\ clients' = clients BY DEF sessionVars, Sessions
<1> SUFFICES ASSUME NEW c \in clients PROVE Correct(c)' BY <1>1 DEF ViewsCorrect
<1>2. Correct(c) BY DEF IInv, ViewsCorrect
<1> QED BY <1>1, <1>2 DEF Correct

LEMMA DropAttackIInv == ASSUME IInv, NEW attack \in attacks, DropAttack(attack) PROVE IInv'
<1> USE DEF IInv, ViewTypes
<1>1. /\ UNCHANGED sessionVars /\ attacks' = attacks \ {attack} /\ view' = view
      /\ collectables' = collectables /\ collection' = collection /\ walkedOff' = walkedOff
  BY DEF DropAttack, EraseAttacks, collectVars
<1>2. \A a, b \in Sessions : <<a, b>> # attack BY DEF DropAttack, Present
<1>3. ViewTypes' BY <1>1 DEF sessionVars
<1>4. OneAttackEach' BY <1>1 DEF OneAttackEach
<1>5. ViewsCorrect' BY <1>1, <1>2, SameChanges
<1>6. CollectingIsAnswered' BY <1>1 DEF CollectingIsAnswered, sessionVars
<1> QED BY <1>3, <1>4, <1>5, <1>6

\* Nobody attacks twice, so that the message that one attacks no more is right.
LEMMA AttackCancelledIInv == ASSUME IInv, NEW attack \in attacks, AttackCancelled(attack) PROVE IInv'
<1> USE DEF IInv, ViewTypes
<1> DEFINE a0 == attack[1]
<1>1. /\ UNCHANGED sessionVars /\ attacks' = attacks \ {attack}
      /\ view' = [c \in IDs |-> SendStopAttack(a0, view[c])] /\ a0 \in IDs
      /\ collectables' = collectables /\ collection' = collection /\ walkedOff' = walkedOff
  BY DEF AttackCancelled, EraseAttacks, collectVars
<1>2. \A c \in IDs : Shows(view'[c], view[c].sessions, {x \in view[c].attacks : x[1] # a0},
                           view[c].collectables, view[c].collecting)
  <2> SUFFICES ASSUME NEW c \in IDs
               PROVE  Shows(view'[c], view[c].sessions, {x \in view[c].attacks : x[1] # a0},
                            view[c].collectables, view[c].collecting)
    OBVIOUS
  <2>1. view[c] \in Views OBVIOUS
  <2>2. view'[c] = SendStopAttack(a0, view[c]) BY <1>1
  <2> QED BY <1>1, <2>1, <2>2, SessionMessages
<1>3. ViewTypes'
  <2>1. view' \in [IDs -> Views] BY <1>1, <1>2 DEF Shows
  <2> QED BY <1>1, <2>1 DEF sessionVars
<1>4. OneAttackEach' BY <1>1 DEF OneAttackEach
<1>5. ViewsCorrect'
  <2>1. Sessions \subseteq IDs /\ clients \subseteq IDs BY DEF Sessions
  <2>2. \A a, b \in Sessions : <<a, b>> \in attacks' <=> (<<a, b>> \in attacks /\ a # a0)
    BY <1>1, <2>1 DEF OneAttackEach
  <2>3. \A c \in clients : \A a, b \in Sessions :
            <<a, b>> \in view'[c].attacks <=> (<<a, b>> \in view[c].attacks /\ a # a0)
    BY <1>2, <2>1 DEF Shows
  <2> QED BY <1>1, <1>2, <2>1, <2>2, <2>3, SameChanges DEF Shows
<1>6. CollectingIsAnswered' BY <1>1, <1>2 DEF CollectingIsAnswered, sessionVars, Shows
<1> QED BY <1>3, <1>4, <1>5, <1>6

LEMMA StopAttackIInv == ASSUME IInv, NEW a0 \in IDs, StopAttack(a0) PROVE IInv'
<1> USE DEF IInv, ViewTypes
<1>1. /\ UNCHANGED sessionVars /\ attacks' = {attack \in attacks : attack[1] # a0}
      /\ view' = [c \in IDs |-> SendStopAttack(a0, view[c])]
      /\ collectables' = collectables /\ collection' = collection /\ walkedOff' = walkedOff
  BY DEF StopAttack, collectVars
<1>2. \A c \in IDs : Shows(view'[c], view[c].sessions, {x \in view[c].attacks : x[1] # a0},
                           view[c].collectables, view[c].collecting)
  <2> SUFFICES ASSUME NEW c \in IDs
               PROVE  Shows(view'[c], view[c].sessions, {x \in view[c].attacks : x[1] # a0},
                            view[c].collectables, view[c].collecting)
    OBVIOUS
  <2>1. view[c] \in Views OBVIOUS
  <2>2. view'[c] = SendStopAttack(a0, view[c]) BY <1>1
  <2> QED BY <2>1, <2>2, SessionMessages
<1>3. ViewTypes'
  <2>1. view' \in [IDs -> Views] BY <1>1, <1>2 DEF Shows
  <2> QED BY <1>1, <2>1 DEF sessionVars
<1>4. OneAttackEach' BY <1>1 DEF OneAttackEach
<1>5. ViewsCorrect' BY <1>1, <1>2, SameChanges DEF Shows
<1>6. CollectingIsAnswered' BY <1>1, <1>2 DEF CollectingIsAnswered, sessionVars, Shows
<1> QED BY <1>3, <1>4, <1>5, <1>6

LEMMA StartAttackIInv == ASSUME IInv, NEW a \in IDs, NEW b \in IDs, StartAttack(a, b) PROVE IInv'
<1> USE DEF IInv, ViewTypes
<1> PICK answered \in BOOLEAN :
        LET more == {<<a, b>>} \cup (IF answered THEN {<<b, a>>} ELSE {})
        IN /\ answered => b \in npcs \ Attackers /\ b # a
           /\ attacks' = attacks \cup more
           /\ view' = [c \in IDs |-> IF c \in clients THEN SendStartAttack(more, view[c]) ELSE NoView]
  BY DEF StartAttack
<1> PICK started :
        /\ started = {<<a, b>>} \/ (started = {<<a, b>>, <<b, a>>} /\ b \notin Attackers /\ b # a)
        /\ attacks' = attacks \cup started
        /\ view' = [c \in IDs |-> IF c \in clients THEN SendStartAttack(started, view[c]) ELSE NoView]
  OBVIOUS
<1>1. /\ UNCHANGED sessionVars /\ a \notin Attackers
      /\ collectables' = collectables /\ collection' = collection /\ walkedOff' = walkedOff
  BY DEF StartAttack, collectVars
<1>2. started \in SUBSET (IDs \X IDs) OBVIOUS
<1>3. \A c \in clients : Shows(view'[c], view[c].sessions, view[c].attacks \cup started,
                               view[c].collectables, view[c].collecting)
  <2> SUFFICES ASSUME NEW c \in clients
               PROVE  Shows(view'[c], view[c].sessions, view[c].attacks \cup started,
                            view[c].collectables, view[c].collecting)
    OBVIOUS
  <2>1. view[c] \in Views OBVIOUS
  <2>2. view'[c] = SendStartAttack(started, view[c]) OBVIOUS
  <2> QED BY <1>2, <2>1, <2>2, StartAttackMessage
<1>4. ViewTypes'
  <2>1. NoView \in Views BY DEF NoView, Views
  <2>2. view' \in [IDs -> Views] BY <1>3, <2>1 DEF Shows
  <2> QED BY <1>1, <1>2, <2>2 DEF sessionVars
<1>5. OneAttackEach'
  <2>1. \A x \in attacks : x[1] # a BY <1>1 DEF Attackers
  <2>2. b \notin Attackers => \A x \in attacks : x[1] # b BY DEF Attackers
  <2>3. CASE started = {<<a, b>>} BY <2>1, <2>3 DEF OneAttackEach
  <2>4. CASE started = {<<a, b>>, <<b, a>>} /\ b \notin Attackers /\ b # a
    BY <2>1, <2>2, <2>4 DEF OneAttackEach
  <2> QED BY <2>3, <2>4
<1>6. ViewsCorrect' BY <1>1, <1>3, SameChanges DEF Shows
<1>7. CollectingIsAnswered' BY <1>1, <1>3 DEF CollectingIsAnswered, sessionVars, Shows
<1> QED BY <1>4, <1>5, <1>6, <1>7

LEMMA SpawnIInv == ASSUME IInv, UpdateCollectableSpawner PROVE IInv'
<1> USE DEF IInv, ViewTypes
<1> PICK spawned \in kSubset(due, NewCollectableIDs) :
        /\ collectables' = collectables \cup spawned
        /\ view' = [c \in IDs |-> IF c \in clients THEN SendCollectableSpawn(spawned, view[c]) ELSE NoView]
  BY DEF UpdateCollectableSpawner
<1>1. UNCHANGED sessionVars /\ attacks' = attacks /\ collection' = collection /\ walkedOff' = walkedOff
  BY DEF UpdateCollectableSpawner
<1>2. spawned \in SUBSET CollectableIDs BY DEF kSubset, NewCollectableIDs
<1>3. \A c \in clients : Shows(view'[c], view[c].sessions, view[c].attacks,
                               view[c].collectables \cup spawned, view[c].collecting)
  <2> SUFFICES ASSUME NEW c \in clients
               PROVE  Shows(view'[c], view[c].sessions, view[c].attacks,
                            view[c].collectables \cup spawned, view[c].collecting)
    OBVIOUS
  <2>1. view[c] \in Views OBVIOUS
  <2>2. view'[c] = SendCollectableSpawn(spawned, view[c]) OBVIOUS
  <2> QED BY <1>2, <2>1, <2>2, SpawnMessage
<1>4. ViewTypes'
  <2>1. NoView \in Views BY DEF NoView, Views
  <2>2. view' \in [IDs -> Views] BY <1>3, <2>1 DEF Shows
  <2> QED BY <1>1, <1>2, <2>2 DEF sessionVars
<1>5. OneAttackEach' BY <1>1 DEF OneAttackEach
<1>6. ViewsCorrect' BY <1>1, <1>3, SameChanges DEF Shows
<1>7. CollectingIsAnswered' BY <1>1, <1>3 DEF CollectingIsAnswered, sessionVars, Shows
<1> QED BY <1>4, <1>5, <1>6, <1>7

-----------------------------------------------------------------------------
(* Collections.                                                            *)

\* Steps of the loops that change nothing the invariant is about.
LEMMA QuietIInv ==
    ASSUME IInv, UNCHANGED <<sessionVars, attacks, collectables, view, collection, walkedOff>>
    PROVE  IInv'
BY DEF IInv, ViewTypes, OneAttackEach, ViewsCorrect, Correct, Sessions, CollectingIsAnswered, sessionVars

\* A collection changes, and with it no more than what its collector knows of it.
LEMMA CollectionIInv ==
    ASSUME IInv, NEW i \in IDs,
           UNCHANGED <<sessionVars, attacks, collectables>>,
           collection' \in [IDs -> Collections],
           \A c \in IDs \ {i} : collection'[c] = collection[c],
           walkedOff \ {i} \subseteq walkedOff',
           \A c \in IDs : Shows(view'[c], view[c].sessions, view[c].attacks, view[c].collectables,
                               view'[c].collecting),
           view' \in [IDs -> Views],
           \A c \in IDs \ {i} : view'[c].collecting = view[c].collecting,
           i \in clients \ walkedOff' /\ view'[i].collecting # None =>
                collection'[i].what = view'[i].collecting /\ collection'[i].told
    PROVE  IInv'
<1>1. ViewTypes' BY DEF IInv, ViewTypes, sessionVars
<1>2. OneAttackEach' BY DEF IInv, OneAttackEach
<1>3. ViewsCorrect' BY SameChanges DEF IInv, ViewTypes, Shows
<1>4. CollectingIsAnswered' BY DEF IInv, ViewTypes, CollectingIsAnswered, sessionVars
<1> QED BY <1>1, <1>2, <1>3, <1>4 DEF IInv

\* Views that are not sent anything show what they did.
LEMMA Unsent == ASSUME IInv, view' = view
    PROVE  /\ view' \in [IDs -> Views]
           /\ \A c \in IDs : Shows(view'[c], view[c].sessions, view[c].attacks, view[c].collectables,
                                  view'[c].collecting)
BY DEF IInv, ViewTypes, Shows

\* A collection that ends without a message is that of one who has gone ...
LEMMA DropCollectionIInv == ASSUME IInv, NEW i \in IDs, DropCollection(i) PROVE IInv'
<1>1. /\ UNCHANGED <<sessionVars, attacks, collectables>> /\ view' = view /\ walkedOff' = walkedOff
      /\ collection' = [collection EXCEPT ![i] = NoCollection] /\ i \notin clients
  BY DEF DropCollection, EraseCollection, Sessions
<1>2. NoCollection \in Collections BY DEF NoCollection, Collections
<1>3. collection' \in [IDs -> Collections] /\ \A c \in IDs \ {i} : collection'[c] = collection[c]
  BY <1>1, <1>2 DEF IInv, ViewTypes
<1> QED BY <1>1, <1>3, Unsent, CollectionIInv

\* ... or of one who walked off, or had not been told that it collects.
LEMMA CancelledBeforeCollectingIInv ==
    ASSUME IInv, NEW i \in IDs, CancelledBeforeCollecting(i) PROVE IInv'
<1>1. /\ UNCHANGED <<sessionVars, attacks, collectables>> /\ view' = view
      /\ walkedOff' = IF collection[i].told THEN walkedOff \cup {i} ELSE walkedOff
      /\ collection' = [collection EXCEPT ![i] = NoCollection]
  BY DEF CancelledBeforeCollecting, EraseCollection
<1>2. NoCollection \in Collections BY DEF NoCollection, Collections
<1>3. collection' \in [IDs -> Collections] /\ \A c \in IDs \ {i} : collection'[c] = collection[c]
  BY <1>1, <1>2 DEF IInv, ViewTypes
<1>4. i \in clients \ walkedOff' => view'[i].collecting = None
  BY <1>1 DEF IInv, CollectingIsAnswered
<1> QED BY <1>1, <1>3, <1>4, Unsent, CollectionIInv

\* A result is sent.
LEMMA ResultSent ==
    ASSUME IInv, NEW i \in IDs, SendCollectionResult(i, view), EraseCollection(i),
           UNCHANGED <<sessionVars, attacks, collectables>>
    PROVE  IInv'
<1>1. /\ view' = [view EXCEPT ![i] = [view[i] EXCEPT !.collecting = None]]
      /\ walkedOff' = walkedOff \ {i} /\ collection' = [collection EXCEPT ![i] = NoCollection]
  BY DEF SendCollectionResult, EraseCollection
<1>2. NoCollection \in Collections BY DEF NoCollection, Collections
<1>3. collection' \in [IDs -> Collections] /\ \A c \in IDs \ {i} : collection'[c] = collection[c]
  BY <1>1, <1>2 DEF IInv, ViewTypes
<1>4. view \in [IDs -> Views] /\ view[i] \in Views BY DEF IInv, ViewTypes
<1>5. view'[i] = [view[i] EXCEPT !.collecting = None] /\ \A c \in IDs \ {i} : view'[c] = view[c]
  BY <1>1, <1>4
<1>6. Shows(view'[i], view[i].sessions, view[i].attacks, view[i].collectables, None)
  BY <1>4, <1>5, SessionMessages
<1>7. \A c \in IDs : Shows(view'[c], view[c].sessions, view[c].attacks, view[c].collectables, view'[c].collecting)
  BY <1>4, <1>5, <1>6 DEF Shows
<1>8. view' \in [IDs -> Views] BY <1>1, <1>4, <1>5, <1>6 DEF Shows
<1>9. view'[i].collecting = None BY <1>6 DEF Shows
<1> QED BY <1>1, <1>3, <1>5, <1>7, <1>8, <1>9, CollectionIInv

LEMMA CollectedByAnotherIInv == ASSUME IInv, NEW i \in IDs, CollectedByAnother(i) PROVE IInv'
BY ResultSent DEF CollectedByAnother

LEMMA CancelledWhileCollectingIInv ==
    ASSUME IInv, NEW i \in IDs, CancelledWhileCollecting(i) PROVE IInv'
BY ResultSent DEF CancelledWhileCollecting

\* The first turn within reach tells the collector; later ones find it told.
LEMMA CollectingGoesOnIInv == ASSUME IInv, NEW i \in IDs, CollectingGoesOn(i) PROVE IInv'
<1>1. /\ UNCHANGED <<sessionVars, attacks, collectables>>
      /\ collection' = [collection EXCEPT ![i].told = TRUE]
      /\ collection[i].what \in CollectableIDs
  BY DEF CollectingGoesOn, Collecting, IInv, ViewTypes
<1>2. /\ collection' \in [IDs -> Collections] /\ \A c \in IDs \ {i} : collection'[c] = collection[c]
      /\ collection'[i].told = TRUE /\ collection'[i].what = collection[i].what
  BY <1>1 DEF IInv, ViewTypes, Collections
<1>3. CASE collection[i].told
  <2>1. view' = view /\ walkedOff' = walkedOff BY <1>3 DEF CollectingGoesOn
  <2>2. i \in clients \ walkedOff' /\ view'[i].collecting # None =>
            collection'[i].what = view'[i].collecting /\ collection'[i].told
    BY <1>2, <2>1 DEF IInv, CollectingIsAnswered
  <2> QED BY <1>1, <1>2, <2>1, <2>2, Unsent, CollectionIInv
<1>4. CASE ~collection[i].told
  <2>1. /\ view' = [view EXCEPT ![i] = SendCollecting(collection[i].what, view[i])]
        /\ walkedOff' = walkedOff \ {i}
    BY <1>4 DEF CollectingGoesOn
  <2>2. view \in [IDs -> Views] /\ view[i] \in Views BY DEF IInv, ViewTypes
  <2>3. view'[i] = SendCollecting(collection[i].what, view[i]) /\ \A c \in IDs \ {i} : view'[c] = view[c]
    BY <2>1, <2>2
  <2>4. Shows(view'[i], view[i].sessions, view[i].attacks, view[i].collectables, collection[i].what)
    BY <1>1, <2>2, <2>3, CollectableMessages
  <2>5. \A c \in IDs : Shows(view'[c], view[c].sessions, view[c].attacks, view[c].collectables, view'[c].collecting)
    BY <2>2, <2>3, <2>4 DEF Shows
  <2>6. view' \in [IDs -> Views] BY <2>1, <2>2, <2>3, <2>4 DEF Shows
  <2>7. collection'[i].what = view'[i].collecting BY <1>2, <2>4 DEF Shows
  <2> QED BY <1>1, <1>2, <2>1, <2>3, <2>5, <2>6, <2>7, CollectionIInv
<1> QED BY <1>3, <1>4

\* The collectable is gone for all.
LEMMA CollectedIInv == ASSUME IInv, NEW i \in IDs, Collected(i) PROVE IInv'
<1> USE DEF IInv, ViewTypes
<1> DEFINE k == collection[i].what
<1>1. /\ UNCHANGED sessionVars /\ attacks' = attacks /\ k \in CollectableIDs
      /\ collectables' = collectables \ {k} /\ walkedOff' = walkedOff \ {i}
      /\ collection' = [collection EXCEPT ![i] = NoCollection]
      /\ view' = [[c \in IDs |-> SendCollectableDespawn(k, view[c])] EXCEPT ![i].collecting = None]
  BY DEF Collected, Collecting, SendCollectionResult, EraseCollection
<1>2. \A c \in IDs : Shows(SendCollectableDespawn(k, view[c]), view[c].sessions, view[c].attacks,
                           view[c].collectables \ {k}, view[c].collecting)
  <2> SUFFICES ASSUME NEW c \in IDs
               PROVE  Shows(SendCollectableDespawn(k, view[c]), view[c].sessions, view[c].attacks,
                            view[c].collectables \ {k}, view[c].collecting)
    OBVIOUS
  <2>1. view[c] \in Views OBVIOUS
  <2> QED BY <1>1, <2>1, CollectableMessages
<1>3. /\ \A c \in IDs \ {i} : view'[c] = SendCollectableDespawn(k, view[c])
      /\ view'[i] = [SendCollectableDespawn(k, view[i]) EXCEPT !.collecting = None]
  BY <1>1
<1>4. Shows(view'[i], view[i].sessions, view[i].attacks, view[i].collectables \ {k}, None)
  <2>1. SendCollectableDespawn(k, view[i]) \in Views BY <1>2 DEF Shows
  <2>2. Shows(view'[i], SendCollectableDespawn(k, view[i]).sessions,
              SendCollectableDespawn(k, view[i]).attacks,
              SendCollectableDespawn(k, view[i]).collectables, None)
    BY <1>3, <2>1, SessionMessages
  <2> QED BY <1>2, <2>2 DEF Shows
<1>5. \A c \in IDs : /\ view'[c] \in Views
                     /\ view'[c].sessions = view[c].sessions /\ view'[c].attacks = view[c].attacks
                     /\ view'[c].collectables = view[c].collectables \ {k}
                     /\ view'[c].collecting = IF c = i THEN None ELSE view[c].collecting
  <2> HIDE DEF k, IInv, ViewTypes
  <2>1. \A c \in IDs \ {i} : Shows(view'[c], view[c].sessions, view[c].attacks,
                                  view[c].collectables \ {k}, view[c].collecting)
    BY <1>2, <1>3
  <2> QED BY <1>4, <2>1 DEF Shows
<1>6. ViewTypes'
  <2>1. NoCollection \in Collections BY DEF NoCollection, Collections
  <2>2. view' \in [IDs -> Views] BY <1>1, <1>5
  <2>3. collection' \in [IDs -> Collections] BY <1>1, <2>1
  <2> QED BY <1>1, <2>2, <2>3 DEF sessionVars
<1>7. OneAttackEach' BY <1>1 DEF OneAttackEach
<1>8. ViewsCorrect' BY <1>1, <1>5, SameChanges
<1>9. CollectingIsAnswered' BY <1>1, <1>5 DEF CollectingIsAnswered, sessionVars
<1> QED BY <1>6, <1>7, <1>8, <1>9

\* A collection begins only when no other of the collector is listed, so that
\* the client was told of none or has walked off.
LEMMA CollectIInv == ASSUME IInv, NEW i \in IDs, NEW k \in CollectableIDs, Collect(i, k) PROVE IInv'
<1>1. /\ UNCHANGED <<sessionVars, attacks, collectables>> /\ view' = view /\ walkedOff' = walkedOff
      /\ collection' = [collection EXCEPT ![i] = [what |-> k, told |-> FALSE, moved |-> FALSE]]
      /\ collection[i] = NoCollection
  BY DEF Collect, Collectors
<1>2. collection' \in [IDs -> Collections] /\ \A c \in IDs \ {i} : collection'[c] = collection[c]
  BY <1>1 DEF IInv, ViewTypes, Collections
<1>3. i \in clients \ walkedOff' => view'[i].collecting = None
  BY <1>1 DEF IInv, CollectingIsAnswered, NoCollection
<1> QED BY <1>1, <1>2, <1>3, Unsent, CollectionIInv

LEMMA MovementIInv ==
    ASSUME IInv, NEW i \in IDs, NEW elsewhere \in BOOLEAN, Movement(i, elsewhere) PROVE IInv'
<1>1. /\ UNCHANGED <<sessionVars, attacks, collectables>> /\ view' = view /\ walkedOff' = walkedOff
      /\ collection' = [collection EXCEPT ![i].moved = elsewhere]
  BY DEF Movement
<1>2. /\ collection' \in [IDs -> Collections] /\ \A c \in IDs \ {i} : collection'[c] = collection[c]
      /\ collection'[i].told = collection[i].told /\ collection'[i].what = collection[i].what
  BY <1>1 DEF IInv, ViewTypes, Collections
<1>3. i \in clients \ walkedOff' /\ view'[i].collecting # None =>
        collection'[i].what = view'[i].collecting /\ collection'[i].told
  BY <1>1, <1>2 DEF IInv, CollectingIsAnswered
<1> QED BY <1>1, <1>2, <1>3, Unsent, CollectionIInv

-----------------------------------------------------------------------------
(* The theorems.                                                           *)

LEMMA NextIInv == ASSUME IInv, [Next]_vars PROVE IInv'
<1> USE DEF collectVars, loopVars
<1>1. ASSUME NEW i \in IDs, Enter(i) PROVE IInv' BY <1>1, EnterIInv
<1>2. CASE UpdateCollectableSpawner BY <1>2, SpawnIInv
<1>3. CASE UpdateJumps
  <2>1. CASE EndJumps BY <2>1, QuietIInv DEF EndJumps
  <2> QED BY <1>3, <2>1, JumpEndsIInv DEF UpdateJumps
<1>4. CASE UpdateAttacks
  <2>1. CASE EndAttacks BY <2>1, QuietIInv DEF EndAttacks
  <2>2. ASSUME NEW attack \in attacks, AttackGoesOn(attack) \/ KillsItself(attack) PROVE IInv'
    BY <2>2, QuietIInv DEF AttackGoesOn, KillsItself
  <2> QED BY <1>4, <2>1, <2>2, DropAttackIInv, AttackCancelledIInv, AttackedDeadIInv DEF UpdateAttacks
<1>5. CASE UpdateCollections
  <2>1. CASE EndCollections BY <2>1, QuietIInv DEF EndCollections
  <2>2. ASSUME NEW i \in IDs, StillWalking(i) PROVE IInv' BY <2>2, QuietIInv DEF StillWalking
  <2> QED BY <1>5, <2>1, <2>2, DropCollectionIInv, CollectedByAnotherIInv, CancelledBeforeCollectingIInv,
         CancelledWhileCollectingIInv, CollectingGoesOnIInv, CollectedIInv
      DEF UpdateCollections, UpdateCollection
<1>6. CASE UpdateSessions
  <2>1. CASE EndUpdate BY <2>1, QuietIInv DEF EndUpdate
  <2>2. ASSUME NEW i \in IDs, UpdateSession(i) PROVE IInv' BY <2>2, QuietIInv DEF UpdateSession
  <2>3. ASSUME NEW i \in IDs, StayInMatch(i) PROVE IInv' BY <2>3, QuietIInv DEF StayInMatch
  <2> QED BY <1>6, <2>1, <2>2, <2>3, StartAttackIInv, StopAttackIInv, CollectIInv, MovementIInv,
         LeaveMatchIInv
      DEF UpdateSessions
<1>7. CASE Undefined \/ UNCHANGED vars BY <1>7, QuietIInv DEF Undefined, vars, sessionVars
<1> QED BY <1>1, <1>2, <1>3, <1>4, <1>5, <1>6, <1>7 DEF Next

\* Views, attacks and collections, at every step of Match::Update.
THEOREM Inductive == Spec => []IInv
BY InitIInv, NextIInv, PTL DEF Spec

\* What every client was told of sessions, attacks and collectables agrees with
\* the match after every step of every loop, whoever comes and goes.
THEOREM ClientsAgree == Spec => []ViewsAgree
<1>1. IInv => ViewsAgree
  <2> SUFFICES ASSUME IInv, NEW c \in clients
               PROVE  /\ view[c].sessions = Sessions \ {c}
                      /\ {attack \in view[c].attacks : Present(attack)} = {attack \in attacks : Present(attack)}
                      /\ view[c].collectables = collectables
    BY DEF ViewsAgree, KnowsWhoIsThere, KnowsTheAttacks, KnowsTheCollectables
  <2>1. Correct(c) BY DEF IInv, ViewsCorrect
  <2>2. view[c].attacks \subseteq IDs \X IDs /\ attacks \subseteq IDs \X IDs
    BY DEF IInv, ViewTypes, Views
  <2>3. \A attack \in IDs \X IDs : Present(attack) =>
            (attack \in view[c].attacks <=> attack \in attacks)
    <3> SUFFICES ASSUME NEW a \in IDs, NEW b \in IDs, Present(<<a, b>>)
                 PROVE  <<a, b>> \in view[c].attacks <=> <<a, b>> \in attacks
      OBVIOUS
    <3>1. a \in Sessions /\ b \in Sessions BY DEF Present
    <3> QED BY <2>1, <3>1 DEF Correct
  <2> QED BY <2>1, <2>2, <2>3 DEF Correct
<1> QED BY <1>1, Inductive, PTL

\* Who was told that it collects is collecting, gets a result or has walked off.
THEOREM CollectorsAreAnswered == Spec => []CollectingIsAnswered
<1>1. IInv => CollectingIsAnswered BY DEF IInv
<1> QED BY <1>1, Inductive, PTL

-----------------------------------------------------------------------------
(* The spawner of collectables.                                            *)

SpawnerInv ==
    /\ collectables \subseteq CollectableIDs
    /\ due \in Nat /\ waiting \in Nat
    /\ CollectablesKept

\* What is spawned is new, and as much as was due.
LEMMA SpawnKeeps == ASSUME SpawnerInv, UpdateCollectableSpawner PROVE SpawnerInv'
<1> USE DEF SpawnerInv
<1>1. PICK spawned \in kSubset(due, NewCollectableIDs) : collectables' = collectables \cup spawned
  BY DEF UpdateCollectableSpawner
<1>2. PICK elapsed \in 0 .. waiting : due' = elapsed /\ waiting' = waiting - elapsed
  BY DEF UpdateCollectableSpawner
<1>3. spawned \subseteq CollectableIDs /\ spawned \cap collectables = {} /\ Cardinality(spawned) = due
  BY DEF kSubset, NewCollectableIDs
<1>4. IsFiniteSet(collectables) /\ IsFiniteSet(spawned)
  BY <1>3, FS_Subset, WorldViewAssumption
<1>5. Cardinality(collectables) \in Nat BY <1>4, FS_CardinalityType
<1>6. Cardinality(collectables') = Cardinality(collectables) + due
  BY <1>1, <1>3, <1>4, <1>5, FS_Union, FS_EmptySet
<1> QED BY <1>1, <1>2, <1>3, <1>5, <1>6 DEF CollectablesKept

\* What is collected was there, and a timer takes its place.
LEMMA CollectedKeeps == ASSUME SpawnerInv, NEW i \in IDs, Collected(i) PROVE SpawnerInv'
<1> USE DEF SpawnerInv
<1> DEFINE k == collection[i].what
<1>1. k \in collectables /\ collectables' = collectables \ {k} /\ waiting' = waiting + 1 /\ due' = due
  BY DEF Collected, Collecting
<1>2. IsFiniteSet(collectables) BY FS_Subset, WorldViewAssumption
<1>3. Cardinality(collectables) \in Nat BY <1>2, FS_CardinalityType
<1>4. Cardinality(collectables') = Cardinality(collectables) - 1 BY <1>1, <1>2, FS_RemoveElement
<1> QED BY <1>1, <1>3, <1>4 DEF CollectablesKept

LEMMA SpawnerStep == ASSUME SpawnerInv, [Next]_vars PROVE SpawnerInv'
<1>0. UNCHANGED <<collectables, due, waiting>> => SpawnerInv' BY DEF SpawnerInv, CollectablesKept
<1> USE DEF collectVars
<1>1. ASSUME NEW i \in IDs, Enter(i) PROVE SpawnerInv' BY <1>0, <1>1 DEF Enter
<1>2. CASE UpdateJumps BY <1>0, <1>2 DEF UpdateJumps, EndJumps, JumpEnds
<1>3. CASE UpdateAttacks
  BY <1>0, <1>3 DEF UpdateAttacks, DropAttack, AttackGoesOn, AttackCancelled, AttackedDead, KillsItself,
     EndAttacks
<1>4. CASE UpdateCollections
  <2>1. ASSUME NEW i \in IDs, UpdateCollection(i), ~Collected(i) PROVE UNCHANGED <<collectables, due, waiting>>
    BY <2>1 DEF UpdateCollection, DropCollection, CollectedByAnother, StillWalking,
       CancelledBeforeCollecting, CancelledWhileCollecting, CollectingGoesOn
  <2> QED BY <1>0, <1>4, <2>1, CollectedKeeps DEF UpdateCollections, EndCollections
<1>5. CASE UpdateSessions
  BY <1>0, <1>5 DEF UpdateSessions, UpdateSession, StartAttack, StopAttack, Collect, Movement,
     StayInMatch, LeaveMatch, EndUpdate
<1>6. CASE Undefined \/ UNCHANGED vars BY <1>0, <1>6 DEF Undefined, vars
<1> QED BY <1>1, <1>2, <1>3, <1>4, <1>5, <1>6, SpawnKeeps DEF Next

\* However many collect the same at a time, and in whatever order they are
\* visited, collectables and timers are as many as was configured.
THEOREM SpawnerKeepsItsNumber == Spec => []CollectablesKept
<1>1. Init => SpawnerInv
  BY FS_EmptySet, WorldViewAssumption DEF Init, SpawnerInv, CollectablesKept
<1>2. SpawnerInv => CollectablesKept BY DEF SpawnerInv
<1> QED BY <1>1, <1>2, SpawnerStep, PTL DEF Spec
=============================================================================
