---------------------------- MODULE MatchProofs ----------------------------
(***************************************************************************)
(* Nobody uses a session that has gone, and no spawner loses an NPC, for   *)
(* any number of players and NPCs.                                         *)
(***************************************************************************)
EXTENDS Match, FiniteSetTheorems, TLAPS

Types ==
    /\ players \subseteq IDs
    /\ npcs \in [Spawners -> SUBSET IDs]
    /\ attacks \subseteq IDs \X IDs
    /\ jumps \subseteq IDs
    /\ enemy \in [IDs -> IDs \cup {None}]
    /\ target \in [IDs -> IDs \cup {None}]
    /\ due \in [Spawners -> Nat]
    /\ waiting \in [Spawners -> Nat]

\* An identifier is of a player or of an NPC of one spawner, and NPCs do not jump.
SessionsApart ==
    /\ npcs["FullAggresive"] \cap npcs["Defensive"] = {}
    /\ NPCs \cap (players \cup jumps) = {}

\* StartAttack is ignored while an entry of the attacker is listed.
OneAttackEach == \A a, b \in attacks : a[1] = b[1] => a = b

\* The counter is ahead of every identifier in use, and there are enough for
\* the NPCs that are due.
Numbered ==
    /\ nextID \in Nat /\ nextID + Due(due) <= MaxID
    /\ \A i \in InMatch \cup jumps : i < nextID
    /\ \A attack \in attacks : attack[1] < nextID /\ attack[2] < nextID

\* Where the sessions of an entry are found in the match, they are those it was
\* made with.
FoundAreAlive ==
    /\ \A attack \in attacks : {attack[1], attack[2]} \subseteq InMatch => attack \notin dangling
    /\ \A j \in jumps : j \in InMatch => <<j>> \notin dangling

\* What dangles is listed still.
DanglingAreEntries == dangling \subseteq attacks \cup {<<j>> : j \in jumps}

\* Only NPCs have somebody in mind.
MindsAreOfNPCs == \A i \in IDs : i \notin NPCs => enemy[i] = None /\ target[i] = None

Safety ==
    /\ Types
    /\ SessionsApart
    /\ OneAttackEach
    /\ DanglingAreEntries
    /\ Numbered
    /\ FoundAreAlive
    /\ NPCsKnowWhoIsThere
    /\ MindsAreOfNPCs
    /\ PursuerAttacks

-----------------------------------------------------------------------------
LEMMA SessionFacts ==
    /\ NPCs = npcs["FullAggresive"] \cup npcs["Defensive"]
    /\ InMatch = players \cup NPCs
    /\ Types => InMatch \subseteq IDs
BY DEF NPCs, InMatch, Spawners, Types

LEMMA IDsAreNumbers == IDs \subseteq Nat /\ None \notin IDs
BY MatchAssumption DEF IDs

\* An attack is not a jump.
LEMMA EntriesDiffer == \A j : <<j>> \notin IDs \X IDs
OBVIOUS

LEMMA InitSafety == Init => Safety
<1> SUFFICES ASSUME Init PROVE Safety OBVIOUS
<1> USE DEF Init
<1>1. NPCs = {} BY DEF NPCs
<1>2. Types BY MatchAssumption DEF Types, Size
<1>3. SessionsApart /\ OneAttackEach /\ DanglingAreEntries
  BY <1>1 DEF SessionsApart, OneAttackEach, DanglingAreEntries, Spawners
<1>4. FoundAreAlive /\ NPCsKnowWhoIsThere /\ MindsAreOfNPCs /\ PursuerAttacks
  BY <1>1 DEF FoundAreAlive, NPCsKnowWhoIsThere, MindsAreOfNPCs, PursuerAttacks, Spawners
<1>5. Numbered
  BY <1>1, MatchAssumption DEF Numbered, InMatch, Due, Size, Spawners
<1> QED BY <1>2, <1>3, <1>4, <1>5 DEF Safety

LEMMA QuietSafety ==
    ASSUME Safety, UNCHANGED <<players, npcs, nextID, entries, minds, timerVars>>
    PROVE  Safety'
<1> USE DEF entries, minds, timerVars
<1>1. NPCs' = NPCs /\ InMatch' = InMatch BY DEF NPCs, InMatch
<1>2. Types' /\ SessionsApart' BY <1>1 DEF Safety, Types, SessionsApart
<1>3. OneAttackEach' /\ DanglingAreEntries' BY DEF Safety, OneAttackEach, DanglingAreEntries
<1>4. FoundAreAlive' BY <1>1 DEF Safety, FoundAreAlive
<1>5. NPCsKnowWhoIsThere' /\ MindsAreOfNPCs' BY <1>1 DEF Safety, NPCsKnowWhoIsThere, MindsAreOfNPCs
<1>6. PursuerAttacks' BY DEF Safety, PursuerAttacks
<1>7. Numbered' BY <1>1 DEF Safety, Numbered
<1> QED BY <1>2, <1>3, <1>4, <1>5, <1>6, <1>7 DEF Safety

-----------------------------------------------------------------------------
(* A session goes.                                                         *)

\* Its entries may stay, and dangle then; all others stay, and every NPC
\* forgets it.
LEMMA SomeoneGoes ==
    ASSUME Safety, NEW i \in IDs, SomeoneDisappear(i),
           players' = players \ {i}, npcs' = [p \in Spawners |-> npcs[p] \ {i}],
           attacks' \subseteq attacks, \A attack \in attacks \ attacks' : i \in {attack[1], attack[2]},
           jumps' \subseteq jumps,
           dangling' \subseteq dangling \cup PointsTo(i), DanglingAreEntries',
           due' = due, nextID' = nextID, waiting' \in [Spawners -> Nat]
    PROVE  Safety'
<1>1. NPCs' = NPCs \ {i} /\ InMatch' = InMatch \ {i}
  BY DEF NPCs, InMatch, Spawners
<1>2. Types'
  <2>1. npcs' \in [Spawners -> SUBSET IDs] BY DEF Safety, Types
  <2>2. enemy' \in [IDs -> IDs \cup {None}] /\ target' \in [IDs -> IDs \cup {None}]
    BY DEF SomeoneDisappear, Safety, Types
  <2> QED BY <2>1, <2>2 DEF Safety, Types
<1>3. SessionsApart' BY <1>1 DEF Safety, SessionsApart, Spawners
<1>4. OneAttackEach' BY DEF Safety, OneAttackEach
<1>5. FoundAreAlive'
  <2>1. ASSUME NEW attack \in attacks', {attack[1], attack[2]} \subseteq InMatch'
        PROVE  attack \notin dangling'
    <3>1. attack \notin dangling BY <1>1, <2>1 DEF Safety, FoundAreAlive
    <3>2. i \notin {attack[1], attack[2]} BY <1>1, <2>1
    <3>3. attack \notin PointsTo(i)
      BY <3>2, EntriesDiffer DEF PointsTo, Safety, Types
    <3> QED BY <3>1, <3>3
  <2>2. ASSUME NEW j \in jumps', j \in InMatch' PROVE <<j>> \notin dangling'
    <3>1. <<j>> \notin dangling BY <1>1, <2>2 DEF Safety, FoundAreAlive
    <3>2. <<j>> \notin PointsTo(i)
      BY <1>1, <2>2, EntriesDiffer DEF PointsTo, Safety, Types
    <3> QED BY <3>1, <3>2
  <2> QED BY <2>1, <2>2 DEF FoundAreAlive
<1>6. \A n \in IDs : /\ enemy'[n] = IF enemy[n] = i \/ n = i THEN None ELSE enemy[n]
                     /\ target'[n] = IF target[n] = i \/ n = i THEN None ELSE target[n]
  BY DEF SomeoneDisappear
<1>7. NPCsKnowWhoIsThere'
  BY <1>1, <1>6, SessionFacts DEF Safety, NPCsKnowWhoIsThere
<1>8. MindsAreOfNPCs' BY <1>1, <1>6 DEF Safety, MindsAreOfNPCs
<1>9. PursuerAttacks'
  <2> SUFFICES ASSUME NEW n \in npcs'["FullAggresive"] \ distracted', enemy'[n] # None
               PROVE  <<n, enemy'[n]>> \in attacks'
    BY DEF PursuerAttacks
  <2>1. n \in IDs /\ n \in npcs["FullAggresive"] /\ n # i BY DEF Safety, Types, Spawners
  <2>2. enemy'[n] = enemy[n] /\ enemy[n] # i BY <1>6, <2>1
  <2>3. n \notin distracted BY <2>1, <2>2 DEF SomeoneDisappear
  <2>4. <<n, enemy[n]>> \in attacks BY <2>1, <2>2, <2>3 DEF Safety, PursuerAttacks
  <2> QED BY <2>1, <2>2, <2>4
<1>10. Numbered' BY <1>1 DEF Safety, Numbered
<1> QED BY <1>2, <1>3, <1>4, <1>5, <1>7, <1>8, <1>9, <1>10 DEF Safety

LEMMA LeaveMatchSafety == ASSUME Safety, NEW i \in IDs, LeaveMatch(i) PROVE Safety'
<1>1. /\ SomeoneDisappear(i) /\ i \in players /\ players' = players \ {i}
      /\ dangling' = dangling \cup PointsTo(i)
      /\ UNCHANGED <<npcs, nextID, attacks, jumps, due, waiting>>
  BY DEF LeaveMatch, timerVars
<1>2. npcs' = [p \in Spawners |-> npcs[p] \ {i}]
  <2>1. \A p \in Spawners : npcs[p] \ {i} = npcs[p]
    BY <1>1, SessionFacts DEF Safety, SessionsApart, Spawners
  <2> QED BY <1>1, <2>1 DEF Safety, Types
<1>3. DanglingAreEntries' BY <1>1 DEF Safety, DanglingAreEntries, PointsTo
<1> QED BY <1>1, <1>2, <1>3, SomeoneGoes DEF Safety, Types

\* Jumps that are still to be visited are listed.
TodoIsListed == phase = "jumps" => todo \subseteq {<<j>> : j \in jumps}

LEMMA JumpEndsSafety == ASSUME Safety, TodoIsListed, NEW j \in IDs, JumpEnds(j) PROVE Safety'
<1>1. /\ SomeoneDisappear(j) /\ players' = players \ {j} /\ jumps' = jumps \ {j}
      /\ dangling' = (dangling \cup PointsTo(j)) \ {<<j>>}
      /\ UNCHANGED <<npcs, nextID, attacks, due, waiting>>
  BY DEF JumpEnds, timerVars
<1>2. j \in jumps BY DEF JumpEnds, TodoIsListed
<1>3. npcs' = [p \in Spawners |-> npcs[p] \ {j}]
  <2>1. \A p \in Spawners : npcs[p] \ {j} = npcs[p]
    BY <1>2, SessionFacts DEF Safety, SessionsApart, Spawners
  <2> QED BY <1>1, <2>1 DEF Safety, Types
<1>4. DanglingAreEntries' BY <1>1 DEF Safety, DanglingAreEntries, PointsTo
<1> QED BY <1>1, <1>3, <1>4, SomeoneGoes DEF Safety, Types

LEMMA AttackedDeadSafety == ASSUME Safety, NEW attack \in attacks, AttackedDead(attack) PROVE Safety'
<1> DEFINE dead == attack[2]
           gone == {attack} \cup {a \in attacks : a[1] = dead}
<1>1. /\ SomeoneDisappear(dead) /\ players' = players \ {dead}
      /\ npcs' = [p \in Spawners |-> npcs[p] \ {dead}]
      /\ attacks' = attacks \ gone
      /\ dangling' = (dangling \cup PointsTo(dead)) \ gone
      /\ waiting' = [p \in Spawners |-> IF dead \in npcs[p] THEN waiting[p] + 1 ELSE waiting[p]]
      /\ UNCHANGED <<jumps, nextID, due>>
  BY DEF AttackedDead, Erase
<1>2. dead \in IDs BY DEF Safety, Types
<1>3. waiting' \in [Spawners -> Nat] BY <1>1 DEF Safety, Types
<1>4. DanglingAreEntries' BY <1>1 DEF Safety, DanglingAreEntries, PointsTo
<1>5. \A a \in attacks \ attacks' : dead \in {a[1], a[2]} BY <1>1
<1> QED BY <1>1, <1>2, <1>3, <1>4, <1>5, SomeoneGoes DEF Safety, Types

-----------------------------------------------------------------------------
(* Sessions come.                                                          *)

\* The identifiers that were not given yet.
NewIDs == {i \in IDs : nextID <= i}

\* Nothing refers to a new identifier.
LEMMA NewIsNew ==
    ASSUME Safety, NEW i \in NewIDs
    PROVE  /\ i \in IDs /\ i \notin InMatch /\ i \notin jumps
           /\ \A attack \in attacks : i \notin {attack[1], attack[2]}
<1>1. i \in IDs /\ i \in Nat /\ nextID \in Nat /\ ~(i < nextID)
  BY IDsAreNumbers DEF NewIDs, Safety, Numbered
<1> QED BY <1>1 DEF Safety, Numbered

\* Players or NPCs that are new: entries that point to them there are none.
LEMMA SomeoneComes ==
    ASSUME Safety, NEW more \in SUBSET NewIDs, InMatch' = InMatch \cup more,
           SessionsApart', NPCs' \subseteq NPCs \cup more, NPCs \subseteq NPCs',
           npcs["FullAggresive"] \subseteq npcs'["FullAggresive"],
           npcs'["FullAggresive"] \subseteq npcs["FullAggresive"] \cup more,
           Types', Numbered', UNCHANGED <<entries, minds>>
    PROVE  Safety'
<1> USE DEF entries, minds
<1>1. OneAttackEach' /\ DanglingAreEntries' BY DEF Safety, OneAttackEach, DanglingAreEntries
<1>2. FoundAreAlive'
  <2>1. ASSUME NEW attack \in attacks, {attack[1], attack[2]} \subseteq InMatch'
        PROVE  attack \notin dangling
    <3>1. {attack[1], attack[2]} \subseteq InMatch BY <2>1, NewIsNew
    <3> QED BY <3>1 DEF Safety, FoundAreAlive
  <2>2. ASSUME NEW j \in jumps, j \in InMatch' PROVE <<j>> \notin dangling
    <3>1. j \in InMatch BY <2>2, NewIsNew
    <3> QED BY <3>1 DEF Safety, FoundAreAlive
  <2> QED BY <2>1, <2>2 DEF FoundAreAlive
<1>3. \A n \in more : n \in IDs /\ n \notin InMatch /\ n \notin NPCs /\ enemy[n] = None /\ target[n] = None
  BY NewIsNew, SessionFacts DEF Safety, MindsAreOfNPCs
<1>4. NPCsKnowWhoIsThere' BY <1>3 DEF Safety, NPCsKnowWhoIsThere
<1>5. MindsAreOfNPCs' BY DEF Safety, MindsAreOfNPCs
<1>6. PursuerAttacks' BY <1>3 DEF Safety, PursuerAttacks
<1> QED BY <1>1, <1>2, <1>4, <1>5, <1>6 DEF Safety

LEMMA PlayerEntersSafety == ASSUME Safety, PlayerEnters PROVE Safety'
<1>1. /\ players' = players \cup {nextID} /\ nextID' = nextID + 1 /\ nextID + Due(due) < MaxID
      /\ UNCHANGED <<npcs, entries, minds, due, waiting>>
  BY DEF PlayerEnters, timerVars
<1>2. NPCs' = NPCs /\ InMatch' = InMatch \cup {nextID} BY <1>1 DEF NPCs, InMatch
<1>3. nextID \in Nat /\ Due(due) \in Nat /\ MaxID \in Nat
  BY MatchAssumption DEF Safety, Numbered, Types, Due, Spawners
<1>4. nextID \in NewIDs BY <1>1, <1>3 DEF NewIDs, IDs
<1>5. nextID \notin NPCs BY <1>4, NewIsNew, SessionFacts
<1>6. SessionsApart' BY <1>1, <1>2, <1>5 DEF Safety, SessionsApart, entries
<1>7. Types' BY <1>1, <1>4 DEF Safety, Types, entries, minds, NewIDs
<1>8. Numbered'
  <2>1. \A i \in InMatch \cup jumps : i \in Nat /\ i < nextID
    BY SessionFacts, IDsAreNumbers DEF Safety, Types, Numbered
  <2>2. \A attack \in attacks : attack[1] \in Nat /\ attack[2] \in Nat /\ attack[1] < nextID /\ attack[2] < nextID
    BY SessionFacts, IDsAreNumbers DEF Safety, Types, Numbered
  <2>3. nextID' \in Nat /\ nextID' + Due(due) <= MaxID /\ Due(due)' = Due(due) BY <1>1, <1>3
  <2>4. \A i \in InMatch' \cup jumps' : i < nextID' BY <1>1, <1>2, <1>3, <2>1 DEF entries
  <2>5. \A attack \in attacks' : attack[1] < nextID' /\ attack[2] < nextID' BY <1>1, <1>3, <2>2 DEF entries
  <2> QED BY <1>1, <2>3, <2>4, <2>5 DEF Numbered
<1> QED BY <1>1, <1>2, <1>4, <1>6, <1>7, <1>8, SomeoneComes

\* The identifiers a spawner's NPCs get: new ones, as many as are due, and not
\* those of the other spawner.
LEMMA SpawnedFacts ==
    ASSUME Safety, UpdateNPCSpawner
    PROVE  /\ \A p \in Spawners :
                /\ Spawned(p) \in SUBSET NewIDs
                /\ \A i \in Spawned(p) : i < nextID'
                /\ IsFiniteSet(Spawned(p)) /\ Cardinality(Spawned(p)) = due[p]
           /\ Spawned("FullAggresive") \cap Spawned("Defensive") = {}
           /\ nextID' \in Nat /\ nextID <= nextID' /\ nextID' + Due(due') <= MaxID
<1> DEFINE m == due["FullAggresive"]
           n == due["Defensive"]
<1>1. m \in Nat /\ n \in Nat /\ nextID \in Nat /\ MaxID \in Nat /\ nextID + (m + n) <= MaxID
  BY MatchAssumption DEF Safety, Numbered, Types, Due, Spawners
<1>2. nextID' = nextID + (m + n) /\ nextID' + Due(due') <= MaxID BY DEF UpdateNPCSpawner, Due
<1>3. /\ Spawned("FullAggresive") = nextID .. nextID + m - 1
      /\ Spawned("Defensive") = nextID + m .. nextID + m + n - 1
  BY DEF Spawned
<1> HIDE DEF m, n
<1>4. \A p \in Spawners : IsFiniteSet(Spawned(p)) /\ Cardinality(Spawned(p)) = due[p]
  <2>1. IsFiniteSet(Spawned("FullAggresive")) /\ Cardinality(Spawned("FullAggresive")) = m
    BY <1>1, <1>3, FS_Interval
  <2>2. IsFiniteSet(Spawned("Defensive")) /\ Cardinality(Spawned("Defensive")) = n
    <3>1. PICK a \in Int : a = nextID + m BY <1>1
    <3> QED BY <1>1, <1>3, <3>1, FS_Interval
  <2> QED BY <2>1, <2>2 DEF m, n, Spawners
<1>5. \A i \in Spawned("FullAggresive") \cup Spawned("Defensive") : i \in NewIDs /\ i < nextID'
  BY <1>1, <1>2, <1>3 DEF NewIDs, IDs
<1>6. Spawned("FullAggresive") \cap Spawned("Defensive") = {} BY <1>1, <1>3
<1> QED BY <1>1, <1>2, <1>4, <1>5, <1>6 DEF Spawners

\* What a spawner's turn does besides.
LEMMA SpawnerTimers ==
    ASSUME Safety, UpdateNPCSpawner
    PROVE  \E elapsed \in [Spawners -> Nat] :
               /\ \A p \in Spawners : elapsed[p] <= waiting[p]
               /\ due' = elapsed
               /\ waiting' = [p \in Spawners |-> waiting[p] - elapsed[p]]
<1>1. PICK elapsed \in [Spawners -> 0 .. AggressiveSize + DefensiveSize] :
          /\ \A p \in Spawners : elapsed[p] <= waiting[p]
          /\ due' = elapsed
          /\ waiting' = [p \in Spawners |-> waiting[p] - elapsed[p]]
  BY DEF UpdateNPCSpawner
<1>2. elapsed \in [Spawners -> Nat] OBVIOUS
<1> QED BY <1>1, <1>2

LEMMA SpawnerSafety == ASSUME Safety, UpdateNPCSpawner PROVE Safety'
<1> DEFINE more == Spawned("FullAggresive") \cup Spawned("Defensive")
<1>1. UNCHANGED <<players, entries, minds>> BY DEF UpdateNPCSpawner
<1>2. more \in SUBSET NewIDs BY SpawnedFacts DEF Spawners
<1>3. \A p \in Spawners : npcs'[p] = npcs[p] \cup Spawned(p) BY DEF UpdateNPCSpawner
<1>4. NPCs' = NPCs \cup more /\ InMatch' = InMatch \cup more
  <2>1. NPCs' = npcs'["FullAggresive"] \cup npcs'["Defensive"] BY DEF NPCs, Spawners
  <2>2. NPCs' = NPCs \cup more BY <1>3, <2>1, SessionFacts DEF Spawners
  <2> QED BY <1>1, <2>2, SessionFacts DEF InMatch
<1>5. Types'
  <2>1. npcs' \in [Spawners -> SUBSET IDs]
    <3>1. \A p \in Spawners : Spawned(p) \subseteq IDs BY SpawnedFacts DEF NewIDs
    <3> QED BY <3>1 DEF UpdateNPCSpawner, Safety, Types
  <2>2. waiting' \in [Spawners -> Nat] /\ due' \in [Spawners -> Nat]
    BY SpawnerTimers DEF Safety, Types
  <2> QED BY <1>1, <2>1, <2>2 DEF Safety, Types, entries, minds
<1>6. SessionsApart'
  <2>1. \A n \in more : n \notin players /\ n \notin NPCs /\ n \notin jumps
    BY <1>2, NewIsNew, SessionFacts
  <2>2. npcs'["FullAggresive"] \cap npcs'["Defensive"] = {}
    BY <1>3, <2>1, SpawnedFacts, SessionFacts DEF Safety, SessionsApart, Spawners
  <2>3. NPCs' \cap (players' \cup jumps') = {}
    BY <1>1, <1>4, <2>1 DEF Safety, SessionsApart, entries
  <2> QED BY <2>2, <2>3 DEF SessionsApart
<1>7. /\ npcs["FullAggresive"] \subseteq npcs'["FullAggresive"]
      /\ npcs'["FullAggresive"] \subseteq npcs["FullAggresive"] \cup more
  BY <1>3 DEF Spawners
<1>8. Numbered'
  <2>1. \A i \in InMatch \cup jumps : i \in Nat /\ i < nextID
    BY SessionFacts, IDsAreNumbers DEF Safety, Types, Numbered
  <2>2. \A attack \in attacks : attack[1] \in Nat /\ attack[2] \in Nat /\ attack[1] < nextID /\ attack[2] < nextID
    BY SessionFacts, IDsAreNumbers DEF Safety, Types, Numbered
  <2>3. nextID \in Nat /\ nextID' \in Nat /\ nextID <= nextID' BY SpawnedFacts DEF Safety, Numbered
  <2>4. \A i \in more : i < nextID' BY SpawnedFacts DEF Spawners
  <2>5. \A i \in InMatch' \cup jumps' : i < nextID' BY <1>1, <1>4, <2>1, <2>3, <2>4 DEF entries
  <2>6. \A attack \in attacks' : attack[1] < nextID' /\ attack[2] < nextID' BY <1>1, <2>2, <2>3 DEF entries
  <2>7. nextID' + Due(due') <= MaxID BY SpawnedFacts
  <2> QED BY <2>3, <2>5, <2>6, <2>7 DEF Numbered
<1> HIDE DEF more
<1> QED BY <1>1, <1>2, <1>4, <1>5, <1>6, <1>7, <1>8, SomeoneComes

-----------------------------------------------------------------------------
(* Entries come and go.                                                    *)

\* Where sessions stay and entries go: only those that do not matter any more,
\* or whose attacker is stopped, a player or one that gives its enemy up.
LEMMA EntriesGo ==
    ASSUME Safety, UNCHANGED <<players, npcs, nextID, target, due, waiting>>,
           attacks' \subseteq attacks, jumps' \subseteq jumps,
           dangling' \subseteq dangling, DanglingAreEntries',
           enemy' \in [IDs -> IDs \cup {None}],
           \A n \in IDs : enemy'[n] \in {enemy[n], None},
           \A n \in npcs["FullAggresive"] : enemy'[n] # None =>
               /\ n \in distracted => n \in distracted'
               /\ <<n, enemy'[n]>> \in attacks => <<n, enemy'[n]>> \in attacks'
    PROVE  Safety'
<1>1. NPCs' = NPCs /\ InMatch' = InMatch BY DEF NPCs, InMatch
<1>2. Types' BY DEF Safety, Types
<1>3. SessionsApart' /\ OneAttackEach' BY <1>1 DEF Safety, SessionsApart, OneAttackEach
<1>4. FoundAreAlive' BY <1>1 DEF Safety, FoundAreAlive
<1>5. NPCsKnowWhoIsThere' BY <1>1, SessionFacts DEF Safety, NPCsKnowWhoIsThere
<1>6. MindsAreOfNPCs' BY <1>1 DEF Safety, MindsAreOfNPCs
<1>7. PursuerAttacks' BY DEF Safety, PursuerAttacks, Types, Spawners
<1>8. Numbered' BY <1>1 DEF Safety, Numbered
<1> QED BY <1>2, <1>3, <1>4, <1>5, <1>6, <1>7, <1>8 DEF Safety

LEMMA DropJumpSafety == ASSUME Safety, NEW j \in IDs, DropJump(j) PROVE Safety'
<1>1. /\ jumps' = jumps \ {j} /\ dangling' = dangling \ {<<j>>}
      /\ UNCHANGED <<players, npcs, nextID, attacks, enemy, target, distracted, due, waiting>>
  BY DEF DropJump, minds, timerVars
<1>2. DanglingAreEntries' BY <1>1 DEF Safety, DanglingAreEntries
<1> QED BY <1>1, <1>2, EntriesGo DEF Safety, Types

\* An attack that is dropped is not that of an NPC on its enemy.
LEMMA DropAttackSafety == ASSUME Safety, NEW attack \in attacks, DropAttack(attack) PROVE Safety'
<1>1. /\ attacks' = attacks \ {attack} /\ dangling' = dangling \ {attack}
      /\ ~({attack[1], attack[2]} \subseteq InMatch)
      /\ UNCHANGED <<players, npcs, nextID, jumps, enemy, target, distracted, due, waiting>>
  BY DEF DropAttack, Erase, minds, timerVars
<1>2. DanglingAreEntries' BY <1>1 DEF Safety, DanglingAreEntries
<1>3. ASSUME NEW n \in npcs["FullAggresive"], enemy[n] # None PROVE <<n, enemy[n]>> # attack
  <2>1. n \in InMatch /\ enemy[n] \in InMatch
    BY <1>3, SessionFacts DEF Safety, NPCsKnowWhoIsThere
  <2> QED BY <1>1, <2>1
<1> QED BY <1>1, <1>2, <1>3, EntriesGo DEF Safety, Types

LEMMA AttackCancelledSafety ==
    ASSUME Safety, NEW attack \in attacks, AttackCancelled(attack)
    PROVE  Safety'
<1>1. /\ attacks' = attacks \ {attack} /\ {attack[1], attack[2]} \subseteq InMatch
      /\ enemy' = [enemy EXCEPT ![attack[1]] = None]
      /\ distracted' = distracted \ {attack[1]}
      /\ UNCHANGED <<players, npcs, nextID, jumps, dangling, target, due, waiting>>
  BY DEF AttackCancelled, Erase, timerVars
<1>2. attack \notin dangling BY <1>1 DEF Safety, FoundAreAlive
<1>3. DanglingAreEntries' BY <1>1, <1>2 DEF Safety, DanglingAreEntries
<1>4. attack[1] \in IDs /\ attack = <<attack[1], attack[2]>> BY DEF Safety, Types
<1>5. \A n \in IDs : enemy'[n] = IF n = attack[1] THEN None ELSE enemy[n]
  BY <1>1, <1>4 DEF Safety, Types
<1>6. enemy' \in [IDs -> IDs \cup {None}] BY <1>1 DEF Safety, Types
<1>7. \A n \in npcs["FullAggresive"] : n \in IDs BY DEF Safety, Types, Spawners
<1> QED BY <1>1, <1>3, <1>4, <1>5, <1>6, <1>7, EntriesGo DEF Safety, Types

LEMMA StopAttackSafety == ASSUME Safety, NEW a \in IDs, HandleStopAttack(a) PROVE Safety'
<1>1. /\ a \in players /\ attacks' = {attack \in attacks : attack[1] # a}
      /\ dangling' = dangling \ (attacks \ attacks')
      /\ UNCHANGED <<players, npcs, nextID, jumps, enemy, target, distracted, due, waiting>>
  BY DEF HandleStopAttack, minds, timerVars
<1>2. DanglingAreEntries' BY <1>1 DEF Safety, DanglingAreEntries
<1>3. \A n \in npcs["FullAggresive"] : n # a BY <1>1, SessionFacts DEF Safety, SessionsApart
<1> QED BY <1>1, <1>2, <1>3, EntriesGo DEF Safety, Types

LEMMA JumpSafety == ASSUME Safety, NEW j \in IDs, HandleJump(j) PROVE Safety'
<1>1. /\ j \in players /\ jumps' = jumps \cup {j}
      /\ UNCHANGED <<players, npcs, nextID, attacks, dangling, enemy, target, distracted, due, waiting>>
  BY DEF HandleJump, minds, timerVars
<1>2. NPCs' = NPCs /\ InMatch' = InMatch BY <1>1 DEF NPCs, InMatch
<1>3. Types' BY <1>1 DEF Safety, Types
<1>4. SessionsApart' BY <1>1, <1>2 DEF Safety, SessionsApart
<1>5. OneAttackEach' /\ DanglingAreEntries' BY <1>1 DEF Safety, OneAttackEach, DanglingAreEntries
<1>6. FoundAreAlive'
  <2>1. ASSUME NEW k \in jumps', k \in InMatch PROVE <<k>> \notin dangling
    <3>1. CASE k \in jumps BY <2>1, <3>1 DEF Safety, FoundAreAlive
    <3>2. CASE k \notin jumps
      BY <3>2, EntriesDiffer DEF Safety, Types, DanglingAreEntries
    <3> QED BY <3>1, <3>2
  <2> QED BY <1>1, <1>2, <2>1 DEF Safety, FoundAreAlive
<1>7. NPCsKnowWhoIsThere' /\ MindsAreOfNPCs' BY <1>1, <1>2 DEF Safety, NPCsKnowWhoIsThere, MindsAreOfNPCs
<1>8. PursuerAttacks' BY <1>1 DEF Safety, PursuerAttacks
<1>9. Numbered' BY <1>1, <1>2, SessionFacts DEF Safety, Numbered
<1> QED BY <1>3, <1>4, <1>5, <1>6, <1>7, <1>8, <1>9 DEF Safety

\* An attack, and the answer of a defensive NPC to it.  enemies is what the NPCs
\* have in mind before it.
LEMMA StartAttackSafety ==
    ASSUME Safety, NEW a \in InMatch, NEW b \in InMatch, a \notin Attackers,
           NEW enemies \in [IDs -> IDs \cup {None}], StartAttack(a, b, enemies),
           \A n \in IDs : n # a \/ a \notin npcs["FullAggresive"] => enemies[n] = enemy[n],
           a \in npcs["FullAggresive"] => enemies[a] = b,
           UNCHANGED <<players, npcs, nextID, jumps, dangling, target, distracted, due, waiting>>
    PROVE  Safety'
<1>1. NPCs' = NPCs /\ InMatch' = InMatch BY DEF NPCs, InMatch
<1>2. a \in IDs /\ b \in IDs /\ b # None /\ a # None
  BY SessionFacts, IDsAreNumbers DEF Safety
<1>3. /\ attacks \subseteq attacks' /\ <<a, b>> \in attacks'
      /\ attacks' \subseteq attacks \cup {<<a, b>>, <<b, a>>}
      /\ <<b, a>> \in attacks' => <<b, a>> \in attacks \/ b \notin Attackers
  <2>1. attacks' \in {attacks \cup {<<a, b>>}} \cup
          (IF b \in Attackers THEN {} ELSE {attacks \cup {<<a, b>>} \cup {<<b, a>>}})
    BY DEF StartAttack
  <2>2. CASE attacks' = attacks \cup {<<a, b>>} BY <1>2, <2>2
  <2>3. CASE b \notin Attackers /\ attacks' = attacks \cup {<<a, b>>} \cup {<<b, a>>} BY <2>3
  <2> QED BY <2>1, <2>2, <2>3
<1>4. \A n \in IDs : enemy'[n] = IF n = b /\ b \in npcs["Defensive"] /\ enemies[b] = None
                                 THEN a ELSE enemies[n]
  BY <1>2 DEF StartAttack
<1>5. Types'
  <2>1. enemy' \in [IDs -> IDs \cup {None}] BY <1>2 DEF StartAttack
  <2> QED BY <1>2, <1>3, <2>1 DEF Safety, Types
<1>6. SessionsApart' BY <1>1 DEF Safety, SessionsApart
<1>7. \A x \in attacks : x[1] # a BY DEF Attackers
<1>8. b \notin Attackers => \A x \in attacks : x[1] # b BY DEF Attackers
<1>9. OneAttackEach'
  <2> SUFFICES ASSUME NEW x \in attacks', NEW y \in attacks', x[1] = y[1] PROVE x = y
    BY DEF OneAttackEach
  <2>1. x \in attacks \/ x = <<a, b>> \/ (x = <<b, a>> /\ \A z \in attacks : z[1] # b)
    BY <1>3, <1>8
  <2>2. y \in attacks \/ y = <<a, b>> \/ (y = <<b, a>> /\ \A z \in attacks : z[1] # b)
    BY <1>3, <1>8
  <2> QED BY <1>2, <1>7, <2>1, <2>2 DEF Safety, OneAttackEach
<1>10. DanglingAreEntries' BY <1>3 DEF Safety, DanglingAreEntries
<1>11. FoundAreAlive'
  <2>1. <<a, b>> \notin dangling
    <3>1. <<a, b>> \notin attacks BY <1>7
    <3>2. <<a, b>> \in IDs \X IDs BY <1>2
    <3> QED BY <3>1, <3>2, EntriesDiffer DEF Safety, DanglingAreEntries
  <2>2. <<b, a>> \in attacks' => <<b, a>> \notin dangling
    <3>1. <<b, a>> \in IDs \X IDs BY <1>2
    <3>2. <<b, a>> \in attacks => <<b, a>> \notin dangling
      BY DEF Safety, FoundAreAlive
    <3>3. <<b, a>> \notin attacks => <<b, a>> \notin dangling
      BY <3>1, EntriesDiffer DEF Safety, DanglingAreEntries
    <3> QED BY <3>2, <3>3
  <2> QED BY <1>1, <1>3, <2>1, <2>2 DEF Safety, FoundAreAlive
<1>12. \A n \in IDs : enemy'[n] # enemy[n] => n \in NPCs /\ enemy'[n] \in InMatch
  BY <1>2, <1>4, SessionFacts
<1>13. NPCsKnowWhoIsThere'
  <2>1. \A n \in NPCs : n \in IDs BY SessionFacts DEF Safety
  <2> QED BY <1>1, <1>12, <2>1 DEF Safety, NPCsKnowWhoIsThere
<1>14. MindsAreOfNPCs' BY <1>1, <1>12 DEF Safety, MindsAreOfNPCs
<1>15. PursuerAttacks'
  <2> SUFFICES ASSUME NEW n \in npcs["FullAggresive"] \ distracted, enemy'[n] # None
               PROVE  <<n, enemy'[n]>> \in attacks'
    BY DEF PursuerAttacks
  <2>1. n \in IDs /\ n \notin npcs["Defensive"] BY SessionFacts DEF Safety, SessionsApart, Types, Spawners
  <2>2. enemy'[n] = enemies[n] BY <1>4, <2>1
  <2>3. CASE n = a BY <1>3, <2>2, <2>3
  <2>4. CASE n # a
    <3>1. enemy'[n] = enemy[n] BY <2>1, <2>2, <2>4
    <3> QED BY <1>3, <3>1 DEF Safety, PursuerAttacks
  <2> QED BY <2>3, <2>4
<1>16. Numbered' BY <1>1, <1>3 DEF Safety, Numbered
<1> QED BY <1>5, <1>6, <1>9, <1>10, <1>11, <1>13, <1>14, <1>15, <1>16 DEF Safety

LEMMA HandleStartAttackSafety ==
    ASSUME Safety, NEW a \in IDs, NEW b \in IDs, HandleStartAttack(a, b)
    PROVE  Safety'
<1>1. /\ a \in players /\ a \in InMatch /\ b \in InMatch /\ a \notin Attackers
      /\ StartAttack(a, b, enemy)
      /\ UNCHANGED <<players, npcs, nextID, jumps, dangling, target, distracted, due, waiting>>
  BY SessionFacts DEF HandleStartAttack, timerVars
<1>2. a \notin npcs["FullAggresive"] BY <1>1, SessionFacts DEF Safety, SessionsApart
<1>3. enemy \in [IDs -> IDs \cup {None}] BY DEF Safety, Types
<1> QED BY <1>1, <1>2, <1>3, StartAttackSafety

LEMMA DetectEnemiesSafety ==
    ASSUME Safety, NEW n \in IDs, NEW s \in IDs, DetectEnemies(n, s)
    PROVE  Safety'
<1> DEFINE enemies == [enemy EXCEPT ![n] = s]
<1>1. /\ n \in npcs["FullAggresive"] /\ enemy[n] = None /\ s \in InMatch \ {n}
      /\ UNCHANGED <<players, npcs, nextID, jumps, dangling, target, due, waiting>>
  BY DEF DetectEnemies, timerVars
<1>2. n \in InMatch BY <1>1, SessionFacts
<1>3. enemies \in [IDs -> IDs \cup {None}] /\ enemies[n] = s /\ \A i \in IDs : i # n => enemies[i] = enemy[i]
  BY DEF Safety, Types
<1>4. CASE n \in Attackers
  <2>1. enemy' = enemies /\ distracted' = distracted \cup {n} /\ attacks' = attacks
    BY <1>4 DEF DetectEnemies
  <2>2. NPCs' = NPCs /\ InMatch' = InMatch BY <1>1 DEF NPCs, InMatch
  <2>3. Types' BY <1>1, <1>3, <2>1 DEF Safety, Types
  <2>4. SessionsApart' /\ OneAttackEach' /\ DanglingAreEntries'
    BY <1>1, <2>1, <2>2 DEF Safety, SessionsApart, OneAttackEach, DanglingAreEntries
  <2>5. FoundAreAlive' BY <1>1, <2>1, <2>2 DEF Safety, FoundAreAlive
  <2>6. \A i \in IDs : enemy'[i] # enemy[i] => i \in NPCs /\ enemy'[i] \in InMatch
    BY <1>1, <1>3, <2>1, SessionFacts
  <2>7. NPCsKnowWhoIsThere'
    <3>1. \A i \in NPCs : i \in IDs BY SessionFacts DEF Safety
    <3> QED BY <1>1, <2>2, <2>6, <3>1 DEF Safety, NPCsKnowWhoIsThere
  <2>8. MindsAreOfNPCs' BY <1>1, <2>2, <2>6 DEF Safety, MindsAreOfNPCs
  <2>9. PursuerAttacks'
    BY <1>1, <1>3, <2>1 DEF Safety, PursuerAttacks, Types, Spawners
  <2>10. Numbered' BY <1>1, <2>1, <2>2 DEF Safety, Numbered
  <2> QED BY <2>3, <2>4, <2>5, <2>7, <2>8, <2>9, <2>10 DEF Safety
<1>5. CASE n \notin Attackers
  <2>1. StartAttack(n, s, enemies) /\ UNCHANGED distracted BY <1>5 DEF DetectEnemies
  <2> HIDE DEF enemies
  <2> QED BY <1>1, <1>2, <1>3, <1>5, <2>1, StartAttackSafety
<1> QED BY <1>4, <1>5

\* A defensive NPC takes a target, or gives it up.
LEMMA TargetSafety ==
    ASSUME Safety, NEW n \in IDs,
           (\E s \in IDs : DetectTargets(n, s)) \/ TransitionToAggresive(n)
    PROVE  Safety'
<1>1. PICK t \in InMatch \cup {None} : target' = [target EXCEPT ![n] = t]
  BY DEF DetectTargets, TransitionToAggresive
<1>2. /\ n \in npcs["Defensive"]
      /\ UNCHANGED <<players, npcs, nextID, attacks, jumps, dangling, enemy, distracted, due, waiting>>
  BY DEF DetectTargets, TransitionToAggresive, entries, timerVars
<1>3. NPCs' = NPCs /\ InMatch' = InMatch BY <1>2 DEF NPCs, InMatch
<1>4. Types' BY <1>1, <1>2, SessionFacts DEF Safety, Types
<1>5. SessionsApart' /\ OneAttackEach' /\ DanglingAreEntries'
  BY <1>2, <1>3 DEF Safety, SessionsApart, OneAttackEach, DanglingAreEntries
<1>6. FoundAreAlive' BY <1>2, <1>3 DEF Safety, FoundAreAlive
<1>7. \A i \in IDs : target'[i] = IF i = n THEN t ELSE target[i] BY <1>1 DEF Safety, Types
<1>8. NPCsKnowWhoIsThere'
  <2>1. \A i \in NPCs : i \in IDs BY SessionFacts DEF Safety
  <2> QED BY <1>2, <1>3, <1>7, <2>1 DEF Safety, NPCsKnowWhoIsThere
<1>9. MindsAreOfNPCs' BY <1>2, <1>3, <1>7, SessionFacts DEF Safety, MindsAreOfNPCs
<1>10. PursuerAttacks' BY <1>2 DEF Safety, PursuerAttacks
<1>11. Numbered' BY <1>2, <1>3 DEF Safety, Numbered
<1> QED BY <1>4, <1>5, <1>6, <1>8, <1>9, <1>10, <1>11 DEF Safety

LEMMA NextSafety == ASSUME Safety, TodoIsListed, [Next]_vars PROVE Safety'
<1>1. ASSUME NEW i \in IDs, \/ JumpGoesOn(i) \/ UpdateSession(i) \/ StayInMatch(i)
      PROVE  Safety'
  BY <1>1, QuietSafety DEF JumpGoesOn, UpdateSession, StayInMatch
<1>2. CASE \/ EndJumps \/ EndAttacks \/ EndUpdate
           \/ \E attack \in attacks : AttackGoesOn(attack) \/ KillsItself(attack)
           \/ Undefined \/ UNCHANGED vars
  BY <1>2, QuietSafety DEF EndJumps, EndAttacks, EndUpdate, AttackGoesOn, KillsItself, Undefined, vars
<1>3. CASE UpdateJumps BY <1>1, <1>2, <1>3, DropJumpSafety, JumpEndsSafety DEF UpdateJumps
<1>4. CASE UpdateAttacks
  BY <1>2, <1>4, DropAttackSafety, AttackCancelledSafety, AttackedDeadSafety DEF UpdateAttacks
<1>5. CASE UpdateSessions
  BY <1>1, <1>2, <1>5, StopAttackSafety, JumpSafety, LeaveMatchSafety, TargetSafety,
     HandleStartAttackSafety, DetectEnemiesSafety DEF UpdateSessions
<1>6. CASE PlayerEnters BY <1>6, PlayerEntersSafety
<1>7. CASE UpdateNPCSpawner BY <1>7, SpawnerSafety
<1> QED BY <1>2, <1>3, <1>4, <1>5, <1>6, <1>7 DEF Next

LEMMA NextTodo == ASSUME TodoIsListed, [Next]_vars PROVE TodoIsListed'
<1> USE DEF TodoIsListed
<1>1. CASE UpdateNPCSpawner BY <1>1 DEF UpdateNPCSpawner, entries
<1>2. ASSUME NEW j \in IDs, DropJump(j) \/ JumpGoesOn(j) \/ JumpEnds(j) PROVE TodoIsListed'
  BY <1>2 DEF DropJump, JumpGoesOn, JumpEnds, Visited, entries
<1>3. CASE EndJumps \/ EndAttacks \/ EndUpdate \/ PlayerEnters \/ Undefined \/ UNCHANGED vars
  BY <1>3 DEF EndJumps, EndAttacks, EndUpdate, PlayerEnters, Undefined, vars, loopVars, entries
<1>4. ASSUME NEW attack \in attacks,
             \/ DropAttack(attack) \/ AttackGoesOn(attack) \/ AttackCancelled(attack)
             \/ AttackedDead(attack) \/ KillsItself(attack)
      PROVE  TodoIsListed'
  BY <1>4 DEF DropAttack, AttackGoesOn, AttackCancelled, AttackedDead, KillsItself, Visited
<1>5. ASSUME NEW i \in IDs, NEW s \in IDs,
             \/ UpdateSession(i) \/ HandleStopAttack(i) \/ HandleJump(i) \/ StayInMatch(i)
             \/ LeaveMatch(i) \/ TransitionToAggresive(i)
             \/ HandleStartAttack(i, s) \/ DetectEnemies(i, s) \/ DetectTargets(i, s)
      PROVE  TodoIsListed'
  <2>1. phase' = phase /\ todo' \subseteq todo /\ jumps \subseteq jumps'
    BY <1>5 DEF UpdateSession, HandleStopAttack, HandleJump, StayInMatch, LeaveMatch,
                TransitionToAggresive, HandleStartAttack, DetectEnemies, DetectTargets, loopVars, entries
  <2> QED BY <2>1
<1> QED BY <1>1, <1>2, <1>3, <1>4, <1>5 DEF Next, UpdateJumps, UpdateAttacks, UpdateSessions

\* Pointers, minds and the walks over the entries, at every step of Match::Update.
THEOREM Inductive == Spec => [](Safety /\ TodoIsListed)
<1>1. Init => TodoIsListed BY DEF Init, TodoIsListed
<1> QED BY <1>1, InitSafety, NextSafety, NextTodo, PTL DEF Spec

\* However many sessions come and go, whatever they attack, themselves too, and
\* wherever they jump: no turn uses the pointers of an entry that dangles.  The
\* entries found are alive because no identifier is given twice.
THEOREM NoneIsUsedAfterDelete == Spec => NoUseAfterDelete
<1> DEFINE Uses == /\ \A attack \in attacks : UsesAttack(attack) => attack \notin dangling
                   /\ \A j \in jumps : UsesJump(j) => <<j>> \notin dangling
<1>1. Safety => Uses
  <2> SUFFICES ASSUME Safety PROVE Uses OBVIOUS
  <2>1. \A attack : UsesAttack(attack) => {attack[1], attack[2]} \subseteq InMatch
    BY DEF UsesAttack, AttackGoesOn, AttackCancelled, AttackedDead, KillsItself
  <2>2. \A j : UsesJump(j) => j \in InMatch BY DEF UsesJump, JumpGoesOn, JumpEnds
  <2> QED BY <2>1, <2>2 DEF Safety, FoundAreAlive
<1> QED BY <1>1, Inductive, PTL DEF NoUseAfterDelete

\* No NPC has somebody in mind who is not in the match.
THEOREM NPCsAreTold == Spec => []NPCsKnowWhoIsThere
<1>1. Safety => NPCsKnowWhoIsThere BY DEF Safety
<1> QED BY <1>1, Inductive, PTL

\* An aggressive NPC attacks the enemy it follows, but for the way around it
\* that IsAttacking leaves.
THEOREM PursuersAttack == Spec => []PursuerAttacks
<1>1. Safety => PursuerAttacks BY DEF Safety
<1> QED BY <1>1, Inductive, PTL

-----------------------------------------------------------------------------
(* The spawners.                                                           *)

\* PopulationKept, where the actions say what becomes of the numbers.
Population == Safety /\ PopulationKept

LEMMA NPCNumbers ==
    ASSUME Safety, NEW p \in Spawners
    PROVE  IsFiniteSet(npcs[p]) /\ Cardinality(npcs[p]) \in Nat
<1>1. npcs[p] \in SUBSET IDs BY DEF Safety, Types
<1>2. IsFiniteSet(IDs)
  <2>1. 0 \in Int /\ MaxID - 1 \in Int BY MatchAssumption
  <2> QED BY <2>1, FS_Interval DEF IDs
<1> QED BY <1>1, <1>2, FS_Subset, FS_CardinalityType

LEMMA SpawnerPopulation == ASSUME Population, UpdateNPCSpawner PROVE PopulationKept'
<1> USE DEF Population
<1>1. PICK elapsed \in [Spawners -> Nat] :
          /\ \A p \in Spawners : elapsed[p] <= waiting[p]
          /\ due' = elapsed
          /\ waiting' = [p \in Spawners |-> waiting[p] - elapsed[p]]
  BY SpawnerTimers
<1> SUFFICES ASSUME NEW p \in Spawners PROVE Cardinality(npcs'[p]) + due'[p] + waiting'[p] = Size(p)
  BY DEF PopulationKept
<1>2. /\ Spawned(p) \in SUBSET NewIDs /\ IsFiniteSet(Spawned(p)) /\ Cardinality(Spawned(p)) = due[p]
      /\ npcs'[p] = npcs[p] \cup Spawned(p)
      /\ due'[p] = elapsed[p] /\ waiting'[p] = waiting[p] - elapsed[p] /\ elapsed[p] \in Nat
  <2>1. Spawned(p) \in SUBSET NewIDs /\ IsFiniteSet(Spawned(p)) /\ Cardinality(Spawned(p)) = due[p]
    BY SpawnedFacts
  <2> QED BY <1>1, <2>1 DEF UpdateNPCSpawner
<1>3. npcs[p] \cap Spawned(p) = {} BY <1>2, NewIsNew, SessionFacts DEF Spawners
<1>4. /\ due[p] \in Nat /\ waiting[p] \in Nat
      /\ IsFiniteSet(npcs[p]) /\ Cardinality(npcs[p]) \in Nat
      /\ Cardinality(npcs[p]) + due[p] + waiting[p] = Size(p)
  BY NPCNumbers DEF Safety, Types, PopulationKept
<1>5. Cardinality(npcs'[p]) = Cardinality(npcs[p]) + due[p]
  <2>1. Cardinality(npcs[p] \cup Spawned(p)) =
          Cardinality(npcs[p]) + Cardinality(Spawned(p)) - Cardinality(npcs[p] \cap Spawned(p))
    BY <1>2, <1>4, FS_Union
  <2> QED BY <1>2, <1>3, <1>4, <2>1, FS_EmptySet
<1> QED BY <1>2, <1>4, <1>5

LEMMA DeadPopulation ==
    ASSUME Population, NEW attack \in attacks, AttackedDead(attack)
    PROVE  PopulationKept'
<1> USE DEF Population
<1> DEFINE dead == attack[2]
<1>1. /\ npcs' = [p \in Spawners |-> npcs[p] \ {dead}]
      /\ waiting' = [p \in Spawners |-> IF dead \in npcs[p] THEN waiting[p] + 1 ELSE waiting[p]]
      /\ due' = due
  BY DEF AttackedDead
<1> SUFFICES ASSUME NEW p \in Spawners PROVE Cardinality(npcs'[p]) + due'[p] + waiting'[p] = Size(p)
  BY DEF PopulationKept
<1>2. /\ IsFiniteSet(npcs[p]) /\ Cardinality(npcs[p]) \in Nat /\ due[p] \in Nat /\ waiting[p] \in Nat
      /\ Cardinality(npcs[p]) + due[p] + waiting[p] = Size(p)
  BY NPCNumbers DEF Safety, Types, PopulationKept
<1>3. Cardinality(npcs[p] \ {dead}) =
        IF dead \in npcs[p] THEN Cardinality(npcs[p]) - 1 ELSE Cardinality(npcs[p])
  BY <1>2, FS_RemoveElement
<1> QED BY <1>1, <1>2, <1>3

LEMMA OtherPopulation == ASSUME PopulationKept, UNCHANGED <<npcs, timerVars>> PROVE PopulationKept'
BY DEF PopulationKept, timerVars

LEMMA NextPopulation == ASSUME Population, [Next]_vars PROVE PopulationKept'
<1> USE DEF Population
<1>1. CASE \/ UpdateJumps \/ EndAttacks \/ UpdateSessions \/ UNCHANGED vars
           \/ PlayerEnters \/ Undefined
           \/ \E attack \in attacks :
                  DropAttack(attack) \/ AttackGoesOn(attack) \/ AttackCancelled(attack) \/ KillsItself(attack)
  <2>1. UNCHANGED <<npcs, timerVars>>
    BY <1>1 DEF UpdateJumps, EndAttacks, UpdateSessions, vars, PlayerEnters, DropAttack, AttackGoesOn,
                AttackCancelled, KillsItself, Undefined, DropJump, JumpGoesOn, JumpEnds, EndJumps, UpdateSession, HandleStopAttack,
                HandleJump, StayInMatch, LeaveMatch, TransitionToAggresive, HandleStartAttack, DetectEnemies,
                DetectTargets, EndUpdate
  <2> QED BY <2>1, OtherPopulation
<1>2. CASE UpdateNPCSpawner BY <1>2, SpawnerPopulation
<1>3. ASSUME NEW attack \in attacks, AttackedDead(attack) PROVE PopulationKept'
  BY <1>3, DeadPopulation
<1> HIDE DEF Population
<1> QED BY <1>1, <1>2, <1>3 DEF Next, UpdateAttacks

\* Every spawner keeps its number of NPCs and timers, whatever the configured
\* sizes are and however many die in one turn.
THEOREM PopulationStays == Spec => []PopulationKept
<1>1. Init => PopulationKept
  <2> SUFFICES ASSUME Init, NEW p \in Spawners PROVE Cardinality(npcs[p]) + due[p] + waiting[p] = Size(p)
    BY DEF PopulationKept
  <2>1. npcs[p] = {} /\ due[p] = Size(p) /\ waiting[p] = 0 BY DEF Init
  <2>2. Size(p) \in Nat BY MatchAssumption DEF Size
  <2> QED BY <2>1, <2>2, FS_EmptySet
<1>2. Safety /\ PopulationKept /\ [Next]_vars => PopulationKept' BY NextPopulation DEF Population
<1> QED BY <1>1, <1>2, Inductive, PTL DEF Spec
=============================================================================
