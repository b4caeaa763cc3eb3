CONSTANTS
    MaxID = 4
    MaxPlayers = 2
    AggressiveSize = 1
    DefensiveSize = 1
    None = none
SPECIFICATION Spec
INVARIANTS NPCsKnowWhoIsThere PursuerAttacks PopulationKept
PROPERTIES NoUseAfterDelete
