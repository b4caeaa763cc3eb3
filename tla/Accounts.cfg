\* One account and two sessions that ask for it, on two maps, of which each
\* save differs from the one before in the map or in the progress made.
CONSTANTS
    AccountIDs = {a1}
    Sessions = {s1, s2}
    MapCount = 2
    MaxProgress = 1
    NoAccount = none
SPECIFICATION FairGameSpec
INVARIANTS OneSessionPerAccount LoadsLatest SavesSurviveShutdown
PROPERTIES SilentPlayersLeave
\* A closed game does nothing any more.
CHECK_DEADLOCK FALSE
