\* Two others, so that one may be the target while the other attacks.
CONSTANTS
    Others = {o1, o2}
    MaxPause = 2
    Nobody = none
SPECIFICATION FairBehaviourSpec
INVARIANTS FollowsSomebody
PROPERTIES WalksAgain
