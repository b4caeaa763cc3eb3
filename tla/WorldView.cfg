CONSTANTS
    IDs = {i1, i2, i3, i4}
    MaxPlayers = 2
    MaxNPCs = 1
    CollectableIDs = {c1, c2}
    SpawnerSize = 1
    None = none
SPECIFICATION Spec
SYMMETRY MCSymmetry
INVARIANTS ViewsAgree CollectingIsAnswered CollectablesKept
