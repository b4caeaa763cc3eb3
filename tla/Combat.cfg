\* A citizen in two areas that may overlap, whose shield a hit of 5 takes in
\* part, breaks or uses up exactly, and one that areas do not protect.
CONSTANTS
    s1 = s1
    s2 = s2
    Sessions = {s1, s2}
    Citizens = {s1}
    AreaCount = 2
    MaxHP <- MCMaxHP
    MaxShield <- MCMaxShield
    Damage <- MCDamage
    RegenerationShare = 2
    None = none
SPECIFICATION Spec
INVARIANTS ProtectionMatchesAreas StatusKnown
PROPERTIES SafeInAreas HitsAddUp
