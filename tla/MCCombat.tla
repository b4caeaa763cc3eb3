------------------------------ MODULE MCCombat ------------------------------
EXTENDS Combat, TLC

CONSTANTS s1, s2

\* One is worn down and regenerates, the other dies of any hit.
MCMaxHP == s1 :> 6 @@ s2 :> 1
MCMaxShield == s1 :> 7 @@ s2 :> 0
MCDamage == s1 :> {1} @@ s2 :> {5}
=============================================================================
