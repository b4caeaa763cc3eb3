---------------------------- MODULE MCWorldView ----------------------------
(* Identifiers of sessions, and those of collectables, are interchangeable. *)
EXTENDS WorldView, TLC

MCSymmetry == Permutations(IDs) \cup Permutations(CollectableIDs)
=============================================================================
