---------------------------- MODULE MCKeysEvents ----------------------------
(* The key store with its broadcasts on a small instance.                  *)
EXTENDS KeysEvents, TLC
CONSTANTS p1, p2

\* Everything but the deletion of the single-instance key and unwiring tier 0
StableCalls == Methods \ {"DeleteTier0", "SetKEKProviderTier0"}
Symmetry == Permutations({p1, p2})
=============================================================================
