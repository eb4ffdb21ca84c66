--------------------------- MODULE MCKeysMasters ---------------------------
(* The key store on small instances. *)
EXTENDS KeysMasters, TLC
CONSTANTS p1, p2

AllCalls == Methods
WireAndPut == {"SetKEKProvider", "Unlock", "PutTier1"}
Symmetry == Permutations({p1, p2})
=============================================================================
