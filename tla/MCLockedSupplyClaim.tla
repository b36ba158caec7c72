------------------------- MODULE MCLockedSupplyClaim -------------------------
(* Instances of LockedSupplyClaim for TLC. *)
EXTENDS LockedSupplyClaim, TLC

CONSTANTS r1, r2, o1, e1, e2, i1, w1, w2, c1, c2

OneOrder == (o1 :> e1)

Symmetry == Permutations({r1, r2}) \cup Permutations({w1, w2}) \cup Permutations({c1, c2})
=============================================================================
