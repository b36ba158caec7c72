---------------------------- MODULE MCClaimImport ----------------------------
(* Instances of ClaimImport for TLC. *)
EXTENDS ClaimImport, TLC

CONSTANTS p1, p2, o1, o2, sale, dynamicSale

TwoContracts == (o1 :> sale) @@ (o2 :> dynamicSale)

ProcSymmetry == Permutations({p1, p2})
=============================================================================
