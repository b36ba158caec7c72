--------------------------- MODULE MCBadgeSigning ---------------------------
(* Instances of BadgeSigning for TLC. *)
EXTENDS BadgeSigning, TLC

CONSTANTS p1, p2, r1, r2, r3, l1, l2

(* A request for each network, and a GET, which is for the first. *)
ThreeAsks ==
     r1 :> [kind |-> "sign",  network |-> l1]
  @@ r2 :> [kind |-> "sign",  network |-> l2]
  @@ r3 :> [kind |-> "fetch", network |-> l1]

(* The first process answers the request for the first network alone. *)
TwoProcesses == r1 :> p1 @@ r2 :> p2 @@ r3 :> p2
=============================================================================
