--------------------------- MODULE MCOrderPipeline ---------------------------
(* Instances of OrderPipeline for TLC. *)
EXTENDS OrderPipeline, TLC

CONSTANTS p1, p2, o1, o2, t1, t2

(* One credit each. *)
OneEach == (t1 :> o1) @@ (t2 :> o2)

(* Two credits for one order. *)
BothForOne == (t1 :> o1) @@ (t2 :> o1)

(* One that pays and one with an id the server never issued. *)
OneUnknown == (t1 :> o1) @@ (t2 :> NoOrder)

(* The processes of a deployment are alike, and so are two exact credits that
   carry the id of the same order. *)
Symmetry == Permutations({p1, p2}) \cup Permutations({t1, t2})
=============================================================================
