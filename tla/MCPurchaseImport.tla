-------------------------- MODULE MCPurchaseImport --------------------------
(* Instances of PurchaseImport for TLC. *)
EXTENDS PurchaseImport, TLC

CONSTANTS p1, p2, l2, polygonSale, polygonDynamicSale, t1, t2, t3

P(contract, block, transaction) ==
  [contract |-> contract, block |-> block, transaction |-> transaction]

Sales == (polygonSale :> l2) @@ (polygonDynamicSale :> l2)

(* The contract that comes last has the older purchases, and one
   transaction buys from both. *)
TwoContracts ==
  << P(polygonSale, 2, t1),
     P(polygonDynamicSale, 1, t2),
     P(polygonDynamicSale, 1, t3),
     P(polygonDynamicSale, 2, t1) >>
=============================================================================
