------------------------------ MODULE MCQuotes ------------------------------
(* Two requests; prices in twentieths, chosen so that the divisions round. *)
EXTENDS Quotes, TLC

CONSTANTS r1, r2

MCAsk(currency, amount, layer, type, reload) ==
  [kind |-> "quote", currency |-> currency, amount |-> amount, layer |-> layer,
   type |-> type, reload |-> reload]

MCAsks ==
  (r1 :> {MCAsk("KNN", 433, "L2", "Claim", FALSE)}) @@
  (r2 :> {MCAsk("BRL", 400, "L1", "LockSupply", FALSE),
          MCAsk("BRL", 1217, "L2", "Claim", TRUE),
          MCAsk("USD", 7, "L2", "Transfer", FALSE),
          MCAsk("ETH", 213, "L1", "Claim", FALSE),
          MCAsk("MATIC", 1331, "L2", "Claim", FALSE),
          [MCAsk("KNN", 219, "L1", "Transfer", FALSE) EXCEPT !.kind = "convert"]})

MCEstimatedGas == [Transfer |-> 4, LockSupply |-> 5, Claim |-> 5]

MCMarket == [usd |-> {97, 103}, eth |-> {89}, matic |-> {7}, gasL1 |-> {1}, gasL2 |-> {9},
             knn |-> {37, 71}]

MCOpening == [usd |-> 97, eth |-> 89, matic |-> 7, gasL1 |-> 1, gasL2 |-> 9, knn |-> 71]

MCTtl == [knn |-> 1, usd |-> 2, eth |-> 2, matic |-> 2, gasL1 |-> 1, gasL2 |-> 1]
=============================================================================
