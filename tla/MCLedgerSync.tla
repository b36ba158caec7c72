---------------------------- MODULE MCLedgerSync ----------------------------
(* Instances of LedgerSync for TLC. *)
EXTENDS LedgerSync, TLC

CONSTANTS p1, l1, l2, null, bridge, holder

T(network, block, from, to, amount) ==
  [network |-> network, block |-> block, from |-> from, to |-> to, amount |-> amount]

(* Tokens are minted, leave over the bridge, and come out of it in part; two
   transfers share a block, and the other network mints on its own. *)
BridgedTokens ==
  << T(l1, 1, null, holder, 2),
     T(l1, 2, holder, bridge, 2),
     T(l1, 2, bridge, holder, 1),
     T(l2, 1, null, holder, 1) >>

Grouping == [n \in {l1, l2} |-> (null :> "Chain") @@ (bridge :> "Bridge") @@ (holder :> "Holder")]
=============================================================================
