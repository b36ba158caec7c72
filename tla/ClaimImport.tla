----------------------------- MODULE ClaimImport -----------------------------
(***************************************************************************)
(* The import of claims: token owners claim locked tokens from the sale    *)
(* contracts themselves, with a signature of the server, and a cron job    *)
(* copies the Claim events of the chain into the database                  *)
(* (import-reconciled-claims.usecase.ts,                                   *)
(* reconcile-delegate-signature-claim.usecase.ts,                          *)
(* fetchable-delegate-claim-event.adapter.ts).                             *)
(*                                                                         *)
(* The contracts of a network are queried side by side, from the block of  *)
(* the newest event seen so far, which a process keeps in memory and       *)
(* shares between these contracts.  The rows of a claim are two inserts    *)
(* and an update, without a transaction around them.  The networks have    *)
(* cursors of their own, so one network is modelled.                       *)
(***************************************************************************)
EXTENDS Integers, FiniteSets

CONSTANTS
  Procs,       (* server processes                                          *)
  Contracts,   (* sale contracts of the network                             *)
  Orders,      (* orders with locked tokens, challenged and answered        *)
  ContractOf,  (* the contract that holds an order's tokens                 *)
  NoOrder,
  Database,    (* answers beside the contracts                              *)
  FaultKinds,  (* calls that may fail                                       *)
  MaxFaults,   (* bound: failed calls                                       *)
  MaxRestarts  (* bound: process restarts                                   *)

AllFaultKinds == {"query", "orders", "receipts", "userReceipt", "claim", "status"}

ASSUME ImportAssumption ==
  /\ IsFiniteSet(Orders)
  /\ ContractOf \in [Orders -> Contracts]
  /\ NoOrder \notin Orders
  /\ Database \notin Contracts
  /\ FaultKinds \subseteq AllFaultKinds
  /\ MaxFaults \in Nat
  /\ MaxRestarts \in Nat

VARIABLES
  (* chain *)
  height,       (* the newest block with a Claim event                      *)
  claimedAt,    (* the block of an order's Claim event, 0: not claimed      *)
  (* database *)
  userReceipt,  (* whether the order has a user_receipt row                 *)
  claimRow,     (* whether the order has a claim row                        *)
  status,       (* "order".status                                           *)
  (* memory of a process *)
  pc, asked, found, snapshot, todo, current,
  cursor,       (* lastEthereumBlockNumber or lastPolygonBlockNumber        *)
  (* budgets *)
  faults, restarts

chain    == <<height, claimedAt>>
rows     == <<userReceipt, claimRow, status>>
job      == <<pc, asked, found, snapshot, todo, current, cursor>>
vars     == <<chain, rows, job, faults, restarts>>

Fails(kind) ==
  /\ kind \in FaultKinds
  /\ faults > 0
  /\ faults' = faults - 1
-----------------------------------------------------------------------------
(* A block in which the owners of some orders claim their tokens.  The
   contract accepts an order's payment sequence once. *)
Mine(claims) ==
  /\ claims # {}
  /\ \A o \in claims : claimedAt[o] = 0
  /\ height' = height + 1
  /\ claimedAt' = [o \in Orders |-> IF o \in claims THEN height + 1 ELSE claimedAt[o]]
  /\ UNCHANGED <<rows, job, faults, restarts>>

(* ReconcileDelegateSignatureClaimUseCase.execute asks the database for the
   orders and the contracts for their events, all at once. *)
Start(p) ==
  /\ pc[p] = "idle"
  /\ pc'    = [pc EXCEPT ![p] = "query"]
  /\ asked' = [asked EXCEPT ![p] = Contracts \cup {Database}]
  /\ found' = [found EXCEPT ![p] = {}]
  /\ UNCHANGED <<chain, rows, snapshot, todo, current, cursor, faults, restarts>>

(* FetchableOrderDbAdapter.fetchLockedAndNotClaimedInStatus *)
Unclaimed == {o \in Orders : status[o] = "Owned" /\ ~claimRow[o]}

ReadOrders(p) ==
  /\ pc[p] \in {"query", "receipts"} /\ Database \in asked[p]
  /\ asked'    = [asked EXCEPT ![p] = @ \ {Database}]
  /\ snapshot' = [snapshot EXCEPT ![p] = Unclaimed]
  /\ UNCHANGED <<chain, rows, pc, found, todo, current, cursor, faults, restarts>>

EventsFrom_After(c, block) ==
  {o \in Orders : ContractOf[o] = c /\ claimedAt[o] # 0 /\ claimedAt[o] > block}

(* queryFilter(Claim, block): the block itself included *)
EventsFrom(c, block) ==
  {o \in Orders : ContractOf[o] = c /\ claimedAt[o] # 0 /\ claimedAt[o] >= block}

(* One contract answers. *)
Query(p, c) ==
  /\ pc[p] = "query" /\ c \in asked[p] \cap Contracts
  /\ asked' = [asked EXCEPT ![p] = @ \ {c}]
  /\ found' = [found EXCEPT ![p] = @ \cup EventsFrom(c, cursor[p])]
  /\ UNCHANGED <<chain, rows, pc, snapshot, todo, current, cursor, faults, restarts>>

(* The newest of the events found, and of those before *)
IsNewest(p, block) ==
  /\ block \in {cursor[p]} \cup {claimedAt[o] : o \in found[p]}
  /\ block >= cursor[p] /\ \A o \in found[p] : block >= claimedAt[o]

Advance_BlockBefore(p, block) ==
  /\ pc[p] = "query" /\ asked[p] \cap Contracts = {}
  /\ IsNewest(p, block)
  /\ cursor' = [cursor EXCEPT ![p] = block - 1]
  /\ pc'     = [pc EXCEPT ![p] = "receipts"]
  /\ UNCHANGED <<chain, rows, asked, found, snapshot, todo, current, faults, restarts>>

(* All have answered: the cursor moves to the newest event, before anything
   is done with the events. *)
Advance(p, block) ==
  /\ pc[p] = "query" /\ asked[p] \cap Contracts = {}
  /\ IsNewest(p, block)
  /\ cursor' = [cursor EXCEPT ![p] = block]
  /\ pc'     = [pc EXCEPT ![p] = "receipts"]
  /\ UNCHANGED <<chain, rows, asked, found, snapshot, todo, current, faults, restarts>>

(* The job goes through a set of orders, what it fetched being used up; with
   the last one it ends. *)
GoThrough(p, orders) ==
  /\ todo'    = [todo EXCEPT ![p] = orders]
  /\ current' = [current EXCEPT ![p] = NoOrder]
  /\ pc'      = [pc EXCEPT ![p] = IF orders = {} THEN "idle" ELSE "import"]

FetchDone(p) ==
  /\ asked'    = [asked EXCEPT ![p] = {}]
  /\ found'    = [found EXCEPT ![p] = {}]
  /\ snapshot' = [snapshot EXCEPT ![p] = {}]

(* The transaction receipts of the events arrive, and reconcile joins the
   events with the orders. *)
Reconcile(p) ==
  /\ pc[p] = "receipts" /\ asked[p] = {}
  /\ GoThrough(p, found[p] \cap snapshot[p])
  /\ FetchDone(p)
  /\ UNCHANGED <<chain, rows, cursor, faults, restarts>>

(* A contract cannot be queried; or, with the cursor moved already, the
   orders or a transaction receipt cannot be read.  The run ends. *)
FetchFails(p) ==
  /\ \/ pc[p] = "query" /\ Fails("query")
     \/ pc[p] = "receipts" /\ Fails("receipts")
     \/ pc[p] = "receipts" /\ Database \in asked[p] /\ Fails("orders")
  /\ GoThrough(p, {})
  /\ FetchDone(p)
  /\ UNCHANGED <<chain, rows, cursor, restarts>>

(* PersistableClaimReceiptDbAdapter.create, first insert:
   user_receipt.order_id is unique. *)
InsertUserReceipt(p, o) ==
  /\ pc[p] = "import" /\ o \in todo[p]
  /\ ~userReceipt[o]
  /\ userReceipt' = [userReceipt EXCEPT ![o] = TRUE]
  /\ current'     = [current EXCEPT ![p] = o]
  /\ pc'          = [pc EXCEPT ![p] = "claim"]
  /\ UNCHANGED <<chain, claimRow, status, asked, found, snapshot, todo, cursor, faults, restarts>>

InsertClaim_AfterStatus(p) ==
  /\ pc[p] = "claim"
  /\ status' = [status EXCEPT ![current[p]] = "Claimed"]
  /\ pc'     = [pc EXCEPT ![p] = "status"]
  /\ UNCHANGED <<chain, userReceipt, claimRow, asked, found, snapshot, todo, current,
                 cursor, faults, restarts>>

(* The second insert: claim.order_id is unique, and only the process that
   inserted the user_receipt row comes this far. *)
InsertClaim(p) ==
  /\ pc[p] = "claim"
  /\ claimRow' = [claimRow EXCEPT ![current[p]] = TRUE]
  /\ pc'       = [pc EXCEPT ![p] = "status"]
  /\ UNCHANGED <<chain, userReceipt, status, asked, found, snapshot, todo, current,
                 cursor, faults, restarts>>

(* ImportReconciledClaimsUseCase.importReconciledClaim: the order's status *)
SetClaimed(p) ==
  /\ pc[p] = "status"
  /\ status' = [status EXCEPT ![current[p]] = "Claimed"]
  /\ GoThrough(p, todo[p] \ {current[p]})
  /\ UNCHANGED <<chain, userReceipt, claimRow, asked, found, snapshot, cursor, faults, restarts>>

(* An error of an order is counted and the loop goes on. *)
ImportFails(p) ==
  /\ \/ \E o \in todo[p] :
          /\ pc[p] = "import"
          /\ \/ userReceipt[o] /\ UNCHANGED faults
             \/ Fails("userReceipt")
          /\ GoThrough(p, todo[p] \ {o})
     \/ /\ pc[p] = "claim" /\ Fails("claim")
        /\ GoThrough(p, todo[p] \ {current[p]})
     \/ /\ pc[p] = "status" /\ Fails("status")
        /\ GoThrough(p, todo[p] \ {current[p]})
  /\ UNCHANGED <<chain, rows, asked, found, snapshot, cursor, restarts>>

(* A process stops and starts with an empty memory. *)
Restart(p) ==
  /\ restarts < MaxRestarts
  /\ restarts' = restarts + 1
  /\ GoThrough(p, {})
  /\ FetchDone(p)
  /\ cursor'   = [cursor EXCEPT ![p] = 0]
  /\ UNCHANGED <<chain, rows, faults>>

Init ==
  /\ height      = 0
  /\ claimedAt   = [o \in Orders |-> 0]
  /\ userReceipt = [o \in Orders |-> FALSE]
  /\ claimRow    = [o \in Orders |-> FALSE]
  /\ status      = [o \in Orders |-> "Owned"]
  /\ pc       = [p \in Procs |-> "idle"]
  /\ asked    = [p \in Procs |-> {}]
  /\ found    = [p \in Procs |-> {}]
  /\ snapshot = [p \in Procs |-> {}]
  /\ todo     = [p \in Procs |-> {}]
  /\ current  = [p \in Procs |-> NoOrder]
  /\ cursor   = [p \in Procs |-> 0]
  /\ faults   = MaxFaults
  /\ restarts = 0

ImportStep(p) ==
  \/ Start(p)
  \/ ReadOrders(p)
  \/ \E c \in Contracts : Query(p, c)
  \/ \E block \in 0 .. height : Advance(p, block)
  \/ Reconcile(p)
  \/ \E o \in Orders : InsertUserReceipt(p, o)
  \/ InsertClaim(p)
  \/ SetClaimed(p)
  \/ ImportFails(p)

Next ==
  \/ \E claims \in SUBSET Orders : Mine(claims)
  \/ \E p \in Procs : ImportStep(p) \/ FetchFails(p) \/ Restart(p)

Spec == Init /\ [][Next]_vars

(* The cron job runs again and again and its calls return or fail. *)
FairSpec == Spec /\ \A p \in Procs : WF_vars(ImportStep(p))
-----------------------------------------------------------------------------
(* Properties *)

TypeOK ==
  /\ height      \in Nat
  /\ claimedAt   \in [Orders -> Nat]
  /\ userReceipt \in [Orders -> BOOLEAN]
  /\ claimRow    \in [Orders -> BOOLEAN]
  /\ status      \in [Orders -> {"Owned", "Claimed"}]
  /\ pc       \in [Procs -> {"idle", "query", "receipts", "import", "claim", "status"}]
  /\ asked    \in [Procs -> SUBSET (Contracts \cup {Database})]
  /\ found    \in [Procs -> SUBSET Orders]
  /\ snapshot \in [Procs -> SUBSET Orders]
  /\ todo     \in [Procs -> SUBSET Orders]
  /\ current  \in [Procs -> Orders \cup {NoOrder}]
  /\ cursor   \in [Procs -> Nat]
  /\ faults   \in Nat
  /\ restarts \in Nat

(* The rows of an order agree with the chain wherever an import stops: a
   status with a claim row, a claim row with the receipt it refers to, a
   receipt with an event. *)
ImportedIsClaimed ==
  \A o \in Orders : /\ status[o] = "Claimed" => claimRow[o]
                    /\ claimRow[o] => userReceipt[o]
                    /\ userReceipt[o] => claimedAt[o] > 0

(* No later claim than that of o is on the chain. *)
Newest(o) == \A x \in Orders : claimedAt[x] <= claimedAt[o]

(* The import of the newest claim is tried again until its first row is in,
   whichever calls failed and however often the process was restarted: every
   run reads the block of the cursor once more. *)
NewestIsRetried ==
  \A o \in Orders :
    (claimedAt[o] > 0 /\ Newest(o)) ~> (userReceipt[o] \/ ~Newest(o))

(* A run has read the contract of an order and not found its claim, or it is
   done with the order without importing it. *)
PassesOver(p, o) ==
  \/ /\ pc[p] = "query" /\ pc'[p] = "query"
     /\ ContractOf[o] \in asked[p] \ asked'[p] /\ o \notin found'[p]
  \/ o \in found[p] /\ o \notin found'[p] \cup todo'[p]
  \/ o \in todo[p] /\ o \notin todo'[p]

(* No run passes over the newest claim, nor over any claim it found, until the
   first row of it is in: neither the cursor, which has moved before anything
   is imported, nor the orders, which were read at another time, leave it out.
   Only a failed call or a restart does. *)
NoClaimPassedOver ==
  [][\A p \in Procs, o \in Orders :
       (PassesOver(p, o) /\ claimedAt[o] > 0 /\ (Newest(o) \/ o \in found[p] \cup todo[p]))
         => userReceipt'[o] \/ faults' < faults \/ restarts' > restarts]_vars

(* The decision of ADR-002: events are captured from the blockchain and
   stored in the database (.docs/ADR-002:13). *)
EventsStored == \A o \in Orders : claimedAt[o] > 0 ~> claimRow[o]
=============================================================================
