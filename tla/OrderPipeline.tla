---------------------------- MODULE OrderPipeline ----------------------------
(***************************************************************************)
(* The purchase of KNN tokens with a PIX payment, from the order a user    *)
(* places to the on-chain transaction that locks or delivers the tokens.   *)
(*                                                                         *)
(* Three cron jobs of the server share the PostgreSQL tables:              *)
(*   clearing    reads the bank statement, inserts the payment of an order *)
(*               and confirms it (create-clearing.usecase.ts,              *)
(*               process-statement-transaction.usecase.ts);                *)
(*   settlement  dispatches the confirmed orders to the sale contract      *)
(*               (create-settlement.usecase.ts, dispatch-supply.usecase.ts)*)
(*   expiration  expires requested orders after a day                      *)
(*               (expire-orders.usecase.ts).                               *)
(*                                                                         *)
(* No use case opens a database transaction, so every statement sent to    *)
(* the database or to the chain is a step of its own, and a job works on   *)
(* what it read at the start.  A server process may stop between any two   *)
(* steps, and two of them run side by side while a deployment replaces     *)
(* one by the other.  What survives is the database and the chain.         *)
(***************************************************************************)
EXTENDS Integers, Sequences, FiniteSets

CONSTANTS
  Procs,           (* server processes                                      *)
  Orders,          (* orders users may place                                *)
  WalletOrders,    (* those with identifierType 'CW'; the rest are 'EA'     *)
  Txs,             (* PIX credits, by providerPaymentId                     *)
  OrderOf,         (* the order whose endToEndId a credit carries           *)
  Exact,           (* credits whose value is the order's total              *)
  NoOrder,         (* OrderOf[t] when no order has that endToEndId          *)
  NoTx,            (* payment[o] when the order has no payment row          *)
  PageSize,        (* statement entries per page of the banking API         *)
  CacheLimit,      (* MAX_CACHED_KEYS                                       *)
  SettlementBatch, (* DEFAULT_BATCH_SIZE of the settlement                  *)
  ExpirationBatch, (* orders the expiration job reads                       *)
  FaultKinds,      (* calls that may fail                                   *)
  MaxFaults,       (* bound: failed calls                                   *)
  MaxCrashes       (* bound: process restarts                               *)

AllFaultKinds == {"statement", "handler", "update", "expiration",
                  "verify", "reserve", "send", "timeout", "receipt"}

ASSUME ConstantsAssumption ==
  /\ IsFiniteSet(Orders)
  /\ WalletOrders \subseteq Orders
  /\ NoOrder \notin Orders
  /\ NoTx \notin Txs
  /\ OrderOf \in [Txs -> Orders \cup {NoOrder}]
  /\ Exact \subseteq Txs
  /\ PageSize \in Nat \ {0}
  /\ CacheLimit \in Nat
  /\ SettlementBatch \in Nat \ {0}
  /\ ExpirationBatch \in Nat \ {0}
  /\ FaultKinds \subseteq AllFaultKinds
  /\ MaxFaults \in Nat
  /\ MaxCrashes \in Nat

VARIABLES
  (* database *)
  status,      (* "order".status; "None" before the order is placed         *)
  payment,     (* payment.provider_id of the order's payment row            *)
  sequence,    (* payment.sequence, which is the nonce of the dispatch      *)
  dispatch,    (* the order's lock or claim row: none, reserved, hashed     *)
  receipt,     (* whether the order has a receipt row                       *)
  lastHash,    (* hash of the last RanToCompletion clearing, 0: none equal  *)
  (* world *)
  age,         (* 0 payable, 1 past expires_at, 2 a day past created_at     *)
  statement,   (* the bank statement, oldest credit first                   *)
  sent,        (* lockSupply/claim transactions mined with the order's nonce*)
  (* memory of a process: clearing *)
  clrPc, clrPage, clrHash, matched, handler, cache,
  (* memory of a process: settlement and expiration *)
  stlPc, stlOrder, batch, expiring,
  (* budgets *)
  faults, crashes

dbVars  == <<status, payment, sequence, dispatch, receipt, lastHash>>
clrVars == <<clrPc, clrPage, clrHash, matched, handler, cache>>
stlVars == <<stlPc, stlOrder, batch>>
world   == <<age, statement, sent>>
budget  == <<faults, crashes>>
vars    == <<dbVars, world, clrVars, stlVars, expiring, budget>>

Statuses   == {"None", "Requested", "Confirmed", "Locked", "Claimed", "Expired"}
Settled    == {"Locked", "Claimed"}
Copies     == {"Requested", "Expired"}
HandlerPcs == {"idle", "expire", "requote", "pay", "confirm", "credited", "skipped"}
                \cup Copies
ClearingPcs   == {"idle", "page", "last", "faulted"}
SettlementPcs == {"idle", "next", "verify", "reserve", "send", "receipt",
                  "hash", "status"}
-----------------------------------------------------------------------------
(* Helpers *)

(* One of the calls of this kind fails; the caller's catch decides what
   that means. *)
Fails(kind) ==
  /\ kind \in FaultKinds
  /\ faults > 0
  /\ faults' = faults - 1

(* What `limit` returns of the matching rows: no query here has an ORDER BY. *)
BatchesOf(rows, limit) ==
  {b \in SUBSET rows : \/ b = rows /\ Cardinality(b) =< limit
                       \/ Cardinality(b) = limit}

(* Order.isExpired: the status is that of the copy in memory, the clock is not. *)
IsExpired(copy, o) ==
  \/ copy = "Expired"
  \/ copy = "Requested" /\ age[o] >= 1

(* The update at the end of PersistableOrderStatusTransitionDbAdapter.create:
   it does not look at the status it replaces. *)
Transition(o, to) == status' = [status EXCEPT ![o] = to]
-----------------------------------------------------------------------------
(* Users, bank and clock *)

(* CreateBrazilianPixOrderUseCase.execute *)
CreateOrder(o) ==
  /\ status[o] = "None"
  /\ Transition(o, "Requested")
  /\ UNCHANGED <<payment, sequence, dispatch, receipt, lastHash, world,
                 clrVars, stlVars, expiring, budget>>

(* A user pays the PIX code of an order that exists, once or more often, or
   sends money with an id the server never issued. *)
Pay(t) ==
  /\ \A i \in DOMAIN statement : statement[i] # t
  /\ OrderOf[t] # NoOrder => status[OrderOf[t]] # "None"
  /\ statement' = Append(statement, t)
  /\ UNCHANGED <<dbVars, age, sent, clrVars, stlVars, expiring, budget>>

(* Fifteen minutes, then a day, pass for an order. *)
Age(o) ==
  /\ status[o] # "None" /\ age[o] < 2
  /\ age' = [age EXCEPT ![o] = @ + 1]
  /\ UNCHANGED <<dbVars, statement, sent, clrVars, stlVars, expiring, budget>>

(* The statement's date range is part of its hash: at midnight no hash of an
   earlier day can be equal any more. *)
NewDay ==
  /\ lastHash # 0 \/ \E p \in Procs : clrHash[p] # 0
  /\ lastHash' = 0
  /\ clrHash' = [p \in Procs |-> 0]
  /\ UNCHANGED <<status, payment, sequence, dispatch, receipt, world, clrPc,
                 clrPage, matched, handler, cache, stlVars, expiring, budget>>
-----------------------------------------------------------------------------
(* Clearing: pages of the statement *)

PageIndices(k) == {i \in DOMAIN statement : i > k * PageSize /\ i <= (k + 1) * PageSize}
PageTxs(k)     == {statement[i] : i \in PageIndices(k)}
IsLastPage(k)  == Len(statement) <= (k + 1) * PageSize

Acceptable_AnyAmount(t) ==
  /\ OrderOf[t] # NoOrder
  /\ payment[OrderOf[t]] = NoTx
  /\ status[OrderOf[t]] \in {"Requested", "Expired"}

(* The checks of ProcessStatementTransactionUseCase.execute on the row of the
   order: unpaid, with the amount of the credit, and of a payable status *)
Acceptable(t) ==
  /\ OrderOf[t] # NoOrder
  /\ payment[OrderOf[t]] = NoTx
  /\ t \in Exact
  /\ status[OrderOf[t]] \in Copies

(* One page: the orders of the credits not cached yet are read together, and
   each credit with a payable order waits with the copy of it; the others are
   cached at once. *)
OpenPage(p, k) ==
  LET accepted == {t \in PageTxs(k) \ cache[p] : Acceptable(t)}
  IN /\ handler' = [handler EXCEPT ![p] =
                      [t \in Txs |-> IF t \in accepted THEN status[OrderOf[t]] ELSE "idle"]]
     /\ cache'   = [cache EXCEPT ![p] = @ \cup (PageTxs(k) \ accepted)]
     /\ clrPage' = [clrPage EXCEPT ![p] = k]
     /\ clrPc'   = [clrPc EXCEPT ![p] = IF IsLastPage(k) THEN "last" ELSE "page"]

PageSettled(p) == \A t \in Txs : handler[p][t] \in {"idle", "credited", "skipped"}

(* CreateClearingUseCase.execute, to the orders of the first page.  The hash of
   the statement is told apart by its number of entries. *)
ClearingStart(p) ==
  /\ clrPc[p] = "idle"
  /\ statement # <<>>
  /\ Len(statement) # lastHash
  /\ clrHash' = [clrHash EXCEPT ![p] = Len(statement)]
  /\ matched' = [matched EXCEPT ![p] = FALSE]
  /\ OpenPage(p, 0)
  /\ UNCHANGED <<dbVars, world, stlVars, expiring, budget>>

ClearingNextPage_Backwards(p) ==
  /\ clrPc[p] = "page" /\ PageSettled(p)
  /\ OpenPage(p, clrPage[p] - 1)
  /\ UNCHANGED <<dbVars, world, clrHash, matched, stlVars, expiring, budget>>

(* processStatement: fetchNext and the next round of the loop *)
ClearingNextPage(p) ==
  /\ clrPc[p] = "page" /\ PageSettled(p)
  /\ OpenPage(p, clrPage[p] + 1)
  /\ UNCHANGED <<dbVars, world, clrHash, matched, stlVars, expiring, budget>>

(* The answer arrives: in one turn of the event loop all handlers of the page
   look at the clock.  The copies may be out of date by now. *)
ClearingCheck(p) ==
  /\ \E t \in Txs : handler[p][t] \in Copies
  /\ handler' = [handler EXCEPT ![p] =
                   [t \in Txs |-> IF @[t] \in Copies
                                  THEN IF IsExpired(@[t], OrderOf[t]) THEN "expire" ELSE "pay"
                                  ELSE @[t]]]
  /\ UNCHANGED <<dbVars, world, clrPc, clrPage, clrHash, matched, cache, stlVars, expiring,
                 budget>>

(* processStatement: the next page or its orders cannot be read *)
ClearingFault(p) ==
  /\ clrPc[p] = "page" /\ PageSettled(p)
  /\ Fails("statement")
  /\ clrPc' = [clrPc EXCEPT ![p] = "faulted"]
  /\ UNCHANGED <<dbVars, world, clrPage, clrHash, matched, handler, cache,
                 stlVars, expiring, crashes>>

HashLeft_EvenFaulted(p) == IF matched[p] THEN clrHash[p] ELSE lastHash

(* A clearing without payments is deleted; one that ran through every page
   with some leaves its hash behind. *)
HashLeft(p) == IF clrPc[p] = "last" /\ matched[p] THEN clrHash[p] ELSE lastHash

(* createClearing after processStatement: the clearing is deleted or updated,
   and the next execution empties a cache that grew too large. *)
ClearingFinish(p) ==
  /\ clrPc[p] \in {"last", "faulted"} /\ PageSettled(p)
  /\ \/ /\ lastHash' = HashLeft(p)
        /\ UNCHANGED faults
     \/ /\ Fails("update")
        /\ UNCHANGED lastHash
  /\ cache'   = [cache EXCEPT ![p] = IF Cardinality(@) > CacheLimit THEN {} ELSE @]
  /\ handler' = [handler EXCEPT ![p] = [t \in Txs |-> "idle"]]
  /\ clrPc'   = [clrPc EXCEPT ![p] = "idle"]
  /\ clrPage' = [clrPage EXCEPT ![p] = 0]
  /\ clrHash' = [clrHash EXCEPT ![p] = 0]
  /\ matched' = [matched EXCEPT ![p] = FALSE]
  /\ UNCHANGED <<status, payment, sequence, dispatch, receipt, world, stlVars,
                 expiring, crashes>>
-----------------------------------------------------------------------------
(* Clearing: one credit (ProcessStatementTransactionUseCase.execute) *)

Goto(p, t, pc) == handler' = [handler EXCEPT ![p][t] = pc]

(* An expired order is written back as Expired before it is quoted again. *)
HandlerExpire(p, t) ==
  /\ handler[p][t] = "expire"
  /\ Transition(OrderOf[t], "Expired")
  /\ Goto(p, t, "requote")
  /\ UNCHANGED <<payment, sequence, dispatch, receipt, lastHash, world, clrPc,
                 clrPage, clrHash, matched, cache, stlVars, expiring, budget>>

(* The new quote and the update of the order's amounts. *)
HandlerRequote(p, t) ==
  /\ handler[p][t] = "requote"
  /\ Goto(p, t, "pay")
  /\ UNCHANGED <<dbVars, world, clrPc, clrPage, clrHash, matched, cache,
                 stlVars, expiring, budget>>

PaymentInsertable_Always(t) == t \in Txs

(* The payment row: payment.order_id and payment.provider_id are unique. *)
PaymentInsertable(t) ==
  /\ payment[OrderOf[t]] = NoTx
  /\ \A o \in Orders : payment[o] # t

HandlerPay(p, t) ==
  /\ handler[p][t] = "pay"
  /\ PaymentInsertable(t)
  /\ payment'  = [payment EXCEPT ![OrderOf[t]] = t]
  /\ sequence' = [sequence EXCEPT ![OrderOf[t]] =
                    1 + Cardinality({o \in Orders : payment[o] # NoTx})]
  /\ Goto(p, t, "confirm")
  /\ UNCHANGED <<status, dispatch, receipt, lastHash, world, clrPc, clrPage,
                 clrHash, matched, cache, stlVars, expiring, budget>>

(* The order becomes Confirmed; back in processStatementTransaction the
   credit is cached and recorded in the clearing. *)
HandlerConfirm(p, t) ==
  /\ handler[p][t] = "confirm"
  /\ Transition(OrderOf[t], "Confirmed")
  /\ Goto(p, t, "credited")
  /\ cache'   = [cache EXCEPT ![p] = @ \cup {t}]
  /\ matched' = [matched EXCEPT ![p] = TRUE]
  /\ UNCHANGED <<payment, sequence, dispatch, receipt, lastHash, world, clrPc,
                 clrPage, clrHash, stlVars, expiring, budget>>

(* Any error is caught and logged as "already processed", whatever it was:
   the unique constraint, or a call that failed.  The credit is cached. *)
HandlerSkip(p, t) ==
  /\ \/ /\ handler[p][t] = "pay" /\ ~PaymentInsertable(t)
        /\ UNCHANGED faults
     \/ /\ handler[p][t] \in {"expire", "requote", "pay", "confirm"}
        /\ Fails("handler")
  /\ Goto(p, t, "skipped")
  /\ cache' = [cache EXCEPT ![p] = @ \cup {t}]
  /\ UNCHANGED <<dbVars, world, clrPc, clrPage, clrHash, matched, stlVars,
                 expiring, crashes>>
-----------------------------------------------------------------------------
(* Settlement *)

(* FetchableOrderDbAdapter.fetchPendingSettlement *)
PendingSettlement ==
  {o \in Orders : /\ status[o] = "Confirmed"
                  /\ payment[o] # NoTx
                  /\ dispatch[o] = "none"
                  /\ ~receipt[o]}

(* CreateSettlementUseCase.execute *)
SettlementFetch(p) ==
  /\ stlPc[p] = "idle"
  /\ PendingSettlement # {}
  /\ \E b \in BatchesOf(PendingSettlement, SettlementBatch) :
       batch' = [batch EXCEPT ![p] = b]
  /\ stlPc' = [stlPc EXCEPT ![p] = "next"]
  /\ UNCHANGED <<dbVars, world, clrVars, stlOrder, expiring, budget>>

(* The loop takes the orders of the batch by payment sequence. *)
SettlementNext(p) ==
  /\ stlPc[p] = "next"
  /\ \E o \in batch[p] :
       /\ \A x \in batch[p] : sequence[o] <= sequence[x]
       /\ stlOrder' = [stlOrder EXCEPT ![p] = o]
       /\ batch'    = [batch EXCEPT ![p] = @ \ {o}]
  /\ stlPc' = [stlPc EXCEPT ![p] = "verify"]
  /\ UNCHANGED <<dbVars, world, clrVars, expiring, budget>>

LeaveOrder_KeepsRunning(p) ==
  /\ stlPc'    = [stlPc EXCEPT ![p] = "next"]
  /\ stlOrder' = [stlOrder EXCEPT ![p] = NoOrder]

(* After an order, settled or not: the next of the batch, or the end. *)
LeaveOrder(p) ==
  /\ stlPc'    = [stlPc EXCEPT ![p] = IF batch[p] = {} THEN "idle" ELSE "next"]
  /\ stlOrder' = [stlOrder EXCEPT ![p] = NoOrder]

At(p, here, there) ==
  /\ stlPc[p] = here
  /\ stlPc' = [stlPc EXCEPT ![p] = there]

SettlementVerify_SendsFirst(p) ==
  /\ At(p, "verify", "send")
  /\ UNCHANGED <<dbVars, world, clrVars, stlOrder, batch, expiring, budget>>

(* LockSupplyPort.verify and ClaimSupplyPort.verify estimate the gas of the
   transaction, which changes nothing. *)
SettlementVerify(p) ==
  /\ At(p, "verify", "reserve")
  /\ UNCHANGED <<dbVars, world, clrVars, stlOrder, batch, expiring, budget>>

SettlementReserve_Duplicate(p) ==
  /\ At(p, "reserve", "send")
  /\ dispatch' = [dispatch EXCEPT ![stlOrder[p]] = "reserved"]
  /\ UNCHANGED <<status, payment, sequence, receipt, lastHash, world, clrVars,
                 stlOrder, batch, expiring, budget>>

(* The lock or claim row: lock.order_id and claim.order_id are unique. *)
SettlementReserve(p) ==
  /\ At(p, "reserve", "send")
  /\ dispatch[stlOrder[p]] = "none"
  /\ dispatch' = [dispatch EXCEPT ![stlOrder[p]] = "reserved"]
  /\ UNCHANGED <<status, payment, sequence, receipt, lastHash, world, clrVars,
                 stlOrder, batch, expiring, budget>>

(* lockSupply or claim of the sale contract, and the wait until it is mined *)
SettlementSend(p) ==
  /\ At(p, "send", "receipt")
  /\ sent' = [sent EXCEPT ![stlOrder[p]] = @ + 1]
  /\ UNCHANGED <<dbVars, age, statement, clrVars, stlOrder, batch, expiring, budget>>

SettlementReceipt_NoHash(p) ==
  /\ At(p, "receipt", "status")
  /\ receipt' = [receipt EXCEPT ![stlOrder[p]] = TRUE]
  /\ UNCHANGED <<status, payment, sequence, dispatch, lastHash, world, clrVars,
                 stlOrder, batch, expiring, budget>>

(* The receipt row: unique by order, and only the owner of the lock or claim
   row comes this far *)
SettlementReceipt(p) ==
  /\ At(p, "receipt", "hash")
  /\ receipt' = [receipt EXCEPT ![stlOrder[p]] = TRUE]
  /\ UNCHANGED <<status, payment, sequence, dispatch, lastHash, world, clrVars,
                 stlOrder, batch, expiring, budget>>

(* The transaction hash of the lock or claim row *)
SettlementHash(p) ==
  /\ At(p, "hash", "status")
  /\ dispatch' = [dispatch EXCEPT ![stlOrder[p]] = "hashed"]
  /\ UNCHANGED <<status, payment, sequence, receipt, lastHash, world, clrVars,
                 stlOrder, batch, expiring, budget>>

(* ProcessOrderSettlementUseCase.execute: the order's final status *)
SettlementStatus(p) ==
  /\ stlPc[p] = "status"
  /\ Transition(stlOrder[p], IF stlOrder[p] \in WalletOrders THEN "Claimed" ELSE "Locked")
  /\ LeaveOrder(p)
  /\ UNCHANGED <<payment, sequence, dispatch, receipt, lastHash, world, clrVars,
                 batch, expiring, budget>>

(* An error is logged and the loop goes on with the next order: the gas
   estimate or a database call fails, the row exists already, the node
   rejects the transaction. *)
SettlementSkip(p) ==
  /\ \/ /\ stlPc[p] = "reserve" /\ dispatch[stlOrder[p]] # "none"
        /\ UNCHANGED faults
     \/ stlPc[p] = "verify" /\ Fails("verify")
     \/ stlPc[p] = "reserve" /\ Fails("reserve")
     \/ stlPc[p] = "send" /\ Fails("send")
     \/ stlPc[p] \in {"receipt", "hash", "status"} /\ Fails("receipt")
  /\ LeaveOrder(p)
  /\ UNCHANGED <<dbVars, world, clrVars, batch, expiring, crashes>>

(* The transaction is mined but the node's answer never comes back. *)
SettlementTimeout(p) ==
  /\ stlPc[p] = "send" /\ Fails("timeout")
  /\ sent' = [sent EXCEPT ![stlOrder[p]] = @ + 1]
  /\ LeaveOrder(p)
  /\ UNCHANGED <<dbVars, age, statement, clrVars, batch, expiring, crashes>>
-----------------------------------------------------------------------------
(* Expiration *)

ExpirationFetch_AnyStatus(p) ==
  /\ expiring[p] = {}
  /\ \E o \in Orders : age[o] >= 1
  /\ expiring' = [expiring EXCEPT ![p] = {o \in Orders : age[o] >= 1}]
  /\ UNCHANGED <<dbVars, world, clrVars, stlVars, budget>>

(* ExpireOrdersUseCase.execute: some of the requested orders are read.  Those
   that are payable still are not followed: their copies cannot be a day old
   when the answer is looked at, more than 23 hours would have to pass. *)
ExpirationFetch(p) ==
  /\ expiring[p] = {}
  /\ \E b \in BatchesOf({o \in Orders : status[o] = "Requested"}, ExpirationBatch) :
       /\ \E o \in b : age[o] >= 1
       /\ expiring' = [expiring EXCEPT ![p] = {o \in b : age[o] >= 1}]
  /\ UNCHANGED <<dbVars, world, clrVars, stlVars, budget>>

(* The filter: the job goes on with the orders that are a day old by now. *)
ADayOld(o) == IsExpired("Requested", o) /\ age[o] = 2

ExpirationFilter(p) ==
  /\ \E o \in expiring[p] : ~ADayOld(o)
  /\ expiring' = [expiring EXCEPT ![p] = {o \in @ : ADayOld(o)}]
  /\ UNCHANGED <<dbVars, world, clrVars, stlVars, budget>>

(* The transitions of the orders that are left run concurrently. *)
ExpirationWrite(p, o) ==
  /\ o \in expiring[p]
  /\ \A x \in expiring[p] : ADayOld(x)
  /\ \/ /\ Transition(o, "Expired")
        /\ UNCHANGED faults
     \/ /\ Fails("expiration")
        /\ UNCHANGED status
  /\ expiring' = [expiring EXCEPT ![p] = @ \ {o}]
  /\ UNCHANGED <<payment, sequence, dispatch, receipt, lastHash, world, clrVars,
                 stlVars, crashes>>
-----------------------------------------------------------------------------
(* A process stops, and starts with an empty memory. *)
Crash(p) ==
  /\ crashes < MaxCrashes
  /\ crashes'  = crashes + 1
  /\ clrPc'    = [clrPc EXCEPT ![p] = "idle"]
  /\ clrPage'  = [clrPage EXCEPT ![p] = 0]
  /\ clrHash'  = [clrHash EXCEPT ![p] = 0]
  /\ matched'  = [matched EXCEPT ![p] = FALSE]
  /\ handler'  = [handler EXCEPT ![p] = [t \in Txs |-> "idle"]]
  /\ cache'    = [cache EXCEPT ![p] = {}]
  /\ stlPc'    = [stlPc EXCEPT ![p] = "idle"]
  /\ stlOrder' = [stlOrder EXCEPT ![p] = NoOrder]
  /\ batch'    = [batch EXCEPT ![p] = {}]
  /\ expiring' = [expiring EXCEPT ![p] = {}]
  /\ UNCHANGED <<dbVars, world, faults>>

Init ==
  /\ status   = [o \in Orders |-> "None"]
  /\ payment  = [o \in Orders |-> NoTx]
  /\ sequence = [o \in Orders |-> 0]
  /\ dispatch = [o \in Orders |-> "none"]
  /\ receipt  = [o \in Orders |-> FALSE]
  /\ lastHash = 0
  /\ age      = [o \in Orders |-> 0]
  /\ statement = <<>>
  /\ sent     = [o \in Orders |-> 0]
  /\ clrPc    = [p \in Procs |-> "idle"]
  /\ clrPage  = [p \in Procs |-> 0]
  /\ clrHash  = [p \in Procs |-> 0]
  /\ matched  = [p \in Procs |-> FALSE]
  /\ handler  = [p \in Procs |-> [t \in Txs |-> "idle"]]
  /\ cache    = [p \in Procs |-> {}]
  /\ stlPc    = [p \in Procs |-> "idle"]
  /\ stlOrder = [p \in Procs |-> NoOrder]
  /\ batch    = [p \in Procs |-> {}]
  /\ expiring = [p \in Procs |-> {}]
  /\ faults   = MaxFaults
  /\ crashes  = 0

HandlerStep(p, t) ==
  \/ HandlerExpire(p, t)
  \/ HandlerRequote(p, t)
  \/ HandlerPay(p, t)
  \/ HandlerConfirm(p, t)
  \/ HandlerSkip(p, t)

ClearingStep(p) ==
  \/ ClearingStart(p)
  \/ ClearingNextPage(p)
  \/ ClearingCheck(p)
  \/ ClearingFinish(p)
  \/ \E t \in Txs : HandlerStep(p, t)

SettlementStep(p) ==
  \/ SettlementFetch(p)
  \/ SettlementNext(p)
  \/ SettlementVerify(p)
  \/ SettlementReserve(p)
  \/ SettlementSend(p)
  \/ SettlementReceipt(p)
  \/ SettlementHash(p)
  \/ SettlementStatus(p)
  \/ SettlementSkip(p)

ExpirationStep(p) ==
  \/ ExpirationFetch(p)
  \/ ExpirationFilter(p)
  \/ \E o \in Orders : ExpirationWrite(p, o)

Next ==
  \/ \E o \in Orders : CreateOrder(o) \/ Age(o)
  \/ \E t \in Txs : Pay(t)
  \/ NewDay
  \/ \E p \in Procs : \/ ClearingStep(p)
                      \/ ClearingFault(p)
                      \/ SettlementStep(p)
                      \/ SettlementTimeout(p)
                      \/ ExpirationStep(p)
                      \/ Crash(p)

Spec == Init /\ [][Next]_vars

(* The cron jobs of a process run again and again, and every call they make
   returns or fails.  Users, the bank and the clock owe nothing. *)
Fairness ==
  \A p \in Procs : /\ WF_vars(ClearingStep(p))
                   /\ WF_vars(SettlementStep(p))
                   /\ WF_vars(ExpirationStep(p))

FairSpec == Spec /\ Fairness
-----------------------------------------------------------------------------
(* Properties *)

TypeOK ==
  /\ status    \in [Orders -> Statuses]
  /\ payment   \in [Orders -> Txs \cup {NoTx}]
  /\ sequence  \in [Orders -> Nat]
  /\ dispatch  \in [Orders -> {"none", "reserved", "hashed"}]
  /\ receipt   \in [Orders -> BOOLEAN]
  /\ lastHash  \in Nat
  /\ age       \in [Orders -> 0..2]
  /\ statement \in Seq(Txs)
  /\ sent      \in [Orders -> Nat]
  /\ clrPc     \in [Procs -> ClearingPcs]
  /\ clrPage   \in [Procs -> Nat]
  /\ clrHash   \in [Procs -> Nat]
  /\ matched   \in [Procs -> BOOLEAN]
  /\ handler   \in [Procs -> [Txs -> HandlerPcs]]
  /\ cache     \in [Procs -> SUBSET Txs]
  /\ stlPc     \in [Procs -> SettlementPcs]
  /\ stlOrder  \in [Procs -> Orders \cup {NoOrder}]
  /\ batch     \in [Procs -> SUBSET Orders]
  /\ expiring  \in [Procs -> SUBSET Orders]
  /\ faults    \in Nat
  /\ crashes   \in Nat

(* The tokens of an order are locked or delivered by at most one transaction,
   although the job that sends it may die before it records anything and a
   second process may work on the same batch: dispatch-supply.usecase.ts
   inserts the unique lock or claim row before it sends. *)
DispatchedOnce == \A o \in Orders : sent[o] <= 1

(* Tokens leave the contract only for an order with a payment, made by a
   credit with its own endToEndId and its exact total, whatever statuses the
   concurrent jobs wrote over each other in between. *)
DispatchBacked ==
  \A o \in Orders : sent[o] > 0 =>
    /\ payment[o] \in Exact
    /\ OrderOf[payment[o]] = o
    /\ dispatch[o] # "none"

(* The rows a settlement leaves behind agree with the chain at every point it
   may stop: a settled status has a transaction hash, a hash has a receipt,
   a receipt has a mined transaction. *)
RecordsAgree ==
  \A o \in Orders :
    /\ status[o] \in Settled => dispatch[o] = "hashed"
    /\ dispatch[o] = "hashed" => receipt[o]
    /\ receipt[o] => sent[o] = 1

(* An order is never confirmed again once its dispatch began, so it cannot
   return to the settlement's queue with a row it does not know of. *)
ConfirmedBeforeDispatch ==
  [][\A o \in Orders : status'[o] = "Confirmed" /\ status[o] # "Confirmed"
                         => dispatch[o] = "none" /\ payment[o] # NoTx]_vars

(* A clearing that has read the order unpaid has not looked at the clock yet. *)
Unchecked(o) == \E p \in Procs, t \in Txs : OrderOf[t] = o /\ handler[p][t] \in Copies

(* A write of "Expired" may come for an order that was read as unpaid. *)
StaleExpiry(o) ==
  \E p \in Procs : \/ o \in expiring[p]
                   \/ \E t \in Txs : /\ OrderOf[t] = o
                                     /\ handler[p][t] \in {"expire"} \cup Copies

(* The order is confirmed, and no job holds an older version of it. *)
Safe(o) == status[o] \in {"Confirmed"} \cup Settled /\ ~StaleExpiry(o)

(* What an order that is confirmed before expires_at can count on: it is safe,
   unless a clearing that read it before the confirmation has yet to compare
   its copy with the clock; and what is safe stays so, no expiration and no
   clearing, of its own credit or another, gets to taking the status back.
   The clearing of the exception is of another process (SoleProcessConfirms). *)
ConfirmedInTimeStays ==
  /\ [](\A o \in Orders : status[o] = "Confirmed" /\ age[o] = 0 /\ ~Unchecked(o) => Safe(o))
  /\ [][\A o \in Orders : Safe(o) => Safe(o)']_vars

(* What order_status_transition says of an order the clearing writes back:
   "[clearing] paid after expiration" (process-statement-transaction.usecase.ts:103). *)
ExpiredIsPaidLate ==
  \A o \in Orders :
    [](status[o] = "Confirmed" /\ age[o] = 0 => [](status[o] # "Expired"))

(* The pipeline implements the promise of module Fulfilment. *)
Promise == INSTANCE Fulfilment
  WITH credited <- payment, delivered <- sent, acknowledged <- receipt
PipelineFulfils == Promise!Spec

(* The credits on the statement. *)
OnStatement(t) == \E i \in DOMAIN statement : statement[i] = t

(* A user who paid the exact total of an order gets it credited, even if the
   page with the credit could not be read, the process was restarted in the
   middle of it, or the statement grew while it was read.  A credit stays on
   the statement and a payment in its table: what holds again and again here
   says that the one leads to the other. *)
PaidIsCredited ==
  \A t \in Exact :
    []<>(OnStatement(t) /\ OrderOf[t] # NoOrder => payment[OrderOf[t]] # NoTx)

(* A confirmed order without a row, that no stale expiry threatens and no
   restart interrupts, is settled, even if the gas estimate failed at first
   and other orders fill the batches. *)
ConfirmedIsSettled ==
  \A o \in Orders :
    (/\ status[o] = "Confirmed" /\ dispatch[o] = "none"
     /\ ~StaleExpiry(o)
     /\ crashes = MaxCrashes) ~> status[o] \in Settled

(* No call of a handler has failed so far. *)
HandlersSucceed == "handler" \notin FaultKinds \/ faults = MaxFaults

(* The clearing will not look at a credit again: a process has it in its cache,
   or it belongs to the statement whose hash the last clearing left. *)
PutAside(t) ==
  \/ \E p \in Procs : t \in cache[p]
  \/ \E i \in DOMAIN statement : i <= lastHash /\ statement[i] = t

(* A credit that can pay an order is not put aside while the order has no
   payment, though pages fail, the statement grows between them, and processes
   work on it together and stop in the middle.  Only the failed call of a
   handler does that. *)
NothingShelved ==
  HandlersSucceed =>
    \A t \in Exact :
      (OrderOf[t] # NoOrder /\ PutAside(t)) => payment[OrderOf[t]] # NoTx

(* What the log says of a credit it skips: "already processed", that is, its
   order has a payment (process-statement-transaction.usecase.ts:183-189). *)
SkippedWasProcessed ==
  \A p \in Procs, t \in Txs :
    handler[p][t] = "skipped" => payment[OrderOf[t]] # NoTx
=============================================================================
