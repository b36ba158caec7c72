------------------------- MODULE OrderPipeline_proofs -------------------------
(***************************************************************************)
(* Proofs about module OrderPipeline, for any number of processes, orders  *)
(* and credits, any page and batch sizes, and any faults and crashes.      *)
(*                                                                         *)
(* The argument: a settlement comes to an order's transaction only through *)
(* the insertion of the order's lock or claim row, which succeeds once and *)
(* is never undone, so the process that inserted it owns every later step  *)
(* of that dispatch, and when it stops nobody takes them over.             *)
(*                                                                         *)
(* Further down: no expiration or handler threatens an order once it was   *)
(* confirmed in time, unless a process still holds an unpaid copy of it and*)
(* has not looked at the clock; and a clearing turns its page, or leaves   *)
(* its hash, only when every credit before it that can pay an order has,   *)
(* unless the call of a handler failed.                                    *)
(***************************************************************************)
EXTENDS OrderPipeline, FiniteSetTheorems, TLAPS

(* Steps of a settlement that has inserted the row of the order it holds *)
Owning == {"send", "receipt", "hash", "status"}

(* Payments are exact and go to the order their credit names; a handler only
   works on a credit that may become such a payment. *)
PaymentsExact ==
  /\ \A o \in Orders : payment[o] # NoTx => /\ payment[o] \in Exact
                                            /\ OrderOf[payment[o]] = o
  /\ \A p \in Procs, t \in Txs :
       /\ handler[p][t] \notin {"idle", "credited", "skipped"} =>
            t \in Exact /\ OrderOf[t] \in Orders
       /\ handler[p][t] = "confirm" => payment[OrderOf[t]] # NoTx

(* Whatever a settlement may come to handle has a payment. *)
QueuePaid ==
  /\ \A o \in Orders : /\ status[o] = "Confirmed" => payment[o] # NoTx
                       /\ dispatch[o] # "none" => payment[o] # NoTx
  /\ \A p \in Procs : /\ \A o \in batch[p] : payment[o] # NoTx
                      /\ stlPc[p] \notin {"idle", "next"} =>
                           /\ stlOrder[p] \in Orders
                           /\ payment[stlOrder[p]] # NoTx

(* The rows of an order and the chain *)
RowsOrdered ==
  \A o \in Orders :
    /\ sent[o] \in {0, 1}
    /\ sent[o] = 1 => dispatch[o] # "none"
    /\ receipt[o] => sent[o] = 1
    /\ dispatch[o] = "hashed" => receipt[o]
    /\ status[o] \in Settled => dispatch[o] = "hashed"

(* What the owner of a row knows at each of its steps, nobody else being able
   to change it *)
OwnerKnows ==
  /\ \A p \in Procs :
       /\ stlPc[p] = "send" => /\ dispatch[stlOrder[p]] = "reserved"
                               /\ sent[stlOrder[p]] = 0
       /\ stlPc[p] = "receipt" => /\ dispatch[stlOrder[p]] = "reserved"
                                  /\ sent[stlOrder[p]] = 1
                                  /\ ~receipt[stlOrder[p]]
       /\ stlPc[p] = "hash" => receipt[stlOrder[p]]
       /\ stlPc[p] = "status" => dispatch[stlOrder[p]] = "hashed"
  /\ \A p, q \in Procs :
       p # q /\ stlPc[p] \in Owning /\ stlPc[q] \in Owning
         => stlOrder[p] # stlOrder[q]

IInv == TypeOK /\ PaymentsExact /\ QueuePaid /\ RowsOrdered /\ OwnerKnows
-----------------------------------------------------------------------------
(* Type correctness *)

(* Opening a page touches the memory of one process: it gives a handler to
   acceptable credits only, with the status of their order. *)
LEMMA PageOpened ==
  ASSUME TypeOK, NEW p \in Procs, NEW k \in Nat, OpenPage(p, k)
  PROVE  /\ handler' \in [Procs -> [Txs -> HandlerPcs]]
         /\ cache'   \in [Procs -> SUBSET Txs]
         /\ clrPage' \in [Procs -> Nat]
         /\ clrPc'   \in [Procs -> ClearingPcs]
         /\ \A q \in Procs \ {p} : handler'[q] = handler[q]
         /\ \A t \in Txs : \/ handler'[p][t] = "idle"
                           \/ /\ Acceptable(t) /\ handler'[p][t] \in Copies
                              /\ handler'[p][t] = status[OrderOf[t]]
<1>1. PageTxs(k) \subseteq Txs
  BY DEF TypeOK, PageTxs, PageIndices
<1>. DEFINE accepted == {t \in PageTxs(k) \ cache[p] : Acceptable(t)}
            row == [t \in Txs |-> IF t \in accepted THEN status[OrderOf[t]] ELSE "idle"]
<1>2. /\ handler' = [handler EXCEPT ![p] = row]
      /\ cache'   = [cache EXCEPT ![p] = @ \cup (PageTxs(k) \ accepted)]
      /\ clrPage' = [clrPage EXCEPT ![p] = k]
      /\ clrPc'   = [clrPc EXCEPT ![p] = IF IsLastPage(k) THEN "last" ELSE "page"]
  BY DEF OpenPage
<1>3. \A t \in Txs : \/ row[t] = "idle"
                    \/ /\ Acceptable(t) /\ row[t] \in Copies
                       /\ row[t] = status[OrderOf[t]]
  BY DEF Acceptable
<1>4. row \in [Txs -> HandlerPcs]
  BY <1>3 DEF HandlerPcs
<1>. HIDE DEF row, accepted
<1>5. /\ handler' \in [Procs -> [Txs -> HandlerPcs]]
      /\ handler'[p] = row
      /\ \A q \in Procs \ {p} : handler'[q] = handler[q]
  BY <1>2, <1>4 DEF TypeOK
<1>6. cache' \in [Procs -> SUBSET Txs]
  BY <1>1, <1>2 DEF TypeOK
<1>7. clrPage' \in [Procs -> Nat] /\ clrPc' \in [Procs -> ClearingPcs]
  BY <1>2 DEF TypeOK, ClearingPcs
<1>. QED  BY <1>3, <1>5, <1>6, <1>7

(* With the answer in hand a process decides about the copies it holds. *)
LEMMA HandlersChecked ==
  ASSUME TypeOK, NEW p \in Procs, ClearingCheck(p)
  PROVE  /\ handler' \in [Procs -> [Txs -> HandlerPcs]]
         /\ \A q \in Procs \ {p} : handler'[q] = handler[q]
         /\ \A t \in Txs :
              IF handler[p][t] \in Copies
              THEN /\ handler'[p][t] \in {"expire", "pay"}
                   /\ handler'[p][t] = "expire" => IsExpired(handler[p][t], OrderOf[t])
              ELSE handler'[p][t] = handler[p][t]
<1>. DEFINE pc(t) == IF handler[p][t] \in Copies
                     THEN IF IsExpired(handler[p][t], OrderOf[t]) THEN "expire" ELSE "pay"
                     ELSE handler[p][t]
            row == [t \in Txs |-> pc(t)]
<1>1. handler' = [handler EXCEPT ![p] = row]
  BY DEF ClearingCheck
<1>2. \A t \in Txs : pc(t) \in HandlerPcs
  BY DEF TypeOK, HandlerPcs
<1>. HIDE DEF pc
<1>3. /\ handler' \in [Procs -> [Txs -> HandlerPcs]]
      /\ \A q \in Procs \ {p} : handler'[q] = handler[q]
      /\ \A t \in Txs : handler'[p][t] = pc(t)
  BY <1>1, <1>2 DEF TypeOK
<1>. QED  BY <1>3 DEF pc

(* A step of a handler moves that handler only. *)
LEMMA HandlerMoved ==
  ASSUME TypeOK, NEW p \in Procs, NEW t \in Txs, NEW pc \in HandlerPcs, Goto(p, t, pc)
  PROVE  /\ handler' \in [Procs -> [Txs -> HandlerPcs]]
         /\ handler'[p][t] = pc
         /\ \A q \in Procs, x \in Txs : q # p \/ x # t => handler'[q][x] = handler[q][x]
BY DEF TypeOK, Goto

(* Failing uses up the budget, which stays a number. *)
LEMMA FaultSpent ==
  ASSUME TypeOK, NEW kind, Fails(kind)
  PROVE  faults' \in Nat
BY DEF TypeOK, Fails

LEMMA BatchesAreSets ==
  ASSUME NEW rows, NEW limit, NEW b \in BatchesOf(rows, limit)
  PROVE  b \subseteq rows
BY DEF BatchesOf

LEMMA TypeInit == Init => TypeOK
BY ConstantsAssumption
   DEF Init, TypeOK, Statuses, ClearingPcs, SettlementPcs, HandlerPcs

(* The steps of users, bank and clock *)
LEMMA WorldType ==
  ASSUME TypeOK, \/ \E o \in Orders : CreateOrder(o) \/ Age(o)
                 \/ \E t \in Txs : Pay(t)
                 \/ NewDay
  PROVE  TypeOK'
<1>1. ASSUME NEW o \in Orders, CreateOrder(o) PROVE TypeOK'
  BY <1>1 DEF TypeOK, CreateOrder, Transition, Statuses, world, clrVars, stlVars, budget
<1>2. ASSUME NEW o \in Orders, Age(o) PROVE TypeOK'
  <2>0. age[o] \in 0..2 /\ age[o] < 2
    BY <1>2 DEF TypeOK, Age
  <2>1. age[o] + 1 \in 0..2
    BY <2>0
  <2>2. age' \in [Orders -> 0..2]
    BY <1>2, <2>1 DEF TypeOK, Age
  <2>. QED  BY <1>2, <2>2 DEF TypeOK, Age, dbVars, clrVars, stlVars, budget
<1>3. ASSUME NEW t \in Txs, Pay(t) PROVE TypeOK'
  BY <1>3 DEF TypeOK, Pay, dbVars, clrVars, stlVars, budget
<1>4. ASSUME NewDay PROVE TypeOK'
  BY <1>4 DEF TypeOK, NewDay, world, stlVars, budget
<1>. QED  BY <1>1, <1>2, <1>3, <1>4

(* The steps of a clearing *)
LEMMA ClearingType ==
  ASSUME TypeOK, NEW p \in Procs, ClearingStep(p) \/ ClearingFault(p)
  PROVE  TypeOK'
<1>1. ASSUME ClearingStart(p) PROVE TypeOK'
  <2>1. OpenPage(p, 0) /\ Len(statement) \in Nat
    BY <1>1 DEF ClearingStart, TypeOK
  <2>. QED  BY <1>1, <2>1, PageOpened DEF TypeOK, ClearingStart, dbVars, world, stlVars, budget
<1>2. ASSUME ClearingNextPage(p) PROVE TypeOK'
  <2>1. OpenPage(p, clrPage[p] + 1) /\ clrPage[p] + 1 \in Nat
    BY <1>2 DEF ClearingNextPage, TypeOK
  <2>. QED  BY <1>2, <2>1, PageOpened DEF TypeOK, ClearingNextPage, dbVars, world, stlVars, budget
<1>3. ASSUME ClearingFault(p) PROVE TypeOK'
  <2>1. faults' \in Nat
    BY <1>3, FaultSpent DEF ClearingFault
  <2>. QED  BY <1>3, <2>1 DEF TypeOK, ClearingFault, ClearingPcs, dbVars, world, stlVars
<1>4. ASSUME ClearingFinish(p) PROVE TypeOK'
  <2>1. faults' \in Nat
    BY <1>4, FaultSpent DEF ClearingFinish, TypeOK
  <2>2. lastHash' \in Nat
    BY <1>4 DEF ClearingFinish, HashLeft, TypeOK
  <2>3. cache' \in [Procs -> SUBSET Txs]
    BY <1>4 DEF ClearingFinish, TypeOK
  <2>4. handler' \in [Procs -> [Txs -> HandlerPcs]]
    BY <1>4 DEF ClearingFinish, TypeOK, HandlerPcs
  <2>. QED  BY <1>4, <2>1, <2>2, <2>3, <2>4 DEF TypeOK, ClearingFinish, ClearingPcs, world, stlVars
<1>5. ASSUME NEW t \in Txs, HandlerStep(p, t) PROVE TypeOK'
  <2>1. CASE HandlerExpire(p, t)
    <3>1. handler' \in [Procs -> [Txs -> HandlerPcs]]
      BY <2>1, HandlerMoved DEF HandlerExpire, HandlerPcs
    <3>. QED  BY <2>1, <3>1 DEF TypeOK, HandlerExpire, Transition, Statuses, world, stlVars, budget
  <2>2. CASE HandlerRequote(p, t)
    <3>1. handler' \in [Procs -> [Txs -> HandlerPcs]]
      BY <2>2, HandlerMoved DEF HandlerRequote, HandlerPcs
    <3>. QED  BY <2>2, <3>1 DEF TypeOK, HandlerRequote, dbVars, world, stlVars, budget
  <2>3. CASE HandlerPay(p, t)
    <3>1. handler' \in [Procs -> [Txs -> HandlerPcs]]
      BY <2>3, HandlerMoved DEF HandlerPay, HandlerPcs
    <3>. DEFINE n == Cardinality({o \in Orders : payment[o] # NoTx})
    <3>2. n \in Nat
      BY ConstantsAssumption, FS_Subset, FS_CardinalityType DEF ConstantsAssumption
    <3>3. payment' \in [Orders -> Txs \cup {NoTx}]
      BY <2>3 DEF TypeOK, HandlerPay
    <3>4. sequence' = [sequence EXCEPT ![OrderOf[t]] = 1 + n]
      BY <2>3 DEF HandlerPay
    <3>. HIDE DEF n
    <3>5. 1 + n \in Nat /\ sequence \in [Orders -> Nat]
      BY <3>2 DEF TypeOK
    <3>6. sequence' \in [Orders -> Nat]
      BY <3>4, <3>5
    <3>. QED  BY <2>3, <3>1, <3>3, <3>6 DEF TypeOK, HandlerPay, world, stlVars, budget
  <2>4. CASE HandlerConfirm(p, t)
    <3>1. handler' \in [Procs -> [Txs -> HandlerPcs]]
      BY <2>4, HandlerMoved DEF HandlerConfirm, HandlerPcs
    <3>. QED  BY <2>4, <3>1 DEF TypeOK, HandlerConfirm, Transition, Statuses, world, stlVars, budget
  <2>5. CASE HandlerSkip(p, t)
    <3>1. handler' \in [Procs -> [Txs -> HandlerPcs]]
      BY <2>5, HandlerMoved DEF HandlerSkip, HandlerPcs
    <3>2. faults' \in Nat
      BY <2>5, FaultSpent DEF HandlerSkip, TypeOK
    <3>. QED  BY <2>5, <3>1, <3>2 DEF TypeOK, HandlerSkip, dbVars, world, stlVars
  <2>. QED  BY <1>5, <2>1, <2>2, <2>3, <2>4, <2>5 DEF HandlerStep
<1>6. ASSUME ClearingCheck(p) PROVE TypeOK'
  <2>1. handler' \in [Procs -> [Txs -> HandlerPcs]]
    BY <1>6, HandlersChecked
  <2>. QED  BY <1>6, <2>1 DEF TypeOK, ClearingCheck, dbVars, world, stlVars, budget
<1>. QED  BY <1>1, <1>2, <1>3, <1>4, <1>5, <1>6 DEF ClearingStep

(* The steps of a settlement *)
LEMMA SettlementType ==
  ASSUME TypeOK, QueuePaid, NEW p \in Procs, SettlementStep(p) \/ SettlementTimeout(p)
  PROVE  TypeOK'
<1>. USE DEF SettlementPcs
<1>1. ASSUME SettlementFetch(p) PROVE TypeOK'
  <2>1. batch' \in [Procs -> SUBSET Orders]
    BY <1>1, BatchesAreSets DEF SettlementFetch, PendingSettlement, TypeOK
  <2>. QED  BY <1>1, <2>1 DEF TypeOK, SettlementFetch, dbVars, world, clrVars, budget
<1>2. ASSUME SettlementNext(p) PROVE TypeOK'
  BY <1>2 DEF TypeOK, SettlementNext, dbVars, world, clrVars, budget
<1>3. ASSUME SettlementVerify(p) PROVE TypeOK'
  BY <1>3 DEF TypeOK, SettlementVerify, At, dbVars, world, clrVars, budget
<1>4. ASSUME SettlementReserve(p) PROVE TypeOK'
  BY <1>4 DEF TypeOK, SettlementReserve, At, world, clrVars, budget
<1>5. ASSUME SettlementSend(p) PROVE TypeOK'
  <2>1. stlOrder[p] \in Orders
    BY <1>5 DEF SettlementSend, At, QueuePaid
  <2>. QED  BY <1>5, <2>1 DEF TypeOK, SettlementSend, At, dbVars, clrVars, budget
<1>6. ASSUME SettlementReceipt(p) PROVE TypeOK'
  BY <1>6 DEF TypeOK, SettlementReceipt, At, world, clrVars, budget
<1>7. ASSUME SettlementHash(p) PROVE TypeOK'
  BY <1>7 DEF TypeOK, SettlementHash, At, world, clrVars, budget
<1>8. ASSUME SettlementStatus(p) PROVE TypeOK'
  BY <1>8 DEF TypeOK, SettlementStatus, LeaveOrder, Transition, Statuses, world, clrVars, budget
<1>9. ASSUME SettlementSkip(p) PROVE TypeOK'
  <2>1. faults' \in Nat
    BY <1>9, FaultSpent DEF SettlementSkip, TypeOK
  <2>. QED  BY <1>9, <2>1 DEF TypeOK, SettlementSkip, LeaveOrder, dbVars, world, clrVars
<1>10. ASSUME SettlementTimeout(p) PROVE TypeOK'
  <2>1. faults' \in Nat /\ stlOrder[p] \in Orders
    BY <1>10, FaultSpent DEF SettlementTimeout, QueuePaid
  <2>. QED  BY <1>10, <2>1 DEF TypeOK, SettlementTimeout, LeaveOrder, dbVars, clrVars
<1>. QED  BY <1>1, <1>2, <1>3, <1>4, <1>5, <1>6, <1>7, <1>8, <1>9, <1>10 DEF SettlementStep

(* Expiration and restart *)
LEMMA ExpirationType ==
  ASSUME TypeOK, NEW p \in Procs, ExpirationStep(p) \/ Crash(p)
  PROVE  TypeOK'
<1>1. ASSUME ExpirationFetch(p) PROVE TypeOK'
  <2>1. expiring' \in [Procs -> SUBSET Orders]
    BY <1>1, BatchesAreSets DEF ExpirationFetch, TypeOK
  <2>. QED  BY <1>1, <2>1 DEF TypeOK, ExpirationFetch, dbVars, world, clrVars, stlVars, budget
<1>2. ASSUME NEW o \in Orders, ExpirationWrite(p, o) PROVE TypeOK'
  <2>1. faults' \in Nat
    BY <1>2, FaultSpent DEF ExpirationWrite, TypeOK
  <2>. QED  BY <1>2, <2>1 DEF TypeOK, ExpirationWrite, Transition, Statuses, world, clrVars, stlVars
<1>3. ASSUME Crash(p) PROVE TypeOK'
  BY <1>3 DEF TypeOK, Crash, ClearingPcs, SettlementPcs, HandlerPcs, dbVars, world
<1>4. ASSUME ExpirationFilter(p) PROVE TypeOK'
  BY <1>4 DEF TypeOK, ExpirationFilter, dbVars, world, clrVars, stlVars, budget
<1>. QED  BY <1>1, <1>2, <1>3, <1>4 DEF ExpirationStep
-----------------------------------------------------------------------------
(* Who changes what *)

(* Settlements and expirations leave the payments and the handlers alone. *)
LEMMA PayFrame ==
  ASSUME NEW p \in Procs,
         \/ SettlementStep(p) \/ SettlementTimeout(p) \/ ExpirationStep(p)
         \/ ClearingFault(p)
  PROVE  UNCHANGED <<payment, handler>>
<1>1. CASE SettlementStep(p) \/ SettlementTimeout(p)
  BY <1>1 DEF SettlementStep, SettlementTimeout, SettlementFetch, SettlementNext,
     SettlementVerify, SettlementReserve, SettlementSend, SettlementReceipt,
     SettlementHash, SettlementStatus, SettlementSkip, dbVars, clrVars
<1>2. CASE ExpirationStep(p)
  BY <1>2 DEF ExpirationStep, ExpirationFetch, ExpirationFilter,
     ExpirationWrite, dbVars, clrVars
<1>3. CASE ClearingFault(p)
  BY <1>3 DEF ClearingFault, dbVars
<1>. QED  BY <1>1, <1>2, <1>3

(* Everybody but a settlement leaves alone what a settlement holds, the lock
   and claim rows, the receipts and the chain; a restart empties its memory. *)
LEMMA SettlementFrame ==
  ASSUME NEW p \in Procs,
         \/ ClearingStep(p) \/ ClearingFault(p) \/ ExpirationStep(p)
  PROVE  UNCHANGED <<stlPc, stlOrder, batch, dispatch, receipt, sent>>
<1>1. CASE \/ ClearingStart(p) \/ ClearingNextPage(p) \/ ClearingCheck(p)
           \/ ClearingFinish(p) \/ ClearingFault(p)
  BY <1>1 DEF ClearingStart, ClearingNextPage, ClearingCheck, ClearingFinish, ClearingFault,
     dbVars, stlVars, world
<1>2. CASE \E t \in Txs : HandlerStep(p, t)
  BY <1>2 DEF HandlerStep, HandlerExpire, HandlerRequote, HandlerPay, HandlerConfirm,
     HandlerSkip, dbVars, stlVars, world
<1>3. CASE ExpirationStep(p)
  BY <1>3 DEF ExpirationStep, ExpirationFetch, ExpirationFilter,
     ExpirationWrite, dbVars, stlVars, world
<1>. QED  BY <1>1, <1>2, <1>3 DEF ClearingStep

(* These steps write, if at all, a status other than Confirmed and the settled
   ones. *)
LEMMA StatusFrame ==
  ASSUME TypeOK, NEW p \in Procs,
         \/ ClearingStart(p) \/ ClearingNextPage(p) \/ ClearingFinish(p)
         \/ ClearingFault(p) \/ ClearingCheck(p)
         \/ \E t \in Txs : \/ HandlerExpire(p, t) \/ HandlerRequote(p, t)
                           \/ HandlerPay(p, t) \/ HandlerSkip(p, t)
         \/ ExpirationStep(p)
         \/ Crash(p),
         NEW x \in Orders
  PROVE  status'[x] \in {status[x], "Requested", "Expired"}
<1>1. CASE \/ ClearingStart(p) \/ ClearingNextPage(p) \/ ClearingFinish(p)
           \/ ClearingFault(p) \/ ClearingCheck(p) \/ Crash(p)
  BY <1>1 DEF ClearingStart, ClearingNextPage, ClearingCheck, ClearingFinish, ClearingFault,
     Crash, dbVars
<1>2. ASSUME NEW t \in Txs, \/ HandlerExpire(p, t) \/ HandlerRequote(p, t)
                           \/ HandlerPay(p, t) \/ HandlerSkip(p, t)
      PROVE  status'[x] \in {status[x], "Requested", "Expired"}
  BY <1>2 DEF HandlerExpire, HandlerRequote, HandlerPay, HandlerSkip, Transition, dbVars, TypeOK
<1>3. CASE ExpirationStep(p)
  BY <1>3 DEF ExpirationStep, ExpirationFetch, ExpirationFilter,
     ExpirationWrite, Transition, dbVars, TypeOK
<1>. QED  BY <1>1, <1>2, <1>3
-----------------------------------------------------------------------------
(* Payments *)

LEMMA PaymentsStep ==
  ASSUME TypeOK, PaymentsExact, [Next]_vars
  PROVE  /\ PaymentsExact'
         /\ \A o \in Orders : payment[o] # NoTx => payment'[o] = payment[o]
<1>. DEFINE Goal == /\ PaymentsExact'
                    /\ \A o \in Orders : payment[o] # NoTx => payment'[o] = payment[o]
<1>. USE ConstantsAssumption DEF ConstantsAssumption
<1>1. ASSUME UNCHANGED <<payment, handler>> PROVE Goal
  BY <1>1 DEF PaymentsExact
<1>2. ASSUME NEW p \in Procs, ClearingStart(p) \/ ClearingNextPage(p) PROVE Goal
  <2>1. PICK k \in Nat : OpenPage(p, k)
    BY <1>2 DEF ClearingStart, ClearingNextPage, TypeOK
  <2>2. UNCHANGED payment
    BY <1>2 DEF ClearingStart, ClearingNextPage, dbVars
  <2>3. \A t \in Txs : Acceptable(t) => t \in Exact /\ OrderOf[t] \in Orders
    BY DEF Acceptable
  <2>. QED  BY <2>1, <2>2, <2>3, PageOpened DEF PaymentsExact, Copies
<1>3. ASSUME NEW p \in Procs, ClearingFinish(p) \/ Crash(p) PROVE Goal
  <2>1. UNCHANGED payment
    BY <1>3 DEF ClearingFinish, Crash, dbVars
  <2>2. /\ handler' = [handler EXCEPT ![p] = [t \in Txs |-> "idle"]]
        /\ handler \in [Procs -> [Txs -> HandlerPcs]]
    BY <1>3 DEF ClearingFinish, Crash, TypeOK
  <2>. QED  BY <2>1, <2>2 DEF PaymentsExact
<1>4. ASSUME NEW p \in Procs, NEW t \in Txs, HandlerExpire(p, t) \/ HandlerRequote(p, t) PROVE Goal
  <2>1. UNCHANGED payment
    BY <1>4 DEF HandlerExpire, HandlerRequote, dbVars
  <2>2. /\ handler[p][t] \in {"expire", "requote"}
        /\ \E pc \in {"requote", "pay"} : Goto(p, t, pc)
    BY <1>4 DEF HandlerExpire, HandlerRequote
  <2>. QED  BY <2>1, <2>2, HandlerMoved DEF PaymentsExact, HandlerPcs
<1>5. ASSUME NEW p \in Procs, NEW t \in Txs, HandlerPay(p, t) PROVE Goal
  <2>1. /\ t \in Exact /\ OrderOf[t] \in Orders
        /\ payment[OrderOf[t]] = NoTx
        /\ payment' = [payment EXCEPT ![OrderOf[t]] = t]
        /\ Goto(p, t, "confirm")
    BY <1>5 DEF HandlerPay, PaymentInsertable, PaymentsExact
  <2>2. /\ \A o \in Orders : payment[o] # NoTx => payment'[o] = payment[o]
        /\ \A o \in Orders : o # OrderOf[t] => payment'[o] = payment[o]
        /\ payment'[OrderOf[t]] = t /\ t # NoTx
    BY <2>1 DEF TypeOK
  <2>3. /\ handler'[p][t] = "confirm"
        /\ \A q \in Procs, x \in Txs : q # p \/ x # t => handler'[q][x] = handler[q][x]
    BY <2>1, HandlerMoved DEF HandlerPcs
  <2>. QED  BY <2>1, <2>2, <2>3 DEF PaymentsExact
<1>6. ASSUME NEW p \in Procs, NEW t \in Txs, HandlerConfirm(p, t) \/ HandlerSkip(p, t) PROVE Goal
  <2>1. UNCHANGED payment
    BY <1>6 DEF HandlerConfirm, HandlerSkip, dbVars
  <2>2. \E pc \in {"credited", "skipped"} : Goto(p, t, pc)
    BY <1>6 DEF HandlerConfirm, HandlerSkip
  <2>. QED  BY <2>1, <2>2, HandlerMoved DEF PaymentsExact, HandlerPcs
<1>7. ASSUME UNCHANGED vars PROVE Goal
  BY <1>1, <1>7 DEF vars, dbVars, clrVars
<1>11. ASSUME NEW p \in Procs, ClearingCheck(p) PROVE Goal
  <2>1. UNCHANGED payment
    BY <1>11 DEF ClearingCheck, dbVars
  <2>. QED  BY <1>11, <2>1, HandlersChecked DEF PaymentsExact, Copies
<1>. HIDE DEF Goal
<1>8. ASSUME \/ \E o \in Orders : CreateOrder(o) \/ Age(o)
             \/ \E t \in Txs : Pay(t)
             \/ NewDay
      PROVE  Goal
  BY <1>1, <1>8 DEF CreateOrder, Age, Pay, NewDay, dbVars, clrVars
<1>9. ASSUME NEW p \in Procs, \/ SettlementStep(p) \/ SettlementTimeout(p)
                             \/ ExpirationStep(p) \/ ClearingFault(p)
      PROVE  Goal
  BY <1>1, <1>9, PayFrame
<1>10. Goal
  BY <1>2, <1>3, <1>4, <1>5, <1>6, <1>7, <1>8, <1>9, <1>11 DEF Next, ClearingStep, HandlerStep
<1>. QED  BY <1>10 DEF Goal
-----------------------------------------------------------------------------
(* What a settlement may come to handle *)

LEMMA QueueStep ==
  ASSUME TypeOK, PaymentsExact, QueuePaid, [Next]_vars
  PROVE  QueuePaid'
<1>. DEFINE Stays == \A o \in Orders : payment[o] # NoTx => payment'[o] # NoTx
<1>0. Stays
  BY PaymentsStep
<1>1. ASSUME NEW p \in Procs,
             \/ ClearingStart(p) \/ ClearingNextPage(p) \/ ClearingFinish(p)
             \/ ClearingFault(p) \/ ClearingCheck(p)
             \/ \E t \in Txs : \/ HandlerExpire(p, t) \/ HandlerRequote(p, t)
                               \/ HandlerPay(p, t) \/ HandlerSkip(p, t)
             \/ ExpirationStep(p)
      PROVE  QueuePaid'
  <2>1. \A o \in Orders : status'[o] = "Confirmed" => status[o] = "Confirmed"
    BY <1>1, StatusFrame
  <2>2. UNCHANGED <<stlPc, stlOrder, batch, dispatch>>
    BY <1>1, SettlementFrame DEF ClearingStep, HandlerStep
  <2>. QED  BY <1>0, <2>1, <2>2 DEF QueuePaid, TypeOK
<1>2. ASSUME NEW p \in Procs, NEW t \in Txs, HandlerConfirm(p, t) PROVE QueuePaid'
  <2>1. OrderOf[t] \in Orders /\ payment[OrderOf[t]] # NoTx
    BY <1>2 DEF HandlerConfirm, PaymentsExact
  <2>2. UNCHANGED <<stlPc, stlOrder, batch, dispatch, payment>>
    BY <1>2 DEF HandlerConfirm, stlVars
  <2>3. \A o \in Orders : o # OrderOf[t] => status'[o] = status[o]
    BY <1>2 DEF HandlerConfirm, Transition, TypeOK
  <2>. QED  BY <2>1, <2>2, <2>3 DEF QueuePaid
<1>3. ASSUME NEW p \in Procs, SettlementFetch(p) PROVE QueuePaid'
  <2>1. /\ batch'[p] \subseteq PendingSettlement
        /\ \A q \in Procs \ {p} : batch'[q] = batch[q]
    BY <1>3, BatchesAreSets DEF SettlementFetch, TypeOK
  <2>2. /\ stlPc' = [stlPc EXCEPT ![p] = "next"]
        /\ UNCHANGED <<status, payment, dispatch, stlOrder>>
    BY <1>3 DEF SettlementFetch, dbVars
  <2>. QED  BY <2>1, <2>2 DEF QueuePaid, PendingSettlement, TypeOK
<1>4. ASSUME NEW p \in Procs, SettlementNext(p) PROVE QueuePaid'
  <2>1. PICK o \in batch[p] : /\ stlOrder' = [stlOrder EXCEPT ![p] = o]
                              /\ batch' = [batch EXCEPT ![p] = @ \ {o}]
    BY <1>4 DEF SettlementNext
  <2>2. /\ stlPc' = [stlPc EXCEPT ![p] = "verify"]
        /\ UNCHANGED <<status, payment, dispatch>>
    BY <1>4 DEF SettlementNext, dbVars
  <2>. QED  BY <2>1, <2>2 DEF QueuePaid, TypeOK
<1>5. ASSUME NEW p \in Procs, \/ SettlementVerify(p) \/ SettlementSend(p)
                             \/ SettlementReceipt(p) \/ SettlementHash(p)
      PROVE  QueuePaid'
  <2>1. /\ stlPc[p] \notin {"idle", "next"}
        /\ \A q \in Procs : q # p => stlPc'[q] = stlPc[q]
        /\ UNCHANGED <<status, payment, stlOrder, batch>>
    BY <1>5 DEF SettlementVerify, SettlementSend, SettlementReceipt, SettlementHash,
       At, dbVars, TypeOK
  <2>2. \A o \in Orders : dispatch'[o] # "none" => dispatch[o] # "none" \/ o = stlOrder[p]
    BY <1>5 DEF SettlementVerify, SettlementSend, SettlementReceipt, SettlementHash,
       dbVars, TypeOK
  <2>. QED  BY <2>1, <2>2 DEF QueuePaid
<1>6. ASSUME NEW p \in Procs, SettlementReserve(p) PROVE QueuePaid'
  <2>1. /\ stlPc[p] = "reserve"
        /\ stlPc' = [stlPc EXCEPT ![p] = "send"]
        /\ dispatch' = [dispatch EXCEPT ![stlOrder[p]] = "reserved"]
        /\ UNCHANGED <<status, payment, stlOrder, batch>>
    BY <1>6 DEF SettlementReserve, At
  <2>. QED  BY <2>1 DEF QueuePaid, TypeOK
<1>7. ASSUME NEW p \in Procs, SettlementStatus(p) \/ SettlementSkip(p) \/ SettlementTimeout(p)
      PROVE  QueuePaid'
  <2>1. /\ stlPc'[p] \in {"idle", "next"}
        /\ \A q \in Procs : q # p => stlPc'[q] = stlPc[q] /\ stlOrder'[q] = stlOrder[q]
        /\ UNCHANGED <<payment, dispatch, batch>>
    BY <1>7 DEF SettlementStatus, SettlementSkip, SettlementTimeout, LeaveOrder, dbVars, TypeOK
  <2>2. \A o \in Orders : status'[o] = "Confirmed" => status[o] = "Confirmed"
    BY <1>7 DEF SettlementStatus, SettlementSkip, SettlementTimeout, Transition, dbVars, TypeOK
  <2>. QED  BY <2>1, <2>2 DEF QueuePaid
<1>8. ASSUME NEW p \in Procs, Crash(p) PROVE QueuePaid'
  BY <1>8 DEF Crash, dbVars, QueuePaid, TypeOK
<1>9. ASSUME UNCHANGED vars PROVE QueuePaid'
  BY <1>9 DEF vars, dbVars, stlVars, QueuePaid
<1>10. ASSUME \/ \E o \in Orders : CreateOrder(o) \/ Age(o)
              \/ \E t \in Txs : Pay(t)
              \/ NewDay
       PROVE  QueuePaid'
  <2>1. \A o \in Orders : status'[o] = "Confirmed" => status[o] = "Confirmed"
    BY <1>10 DEF CreateOrder, Age, Pay, NewDay, Transition, dbVars, TypeOK
  <2>2. UNCHANGED <<stlPc, stlOrder, batch, dispatch>>
    BY <1>10 DEF CreateOrder, Age, Pay, NewDay, dbVars, stlVars
  <2>. QED  BY <1>0, <2>1, <2>2 DEF QueuePaid, TypeOK
<1>. QED
  BY <1>1, <1>2, <1>3, <1>4, <1>5, <1>6, <1>7, <1>8, <1>9, <1>10
     DEF Next, ClearingStep, HandlerStep, SettlementStep
-----------------------------------------------------------------------------
(* The rows of an order, the chain, and the process that owns them *)

LEMMA RowsStep ==
  ASSUME TypeOK, QueuePaid, RowsOrdered, OwnerKnows, [Next]_vars
  PROVE  RowsOrdered' /\ OwnerKnows'
<1>. DEFINE Goal == RowsOrdered' /\ OwnerKnows'
<1>. USE DEF Settled, Owning
<1>1. ASSUME UNCHANGED <<stlPc, stlOrder, dispatch, receipt, sent>>,
             \A o \in Orders : status'[o] \in Settled => status[o] \in Settled
      PROVE  Goal
  BY <1>1 DEF RowsOrdered, OwnerKnows
<1>2. ASSUME NEW p \in Procs,
             \/ SettlementFetch(p) \/ SettlementNext(p) \/ SettlementVerify(p)
             \/ SettlementSkip(p) \/ Crash(p)
      PROVE  Goal
  <2>1. /\ stlPc'[p] \notin Owning
        /\ \A q \in Procs : q # p => stlPc'[q] = stlPc[q] /\ stlOrder'[q] = stlOrder[q]
        /\ UNCHANGED <<status, dispatch, receipt, sent>>
    BY <1>2 DEF SettlementFetch, SettlementNext, SettlementVerify, SettlementSkip, Crash,
       LeaveOrder, At, dbVars, world, TypeOK
  <2>. QED  BY <2>1 DEF RowsOrdered, OwnerKnows
<1>3. ASSUME NEW p \in Procs, SettlementReserve(p) PROVE Goal
  <2>. DEFINE o == stlOrder[p]
  <2>1. /\ o \in Orders /\ dispatch[o] = "none"
        /\ stlPc' = [stlPc EXCEPT ![p] = "send"]
        /\ dispatch' = [dispatch EXCEPT ![o] = "reserved"]
        /\ UNCHANGED <<status, receipt, sent, stlOrder>>
    BY <1>3 DEF SettlementReserve, At, QueuePaid, world
  <2>2. sent[o] = 0 /\ ~receipt[o] /\ status[o] \notin Settled
    BY <2>1 DEF RowsOrdered
  <2>3. \A q \in Procs : stlPc[q] \in Owning => stlOrder[q] # o
    BY <2>1, <2>2 DEF OwnerKnows
  <2>4. RowsOrdered'
    BY <2>1, <2>2 DEF RowsOrdered, TypeOK
  <2>5. OwnerKnows'
    BY <2>1, <2>2, <2>3 DEF OwnerKnows, TypeOK, QueuePaid
  <2>. QED  BY <2>4, <2>5
<1>4. ASSUME NEW p \in Procs, SettlementSend(p) \/ SettlementTimeout(p) PROVE Goal
  <2>. DEFINE o == stlOrder[p]
  <2>1. /\ o \in Orders /\ stlPc[p] = "send"
        /\ sent' = [sent EXCEPT ![o] = @ + 1]
        /\ UNCHANGED <<status, dispatch, receipt>>
        /\ stlPc' = [stlPc EXCEPT ![p] = "receipt"] \/ stlPc'[p] \in {"idle", "next"}
        /\ \A q \in Procs : q # p => stlPc'[q] = stlPc[q] /\ stlOrder'[q] = stlOrder[q]
        /\ stlPc'[p] = "receipt" => stlOrder'[p] = o
    BY <1>4 DEF SettlementSend, SettlementTimeout, LeaveOrder, At, QueuePaid, dbVars, TypeOK
  <2>2. dispatch[o] = "reserved" /\ sent[o] = 0 /\ ~receipt[o]
    BY <2>1 DEF OwnerKnows, RowsOrdered
  <2>3. sent'[o] = 1 /\ \A x \in Orders : x # o => sent'[x] = sent[x]
    BY <2>1, <2>2 DEF TypeOK
  <2>4. \A q \in Procs : q # p /\ stlPc[q] \in Owning => stlOrder[q] \in Orders \ {o}
    BY <2>1 DEF OwnerKnows, QueuePaid
  <2>5. RowsOrdered'
    BY <2>1, <2>2, <2>3 DEF RowsOrdered
  <2>6. stlPc'[p] \in {"receipt", "idle", "next"}
    BY <2>1 DEF TypeOK
  <2>7. OwnerKnows'
    BY <2>1, <2>2, <2>3, <2>4, <2>6 DEF OwnerKnows
  <2>. QED  BY <2>5, <2>7
<1>5. ASSUME NEW p \in Procs, SettlementReceipt(p) PROVE Goal
  <2>. DEFINE o == stlOrder[p]
  <2>1. /\ o \in Orders /\ stlPc[p] = "receipt"
        /\ stlPc' = [stlPc EXCEPT ![p] = "hash"]
        /\ receipt' = [receipt EXCEPT ![o] = TRUE]
        /\ UNCHANGED <<status, dispatch, sent, stlOrder>>
    BY <1>5 DEF SettlementReceipt, At, QueuePaid, world
  <2>2. sent[o] = 1
    BY <2>1 DEF OwnerKnows
  <2>3. \A q \in Procs : q # p /\ stlPc[q] \in Owning => stlOrder[q] \in Orders \ {o}
    BY <2>1 DEF OwnerKnows, QueuePaid
  <2>4. RowsOrdered'
    BY <2>1, <2>2 DEF RowsOrdered, TypeOK
  <2>5. OwnerKnows'
    BY <2>1, <2>2, <2>3 DEF OwnerKnows, TypeOK
  <2>. QED  BY <2>4, <2>5
<1>6. ASSUME NEW p \in Procs, SettlementHash(p) PROVE Goal
  <2>. DEFINE o == stlOrder[p]
  <2>1. /\ o \in Orders /\ stlPc[p] = "hash"
        /\ stlPc' = [stlPc EXCEPT ![p] = "status"]
        /\ dispatch' = [dispatch EXCEPT ![o] = "hashed"]
        /\ UNCHANGED <<status, receipt, sent, stlOrder>>
    BY <1>6 DEF SettlementHash, At, QueuePaid, world
  <2>2. receipt[o]
    BY <2>1 DEF OwnerKnows
  <2>3. \A q \in Procs : q # p /\ stlPc[q] \in Owning => stlOrder[q] \in Orders \ {o}
    BY <2>1 DEF OwnerKnows, QueuePaid
  <2>4. RowsOrdered'
    BY <2>1, <2>2 DEF RowsOrdered, TypeOK
  <2>5. OwnerKnows'
    BY <2>1, <2>2, <2>3 DEF OwnerKnows, TypeOK
  <2>. QED  BY <2>4, <2>5
<1>7. ASSUME NEW p \in Procs, SettlementStatus(p) PROVE Goal
  <2>1. /\ stlPc[p] = "status"
        /\ stlPc'[p] \notin Owning
        /\ \A q \in Procs : q # p => stlPc'[q] = stlPc[q] /\ stlOrder'[q] = stlOrder[q]
        /\ \A x \in Orders : x # stlOrder[p] => status'[x] = status[x]
        /\ UNCHANGED <<dispatch, receipt, sent>>
    BY <1>7 DEF SettlementStatus, LeaveOrder, Transition, world, TypeOK
  <2>2. dispatch[stlOrder[p]] = "hashed"
    BY <2>1 DEF OwnerKnows
  <2>. QED  BY <2>1, <2>2 DEF RowsOrdered, OwnerKnows
<1>8. ASSUME NEW p \in Procs, ClearingStep(p) \/ ClearingFault(p) \/ ExpirationStep(p) PROVE Goal
  <2>1. UNCHANGED <<stlPc, stlOrder, dispatch, receipt, sent>>
    BY <1>8, SettlementFrame
  <2>2. ASSUME NEW t \in Txs, HandlerConfirm(p, t)
        PROVE  \A o \in Orders : status'[o] \in Settled => status[o] \in Settled
    BY <2>2 DEF HandlerConfirm, Transition, TypeOK
  <2>3. ASSUME ~(\E t \in Txs : HandlerConfirm(p, t))
        PROVE  \A o \in Orders : status'[o] \in Settled => status[o] \in Settled
    BY <1>8, <2>3, StatusFrame DEF ClearingStep, HandlerStep
  <2>. QED  BY <1>1, <2>1, <2>2, <2>3
<1>9. ASSUME \/ \E o \in Orders : CreateOrder(o) \/ Age(o)
             \/ \E t \in Txs : Pay(t)
             \/ NewDay
             \/ UNCHANGED vars
      PROVE  Goal
  <2>1. \A o \in Orders : status'[o] \in Settled => status[o] \in Settled
    BY <1>9 DEF CreateOrder, Age, Pay, NewDay, Transition, vars, dbVars, TypeOK
  <2>2. UNCHANGED <<stlPc, stlOrder, dispatch, receipt, sent>>
    BY <1>9 DEF CreateOrder, Age, Pay, NewDay, vars, dbVars, stlVars, world
  <2>. QED  BY <1>1, <2>1, <2>2
<1>. HIDE DEF Goal
<1>10. Goal
  BY <1>2, <1>3, <1>4, <1>5, <1>6, <1>7, <1>8, <1>9 DEF Next, SettlementStep
<1>. QED  BY <1>10 DEF Goal
-----------------------------------------------------------------------------
(* The inductive invariant and what follows from it *)

LEMMA InvInit == Init => IInv
<1>. SUFFICES ASSUME Init PROVE IInv
  OBVIOUS
<1>1. TypeOK
  BY TypeInit
<1>2. PaymentsExact /\ QueuePaid /\ RowsOrdered /\ OwnerKnows
  BY DEF Init, PaymentsExact, QueuePaid, RowsOrdered, OwnerKnows, Owning, Settled
<1>. QED  BY <1>1, <1>2 DEF IInv

LEMMA InvStep == IInv /\ [Next]_vars => IInv'
<1>. SUFFICES ASSUME IInv, [Next]_vars PROVE IInv'
  OBVIOUS
<1>. USE DEF IInv
<1>1. TypeOK'
  <2>1. CASE UNCHANGED vars
    BY <2>1 DEF vars, TypeOK, dbVars, world, clrVars, stlVars, budget
  <2>2. CASE Next
    BY <2>2, WorldType, ClearingType, SettlementType, ExpirationType DEF Next
  <2>. QED  BY <2>1, <2>2
<1>2. PaymentsExact'
  BY PaymentsStep
<1>3. QueuePaid'
  BY QueueStep
<1>4. RowsOrdered' /\ OwnerKnows'
  BY RowsStep
<1>. QED  BY <1>1, <1>2, <1>3, <1>4

THEOREM Invariance == Spec => []IInv
BY InvInit, InvStep, PTL DEF Spec

(* Every variable keeps its type, whatever the jobs do: in particular no job
   counts a page or a fault below zero, or holds an order that does not exist. *)
THEOREM TypeCorrect == Spec => []TypeOK
<1>1. IInv => TypeOK
  BY DEF IInv
<1>. QED  BY <1>1, Invariance, PTL

(* No order's tokens are dispatched twice, with any number of processes
   settling at the same time, dying at any step and losing any answer. *)
THEOREM DispatchedAtMostOnce == Spec => []DispatchedOnce
<1>1. IInv => DispatchedOnce
  BY DEF IInv, RowsOrdered, DispatchedOnce
<1>. QED  BY <1>1, Invariance, PTL

(* Tokens leave the contract only for an order that an exact credit of its own
   has paid. *)
THEOREM DispatchesAreBacked == Spec => []DispatchBacked
<1>1. IInv => DispatchBacked
  BY DEF IInv, TypeOK, PaymentsExact, QueuePaid, RowsOrdered, DispatchBacked
<1>. QED  BY <1>1, Invariance, PTL

(* Statuses, rows and chain agree wherever a settlement stops. *)
THEOREM RecordsAlwaysAgree == Spec => []RecordsAgree
<1>1. IInv => RecordsAgree
  BY DEF IInv, RowsOrdered, RecordsAgree
<1>. QED  BY <1>1, Invariance, PTL
-----------------------------------------------------------------------------
(* The pipeline implements its promise *)

LEMMA PromiseStep == IInv /\ [Next]_vars => [Promise!Next]_Promise!vars
<1>. SUFFICES ASSUME IInv, [Next]_vars PROVE [Promise!Next]_Promise!vars
  OBVIOUS
<1>. USE DEF IInv
<1>1. ASSUME UNCHANGED <<payment, sent, receipt>> PROVE [Promise!Next]_Promise!vars
  BY <1>1 DEF Promise!vars
<1>2. ASSUME NEW p \in Procs, NEW t \in Txs, HandlerPay(p, t) PROVE Promise!Next
  <2>1. OrderOf[t] \in Orders /\ t \in Exact
    BY <1>2 DEF HandlerPay, PaymentsExact
  <2>2. Promise!Credit(OrderOf[t], t)
    BY <1>2, <2>1 DEF HandlerPay, PaymentInsertable, world, Promise!Credit
  <2>. QED  BY <2>1, <2>2 DEF Promise!Next
<1>3. ASSUME NEW p \in Procs, SettlementSend(p) \/ SettlementTimeout(p) PROVE Promise!Next
  <2>1. stlPc[p] = "send" /\ stlOrder[p] \in Orders /\ payment[stlOrder[p]] # NoTx
    BY <1>3 DEF SettlementSend, SettlementTimeout, At, QueuePaid
  <2>2. sent[stlOrder[p]] = 0
    BY <2>1 DEF OwnerKnows
  <2>3. sent' = [sent EXCEPT ![stlOrder[p]] = 1] /\ UNCHANGED <<payment, receipt>>
    BY <1>3, <2>2 DEF SettlementSend, SettlementTimeout, dbVars
  <2>4. Promise!Deliver(stlOrder[p])
    BY <2>1, <2>2, <2>3 DEF Promise!Deliver
  <2>. QED  BY <2>1, <2>4 DEF Promise!Next
<1>4. ASSUME NEW p \in Procs, SettlementReceipt(p) PROVE Promise!Next
  <2>1. stlPc[p] = "receipt" /\ stlOrder[p] \in Orders
    BY <1>4 DEF SettlementReceipt, At, QueuePaid
  <2>2. sent[stlOrder[p]] = 1 /\ ~receipt[stlOrder[p]]
    BY <2>1 DEF OwnerKnows
  <2>3. Promise!Acknowledge(stlOrder[p])
    BY <1>4, <2>2 DEF SettlementReceipt, world, Promise!Acknowledge
  <2>. QED  BY <2>1, <2>3 DEF Promise!Next
<1>5. ASSUME NEW p \in Procs,
             \/ ClearingStart(p) \/ ClearingNextPage(p) \/ ClearingFinish(p)
             \/ ClearingFault(p) \/ ClearingCheck(p)
             \/ \E t \in Txs : \/ HandlerExpire(p, t) \/ HandlerRequote(p, t)
                               \/ HandlerConfirm(p, t) \/ HandlerSkip(p, t)
             \/ ExpirationStep(p)
             \/ Crash(p)
      PROVE  UNCHANGED <<payment, sent, receipt>>
  BY <1>5 DEF ClearingStart, ClearingNextPage, ClearingFinish, ClearingFault, HandlerExpire,
     ClearingCheck, HandlerRequote, HandlerConfirm, HandlerSkip, ExpirationStep,
     ExpirationFetch, ExpirationFilter, ExpirationWrite, Crash, dbVars, world
<1>6. ASSUME NEW p \in Procs,
             \/ SettlementFetch(p) \/ SettlementNext(p) \/ SettlementVerify(p)
             \/ SettlementReserve(p) \/ SettlementHash(p) \/ SettlementStatus(p)
             \/ SettlementSkip(p)
      PROVE  UNCHANGED <<payment, sent, receipt>>
  BY <1>6 DEF SettlementFetch, SettlementNext, SettlementVerify, SettlementReserve,
     SettlementHash, SettlementStatus, SettlementSkip, dbVars, world
<1>7. ASSUME \/ \E o \in Orders : CreateOrder(o) \/ Age(o)
             \/ \E t \in Txs : Pay(t)
             \/ NewDay
             \/ UNCHANGED vars
      PROVE  UNCHANGED <<payment, sent, receipt>>
  BY <1>7 DEF CreateOrder, Age, Pay, NewDay, vars, dbVars, world
<1>. QED
  BY <1>1, <1>2, <1>3, <1>4, <1>5, <1>6, <1>7
     DEF Next, ClearingStep, HandlerStep, SettlementStep

(* Every behaviour of the jobs, with all their crashes, lost answers and
   overlaps, is one the abstract specification allows. *)
THEOREM PipelineImplementsPromise == Spec => PipelineFulfils
<1>1. Init => Promise!Init
  BY DEF Init, Promise!Init
<1>. QED  BY <1>1, PromiseStep, Invariance, PTL DEF Spec, PipelineFulfils, Promise!Spec
-----------------------------------------------------------------------------
(* No confirmation comes after the dispatch began *)

Working == SettlementPcs \ {"idle", "next"}

(* Between the payment row of an order and its confirmation nobody else may
   confirm it and no settlement has come across it. *)
ConfirmPending ==
  /\ \A p \in Procs, t \in Txs : handler[p][t] = "confirm" =>
       /\ payment[OrderOf[t]] = t
       /\ dispatch[OrderOf[t]] = "none"
       /\ status[OrderOf[t]] # "Confirmed"
       /\ \A q \in Procs : /\ OrderOf[t] \notin batch[q]
                           /\ stlPc[q] \in Working => stlOrder[q] # OrderOf[t]
  /\ \A p, q \in Procs, t \in Txs :
       handler[p][t] = "confirm" /\ handler[q][t] = "confirm" => p = q

(* A step that starts no confirmation and gives settlements no work that was
   not confirmed keeps ConfirmPending. *)
LEMMA PendingKept ==
  ASSUME IInv, ConfirmPending, [Next]_vars,
         \A p \in Procs, t \in Txs : handler'[p][t] = "confirm" => handler[p][t] = "confirm",
         \A p \in Procs, t \in Txs : handler'[p][t] = "confirm" =>
           status'[OrderOf[t]] # "Confirmed",
         \A o \in Orders : dispatch'[o] # dispatch[o] =>
           \E q \in Procs : stlPc[q] \in Working /\ stlOrder[q] = o,
         \A q \in Procs : \A o \in batch'[q] :
           o \in batch[q] \/ status[o] = "Confirmed",
         \A q \in Procs : stlPc'[q] \in Working =>
           \/ stlPc[q] \in Working /\ stlOrder'[q] = stlOrder[q]
           \/ stlOrder'[q] \in batch[q]
  PROVE  ConfirmPending'
<1>1. \A o \in Orders : payment[o] # NoTx => payment'[o] = payment[o]
  BY PaymentsStep DEF IInv
<1>2. \A p \in Procs, t \in Txs : handler[p][t] = "confirm" =>
        OrderOf[t] \in Orders /\ payment[OrderOf[t]] # NoTx
  BY DEF IInv, PaymentsExact
<1>. QED  BY <1>1, <1>2 DEF ConfirmPending

LEMMA PendingStep ==
  ASSUME IInv, ConfirmPending, [Next]_vars
  PROVE  ConfirmPending'
<1>. USE DEF IInv, Working, SettlementPcs
<1>1. ASSUME NEW p \in Procs, NEW t \in Txs, HandlerPay(p, t) PROVE ConfirmPending'
  <2>. DEFINE o == OrderOf[t]
  <2>1. /\ o \in Orders /\ payment[o] = NoTx
        /\ payment' = [payment EXCEPT ![o] = t]
        /\ UNCHANGED <<status, dispatch, batch, stlPc, stlOrder>>
        /\ Goto(p, t, "confirm")
    BY <1>1 DEF HandlerPay, PaymentInsertable, PaymentsExact, stlVars
  <2>2. /\ dispatch[o] = "none" /\ status[o] # "Confirmed"
        /\ \A q \in Procs : o \notin batch[q] /\ (stlPc[q] \in Working => stlOrder[q] # o)
    BY <2>1 DEF QueuePaid
  <2>3. /\ handler'[p][t] = "confirm"
        /\ \A q \in Procs, x \in Txs : q # p \/ x # t => handler'[q][x] = handler[q][x]
    BY <2>1, HandlerMoved DEF HandlerPcs
  <2>4. \A q \in Procs, x \in Txs : handler[q][x] = "confirm" =>
          OrderOf[x] \in Orders /\ OrderOf[x] # o
    BY <2>1 DEF PaymentsExact
  <2>5. payment'[o] = t /\ \A y \in Orders : y # o => payment'[y] = payment[y]
    BY <2>1 DEF TypeOK
  <2>. QED  BY <2>1, <2>2, <2>3, <2>4, <2>5 DEF ConfirmPending
<1>2. ASSUME NEW p \in Procs, NEW t \in Txs, HandlerConfirm(p, t) PROVE ConfirmPending'
  <2>1. /\ OrderOf[t] \in Orders /\ payment[OrderOf[t]] = t
        /\ status' = [status EXCEPT ![OrderOf[t]] = "Confirmed"]
        /\ UNCHANGED <<dispatch, batch, stlPc, stlOrder>>
        /\ Goto(p, t, "credited") /\ handler[p][t] = "confirm"
    BY <1>2 DEF HandlerConfirm, Transition, PaymentsExact, ConfirmPending, stlVars
  <2>2. /\ handler'[p][t] = "credited"
        /\ \A q \in Procs, x \in Txs : q # p \/ x # t => handler'[q][x] = handler[q][x]
    BY <2>1, HandlerMoved DEF HandlerPcs
  <2>3. \A q \in Procs, x \in Txs : handler'[q][x] = "confirm" =>
          handler[q][x] = "confirm" /\ OrderOf[x] # OrderOf[t]
    BY <2>1, <2>2 DEF ConfirmPending
  <2>4. \A q \in Procs, x \in Txs : handler'[q][x] = "confirm" =>
          status'[OrderOf[x]] # "Confirmed"
    BY <2>1, <2>3 DEF ConfirmPending, TypeOK
  <2>. QED  BY <2>1, <2>3, <2>4, PendingKept
<1>3. ASSUME NEW p \in Procs,
             \/ ClearingStart(p) \/ ClearingNextPage(p) \/ ClearingFinish(p)
             \/ ClearingFault(p) \/ ClearingCheck(p)
             \/ \E t \in Txs : \/ HandlerExpire(p, t) \/ HandlerRequote(p, t)
                               \/ HandlerSkip(p, t)
             \/ ExpirationStep(p)
      PROVE  ConfirmPending'
  <2>1. \A q \in Procs, x \in Txs : handler'[q][x] = "confirm" => handler[q][x] = "confirm"
    <3>1. CASE ClearingStart(p) \/ ClearingNextPage(p)
      <4>1. PICK k \in Nat : OpenPage(p, k)
        BY <3>1 DEF ClearingStart, ClearingNextPage, TypeOK
      <4>. QED  BY <4>1, PageOpened DEF Copies
    <3>2. CASE ClearingFinish(p)
      <4>1. handler' = [handler EXCEPT ![p] = [t \in Txs |-> "idle"]]
        BY <3>2 DEF ClearingFinish
      <4>. QED  BY <4>1 DEF TypeOK
    <3>3. ASSUME NEW t \in Txs, HandlerExpire(p, t) \/ HandlerRequote(p, t) \/ HandlerSkip(p, t)
          PROVE  \A q \in Procs, x \in Txs : handler'[q][x] = "confirm" => handler[q][x] = "confirm"
      <4>1. \E pc \in {"requote", "pay", "skipped"} : Goto(p, t, pc)
        BY <3>3 DEF HandlerExpire, HandlerRequote, HandlerSkip
      <4>. QED  BY <4>1, HandlerMoved DEF HandlerPcs
    <3>4. CASE ClearingFault(p) \/ ExpirationStep(p)
      BY <3>4, PayFrame
    <3>5. CASE ClearingCheck(p)
      BY <3>5, HandlersChecked
    <3>. QED  BY <1>3, <3>1, <3>2, <3>3, <3>4, <3>5
  <2>2. \A q \in Procs, x \in Txs : handler'[q][x] = "confirm" =>
          status'[OrderOf[x]] # "Confirmed"
    <3>1. \A q \in Procs, x \in Txs : handler[q][x] = "confirm" =>
            OrderOf[x] \in Orders /\ status[OrderOf[x]] # "Confirmed"
      BY DEF ConfirmPending, PaymentsExact
    <3>. QED  BY <1>3, <2>1, <3>1, StatusFrame
  <2>3. UNCHANGED <<dispatch, batch, stlPc, stlOrder>>
    BY <1>3, SettlementFrame DEF ClearingStep, HandlerStep
  <2>. QED  BY <2>1, <2>2, <2>3, PendingKept
<1>4. ASSUME NEW p \in Procs, SettlementStep(p) \/ SettlementTimeout(p) PROVE ConfirmPending'
  <2>1. UNCHANGED handler
    BY <1>4, PayFrame
  <2>2. \A q \in Procs, x \in Txs : handler[q][x] = "confirm" => status'[OrderOf[x]] # "Confirmed"
    <3>1. \A q \in Procs, x \in Txs : handler[q][x] = "confirm" =>
            OrderOf[x] \in Orders /\ status[OrderOf[x]] # "Confirmed"
      BY DEF ConfirmPending, PaymentsExact
    <3>2. \A o \in Orders : status'[o] \in {status[o], "Claimed", "Locked"}
      BY <1>4 DEF SettlementStep, SettlementTimeout, SettlementFetch, SettlementNext,
         SettlementVerify, SettlementReserve, SettlementSend, SettlementReceipt,
         SettlementHash, SettlementStatus, SettlementSkip, Transition, dbVars, TypeOK
    <3>. QED  BY <3>1, <3>2
  <2>3. CASE SettlementFetch(p)
    <3>1. /\ batch'[p] \subseteq PendingSettlement
          /\ \A q \in Procs \ {p} : batch'[q] = batch[q]
      BY <2>3, BatchesAreSets DEF SettlementFetch, TypeOK
    <3>2. /\ stlPc' = [stlPc EXCEPT ![p] = "next"]
          /\ UNCHANGED <<dispatch, stlOrder>>
      BY <2>3 DEF SettlementFetch, dbVars
    <3>. QED  BY <2>1, <2>2, <3>1, <3>2, PendingKept DEF PendingSettlement, TypeOK
  <2>4. CASE SettlementNext(p)
    <3>1. PICK o \in batch[p] : /\ stlOrder' = [stlOrder EXCEPT ![p] = o]
                                /\ batch' = [batch EXCEPT ![p] = @ \ {o}]
      BY <2>4 DEF SettlementNext
    <3>2. /\ stlPc' = [stlPc EXCEPT ![p] = "verify"]
          /\ UNCHANGED dispatch
      BY <2>4 DEF SettlementNext, dbVars
    <3>. QED  BY <2>1, <2>2, <3>1, <3>2, PendingKept DEF TypeOK
  <2>5. CASE \/ SettlementVerify(p) \/ SettlementReserve(p) \/ SettlementSend(p)
             \/ SettlementReceipt(p) \/ SettlementHash(p)
    <3>1. /\ stlPc[p] \in Working
          /\ \A q \in Procs : q # p => stlPc'[q] = stlPc[q]
          /\ UNCHANGED <<stlOrder, batch>>
          /\ \A o \in Orders : o # stlOrder[p] => dispatch'[o] = dispatch[o]
      BY <2>5 DEF SettlementVerify, SettlementReserve, SettlementSend, SettlementReceipt,
         SettlementHash, At, dbVars, TypeOK
    <3>. QED  BY <2>1, <2>2, <3>1, PendingKept
  <2>6. CASE SettlementStatus(p) \/ SettlementSkip(p) \/ SettlementTimeout(p)
    <3>1. /\ stlPc'[p] \notin Working
          /\ \A q \in Procs : q # p => stlPc'[q] = stlPc[q] /\ stlOrder'[q] = stlOrder[q]
          /\ UNCHANGED <<batch, dispatch>>
      BY <2>6 DEF SettlementStatus, SettlementSkip, SettlementTimeout, LeaveOrder, dbVars, TypeOK
    <3>. QED  BY <2>1, <2>2, <3>1, PendingKept
  <2>. QED  BY <1>4, <2>3, <2>4, <2>5, <2>6 DEF SettlementStep
<1>5. ASSUME NEW p \in Procs, Crash(p) PROVE ConfirmPending'
  <2>1. /\ UNCHANGED <<status, dispatch>>
        /\ handler' = [handler EXCEPT ![p] = [t \in Txs |-> "idle"]]
        /\ batch' = [batch EXCEPT ![p] = {}]
        /\ stlPc' = [stlPc EXCEPT ![p] = "idle"]
        /\ stlOrder' = [stlOrder EXCEPT ![p] = NoOrder]
    BY <1>5 DEF Crash, dbVars
  <2>2. \A q \in Procs, t \in Txs : handler'[q][t] = "confirm" => handler[q][t] = "confirm"
    BY <2>1 DEF TypeOK
  <2>3. \A q \in Procs, t \in Txs : handler'[q][t] = "confirm" => status'[OrderOf[t]] # "Confirmed"
    BY <2>1, <2>2 DEF ConfirmPending
  <2>4. \A q \in Procs : \A o \in batch'[q] : o \in batch[q]
    BY <2>1 DEF TypeOK
  <2>5. \A q \in Procs : stlPc'[q] \in Working => stlPc[q] \in Working /\ stlOrder'[q] = stlOrder[q]
    BY <2>1 DEF TypeOK
  <2>. QED  BY <2>1, <2>2, <2>3, <2>4, <2>5, PendingKept
<1>6. ASSUME \/ \E o \in Orders : CreateOrder(o) \/ Age(o)
             \/ \E t \in Txs : Pay(t)
             \/ NewDay
             \/ UNCHANGED vars
      PROVE  ConfirmPending'
  <2>1. UNCHANGED <<handler, dispatch, batch, stlPc, stlOrder>>
    BY <1>6 DEF CreateOrder, Age, Pay, NewDay, vars, dbVars, clrVars, stlVars
  <2>2. \A o \in Orders : status'[o] \in {status[o], "Requested"}
    BY <1>6 DEF CreateOrder, Age, Pay, NewDay, Transition, vars, dbVars, TypeOK
  <2>3. \A q \in Procs, x \in Txs : handler[q][x] = "confirm" =>
          OrderOf[x] \in Orders /\ status[OrderOf[x]] # "Confirmed"
    BY DEF ConfirmPending, PaymentsExact
  <2>. QED  BY <2>1, <2>2, <2>3, PendingKept
<1>. QED  BY <1>1, <1>2, <1>3, <1>4, <1>5, <1>6 DEF Next, ClearingStep, HandlerStep

(* An order is confirmed only while no dispatch of it has begun, and with its
   payment in place: it never returns to the settlement's queue with a lock or
   claim row left over from before. *)
THEOREM ConfirmedOnlyBeforeDispatch == Spec => ConfirmedBeforeDispatch
<1>. DEFINE Good == \A o \in Orders : status'[o] = "Confirmed" /\ status[o] # "Confirmed"
                                       => dispatch[o] = "none" /\ payment[o] # NoTx
<1>1. Init => ConfirmPending
  BY DEF Init, ConfirmPending, Working
<1>2. IInv /\ ConfirmPending /\ [Next]_vars => ConfirmPending'
  BY PendingStep
<1>3. IInv /\ ConfirmPending /\ [Next]_vars => [Good]_vars
  <2>. SUFFICES ASSUME IInv, ConfirmPending, [Next]_vars,
                       NEW o \in Orders, status'[o] = "Confirmed", status[o] # "Confirmed"
                PROVE  dispatch[o] = "none" /\ payment[o] # NoTx
    OBVIOUS
  <2>. USE DEF IInv
  <2>1. ASSUME NEW p \in Procs, NEW t \in Txs, HandlerConfirm(p, t)
        PROVE  dispatch[o] = "none" /\ payment[o] # NoTx
    BY <2>1 DEF HandlerConfirm, Transition, TypeOK, ConfirmPending, PaymentsExact
  <2>2. ASSUME NEW p \in Procs,
               ClearingStep(p) \/ ClearingFault(p) \/ ExpirationStep(p) \/ Crash(p),
               ~(\E t \in Txs : HandlerConfirm(p, t))
        PROVE  FALSE
    BY <2>2, StatusFrame DEF ClearingStep, HandlerStep
  <2>3. ASSUME NEW p \in Procs, SettlementStep(p) \/ SettlementTimeout(p) PROVE FALSE
    BY <2>3 DEF SettlementStep, SettlementTimeout, SettlementFetch, SettlementNext,
       SettlementVerify, SettlementReserve, SettlementSend, SettlementReceipt,
       SettlementHash, SettlementStatus, SettlementSkip, Transition, dbVars, TypeOK
  <2>4. ASSUME \/ \E x \in Orders : CreateOrder(x) \/ Age(x)
               \/ \E t \in Txs : Pay(t)
               \/ NewDay
               \/ UNCHANGED vars
        PROVE  FALSE
    BY <2>4 DEF CreateOrder, Age, Pay, NewDay, Transition, vars, dbVars, TypeOK
  <2>. QED  BY <2>1, <2>2, <2>3, <2>4 DEF Next
<1>4. Spec => [][Good]_vars
  BY <1>1, <1>2, <1>3, Invariance, PTL DEF Spec
<1>. QED  BY <1>4 DEF ConfirmedBeforeDispatch
-----------------------------------------------------------------------------
(* What is confirmed in time *)

(* No job has found the order expired, or read it as an expired one. *)
Unthreatened(o) ==
  \A p \in Procs : /\ o \notin expiring[p]
                   /\ \A t \in Txs : OrderOf[t] = o => handler[p][t] \notin {"expire", "Expired"}

(* Before its expiry an order is neither expired nor threatened. *)
Punctual == \A o \in Orders : age[o] = 0 => status[o] # "Expired" /\ Unthreatened(o)

(* A handler holds a copy of an order only if it has just read it without
   payment, and is about to expire it only if it held such a copy. *)
LEMMA HandlersStart ==
  ASSUME TypeOK, [Next]_vars, NEW p \in Procs, NEW t \in Txs,
         handler'[p][t] \in {"expire"} \cup Copies
  PROVE  \/ handler'[p][t] = handler[p][t]
         \/ handler'[p][t] \in Copies /\ handler'[p][t] = status[OrderOf[t]] /\ Acceptable(t)
         \/ handler[p][t] \in Copies /\ IsExpired(handler[p][t], OrderOf[t])
<1>. DEFINE Goal ==
       \/ handler'[p][t] = handler[p][t]
       \/ handler'[p][t] \in Copies /\ handler'[p][t] = status[OrderOf[t]] /\ Acceptable(t)
       \/ handler[p][t] \in Copies /\ IsExpired(handler[p][t], OrderOf[t])
<1>1. ASSUME NEW q \in Procs, ClearingStart(q) \/ ClearingNextPage(q) PROVE Goal
  <2>1. PICK k \in Nat : OpenPage(q, k)
    BY <1>1 DEF ClearingStart, ClearingNextPage, TypeOK
  <2>. QED  BY <2>1, PageOpened DEF Copies
<1>2. ASSUME NEW q \in Procs, ClearingFinish(q) \/ Crash(q) PROVE Goal
  <2>1. handler' = [handler EXCEPT ![q] = [x \in Txs |-> "idle"]]
    BY <1>2 DEF ClearingFinish, Crash
  <2>. QED  BY <2>1 DEF TypeOK, Copies
<1>3. ASSUME NEW q \in Procs, NEW x \in Txs, HandlerStep(q, x) PROVE Goal
  <2>1. \E pc \in {"requote", "pay", "confirm", "credited", "skipped"} : Goto(q, x, pc)
    BY <1>3 DEF HandlerStep, HandlerExpire, HandlerRequote, HandlerPay, HandlerConfirm, HandlerSkip
  <2>. QED  BY <2>1, HandlerMoved DEF HandlerPcs, Copies
<1>4. ASSUME NEW q \in Procs, ClearingCheck(q) PROVE Goal
  BY <1>4, HandlersChecked DEF Copies
<1>5. ASSUME NEW q \in Procs,
             SettlementStep(q) \/ SettlementTimeout(q) \/ ExpirationStep(q) \/ ClearingFault(q)
      PROVE  Goal
  BY <1>5, PayFrame
<1>6. ASSUME \/ \E o \in Orders : CreateOrder(o) \/ Age(o)
             \/ \E x \in Txs : Pay(x)
             \/ NewDay
             \/ UNCHANGED vars
      PROVE  Goal
  BY <1>6 DEF CreateOrder, Age, Pay, NewDay, vars, clrVars
<1>. HIDE DEF Goal
<1>7. Goal
  BY <1>1, <1>2, <1>3, <1>4, <1>5, <1>6 DEF Next, ClearingStep
<1>. QED  BY <1>7 DEF Goal

(* The expiration takes requested orders only. *)
LEMMA ExpirationsTake ==
  ASSUME TypeOK, [Next]_vars, NEW p \in Procs, NEW o \in Orders, o \in expiring'[p]
  PROVE  o \in expiring[p] \/ (status[o] = "Requested" /\ age[o] >= 1)
<1>1. ASSUME NEW q \in Procs, ExpirationFetch(q)
      PROVE  o \in expiring[p] \/ (status[o] = "Requested" /\ age[o] >= 1)
  <2>1. PICK b \in BatchesOf({x \in Orders : status[x] = "Requested"}, ExpirationBatch) :
          expiring' = [expiring EXCEPT ![q] = {x \in b : age[x] >= 1}]
    BY <1>1 DEF ExpirationFetch
  <2>2. b \subseteq {x \in Orders : status[x] = "Requested"}
    BY <2>1 DEF BatchesOf
  <2>. QED  BY <2>1, <2>2 DEF TypeOK
<1>2. ASSUME NEW q \in Procs, ExpirationFilter(q) \/ \E x \in Orders : ExpirationWrite(q, x)
      PROVE  o \in expiring[p]
  <2>1. CASE ExpirationFilter(q)
    <3>1. PICK left \in SUBSET expiring[q] : expiring' = [expiring EXCEPT ![q] = left]
      BY <2>1 DEF ExpirationFilter
    <3>. QED  BY <3>1 DEF TypeOK
  <2>2. ASSUME NEW x \in Orders, ExpirationWrite(q, x) PROVE o \in expiring[p]
    BY <2>2 DEF ExpirationWrite, TypeOK
  <2>. QED  BY <1>2, <2>1, <2>2
<1>3. ASSUME NEW q \in Procs, Crash(q) PROVE o \in expiring[p]
  BY <1>3 DEF Crash, TypeOK
<1>4. ASSUME NEW q \in Procs, ClearingStep(q) \/ ClearingFault(q) PROVE o \in expiring[p]
  BY <1>4 DEF ClearingStep, ClearingStart, ClearingNextPage, ClearingCheck, ClearingFinish,
     ClearingFault, HandlerStep, HandlerExpire, HandlerRequote, HandlerPay, HandlerConfirm,
     HandlerSkip
<1>5. ASSUME NEW q \in Procs, SettlementStep(q) \/ SettlementTimeout(q) PROVE o \in expiring[p]
  BY <1>5 DEF SettlementStep, SettlementTimeout, SettlementFetch, SettlementNext,
     SettlementVerify, SettlementReserve, SettlementSend, SettlementReceipt,
     SettlementHash, SettlementStatus, SettlementSkip
<1>6. ASSUME \/ \E x \in Orders : CreateOrder(x) \/ Age(x)
             \/ \E x \in Txs : Pay(x)
             \/ NewDay
             \/ UNCHANGED vars
      PROVE  o \in expiring[p]
  BY <1>6 DEF CreateOrder, Age, Pay, NewDay, vars
<1>. QED  BY <1>1, <1>2, <1>3, <1>4, <1>5, <1>6 DEF Next, ExpirationStep

(* A status is written back as Expired only by a job that threatens it. *)
LEMMA StatusWritten ==
  ASSUME IInv, [Next]_vars, NEW o \in Orders, status'[o] # status[o]
  PROVE  \/ status[o] = "None" /\ status'[o] = "Requested"
         \/ status'[o] = "Expired" /\ ~Unthreatened(o)
         \/ status'[o] \in {"Confirmed"} \cup Settled
<1>. USE DEF IInv
<1>1. ASSUME NEW q \in Procs, NEW t \in Txs, HandlerExpire(q, t)
      PROVE  status'[o] = "Expired" /\ ~Unthreatened(o)
  BY <1>1 DEF HandlerExpire, Transition, Unthreatened, TypeOK, PaymentsExact
<1>2. ASSUME NEW q \in Procs, NEW x \in Orders, ExpirationWrite(q, x)
      PROVE  status'[o] = "Expired" /\ ~Unthreatened(o)
  BY <1>2 DEF ExpirationWrite, Transition, Unthreatened, TypeOK
<1>3. ASSUME NEW q \in Procs, NEW t \in Txs, HandlerConfirm(q, t)
      PROVE  status'[o] = "Confirmed"
  BY <1>3 DEF HandlerConfirm, Transition, TypeOK
<1>4. ASSUME NEW q \in Procs, NEW t \in Txs,
             HandlerRequote(q, t) \/ HandlerPay(q, t) \/ HandlerSkip(q, t)
      PROVE  FALSE
  BY <1>4 DEF HandlerRequote, HandlerPay, HandlerSkip, dbVars
<1>5. ASSUME NEW q \in Procs,
             \/ ClearingStart(q) \/ ClearingNextPage(q) \/ ClearingFinish(q)
             \/ ClearingFault(q) \/ ClearingCheck(q) \/ Crash(q)
             \/ ExpirationFetch(q) \/ ExpirationFilter(q)
      PROVE  FALSE
  BY <1>5 DEF ClearingStart, ClearingNextPage, ClearingCheck, ClearingFinish, ClearingFault,
     Crash, ExpirationFetch, ExpirationFilter, dbVars
<1>6. ASSUME NEW q \in Procs, SettlementStep(q) \/ SettlementTimeout(q)
      PROVE  status'[o] \in Settled
  BY <1>6 DEF SettlementStep, SettlementTimeout, SettlementFetch, SettlementNext,
     SettlementVerify, SettlementReserve, SettlementSend, SettlementReceipt,
     SettlementHash, SettlementStatus, SettlementSkip, Transition, Settled, dbVars, TypeOK
<1>7. ASSUME \/ \E x \in Orders : CreateOrder(x) \/ Age(x)
             \/ \E x \in Txs : Pay(x)
             \/ NewDay
             \/ UNCHANGED vars
      PROVE  status[o] = "None" /\ status'[o] = "Requested"
  BY <1>7 DEF CreateOrder, Age, Pay, NewDay, Transition, vars, dbVars, TypeOK
<1>. QED
  BY <1>1, <1>2, <1>3, <1>4, <1>5, <1>6, <1>7
     DEF Next, ClearingStep, HandlerStep, ExpirationStep

(* Time does not run backwards. *)
LEMMA Ageing ==
  ASSUME TypeOK, [Next]_vars, NEW o \in Orders
  PROVE  age[o] <= age'[o]
<1>0. age[o] \in Nat
  <2>1. age \in [Orders -> 0..2]
    BY DEF TypeOK
  <2>. QED  BY <2>1
<1>1. CASE \E x \in Orders : Age(x)
  <2>1. PICK x \in Orders : age' = [age EXCEPT ![x] = @ + 1]
    BY <1>1 DEF Age
  <2>2. age'[o] = age[o] \/ age'[o] = age[o] + 1
    BY <2>1 DEF TypeOK
  <2>. QED  BY <1>0, <2>2
<1>2. CASE ~\E x \in Orders : Age(x)
  <2>1. ASSUME NEW q \in Procs, ClearingStep(q) \/ ClearingFault(q) PROVE UNCHANGED age
    BY <2>1 DEF ClearingStep, ClearingStart, ClearingNextPage, ClearingCheck, ClearingFinish,
     ClearingFault, HandlerStep, HandlerExpire, HandlerRequote, HandlerPay, HandlerConfirm,
     HandlerSkip, world
  <2>2. ASSUME NEW q \in Procs, SettlementStep(q) \/ SettlementTimeout(q) PROVE UNCHANGED age
    BY <2>2 DEF SettlementStep, SettlementTimeout, SettlementFetch, SettlementNext,
       SettlementVerify, SettlementReserve, SettlementSend, SettlementReceipt,
       SettlementHash, SettlementStatus, SettlementSkip, world
  <2>3. ASSUME NEW q \in Procs, ExpirationStep(q) \/ Crash(q) PROVE UNCHANGED age
    BY <2>3 DEF ExpirationStep, ExpirationFetch, ExpirationFilter,
     ExpirationWrite, Crash, world
  <2>4. ASSUME \/ \E x \in Orders : CreateOrder(x)
               \/ \E x \in Txs : Pay(x)
               \/ NewDay
               \/ UNCHANGED vars
        PROVE  UNCHANGED age
    BY <2>4 DEF CreateOrder, Pay, NewDay, vars, world
  <2>5. UNCHANGED age
    BY <1>2, <2>1, <2>2, <2>3, <2>4 DEF Next
  <2>. QED  BY <1>0, <2>5
<1>. QED  BY <1>1, <1>2

(* While an order is payable nobody finds it expired. *)
LEMMA NoEarlyThreat ==
  ASSUME TypeOK, [Next]_vars, NEW o \in Orders, Unthreatened(o),
         age[o] = 0, status[o] # "Expired"
  PROVE  Unthreatened(o)'
<1>1. ASSUME NEW p \in Procs, o \in expiring'[p] PROVE FALSE
  BY <1>1, ExpirationsTake DEF Unthreatened
<1>2. ASSUME NEW p \in Procs, NEW t \in Txs, OrderOf[t] = o,
             handler'[p][t] \in {"expire", "Expired"}
      PROVE  FALSE
  <2>1. handler[p][t] \notin {"expire", "Expired"}
    BY <1>2 DEF Unthreatened
  <2>2. handler[p][t] \in Copies /\ IsExpired(handler[p][t], o)
    BY <1>2, <2>1, HandlersStart DEF Copies
  <2>. QED  BY <2>1, <2>2 DEF IsExpired
<1>. QED  BY <1>1, <1>2 DEF Unthreatened

(* No new threat comes up to an order that is paid and not requested, once no
   clearing holds a copy of it. *)
LEMMA NoLateThreat ==
  ASSUME TypeOK, [Next]_vars, NEW o \in Orders, Unthreatened(o), ~Unchecked(o),
         payment[o] # NoTx, status[o] # "Requested"
  PROVE  Unthreatened(o)' /\ ~Unchecked(o)'
<1>1. ASSUME NEW p \in Procs, o \in expiring'[p] PROVE FALSE
  BY <1>1, ExpirationsTake DEF Unthreatened
<1>2. ASSUME NEW p \in Procs, NEW t \in Txs, OrderOf[t] = o,
             handler'[p][t] \in {"expire"} \cup Copies
      PROVE  FALSE
  <2>1. handler[p][t] \notin {"expire"} \cup Copies
    BY <1>2 DEF Unthreatened, Unchecked
  <2>2. Acceptable(t)
    BY <1>2, <2>1, HandlersStart
  <2>. QED  BY <1>2, <2>2 DEF Acceptable
<1>. QED  BY <1>1, <1>2 DEF Unthreatened, Unchecked, Copies

LEMMA PunctualStep ==
  ASSUME IInv, Punctual, [Next]_vars
  PROVE  Punctual'
<1>. USE DEF IInv
<1>1. SUFFICES ASSUME NEW o \in Orders, age'[o] = 0
               PROVE  status'[o] # "Expired" /\ Unthreatened(o)'
  BY DEF Punctual
<1>2. age[o] = 0
  <2>1. age[o] \in Nat /\ age[o] <= age'[o]
    BY Ageing DEF TypeOK
  <2>. QED  BY <1>1, <2>1
<1>3. status[o] # "Expired" /\ Unthreatened(o)
  BY <1>2 DEF Punctual
<1>4. Unthreatened(o)'
  BY <1>2, <1>3, NoEarlyThreat
<1>. QED  BY <1>3, <1>4, StatusWritten DEF Settled

LEMMA AlwaysPunctual == Spec => []Punctual
<1>1. Init => Punctual
  BY DEF Init, Punctual, Unthreatened
<1>. QED  BY <1>1, PunctualStep, Invariance, PTL DEF Spec

LEMMA SafeStep ==
  ASSUME IInv, [Next]_vars, NEW o \in Orders, Safe(o)
  PROVE  Safe(o)'
<1>. USE DEF IInv
<1>1. payment[o] # NoTx /\ status[o] \notin {"Requested", "None"}
  BY DEF Safe, QueuePaid, RowsOrdered, Settled
<1>2. Unthreatened(o) /\ ~Unchecked(o)
  BY DEF Safe, StaleExpiry, Unthreatened, Unchecked, Copies
<1>3. Unthreatened(o)' /\ ~Unchecked(o)'
  BY <1>1, <1>2, NoLateThreat
<1>4. ~StaleExpiry(o)'
  BY <1>3 DEF StaleExpiry, Unthreatened, Unchecked, Copies
<1>5. status'[o] \in {"Confirmed"} \cup Settled
  BY <1>1, <1>2, StatusWritten DEF Safe
<1>. QED  BY <1>4, <1>5 DEF Safe

LEMMA SafeInTime ==
  ASSUME Punctual, NEW o \in Orders, status[o] = "Confirmed", age[o] = 0, ~Unchecked(o)
  PROVE  Safe(o)
BY DEF Punctual, Safe, StaleExpiry, Unthreatened, Unchecked, Copies

(* An order that was confirmed before it expired is safe from every expiration,
   and from every clearing that read it later or had looked at the clock already. *)
THEOREM ConfirmedInTimeIsSafe == Spec => ConfirmedInTimeStays
<1>1. Punctual => \A o \in Orders :
        status[o] = "Confirmed" /\ age[o] = 0 /\ ~Unchecked(o) => Safe(o)
  BY SafeInTime
<1>2. IInv /\ [Next]_vars => [\A o \in Orders : Safe(o) => Safe(o)']_vars
  BY SafeStep
<1>. QED  BY <1>1, <1>2, AlwaysPunctual, Invariance, PTL DEF Spec, ConfirmedInTimeStays

LEMMA AlwaysSafe ==
  ASSUME NEW o \in Orders
  PROVE  Spec => [](Safe(o) => [](status[o] \in {"Confirmed"} \cup Settled))
<1>1. IInv /\ Safe(o) /\ [Next]_vars => Safe(o)'
  BY SafeStep
<1>2. Safe(o) => status[o] \in {"Confirmed"} \cup Settled
  BY DEF Safe
<1>. QED  BY <1>1, <1>2, Invariance, PTL DEF Spec

(* Hence its status is never taken back: from a moment at which it stands
   confirmed in time and no clearing has a copy to check, it is Confirmed or
   settled for ever. *)
THEOREM ConfirmedInTimeIsFinal ==
  ASSUME NEW o \in Orders
  PROVE  Spec => [](status[o] = "Confirmed" /\ age[o] = 0 /\ ~Unchecked(o) =>
                      [](status[o] \in {"Confirmed"} \cup Settled))
<1>1. Punctual /\ status[o] = "Confirmed" /\ age[o] = 0 /\ ~Unchecked(o) => Safe(o)
  BY SafeInTime
<1>. QED  BY <1>1, AlwaysPunctual, AlwaysSafe, PTL

(* While a process holds copies no handler of the page has begun, so that with
   no other process the orders are still as unpaid as they were read. *)
CopiesFresh ==
  \A p \in Procs, t \in Txs : handler[p][t] \in Copies =>
    /\ payment[OrderOf[t]] = NoTx
    /\ \A x \in Txs : handler[p][x] \in {"idle"} \cup Copies

LEMMA CopiesFreshStep ==
  ASSUME TypeOK, \A p, q \in Procs : p = q, CopiesFresh, [Next]_vars
  PROVE  CopiesFresh'
<1>1. ASSUME UNCHANGED <<payment, handler>> PROVE CopiesFresh'
  BY <1>1 DEF CopiesFresh
<1>2. ASSUME NEW p \in Procs, ClearingStart(p) \/ ClearingNextPage(p) PROVE CopiesFresh'
  <2>1. PICK k \in Nat : OpenPage(p, k)
    BY <1>2 DEF ClearingStart, ClearingNextPage, TypeOK
  <2>2. UNCHANGED payment
    BY <1>2 DEF ClearingStart, ClearingNextPage, dbVars
  <2>. QED  BY <2>1, <2>2, PageOpened DEF CopiesFresh, Acceptable, Copies
<1>3. ASSUME NEW p \in Procs, ClearingFinish(p) \/ Crash(p) PROVE CopiesFresh'
  <2>1. handler' = [handler EXCEPT ![p] = [x \in Txs |-> "idle"]]
    BY <1>3 DEF ClearingFinish, Crash
  <2>. QED  BY <2>1 DEF CopiesFresh, TypeOK, Copies
<1>4. ASSUME NEW p \in Procs, ClearingCheck(p) PROVE CopiesFresh'
  BY <1>4, HandlersChecked DEF CopiesFresh, Copies
<1>5. ASSUME NEW p \in Procs, NEW t \in Txs, HandlerStep(p, t) PROVE CopiesFresh'
  <2>1. /\ handler[p][t] \notin {"idle"} \cup Copies
        /\ \E pc \in {"requote", "pay", "confirm", "credited", "skipped"} : Goto(p, t, pc)
    BY <1>5 DEF HandlerStep, HandlerExpire, HandlerRequote, HandlerPay, HandlerConfirm,
       HandlerSkip, Copies
  <2>2. \A x \in Txs : handler[p][x] \notin Copies
    BY <2>1 DEF CopiesFresh
  <2>3. \A x \in Txs : handler'[p][x] \notin Copies
    BY <2>1, <2>2, HandlerMoved DEF HandlerPcs, Copies
  <2>. QED  BY <2>3 DEF CopiesFresh
<1>6. ASSUME NEW p \in Procs, \/ SettlementStep(p) \/ SettlementTimeout(p)
                             \/ ExpirationStep(p) \/ ClearingFault(p)
      PROVE  CopiesFresh'
  BY <1>1, <1>6, PayFrame
<1>7. ASSUME \/ \E o \in Orders : CreateOrder(o) \/ Age(o)
             \/ \E t \in Txs : Pay(t)
             \/ NewDay
             \/ UNCHANGED vars
      PROVE  CopiesFresh'
  BY <1>1, <1>7 DEF CreateOrder, Age, Pay, NewDay, vars, dbVars, clrVars
<1>. QED  BY <1>2, <1>3, <1>4, <1>5, <1>6, <1>7 DEF Next, ClearingStep

(* With one process an order that is confirmed in time never becomes Expired,
   whatever fails and however often that process restarts: only the overlap of
   two processes gives the transition's reason the lie. *)
THEOREM SoleProcessConfirms ==
  ASSUME \A p, q \in Procs : p = q
  PROVE  Spec => ExpiredIsPaidLate
<1>1. Init => CopiesFresh
  BY DEF Init, CopiesFresh, Copies
<1>2. IInv /\ CopiesFresh /\ [Next]_vars => CopiesFresh'
  BY CopiesFreshStep DEF IInv
<1>3. Spec => []CopiesFresh
  BY <1>1, <1>2, Invariance, PTL DEF Spec
<1>4. ASSUME NEW o \in Orders
      PROVE  Spec => [](status[o] = "Confirmed" /\ age[o] = 0 => [](status[o] # "Expired"))
  <2>1. IInv /\ CopiesFresh /\ Punctual /\ status[o] = "Confirmed" /\ age[o] = 0 => Safe(o)
    <3>. SUFFICES ASSUME IInv, CopiesFresh, Punctual, status[o] = "Confirmed", age[o] = 0
                  PROVE  Safe(o)
      OBVIOUS
    <3>1. ~Unchecked(o)
      BY DEF IInv, QueuePaid, CopiesFresh, Unchecked
    <3>. QED  BY <3>1, SafeInTime
  <2>2. status[o] \in {"Confirmed"} \cup Settled => status[o] # "Expired"
    BY DEF Settled
  <2>. QED  BY <1>3, <2>1, <2>2, AlwaysPunctual, AlwaysSafe, Invariance, PTL
<1>. QED  BY <1>4 DEF ExpiredIsPaidLate
-----------------------------------------------------------------------------
(* No credit that can pay is put aside unpaid.  A clearing has seen to every
   credit up to the end of its page, as far as its hash speaks of them; the
   hash is left only by a run that reached the last page. *)
Payable(t) == t \in Exact /\ OrderOf[t] # NoOrder

Paid(t) == payment[OrderOf[t]] # NoTx

Busy == Copies \cup {"expire", "requote", "pay"}

EndOfPage(p) == (clrPage[p] + 1) * PageSize

(* A hash speaks of entries that exist; on the last page of all of them. *)
HashesInside ==
  /\ lastHash <= Len(statement)
  /\ \A p \in Procs : /\ clrHash[p] <= Len(statement)
                      /\ clrPc[p] = "last" => clrHash[p] <= EndOfPage(p)

OrdersExist ==
  \A i \in DOMAIN statement :
    Payable(statement[i]) => status[OrderOf[statement[i]]] # "None"

Handled ==
  HandlersSucceed =>
    \A p \in Procs, i \in DOMAIN statement :
      (/\ clrPc[p] \in {"page", "last"} /\ i <= clrHash[p] /\ i <= EndOfPage(p)
       /\ Payable(statement[i]))
        => Paid(statement[i]) \/ handler[p][statement[i]] \in Busy

ShelfInv ==
  IInv /\ faults <= MaxFaults /\ HashesInside /\ OrdersExist /\ Handled /\ NothingShelved

LEMMA PayableFacts ==
  \A t : Payable(t) => t \in Txs /\ OrderOf[t] \in Orders
BY ConstantsAssumption DEF Payable, ConstantsAssumption

LEMMA EndOfPageType ==
  /\ \A k \in Nat : k * PageSize \in Nat
  /\ TypeOK => \A p \in Procs : EndOfPage(p) \in Nat
<1>1. PageSize \in Nat
  BY ConstantsAssumption DEF ConstantsAssumption
<1>2. \A k \in Nat : k * PageSize \in Nat
  BY <1>1
<1>3. ASSUME TypeOK, NEW p \in Procs
      PROVE  EndOfPage(p) \in Nat
  <2>. DEFINE k == clrPage[p] + 1
  <2>1. k \in Nat
    BY <1>3 DEF TypeOK
  <2>2. EndOfPage(p) = k * PageSize
    BY DEF EndOfPage
  <2>. HIDE DEF k
  <2>. QED  BY <1>2, <2>1, <2>2
<1>. QED  BY <1>2, <1>3

LEMMA InitShelfInv == Init => ShelfInv
<1>. HAVE Init
<1>1. IInv
  BY InvInit
<1>2. statement = <<>> /\ DOMAIN statement = {} /\ Len(statement) = 0
  BY DEF Init
<1>. QED
  BY <1>1, <1>2, ConstantsAssumption
     DEF Init, ShelfInv, HashesInside, OrdersExist, Handled, NothingShelved, PutAside,
     ConstantsAssumption

(* The budget of faults goes down, and what was paid stays paid. *)
LEMMA FaultsGoDown ==
  ASSUME ShelfInv, [Next]_vars
  PROVE  /\ faults' <= faults /\ faults' <= MaxFaults
         /\ HandlersSucceed' => HandlersSucceed
         /\ Fails("handler") => ~HandlersSucceed'
<1>1. faults \in Nat /\ MaxFaults \in Nat /\ faults <= MaxFaults
  BY ConstantsAssumption DEF ShelfInv, IInv, TypeOK, ConstantsAssumption
<1>2. faults' \in {faults, faults - 1}
  <2>1. ASSUME NEW p \in Procs, ClearingStep(p) \/ ClearingFault(p)
        PROVE  faults' \in {faults, faults - 1}
    BY <2>1 DEF ClearingStep, HandlerStep, ClearingStart, ClearingNextPage, ClearingCheck,
       ClearingFinish,
       ClearingFault, HandlerExpire, HandlerRequote, HandlerPay, HandlerConfirm, HandlerSkip,
       Fails, budget
  <2>2. ASSUME NEW p \in Procs, SettlementStep(p) \/ SettlementTimeout(p)
        PROVE  faults' \in {faults, faults - 1}
    BY <2>2 DEF SettlementStep, SettlementTimeout, SettlementFetch, SettlementNext,
       SettlementVerify, SettlementReserve, SettlementSend, SettlementReceipt, SettlementHash,
       SettlementStatus, SettlementSkip, Fails, budget
  <2>3. ASSUME NEW p \in Procs, ExpirationStep(p) \/ Crash(p)
        PROVE  faults' \in {faults, faults - 1}
    BY <2>3 DEF ExpirationStep, ExpirationFetch, ExpirationFilter,
     ExpirationWrite, Crash, Fails, budget
  <2>4. ASSUME \/ \E o \in Orders : CreateOrder(o) \/ Age(o)
               \/ \E t \in Txs : Pay(t)
               \/ NewDay \/ UNCHANGED vars
        PROVE  faults' \in {faults, faults - 1}
    BY <2>4 DEF CreateOrder, Age, Pay, NewDay, vars, budget
  <2>. QED  BY <2>1, <2>2, <2>3, <2>4 DEF Next
<1>. QED  BY <1>1, <1>2 DEF HandlersSucceed, Fails

LEMMA PaidStays ==
  ASSUME IInv, [Next]_vars
  PROVE  \A t : (Payable(t) /\ Paid(t)) => Paid(t)'
BY PaymentsStep, PayableFacts DEF IInv, Paid

LEMMA OrdersStay ==
  ASSUME IInv, [Next]_vars
  PROVE  \A o \in Orders : status[o] # "None" => status'[o] # "None"
<1>. SUFFICES ASSUME NEW o \in Orders, status[o] # "None" PROVE status'[o] # "None"
  OBVIOUS
<1>1. TypeOK
  BY DEF IInv
<1>2. ASSUME NEW p \in Procs, NEW t \in Txs, HandlerConfirm(p, t) PROVE status'[o] # "None"
  BY <1>1, <1>2 DEF HandlerConfirm, Transition, TypeOK
<1>3. ASSUME NEW p \in Procs,
             \/ ClearingStart(p) \/ ClearingNextPage(p) \/ ClearingFinish(p) \/ ClearingFault(p)
             \/ ClearingCheck(p)
             \/ \E t \in Txs : \/ HandlerExpire(p, t) \/ HandlerRequote(p, t)
                               \/ HandlerPay(p, t) \/ HandlerSkip(p, t)
             \/ ExpirationStep(p) \/ Crash(p)
      PROVE  status'[o] # "None"
  <2>1. status'[o] \in {status[o], "Requested", "Expired"}
    BY <1>1, <1>3, StatusFrame
  <2>. QED  BY <2>1
<1>4. ASSUME NEW p \in Procs, SettlementStep(p) \/ SettlementTimeout(p)
      PROVE  status'[o] # "None"
  <2>1. CASE SettlementStatus(p)
    BY <1>1, <2>1 DEF SettlementStatus, Transition, TypeOK
  <2>2. CASE ~SettlementStatus(p)
    BY <1>4, <2>2 DEF SettlementStep, SettlementTimeout, SettlementFetch, SettlementNext,
       SettlementVerify, SettlementReserve, SettlementSend, SettlementReceipt, SettlementHash,
       SettlementSkip, dbVars
  <2>. QED  BY <2>1, <2>2
<1>5. ASSUME NEW x \in Orders, CreateOrder(x) PROVE status'[o] # "None"
  BY <1>1, <1>5 DEF CreateOrder, Transition, TypeOK
<1>6. ASSUME \/ \E x \in Orders : Age(x)
             \/ \E t \in Txs : Pay(t)
             \/ NewDay \/ UNCHANGED vars
      PROVE  status'[o] # "None"
  BY <1>6 DEF Age, Pay, NewDay, vars, dbVars
<1>. QED
  BY <1>2, <1>3, <1>4, <1>5, <1>6 DEF Next, ClearingStep, HandlerStep

(* The steps that open no page and add no credit to the statement *)
LEMMA ShelfKept ==
  ASSUME ShelfInv, [Next]_vars, UNCHANGED statement,
         \A p \in Procs :
           /\ clrHash'[p] \in {0, clrHash[p]}
           /\ clrPc'[p] \in {"page", "last"} =>
                clrPc'[p] = clrPc[p] /\ clrPage'[p] = clrPage[p],
         lastHash' <= Len(statement),
         HandlersSucceed' =>
           /\ \A i \in DOMAIN statement :
                i <= lastHash' /\ Payable(statement[i]) => Paid(statement[i])
           /\ \A p \in Procs : \A t \in cache'[p] : t \in cache[p] \/ (Payable(t) => Paid(t))
           /\ \A p \in Procs, t \in Txs :
                clrPc'[p] \in {"page", "last"} /\ handler[p][t] \in Busy =>
                  handler'[p][t] \in Busy \/ Paid(t)'
  PROVE  HashesInside' /\ OrdersExist' /\ Handled' /\ NothingShelved'
<1>. USE DEF ShelfInv
<1>1. IInv /\ TypeOK /\ TypeOK'
  BY InvStep DEF IInv
<1>2. OrdersExist'
  BY <1>1, OrdersStay, PayableFacts DEF OrdersExist
<1>3. \A p \in Procs : clrPc'[p] \in {"page", "last"} => EndOfPage(p)' = EndOfPage(p)
  BY DEF EndOfPage
<1>4. HashesInside'
  <2>1. Len(statement) \in Nat
    BY <1>1 DEF TypeOK
  <2>2. ASSUME NEW p \in Procs
        PROVE  /\ clrHash'[p] <= Len(statement)
               /\ clrPc'[p] = "last" => clrHash'[p] <= EndOfPage(p)'
    BY <1>1, <1>3, <2>1, EndOfPageType DEF HashesInside
  <2>. QED  BY <2>2 DEF HashesInside
<1>5. ASSUME HandlersSucceed' PROVE HandlersSucceed
  BY <1>5, FaultsGoDown
<1>6. Handled'
  <2>1. SUFFICES ASSUME HandlersSucceed', NEW p \in Procs, NEW i \in DOMAIN statement,
                        clrPc'[p] \in {"page", "last"}, i <= clrHash'[p], i <= EndOfPage(p)',
                        Payable(statement[i])
                 PROVE  Paid(statement[i])' \/ handler'[p][statement[i]] \in Busy
    BY DEF Handled
  <2>2. clrHash'[p] = clrHash[p]
    BY <1>1, <2>1 DEF TypeOK
  <2>3. Paid(statement[i]) \/ handler[p][statement[i]] \in Busy
    BY <1>3, <1>5, <2>1, <2>2 DEF Handled
  <2>. QED  BY <1>1, <2>1, <2>3, PaidStays, PayableFacts
<1>7. NothingShelved'
  <2>1. SUFFICES ASSUME HandlersSucceed', NEW t \in Exact, OrderOf[t] # NoOrder, PutAside(t)'
                 PROVE  Paid(t)'
    BY DEF NothingShelved, Paid
  <2>2. Payable(t)
    BY <2>1 DEF Payable
  <2>3. CASE \E i \in DOMAIN statement : i <= lastHash' /\ statement[i] = t
    BY <1>1, <2>1, <2>2, <2>3, PaidStays
  <2>4. ASSUME NEW p \in Procs, t \in cache'[p] PROVE Paid(t)'
    <3>1. t \in cache[p] \/ Paid(t)
      BY <2>1, <2>2, <2>4
    <3>2. t \in cache[p] => Paid(t)
      BY <1>5, <2>1 DEF NothingShelved, PutAside, Paid
    <3>. QED  BY <1>1, <2>2, <3>1, <3>2, PaidStays
  <2>. QED  BY <2>1, <2>3, <2>4 DEF PutAside
<1>. QED  BY <1>2, <1>4, <1>6, <1>7

(* What is on a page and is not handled was paid before. *)
LEMMA PageHandled ==
  ASSUME ShelfInv, HandlersSucceed, NEW p \in Procs, NEW k \in Nat, OpenPage(p, k)
  PROVE  /\ \A i \in PageIndices(k) :
              Payable(statement[i]) => Paid(statement[i]) \/ handler'[p][statement[i]] \in Busy
         /\ \A q \in Procs : \A t \in cache'[q] : Payable(t) => Paid(t)
<1>. USE DEF ShelfInv
<1>1. TypeOK /\ PageTxs(k) \subseteq Txs
  BY DEF IInv, TypeOK, PageTxs, PageIndices
<1>2. \A q \in Procs : \A t \in cache[q] : Payable(t) => Paid(t)
  BY DEF NothingShelved, PutAside, Payable, Paid
<1>3. \A t \in PageTxs(k) : (Payable(t) /\ ~Acceptable(t)) => Paid(t)
  <2>. SUFFICES ASSUME NEW i \in PageIndices(k), Payable(statement[i]),
                       ~Acceptable(statement[i]), ~Paid(statement[i])
                PROVE  FALSE
    BY DEF PageTxs
  <2>. DEFINE o == OrderOf[statement[i]]
  <2>1. o \in Orders /\ payment[o] = NoTx /\ status[o] # "None"
    BY PayableFacts DEF Paid, OrdersExist, PageIndices
  <2>2. status[o] \notin {"Requested", "Expired"}
    BY <2>1 DEF Acceptable, Payable, Copies
  <2>3. status[o] \in {"Confirmed"} \cup Settled
    BY <1>1, <2>1, <2>2 DEF TypeOK, Statuses, Settled
  <2>. QED  BY <2>1, <2>3 DEF IInv, QueuePaid, RowsOrdered, Settled
<1>. DEFINE accepted == {t \in PageTxs(k) \ cache[p] : Acceptable(t)}
            row == [t \in Txs |-> IF t \in accepted THEN status[OrderOf[t]] ELSE "idle"]
<1>4. /\ handler' = [handler EXCEPT ![p] = row]
      /\ cache'   = [cache EXCEPT ![p] = @ \cup (PageTxs(k) \ accepted)]
  BY DEF OpenPage
<1>5. \A t \in PageTxs(k) \ accepted : Payable(t) => Paid(t)
  BY <1>2, <1>3
<1>6. \A t \in accepted : t \in Txs /\ row[t] \in Busy
  BY <1>1 DEF Acceptable, Busy
<1>. HIDE DEF accepted, row
<1>7. handler'[p] = row /\ cache'[p] = cache[p] \cup (PageTxs(k) \ accepted)
  BY <1>1, <1>4 DEF TypeOK
<1>8. \A q \in Procs \ {p} : cache'[q] = cache[q]
  BY <1>1, <1>4 DEF TypeOK
<1>9. \A q \in Procs : \A t \in cache'[q] : Payable(t) => Paid(t)
  BY <1>2, <1>5, <1>7, <1>8
<1>10. ASSUME NEW i \in PageIndices(k), Payable(statement[i])
       PROVE  Paid(statement[i]) \/ handler'[p][statement[i]] \in Busy
  <2>1. statement[i] \in PageTxs(k)
    BY DEF PageTxs
  <2>. QED  BY <1>5, <1>6, <1>7, <1>10, <2>1
<1>. QED  BY <1>9, <1>10

(* A clearing opens a page: all credits before it were seen to. *)
LEMMA OpeningKeeps ==
  ASSUME ShelfInv, [Next]_vars, NEW p \in Procs, NEW k \in Nat, OpenPage(p, k),
         UNCHANGED <<statement, lastHash, payment>>,
         clrHash'[p] <= Len(statement),
         \A q \in Procs \ {p} : clrHash'[q] = clrHash[q],
         HandlersSucceed =>
           \A i \in DOMAIN statement :
             (i <= k * PageSize /\ i <= clrHash'[p] /\ Payable(statement[i]))
               => Paid(statement[i])
  PROVE  HashesInside' /\ OrdersExist' /\ Handled' /\ NothingShelved'
<1>. USE DEF ShelfInv
<1>1. IInv /\ TypeOK /\ TypeOK'
  BY InvStep DEF IInv
<1>2. OrdersExist'
  BY <1>1, OrdersStay, PayableFacts DEF OrdersExist
<1>3. /\ clrPage'[p] = k
      /\ clrPc'[p] = IF IsLastPage(k) THEN "last" ELSE "page"
      /\ \A q \in Procs \ {p} : clrPage'[q] = clrPage[q] /\ clrPc'[q] = clrPc[q]
  BY <1>1 DEF OpenPage, TypeOK
<1>4. \A q \in Procs \ {p} : handler'[q] = handler[q]
  BY <1>1, PageOpened
<1>5. EndOfPage(p)' = (k + 1) * PageSize /\ \A q \in Procs \ {p} : EndOfPage(q)' = EndOfPage(q)
  BY <1>3 DEF EndOfPage
<1>6. HashesInside'
  <2>1. clrPc'[p] = "last" => Len(statement) <= (k + 1) * PageSize
    BY <1>3 DEF IsLastPage
  <2>2. Len(statement) \in Nat /\ clrHash'[p] \in Nat
    BY <1>1 DEF TypeOK
  <2>3. clrPc'[p] = "last" => clrHash'[p] <= EndOfPage(p)'
    <3>. DEFINE j == k + 1
    <3>1. j \in Nat
      OBVIOUS
    <3>. HIDE DEF j
    <3>2. j * PageSize \in Nat
      BY <3>1, EndOfPageType
    <3>. USE DEF j
    <3>. DEFINE last == (k + 1) * PageSize
    <3>3. last \in Nat /\ EndOfPage(p)' = last /\ (clrPc'[p] = "last" => Len(statement) <= last)
      BY <1>5, <2>1, <3>2
    <3>4. clrHash'[p] <= Len(statement)
      OBVIOUS
    <3>. HIDE DEF last, j
    <3>. QED  BY <2>2, <3>3, <3>4
  <2>. QED  BY <1>3, <1>5, <2>3 DEF HashesInside
<1>7. HandlersSucceed' => HandlersSucceed
  BY FaultsGoDown
<1>8. ASSUME HandlersSucceed', NEW i \in DOMAIN statement, i <= clrHash'[p],
             i <= (k + 1) * PageSize, Payable(statement[i])
      PROVE  Paid(statement[i]) \/ handler'[p][statement[i]] \in Busy
  <2>1. CASE i <= k * PageSize
    BY <1>7, <1>8, <2>1
  <2>2. CASE ~(i <= k * PageSize)
    <3>1. i \in Int /\ k * PageSize \in Nat
      BY <1>1, EndOfPageType DEF TypeOK
    <3>2. i \in PageIndices(k)
      BY <1>8, <2>2, <3>1 DEF PageIndices
    <3>. QED  BY <1>7, <1>8, <3>2, PageHandled
  <2>. QED  BY <2>1, <2>2
<1>9. Handled'
  <2>1. SUFFICES ASSUME HandlersSucceed', NEW q \in Procs, NEW i \in DOMAIN statement,
                        clrPc'[q] \in {"page", "last"}, i <= clrHash'[q], i <= EndOfPage(q)',
                        Payable(statement[i])
                 PROVE  Paid(statement[i]) \/ handler'[q][statement[i]] \in Busy
    BY DEF Handled, Paid
  <2>2. CASE q = p
    BY <1>5, <1>8, <2>1, <2>2
  <2>3. CASE q # p
    BY <1>3, <1>4, <1>5, <1>7, <2>1, <2>3 DEF Handled
  <2>. QED  BY <2>2, <2>3
<1>10. NothingShelved'
  <2>1. SUFFICES ASSUME HandlersSucceed', NEW t \in Exact, OrderOf[t] # NoOrder, PutAside(t)'
                 PROVE  Paid(t)
    BY DEF NothingShelved, Paid
  <2>2. CASE \E i \in DOMAIN statement : i <= lastHash /\ statement[i] = t
    BY <1>7, <2>1, <2>2 DEF NothingShelved, PutAside, Paid
  <2>3. CASE \E q \in Procs : t \in cache'[q]
    BY <1>7, <2>1, <2>3, PageHandled DEF Payable
  <2>. QED  BY <2>1, <2>2, <2>3 DEF PutAside
<1>. QED  BY <1>2, <1>6, <1>9, <1>10

(* A new credit is behind every hash. *)
LEMMA PayKeeps ==
  ASSUME ShelfInv, [Next]_vars, NEW t \in Txs, Pay(t)
  PROVE  HashesInside' /\ OrdersExist' /\ Handled' /\ NothingShelved'
<1>. USE DEF ShelfInv
<1>1. TypeOK
  BY DEF IInv
<1>2. /\ statement' = Append(statement, t)
      /\ UNCHANGED <<status, payment, lastHash, clrPc, clrPage, clrHash, handler, cache, faults>>
      /\ OrderOf[t] # NoOrder => status[OrderOf[t]] # "None"
  BY DEF Pay, dbVars, clrVars, budget
<1>. DEFINE n == Len(statement)
<1>3. /\ n \in Nat /\ DOMAIN statement = 1 .. n
      /\ Len(statement') = n + 1 /\ DOMAIN statement' = 1 .. n + 1
      /\ \A i \in 1 .. n : statement'[i] = statement[i]
      /\ statement'[n + 1] = t
  BY <1>1, <1>2 DEF TypeOK
<1>. HIDE DEF n
<1>4. lastHash \in Nat /\ lastHash <= n /\ \A p \in Procs : clrHash[p] \in Nat /\ clrHash[p] <= n
  BY <1>1 DEF HashesInside, TypeOK, n
<1>5. HashesInside'
  <2>1. lastHash <= n + 1 /\ \A p \in Procs : clrHash[p] <= n + 1
    BY <1>3, <1>4
  <2>. QED  BY <1>2, <1>3, <2>1 DEF HashesInside, EndOfPage
<1>6. OrdersExist'
  <2>1. SUFFICES ASSUME NEW i \in 1 .. n + 1, Payable(statement'[i])
                 PROVE  status[OrderOf[statement'[i]]] # "None"
    BY <1>2, <1>3 DEF OrdersExist
  <2>2. CASE i = n + 1
    BY <1>2, <1>3, <2>1, <2>2 DEF Payable
  <2>3. CASE i # n + 1
    <3>1. i \in 1 .. n
      BY <1>3, <2>3
    <3>. QED  BY <1>3, <2>1, <3>1 DEF OrdersExist
  <2>. QED  BY <2>2, <2>3
<1>7. \A i \in DOMAIN statement' :
        \A h \in Nat : h <= n /\ i <= h => i \in DOMAIN statement /\ statement'[i] = statement[i]
  BY <1>3
<1>8. HandlersSucceed' = HandlersSucceed
  BY <1>2 DEF HandlersSucceed
<1>9. Handled'
  <2>1. SUFFICES ASSUME HandlersSucceed, NEW p \in Procs, NEW i \in DOMAIN statement',
                        clrPc[p] \in {"page", "last"}, i <= clrHash[p], i <= EndOfPage(p),
                        Payable(statement'[i])
                 PROVE  Paid(statement'[i]) \/ handler[p][statement'[i]] \in Busy
    BY <1>2, <1>8 DEF Handled, Paid, EndOfPage
  <2>2. i \in DOMAIN statement /\ statement'[i] = statement[i]
    BY <1>4, <1>7, <2>1
  <2>. QED  BY <2>1, <2>2 DEF Handled
<1>10. NothingShelved'
  <2>1. SUFFICES ASSUME HandlersSucceed, NEW x \in Exact, OrderOf[x] # NoOrder, PutAside(x)'
                 PROVE  Paid(x)
    BY <1>2, <1>8 DEF NothingShelved, Paid
  <2>2. PutAside(x)
    BY <1>2, <1>4, <1>7, <2>1 DEF PutAside
  <2>. QED  BY <2>1, <2>2 DEF NothingShelved, Paid
<1>. QED  BY <1>5, <1>6, <1>9, <1>10

LEMMA ClearingShelf ==
  ASSUME ShelfInv, [Next]_vars, NEW p \in Procs,
         \/ ClearingStart(p) \/ ClearingNextPage(p) \/ ClearingCheck(p)
         \/ ClearingFault(p) \/ ClearingFinish(p)
  PROVE  HashesInside' /\ OrdersExist' /\ Handled' /\ NothingShelved'
<1>. USE DEF ShelfInv
<1>1. TypeOK /\ TypeOK'
  BY InvStep DEF IInv
<1>2. CASE ClearingStart(p)
  <2>1. /\ OpenPage(p, 0) /\ UNCHANGED <<statement, lastHash, payment>>
        /\ clrHash' = [clrHash EXCEPT ![p] = Len(statement)]
    BY <1>2 DEF ClearingStart, dbVars, world
  <2>2. /\ clrHash'[p] = Len(statement) /\ Len(statement) \in Nat
        /\ \A q \in Procs \ {p} : clrHash'[q] = clrHash[q]
    BY <1>1, <2>1 DEF TypeOK
  <2>3. 0 * PageSize = 0
    BY ConstantsAssumption DEF ConstantsAssumption
  <2>4. \A i \in DOMAIN statement : ~(i <= 0 * PageSize)
    <3>1. DOMAIN statement = 1 .. Len(statement)
      BY <1>1 DEF TypeOK
    <3>. QED  BY <2>2, <2>3, <3>1
  <2>. QED  BY <2>1, <2>2, <2>4, OpeningKeeps
<1>3. CASE ClearingNextPage(p)
  <2>. DEFINE k == clrPage[p] + 1
  <2>1. /\ clrPc[p] = "page" /\ PageSettled(p)
        /\ OpenPage(p, k) /\ UNCHANGED <<statement, lastHash, payment, clrHash>>
    BY <1>3 DEF ClearingNextPage, dbVars, world
  <2>2. k \in Nat /\ k * PageSize = EndOfPage(p)
    BY <1>1 DEF EndOfPage, TypeOK
  <2>3. ASSUME HandlersSucceed, NEW i \in DOMAIN statement, i <= k * PageSize,
               i <= clrHash[p], Payable(statement[i])
        PROVE  Paid(statement[i])
    <3>1. Paid(statement[i]) \/ handler[p][statement[i]] \in Busy
      BY <2>1, <2>2, <2>3 DEF Handled
    <3>. QED  BY <2>1, <2>3, <3>1, PayableFacts DEF PageSettled, Busy, Copies
  <2>4. clrHash[p] <= Len(statement)
    BY DEF HashesInside
  <2>. HIDE DEF k
  <2>. QED  BY <2>1, <2>2, <2>3, <2>4, OpeningKeeps
<1>4. CASE ClearingFault(p)
  <2>1. /\ UNCHANGED <<statement, lastHash, clrPage, clrHash, handler, cache>>
        /\ clrPc'[p] = "faulted" /\ \A q \in Procs \ {p} : clrPc'[q] = clrPc[q]
    BY <1>1, <1>4 DEF ClearingFault, dbVars, world, TypeOK
  <2>2. lastHash' <= Len(statement)
    BY <2>1 DEF HashesInside
  <2>3. HandlersSucceed' =>
          \A i \in DOMAIN statement :
            i <= lastHash' /\ Payable(statement[i]) => Paid(statement[i])
    BY <2>1, FaultsGoDown DEF NothingShelved, PutAside, Payable, Paid
  <2>. QED  BY <2>1, <2>2, <2>3, ShelfKept
<1>5. CASE ClearingFinish(p)
  <2>1. /\ PageSettled(p) /\ UNCHANGED <<statement, payment>>
        /\ lastHash' \in {lastHash, HashLeft(p)}
        /\ clrPc'[p] = "idle" /\ clrHash'[p] = 0 /\ cache'[p] \subseteq cache[p]
        /\ \A q \in Procs \ {p} :
             UNCHANGED <<clrPc[q], clrPage[q], clrHash[q], handler[q], cache[q]>>
    BY <1>1, <1>5 DEF ClearingFinish, world, TypeOK
  <2>2. lastHash' = lastHash \/ (clrPc[p] = "last" /\ lastHash' = clrHash[p])
    BY <2>1 DEF HashLeft
  <2>3. lastHash' <= Len(statement)
    BY <2>2 DEF HashesInside
  <2>4. ASSUME HandlersSucceed', NEW i \in DOMAIN statement, i <= lastHash',
               Payable(statement[i])
        PROVE  Paid(statement[i])
    <3>1. HandlersSucceed
      BY <2>4, FaultsGoDown
    <3>2. CASE lastHash' = lastHash
      BY <2>4, <3>1, <3>2 DEF NothingShelved, PutAside, Payable, Paid
    <3>3. CASE clrPc[p] = "last" /\ lastHash' = clrHash[p]
      <4>1. i <= EndOfPage(p)
        <5>1. clrHash[p] <= EndOfPage(p) /\ i <= clrHash[p]
          BY <2>4, <3>3 DEF HashesInside
        <5>2. DOMAIN statement = 1 .. Len(statement) /\ Len(statement) \in Nat
          BY <1>1 DEF TypeOK
        <5>3. clrHash[p] \in Nat
          BY <1>1 DEF TypeOK
        <5>4. EndOfPage(p) \in Nat
          BY <1>1, EndOfPageType
        <5>. QED  BY <2>4, <5>1, <5>2, <5>3, <5>4
      <4>2. Paid(statement[i]) \/ handler[p][statement[i]] \in Busy
        BY <2>4, <3>1, <3>3, <4>1 DEF Handled
      <4>. QED  BY <2>1, <2>4, <4>2, PayableFacts DEF PageSettled, Busy, Copies
    <3>. QED  BY <2>2, <3>2, <3>3
  <2>. QED  BY <2>1, <2>3, <2>4, ShelfKept
<1>6. CASE ClearingCheck(p)
  <2>1. UNCHANGED <<statement, lastHash, clrPc, clrPage, clrHash, cache>>
    BY <1>6 DEF ClearingCheck, dbVars, world
  <2>2. lastHash' <= Len(statement)
    BY <2>1 DEF HashesInside
  <2>3. HandlersSucceed' =>
          \A i \in DOMAIN statement :
            i <= lastHash' /\ Payable(statement[i]) => Paid(statement[i])
    BY <2>1, FaultsGoDown DEF NothingShelved, PutAside, Payable, Paid
  <2>4. \A q \in Procs, t \in Txs : handler[q][t] \in Busy => handler'[q][t] \in Busy
    BY <1>1, <1>6, HandlersChecked DEF Busy
  <2>. QED  BY <2>1, <2>2, <2>3, <2>4, ShelfKept
<1>. QED  BY <1>2, <1>3, <1>4, <1>5, <1>6

LEMMA HandlersShelf ==
  ASSUME ShelfInv, [Next]_vars, NEW p \in Procs, NEW t \in Txs, HandlerStep(p, t)
  PROVE  HashesInside' /\ OrdersExist' /\ Handled' /\ NothingShelved'
<1>. USE DEF ShelfInv
<1>1. TypeOK /\ PaymentsExact
  BY DEF IInv
<1>2. UNCHANGED <<statement, lastHash, clrPc, clrPage, clrHash>>
  BY DEF HandlerStep, HandlerExpire, HandlerRequote, HandlerPay, HandlerConfirm, HandlerSkip,
     dbVars, world
<1>3. lastHash' <= Len(statement)
  BY <1>2 DEF HashesInside
<1>4. HandlersSucceed' =>
        \A i \in DOMAIN statement :
          i <= lastHash' /\ Payable(statement[i]) => Paid(statement[i])
  BY <1>2, FaultsGoDown DEF NothingShelved, PutAside, Payable, Paid
<1>5. SUFFICES ASSUME HandlersSucceed'
               PROVE  /\ \A q \in Procs : \A x \in cache'[q] :
                           x \in cache[q] \/ (Payable(x) => Paid(x))
                      /\ \A q \in Procs, x \in Txs :
                           handler[q][x] \in Busy => handler'[q][x] \in Busy \/ Paid(x)'
  BY <1>2, <1>3, <1>4, ShelfKept
<1>6. \A pc \in HandlerPcs : Goto(p, t, pc) =>
        /\ handler'[p][t] = pc
        /\ \A q \in Procs, x \in Txs : q # p \/ x # t => handler'[q][x] = handler[q][x]
  BY <1>1, HandlerMoved
<1>7. CASE HandlerExpire(p, t) \/ HandlerRequote(p, t)
  <2>1. UNCHANGED cache /\ \E pc \in Busy : Goto(p, t, pc)
    BY <1>7 DEF HandlerExpire, HandlerRequote, Busy
  <2>. QED  BY <1>6, <2>1 DEF Busy, HandlerPcs, Copies
<1>8. CASE HandlerPay(p, t)
  <2>1. /\ UNCHANGED cache /\ Goto(p, t, "confirm") /\ handler[p][t] = "pay"
        /\ payment' = [payment EXCEPT ![OrderOf[t]] = t]
    BY <1>8 DEF HandlerPay
  <2>2. OrderOf[t] \in Orders /\ t # NoTx
    BY <1>1, <2>1, ConstantsAssumption DEF PaymentsExact, ConstantsAssumption
  <2>3. Paid(t)'
    BY <1>1, <2>1, <2>2 DEF Paid, TypeOK
  <2>. QED  BY <1>6, <2>1, <2>3 DEF HandlerPcs
<1>9. CASE HandlerConfirm(p, t)
  <2>1. /\ Goto(p, t, "credited") /\ handler[p][t] = "confirm"
        /\ cache' = [cache EXCEPT ![p] = @ \cup {t}]
    BY <1>9 DEF HandlerConfirm
  <2>2. Paid(t)
    BY <2>1, <1>1 DEF PaymentsExact, Paid
  <2>3. \A q \in Procs : cache'[q] \subseteq cache[q] \cup {t}
    BY <1>1, <2>1 DEF TypeOK
  <2>. QED  BY <1>6, <2>1, <2>2, <2>3 DEF HandlerPcs, Busy, Copies
<1>10. CASE HandlerSkip(p, t)
  <2>1. /\ Goto(p, t, "skipped") /\ handler[p][t] = "pay" /\ ~PaymentInsertable(t)
        /\ cache' = [cache EXCEPT ![p] = @ \cup {t}] /\ UNCHANGED payment
    BY <1>5, <1>10, FaultsGoDown DEF HandlerSkip, dbVars
  <2>2. Paid(t) /\ Paid(t)'
    <3>1. CASE payment[OrderOf[t]] # NoTx
      BY <2>1, <3>1 DEF Paid
    <3>2. ASSUME NEW o \in Orders, payment[o] = t
          PROVE  payment[o] # NoTx /\ OrderOf[t] = o
      BY <1>1, <3>2, ConstantsAssumption DEF PaymentsExact, ConstantsAssumption
    <3>. QED  BY <2>1, <3>1, <3>2 DEF PaymentInsertable, Paid
  <2>3. \A q \in Procs : cache'[q] \subseteq cache[q] \cup {t}
    BY <1>1, <2>1 DEF TypeOK
  <2>. QED  BY <1>6, <2>1, <2>2, <2>3 DEF HandlerPcs, Busy, Copies
<1>. QED  BY <1>7, <1>8, <1>9, <1>10 DEF HandlerStep

(* The other jobs, users, clock and restarts *)
LEMMA OthersShelf ==
  ASSUME ShelfInv, [Next]_vars,
         \/ \E p \in Procs : \/ SettlementStep(p) \/ SettlementTimeout(p) \/ ExpirationStep(p)
                             \/ Crash(p)
         \/ \E o \in Orders : CreateOrder(o) \/ Age(o)
         \/ NewDay \/ UNCHANGED vars
  PROVE  HashesInside' /\ OrdersExist' /\ Handled' /\ NothingShelved'
<1>. USE DEF ShelfInv
<1>1. TypeOK
  BY DEF IInv
<1>2. HandlersSucceed' =>
        \A i \in DOMAIN statement :
          i <= lastHash /\ Payable(statement[i]) => Paid(statement[i])
  BY FaultsGoDown DEF NothingShelved, PutAside, Payable, Paid
<1>3. lastHash <= Len(statement) /\ Len(statement) \in Nat
  BY <1>1 DEF HashesInside, TypeOK
<1>4. ASSUME UNCHANGED <<statement, lastHash, clrPc, clrPage, clrHash, handler, cache>>
      PROVE  HashesInside' /\ OrdersExist' /\ Handled' /\ NothingShelved'
  BY <1>2, <1>3, <1>4, ShelfKept
<1>5. ASSUME NEW p \in Procs, SettlementStep(p) \/ SettlementTimeout(p)
      PROVE  UNCHANGED <<statement, lastHash, clrPc, clrPage, clrHash, handler, cache>>
  BY <1>5 DEF SettlementStep, SettlementTimeout, SettlementFetch, SettlementNext,
     SettlementVerify, SettlementReserve, SettlementSend, SettlementReceipt, SettlementHash,
     SettlementStatus, SettlementSkip, dbVars, clrVars, world
<1>6. ASSUME NEW p \in Procs, ExpirationStep(p)
      PROVE  UNCHANGED <<statement, lastHash, clrPc, clrPage, clrHash, handler, cache>>
  BY <1>6 DEF ExpirationStep, ExpirationFetch, ExpirationFilter,
     ExpirationWrite, dbVars, clrVars, world
<1>7. ASSUME \/ \E o \in Orders : CreateOrder(o) \/ Age(o)
             \/ UNCHANGED vars
      PROVE  UNCHANGED <<statement, lastHash, clrPc, clrPage, clrHash, handler, cache>>
  BY <1>7 DEF CreateOrder, Age, vars, dbVars, clrVars, world
<1>8. ASSUME NEW p \in Procs, Crash(p)
      PROVE  HashesInside' /\ OrdersExist' /\ Handled' /\ NothingShelved'
  <2>1. /\ UNCHANGED <<statement, lastHash>>
        /\ clrPc'[p] = "idle" /\ clrHash'[p] = 0 /\ cache'[p] = {}
        /\ \A q \in Procs \ {p} :
             UNCHANGED <<clrPc[q], clrPage[q], clrHash[q], handler[q], cache[q]>>
    BY <1>1, <1>8 DEF Crash, dbVars, world, TypeOK
  <2>. QED  BY <1>2, <1>3, <2>1, ShelfKept
<1>9. ASSUME NewDay
      PROVE  HashesInside' /\ OrdersExist' /\ Handled' /\ NothingShelved'
  <2>1. /\ UNCHANGED <<statement, clrPc, clrPage, handler, cache>>
        /\ lastHash' = 0 /\ \A q \in Procs : clrHash'[q] = 0
    BY <1>9 DEF NewDay, world
  <2>2. lastHash' <= Len(statement) /\ \A i \in DOMAIN statement : ~(i <= lastHash')
    BY <1>1, <1>3, <2>1 DEF TypeOK
  <2>. QED  BY <2>1, <2>2, ShelfKept
<1>. QED  BY <1>4, <1>5, <1>6, <1>7, <1>8, <1>9

LEMMA ShelfStep == ShelfInv /\ [Next]_vars => ShelfInv'
<1>. SUFFICES ASSUME ShelfInv, [Next]_vars PROVE ShelfInv'
  OBVIOUS
<1>1. IInv' /\ faults' <= MaxFaults
  BY InvStep, FaultsGoDown DEF ShelfInv
<1>2. HashesInside' /\ OrdersExist' /\ Handled' /\ NothingShelved'
  BY PayKeeps, ClearingShelf, HandlersShelf, OthersShelf DEF Next, ClearingStep
<1>. QED  BY <1>1, <1>2 DEF ShelfInv

(* As long as no call of a handler fails, whatever else does, no credit that
   pays an order is cached or left behind a hash before the order is paid. *)
THEOREM CreditsAreNotShelved == Spec => []NothingShelved
<1>1. ShelfInv => NothingShelved
  BY DEF ShelfInv
<1>. QED  BY <1>1, InitShelfInv, ShelfStep, PTL DEF Spec
=============================================================================
