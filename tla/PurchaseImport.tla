--------------------------- MODULE PurchaseImport ---------------------------
(***************************************************************************)
(* The import of purchases: a cron job copies the Purchase events of the   *)
(* sale contracts into the table purchase (import-purchases.usecase.ts,    *)
(* fetchable-onchain-purchase-event.adapter.ts,                            *)
(* fetchable-purchase.adapter.ts, persistable-purchase.adapter.ts).        *)
(*                                                                         *)
(* The job keeps nothing in memory: for each network it asks the contracts *)
(* for the events above the newest block of the table.  It imports them    *)
(* contract by contract, not block by block, and an error of one purchase  *)
(* does not keep it from the others.                                       *)
(***************************************************************************)
EXTENDS Integers, Sequences, FiniteSets

CONSTANTS
  Procs,       (* server processes                                          *)
  Networks,
  Contracts,   (* sale contracts                                            *)
  NetworkOf,   (* the network of a contract                                 *)
  Purchases,   (* the events the contracts will emit, contract by contract  *)
  FaultKinds,  (* calls that may fail                                       *)
  MaxFaults,   (* bound: failed calls                                       *)
  MaxRestarts  (* bound: process restarts                                   *)

AllFaultKinds == {"query", "exists", "insert"}

Events == DOMAIN Purchases

Contract(e)    == Purchases[e].contract
Block(e)       == Purchases[e].block
Transaction(e) == Purchases[e].transaction
Network(e)     == NetworkOf[Contract(e)]

ASSUME PurchaseAssumption ==
  /\ Events \subseteq Nat
  /\ NetworkOf \in [Contracts -> Networks]
  /\ \A e \in Events : Contract(e) \in Contracts /\ Block(e) \in Nat \ {0}
  /\ FaultKinds \subseteq AllFaultKinds
  /\ MaxFaults \in Nat
  /\ MaxRestarts \in Nat

VARIABLES
  head,     (* the newest block of a network                                *)
  purchase, (* the events with a row of their own in the table purchase     *)
  pc, from, asked, todo,  (* one run of a process                           *)
  faults, restarts,       (* budgets                                        *)
  (* history variables, which the code does not have *)
  late,     (* events mined while a process queried the contracts           *)
  failed    (* events whose import failed or was cut off                    *)

job  == <<pc, from, asked, todo>>
vars == <<head, purchase, job, faults, restarts, late, failed>>

Fails(kind) ==
  /\ kind \in FaultKinds
  /\ faults > 0
  /\ faults' = faults - 1
-----------------------------------------------------------------------------
Mined == {e \in Events : Block(e) <= head[Network(e)]}

(* A network mines a block. *)
Mine(n) ==
  /\ \E e \in Events : Network(e) = n /\ Block(e) > head[n]
  /\ head' = [head EXCEPT ![n] = @ + 1]
  /\ late' = IF \E p \in Procs : pc[p] = "query"
             THEN late \cup {e \in Events : Network(e) = n /\ Block(e) = head[n] + 1}
             ELSE late
  /\ UNCHANGED <<purchase, job, faults, restarts, failed>>

StoredBlocks(n) == {Block(e) : e \in {x \in purchase : Network(x) = n}}

(* coalesce(max(block_number), 0) *)
IsLastBlock(n, block) ==
  /\ block \in StoredBlocks(n) \cup {0}
  /\ \A b \in StoredBlocks(n) : b <= block

FromBlock_Before(block) == block - 1

FromBlock_After(block) == block + 2

(* FetchablePurchaseDbAdapter.fetchLastBlocks: the block after the newest *)
FromBlock(block) == block + 1

Start(p) ==
  /\ pc[p] = "idle"
  /\ \E last \in [Networks -> {Block(e) : e \in Events} \cup {0}] :
       /\ \A n \in Networks : IsLastBlock(n, last[n])
       /\ from' = [from EXCEPT ![p] = [n \in Networks |-> FromBlock(last[n])]]
  /\ asked' = [asked EXCEPT ![p] = Contracts]
  /\ pc'    = [pc EXCEPT ![p] = "query"]
  /\ UNCHANGED <<head, purchase, todo, faults, restarts, late, failed>>

(* One contract answers queryFilter(Purchase, fromBlock). *)
Query(p, c) ==
  /\ pc[p] = "query" /\ c \in asked[p]
  /\ asked' = [asked EXCEPT ![p] = @ \ {c}]
  /\ todo'  = [todo EXCEPT ![p] =
                 @ \cup {e \in Mined : Contract(e) = c /\ Block(e) >= from[p][Network(e)]}]
  /\ UNCHANGED <<head, purchase, pc, from, faults, restarts, late, failed>>

(* The run goes on with a set of events, or ends. *)
GoThrough(p, events) ==
  /\ todo'  = [todo EXCEPT ![p] = events]
  /\ asked' = [asked EXCEPT ![p] = {}]
  /\ pc'    = [pc EXCEPT ![p] = IF events = {} THEN "idle" ELSE "exists"]

(* All contracts have answered, and the receipts and blocks are there. *)
Answered(p) ==
  /\ pc[p] = "query" /\ asked[p] = {}
  /\ GoThrough(p, todo[p])
  /\ UNCHANGED <<head, purchase, from, faults, restarts, late, failed>>

(* A contract, a receipt or a block cannot be read: the run ends. *)
FetchFails(p) ==
  /\ pc[p] = "query"
  /\ Fails("query")
  /\ GoThrough(p, {})
  /\ UNCHANGED <<head, purchase, from, restarts, late, failed>>

(* The loop of processPurchase *)
IsNext(p, e) == e \in todo[p] /\ \A x \in todo[p] : e <= x

IsStored_ByEvent(e) == e \in purchase

(* A transaction has one row: purchase_transaction_hash is unique. *)
IsStored(e) == \E x \in purchase : Transaction(x) = Transaction(e)

Check(p, e) ==
  /\ pc[p] = "exists" /\ IsNext(p, e)
  /\ ~IsStored(e)
  /\ pc' = [pc EXCEPT ![p] = "insert"]
  /\ UNCHANGED <<head, purchase, from, asked, todo, faults, restarts, late, failed>>

(* The transaction is found, or another process has inserted it since. *)
Skip(p, e) ==
  /\ pc[p] \in {"exists", "insert"} /\ IsNext(p, e)
  /\ IsStored(e)
  /\ GoThrough(p, todo[p] \ {e})
  /\ UNCHANGED <<head, purchase, from, faults, restarts, late, failed>>

(* PersistablePurchaseDbAdapter.create *)
Insert(p, e) ==
  /\ pc[p] = "insert" /\ IsNext(p, e)
  /\ ~IsStored(e)
  /\ purchase' = purchase \cup {e}
  /\ GoThrough(p, todo[p] \ {e})
  /\ UNCHANGED <<head, from, faults, restarts, late, failed>>

ImportFails_LeavesLoop(p, e) ==
  /\ IsNext(p, e)
  /\ \/ pc[p] = "exists" /\ Fails("exists")
     \/ pc[p] = "insert" /\ Fails("insert")
  /\ failed' = failed \cup {e}
  /\ GoThrough(p, {})
  /\ UNCHANGED <<head, purchase, from, restarts, late>>

(* An error of a purchase is logged and the loop goes on. *)
ImportFails(p, e) ==
  /\ IsNext(p, e)
  /\ \/ pc[p] = "exists" /\ Fails("exists")
     \/ pc[p] = "insert" /\ Fails("insert")
  /\ failed' = failed \cup {e}
  /\ GoThrough(p, todo[p] \ {e})
  /\ UNCHANGED <<head, purchase, from, restarts, late>>

(* A process stops and starts. *)
Restart(p) ==
  /\ pc[p] # "idle" /\ restarts < MaxRestarts
  /\ restarts' = restarts + 1
  /\ failed'   = failed \cup (IF pc[p] = "query" THEN {} ELSE todo[p])
  /\ GoThrough(p, {})
  /\ UNCHANGED <<head, purchase, from, faults, late>>

Init ==
  /\ head     = [n \in Networks |-> 0]
  /\ purchase = {}
  /\ pc       = [p \in Procs |-> "idle"]
  /\ from     = [p \in Procs |-> [n \in Networks |-> 1]]
  /\ asked    = [p \in Procs |-> {}]
  /\ todo     = [p \in Procs |-> {}]
  /\ faults   = MaxFaults
  /\ restarts = 0
  /\ late     = {}
  /\ failed   = {}

ImportStep(p) ==
  \/ Start(p)
  \/ \E c \in Contracts : Query(p, c)
  \/ Answered(p)
  \/ \E e \in Events : Check(p, e) \/ Skip(p, e) \/ Insert(p, e)

Next ==
  \/ \E n \in Networks : Mine(n)
  \/ \E p \in Procs : \/ ImportStep(p)
                      \/ FetchFails(p)
                      \/ \E e \in Events : ImportFails(p, e)
                      \/ Restart(p)

Spec == Init /\ [][Next]_vars

(* The cron job runs again and again and its calls return or fail. *)
FairSpec == Spec /\ \A p \in Procs : WF_vars(ImportStep(p))
-----------------------------------------------------------------------------
(* Properties *)

TypeOK ==
  /\ head     \in [Networks -> Nat]
  /\ purchase \subseteq Events
  /\ pc       \in [Procs -> {"idle", "query", "exists", "insert"}]
  /\ from     \in [Procs -> [Networks -> Nat]]
  /\ asked    \in [Procs -> SUBSET Contracts]
  /\ todo     \in [Procs -> SUBSET Events]
  /\ faults   \in Nat
  /\ restarts \in Nat
  /\ late     \subseteq Events
  /\ failed   \subseteq Events

(* No transaction is stored twice, however many processes import it, and a
   row is of a transaction on the chain. *)
StoredOnce ==
  /\ \A e, x \in purchase : Transaction(e) = Transaction(x) => e = x
  /\ purchase \subseteq Mined

(* A block of the event's network at or above its own is in the table: no
   later run will ask for the event. *)
Behind(e) == \E x \in purchase : Network(x) = Network(e) /\ Block(x) >= Block(e)

(* A purchase no run will ask for is stored, or a process is about to store
   it, or its loss has one of three causes: its own import failed, a restart
   cut off the run that had found it, or it was mined between the answers of
   two contracts.  In particular no failure of another purchase, no order of
   the contracts and no race of two processes loses one. *)
LossHasCause ==
  \A e \in Mined :
    Behind(e) => \/ IsStored(e)
                 \/ e \in late \cup failed
                 \/ \E p \in Procs : pc[p] # "query" /\ e \in todo[p]

(* The table catches up with the chain again and again, except for the
   purchases with such a cause. *)
TableCatchesUp == []<>(\A e \in Mined : IsStored(e) \/ e \in late \cup failed)
=============================================================================
