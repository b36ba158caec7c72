-------------------------- MODULE ClaimImport_proofs --------------------------
(***************************************************************************)
(* Proofs about module ClaimImport, for any number of processes, contracts, *)
(* orders, failed calls and restarts.                                      *)
(*                                                                         *)
(* The argument for the rows: a process works on events it saw on the      *)
(* chain, where they stay, and each of its three statements comes after    *)
(* the one it refers to; no statement deletes a row.  The argument for     *)
(* what a run finds: the cursor is the block of some claim, and orders     *)
(* that were read too early are too many, never too few.                   *)
(***************************************************************************)
EXTENDS ClaimImport, TLAPS

(* The variables' types, without the bookkeeping that the rows do not depend
   on (asked, snapshot, cursor and the budgets) *)
Types ==
  /\ height      \in Nat
  /\ claimedAt   \in [Orders -> Nat]
  /\ userReceipt \in [Orders -> BOOLEAN]
  /\ claimRow    \in [Orders -> BOOLEAN]
  /\ status      \in [Orders -> {"Owned", "Claimed"}]
  /\ pc       \in [Procs -> {"idle", "query", "receipts", "import", "claim", "status"}]
  /\ found    \in [Procs -> SUBSET Orders]
  /\ todo     \in [Procs -> SUBSET Orders]
  /\ current  \in [Procs -> Orders \cup {NoOrder}]

(* What a process works on was claimed on the chain. *)
WorksOnClaims ==
  \A p \in Procs, o \in Orders :
    o \in found[p] \cup todo[p] => claimedAt[o] > 0

(* Inside an order's statements the earlier ones have taken effect. *)
InOrder ==
  \A p \in Procs :
    /\ pc[p] \in {"claim", "status"} => current[p] \in Orders /\ userReceipt[current[p]]
    /\ pc[p] = "status" => claimRow[current[p]]

IInv == Types /\ ImportedIsClaimed /\ WorksOnClaims /\ InOrder
-----------------------------------------------------------------------------
LEMMA InitIInv == Init => IInv
BY ImportAssumption
   DEF Init, IInv, Types, ImportedIsClaimed, WorksOnClaims, InOrder, ImportAssumption

(* A process that leaves an order, or stops, disturbs no other. *)
LEMMA GoThroughKeeps ==
  ASSUME IInv, NEW p \in Procs, NEW orders \in SUBSET Orders, GoThrough(p, orders),
         \A o \in orders : claimedAt[o] > 0,
         \A q \in Procs : found'[q] \subseteq found[q],
         found' \in [Procs -> SUBSET Orders],
         UNCHANGED <<chain, userReceipt, claimRow>>,
         status' \in [Orders -> {"Owned", "Claimed"}],
         \A o \in Orders : status'[o] = "Claimed" => claimRow[o]
  PROVE  IInv'
<1>. USE DEF IInv
<1>1. /\ todo'[p] = orders /\ pc'[p] \in {"idle", "import"}
      /\ \A q \in Procs \ {p} : todo'[q] = todo[q] /\ pc'[q] = pc[q] /\ current'[q] = current[q]
  BY DEF GoThrough, Types
<1>2. Types'
  BY DEF GoThrough, Types, chain
<1>3. ImportedIsClaimed'
  BY DEF ImportedIsClaimed, chain
<1>4. WorksOnClaims'
  <2>1. SUFFICES ASSUME NEW q \in Procs, NEW o \in Orders, o \in found'[q] \cup todo'[q]
                 PROVE  claimedAt'[o] > 0
    BY DEF WorksOnClaims
  <2>2. claimedAt'[o] = claimedAt[o]
    BY DEF chain
  <2>3. CASE q = p
    BY <1>1, <2>1, <2>2, <2>3 DEF WorksOnClaims
  <2>4. CASE q # p
    BY <1>1, <2>1, <2>2, <2>4 DEF WorksOnClaims
  <2>. QED  BY <2>3, <2>4
<1>5. InOrder'
  BY <1>1 DEF InOrder
<1>. QED  BY <1>2, <1>3, <1>4, <1>5

(* Blocks are added to the chain and nothing is taken from it. *)
LEMMA MineKeeps ==
  ASSUME IInv, NEW claims \in SUBSET Orders, Mine(claims)
  PROVE  IInv'
<1>. USE DEF IInv
<1>1. /\ claimedAt' \in [Orders -> Nat] /\ height' \in Nat
      /\ \A o \in Orders : claimedAt[o] > 0 => claimedAt'[o] > 0
  BY DEF Mine, Types
<1>2. UNCHANGED <<userReceipt, claimRow, status, pc, found, todo, current>>
  BY DEF Mine, rows, job
<1>. QED  BY <1>1, <1>2 DEF Types, ImportedIsClaimed, WorksOnClaims, InOrder

LEMMA FetchKeeps ==
  ASSUME IInv, NEW p \in Procs,
         \/ Start(p) \/ ReadOrders(p)
         \/ \E block \in 0 .. height : Advance(p, block)
         \/ \E c \in Contracts : Query(p, c)
  PROVE  IInv'
<1>. USE DEF IInv
<1>1. UNCHANGED <<chain, rows, todo, current>>
  BY DEF Start, ReadOrders, Advance, Query
<1>2. /\ pc' \in [Procs -> {"idle", "query", "receipts", "import", "claim", "status"}]
      /\ \A q \in Procs : pc'[q] \in {pc[q], "query", "receipts"}
  BY DEF Start, ReadOrders, Advance, Query, Types
<1>3. /\ found' \in [Procs -> SUBSET Orders]
      /\ \A q \in Procs, o \in Orders :
           o \in found'[q] => o \in found[q] \/ claimedAt[o] > 0
  <2>1. CASE \/ Start(p) \/ ReadOrders(p)
             \/ \E block \in 0 .. height : Advance(p, block)
    BY <2>1 DEF Start, ReadOrders, Advance, Types
  <2>2. ASSUME NEW c \in Contracts, Query(p, c)
        PROVE  /\ found' \in [Procs -> SUBSET Orders]
               /\ \A q \in Procs, o \in Orders :
                    o \in found'[q] => o \in found[q] \/ claimedAt[o] > 0
    <3>1. /\ EventsFrom(c, cursor[p]) \subseteq Orders
          /\ \A o \in EventsFrom(c, cursor[p]) : claimedAt[o] > 0
      BY DEF EventsFrom, Types
    <3>. QED  BY <2>2, <3>1 DEF Query, Types
  <2>. QED  BY <2>1, <2>2
<1>4. Types'
  BY <1>1, <1>2, <1>3 DEF Types, chain, rows
<1>5. WorksOnClaims'
  BY <1>1, <1>3 DEF WorksOnClaims, chain
<1>. QED  BY <1>1, <1>2, <1>4, <1>5 DEF chain, rows, ImportedIsClaimed, InOrder

(* The runs that end, with or without orders to import *)
LEMMA EndKeeps ==
  ASSUME IInv, NEW p \in Procs,
         Reconcile(p) \/ FetchFails(p) \/ ImportFails(p) \/ Restart(p)
  PROVE  IInv'
<1>. USE DEF IInv
<1>1. FetchDone(p) => /\ found' \in [Procs -> SUBSET Orders]
                      /\ \A q \in Procs : found'[q] \subseteq found[q]
  BY DEF FetchDone, Types
<1>2. \A o \in todo[p] \cup found[p] : o \in Orders /\ claimedAt[o] > 0
  BY DEF WorksOnClaims, Types
<1>3. CASE Reconcile(p)
  <2>1. found[p] \cap snapshot[p] \in SUBSET Orders
    BY DEF Types
  <2>. QED  BY <1>1, <1>2, <1>3, <2>1, GoThroughKeeps DEF Reconcile, rows, Types, ImportedIsClaimed
<1>4. CASE FetchFails(p) \/ Restart(p)
  BY <1>1, <1>4, GoThroughKeeps DEF FetchFails, Restart, rows, Types, ImportedIsClaimed
<1>5. CASE ImportFails(p)
  <2>1. PICK o : GoThrough(p, todo[p] \ {o})
    BY <1>5 DEF ImportFails
  <2>2. todo[p] \ {o} \in SUBSET Orders
    BY DEF Types
  <2>. QED
    BY <1>2, <1>5, <2>1, <2>2, GoThroughKeeps DEF ImportFails, rows, Types, ImportedIsClaimed
<1>. QED  BY <1>3, <1>4, <1>5

(* The three statements of a claim *)
LEMMA StatementsKeep ==
  ASSUME IInv, NEW p \in Procs,
         (\E o \in Orders : InsertUserReceipt(p, o)) \/ InsertClaim(p) \/ SetClaimed(p)
  PROVE  IInv'
<1>. USE DEF IInv
<1>1. ASSUME NEW o \in Orders, InsertUserReceipt(p, o) PROVE IInv'
  <2>1. /\ userReceipt'[o] /\ \A x \in Orders \ {o} : userReceipt'[x] = userReceipt[x]
        /\ claimedAt[o] > 0
        /\ UNCHANGED <<chain, claimRow, status, found, todo>>
    BY <1>1 DEF InsertUserReceipt, Types, WorksOnClaims
  <2>2. /\ pc'[p] = "claim" /\ current'[p] = o
        /\ \A q \in Procs \ {p} : pc'[q] = pc[q] /\ current'[q] = current[q]
    BY <1>1 DEF InsertUserReceipt, Types
  <2>3. Types'
    BY <1>1 DEF InsertUserReceipt, Types, chain
  <2>4. ImportedIsClaimed' /\ WorksOnClaims'
    BY <2>1 DEF ImportedIsClaimed, WorksOnClaims, chain
  <2>5. InOrder'
    BY <2>1, <2>2 DEF InOrder
  <2>. QED  BY <2>3, <2>4, <2>5
<1>2. CASE InsertClaim(p)
  <2>. DEFINE o == current[p]
  <2>1. o \in Orders /\ userReceipt[o]
    BY <1>2 DEF InsertClaim, InOrder
  <2>2. /\ claimRow'[o] /\ \A x \in Orders \ {o} : claimRow'[x] = claimRow[x]
        /\ UNCHANGED <<chain, userReceipt, status, found, todo, current>>
    BY <1>2, <2>1 DEF InsertClaim, Types
  <2>3. pc'[p] = "status" /\ \A q \in Procs \ {p} : pc'[q] = pc[q]
    BY <1>2 DEF InsertClaim, Types
  <2>4. Types'
    BY <1>2 DEF InsertClaim, Types, chain
  <2>5. ImportedIsClaimed' /\ WorksOnClaims'
    BY <2>1, <2>2 DEF ImportedIsClaimed, WorksOnClaims, chain
  <2>6. InOrder'
    BY <2>1, <2>2, <2>3 DEF InOrder
  <2>. QED  BY <2>4, <2>5, <2>6
<1>3. CASE SetClaimed(p)
  <2>1. /\ current[p] \in Orders /\ claimRow[current[p]]
        /\ todo[p] \ {current[p]} \in SUBSET Orders
        /\ \A o \in todo[p] \ {current[p]} : claimedAt[o] > 0
    BY <1>3 DEF SetClaimed, InOrder, Types, WorksOnClaims
  <2>2. /\ status' \in [Orders -> {"Owned", "Claimed"}]
        /\ \A o \in Orders : status'[o] = "Claimed" => claimRow[o]
    BY <1>3, <2>1 DEF SetClaimed, Types, ImportedIsClaimed
  <2>. QED  BY <1>3, <2>1, <2>2, GoThroughKeeps DEF SetClaimed, Types
<1>. QED  BY <1>1, <1>2, <1>3

LEMMA NextIInv == IInv /\ [Next]_vars => IInv'
<1>1. ASSUME IInv, UNCHANGED vars PROVE IInv'
  BY <1>1 DEF IInv, Types, ImportedIsClaimed, WorksOnClaims, InOrder, vars, chain, rows, job
<1>. QED
  BY <1>1, MineKeeps, FetchKeeps, EndKeeps, StatementsKeep DEF Next, ImportStep

(* Wherever an import stops or fails, and whoever else imports the same claim,
   an order's rows refer to rows that exist and to an event on the chain. *)
THEOREM RowsAgreeWithChain == Spec => []ImportedIsClaimed
<1>1. IInv => ImportedIsClaimed
  BY DEF IInv
<1>. QED  BY <1>1, InitIInv, NextIInv, PTL DEF Spec
-----------------------------------------------------------------------------
(* The types, the cursor's among them, need no more than themselves. *)
LEMMA EndType ==
  ASSUME TypeOK, NEW p \in Procs, NEW orders \in SUBSET Orders, GoThrough(p, orders)
  PROVE  /\ todo' \in [Procs -> SUBSET Orders]
         /\ current' \in [Procs -> Orders \cup {NoOrder}]
         /\ pc' \in [Procs -> {"idle", "query", "receipts", "import", "claim", "status"}]
BY DEF GoThrough, TypeOK

LEMMA DoneType ==
  ASSUME TypeOK, NEW p \in Procs, FetchDone(p)
  PROVE  /\ asked' \in [Procs -> SUBSET (Contracts \cup {Database})]
         /\ found' \in [Procs -> SUBSET Orders]
         /\ snapshot' \in [Procs -> SUBSET Orders]
BY DEF FetchDone, TypeOK

LEMMA FailsType ==
  ASSUME TypeOK, NEW kind, Fails(kind)
  PROVE  faults' \in Nat
BY DEF TypeOK, Fails

LEMMA TypeStep == TypeOK /\ [Next]_vars => TypeOK'
<1>. SUFFICES ASSUME TypeOK, [Next]_vars PROVE TypeOK'
  OBVIOUS
<1>. USE DEF chain, rows
<1>1. ASSUME NEW claims \in SUBSET Orders, Mine(claims) PROVE TypeOK'
  BY <1>1 DEF Mine, TypeOK, job
<1>2. ASSUME NEW p \in Procs, Start(p) \/ ReadOrders(p) PROVE TypeOK'
  <2>1. Unclaimed \subseteq Orders
    BY DEF Unclaimed
  <2>. QED  BY <1>2, <2>1 DEF Start, ReadOrders, TypeOK
<1>3. ASSUME NEW p \in Procs, NEW c \in Contracts, Query(p, c) PROVE TypeOK'
  <2>1. EventsFrom(c, cursor[p]) \subseteq Orders
    BY DEF EventsFrom
  <2>. QED  BY <1>3, <2>1 DEF Query, TypeOK
<1>4. ASSUME NEW p \in Procs, NEW block \in 0 .. height, Advance(p, block) PROVE TypeOK'
  BY <1>4 DEF Advance, TypeOK
<1>5. ASSUME NEW p \in Procs, Reconcile(p) PROVE TypeOK'
  <2>1. found[p] \cap snapshot[p] \in SUBSET Orders
    BY DEF TypeOK
  <2>. QED  BY <1>5, <2>1, EndType, DoneType DEF Reconcile, TypeOK
<1>6. ASSUME NEW p \in Procs, FetchFails(p) PROVE TypeOK'
  <2>1. faults' \in Nat
    BY <1>6, FailsType DEF FetchFails
  <2>. QED  BY <1>6, <2>1, EndType, DoneType DEF FetchFails, TypeOK
<1>7. ASSUME NEW p \in Procs, Restart(p) PROVE TypeOK'
  <2>1. /\ restarts' \in Nat
        /\ cursor' \in [Procs -> Nat]
    BY <1>7 DEF Restart, TypeOK
  <2>. QED  BY <1>7, <2>1, EndType, DoneType DEF Restart, TypeOK
<1>8. ASSUME NEW p \in Procs, NEW o \in Orders, InsertUserReceipt(p, o) PROVE TypeOK'
  BY <1>8 DEF InsertUserReceipt, TypeOK
<1>9. ASSUME NEW p \in Procs, InsertClaim(p) PROVE TypeOK'
  BY <1>9 DEF InsertClaim, TypeOK
<1>10. ASSUME NEW p \in Procs, SetClaimed(p) PROVE TypeOK'
  <2>1. todo[p] \ {current[p]} \in SUBSET Orders
    BY DEF TypeOK
  <2>2. status' \in [Orders -> {"Owned", "Claimed"}]
    BY <1>10 DEF SetClaimed, TypeOK
  <2>. QED  BY <1>10, <2>1, <2>2, EndType DEF SetClaimed, TypeOK
<1>11. ASSUME NEW p \in Procs, ImportFails(p) PROVE TypeOK'
  <2>1. PICK o : GoThrough(p, todo[p] \ {o})
    BY <1>11 DEF ImportFails
  <2>2. todo[p] \ {o} \in SUBSET Orders
    BY DEF TypeOK
  <2>3. faults' \in Nat
    BY <1>11, FailsType DEF ImportFails, TypeOK
  <2>. QED  BY <1>11, <2>1, <2>2, <2>3, EndType DEF ImportFails, TypeOK
<1>12. CASE UNCHANGED vars
  BY <1>12 DEF vars, job, TypeOK
<1>. QED
  BY <1>1, <1>2, <1>3, <1>4, <1>5, <1>6, <1>7, <1>8, <1>9, <1>10, <1>11, <1>12
     DEF Next, ImportStep

(* The variables keep their types: in particular the cursor of a process stays
   the number of a block, however many events it found and whoever restarts. *)
THEOREM ImportTypes == Spec => []TypeOK
<1>1. Init => TypeOK
  BY ImportAssumption DEF Init, TypeOK, ImportAssumption
<1>. QED  BY <1>1, TypeStep, PTL DEF Spec
-----------------------------------------------------------------------------
(* The cursor of a process is no later than some claim. *)
CursorIsClaim == \A p \in Procs : cursor[p] = 0 \/ \E o \in Orders : cursor[p] <= claimedAt[o]

(* The orders a run has read may have been imported since, but every order
   without a receipt is among them. *)
SnapshotSuffices ==
  \A p \in Procs, o \in Orders :
    (pc[p] \in {"query", "receipts"} /\ Database \notin asked[p] /\ ~userReceipt[o])
      => o \in snapshot[p]

(* Between its reads and its imports a run keeps nothing. *)
Tidy ==
  \A p \in Procs :
    /\ pc[p] \in {"idle", "query", "receipts"} => todo[p] = {}
    /\ pc[p] \notin {"query", "receipts"} => found[p] = {}

FetchInv == TypeOK /\ IInv /\ CursorIsClaim /\ SnapshotSuffices /\ Tidy

LEMMA InitFetchInv == Init => FetchInv
<1>. HAVE Init
<1>1. TypeOK
  BY ImportAssumption DEF Init, TypeOK, ImportAssumption
<1>. QED
  BY <1>1, InitIInv DEF FetchInv, Init, CursorIsClaim, SnapshotSuffices, Tidy

(* A step by which p ends its run or goes on with the orders it has *)
LEMMA GoThroughFetchInv ==
  ASSUME FetchInv, NEW p \in Procs, NEW orders, GoThrough(p, orders),
         \A q \in Procs \ {p} : UNCHANGED <<asked[q], found[q], snapshot[q], cursor[q]>>,
         cursor'[p] \in {0, cursor[p]},
         found'[p] = {},
         UNCHANGED <<claimedAt, userReceipt>>
  PROVE  CursorIsClaim' /\ SnapshotSuffices' /\ Tidy'
<1>1. /\ todo'[p] = orders /\ pc'[p] = IF orders = {} THEN "idle" ELSE "import"
      /\ \A q \in Procs \ {p} : todo'[q] = todo[q] /\ pc'[q] = pc[q]
  BY DEF GoThrough, FetchInv, TypeOK
<1>2. CursorIsClaim'
  <2>1. \A q \in Procs : cursor'[q] \in {0, cursor[q]}
    OBVIOUS
  <2>. QED  BY <2>1 DEF FetchInv, CursorIsClaim
<1>3. SnapshotSuffices'
  <2>1. SUFFICES ASSUME NEW q \in Procs, NEW o \in Orders, pc'[q] \in {"query", "receipts"},
                        Database \notin asked'[q], ~userReceipt[o]
                 PROVE  o \in snapshot'[q]
    BY DEF SnapshotSuffices
  <2>2. q # p
    BY <1>1, <2>1
  <2>. QED  BY <1>1, <2>1, <2>2 DEF FetchInv, SnapshotSuffices
<1>4. Tidy'
  <2>1. /\ pc'[p] \in {"idle", "query", "receipts"} => todo'[p] = {}
        /\ found'[p] = {}
    BY <1>1
  <2>2. ASSUME NEW q \in Procs \ {p}
        PROVE  /\ pc'[q] \in {"idle", "query", "receipts"} => todo'[q] = {}
               /\ pc'[q] \notin {"query", "receipts"} => found'[q] = {}
    BY <1>1 DEF FetchInv, Tidy
  <2>. QED  BY <2>1, <2>2 DEF Tidy
<1>. QED  BY <1>2, <1>3, <1>4

(* The steps of p that fetch *)
LEMMA FetchStepInv ==
  ASSUME FetchInv, NEW p \in Procs,
         \/ Start(p) \/ ReadOrders(p)
         \/ \E block \in 0 .. height : Advance(p, block)
         \/ \E c \in Contracts : Query(p, c)
  PROVE  CursorIsClaim' /\ SnapshotSuffices' /\ Tidy'
<1>. USE DEF FetchInv
<1>1. /\ UNCHANGED <<claimedAt, userReceipt, todo>>
      /\ \A q \in Procs \ {p} : UNCHANGED <<pc[q], asked[q], found[q], snapshot[q], cursor[q]>>
  BY DEF Start, ReadOrders, Advance, Query, chain, rows, TypeOK
<1>2. pc[p] \in {"idle", "query", "receipts"} /\ pc'[p] \in {"query", "receipts"}
  BY DEF Start, ReadOrders, Advance, Query, TypeOK
<1>3. cursor'[p] = cursor[p] \/ \E o \in Orders : cursor'[p] = claimedAt[o]
  <2>1. ASSUME NEW block \in 0 .. height, Advance(p, block)
        PROVE  cursor'[p] = cursor[p] \/ \E o \in Orders : cursor'[p] = claimedAt[o]
    BY <2>1 DEF Advance, IsNewest, TypeOK
  <2>. QED  BY <2>1 DEF Start, ReadOrders, Query
<1>4. ASSUME NEW o \in Orders, Database \notin asked'[p], ~userReceipt[o]
      PROVE  o \in snapshot'[p]
  <2>1. CASE Start(p)
    BY <1>4, <2>1 DEF Start, TypeOK
  <2>2. CASE ReadOrders(p)
    <3>1. o \in Unclaimed
      BY <1>4 DEF Unclaimed, IInv, ImportedIsClaimed, TypeOK
    <3>. QED  BY <2>2, <3>1 DEF ReadOrders, TypeOK
  <2>3. ASSUME NEW block \in 0 .. height, Advance(p, block) PROVE o \in snapshot'[p]
    BY <1>4, <2>3 DEF Advance, SnapshotSuffices
  <2>4. ASSUME NEW c \in Contracts, Query(p, c) PROVE o \in snapshot'[p]
    <3>1. c # Database
      BY ImportAssumption DEF ImportAssumption
    <3>2. Database \notin asked[p] /\ pc[p] = "query" /\ snapshot'[p] = snapshot[p]
      BY <1>4, <2>4, <3>1 DEF Query, TypeOK
    <3>. QED  BY <1>4, <3>2 DEF SnapshotSuffices
  <2>. QED  BY <2>1, <2>2, <2>3, <2>4
<1>5. CursorIsClaim'
  <2>1. SUFFICES ASSUME NEW q \in Procs
                 PROVE  cursor'[q] = 0 \/ \E o \in Orders : cursor'[q] <= claimedAt[o]
    BY <1>1 DEF CursorIsClaim
  <2>2. CASE cursor'[q] = cursor[q]
    BY <2>2 DEF CursorIsClaim
  <2>3. ASSUME NEW o \in Orders, cursor'[q] = claimedAt[o] PROVE cursor'[q] <= claimedAt[o]
    BY <2>3 DEF TypeOK
  <2>. QED  BY <1>1, <1>3, <2>2, <2>3
<1>6. SnapshotSuffices'
  BY <1>1, <1>4 DEF SnapshotSuffices
<1>7. Tidy'
  BY <1>1, <1>2 DEF Tidy
<1>. QED  BY <1>5, <1>6, <1>7

LEMMA EndFetchInv ==
  ASSUME FetchInv, NEW p \in Procs,
         Reconcile(p) \/ FetchFails(p) \/ ImportFails(p) \/ Restart(p) \/ SetClaimed(p)
  PROVE  CursorIsClaim' /\ SnapshotSuffices' /\ Tidy'
<1>. USE DEF FetchInv
<1>1. UNCHANGED <<claimedAt, userReceipt>>
  BY DEF Reconcile, FetchFails, ImportFails, Restart, SetClaimed, chain, rows
<1>2. FetchDone(p) => /\ found'[p] = {}
                      /\ \A q \in Procs \ {p} : UNCHANGED <<asked[q], found[q], snapshot[q]>>
  BY DEF FetchDone, TypeOK
<1>3. CASE Reconcile(p) \/ FetchFails(p)
  BY <1>1, <1>2, <1>3, GoThroughFetchInv DEF Reconcile, FetchFails
<1>4. CASE Restart(p)
  <2>1. GoThrough(p, {}) /\ FetchDone(p) /\ cursor' = [cursor EXCEPT ![p] = 0]
    BY <1>4 DEF Restart
  <2>2. cursor'[p] = 0 /\ \A q \in Procs \ {p} : cursor'[q] = cursor[q]
    BY <2>1 DEF TypeOK
  <2>. QED  BY <1>1, <1>2, <2>1, <2>2, GoThroughFetchInv
<1>5. CASE ImportFails(p) \/ SetClaimed(p)
  <2>1. pc[p] \in {"import", "claim", "status"} \/ todo[p] # {}
    BY <1>5 DEF ImportFails, SetClaimed
  <2>2. found[p] = {}
    BY <2>1 DEF Tidy, TypeOK
  <2>3. UNCHANGED <<asked, found, snapshot, cursor>> /\ \E orders : GoThrough(p, orders)
    BY <1>5 DEF ImportFails, SetClaimed
  <2>. QED  BY <1>1, <2>2, <2>3, GoThroughFetchInv
<1>. QED  BY <1>3, <1>4, <1>5

LEMMA FetchInvStep == FetchInv /\ [Next]_vars => FetchInv'
<1>. SUFFICES ASSUME FetchInv, [Next]_vars PROVE FetchInv'
  OBVIOUS
<1>1. TypeOK' /\ IInv'
  BY TypeStep, NextIInv DEF FetchInv
<1>2. ASSUME NEW claims \in SUBSET Orders, Mine(claims)
      PROVE  CursorIsClaim' /\ SnapshotSuffices' /\ Tidy'
  <2>1. \A o \in Orders : /\ claimedAt[o] \in Nat /\ claimedAt'[o] \in Nat
                          /\ claimedAt[o] <= claimedAt'[o]
    BY <1>2 DEF Mine, FetchInv, TypeOK
  <2>2. UNCHANGED <<userReceipt, pc, asked, found, snapshot, todo, cursor>>
    BY <1>2 DEF Mine, rows, job
  <2>3. CursorIsClaim'
    <3>1. \A p \in Procs : cursor[p] \in Nat
      BY DEF FetchInv, TypeOK
    <3>. QED  BY <2>1, <2>2, <3>1 DEF FetchInv, CursorIsClaim
  <2>. QED  BY <2>2, <2>3 DEF FetchInv, SnapshotSuffices, Tidy
<1>3. ASSUME NEW p \in Procs, NEW o \in Orders, InsertUserReceipt(p, o)
      PROVE  CursorIsClaim' /\ SnapshotSuffices' /\ Tidy'
  <2>1. /\ UNCHANGED <<claimedAt, asked, found, snapshot, todo, cursor>>
        /\ \A x \in Orders : ~userReceipt'[x] => ~userReceipt[x]
        /\ pc[p] = "import" /\ pc'[p] = "claim"
        /\ \A q \in Procs \ {p} : pc'[q] = pc[q]
    BY <1>3 DEF InsertUserReceipt, chain, FetchInv, TypeOK
  <2>. QED  BY <2>1 DEF FetchInv, CursorIsClaim, SnapshotSuffices, Tidy
<1>4. ASSUME NEW p \in Procs, InsertClaim(p)
      PROVE  CursorIsClaim' /\ SnapshotSuffices' /\ Tidy'
  <2>1. /\ UNCHANGED <<claimedAt, userReceipt, asked, found, snapshot, todo, cursor>>
        /\ pc[p] = "claim" /\ pc'[p] = "status"
        /\ \A q \in Procs \ {p} : pc'[q] = pc[q]
    BY <1>4 DEF InsertClaim, chain, FetchInv, TypeOK
  <2>. QED  BY <2>1 DEF FetchInv, CursorIsClaim, SnapshotSuffices, Tidy
<1>5. ASSUME UNCHANGED vars PROVE CursorIsClaim' /\ SnapshotSuffices' /\ Tidy'
  BY <1>5 DEF vars, chain, rows, job, FetchInv, CursorIsClaim, SnapshotSuffices, Tidy
<1>. QED
  BY <1>1, <1>2, <1>3, <1>4, <1>5, FetchStepInv, EndFetchInv DEF Next, ImportStep, FetchInv

(* The contract's answer includes the newest claim. *)
LEMMA NewestIsFound ==
  ASSUME FetchInv, NEW p \in Procs, NEW o \in Orders, claimedAt[o] > 0, Newest(o),
         Query(p, ContractOf[o])
  PROVE  o \in found'[p]
<1>1. cursor[p] <= claimedAt[o]
  <2>1. cursor[p] \in Nat /\ \A x \in Orders : claimedAt[x] \in Nat
    BY DEF FetchInv, TypeOK
  <2>2. CASE cursor[p] = 0
    BY <2>1, <2>2
  <2>3. ASSUME NEW x \in Orders, cursor[p] <= claimedAt[x] PROVE cursor[p] <= claimedAt[o]
    BY <2>1, <2>3 DEF Newest
  <2>. QED  BY <2>2, <2>3 DEF FetchInv, CursorIsClaim
<1>2. o \in EventsFrom(ContractOf[o], cursor[p])
  BY <1>1 DEF EventsFrom, FetchInv, TypeOK
<1>. QED  BY <1>2 DEF Query, FetchInv, TypeOK

LEMMA PassedStep ==
  ASSUME FetchInv, [Next]_vars, NEW p \in Procs, NEW o \in Orders, PassesOver(p, o),
         claimedAt[o] > 0, Newest(o) \/ o \in found[p] \cup todo[p]
  PROVE  userReceipt'[o] \/ faults' < faults \/ restarts' > restarts
<1>. USE DEF FetchInv
<1>1. \A kind : Fails(kind) => faults' < faults
  BY DEF Fails, TypeOK
<1>2. \A q \in Procs : Restart(q) => restarts' > restarts
  BY DEF Restart, TypeOK
<1>3. \A q \in Procs : FetchFails(q) => faults' < faults
  BY <1>1 DEF FetchFails
<1>4. ASSUME UNCHANGED <<asked[p], found[p], todo[p]>> PROVE FALSE
  BY <1>4 DEF PassesOver
<1>5. ASSUME UNCHANGED vars \/ \E claims \in SUBSET Orders : Mine(claims) PROVE FALSE
  BY <1>4, <1>5 DEF Mine, vars, job
<1>6. ASSUME NEW q \in Procs, ImportStep(q), q # p PROVE FALSE
  BY <1>4, <1>6 DEF ImportStep, Start, ReadOrders, Query, Advance, Reconcile, InsertUserReceipt,
     InsertClaim, SetClaimed, ImportFails, GoThrough, FetchDone, TypeOK
<1>7. ASSUME \/ \E x \in Orders : InsertUserReceipt(p, x)
             \/ InsertClaim(p)
             \/ \E block \in 0 .. height : Advance(p, block)
      PROVE  FALSE
  BY <1>4, <1>7 DEF InsertUserReceipt, InsertClaim, Advance
<1>8. ASSUME Start(p) PROVE FALSE
  <2>1. pc[p] = "idle" /\ found[p] = {} /\ todo'[p] = todo[p]
    BY <1>8 DEF Start, Tidy
  <2>. QED  BY <2>1 DEF PassesOver
<1>9. ASSUME ReadOrders(p) PROVE FALSE
  <2>1. ContractOf[o] # Database
    BY ImportAssumption DEF ImportAssumption
  <2>2. UNCHANGED <<found, todo>> /\ asked[p] \ asked'[p] \subseteq {Database}
    BY <1>9 DEF ReadOrders, TypeOK
  <2>. QED  BY <2>1, <2>2 DEF PassesOver
<1>10. ASSUME NEW c \in Contracts, Query(p, c) PROVE FALSE
  <2>1. /\ todo'[p] = todo[p] /\ found[p] \subseteq found'[p]
        /\ asked[p] \ asked'[p] \subseteq {c} /\ pc[p] = "query"
    BY <1>10 DEF Query, TypeOK
  <2>2. c = ContractOf[o] /\ o \notin found'[p]
    BY <2>1 DEF PassesOver
  <2>3. Newest(o)
    BY <2>1, <2>2 DEF Tidy
  <2>. QED  BY <1>10, <2>2, <2>3, NewestIsFound
<1>11. ASSUME Reconcile(p) PROVE userReceipt'[o]
  <2>1. /\ pc[p] = "receipts" /\ Database \notin asked[p] /\ todo[p] = {}
        /\ todo'[p] = found[p] \cap snapshot[p] /\ UNCHANGED userReceipt
    BY <1>11 DEF Reconcile, GoThrough, rows, Tidy, TypeOK
  <2>2. o \in found[p] /\ o \notin snapshot[p]
    BY <2>1 DEF PassesOver
  <2>. QED  BY <2>1, <2>2 DEF SnapshotSuffices
<1>12. ASSUME SetClaimed(p) PROVE userReceipt'[o]
  <2>1. /\ pc[p] = "status" /\ todo'[p] = todo[p] \ {current[p]}
        /\ UNCHANGED <<found, userReceipt>>
    BY <1>12 DEF SetClaimed, GoThrough, TypeOK
  <2>2. o = current[p]
    BY <2>1 DEF PassesOver
  <2>. QED  BY <2>1, <2>2 DEF IInv, InOrder
<1>13. ASSUME ImportFails(p) PROVE userReceipt'[o] \/ faults' < faults
  <2>1. CASE \E kind : Fails(kind)
    BY <1>1, <2>1
  <2>2. CASE ~\E kind : Fails(kind)
    <3>1. PICK x \in todo[p] : /\ pc[p] = "import" /\ userReceipt[x]
                               /\ GoThrough(p, todo[p] \ {x})
                               /\ UNCHANGED <<found, userReceipt>>
      BY <1>13, <2>2 DEF ImportFails, rows
    <3>2. todo'[p] = todo[p] \ {x}
      BY <3>1 DEF GoThrough, TypeOK
    <3>3. o = x
      BY <3>1, <3>2 DEF PassesOver
    <3>. QED  BY <3>1, <3>3
  <2>. QED  BY <2>1, <2>2
<1>. QED
  BY <1>2, <1>3, <1>5, <1>6, <1>7, <1>8, <1>9, <1>10, <1>11, <1>12, <1>13 DEF Next, ImportStep

(* What a run may leave out of the claims on the chain: nothing it found and
   never the newest, whoever else imports at the same time. *)
THEOREM ClaimsAreNotPassedOver == Spec => NoClaimPassedOver
<1>1. FetchInv /\ [Next]_vars =>
        [\A p \in Procs, o \in Orders :
           (PassesOver(p, o) /\ claimedAt[o] > 0 /\ (Newest(o) \/ o \in found[p] \cup todo[p]))
             => userReceipt'[o] \/ faults' < faults \/ restarts' > restarts]_vars
  BY PassedStep
<1>. QED  BY <1>1, InitFetchInv, FetchInvStep, PTL DEF Spec, NoClaimPassedOver
=============================================================================
