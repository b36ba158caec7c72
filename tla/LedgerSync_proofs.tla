-------------------------- MODULE LedgerSync_proofs --------------------------
(***************************************************************************)
(* Proofs about module LedgerSync, for any number of processes, networks,  *)
(* accounts and transfers, and any number of failed calls and restarts.    *)
(*                                                                         *)
(* The argument for NoHole: the movements of a network are numbered by     *)
(* block, a run starts at or before every movement that is missing from    *)
(* the journal, and it goes through what it found by number, so that it    *)
(* journals no movement while an older one it found is missing.  Said with *)
(* numbers for blocks (ByNumber) this also makes the journal a book in the *)
(* sense of module JournalBook.                                            *)
(*                                                                         *)
(* For BalanceIsJournal: between the look at the journal and the insert a  *)
(* run that is alone holds the total of the rows (RowInv).  For            *)
(* NoFalseUnderflow: with a movement the journal has all older ones of the *)
(* account on that network, and such a set never adds up to less than      *)
(* zero, in whatever order the networks were read (NeverBelowZero).  Both  *)
(* need laws of sums, which are proved first.                              *)
(***************************************************************************)
EXTENDS LedgerSync, FiniteSetTheorems, TLAPS

LEMMA MovementFacts ==
  \A m \in Movements :
    /\ (m + 1) \div 2 \in DOMAIN Transfers
    /\ TransferOf(m) \in Event
    /\ BlockOf(m) \in Nat \ {0} /\ NetworkOf(m) \in Networks /\ AccountOf(m) \in Accounts
    /\ TransferOf(m).amount \in Nat
    /\ MovementGroup(m) \in Groups
<1>. TAKE m \in Movements
<1>1. Len(Transfers) \in Nat /\ DOMAIN Transfers = 1 .. Len(Transfers)
  BY LedgerAssumption DEF LedgerAssumption
<1>2. m \in Int /\ 1 <= m /\ m <= 2 * Len(Transfers)
  BY <1>1 DEF Movements
<1>3. (m + 1) \div 2 \in 1 .. Len(Transfers)
  BY <1>1, <1>2
<1>4. TransferOf(m) \in Event
  BY <1>1, <1>3, LedgerAssumption DEF TransferOf, LedgerAssumption
<1>5. /\ BlockOf(m) \in Nat \ {0} /\ NetworkOf(m) \in Networks /\ AccountOf(m) \in Accounts
      /\ TransferOf(m).amount \in Nat
  BY <1>4 DEF BlockOf, NetworkOf, AccountOf, Event
<1>6. MovementGroup(m) \in Groups
  BY <1>5, LedgerAssumption DEF MovementGroup, LedgerAssumption
<1>. QED  BY <1>1, <1>3, <1>4, <1>5, <1>6

(* Within a network a movement of a lower number is of no higher block. *)
LEMMA NumberedByBlock ==
  \A m, x \in Movements :
    (NetworkOf(m) = NetworkOf(x) /\ m <= x) => BlockOf(m) <= BlockOf(x)
<1>. TAKE m \in Movements, x \in Movements
<1>. HAVE NetworkOf(m) = NetworkOf(x) /\ m <= x
<1>. DEFINE i == (m + 1) \div 2
            j == (x + 1) \div 2
<1>1. m \in Int /\ x \in Int
  BY DEF Movements
<1>2. i <= j /\ i \in Int /\ j \in Int
  BY <1>1
<1>3. i \in DOMAIN Transfers /\ j \in DOMAIN Transfers
  BY MovementFacts
<1>4. BlockOf(m) = Transfers[i].block /\ BlockOf(x) = Transfers[j].block
  BY DEF BlockOf, TransferOf
<1>5. Transfers[i].network = Transfers[j].network
  BY DEF NetworkOf, TransferOf
<1>6. BlockOf(m) \in Nat
  BY MovementFacts
<1>. HIDE DEF i, j
<1>7. CASE i = j
  BY <1>4, <1>6, <1>7
<1>8. CASE i < j
  BY <1>3, <1>4, <1>5, <1>8, LedgerAssumption DEF LedgerAssumption
<1>. QED  BY <1>2, <1>7, <1>8
-----------------------------------------------------------------------------
LEMMA NewTotalType ==
  ASSUME NEW m \in Movements, NEW total \in Nat
  PROVE  NewTotal(m, total) \in Int
BY MovementFacts DEF NewTotal

LEMMA InitTypeOK == Init => TypeOK
<1>. HAVE Init
<1>1. DOMAIN balance = {}
  BY DEF Init
<1>2. /\ head \in [Networks -> Nat] /\ journal \in [Movements -> Nat]
      /\ faults \in Nat /\ restarts \in Nat
      /\ overlapped \in BOOLEAN
      /\ torn \subseteq Movements /\ dropped \subseteq Movements
  BY LedgerAssumption DEF Init, LedgerAssumption
<1>3. /\ cursor \in [Procs -> [Networks -> Nat]]
      /\ todo \in [Procs -> SUBSET Movements]
      /\ seen \in [Procs -> Nat]
      /\ pc \in [Procs -> {"idle", "fetch", "entry", "read", "save", "journal"}]
  BY DEF Init
<1>. QED  BY <1>1, <1>2, <1>3 DEF TypeOK

(* The parts of TypeOK that an action of a run can change *)
LEMMA GoThroughType ==
  ASSUME TypeOK, NEW p \in Procs, NEW movements \in SUBSET Movements, GoThrough(p, movements)
  PROVE  /\ todo' \in [Procs -> SUBSET Movements] /\ seen' \in [Procs -> Nat]
         /\ pc' \in [Procs -> {"idle", "fetch", "entry", "read", "save", "journal"}]
BY DEF TypeOK, GoThrough

LEMMA FailsType ==
  ASSUME TypeOK, NEW kind, Fails(kind)
  PROVE  faults' \in Nat
BY DEF TypeOK, Fails

LEMMA TypeStep == TypeOK /\ [Next]_vars => TypeOK'
<1>. SUFFICES ASSUME TypeOK, [Next]_vars PROVE TypeOK'
  OBVIOUS
<1>1. ASSUME NEW n \in Networks, Mine(n) PROVE TypeOK'
  BY <1>1 DEF Mine, TypeOK, job, history
<1>2. ASSUME NEW p \in Procs, Start(p) PROVE TypeOK'
  <2>1. PICK last \in [Networks -> {BlockOf(m) : m \in Movements} \cup {0}] :
          cursor' = [cursor EXCEPT ![p] = [n \in Networks |-> FromBlock(last[n])]]
    BY <1>2 DEF Start
  <2>2. \A n \in Networks : FromBlock(last[n]) \in Nat
    BY MovementFacts DEF FromBlock
  <2>3. cursor' \in [Procs -> [Networks -> Nat]]
    BY <2>1, <2>2 DEF TypeOK
  <2>. QED  BY <1>2, <2>3 DEF Start, TypeOK
<1>3. ASSUME NEW p \in Procs, Fetch(p) PROVE TypeOK'
  <2>1. Found(p) \subseteq Movements
    BY DEF Found, Mined
  <2>. QED  BY <1>3, <2>1, GoThroughType DEF Fetch, TypeOK, history
<1>4. ASSUME NEW p \in Procs, FetchWithout(p) PROVE TypeOK'
  <2>1. Found(p) \subseteq Movements
    BY DEF Found, Mined
  <2>2. PICK m \in Found(p) :
          LET event == {x \in Movements : (x + 1) \div 2 = (m + 1) \div 2}
          IN  /\ GoThrough(p, Found(p) \ event)
              /\ dropped' = dropped \cup event
    BY <1>4 DEF FetchWithout
  <2>. DEFINE event == {x \in Movements : (x + 1) \div 2 = (m + 1) \div 2}
  <2>3. /\ GoThrough(p, Found(p) \ event) /\ dropped' = dropped \cup event
    BY <2>2
  <2>4. event \subseteq Movements /\ Found(p) \ event \subseteq Movements
    BY <2>1
  <2>. HIDE DEF event
  <2>. QED  BY <1>4, <2>3, <2>4, GoThroughType, FailsType DEF FetchWithout, TypeOK
<1>5. ASSUME NEW p \in Procs, NEW m \in Movements, Skip(p, m) \/ Underflow(p, m) PROVE TypeOK'
  <2>1. PICK movements \in SUBSET Movements : GoThrough(p, movements)
    BY <1>5 DEF Skip, Underflow, TypeOK
  <2>. QED  BY <1>5, <2>1, GoThroughType DEF Skip, Underflow, TypeOK, history
<1>6. ASSUME NEW p \in Procs, NEW m \in Movements, Check(p, m) PROVE TypeOK'
  BY <1>6 DEF Check, TypeOK, history
<1>7. ASSUME NEW p \in Procs, NEW m \in Movements, ReadBalance(p, m) PROVE TypeOK'
  <2>1. seen' \in [Procs -> Nat]
    BY <1>7 DEF ReadBalance, RowsOf, TypeOK
  <2>. QED  BY <1>7, <2>1 DEF ReadBalance, TypeOK, history
<1>8. ASSUME NEW p \in Procs, NEW m \in Movements, UpsertBalance(p, m) PROVE TypeOK'
  <2>. DEFINE row == <<AccountOf(m), MovementGroup(m)>>
              total == NewTotal(m, seen[p])
  <2>1. row \in Accounts \X Groups
    BY MovementFacts
  <2>2. total \in Nat
    BY <1>8, NewTotalType DEF UpsertBalance, TypeOK
  <2>3. balance' = [key \in DOMAIN balance \cup {row} |-> IF key = row THEN total ELSE balance[key]]
    BY <1>8 DEF UpsertBalance
  <2>. HIDE DEF row, total
  <2>4. /\ DOMAIN balance' \subseteq Accounts \X Groups
        /\ \A key \in DOMAIN balance' : balance'[key] \in Nat
    BY <2>1, <2>2, <2>3 DEF TypeOK
  <2>. QED  BY <1>8, <2>4 DEF UpsertBalance, TypeOK, history
<1>9. ASSUME NEW p \in Procs, NEW m \in Movements, InsertJournal(p, m) PROVE TypeOK'
  <2>1. todo[p] \ {m} \subseteq Movements
    BY DEF TypeOK
  <2>2. journal' \in [Movements -> Nat]
    BY <1>9 DEF InsertJournal, TypeOK
  <2>. QED  BY <1>9, <2>1, <2>2, GoThroughType DEF InsertJournal, TypeOK, history
<1>10. ASSUME NEW p \in Procs, RunFails(p) \/ Restart(p) PROVE TypeOK'
  <2>1. GoThrough(p, {}) /\ Tear(p)
    BY <1>10 DEF RunFails, Restart
  <2>2. torn' \subseteq Movements
    BY <2>1 DEF Tear, TypeOK
  <2>3. faults' \in Nat /\ restarts' \in Nat
    BY <1>10, FailsType DEF RunFails, Restart, TypeOK
  <2>. QED  BY <1>10, <2>1, <2>2, <2>3, GoThroughType DEF RunFails, Restart, TypeOK
<1>11. CASE UNCHANGED vars
  BY <1>11 DEF vars, job, history, TypeOK
<1>. QED
  BY <1>1, <1>2, <1>3, <1>4, <1>5, <1>6, <1>7, <1>8, <1>9, <1>10, <1>11 DEF Next, LedgerStep

(* Every variable keeps the type TypeOK gives it. *)
THEOREM LedgerTypes == Spec => []TypeOK
BY InitTypeOK, TypeStep, PTL DEF Spec
-----------------------------------------------------------------------------
(* What the journal holds is on the chain, and so is what a run works on. *)
OnChain ==
  /\ \A m \in Movements : journal[m] > 0 => m \in Mined
  /\ \A p \in Procs : todo[p] \subseteq Mined

(* A run starts at or before every movement that is missing; and every missing
   movement older than one it still has to do is one it has to do. *)
Resumes ==
  \A p \in Procs :
    /\ \A n \in Networks : pc[p] = "fetch" => cursor[p][n] <= head[n]
    /\ \A m \in Mined \ dropped :
         journal[m] = 0 =>
           /\ pc[p] = "fetch" => cursor[p][NetworkOf(m)] <= BlockOf(m)
           /\ \A x \in todo[p] :
                (NetworkOf(x) = NetworkOf(m) /\ BlockOf(m) < BlockOf(x)) => m \in todo[p]

HoleInv == TypeOK /\ NoHole /\ OnChain /\ Resumes

LEMMA InitHoleInv == Init => HoleInv
<1>. HAVE Init
<1>1. TypeOK
  BY InitTypeOK
<1>2. Mined = {}
  BY MovementFacts DEF Mined, Init
<1>3. \A m \in Movements : journal[m] = 0
  BY DEF Init
<1>4. \A p \in Procs : todo[p] = {} /\ pc[p] = "idle"
  BY DEF Init
<1>. QED  BY <1>1, <1>2, <1>3, <1>4 DEF HoleInv, NoHole, OnChain, Resumes

(* A new block holds no movement older than one that is journalled or found. *)
LEMMA MineKeeps ==
  ASSUME HoleInv, NEW n \in Networks, Mine(n)
  PROVE  NoHole' /\ OnChain' /\ Resumes'
<1>. USE DEF HoleInv
<1>1. /\ UNCHANGED <<journal, pc, cursor, todo, dropped>>
      /\ head' = [head EXCEPT ![n] = @ + 1]
  BY DEF Mine, job, history
<1>2. /\ head' \in [Networks -> Nat]
      /\ \A k \in Networks : head[k] <= head'[k]
  BY <1>1 DEF TypeOK
<1>3. Mined \subseteq Mined'
  BY <1>2, MovementFacts DEF Mined, TypeOK
<1>4. \A m \in Mined' \ Mined : BlockOf(m) > head[NetworkOf(m)]
  BY MovementFacts DEF Mined, TypeOK
<1>5. \A m \in Mined' \ Mined, x \in Mined : NetworkOf(m) = NetworkOf(x) => BlockOf(x) <= BlockOf(m)
  BY <1>4, MovementFacts DEF Mined, TypeOK
<1>6. Mined' \subseteq Movements /\ Mined \subseteq Movements
  BY DEF Mined
<1>7. NoHole'
  BY <1>1, <1>3, <1>5, <1>6 DEF NoHole, OnChain
<1>8. OnChain'
  BY <1>1, <1>3 DEF OnChain
<1>9. Resumes'
  <2>1. ASSUME NEW p \in Procs, NEW k \in Networks, pc[p] = "fetch"
        PROVE  cursor[p][k] <= head'[k]
    BY <1>2, <2>1 DEF Resumes, TypeOK
  <2>2. ASSUME NEW p \in Procs, NEW m \in Mined' \ dropped, journal[m] = 0, pc[p] = "fetch"
        PROVE  cursor[p][NetworkOf(m)] <= BlockOf(m)
    <3>1. CASE m \in Mined
      BY <2>2, <3>1 DEF Resumes
    <3>2. CASE m \notin Mined
      <4>1. BlockOf(m) > head[NetworkOf(m)] /\ NetworkOf(m) \in Networks /\ BlockOf(m) \in Nat
        BY <1>4, <1>6, <3>2, MovementFacts
      <4>2. cursor[p][NetworkOf(m)] <= head[NetworkOf(m)]
        BY <2>2, <4>1 DEF Resumes
      <4>. QED  BY <4>1, <4>2 DEF TypeOK
    <3>. QED  BY <3>1, <3>2
  <2>3. ASSUME NEW p \in Procs, NEW m \in Mined' \ dropped, journal[m] = 0,
               NEW x \in todo[p], NetworkOf(x) = NetworkOf(m), BlockOf(m) < BlockOf(x)
        PROVE  m \in todo[p]
    <3>1. x \in Mined
      BY DEF OnChain
    <3>2. BlockOf(m) \in Nat /\ BlockOf(x) \in Nat
      BY <1>6, <3>1, MovementFacts
    <3>3. m \in Mined
      BY <1>5, <2>3, <3>1, <3>2
    <3>. QED  BY <2>3, <3>3 DEF Resumes
  <2>. QED  BY <1>1, <2>1, <2>2, <2>3 DEF Resumes
<1>. QED  BY <1>7, <1>8, <1>9

(* The newest block of the journal is not above any missing movement. *)
LEMMA StartKeeps ==
  ASSUME HoleInv, NEW p \in Procs, Start(p)
  PROVE  NoHole' /\ OnChain' /\ Resumes'
<1>. USE DEF HoleInv
<1>1. UNCHANGED <<head, journal, todo, dropped>> /\ Mined' = Mined
  BY DEF Start, Mined
<1>2. PICK last \in [Networks -> {BlockOf(m) : m \in Movements} \cup {0}] :
        /\ \A n \in Networks : IsLastBlock(n, last[n])
        /\ cursor' = [cursor EXCEPT ![p] = [n \in Networks |-> FromBlock(last[n])]]
  BY DEF Start
<1>3. \A n \in Networks : /\ cursor'[p][n] = FromBlock(last[n])
                          /\ last[n] \in Nat
                          /\ FromBlock(last[n]) \in Nat /\ FromBlock(last[n]) <= last[n]
  BY <1>2, MovementFacts DEF FromBlock, TypeOK
<1>4. \A q \in Procs \ {p} : cursor'[q] = cursor[q] /\ pc'[q] = pc[q]
  BY <1>2 DEF Start, TypeOK
<1>5. \A n \in Networks : last[n] # 0 =>
        \E x \in Movements : journal[x] > 0 /\ NetworkOf(x) = n /\ BlockOf(x) = last[n]
  BY <1>2 DEF IsLastBlock, JournalBlocks
<1>6. \A n \in Networks : cursor'[p][n] <= head[n]
  <2>1. TAKE n \in Networks
  <2>2. CASE last[n] = 0
    BY <1>3, <2>2 DEF TypeOK
  <2>3. CASE last[n] # 0
    <3>1. PICK x \in Movements : journal[x] > 0 /\ NetworkOf(x) = n /\ BlockOf(x) = last[n]
      BY <1>5, <2>3
    <3>2. BlockOf(x) <= head[n]
      BY <3>1 DEF OnChain, Mined
    <3>. QED  BY <1>3, <3>1, <3>2 DEF TypeOK
  <2>. QED  BY <2>2, <2>3
<1>7. \A m \in Mined \ dropped : journal[m] = 0 => cursor'[p][NetworkOf(m)] <= BlockOf(m)
  <2>1. TAKE m \in Mined \ dropped
  <2>2. HAVE journal[m] = 0
  <2>3. m \in Movements /\ NetworkOf(m) \in Networks /\ BlockOf(m) \in Nat
    BY MovementFacts DEF Mined
  <2>4. CASE last[NetworkOf(m)] = 0
    BY <1>3, <2>3, <2>4
  <2>5. CASE last[NetworkOf(m)] # 0
    <3>1. PICK x \in Movements : /\ journal[x] > 0 /\ NetworkOf(x) = NetworkOf(m)
                                 /\ BlockOf(x) = last[NetworkOf(m)]
      BY <1>5, <2>3, <2>5
    <3>2. BlockOf(x) <= BlockOf(m)
      BY <2>2, <3>1 DEF NoHole
    <3>. QED  BY <1>3, <2>3, <3>1, <3>2
  <2>. QED  BY <2>4, <2>5
<1>8. NoHole' /\ OnChain'
  BY <1>1 DEF NoHole, OnChain
<1>9. Resumes'
  BY <1>1, <1>4, <1>6, <1>7 DEF Resumes
<1>. QED  BY <1>8, <1>9

(* What a process knows after a step that ends its run or gives it movements
   to do, the journal and the chain being as they were *)
LEMMA GoThroughKeeps ==
  ASSUME HoleInv, NEW p \in Procs, NEW movements \in SUBSET Mined, GoThrough(p, movements),
         UNCHANGED <<head, journal, cursor>>, dropped \subseteq dropped',
         \A m \in Mined \ dropped', x \in movements :
           (journal[m] = 0 /\ NetworkOf(x) = NetworkOf(m) /\ BlockOf(m) < BlockOf(x))
             => m \in movements
  PROVE  NoHole' /\ OnChain' /\ Resumes'
<1>. USE DEF HoleInv
<1>1. /\ todo'[p] = movements /\ pc'[p] # "fetch"
      /\ \A q \in Procs \ {p} : todo'[q] = todo[q] /\ pc'[q] = pc[q]
  BY DEF GoThrough, TypeOK
<1>2. Mined' = Mined
  BY DEF Mined
<1>3. NoHole' /\ OnChain'
  BY <1>1, <1>2 DEF NoHole, OnChain
<1>4. Resumes'
  <2>1. SUFFICES ASSUME NEW q \in Procs
                 PROVE  /\ \A n \in Networks : pc'[q] = "fetch" => cursor[q][n] <= head[n]
                        /\ \A m \in Mined \ dropped' :
                             journal[m] = 0 =>
                               /\ pc'[q] = "fetch" => cursor[q][NetworkOf(m)] <= BlockOf(m)
                               /\ \A x \in todo'[q] :
                                    (NetworkOf(x) = NetworkOf(m) /\ BlockOf(m) < BlockOf(x))
                                      => m \in todo'[q]
    BY <1>2 DEF Resumes
  <2>2. CASE q = p
    BY <1>1, <2>2
  <2>3. CASE q # p
    BY <1>1, <2>3 DEF Resumes
  <2>. QED  BY <2>2, <2>3
<1>. QED  BY <1>3, <1>4

(* A run that reads the chain finds every missing movement. *)
LEMMA FetchFindsMissing ==
  ASSUME HoleInv, NEW p \in Procs, pc[p] = "fetch",
         NEW m \in Mined \ dropped, journal[m] = 0
  PROVE  m \in Found(p)
<1>1. cursor[p][NetworkOf(m)] <= BlockOf(m)
  BY DEF HoleInv, Resumes
<1>2. BlockOf(m) \in Nat /\ cursor[p][NetworkOf(m)] \in Nat
  BY MovementFacts DEF HoleInv, TypeOK, Mined
<1>. QED  BY <1>1, <1>2 DEF Found

LEMMA FetchKeeps ==
  ASSUME HoleInv, NEW p \in Procs, Fetch(p) \/ FetchWithout(p)
  PROVE  NoHole' /\ OnChain' /\ Resumes'
<1>1. Found(p) \subseteq Mined
  BY DEF Found
<1>2. \A m \in Mined \ dropped : journal[m] = 0 => m \in Found(p)
  BY FetchFindsMissing DEF Fetch, FetchWithout
<1>3. CASE Fetch(p)
  BY <1>1, <1>2, <1>3, GoThroughKeeps DEF Fetch, history
<1>4. CASE FetchWithout(p)
  <2>1. PICK m \in Found(p) :
          LET event == {x \in Movements : (x + 1) \div 2 = (m + 1) \div 2}
          IN  GoThrough(p, Found(p) \ event) /\ dropped' = dropped \cup event
    BY <1>4 DEF FetchWithout
  <2>. DEFINE event == {x \in Movements : (x + 1) \div 2 = (m + 1) \div 2}
  <2>2. GoThrough(p, Found(p) \ event) /\ dropped' = dropped \cup event
    BY <2>1
  <2>. HIDE DEF event
  <2>3. UNCHANGED <<head, journal, cursor>>
    BY <1>4 DEF FetchWithout
  <2>. QED  BY <1>1, <1>2, <2>2, <2>3, GoThroughKeeps
<1>. QED  BY <1>3, <1>4

LEMMA SkipKeeps ==
  ASSUME HoleInv, NEW p \in Procs, NEW m \in Movements, Skip(p, m)
  PROVE  NoHole' /\ OnChain' /\ Resumes'
<1>1. todo[p] \ {m} \subseteq Mined /\ m \in todo[p]
  BY DEF Skip, IsNext, HoleInv, OnChain
<1>2. journal[m] # 0
  BY DEF Skip, IsNew
<1>3. GoThrough(p, todo[p] \ {m}) /\ UNCHANGED <<head, journal, cursor, dropped>>
  BY DEF Skip, history
<1>4. \A y \in Mined \ dropped', x \in todo[p] \ {m} :
        (journal[y] = 0 /\ NetworkOf(x) = NetworkOf(y) /\ BlockOf(y) < BlockOf(x))
          => y \in todo[p] \ {m}
  BY <1>2, <1>3 DEF HoleInv, Resumes
<1>. QED  BY <1>1, <1>3, <1>4, GoThroughKeeps

LEMMA QuietKeeps ==
  ASSUME HoleInv, NEW p \in Procs, NEW m \in Movements,
         Check(p, m) \/ ReadBalance(p, m) \/ UpsertBalance(p, m)
  PROVE  NoHole' /\ OnChain' /\ Resumes'
<1>1. UNCHANGED <<head, journal, cursor, todo, dropped>>
  BY DEF Check, ReadBalance, UpsertBalance, history
<1>2. \A q \in Procs : pc'[q] = "fetch" => pc[q] = "fetch"
  BY DEF Check, ReadBalance, UpsertBalance, HoleInv, TypeOK
<1>3. Mined' = Mined
  BY <1>1 DEF Mined
<1>. QED  BY <1>1, <1>2, <1>3 DEF HoleInv, NoHole, OnChain, Resumes

(* The movement a run journals is the first of those it has to do, and no
   older movement of its network is missing. *)
LEMMA InsertJournalKeeps ==
  ASSUME HoleInv, NEW p \in Procs, NEW m \in Movements, InsertJournal(p, m)
  PROVE  NoHole' /\ OnChain' /\ Resumes'
<1>. USE DEF HoleInv
<1>1. /\ m \in todo[p] /\ \A x \in todo[p] : m <= x
      /\ journal' = [journal EXCEPT ![m] = @ + 1]
      /\ GoThrough(p, todo[p] \ {m})
      /\ UNCHANGED <<head, cursor, dropped>>
  BY DEF InsertJournal, IsNext, history
<1>2. /\ journal'[m] > 0
      /\ \A x \in Movements \ {m} : journal'[x] = journal[x]
  BY <1>1 DEF TypeOK
<1>3. /\ todo'[p] = todo[p] \ {m} /\ pc'[p] # "fetch"
      /\ \A q \in Procs \ {p} : todo'[q] = todo[q] /\ pc'[q] = pc[q]
  BY <1>1 DEF GoThrough, TypeOK
<1>4. Mined' = Mined /\ Mined \subseteq Movements
  BY <1>1 DEF Mined
<1>5. \A y \in Mined \ dropped :
        (journal'[y] = 0 /\ NetworkOf(m) = NetworkOf(y)) => BlockOf(m) <= BlockOf(y)
  <2>. TAKE y \in Mined \ dropped
  <2>. HAVE journal'[y] = 0 /\ NetworkOf(m) = NetworkOf(y)
  <2>1. journal[y] = 0
    BY <1>2, <1>4
  <2>2. BlockOf(m) \in Nat /\ BlockOf(y) \in Nat
    BY <1>4, MovementFacts
  <2>3. BlockOf(y) < BlockOf(m) => m <= y
    BY <1>1, <2>1 DEF Resumes
  <2>. QED  BY <1>4, <2>2, <2>3, NumberedByBlock
<1>6. NoHole'
  BY <1>1, <1>2, <1>4, <1>5 DEF NoHole
<1>7. OnChain'
  BY <1>1, <1>2, <1>3, <1>4 DEF OnChain
<1>8. Resumes'
  BY <1>1, <1>2, <1>3, <1>4 DEF Resumes
<1>. QED  BY <1>6, <1>7, <1>8

LEMMA EndKeeps ==
  ASSUME HoleInv, NEW p \in Procs,
         RunFails(p) \/ Restart(p) \/ \E m \in Movements : Underflow(p, m)
  PROVE  NoHole' /\ OnChain' /\ Resumes'
<1>1. GoThrough(p, {}) /\ UNCHANGED <<head, journal, cursor, dropped>>
  BY DEF RunFails, Restart, Underflow, history
<1>. QED  BY <1>1, GoThroughKeeps

LEMMA HoleStep == HoleInv /\ [Next]_vars => HoleInv'
<1>. SUFFICES ASSUME HoleInv, [Next]_vars PROVE HoleInv'
  OBVIOUS
<1>1. TypeOK'
  BY TypeStep DEF HoleInv
<1>2. CASE UNCHANGED vars
  <2>1. Mined' = Mined
    BY <1>2 DEF vars, Mined
  <2>. QED  BY <1>1, <1>2, <2>1 DEF vars, job, history, HoleInv, NoHole, OnChain, Resumes
<1>3. CASE Next
  BY <1>1, <1>3, MineKeeps, StartKeeps, FetchKeeps, SkipKeeps, QuietKeeps, InsertJournalKeeps,
     EndKeeps
     DEF Next, LedgerStep, HoleInv
<1>. QED  BY <1>2, <1>3

(* Whatever fails, races or is restarted, no movement is journalled while an
   older one of its network, which no fetch left out, is missing. *)
THEOREM JournalHasNoHole == Spec => []NoHole
<1>1. Spec => []HoleInv
  BY InitHoleInv, HoleStep, PTL DEF Spec
<1>. QED  BY <1>1, PTL DEF HoleInv
-----------------------------------------------------------------------------
(* While runs have not overlapped, one process at most is at work, and the
   movement it is about to save has no row. *)
Alone ==
  ~overlapped =>
    /\ \A p, q \in Procs : pc[p] # "idle" /\ pc[q] # "idle" => p = q
    /\ \A p \in Procs, m \in Movements :
         pc[p] \in {"read", "save", "journal"} /\ IsNext(p, m) => journal[m] = 0

OnceInv == TypeOK /\ JournalledOnce /\ Alone

LEMMA InitOnceInv == Init => OnceInv
<1>. HAVE Init
<1>1. TypeOK
  BY InitTypeOK
<1>. QED  BY <1>1 DEF Init, OnceInv, JournalledOnce, Alone

(* A step of p after which p checks its next movement first, or nothing *)
LEMMA GoThroughAlone ==
  ASSUME OnceInv, NEW p \in Procs, NEW movements \in SUBSET Movements, GoThrough(p, movements),
         pc[p] # "idle", UNCHANGED overlapped,
         ~overlapped => \A m \in Movements : journal'[m] <= 1
  PROVE  JournalledOnce' /\ Alone'
<1>. USE DEF OnceInv
<1>1. /\ pc'[p] \in {"idle", "entry"}
      /\ \A q \in Procs \ {p} : pc'[q] = pc[q]
  BY DEF GoThrough, TypeOK
<1>2. ~overlapped => \A q \in Procs \ {p} : pc'[q] = "idle"
  BY <1>1 DEF Alone
<1>. QED  BY <1>1, <1>2 DEF JournalledOnce, Alone

(* The steps between the check of a movement and its journal row *)
LEMMA SaveAlone ==
  ASSUME OnceInv, NEW p \in Procs, NEW m \in Movements,
         Check(p, m) \/ ReadBalance(p, m) \/ UpsertBalance(p, m)
  PROVE  JournalledOnce' /\ Alone'
<1>. USE DEF OnceInv
<1>1. /\ UNCHANGED <<journal, todo, overlapped>> /\ pc[p] # "idle" /\ IsNext(p, m)
      /\ \A q \in Procs \ {p} : pc'[q] = pc[q]
  BY DEF Check, ReadBalance, UpsertBalance, history, TypeOK
<1>2. JournalledOnce'
  BY <1>1 DEF JournalledOnce
<1>3. \A x \in Movements : IsNext(p, x) => x = m
  BY <1>1 DEF IsNext, Movements, TypeOK
<1>4. ~overlapped => journal[m] = 0
  BY <1>1 DEF Alone, Check, IsNew, ReadBalance, UpsertBalance
<1>5. Alone'
  <2>1. SUFFICES ASSUME ~overlapped
                 PROVE  /\ \A q, r \in Procs : pc'[q] # "idle" /\ pc'[r] # "idle" => q = r
                        /\ \A q \in Procs, x \in Movements :
                             pc'[q] \in {"read", "save", "journal"} /\ IsNext(q, x)'
                               => journal[x] = 0
    BY <1>1 DEF Alone
  <2>2. \A q \in Procs \ {p} : pc'[q] = "idle"
    BY <1>1, <2>1 DEF Alone
  <2>3. \A x \in Movements : IsNext(p, x)' => x = m
    BY <1>1, <1>3 DEF IsNext
  <2>. QED  BY <1>4, <2>1, <2>2, <2>3
<1>. QED  BY <1>2, <1>5

LEMMA OnceStep == OnceInv /\ [Next]_vars => OnceInv'
<1>. SUFFICES ASSUME OnceInv, [Next]_vars PROVE OnceInv'
  OBVIOUS
<1>. USE DEF OnceInv
<1>1. TypeOK'
  BY TypeStep
<1>2. ASSUME NEW n \in Networks, Mine(n) PROVE JournalledOnce' /\ Alone'
  BY <1>2 DEF Mine, job, history, JournalledOnce, Alone, IsNext
<1>3. ASSUME NEW p \in Procs, Start(p) PROVE JournalledOnce' /\ Alone'
  <2>1. /\ UNCHANGED <<journal, todo>> /\ pc'[p] = "fetch"
        /\ \A q \in Procs \ {p} : pc'[q] = pc[q]
        /\ ~overlapped' => ~overlapped /\ \A q \in Procs : pc[q] = "idle"
    BY <1>3 DEF Start, TypeOK
  <2>. QED  BY <2>1 DEF JournalledOnce, Alone, IsNext
<1>4. ASSUME NEW p \in Procs, Fetch(p) \/ FetchWithout(p) PROVE JournalledOnce' /\ Alone'
  <2>1. PICK movements \in SUBSET Movements : GoThrough(p, movements)
    <3>1. Found(p) \subseteq Movements
      BY DEF Found, Mined
    <3>. QED  BY <1>4, <3>1 DEF Fetch, FetchWithout
  <2>2. UNCHANGED <<journal, overlapped>> /\ pc[p] # "idle"
    BY <1>4 DEF Fetch, FetchWithout, history
  <2>. QED  BY <2>1, <2>2, GoThroughAlone DEF JournalledOnce
<1>5. ASSUME NEW p \in Procs, NEW m \in Movements, Skip(p, m) PROVE JournalledOnce' /\ Alone'
  <2>1. todo[p] \ {m} \subseteq Movements
    BY DEF TypeOK
  <2>2. GoThrough(p, todo[p] \ {m}) /\ UNCHANGED <<journal, overlapped>> /\ pc[p] # "idle"
    BY <1>5 DEF Skip, history
  <2>. QED  BY <2>1, <2>2, GoThroughAlone DEF JournalledOnce
<1>6. ASSUME NEW p \in Procs, NEW m \in Movements, InsertJournal(p, m)
      PROVE  JournalledOnce' /\ Alone'
  <2>1. todo[p] \ {m} \subseteq Movements
    BY DEF TypeOK
  <2>2. /\ GoThrough(p, todo[p] \ {m}) /\ UNCHANGED overlapped /\ pc[p] = "journal"
        /\ IsNext(p, m) /\ journal' = [journal EXCEPT ![m] = @ + 1]
    BY <1>6 DEF InsertJournal, history
  <2>3. ~overlapped => \A x \in Movements : journal'[x] <= 1
    BY <2>2 DEF Alone, JournalledOnce, TypeOK
  <2>. QED  BY <2>1, <2>2, <2>3, GoThroughAlone
<1>7. ASSUME NEW p \in Procs,
             RunFails(p) \/ Restart(p) \/ \E m \in Movements : Underflow(p, m)
      PROVE  JournalledOnce' /\ Alone'
  <2>1. GoThrough(p, {}) /\ UNCHANGED <<journal, overlapped>> /\ pc[p] # "idle"
    BY <1>7 DEF RunFails, Restart, Underflow, history
  <2>. QED  BY <2>1, GoThroughAlone DEF JournalledOnce
<1>8. CASE UNCHANGED vars
  <2>1. UNCHANGED <<journal, pc, todo, overlapped>>
    BY <1>8 DEF vars, job, history
  <2>. QED  BY <1>1, <2>1 DEF JournalledOnce, Alone, IsNext
<1>. QED
  BY <1>1, <1>2, <1>3, <1>4, <1>5, <1>6, <1>7, <1>8, SaveAlone DEF Next, LedgerStep

(* Runs that do not overlap journal no movement twice. *)
THEOREM MovementsJournalledOnce == Spec => []JournalledOnce
<1>1. Spec => []OnceInv
  BY InitOnceInv, OnceStep, PTL DEF Spec
<1>. QED  BY <1>1, PTL DEF OnceInv
-----------------------------------------------------------------------------
(* Sums.  AmountIn applies a recursive function on the subsets of its argument,
   one such function for every argument.  That these functions exist, that
   they agree, and that a sum is its terms in any order is shown by looking
   at a smallest set for which it would not hold. *)
Amount(m) == TransferOf(m).amount

LEMMA AmountType == \A m \in Movements : Amount(m) \in Nat
BY MovementFacts DEF Amount

LEMMA MovementsFinite == IsFiniteSet(Movements)
<1>1. Len(Transfers) \in Nat
  BY LedgerAssumption DEF LedgerAssumption
<1>. QED  BY <1>1, FS_Interval DEF Movements

(* Among the sets of movements of some kind there is a smallest. *)
LEMMA SmallestSet ==
  ASSUME NEW T \in SUBSET SUBSET Movements, T # {}
  PROVE  \E s \in T : \A u \in T : u \subseteq s => u = s
<1>1. IsWellFoundedOn(StrictSubsetOrdering(Movements), SUBSET Movements)
  BY MovementsFinite, FS_FiniteSubsetsOfFinite, FS_StrictSubsetOrderingWellFounded, Zenon
<1>2. PICK s \in T : \A u \in T : ~(<<u, s>> \in StrictSubsetOrdering(Movements))
  BY <1>1, WFMin, Zenon
<1>. QED  BY <1>2 DEF StrictSubsetOrdering

LEMMA LastMovement ==
  ASSUME NEW S \in SUBSET Movements, S # {}
  PROVE  \E x \in S : \A y \in S : y <= x
<1>. DEFINE From(x) == {y \in S : x <= y}
            T == {From(x) : x \in S}
<1>1. PICK s \in T : \A u \in T : u \subseteq s => u = s
  <2>1. T \in SUBSET SUBSET Movements /\ T # {}
    OBVIOUS
  <2>. HIDE DEF T
  <2>. QED  BY <2>1, SmallestSet, Zenon
<1>2. PICK x \in S : s = From(x)
  OBVIOUS
<1>3. ASSUME NEW y \in S PROVE y <= x
  <2>1. x \in Int /\ y \in Int
    BY DEF Movements
  <2>2. SUFFICES ASSUME x < y PROVE FALSE
    BY <2>1
  <2>3. From(y) \in T
    OBVIOUS
  <2>4. From(y) \subseteq s
    <3>1. \A z \in From(y) : z \in Int /\ z \in S /\ y <= z
      BY DEF Movements
    <3>2. \A z \in From(y) : x <= z
      BY <2>1, <2>2, <3>1
    <3>. QED  BY <1>2, <3>1, <3>2
  <2>5. x \in s /\ x \notin From(y)
    BY <1>2, <2>1, <2>2
  <2>. QED  BY <1>1, <2>3, <2>4, <2>5
<1>. QED  BY <1>3

Pick(s) == CHOOSE x \in s : TRUE

IsSum(g, S) ==
  g = [s \in SUBSET S |-> IF s = {} THEN 0 ELSE Amount(Pick(s)) + g[s \ {Pick(s)}]]

LEMMA AmountUnfolds ==
  ASSUME NEW S
  PROVE  AmountIn(S) = (CHOOSE g : IsSum(g, S))[S]
BY Zenon DEF AmountIn, MapThenSumSet, MapThenFoldSet, IsSum, Amount, Pick

LEMMA PickIn ==
  ASSUME NEW s, s # {}
  PROVE  Pick(s) \in s
BY DEF Pick

LEMMA SumApplies ==
  ASSUME NEW g, NEW S, IsSum(g, S), NEW s \in SUBSET S
  PROVE  g[s] = IF s = {} THEN 0 ELSE Amount(Pick(s)) + g[s \ {Pick(s)}]
BY Zenon DEF IsSum

LEMMA SumsAgree ==
  ASSUME NEW S \in SUBSET Movements, NEW T \in SUBSET Movements,
         NEW g, IsSum(g, S), NEW h, IsSum(h, T)
  PROVE  \A s \in SUBSET (S \cap T) : g[s] = h[s]
<1>. DEFINE Apart == {s \in SUBSET (S \cap T) : g[s] # h[s]}
<1>. SUFFICES ASSUME Apart # {} PROVE FALSE
  OBVIOUS
<1>1. PICK s \in Apart : \A u \in Apart : u \subseteq s => u = s
  <2>1. Apart \in SUBSET SUBSET Movements
    OBVIOUS
  <2>. QED  BY <2>1, SmallestSet, Zenon
<1>2. s # {}
  BY SumApplies
<1>3. Pick(s) \in s /\ s \ {Pick(s)} \subseteq s /\ s \ {Pick(s)} # s
  BY <1>2, PickIn
<1>4. g[s \ {Pick(s)}] = h[s \ {Pick(s)}]
  BY <1>1, <1>3
<1>5. s \in SUBSET S /\ s \in SUBSET T
  OBVIOUS
<1>6. g[s] = Amount(Pick(s)) + g[s \ {Pick(s)}] /\ h[s] = Amount(Pick(s)) + h[s \ {Pick(s)}]
  BY <1>2, <1>5, SumApplies
<1>. QED  BY <1>4, <1>6

(* On a smallest set without a sum, the sums of its subsets would make one. *)
LEMMA SumExists ==
  ASSUME NEW S \in SUBSET Movements
  PROVE  \E g : IsSum(g, S)
<1>. DEFINE Without == {s \in SUBSET Movements : ~\E g : IsSum(g, s)}
<1>. SUFFICES ASSUME Without # {} PROVE FALSE
  OBVIOUS
<1>1. PICK s \in Without : \A u \in Without : u \subseteq s => u = s
  <2>1. Without \in SUBSET SUBSET Movements
    OBVIOUS
  <2>. QED  BY <2>1, SmallestSet, Zenon
<1>2. \A u \in SUBSET s : u # s => \E g : IsSum(g, u)
  BY <1>1
<1>. DEFINE f == [u \in SUBSET s |-> IF u = {} THEN 0
                                     ELSE Amount(Pick(u)) + AmountIn(u \ {Pick(u)})]
<1>3. ASSUME NEW u \in SUBSET s, u # s PROVE AmountIn(u) = f[u]
  <2>1. PICK g : IsSum(g, u) /\ AmountIn(u) = g[u]
    BY <1>2, <1>3, AmountUnfolds, Zenon
  <2>2. CASE u = {}
    BY <2>1, <2>2, SumApplies
  <2>3. CASE u # {}
    <3>. DEFINE v == u \ {Pick(u)}
    <3>1. v \in SUBSET u /\ v \in SUBSET s /\ v # s
      BY <1>3
    <3>2. PICK h : IsSum(h, v) /\ AmountIn(v) = h[v]
      BY <1>2, <3>1, AmountUnfolds, Zenon
    <3>3. g[v] = h[v]
      <4>1. u \in SUBSET Movements /\ v \in SUBSET Movements /\ v \in SUBSET (u \cap v)
        BY <3>1
      <4>. HIDE DEF v
      <4>. QED  BY <2>1, <3>2, <4>1, SumsAgree
    <3>4. g[u] = Amount(Pick(u)) + g[v]
      BY <2>1, <2>3, SumApplies
    <3>. QED  BY <2>1, <2>3, <3>2, <3>3, <3>4
  <2>. QED  BY <2>2, <2>3
<1>4. f = [u \in SUBSET s |-> IF u = {} THEN 0 ELSE Amount(Pick(u)) + f[u \ {Pick(u)}]]
  <2>1. ASSUME NEW u \in SUBSET s, u # {} PROVE AmountIn(u \ {Pick(u)}) = f[u \ {Pick(u)}]
    BY <1>3, <2>1, PickIn
  <2>. QED  BY <2>1
<1>5. IsSum(f, s)
  BY <1>4, Zenon DEF IsSum
<1>. QED  BY <1>1, <1>5

LEMMA AmountInNothing == AmountIn({}) = 0
<1>1. PICK g : IsSum(g, {}) /\ AmountIn({}) = g[{}]
  <2>1. {} \in SUBSET Movements
    OBVIOUS
  <2>. QED  BY <2>1, SumExists, AmountUnfolds, Zenon
<1>. QED  BY <1>1, SumApplies

LEMMA AmountOfPick ==
  ASSUME NEW S \in SUBSET Movements, S # {}
  PROVE  AmountIn(S) = Amount(Pick(S)) + AmountIn(S \ {Pick(S)})
<1>. DEFINE R == S \ {Pick(S)}
<1>1. PICK g : IsSum(g, S) /\ AmountIn(S) = g[S]
  BY SumExists, AmountUnfolds, Zenon
<1>2. PICK h : IsSum(h, R) /\ AmountIn(R) = h[R]
  <2>1. R \in SUBSET Movements
    OBVIOUS
  <2>. QED  BY <2>1, SumExists, AmountUnfolds, Zenon
<1>3. g[R] = h[R]
  <2>1. R \in SUBSET Movements /\ R \in SUBSET (S \cap R)
    OBVIOUS
  <2>. HIDE DEF R
  <2>. QED  BY <1>1, <1>2, <2>1, SumsAgree
<1>4. g[S] = Amount(Pick(S)) + g[R]
  BY <1>1, SumApplies
<1>. QED  BY <1>1, <1>2, <1>3, <1>4

LEMMA AmountInNat ==
  ASSUME NEW S \in SUBSET Movements
  PROVE  AmountIn(S) \in Nat
<1>. DEFINE Odd == {s \in SUBSET Movements : AmountIn(s) \notin Nat}
<1>. SUFFICES ASSUME Odd # {} PROVE FALSE
  OBVIOUS
<1>1. PICK s \in Odd : \A u \in Odd : u \subseteq s => u = s
  <2>1. Odd \in SUBSET SUBSET Movements
    OBVIOUS
  <2>. QED  BY <2>1, SmallestSet, Zenon
<1>2. s # {}
  BY AmountInNothing
<1>3. Pick(s) \in s /\ Amount(Pick(s)) \in Nat
  BY <1>2, PickIn, AmountType
<1>4. AmountIn(s \ {Pick(s)}) \in Nat
  BY <1>1, <1>3
<1>. QED  BY <1>2, <1>3, <1>4, AmountOfPick

(* Any element may be added last. *)
LEMMA AmountWithout ==
  ASSUME NEW S \in SUBSET Movements, NEW x \in S
  PROVE  AmountIn(S) = Amount(x) + AmountIn(S \ {x})
<1>. DEFINE Odd == {s \in SUBSET Movements :
                      \E y \in s : AmountIn(s) # Amount(y) + AmountIn(s \ {y})}
<1>. SUFFICES ASSUME Odd # {} PROVE FALSE
  OBVIOUS
<1>1. PICK s \in Odd : \A u \in Odd : u \subseteq s => u = s
  <2>1. Odd \in SUBSET SUBSET Movements
    OBVIOUS
  <2>. QED  BY <2>1, SmallestSet, Zenon
<1>2. PICK y \in s : AmountIn(s) # Amount(y) + AmountIn(s \ {y})
  OBVIOUS
<1>. DEFINE c == Pick(s)
<1>3. c \in s /\ AmountIn(s) = Amount(c) + AmountIn(s \ {c})
  BY <1>2, PickIn, AmountOfPick
<1>4. c # y
  BY <1>2, <1>3
<1>5. /\ s \ {c} \in SUBSET Movements /\ s \ {c} \subseteq s /\ s \ {c} # s /\ y \in s \ {c}
      /\ s \ {y} \in SUBSET Movements /\ s \ {y} \subseteq s /\ s \ {y} # s /\ c \in s \ {y}
  BY <1>3, <1>4
<1>6. (s \ {c}) \ {y} = (s \ {y}) \ {c}
  OBVIOUS
<1>. HIDE DEF c
<1>7. AmountIn(s \ {c}) = Amount(y) + AmountIn((s \ {c}) \ {y})
  BY <1>1, <1>5
<1>8. AmountIn(s \ {y}) = Amount(c) + AmountIn((s \ {y}) \ {c})
  BY <1>1, <1>5
<1>9. /\ Amount(c) \in Nat /\ Amount(y) \in Nat
      /\ AmountIn((s \ {y}) \ {c}) \in Nat
  <2>1. (s \ {y}) \ {c} \in SUBSET Movements
    OBVIOUS
  <2>. QED  BY <2>1, <1>3, AmountInNat, AmountType
<1>. QED  BY <1>2, <1>3, <1>6, <1>7, <1>8, <1>9

LEMMA AmountWith ==
  ASSUME NEW S \in SUBSET Movements, NEW x \in Movements \ S
  PROVE  AmountIn(S \cup {x}) = AmountIn(S) + Amount(x)
<1>1. /\ S \cup {x} \in SUBSET Movements /\ x \in S \cup {x}
      /\ (S \cup {x}) \ {x} = S
  OBVIOUS
<1>2. AmountIn(S \cup {x}) = Amount(x) + AmountIn((S \cup {x}) \ {x})
  BY <1>1, AmountWithout, Zenon
<1>. QED  BY <1>1, <1>2, AmountInNat, AmountType

LEMMA AmountOfUnion ==
  ASSUME NEW S \in SUBSET Movements, NEW T \in SUBSET Movements, S \cap T = {}
  PROVE  AmountIn(S \cup T) = AmountIn(S) + AmountIn(T)
<1>. DEFINE Odd == {t \in SUBSET T : AmountIn(S \cup t) # AmountIn(S) + AmountIn(t)}
<1>. SUFFICES ASSUME Odd # {} PROVE FALSE
  OBVIOUS
<1>1. PICK t \in Odd : \A u \in Odd : u \subseteq t => u = t
  <2>1. Odd \in SUBSET SUBSET Movements
    OBVIOUS
  <2>. QED  BY <2>1, SmallestSet, Zenon
<1>2. t # {}
  <2>1. S \cup {} = S
    OBVIOUS
  <2>2. AmountIn(S \cup {}) = AmountIn(S) + AmountIn({})
    BY <2>1, AmountInNothing, AmountInNat
  <2>. QED  BY <2>2
<1>3. PICK x \in t : TRUE
  BY <1>2
<1>. DEFINE u == t \ {x}
<1>4. u \in SUBSET T /\ u # t /\ u \subseteq t
  BY <1>3
<1>5. AmountIn(S \cup u) = AmountIn(S) + AmountIn(u)
  BY <1>1, <1>4
<1>6. /\ t \in SUBSET Movements /\ u \in SUBSET Movements /\ S \cup u \in SUBSET Movements
      /\ x \in Movements \ u /\ x \in Movements \ (S \cup u)
      /\ t = u \cup {x} /\ S \cup t = (S \cup u) \cup {x}
  BY <1>3
<1>. HIDE DEF u
<1>7. AmountIn(t) = AmountIn(u) + Amount(x) /\ AmountIn(S \cup t) = AmountIn(S \cup u) + Amount(x)
  BY <1>6, AmountWith
<1>8. AmountIn(S) \in Nat /\ AmountIn(u) \in Nat /\ Amount(x) \in Nat
  BY <1>6, AmountInNat, AmountType
<1>. QED  BY <1>5, <1>7, <1>8
-----------------------------------------------------------------------------
(* What a set of movements leaves an account of a group with *)
Own(g, movements) ==
  IF g \in {"Chain", "Bridge"} THEN AmountIn(Credits(movements))
  ELSE AmountIn(Credits(movements)) - AmountIn(Debits(movements))

LEMMA OwnType ==
  ASSUME NEW g, NEW S \in SUBSET Movements
  PROVE  Own(g, S) \in Int /\ (g \in {"Chain", "Bridge"} => Own(g, S) >= 0)
<1>1. Credits(S) \in SUBSET Movements /\ Debits(S) \in SUBSET Movements
  BY DEF Credits, Debits
<1>2. AmountIn(Credits(S)) \in Nat /\ AmountIn(Debits(S)) \in Nat
  BY <1>1, AmountInNat
<1>. QED  BY <1>2 DEF Own

LEMMA OwnNothing == \A g : Own(g, {}) = 0
<1>1. Credits({}) = {} /\ Debits({}) = {}
  BY DEF Credits, Debits
<1>. QED  BY <1>1, AmountInNothing DEF Own

(* BalanceBuilder.addJournalEntry adds a movement to what the others come to. *)
LEMMA OwnWith ==
  ASSUME NEW g, NEW S \in SUBSET Movements, NEW m \in Movements \ S, MovementGroup(m) = g
  PROVE  Own(g, S \cup {m}) = NewTotal(m, Own(g, S))
<1>1. /\ Credits(S) \in SUBSET Movements /\ Debits(S) \in SUBSET Movements
      /\ m \in Movements \ Credits(S) /\ m \in Movements \ Debits(S)
  BY DEF Credits, Debits
<1>2. /\ AmountIn(Credits(S)) \in Nat /\ AmountIn(Debits(S)) \in Nat /\ Amount(m) \in Nat
      /\ AmountIn(Credits(S) \cup {m}) = AmountIn(Credits(S)) + Amount(m)
      /\ AmountIn(Debits(S) \cup {m}) = AmountIn(Debits(S)) + Amount(m)
  BY <1>1, AmountInNat, AmountType, AmountWith
<1>. DEFINE T == S \cup {m}
<1>3. CASE IsCredit(m)
  <2>1. Credits(T) = Credits(S) \cup {m} /\ Debits(T) = Debits(S)
    BY <1>3 DEF Credits, Debits
  <2>2. /\ AmountIn(Credits(T)) = AmountIn(Credits(S)) + Amount(m)
        /\ AmountIn(Debits(T)) = AmountIn(Debits(S))
    BY <1>2, <2>1
  <2>3. NewTotal(m, Own(g, S)) = Own(g, S) + Amount(m)
    BY <1>3 DEF NewTotal, IsMintOrFxTunnel, Amount
  <2>. HIDE DEF T
  <2>4. Own(g, T) = Own(g, S) + Amount(m)
    BY ONLY <1>2, <2>2 DEF Own
  <2>. QED  BY <2>3, <2>4 DEF T
<1>4. CASE ~IsCredit(m)
  <2>1. Credits(T) = Credits(S) /\ Debits(T) = Debits(S) \cup {m}
    BY <1>4 DEF Credits, Debits
  <2>2. /\ AmountIn(Credits(T)) = AmountIn(Credits(S))
        /\ AmountIn(Debits(T)) = AmountIn(Debits(S)) + Amount(m)
    BY <1>2, <2>1
  <2>. HIDE DEF T
  <2>3. CASE g \in {"Chain", "Bridge"}
    <3>1. Own(g, T) = Own(g, S)
      BY ONLY <2>2, <2>3 DEF Own
    <3>2. NewTotal(m, Own(g, S)) = Own(g, S)
      BY <1>4, <2>3 DEF NewTotal, IsMintOrFxTunnel
    <3>. QED  BY <3>1, <3>2 DEF T
  <2>4. CASE g \notin {"Chain", "Bridge"}
    <3>1. Own(g, T) = Own(g, S) - Amount(m)
      BY ONLY <1>2, <2>2, <2>4 DEF Own
    <3>2. NewTotal(m, Own(g, S)) = Own(g, S) - Amount(m)
      BY <1>4, <2>4 DEF NewTotal, IsMintOrFxTunnel, Amount
    <3>. QED  BY <3>1, <3>2 DEF T
  <2>. QED  BY <2>3, <2>4
<1>. QED  BY <1>3, <1>4

LEMMA GroupKnown ==
  ASSUME NEW m \in Movements, NEW g, InGroup(AccountOf(m), g)
  PROVE  MovementGroup(m) = g
BY MovementFacts DEF InGroup, MovementGroup
-----------------------------------------------------------------------------
Journalled(a) == {m \in Movements : journal[m] > 0 /\ AccountOf(m) = a}

(* The movements whose balance is written and whose journal row is not *)
InFlight(a) ==
  {m \in Movements : AccountOf(m) = a /\ \E p \in Procs : pc[p] = "journal" /\ IsNext(p, m)}

Held(a, g) == IF <<a, g>> \in DOMAIN balance THEN balance[<<a, g>>] ELSE 0

(* The row of an account in one group comes to its journalled movements and
   those in flight, and is what a run about to save has read. *)
AddsUp(a, g) ==
  /\ RowsOf(a) \subseteq {<<a, g>>}
  /\ Held(a, g) = Own(g, Journalled(a) \cup InFlight(a))
  /\ \A p \in Procs, m \in Movements :
       (pc[p] = "save" /\ IsNext(p, m) /\ AccountOf(m) = a) => seen[p] = Held(a, g)

RowsAddUp ==
  ~overlapped => \A a \in Accounts \ Torn, g \in Groups : InGroup(a, g) => AddsUp(a, g)

RowInv == OnceInv /\ RowsAddUp

LEMMA InitRowsAddUp == Init => RowsAddUp
<1>. SUFFICES ASSUME Init, NEW a \in Accounts, NEW g \in Groups PROVE AddsUp(a, g)
  BY DEF RowsAddUp
<1>1. DOMAIN balance = {} /\ \A p \in Procs : pc[p] = "idle"
  BY DEF Init
<1>2. Journalled(a) = {}
  BY DEF Init, Journalled
<1>3. InFlight(a) = {}
  BY <1>1 DEF InFlight
<1>4. Journalled(a) \cup InFlight(a) = {}
  BY <1>2, <1>3
<1>. QED  BY <1>1, <1>4, OwnNothing DEF AddsUp, Held, RowsOf

(* A step that leaves rows and journal alone, after which its process is not
   between its read and its insert: a save it breaks off is torn. *)
LEMMA RowsLeftAlone ==
  ASSUME RowInv, NEW p \in Procs, UNCHANGED <<journal, balance>>,
         \A q \in Procs \ {p} : pc'[q] = pc[q] /\ todo'[q] = todo[q] /\ seen'[q] = seen[q],
         pc'[p] \notin {"save", "journal"},
         overlapped => overlapped', torn \subseteq torn',
         \A m \in Movements : pc[p] = "journal" /\ IsNext(p, m) => m \in torn'
  PROVE  RowsAddUp'
<1>. SUFFICES ASSUME ~overlapped', NEW a \in Accounts, a \notin Torn',
                     NEW g \in Groups, InGroup(a, g)
              PROVE  AddsUp(a, g)'
  BY DEF RowsAddUp, InGroup
<1>1. a \notin Torn
  BY DEF Torn
<1>2. AddsUp(a, g)
  BY <1>1 DEF RowInv, RowsAddUp
<1>3. \A q \in Procs \ {p}, m \in Movements : IsNext(q, m)' <=> IsNext(q, m)
  BY DEF IsNext
<1>4. \A m \in Movements : pc[p] = "journal" /\ IsNext(p, m) => AccountOf(m) # a
  BY DEF Torn
<1>5. InFlight(a)' = InFlight(a)
  BY <1>3, <1>4 DEF InFlight
<1>6. Journalled(a)' = Journalled(a) /\ Held(a, g)' = Held(a, g) /\ RowsOf(a)' = RowsOf(a)
  BY DEF Journalled, Held, RowsOf
<1>7. \A q \in Procs, m \in Movements :
        (pc'[q] = "save" /\ IsNext(q, m)' /\ AccountOf(m) = a) => seen'[q] = Held(a, g)
  BY <1>2, <1>3 DEF AddsUp
<1>. QED  BY <1>2, <1>5, <1>6, <1>7 DEF AddsUp

LEMMA ReadBalanceAddsUp ==
  ASSUME RowInv, NEW p \in Procs, NEW m \in Movements, ReadBalance(p, m)
  PROVE  RowsAddUp'
<1>. SUFFICES ASSUME ~overlapped, NEW a \in Accounts, a \notin Torn, NEW g \in Groups, InGroup(a, g)
              PROVE  AddsUp(a, g)'
  BY DEF RowsAddUp, InGroup, Torn, ReadBalance, history
<1>1. AddsUp(a, g)
  BY DEF RowInv, RowsAddUp
<1>2. UNCHANGED <<journal, balance, todo>> /\ pc[p] = "read" /\ pc'[p] = "save" /\ IsNext(p, m)
  BY DEF ReadBalance, history, RowInv, OnceInv, TypeOK
<1>3. \A q \in Procs \ {p} : pc'[q] = pc[q] /\ seen'[q] = seen[q]
  BY DEF ReadBalance, RowInv, OnceInv, TypeOK
<1>4. \A q \in Procs, x \in Movements : IsNext(q, x)' <=> IsNext(q, x)
  BY <1>2 DEF IsNext
<1>5. InFlight(a)' = InFlight(a)
  BY <1>2, <1>3, <1>4 DEF InFlight
<1>6. Journalled(a)' = Journalled(a) /\ Held(a, g)' = Held(a, g) /\ RowsOf(a)' = RowsOf(a)
  BY <1>2 DEF Journalled, Held, RowsOf
<1>7. \A x \in Movements : IsNext(p, x) => x = m
  BY <1>2 DEF IsNext, Movements
<1>8. ASSUME AccountOf(m) = a PROVE seen'[p] = Held(a, g)
  <2>1. CASE RowsOf(a) = {}
    <3>1. seen'[p] = 0
      BY <1>8, <2>1 DEF ReadBalance, RowInv, OnceInv, TypeOK
    <3>2. <<a, g>> \notin DOMAIN balance
      BY <2>1 DEF RowsOf
    <3>. QED  BY <3>1, <3>2 DEF Held
  <2>2. CASE RowsOf(a) # {}
    <3>1. PICK key \in RowsOf(a) : seen' = [seen EXCEPT ![p] = balance[key]]
      BY <1>8, <2>2 DEF ReadBalance
    <3>2. key = <<a, g>> /\ key \in DOMAIN balance
      BY <1>1 DEF AddsUp, RowsOf
    <3>. QED  BY <3>1, <3>2 DEF Held, RowInv, OnceInv, TypeOK
  <2>. QED  BY <2>1, <2>2
<1>9. \A q \in Procs, x \in Movements :
        (pc'[q] = "save" /\ IsNext(q, x)' /\ AccountOf(x) = a) => seen'[q] = Held(a, g)
  BY <1>1, <1>3, <1>4, <1>7, <1>8 DEF AddsUp
<1>. QED  BY <1>1, <1>5, <1>6, <1>9 DEF AddsUp

(* The upsert adds the movement, which has no row yet, to what was read. *)
LEMMA UpsertBalanceAddsUp ==
  ASSUME RowInv, NEW p \in Procs, NEW m \in Movements, UpsertBalance(p, m)
  PROVE  RowsAddUp'
<1>. SUFFICES ASSUME ~overlapped, NEW a \in Accounts, a \notin Torn, NEW g \in Groups, InGroup(a, g)
              PROVE  AddsUp(a, g)'
  BY DEF RowsAddUp, InGroup, Torn, UpsertBalance, history
<1>. DEFINE row == <<AccountOf(m), MovementGroup(m)>>
            total == NewTotal(m, seen[p])
<1>1. AddsUp(a, g)
  BY DEF RowInv, RowsAddUp
<1>2. /\ UNCHANGED <<journal, todo, seen>> /\ pc[p] = "save" /\ IsNext(p, m)
      /\ pc'[p] = "journal" /\ \A q \in Procs \ {p} : pc'[q] = pc[q]
      /\ balance' = [key \in DOMAIN balance \cup {row} |->
                       IF key = row THEN total ELSE balance[key]]
  BY DEF UpsertBalance, history, RowInv, OnceInv, TypeOK
<1>. HIDE DEF row, total
<1>3. \A q \in Procs \ {p} : pc[q] = "idle" /\ pc'[q] = "idle"
  BY <1>2 DEF RowInv, OnceInv, Alone
<1>4. \A x \in Movements : IsNext(p, x) <=> x = m
  BY <1>2 DEF IsNext, Movements
<1>5. \A q \in Procs, x \in Movements : IsNext(q, x)' <=> IsNext(q, x)
  BY <1>2 DEF IsNext
<1>6. Journalled(a)' = Journalled(a)
  BY <1>2 DEF Journalled
<1>7. \A q \in Procs : pc[q] # "journal" /\ pc'[q] # "save"
  BY <1>2, <1>3
<1>8. InFlight(a) = {}
  BY <1>7 DEF InFlight
<1>9. CASE AccountOf(m) = a
  <2>1. row = <<a, g>>
    BY <1>9, GroupKnown DEF row
  <2>2. RowsOf(a)' \subseteq {<<a, g>>}
    BY <1>1, <1>2, <2>1 DEF AddsUp, RowsOf
  <2>3. Held(a, g)' = total
    BY <1>2, <2>1 DEF Held
  <2>4. InFlight(a)' = {m}
    BY <1>2, <1>3, <1>4, <1>5, <1>9 DEF InFlight
  <2>5. seen[p] = Own(g, Journalled(a))
    <3>1. Journalled(a) \cup InFlight(a) = Journalled(a)
      BY <1>8
    <3>. QED  BY <1>1, <1>2, <1>9, <3>1 DEF AddsUp
  <2>6. Journalled(a) \in SUBSET Movements /\ m \in Movements \ Journalled(a)
    BY <1>2 DEF RowInv, OnceInv, Alone, Journalled
  <2>7. total = Own(g, Journalled(a) \cup {m})
    BY <1>9, <2>5, <2>6, GroupKnown, OwnWith DEF total
  <2>. QED  BY <1>6, <1>7, <2>2, <2>3, <2>4, <2>7 DEF AddsUp
<1>10. CASE AccountOf(m) # a
  <2>1. RowsOf(a)' = RowsOf(a)
    BY <1>2, <1>10 DEF RowsOf, row
  <2>2. row # <<a, g>>
    BY <1>10 DEF row
  <2>3. Held(a, g)' = Held(a, g)
    BY <1>2, <2>2 DEF Held
  <2>4. InFlight(a)' = {}
    BY <1>3, <1>4, <1>5, <1>10 DEF InFlight
  <2>. QED  BY <1>1, <1>6, <1>7, <1>8, <2>1, <2>3, <2>4 DEF AddsUp
<1>. QED  BY <1>9, <1>10

(* The insert moves the movement from those in flight to the journal. *)
LEMMA InsertJournalAddsUp ==
  ASSUME RowInv, NEW p \in Procs, NEW m \in Movements, InsertJournal(p, m)
  PROVE  RowsAddUp'
<1>. SUFFICES ASSUME ~overlapped, NEW a \in Accounts, a \notin Torn, NEW g \in Groups, InGroup(a, g)
              PROVE  AddsUp(a, g)'
  BY DEF RowsAddUp, InGroup, Torn, InsertJournal, history
<1>1. AddsUp(a, g)
  BY DEF RowInv, RowsAddUp
<1>2. /\ UNCHANGED balance /\ pc[p] = "journal" /\ IsNext(p, m)
      /\ journal' = [journal EXCEPT ![m] = @ + 1]
      /\ pc'[p] \in {"idle", "entry"} /\ \A q \in Procs \ {p} : pc'[q] = pc[q]
  BY DEF InsertJournal, GoThrough, history, RowInv, OnceInv, TypeOK
<1>3. \A q \in Procs \ {p} : pc[q] = "idle" /\ pc'[q] = "idle"
  BY <1>2 DEF RowInv, OnceInv, Alone
<1>4. \A x \in Movements : IsNext(p, x) <=> x = m
  BY <1>2 DEF IsNext, Movements
<1>5. \A q \in Procs : pc'[q] # "journal" /\ pc'[q] # "save"
  BY <1>2, <1>3
<1>6. InFlight(a)' = {}
  BY <1>5 DEF InFlight
<1>7. InFlight(a) = {x \in {m} : AccountOf(x) = a}
  BY <1>2, <1>3, <1>4 DEF InFlight
<1>8. journal'[m] > 0 /\ \A x \in Movements \ {m} : journal'[x] = journal[x]
  BY <1>2 DEF RowInv, OnceInv, TypeOK
<1>9. Journalled(a)' = Journalled(a) \cup {x \in {m} : AccountOf(x) = a}
  BY <1>8 DEF Journalled
<1>10. Journalled(a)' \cup InFlight(a)' = Journalled(a) \cup InFlight(a)
  BY <1>6, <1>7, <1>9
<1>11. Held(a, g)' = Held(a, g) /\ RowsOf(a)' = RowsOf(a)
  BY <1>2 DEF Held, RowsOf
<1>. QED  BY <1>1, <1>5, <1>10, <1>11 DEF AddsUp

LEMMA RowsStep == RowInv /\ [Next]_vars => RowInv'
<1>. SUFFICES ASSUME RowInv, [Next]_vars PROVE RowInv'
  OBVIOUS
<1>. USE DEF RowInv
<1>1. OnceInv'
  BY OnceStep
<1>2. TypeOK
  BY DEF OnceInv
<1>3. ASSUME UNCHANGED <<journal, balance, pc, todo, seen, torn, overlapped>> PROVE RowsAddUp'
  BY <1>3 DEF RowsAddUp, AddsUp, Held, RowsOf, Journalled, InFlight, IsNext, InGroup, Torn
<1>4. ASSUME NEW n \in Networks, Mine(n) PROVE RowsAddUp'
  BY <1>3, <1>4 DEF Mine, job, history
<1>5. ASSUME UNCHANGED vars PROVE RowsAddUp'
  BY <1>3, <1>5 DEF vars, job, history
<1>6. ASSUME NEW p \in Procs, Start(p) PROVE RowsAddUp'
  <2>1. /\ UNCHANGED <<journal, balance, todo, seen, torn>> /\ pc[p] = "idle" /\ pc'[p] = "fetch"
        /\ \A q \in Procs \ {p} : pc'[q] = pc[q]
        /\ overlapped => overlapped'
    BY <1>2, <1>6 DEF Start, TypeOK
  <2>. QED  BY <2>1, RowsLeftAlone
<1>7. ASSUME NEW p \in Procs, NEW m \in Movements, Check(p, m) PROVE RowsAddUp'
  <2>1. /\ UNCHANGED <<journal, balance, todo, seen, torn, overlapped>>
        /\ pc[p] = "entry" /\ pc'[p] = "read"
        /\ \A q \in Procs \ {p} : pc'[q] = pc[q]
    BY <1>2, <1>7 DEF Check, TypeOK, history
  <2>. QED  BY <2>1, RowsLeftAlone
<1>8. ASSUME NEW p \in Procs, NEW movements, GoThrough(p, movements),
             UNCHANGED <<journal, balance, overlapped>>, torn \subseteq torn',
             \A m \in Movements : pc[p] = "journal" /\ IsNext(p, m) => m \in torn'
      PROVE  RowsAddUp'
  <2>1. /\ pc'[p] \in {"idle", "entry"}
        /\ \A q \in Procs \ {p} : pc'[q] = pc[q] /\ todo'[q] = todo[q] /\ seen'[q] = seen[q]
    BY <1>2, <1>8 DEF GoThrough, TypeOK
  <2>. QED  BY <1>8, <2>1, RowsLeftAlone
<1>9. ASSUME NEW p \in Procs,
             Fetch(p) \/ FetchWithout(p) \/ \E m \in Movements : Skip(p, m) \/ Underflow(p, m)
      PROVE  RowsAddUp'
  <2>1. /\ UNCHANGED <<journal, balance, torn, overlapped>> /\ pc[p] # "journal"
        /\ \E movements : GoThrough(p, movements)
    BY <1>9 DEF Fetch, FetchWithout, Skip, Underflow, history
  <2>. QED  BY <1>8, <2>1
<1>10. ASSUME NEW p \in Procs, RunFails(p) \/ Restart(p) PROVE RowsAddUp'
  <2>1. UNCHANGED <<journal, balance, overlapped>> /\ GoThrough(p, {}) /\ Tear(p)
    BY <1>10 DEF RunFails, Restart
  <2>2. /\ torn \subseteq torn'
        /\ \A m \in Movements : pc[p] = "journal" /\ IsNext(p, m) => m \in torn'
    BY <2>1 DEF Tear, IsNext
  <2>. QED  BY <1>8, <2>1, <2>2
<1>. QED
  BY <1>1, <1>4, <1>5, <1>6, <1>7, <1>9, <1>10,
     ReadBalanceAddsUp, UpsertBalanceAddsUp, InsertJournalAddsUp DEF Next, LedgerStep

LEMMA RowsAreJournal == RowInv => BalanceIsJournal
<1>. SUFFICES ASSUME RowInv, ~overlapped, NEW key \in DOMAIN balance,
                     InGroup(key[1], key[2]), key[1] \notin Torn,
                     ~\E p \in Procs, m \in Movements :
                        pc[p] = "journal" /\ IsNext(p, m) /\ AccountOf(m) = key[1]
              PROVE  balance[key] = Own(key[2], Journalled(key[1]))
  BY DEF BalanceIsJournal, Own, Journalled
<1>1. key[1] \in Accounts /\ key[2] \in Groups /\ key = <<key[1], key[2]>>
  BY DEF RowInv, OnceInv, TypeOK
<1>2. AddsUp(key[1], key[2])
  BY <1>1 DEF RowInv, RowsAddUp
<1>3. InFlight(key[1]) = {}
  BY DEF InFlight
<1>4. Journalled(key[1]) \cup InFlight(key[1]) = Journalled(key[1])
  BY <1>3
<1>. QED  BY <1>1, <1>2, <1>4 DEF AddsUp, Held

LEMMA AlwaysRowInv == Spec => []RowInv
BY InitOnceInv, InitRowsAddUp, RowsStep, PTL DEF Spec, RowInv

(* A balance is the sum of the account's journal rows, while runs do not
   overlap and however often they are interrupted, save for the accounts whose
   own save was torn. *)
THEOREM BalancesAreTheJournal == Spec => []BalanceIsJournal
BY AlwaysRowInv, RowsAreJournal, PTL
-----------------------------------------------------------------------------
(* Sharper than NoHole: a movement older than a journalled one by its number,
   even within a block, is journalled, and one older than what a run still
   has to do is journalled or to be done. *)
ByNumber ==
  \A m, x \in Movements :
    (m \notin dropped /\ journal[m] = 0 /\ NetworkOf(m) = NetworkOf(x) /\ m < x) =>
      /\ journal[x] = 0
      /\ \A p \in Procs : x \in todo[p] => m \in todo[p]

LEMMA MissingIsFound ==
  ASSUME HoleInv, NEW p \in Procs, pc[p] = "fetch",
         NEW m \in Movements, m \notin dropped, journal[m] = 0,
         NEW x \in Found(p), NetworkOf(m) = NetworkOf(x), m < x
  PROVE  m \in Found(p)
<1>1. x \in Movements /\ BlockOf(x) <= head[NetworkOf(x)]
  BY DEF Found, Mined
<1>2. BlockOf(m) <= BlockOf(x)
  BY <1>1, NumberedByBlock DEF Movements
<1>3. m \in Mined
  BY <1>1, <1>2, MovementFacts DEF Mined, HoleInv, TypeOK
<1>. QED  BY <1>3, FetchFindsMissing

LEMMA NumberStep == HoleInv /\ ByNumber /\ [Next]_vars => ByNumber'
<1>. SUFFICES ASSUME HoleInv, ByNumber, [Next]_vars PROVE ByNumber'
  OBVIOUS
<1>1. TypeOK
  BY DEF HoleInv
<1>2. ASSUME UNCHANGED <<journal, todo, dropped>> PROVE ByNumber'
  BY <1>2 DEF ByNumber
<1>3. ASSUME UNCHANGED vars \/ \E n \in Networks : Mine(n) PROVE ByNumber'
  BY <1>2, <1>3 DEF Mine, vars, job, history
<1>4. ASSUME NEW p \in Procs,
             \/ Start(p)
             \/ \E m \in Movements : Check(p, m) \/ ReadBalance(p, m) \/ UpsertBalance(p, m)
      PROVE  ByNumber'
  BY <1>2, <1>4 DEF Start, Check, ReadBalance, UpsertBalance, history
<1>5. ASSUME NEW p \in Procs, NEW movements, GoThrough(p, movements),
             UNCHANGED journal, dropped \subseteq dropped',
             \A m \in Movements, x \in movements :
               (m \notin dropped' /\ journal[m] = 0 /\ NetworkOf(m) = NetworkOf(x) /\ m < x)
                 => m \in movements
      PROVE  ByNumber'
  <2>1. todo'[p] = movements /\ \A q \in Procs \ {p} : todo'[q] = todo[q]
    BY <1>1, <1>5 DEF GoThrough, TypeOK
  <2>. QED  BY <1>5, <2>1 DEF ByNumber
<1>6. ASSUME NEW p \in Procs, Fetch(p) PROVE ByNumber'
  <2>1. pc[p] = "fetch" /\ GoThrough(p, Found(p)) /\ UNCHANGED <<journal, dropped>>
    BY <1>6 DEF Fetch, history
  <2>. QED  BY <1>5, <2>1, MissingIsFound
<1>7. ASSUME NEW p \in Procs, FetchWithout(p) PROVE ByNumber'
  <2>1. PICK m \in Found(p) :
          LET event == {x \in Movements : (x + 1) \div 2 = (m + 1) \div 2}
          IN  GoThrough(p, Found(p) \ event) /\ dropped' = dropped \cup event
    BY <1>7 DEF FetchWithout
  <2>. DEFINE event == {x \in Movements : (x + 1) \div 2 = (m + 1) \div 2}
  <2>2. GoThrough(p, Found(p) \ event) /\ dropped' = dropped \cup event
    BY <2>1
  <2>. HIDE DEF event
  <2>3. pc[p] = "fetch" /\ UNCHANGED journal
    BY <1>7 DEF FetchWithout
  <2>. QED  BY <1>5, <2>2, <2>3, MissingIsFound
<1>8. ASSUME NEW p \in Procs, NEW m \in Movements, Skip(p, m) PROVE ByNumber'
  <2>1. /\ GoThrough(p, todo[p] \ {m}) /\ UNCHANGED <<journal, dropped>>
        /\ journal[m] # 0
    BY <1>8 DEF Skip, IsNew, history
  <2>2. todo[p] \subseteq Movements
    BY <1>1 DEF TypeOK
  <2>. QED  BY <1>5, <2>1, <2>2 DEF ByNumber
<1>9. ASSUME NEW p \in Procs,
             RunFails(p) \/ Restart(p) \/ \E m \in Movements : Underflow(p, m)
      PROVE  ByNumber'
  <2>1. GoThrough(p, {}) /\ UNCHANGED <<journal, dropped>>
    BY <1>9 DEF RunFails, Restart, Underflow, history
  <2>. QED  BY <1>5, <2>1
<1>10. ASSUME NEW p \in Procs, NEW m \in Movements, InsertJournal(p, m) PROVE ByNumber'
  <2>1. /\ m \in todo[p] /\ \A x \in todo[p] : m <= x
        /\ journal' = [journal EXCEPT ![m] = @ + 1]
        /\ GoThrough(p, todo[p] \ {m}) /\ UNCHANGED dropped
    BY <1>10 DEF InsertJournal, IsNext, history
  <2>2. journal'[m] > 0 /\ \A x \in Movements \ {m} : journal'[x] = journal[x]
    BY <1>1, <2>1 DEF TypeOK
  <2>3. todo'[p] = todo[p] \ {m} /\ \A q \in Procs \ {p} : todo'[q] = todo[q]
    BY <1>1, <2>1 DEF GoThrough, TypeOK
  <2>4. SUFFICES ASSUME NEW y \in Movements, NEW x \in Movements, y \notin dropped, journal'[y] = 0,
                        NetworkOf(y) = NetworkOf(x), y < x
                 PROVE  journal'[x] = 0 /\ \A q \in Procs : x \in todo'[q] => y \in todo'[q]
    BY <2>1 DEF ByNumber
  <2>5. y # m /\ journal[y] = 0
    BY <2>2, <2>4
  <2>6. journal[x] = 0 /\ \A q \in Procs : x \in todo[q] => y \in todo[q]
    BY <2>4, <2>5 DEF ByNumber
  <2>7. x # m
    BY <2>1, <2>4, <2>6 DEF Movements
  <2>. QED  BY <2>2, <2>3, <2>5, <2>6, <2>7
<1>. QED
  BY <1>3, <1>4, <1>6, <1>7, <1>8, <1>9, <1>10 DEF Next, LedgerStep
-----------------------------------------------------------------------------
(* With a movement, the older ones of its account on its network *)
Complete(S) == \A x \in S : Before(x) \subseteq S

LEMMA OwnOfUnion ==
  ASSUME NEW g, g \notin {"Chain", "Bridge"},
         NEW S \in SUBSET Movements, NEW T \in SUBSET Movements, S \cap T = {}
  PROVE  Own(g, S \cup T) = Own(g, S) + Own(g, T)
<1>1. /\ Credits(S) \in SUBSET Movements /\ Debits(S) \in SUBSET Movements
      /\ Credits(T) \in SUBSET Movements /\ Debits(T) \in SUBSET Movements
      /\ Credits(S) \cap Credits(T) = {} /\ Debits(S) \cap Debits(T) = {}
  BY DEF Credits, Debits
<1>2. Credits(S \cup T) = Credits(S) \cup Credits(T) /\ Debits(S \cup T) = Debits(S) \cup Debits(T)
  BY DEF Credits, Debits
<1>3. /\ AmountIn(Credits(S \cup T)) = AmountIn(Credits(S)) + AmountIn(Credits(T))
      /\ AmountIn(Debits(S \cup T)) = AmountIn(Debits(S)) + AmountIn(Debits(T))
  BY <1>1, <1>2, AmountOfUnion
<1>4. /\ AmountIn(Credits(S)) \in Nat /\ AmountIn(Credits(T)) \in Nat
      /\ AmountIn(Debits(S)) \in Nat /\ AmountIn(Debits(T)) \in Nat
  BY <1>1, AmountInNat
<1>. DEFINE U == S \cup T
<1>. HIDE DEF U
<1>. QED  BY <1>3, <1>4 DEF Own

(* Whatever the order in which the networks were read, an account is never
   below zero: look at the last movement of a smallest set that leaves it
   there.  It is a debit; its own network had the tokens, and the movements of
   the other networks are a smaller set. *)
LEMMA NeverBelowZero ==
  ASSUME NEW a, NEW g, g \notin {"Chain", "Bridge"}, InGroup(a, g),
         NEW S \in SUBSET {m \in Movements : AccountOf(m) = a}, Complete(S)
  PROVE  Own(g, S) >= 0
<1>. DEFINE Odd == {s \in SUBSET S : Complete(s) /\ ~(Own(g, s) >= 0)}
<1>. SUFFICES ASSUME Odd # {} PROVE FALSE
  OBVIOUS
<1>1. PICK s \in Odd : \A u \in Odd : u \subseteq s => u = s
  <2>1. Odd \in SUBSET SUBSET Movements
    OBVIOUS
  <2>. QED  BY <2>1, SmallestSet, Zenon
<1>2. s \in SUBSET Movements /\ \A x \in s : AccountOf(x) = a
  OBVIOUS
<1>3. s # {}
  BY OwnNothing
<1>4. PICK x \in s : \A y \in s : y <= x
  BY <1>2, <1>3, LastMovement
<1>. DEFINE here == Before(x)
            there == {y \in s : NetworkOf(y) # NetworkOf(x)}
            u == here \cup there
<1>5. /\ here \in SUBSET Movements /\ there \in SUBSET Movements /\ u \in SUBSET Movements
      /\ here \cap there = {} /\ here \subseteq s /\ x \notin u
      /\ s = u \cup {x}
  <2>1. here \subseteq s /\ x \notin here /\ x \notin there
    BY DEF Complete, Before, Movements
  <2>2. ASSUME NEW y \in s, y # x, NetworkOf(y) = NetworkOf(x) PROVE y \in here
    BY <1>2, <1>4, <2>2 DEF Before, Movements
  <2>3. here \cap there = {}
    BY DEF Before
  <2>. QED  BY <1>2, <2>1, <2>2, <2>3
<1>6. Complete(there)
  BY DEF Complete, Before
<1>7. Complete(u)
  <2>1. \A y \in here : Before(y) \subseteq here
    <3>. SUFFICES ASSUME NEW y \in here, NEW z \in Before(y) PROVE z \in here
      OBVIOUS
    <3>1. z < y /\ y < x /\ z \in Int /\ y \in Int /\ x \in Int
      BY DEF Before, Movements
    <3>2. z < x
      BY <3>1
    <3>. QED  BY <3>2 DEF Before
  <2>. QED  BY <1>6, <2>1 DEF Complete
<1>8. Own(g, there) >= 0 /\ Own(g, u) >= 0
  BY <1>1, <1>5, <1>6, <1>7
<1>9. MovementGroup(x) = g /\ x \in Movements
  BY <1>2, GroupKnown
<1>. HIDE DEF here, there, u
<1>10. Own(g, s) = NewTotal(x, Own(g, u))
  BY <1>5, <1>9, OwnWith
<1>11. Own(g, u) \in Int /\ Own(g, here) \in Int /\ Own(g, there) \in Int /\ Amount(x) \in Nat
  BY <1>5, <1>9, OwnType, AmountType
<1>12. CASE IsCredit(x)
  <2>1. Own(g, s) = Own(g, u) + Amount(x)
    BY <1>10, <1>12 DEF NewTotal, IsMintOrFxTunnel, Amount
  <2>. QED  BY <1>1, <1>8, <1>11, <2>1
<1>13. CASE ~IsCredit(x)
  <2>1. Own(g, s) = Own(g, u) - Amount(x)
    BY <1>9, <1>10, <1>13 DEF NewTotal, IsMintOrFxTunnel, Amount
  <2>2. Own(g, u) = Own(g, here) + Own(g, there)
    BY <1>5, OwnOfUnion DEF u
  <2>3. Own(g, here) >= Amount(x)
    <3>1. AmountIn(Debits(here)) + Amount(x) <= AmountIn(Credits(here))
      BY <1>9, <1>13, ChainAllows DEF Amount, here
    <3>2. AmountIn(Debits(here)) \in Nat /\ AmountIn(Credits(here)) \in Nat
      BY <1>5, AmountInNat DEF Debits, Credits
    <3>. QED  BY <1>11, <3>1, <3>2 DEF Own
  <2>. QED  BY <1>1, <1>8, <1>11, <2>1, <2>2, <2>3
<1>. QED  BY <1>12, <1>13

UnderflowInv == RowInv /\ HoleInv /\ ByNumber

LEMMA InitByNumber == Init => ByNumber
BY DEF Init, ByNumber

LEMMA JournalComplete ==
  ASSUME UnderflowInv, NEW p \in Procs, NEW m \in Movements, IsNext(p, m),
         AccountOf(m) \notin Dropped
  PROVE  Complete(Journalled(AccountOf(m)) \cup {m})
<1>. DEFINE a == AccountOf(m)
<1>1. ASSUME NEW x \in Journalled(a) \cup {m}, NEW y \in Before(x), journal[y] = 0 PROVE FALSE
  <2>1. /\ y \in Movements /\ x \in Movements
        /\ NetworkOf(y) = NetworkOf(x) /\ y < x /\ AccountOf(y) = a
    BY DEF Before, Journalled
  <2>2. y \notin dropped
    BY <2>1 DEF Dropped, UnderflowInv, HoleInv, TypeOK
  <2>3. journal[x] = 0 /\ (x \in todo[p] => y \in todo[p])
    BY <1>1, <2>1, <2>2 DEF UnderflowInv, ByNumber
  <2>4. CASE x \in Journalled(a)
    BY <2>3, <2>4 DEF Journalled
  <2>5. CASE x = m
    <3>1. y \in todo[p] /\ m <= y
      BY <2>3, <2>5 DEF IsNext
    <3>. QED  BY <2>1, <2>5, <3>1 DEF Movements
  <2>. QED  BY <2>4, <2>5
<1>2. ASSUME NEW x \in Journalled(a) \cup {m}, NEW y \in Before(x) PROVE y \in Journalled(a)
  <2>1. y \in Movements /\ AccountOf(y) = a /\ journal[y] \in Nat
    BY DEF Before, Journalled, UnderflowInv, HoleInv, TypeOK
  <2>. QED  BY <1>1, <2>1 DEF Journalled
<1>. QED  BY <1>2 DEF Complete

LEMMA SaveNotBelowZero == UnderflowInv => NoFalseUnderflow
<1>. SUFFICES ASSUME UnderflowInv, ~overlapped, NEW p \in Procs, NEW m \in Movements,
                     pc[p] = "save", IsNext(p, m), InGroup(AccountOf(m), MovementGroup(m)),
                     AccountOf(m) \notin Torn \cup Dropped
              PROVE  NewTotal(m, seen[p]) >= 0
  BY DEF NoFalseUnderflow, Sound
<1>. DEFINE a == AccountOf(m)
            g == MovementGroup(m)
            J == Journalled(a)
<1>1. a \in Accounts /\ g \in Groups
  BY MovementFacts
<1>2. AddsUp(a, g)
  BY <1>1 DEF UnderflowInv, RowInv, RowsAddUp
<1>3. \A q \in Procs : pc[q] # "journal"
  BY DEF UnderflowInv, RowInv, OnceInv, Alone
<1>4. J \cup InFlight(a) = J
  BY <1>3 DEF InFlight
<1>5. seen[p] = Own(g, J)
  BY <1>2, <1>4 DEF AddsUp
<1>6. J \in SUBSET Movements /\ m \in Movements \ J
  BY DEF Journalled, UnderflowInv, RowInv, OnceInv, Alone
<1>7. NewTotal(m, seen[p]) = Own(g, J \cup {m})
  BY <1>5, <1>6, OwnWith
<1>8. CASE g \in {"Chain", "Bridge"}
  <2>1. J \cup {m} \in SUBSET Movements
    BY <1>6
  <2>. QED  BY <1>7, <1>8, <2>1, OwnType
<1>9. CASE g \notin {"Chain", "Bridge"}
  <2>1. J \cup {m} \in SUBSET {x \in Movements : AccountOf(x) = a}
    BY DEF Journalled
  <2>2. Complete(J \cup {m})
    BY JournalComplete
  <2>. HIDE DEF J
  <2>. QED  BY <1>7, <1>9, <2>1, <2>2, NeverBelowZero
<1>. QED  BY <1>8, <1>9

(* A run stops at a negative total only for an account whose save was torn,
   that misses an event, or that is in several groups: what the chain allowed,
   the books can follow, in whatever order the networks are read. *)
THEOREM DebitsNeverUnderflow == Spec => []NoFalseUnderflow
<1>1. Spec => [](HoleInv /\ ByNumber)
  BY InitHoleInv, HoleStep, InitByNumber, NumberStep, PTL DEF Spec
<1>2. Spec => []UnderflowInv
  BY <1>1, AlwaysRowInv, PTL DEF UnderflowInv
<1>. QED  BY <1>2, SaveNotBelowZero, PTL
-----------------------------------------------------------------------------
(* A run that is done with a movement it did not journal was ended. *)
LEMMA PassedStep ==
  ASSUME HoleInv, NoFalseUnderflow, [Next]_vars,
         NEW p \in Procs, NEW m \in Mined \ dropped, PassesOver(p, m)
  PROVE  \/ faults' < faults \/ restarts' > restarts
         \/ \E x \in todo[p] : pc[p] = "save" /\ IsNext(p, x) /\ ~Sound(x)
<1>1. TypeOK /\ m \in Movements
  BY DEF HoleInv, Mined
<1>2. ~(todo'[p] = todo[p] /\ pc'[p] = pc[p])
  BY DEF PassesOver
<1>3. \A kind : Fails(kind) => faults' < faults
  BY <1>1 DEF Fails, TypeOK
<1>4. ~(UNCHANGED vars \/ \E n \in Networks : Mine(n))
  BY <1>2 DEF Mine, vars, job
<1>5. ASSUME NEW q \in Procs, LedgerStep(q) \/ FetchWithout(q) \/ RunFails(q) \/ Restart(q)
      PROVE  q = p
  BY <1>1, <1>2, <1>5 DEF LedgerStep, Start, Fetch, Skip, Check, ReadBalance, UpsertBalance,
     InsertJournal, Underflow, FetchWithout, RunFails, Restart, GoThrough, TypeOK
<1>6. ~Start(p) /\ \A x \in Movements : ~Check(p, x) /\ ~ReadBalance(p, x) /\ ~UpsertBalance(p, x)
  BY DEF PassesOver, Start, Check, ReadBalance, UpsertBalance
<1>7. ~Fetch(p)
  <2>1. SUFFICES ASSUME Fetch(p) PROVE FALSE
    OBVIOUS
  <2>2. pc[p] = "fetch" /\ journal[m] = 0 /\ todo'[p] = Found(p)
    BY <1>1, <2>1 DEF Fetch, GoThrough, PassesOver, TypeOK
  <2>. QED  BY <2>2, FetchFindsMissing DEF PassesOver
<1>8. ASSUME NEW x \in Movements, Skip(p, x) \/ InsertJournal(p, x) PROVE FALSE
  <2>1. /\ pc[p] # "fetch" /\ todo'[p] = todo[p] \ {x}
        /\ journal'[x] # 0
    BY <1>1, <1>8 DEF Skip, InsertJournal, IsNew, GoThrough, TypeOK
  <2>. QED  BY <2>1 DEF PassesOver
<1>9. ASSUME NEW x \in Movements, Underflow(p, x)
      PROVE  x \in todo[p] /\ pc[p] = "save" /\ IsNext(p, x) /\ ~Sound(x)
  <2>1. pc[p] = "save" /\ IsNext(p, x) /\ NewTotal(x, seen[p]) < 0
    BY <1>9 DEF Underflow
  <2>2. NewTotal(x, seen[p]) \in Int
    BY <1>1, NewTotalType DEF TypeOK
  <2>. QED  BY <2>1, <2>2 DEF NoFalseUnderflow, IsNext
<1>10. FetchWithout(p) \/ RunFails(p) => faults' < faults
  BY <1>3 DEF FetchWithout, RunFails
<1>11. Restart(p) => restarts' > restarts
  BY <1>1 DEF Restart, TypeOK
<1>. QED
  BY <1>4, <1>5, <1>6, <1>7, <1>8, <1>9, <1>10, <1>11 DEF Next, LedgerStep

(* A run passes over no movement that was there to be found: only a failed
   call, a restart or an account whose books are not in order ends it early.
   The cursor it went by was read from the journal at its start. *)
THEOREM NothingIsPassedOver == Spec => RunsMissNothing
<1>1. HoleInv /\ NoFalseUnderflow /\ [Next]_vars =>
        [\A p \in Procs, m \in Mined \ dropped :
           PassesOver(p, m) =>
             \/ faults' < faults \/ restarts' > restarts
             \/ \E x \in todo[p] : pc[p] = "save" /\ IsNext(p, x) /\ ~Sound(x)]_vars
  BY PassedStep
<1>2. Spec => []HoleInv
  BY InitHoleInv, HoleStep, PTL DEF Spec
<1>. QED  BY <1>1, <1>2, DebitsNeverUnderflow, PTL DEF Spec, RunsMissNothing
-----------------------------------------------------------------------------
(* The journal is a book: the steps of LedgerSync are steps of JournalBook. *)
LostMined == dropped \subseteq Mined

BookInv == HoleInv /\ ByNumber /\ LostMined

LEMMA ChainGrows ==
  ASSUME TypeOK, NEW n \in Networks, Mine(n)
  PROVE  Book!Grow
<1>1. /\ UNCHANGED <<journal, dropped>>
      /\ head' = [head EXCEPT ![n] = @ + 1]
  BY DEF Mine, history
<1>2. Mined \subseteq Mined' /\ Mined' \in SUBSET Movements
  BY <1>1, MovementFacts DEF Mined, TypeOK
<1>3. ASSUME NEW m \in Mined', NEW x \in Movements, NetworkOf(x) = NetworkOf(m), x < m
      PROVE  x \in Mined'
  <2>1. m \in Movements /\ BlockOf(m) <= head'[NetworkOf(m)] /\ head'[NetworkOf(m)] \in Nat
    BY <1>1, MovementFacts DEF Mined, TypeOK
  <2>2. BlockOf(x) <= BlockOf(m) /\ BlockOf(x) \in Nat /\ BlockOf(m) \in Nat
    BY <1>3, <2>1, NumberedByBlock, MovementFacts DEF Movements
  <2>. QED  BY <1>3, <2>1, <2>2 DEF Mined
<1>. QED  BY <1>1, <1>2, <1>3 DEF Book!Grow

(* Both movements of an event left out are on the chain. *)
LEMMA LosesMined ==
  ASSUME BookInv, NEW p \in Procs, FetchWithout(p)
  PROVE  /\ dropped \subseteq dropped' /\ dropped' \subseteq Mined
         /\ UNCHANGED <<head, journal>>
<1>1. PICK m \in Found(p) :
        dropped' = dropped \cup {x \in Movements : (x + 1) \div 2 = (m + 1) \div 2}
  BY DEF FetchWithout
<1>2. m \in Mined
  BY DEF Found
<1>3. \A x \in Movements : (x + 1) \div 2 = (m + 1) \div 2 => x \in Mined
  BY <1>2 DEF Mined, BlockOf, NetworkOf, TransferOf
<1>. QED  BY <1>1, <1>3 DEF BookInv, LostMined, FetchWithout

(* What a run inserts is a correction of nothing: a second row, or the next
   movement of its network. *)
LEMMA EntersNext ==
  ASSUME BookInv, NEW p \in Procs, NEW m \in Movements, InsertJournal(p, m)
  PROVE  [Book!Enter(m)]_Book!vars
<1>1. /\ m \in todo[p] /\ \A x \in todo[p] : m <= x
      /\ journal' = [journal EXCEPT ![m] = @ + 1]
      /\ UNCHANGED <<head, dropped>>
  BY DEF InsertJournal, IsNext, history
<1>2. /\ journal \in [Movements -> Nat]
      /\ journal'[m] > 0 /\ \A x \in Movements \ {m} : journal'[x] = journal[x]
      /\ Mined' = Mined
  BY <1>1 DEF BookInv, HoleInv, TypeOK, Mined
<1>. DEFINE book == {x \in Movements : journal[x] > 0}
<1>3. book' = book \cup {m}
  BY <1>2
<1>4. CASE journal[m] > 0
  <2>1. book' = book
    BY <1>3, <1>4
  <2>. QED  BY <1>1, <1>2, <2>1 DEF Book!vars
<1>5. CASE ~(journal[m] > 0)
  <2>1. m \in Mined
    BY <1>1 DEF BookInv, HoleInv, OnChain
  <2>2. ASSUME NEW x \in Movements, NetworkOf(x) = NetworkOf(m), x < m,
               ~(journal[x] > 0), x \notin dropped
        PROVE  FALSE
    <3>1. x \in todo[p]
      BY <1>1, <1>2, <2>2 DEF BookInv, ByNumber
    <3>. QED  BY <1>1, <2>2, <3>1 DEF Movements
  <2>3. {x \in Movements : NetworkOf(x) = NetworkOf(m) /\ x < m} \subseteq book \cup dropped
    BY <2>2
  <2>4. Book!Enter(m)
    BY <1>1, <1>2, <1>3, <1>5, <2>1, <2>3 DEF Book!Enter
  <2>. QED  BY <2>4
<1>. QED  BY <1>4, <1>5

LEMMA OtherStepsKeep ==
  ASSUME NEW p \in Procs,
         \/ Start(p) \/ Fetch(p) \/ RunFails(p) \/ Restart(p)
         \/ \E m \in Movements : \/ Skip(p, m) \/ Check(p, m) \/ ReadBalance(p, m)
                               \/ UpsertBalance(p, m) \/ Underflow(p, m)
  PROVE  UNCHANGED <<head, journal, dropped>>
BY DEF Start, Fetch, RunFails, Restart, Skip, Check, ReadBalance, UpsertBalance, Underflow,
   history

LEMMA LostStep == BookInv /\ [Next]_vars => LostMined'
<1>. SUFFICES ASSUME BookInv, [Next]_vars PROVE LostMined'
  OBVIOUS
<1>. USE DEF BookInv, LostMined
<1>1. ASSUME UNCHANGED <<head, dropped>> PROVE LostMined'
  BY <1>1 DEF Mined
<1>2. ASSUME NEW n \in Networks, Mine(n) PROVE LostMined'
  BY <1>2, ChainGrows DEF Book!Grow, HoleInv
<1>3. ASSUME NEW p \in Procs, FetchWithout(p) PROVE LostMined'
  BY <1>3, LosesMined DEF Mined
<1>4. ASSUME NEW p \in Procs, NEW m \in Movements, InsertJournal(p, m) PROVE LostMined'
  BY <1>1, <1>4 DEF InsertJournal, history
<1>5. CASE UNCHANGED vars
  BY <1>1, <1>5 DEF vars, history
<1>. QED  BY <1>1, <1>2, <1>3, <1>4, <1>5, OtherStepsKeep DEF Next, LedgerStep

LEMMA BookStep == BookInv /\ [Next]_vars => [Book!Next]_Book!vars
<1>. SUFFICES ASSUME BookInv, [Next]_vars PROVE [Book!Next]_Book!vars
  OBVIOUS
<1>1. ASSUME UNCHANGED <<head, journal, dropped>> PROVE [Book!Next]_Book!vars
  BY <1>1 DEF Book!vars, Mined
<1>2. ASSUME NEW n \in Networks, Mine(n) PROVE Book!Next
  BY <1>2, ChainGrows DEF Book!Next, BookInv, HoleInv
<1>3. ASSUME NEW p \in Procs, FetchWithout(p) PROVE Book!Next
  <2>1. /\ Mined' = Mined /\ UNCHANGED journal
        /\ dropped \subseteq dropped' /\ dropped' \subseteq Mined
    BY <1>3, LosesMined DEF Mined
  <2>2. Book!Lose
    BY <2>1 DEF Book!Lose
  <2>. QED  BY <2>2 DEF Book!Next
<1>4. ASSUME NEW p \in Procs, NEW m \in Movements, InsertJournal(p, m)
      PROVE  [Book!Next]_Book!vars
  BY <1>4, EntersNext DEF Book!Next
<1>5. CASE UNCHANGED vars
  BY <1>1, <1>5 DEF vars, history
<1>. QED  BY <1>1, <1>2, <1>3, <1>4, <1>5, OtherStepsKeep DEF Next, LedgerStep

(* However runs fail, stop and overlap, the set of journalled movements behaves
   as the book of module JournalBook: it grows one movement at a time, in the
   order of each chain. *)
THEOREM JournalIsABook == Spec => KeepsBook
<1>1. Init => LostMined
  BY DEF Init, LostMined
<1>2. Spec => []BookInv
  BY <1>1, InitHoleInv, HoleStep, InitByNumber, NumberStep, LostStep, PTL DEF Spec, BookInv
<1>3. Init => Book!Init
  <2>1. HAVE Init
  <2>2. Mined = {}
    BY <2>1, MovementFacts DEF Mined, Init
  <2>. QED  BY <2>1, <2>2 DEF Init, Book!Init
<1>. QED  BY <1>2, <1>3, BookStep, PTL DEF Spec, KeepsBook, Book!Spec
=============================================================================
