------------------------ MODULE PurchaseImport_proofs ------------------------
(***************************************************************************)
(* Proofs about module PurchaseImport, for any number of processes,        *)
(* networks, contracts and events, failed calls and restarts.              *)
(*                                                                         *)
(* The argument for LossHasCause: a run asks for everything above the      *)
(* newest block it read, so that what it did not find was either behind    *)
(* that block, or mined while it asked; and while it works, an event it    *)
(* has found leaves it stored or with a failure.                           *)
(***************************************************************************)
EXTENDS PurchaseImport, TLAPS

LEMMA EventFacts ==
  \A e \in Events : /\ Contract(e) \in Contracts /\ Network(e) \in Networks
                    /\ Block(e) \in Nat \ {0}
                    /\ e \in Nat
BY PurchaseAssumption DEF PurchaseAssumption, Network

LEMMA FailsType ==
  ASSUME TypeOK, NEW kind, Fails(kind)
  PROVE  faults' \in Nat
BY DEF TypeOK, Fails

LEMMA GoThroughType ==
  ASSUME TypeOK, NEW p \in Procs, NEW events \in SUBSET Events, GoThrough(p, events)
  PROVE  /\ todo'  \in [Procs -> SUBSET Events]
         /\ asked' \in [Procs -> SUBSET Contracts]
         /\ pc'    \in [Procs -> {"idle", "query", "exists", "insert"}]
BY DEF TypeOK, GoThrough

LEMMA InitTypeOK == Init => TypeOK
BY PurchaseAssumption DEF Init, TypeOK, PurchaseAssumption

LEMMA TypeStep == TypeOK /\ [Next]_vars => TypeOK'
<1>. SUFFICES ASSUME TypeOK, [Next]_vars PROVE TypeOK'
  OBVIOUS
<1>1. ASSUME NEW n \in Networks, Mine(n) PROVE TypeOK'
  BY <1>1 DEF Mine, TypeOK, job
<1>2. ASSUME NEW p \in Procs, Start(p) PROVE TypeOK'
  <2>1. PICK last \in [Networks -> {Block(e) : e \in Events} \cup {0}] :
          from' = [from EXCEPT ![p] = [n \in Networks |-> FromBlock(last[n])]]
    BY <1>2 DEF Start
  <2>2. \A n \in Networks : FromBlock(last[n]) \in Nat
    BY EventFacts DEF FromBlock
  <2>3. from' \in [Procs -> [Networks -> Nat]]
    BY <2>1, <2>2 DEF TypeOK
  <2>. QED  BY <1>2, <2>3 DEF Start, TypeOK
<1>3. ASSUME NEW p \in Procs, NEW c \in Contracts, Query(p, c) PROVE TypeOK'
  <2>1. Mined \subseteq Events
    BY DEF Mined
  <2>. QED  BY <1>3, <2>1 DEF Query, TypeOK
<1>4. ASSUME NEW p \in Procs, Answered(p) PROVE TypeOK'
  <2>1. todo[p] \in SUBSET Events
    BY DEF TypeOK
  <2>. QED  BY <1>4, <2>1, GoThroughType DEF Answered, TypeOK
<1>5. ASSUME NEW p \in Procs, NEW e \in Events, Check(p, e) PROVE TypeOK'
  BY <1>5 DEF Check, TypeOK
<1>6. ASSUME NEW p \in Procs, NEW e \in Events, Skip(p, e) \/ Insert(p, e) \/ ImportFails(p, e)
      PROVE  TypeOK'
  <2>1. todo[p] \ {e} \in SUBSET Events
    BY DEF TypeOK
  <2>2. faults' \in Nat
    BY <1>6, FailsType DEF Skip, Insert, ImportFails, TypeOK
  <2>. QED  BY <1>6, <2>1, <2>2, GoThroughType DEF Skip, Insert, ImportFails, TypeOK
<1>7. ASSUME NEW p \in Procs, FetchFails(p) \/ Restart(p) PROVE TypeOK'
  <2>1. faults' \in Nat /\ restarts' \in Nat
    BY <1>7, FailsType DEF FetchFails, Restart, TypeOK
  <2>2. failed' \subseteq Events
    BY <1>7 DEF FetchFails, Restart, TypeOK
  <2>. QED  BY <1>7, <2>1, <2>2, GoThroughType DEF FetchFails, Restart, TypeOK
<1>8. CASE UNCHANGED vars
  BY <1>8 DEF vars, job, TypeOK
<1>. QED
  BY <1>1, <1>2, <1>3, <1>4, <1>5, <1>6, <1>7, <1>8 DEF Next, ImportStep
-----------------------------------------------------------------------------
(* What a process works on is on the chain; an idle one works on nothing. *)
FoundOnChain ==
  \A p \in Procs : /\ todo[p] \subseteq Mined
                   /\ pc[p] = "idle" => todo[p] = {}

(* A run starts right above a block that is stored, or at the first. *)
StartsAboveRow ==
  \A p \in Procs, n \in Networks :
    pc[p] = "query" =>
      \/ from[p][n] <= 1
      \/ \E x \in purchase : Network(x) = n /\ from[p][n] <= Block(x) + 1

(* A contract that has answered told all that was not mined too late. *)
FoundAll ==
  \A p \in Procs, e \in Mined \ late :
    (pc[p] = "query" /\ Contract(e) \notin asked[p] /\ from[p][Network(e)] <= Block(e))
      => e \in todo[p]

(* A process has found the event and asks no more. *)
InWork(e) == \E p \in Procs : pc[p] # "query" /\ e \in todo[p]

(* No process is about to store a block above a purchase that nobody has. *)
NoneOvertaken ==
  \A p \in Procs : \A e \in Mined \ (late \cup failed), x \in todo[p] :
    (pc[p] # "query" /\ Network(x) = Network(e) /\ Block(e) <= Block(x) /\ ~IsStored(e))
      => InWork(e)

LossInv ==
  /\ TypeOK
  /\ StoredOnce
  /\ FoundOnChain
  /\ StartsAboveRow
  /\ FoundAll
  /\ NoneOvertaken
  /\ LossHasCause

LEMMA InitLossInv == Init => LossInv
<1>. HAVE Init
<1>1. TypeOK
  BY InitTypeOK
<1>2. Mined = {}
  BY EventFacts DEF Mined, Init
<1>3. /\ purchase = {}
      /\ \A p \in Procs : todo[p] = {} /\ pc[p] = "idle"
  BY DEF Init
<1>. QED
  BY <1>1, <1>2, <1>3
     DEF LossInv, StoredOnce, FoundOnChain, StartsAboveRow, FoundAll, NoneOvertaken, LossHasCause

(* A new block is above every event that is stored or found. *)
LEMMA MineKeeps ==
  ASSUME LossInv, NEW n \in Networks, Mine(n), TypeOK'
  PROVE  LossInv'
<1>. USE DEF LossInv
<1>1. /\ UNCHANGED <<purchase, pc, from, asked, todo, failed>>
      /\ head' = [head EXCEPT ![n] = @ + 1] /\ late \subseteq late'
  BY DEF Mine, job
<1>2. \A k \in Networks : head[k] \in Nat /\ head'[k] \in Nat /\ head[k] <= head'[k]
  BY <1>1 DEF TypeOK
<1>3. Mined \subseteq Mined' /\ Mined' \subseteq Events /\ Mined \subseteq Events
  BY <1>2, EventFacts DEF Mined
<1>4. \A e \in Mined' \ Mined : Network(e) = n /\ Block(e) = head[n] + 1
  BY <1>1, EventFacts DEF Mined, TypeOK
<1>5. \A e \in Mined' \ Mined, x \in Mined :
        Network(x) = Network(e) => Block(x) < Block(e)
  BY <1>2, <1>4, EventFacts DEF Mined
<1>6. \A p \in Procs : pc[p] = "query" => Mined' \ Mined \subseteq late'
  BY <1>3, <1>4 DEF Mine
<1>7. StoredOnce'
  BY <1>1, <1>3 DEF StoredOnce
<1>8. FoundOnChain' /\ StartsAboveRow'
  BY <1>1, <1>3 DEF FoundOnChain, StartsAboveRow
<1>9. FoundAll'
  BY <1>1, <1>6 DEF FoundAll
<1>10. NoneOvertaken'
  <2>1. SUFFICES ASSUME NEW p \in Procs, NEW e \in Mined' \ (late' \cup failed), NEW x \in todo[p],
                        pc[p] # "query", Network(x) = Network(e), Block(e) <= Block(x), ~IsStored(e)
                 PROVE  InWork(e)
    BY <1>1 DEF NoneOvertaken, InWork, IsStored
  <2>2. x \in Mined
    BY DEF FoundOnChain
  <2>3. Block(x) \in Nat /\ Block(e) \in Nat
    BY <1>3, <2>2, EventFacts
  <2>4. e \in Mined
    BY <1>5, <2>1, <2>2, <2>3
  <2>. QED  BY <1>1, <2>1, <2>4 DEF NoneOvertaken
<1>11. LossHasCause'
  <2>1. SUFFICES ASSUME NEW e \in Mined', Behind(e)
                 PROVE  IsStored(e) \/ e \in late' \cup failed \/ InWork(e)
    BY <1>1 DEF LossHasCause, InWork, IsStored, Behind
  <2>2. PICK x \in purchase : Network(x) = Network(e) /\ Block(x) >= Block(e)
    BY <2>1 DEF Behind
  <2>3. x \in Mined
    BY DEF StoredOnce
  <2>4. Block(x) \in Nat /\ Block(e) \in Nat
    BY <1>3, <2>3, EventFacts
  <2>5. e \in Mined
    BY <1>5, <2>2, <2>3, <2>4
  <2>. QED  BY <1>1, <2>1, <2>5 DEF LossHasCause, InWork
<1>. QED  BY <1>7, <1>8, <1>9, <1>10, <1>11

LEMMA StartKeeps ==
  ASSUME LossInv, NEW p \in Procs, Start(p), TypeOK'
  PROVE  LossInv'
<1>. USE DEF LossInv
<1>1. /\ UNCHANGED <<head, purchase, todo, late, failed>>
      /\ pc[p] = "idle" /\ pc'[p] = "query" /\ asked'[p] = Contracts
      /\ \A q \in Procs \ {p} : pc'[q] = pc[q] /\ asked'[q] = asked[q] /\ from'[q] = from[q]
  BY DEF Start, TypeOK
<1>2. Mined' = Mined /\ Mined \subseteq Events
  BY <1>1 DEF Mined
<1>3. todo[p] = {}
  BY <1>1 DEF FoundOnChain
<1>4. \A e \in Events : InWork(e)' <=> InWork(e)
  BY <1>1, <1>3 DEF InWork
<1>5. StoredOnce' /\ FoundOnChain'
  BY <1>1, <1>2 DEF StoredOnce, FoundOnChain
<1>6. StartsAboveRow'
  <2>1. PICK last \in [Networks -> {Block(e) : e \in Events} \cup {0}] :
          /\ \A n \in Networks : IsLastBlock(n, last[n])
          /\ from' = [from EXCEPT ![p] = [n \in Networks |-> FromBlock(last[n])]]
    BY DEF Start
  <2>2. \A n \in Networks : from'[p][n] = last[n] + 1
    BY <2>1 DEF FromBlock, TypeOK
  <2>3. \A n \in Networks :
          \/ last[n] = 0
          \/ \E x \in purchase : Network(x) = n /\ Block(x) = last[n]
    BY <2>1 DEF IsLastBlock, StoredBlocks
  <2>4. \A n \in Networks :
          \/ from'[p][n] <= 1
          \/ \E x \in purchase : Network(x) = n /\ from'[p][n] <= Block(x) + 1
    <3>1. TAKE n \in Networks
    <3>2. CASE last[n] = 0
      BY <2>2, <3>2
    <3>3. CASE \E x \in purchase : Network(x) = n /\ Block(x) = last[n]
      <4>1. PICK x \in purchase : Network(x) = n /\ Block(x) = last[n]
        BY <3>3
      <4>2. Block(x) \in Nat
        BY EventFacts DEF TypeOK
      <4>. QED  BY <2>2, <4>1, <4>2
    <3>. QED  BY <2>3, <3>2, <3>3
  <2>. QED  BY <1>1, <2>4 DEF StartsAboveRow
<1>7. FoundAll'
  BY <1>1, <1>2, EventFacts DEF FoundAll
<1>8. NoneOvertaken'
  BY <1>1, <1>2, <1>4 DEF NoneOvertaken, IsStored
<1>9. LossHasCause'
  BY <1>1, <1>2, <1>4 DEF LossHasCause, InWork, IsStored, Behind
<1>. QED  BY <1>5, <1>6, <1>7, <1>8, <1>9

LEMMA QueryKeeps ==
  ASSUME LossInv, NEW p \in Procs, NEW c \in Contracts, Query(p, c), TypeOK'
  PROVE  LossInv'
<1>. USE DEF LossInv
<1>. DEFINE answer == {e \in Mined : Contract(e) = c /\ Block(e) >= from[p][Network(e)]}
<1>1. /\ UNCHANGED <<head, purchase, pc, from, late, failed>> /\ pc[p] = "query"
      /\ asked'[p] = asked[p] \ {c} /\ todo'[p] = todo[p] \cup answer
      /\ \A q \in Procs \ {p} : todo'[q] = todo[q] /\ asked'[q] = asked[q]
  BY DEF Query, TypeOK
<1>2. Mined' = Mined /\ Mined \subseteq Events
  BY <1>1 DEF Mined
<1>3. \A e \in Events : InWork(e)' <=> InWork(e)
  BY <1>1 DEF InWork
<1>4. StoredOnce' /\ FoundOnChain' /\ StartsAboveRow'
  BY <1>1, <1>2 DEF StoredOnce, FoundOnChain, StartsAboveRow
<1>5. FoundAll'
  <2>1. SUFFICES ASSUME NEW q \in Procs, NEW e \in Mined \ late, pc[q] = "query",
                        Contract(e) \notin asked'[q], from[q][Network(e)] <= Block(e)
                 PROVE  e \in todo'[q]
    BY <1>1, <1>2 DEF FoundAll
  <2>2. CASE q = p /\ Contract(e) = c
    <3>1. from[p][Network(e)] \in Nat /\ Block(e) \in Nat
      BY <1>2, EventFacts DEF TypeOK
    <3>. QED  BY <1>1, <2>1, <2>2, <3>1
  <2>3. CASE ~(q = p /\ Contract(e) = c)
    BY <1>1, <2>1, <2>3 DEF FoundAll
  <2>. QED  BY <2>2, <2>3
<1>. HIDE DEF answer
<1>6. NoneOvertaken'
  BY <1>1, <1>2, <1>3 DEF NoneOvertaken, IsStored
<1>7. LossHasCause'
  BY <1>1, <1>2, <1>3 DEF LossHasCause, InWork, IsStored, Behind
<1>. QED  BY <1>4, <1>5, <1>6, <1>7

(* What a run has not found when all contracts have answered was behind the
   row it started from, and then somebody has it. *)
LEMMA AnsweredKeeps ==
  ASSUME LossInv, NEW p \in Procs, Answered(p), TypeOK'
  PROVE  LossInv'
<1>. USE DEF LossInv
<1>1. /\ UNCHANGED <<head, purchase, from, late, failed>>
      /\ pc[p] = "query" /\ asked[p] = {} /\ pc'[p] # "query"
      /\ (pc'[p] = "idle" => todo[p] = {})
      /\ \A q \in Procs : todo'[q] = todo[q]
      /\ \A q \in Procs \ {p} : pc'[q] = pc[q] /\ asked'[q] = asked[q]
  BY DEF Answered, GoThrough, TypeOK
<1>2. Mined' = Mined /\ Mined \subseteq Events
  BY <1>1 DEF Mined
<1>3. \A e \in Events : /\ InWork(e) => InWork(e)'
                        /\ e \in todo[p] => InWork(e)'
  BY <1>1 DEF InWork
<1>4. StoredOnce' /\ FoundOnChain' /\ StartsAboveRow' /\ FoundAll'
  BY <1>1, <1>2 DEF StoredOnce, FoundOnChain, StartsAboveRow, FoundAll
<1>5. LossHasCause'
  BY <1>1, <1>2, <1>3 DEF LossHasCause, InWork, IsStored, Behind
<1>6. NoneOvertaken'
  <2>1. SUFFICES ASSUME NEW q \in Procs, NEW e \in Mined \ (late \cup failed), NEW x \in todo[q],
                        pc'[q] # "query", Network(x) = Network(e), Block(e) <= Block(x),
                        ~IsStored(e)
                 PROVE  InWork(e)'
    BY <1>1, <1>2 DEF NoneOvertaken, IsStored
  <2>2. CASE q # p
    BY <1>1, <1>2, <1>3, <2>1, <2>2 DEF NoneOvertaken
  <2>3. CASE q = p
    <3>1. Network(e) \in Networks /\ Block(e) \in Nat \ {0} /\ Contract(e) \in Contracts
      BY <1>2, EventFacts
    <3>2. from[p][Network(e)] \in Nat
      BY <3>1 DEF TypeOK
    <3>3. CASE from[p][Network(e)] <= Block(e)
      BY <1>1, <1>2, <1>3, <3>3 DEF FoundAll
    <3>4. CASE Block(e) < from[p][Network(e)]
      <4>1. PICK y \in purchase : Network(y) = Network(e) /\ from[p][Network(e)] <= Block(y) + 1
        BY <1>1, <3>1, <3>2, <3>4 DEF StartsAboveRow
      <4>2. Block(y) \in Nat
        BY EventFacts DEF TypeOK
      <4>3. Behind(e)
        BY <3>1, <3>2, <3>4, <4>1, <4>2 DEF Behind
      <4>4. InWork(e)
        BY <2>1, <4>3 DEF LossHasCause, InWork
      <4>. QED  BY <1>2, <1>3, <4>4
    <3>. QED  BY <3>1, <3>2, <3>3, <3>4
  <2>. QED  BY <2>2, <2>3
<1>. QED  BY <1>4, <1>5, <1>6

(* A run that ends before it has all answers *)
LEMMA FetchEndKeeps ==
  ASSUME LossInv, NEW p \in Procs, TypeOK', pc[p] = "query", GoThrough(p, {}),
         UNCHANGED <<head, purchase, from, late, failed>>
  PROVE  LossInv'
<1>. USE DEF LossInv
<1>1. /\ pc'[p] = "idle" /\ todo'[p] = {}
      /\ \A q \in Procs \ {p} : pc'[q] = pc[q] /\ asked'[q] = asked[q] /\ todo'[q] = todo[q]
  BY DEF GoThrough, TypeOK
<1>2. Mined' = Mined /\ Mined \subseteq Events
  BY DEF Mined
<1>3. \A e \in Events : InWork(e) => InWork(e)'
  BY <1>1 DEF InWork
<1>4. StoredOnce' /\ FoundOnChain' /\ StartsAboveRow' /\ FoundAll'
  BY <1>1, <1>2 DEF StoredOnce, FoundOnChain, StartsAboveRow, FoundAll
<1>5. NoneOvertaken'
  BY <1>1, <1>2, <1>3 DEF NoneOvertaken, IsStored
<1>6. LossHasCause'
  BY <1>1, <1>2, <1>3 DEF LossHasCause, InWork, IsStored, Behind
<1>. QED  BY <1>4, <1>5, <1>6

(* A process that has found its events lets go of some, each of them stored
   or with a failure; what it stores is one of them. *)
LEMMA LetGoKeeps ==
  ASSUME LossInv, NEW p \in Procs, TypeOK', pc[p] # "query",
         NEW events \in SUBSET todo[p], GoThrough(p, events),
         UNCHANGED <<head, from, late>>, failed \subseteq failed',
         purchase \subseteq purchase', purchase' \subseteq purchase \cup todo[p],
         \A e, x \in purchase' : Transaction(e) = Transaction(x) => e = x,
         \A e \in todo[p] \ events : IsStored(e)' \/ e \in failed'
  PROVE  LossInv'
<1>. USE DEF LossInv
<1>1. /\ pc'[p] # "query" /\ todo'[p] = events /\ (pc'[p] = "idle" => events = {})
      /\ todo'[p] \subseteq todo[p]
      /\ \A q \in Procs \ {p} : pc'[q] = pc[q] /\ asked'[q] = asked[q] /\ todo'[q] = todo[q]
  BY DEF GoThrough, TypeOK
<1>2. Mined' = Mined /\ Mined \subseteq Events /\ todo[p] \subseteq Mined
  BY DEF Mined, FoundOnChain
<1>3. \A e \in Events : IsStored(e) => IsStored(e)'
  BY DEF IsStored
<1>4. \A e \in Events : InWork(e) => InWork(e)' \/ IsStored(e)' \/ e \in failed'
  <2>1. SUFFICES ASSUME NEW e \in Events, NEW q \in Procs, pc[q] # "query", e \in todo[q]
                 PROVE  InWork(e)' \/ IsStored(e)' \/ e \in failed'
    BY DEF InWork
  <2>2. CASE q = p /\ e \notin events
    BY <2>1, <2>2
  <2>3. CASE q = p /\ e \in events
    BY <1>1, <2>3 DEF InWork
  <2>4. CASE q # p
    BY <1>1, <2>1, <2>4 DEF InWork
  <2>. QED  BY <2>2, <2>3, <2>4
<1>5. StoredOnce'
  BY <1>2 DEF StoredOnce
<1>6. FoundOnChain' /\ StartsAboveRow' /\ FoundAll'
  BY <1>1, <1>2 DEF FoundOnChain, StartsAboveRow, FoundAll
<1>7. NoneOvertaken'
  <2>1. SUFFICES ASSUME NEW q \in Procs, NEW e \in Mined \ (late \cup failed'), NEW x \in todo'[q],
                        pc'[q] # "query", Network(x) = Network(e), Block(e) <= Block(x),
                        ~IsStored(e)'
                 PROVE  InWork(e)'
    BY <1>2 DEF NoneOvertaken
  <2>2. x \in todo[q] /\ pc[q] # "query"
    BY <1>1, <2>1
  <2>3. e \in Mined \ (late \cup failed) /\ ~IsStored(e)
    BY <1>2, <1>3, <2>1
  <2>4. InWork(e)
    BY <2>1, <2>2, <2>3 DEF NoneOvertaken
  <2>. QED  BY <1>2, <1>4, <2>1, <2>4
<1>8. LossHasCause'
  <2>1. SUFFICES ASSUME NEW e \in Mined, Behind(e)', ~IsStored(e)', e \notin late \cup failed'
                 PROVE  InWork(e)'
    BY <1>2 DEF LossHasCause, InWork
  <2>2. PICK x \in purchase' : Network(x) = Network(e) /\ Block(x) >= Block(e)
    BY <2>1 DEF Behind
  <2>3. e \in Events /\ ~IsStored(e) /\ e \notin late \cup failed
    BY <1>2, <1>3, <2>1
  <2>4. CASE x \in purchase
    BY <1>4, <2>1, <2>2, <2>3, <2>4 DEF LossHasCause, Behind, InWork
  <2>5. CASE x \in todo[p]
    <3>1. Block(x) \in Nat /\ Block(e) \in Nat
      BY <1>2, <2>3, <2>5, EventFacts
    <3>2. InWork(e)
      BY <2>2, <2>3, <2>5, <3>1 DEF NoneOvertaken
    <3>. QED  BY <1>4, <2>1, <2>3, <3>2
  <2>. QED  BY <2>2, <2>4, <2>5
<1>. QED  BY <1>5, <1>6, <1>7, <1>8

LEMMA LossStep == LossInv /\ [Next]_vars => LossInv'
<1>. SUFFICES ASSUME LossInv, [Next]_vars PROVE LossInv'
  OBVIOUS
<1>1. TypeOK'
  BY TypeStep DEF LossInv
<1>2. ASSUME NEW p \in Procs, FetchFails(p) PROVE LossInv'
  BY <1>1, <1>2, FetchEndKeeps DEF FetchFails
<1>3. ASSUME NEW p \in Procs, Restart(p) PROVE LossInv'
  <2>1. CASE pc[p] = "query"
    BY <1>1, <1>3, <2>1, FetchEndKeeps DEF Restart
  <2>2. CASE pc[p] # "query"
    <3>1. /\ GoThrough(p, {}) /\ UNCHANGED <<head, purchase, from, late>>
          /\ failed' = failed \cup todo[p]
      BY <1>3, <2>2 DEF Restart
    <3>2. \A e, x \in purchase : Transaction(e) = Transaction(x) => e = x
      BY DEF LossInv, StoredOnce
    <3>. QED  BY <1>1, <2>2, <3>1, <3>2, LetGoKeeps
  <2>. QED  BY <2>1, <2>2
<1>4. ASSUME NEW p \in Procs, NEW e \in Events, Skip(p, e) \/ Insert(p, e) \/ ImportFails(p, e)
      PROVE  LossInv'
  <2>1. /\ pc[p] # "query" /\ GoThrough(p, todo[p] \ {e}) /\ e \in todo[p]
        /\ UNCHANGED <<head, from, late>>
        /\ purchase \subseteq purchase' /\ purchase' \subseteq purchase \cup todo[p]
        /\ failed \subseteq failed'
    BY <1>4 DEF Skip, Insert, ImportFails, IsNext
  <2>2. \A d, x \in purchase' : Transaction(d) = Transaction(x) => d = x
    BY <1>4 DEF Skip, Insert, ImportFails, LossInv, StoredOnce, IsStored
  <2>3. IsStored(e)' \/ e \in failed'
    BY <1>4 DEF Skip, Insert, ImportFails, IsStored
  <2>. QED  BY <1>1, <2>1, <2>2, <2>3, LetGoKeeps
<1>5. ASSUME NEW p \in Procs, NEW e \in Events, Check(p, e) PROVE LossInv'
  <2>1. /\ UNCHANGED <<head, purchase, from, asked, todo, late, failed>>
        /\ \A q \in Procs : /\ (pc'[q] = "query" <=> pc[q] = "query")
                            /\ (pc'[q] = "idle" => pc[q] = "idle")
    BY <1>5 DEF Check, LossInv, TypeOK
  <2>2. Mined' = Mined /\ Mined \subseteq Events
    BY <2>1 DEF Mined
  <2>3. \A x \in Events : InWork(x)' <=> InWork(x)
    BY <2>1 DEF InWork
  <2>4. StoredOnce' /\ FoundOnChain' /\ StartsAboveRow' /\ FoundAll'
    BY <2>1, <2>2 DEF LossInv, StoredOnce, FoundOnChain, StartsAboveRow, FoundAll
  <2>5. NoneOvertaken'
    BY <2>1, <2>2, <2>3 DEF LossInv, NoneOvertaken, IsStored
  <2>6. LossHasCause'
    BY <2>1, <2>2, <2>3 DEF LossInv, LossHasCause, InWork, IsStored, Behind
  <2>. QED  BY <1>1, <2>4, <2>5, <2>6 DEF LossInv
<1>6. CASE UNCHANGED vars
  <2>1. UNCHANGED <<head, purchase, pc, from, asked, todo, late, failed>>
    BY <1>6 DEF vars, job
  <2>2. Mined' = Mined
    BY <2>1 DEF Mined
  <2>. QED
    BY <1>1, <2>1, <2>2
       DEF LossInv, StoredOnce, FoundOnChain, StartsAboveRow, FoundAll, NoneOvertaken, LossHasCause,
           InWork, IsStored, Behind
<1>. QED
  BY <1>1, <1>2, <1>3, <1>4, <1>5, <1>6, MineKeeps, StartKeeps, QueryKeeps, AnsweredKeeps
     DEF Next, ImportStep

(* Every variable keeps the type TypeOK gives it. *)
THEOREM PurchaseTypes == Spec => []TypeOK
BY InitTypeOK, TypeStep, PTL DEF Spec

(* Processes that race for a transaction store it once. *)
THEOREM PurchasesStoredOnce == Spec => []StoredOnce
<1>1. Spec => []LossInv
  BY InitLossInv, LossStep, PTL DEF Spec
<1>. QED  BY <1>1, PTL DEF LossInv

(* A purchase that no run will ask for is stored or in work, or its loss has
   one of the three causes. *)
THEOREM LossesHaveCauses == Spec => []LossHasCause
<1>1. Spec => []LossInv
  BY InitLossInv, LossStep, PTL DEF Spec
<1>. QED  BY <1>1, PTL DEF LossInv
=============================================================================
