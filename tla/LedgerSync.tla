----------------------------- MODULE LedgerSync -----------------------------
(***************************************************************************)
(* The ledger: a cron job copies the token's Transfer events of every      *)
(* network into a journal of credits and debits, and keeps a balance per   *)
(* account and group beside it (sync-ledger.usecase.ts,                    *)
(* balance.builder.ts, journal-entry.entity.ts,                            *)
(* persistable-balance-journal.adapter.ts).                                *)
(*                                                                         *)
(* The job keeps nothing in memory: it resumes from the newest block of    *)
(* the journal.  A movement is a read of the journal, a read of the        *)
(* balance, a write of the balance and an insert into the journal, without *)
(* a transaction around them.  Reorganisations of a chain are not handled  *)
(* by the code and not modelled.                                           *)
(***************************************************************************)
EXTENDS Integers, Sequences, FiniteSets, FiniteSetsExt

CONSTANTS
  Procs,       (* server processes                                          *)
  Networks,
  Accounts,
  Transfers,   (* the Transfer events the chains will emit, by date         *)
  GroupOf,     (* the group of an account on a network                      *)
  FaultKinds,  (* calls that may fail                                       *)
  MaxFaults,   (* bound: failed calls                                       *)
  MaxRestarts  (* bound: process restarts                                   *)

Groups == {"Holder", "Sale", "Treasury", "Bridge", "Chain"}

AllFaultKinds == {"fetch", "block", "read", "balance", "journal"}

Event == [network : Networks, block : Nat \ {0}, from : Accounts, to : Accounts, amount : Nat]

ASSUME LedgerAssumption ==
  /\ Transfers \in Seq(Event)
  /\ \A i, j \in DOMAIN Transfers :
       (i < j /\ Transfers[i].network = Transfers[j].network)
         => Transfers[i].block <= Transfers[j].block
  /\ GroupOf \in [Networks -> [Accounts -> Groups]]
  /\ FaultKinds \subseteq AllFaultKinds
  /\ MaxFaults \in Nat
  /\ MaxRestarts \in Nat

(* splitCreditDebit: a transfer is a credit, then a debit.  Movements are
   numbered in the order of JournalEntry.compare. *)
Movements == 1 .. 2 * Len(Transfers)

TransferOf(m) == Transfers[(m + 1) \div 2]

IsCredit(m) == m % 2 = 1

AccountOf(m) == IF IsCredit(m) THEN TransferOf(m).to ELSE TransferOf(m).from

NetworkOf(m) == TransferOf(m).network

BlockOf(m) == TransferOf(m).block

(* JournalEntry: the group comes from the layer and the address *)
MovementGroup(m) == GroupOf[NetworkOf(m)][AccountOf(m)]

AmountIn(movements) == MapThenSumSet(LAMBDA m : TransferOf(m).amount, movements)

Credits(movements) == {m \in movements : IsCredit(m)}

Debits(movements) == {m \in movements : ~IsCredit(m)}

(* What an account did on a network before a movement *)
Before(m) ==
  {x \in Movements : AccountOf(x) = AccountOf(m) /\ NetworkOf(x) = NetworkOf(m) /\ x < m}

(* The token contract of a network lets nobody send more than they have there;
   only a mint and, for the code, a bridge draw on nothing. *)
ASSUME ChainAllows ==
  \A m \in Movements :
    (~IsCredit(m) /\ MovementGroup(m) \notin {"Chain", "Bridge"})
      => AmountIn(Debits(Before(m))) + TransferOf(m).amount <= AmountIn(Credits(Before(m)))

VARIABLES
  head,      (* the newest block of a network                               *)
  journal,   (* how many journal rows a movement has                        *)
  balance,   (* balance.uint256_total, by account and group                 *)
  pc, cursor, todo, seen,   (* one run of a process                         *)
  faults, restarts,         (* budgets                                      *)
  (* history variables, which the code does not have *)
  torn,      (* movements whose save stopped between its two statements     *)
  dropped,   (* movements a fetch left out                                  *)
  overlapped (* whether two processes have run at once                      *)

job     == <<pc, cursor, todo, seen>>
history == <<torn, dropped, overlapped>>
vars    == <<head, journal, balance, job, faults, restarts, history>>

Fails(kind) ==
  /\ kind \in FaultKinds
  /\ faults > 0
  /\ faults' = faults - 1
-----------------------------------------------------------------------------
Mined == {m \in Movements : BlockOf(m) <= head[NetworkOf(m)]}

(* A network mines a block. *)
Mine(n) ==
  /\ \E m \in Movements : NetworkOf(m) = n /\ BlockOf(m) > head[n]
  /\ head' = [head EXCEPT ![n] = @ + 1]
  /\ UNCHANGED <<journal, balance, job, faults, restarts, history>>

JournalBlocks(n) == {BlockOf(m) : m \in {x \in Movements : journal[x] > 0 /\ NetworkOf(x) = n}}

(* max(block_number), null over no rows *)
IsLastBlock(n, block) ==
  /\ block \in JournalBlocks(n) \cup {0}
  /\ \A b \in JournalBlocks(n) : b <= block

FromBlock_Next(block) == block + 1

(* FetchableJournalEntryDbAdapter.fetchLastBlocks: the newest block is read
   again, and one before it; never below 0. *)
FromBlock(block) == IF block > 0 THEN block - 1 ELSE 0

Start(p) ==
  /\ pc[p] = "idle"
  /\ \E last \in [Networks -> {BlockOf(m) : m \in Movements} \cup {0}] :
       /\ \A n \in Networks : IsLastBlock(n, last[n])
       /\ cursor' = [cursor EXCEPT ![p] = [n \in Networks |-> FromBlock(last[n])]]
  /\ pc' = [pc EXCEPT ![p] = "fetch"]
  /\ overlapped' = (overlapped \/ \E q \in Procs : pc[q] # "idle")
  /\ UNCHANGED <<head, journal, balance, todo, seen, faults, restarts, torn, dropped>>

(* The run goes on with a set of movements, or ends. *)
GoThrough(p, movements) ==
  /\ todo' = [todo EXCEPT ![p] = movements]
  /\ seen' = [seen EXCEPT ![p] = 0]
  /\ pc'   = [pc EXCEPT ![p] = IF movements = {} THEN "idle" ELSE "entry"]

(* queryFilter(Transfer, fromBlock) on every network *)
Found(p) == {m \in Mined : BlockOf(m) >= cursor[p][NetworkOf(m)]}

Fetch(p) ==
  /\ pc[p] = "fetch"
  /\ GoThrough(p, Found(p))
  /\ UNCHANGED <<head, journal, balance, cursor, faults, restarts, history>>

(* fetchByBlockNumber leaves out an event whose block it cannot read, and
   keeps the others. *)
FetchWithout(p) ==
  /\ pc[p] = "fetch"
  /\ Fails("block")
  /\ \E m \in Found(p) :
       LET event == {x \in Movements : (x + 1) \div 2 = (m + 1) \div 2}
       IN  /\ GoThrough(p, Found(p) \ event)
           /\ dropped' = dropped \cup event
  /\ UNCHANGED <<head, journal, balance, cursor, restarts, torn, overlapped>>

IsNext_Last(p, m) == m \in todo[p] /\ \A x \in todo[p] : x <= m

(* The loop of syncBalances, in the order of JournalEntry.compare *)
IsNext(p, m) == m \in todo[p] /\ \A x \in todo[p] : m <= x

IsNew_Unchecked(m) == TRUE

(* FetchableJournalEntryDbAdapter.fetch finds no row of the movement. *)
IsNew(m) == journal[m] = 0

Skip(p, m) ==
  /\ pc[p] = "entry" /\ IsNext(p, m)
  /\ ~IsNew(m)
  /\ GoThrough(p, todo[p] \ {m})
  /\ UNCHANGED <<head, journal, balance, cursor, faults, restarts, history>>

Check(p, m) ==
  /\ pc[p] = "entry" /\ IsNext(p, m)
  /\ IsNew(m)
  /\ pc' = [pc EXCEPT ![p] = "read"]
  /\ UNCHANGED <<head, journal, balance, cursor, todo, seen, faults, restarts, history>>

RowsOf(a) == {key \in DOMAIN balance : key[1] = a}

(* FetchableBalanceDbAdapter.fetch: a row of the account, of whichever group;
   no row counts as 0.  The checksum of a row was written with it. *)
ReadBalance(p, m) ==
  /\ pc[p] = "read" /\ IsNext(p, m)
  /\ \/ RowsOf(AccountOf(m)) = {} /\ seen' = [seen EXCEPT ![p] = 0]
     \/ \E key \in RowsOf(AccountOf(m)) : seen' = [seen EXCEPT ![p] = balance[key]]
  /\ pc' = [pc EXCEPT ![p] = "save"]
  /\ UNCHANGED <<head, journal, balance, cursor, todo, faults, restarts, history>>

IsMintOrFxTunnel_MintOnly(m) == ~IsCredit(m) /\ MovementGroup(m) = "Chain"

(* The null account and the bridges hold no tokens of their own. *)
IsMintOrFxTunnel(m) == ~IsCredit(m) /\ MovementGroup(m) \in {"Chain", "Bridge"}

(* BalanceBuilder.addJournalEntry *)
NewTotal(m, total) ==
  CASE IsMintOrFxTunnel(m) -> total
    [] IsCredit(m)         -> total + TransferOf(m).amount
    [] OTHER               -> total - TransferOf(m).amount

UpsertBalance_Signed(p, m) ==
  /\ pc[p] = "save" /\ IsNext(p, m)
  /\ LET row == <<AccountOf(m), MovementGroup(m)>>
     IN  balance' = [key \in DOMAIN balance \cup {row} |->
                       IF key = row THEN NewTotal(m, seen[p]) ELSE balance[key]]
  /\ pc' = [pc EXCEPT ![p] = "journal"]
  /\ UNCHANGED <<head, journal, cursor, todo, seen, faults, restarts, history>>

(* PersistableBalanceJournalDbAdapter.save, first statement: a row for the
   account and the movement's group *)
UpsertBalance(p, m) ==
  /\ pc[p] = "save" /\ IsNext(p, m)
  /\ NewTotal(m, seen[p]) >= 0
  /\ LET row == <<AccountOf(m), MovementGroup(m)>>
     IN  balance' = [key \in DOMAIN balance \cup {row} |->
                       IF key = row THEN NewTotal(m, seen[p]) ELSE balance[key]]
  /\ pc' = [pc EXCEPT ![p] = "journal"]
  /\ UNCHANGED <<head, journal, cursor, todo, seen, faults, restarts, history>>

(* The second statement; journal has no unique key. *)
InsertJournal(p, m) ==
  /\ pc[p] = "journal" /\ IsNext(p, m)
  /\ journal' = [journal EXCEPT ![m] = @ + 1]
  /\ GoThrough(p, todo[p] \ {m})
  /\ UNCHANGED <<head, balance, cursor, faults, restarts, history>>

(* The fixed point library refuses a negative uint256: the run ends, and
   every later run ends at the same movement. *)
Underflow(p, m) ==
  /\ pc[p] = "save" /\ IsNext(p, m)
  /\ NewTotal(m, seen[p]) < 0
  /\ GoThrough(p, {})
  /\ UNCHANGED <<head, journal, balance, cursor, faults, restarts, history>>

(* An interrupted run leaves a balance without its journal row. *)
Tear(p) ==
  torn' = torn \cup {m \in todo[p] : pc[p] = "journal" /\ IsNext(p, m)}

(* An error of any call ends the run. *)
RunFails(p) ==
  /\ \/ pc[p] = "fetch" /\ Fails("fetch")
     \/ pc[p] \in {"entry", "read"} /\ Fails("read")
     \/ pc[p] = "save" /\ Fails("balance")
     \/ pc[p] = "journal" /\ Fails("journal")
  /\ Tear(p)
  /\ GoThrough(p, {})
  /\ UNCHANGED <<head, journal, balance, cursor, restarts, dropped, overlapped>>

(* A process stops and starts. *)
Restart(p) ==
  /\ pc[p] # "idle" /\ restarts < MaxRestarts
  /\ restarts' = restarts + 1
  /\ Tear(p)
  /\ GoThrough(p, {})
  /\ UNCHANGED <<head, journal, balance, cursor, faults, dropped, overlapped>>

Init ==
  /\ head     = [n \in Networks |-> 0]
  /\ journal  = [m \in Movements |-> 0]
  /\ balance  = [key \in {} |-> 0]
  /\ pc       = [p \in Procs |-> "idle"]
  /\ cursor   = [p \in Procs |-> [n \in Networks |-> 0]]
  /\ todo     = [p \in Procs |-> {}]
  /\ seen     = [p \in Procs |-> 0]
  /\ faults   = MaxFaults
  /\ restarts = 0
  /\ torn     = {}
  /\ dropped  = {}
  /\ overlapped = FALSE

LedgerStep(p) ==
  \/ Start(p)
  \/ Fetch(p)
  \/ \E m \in Movements :
       \/ Skip(p, m)
       \/ Check(p, m)
       \/ ReadBalance(p, m)
       \/ UpsertBalance(p, m)
       \/ InsertJournal(p, m)
       \/ Underflow(p, m)

Next ==
  \/ \E n \in Networks : Mine(n)
  \/ \E p \in Procs : LedgerStep(p) \/ FetchWithout(p) \/ RunFails(p) \/ Restart(p)

Spec == Init /\ [][Next]_vars

(* The cron job runs again and again and its calls return or fail. *)
FairSpec == Spec /\ \A p \in Procs : WF_vars(LedgerStep(p))
-----------------------------------------------------------------------------
(* Properties *)

TypeOK ==
  /\ head    \in [Networks -> Nat]
  /\ journal \in [Movements -> Nat]
  /\ DOMAIN balance \subseteq Accounts \X Groups
  /\ \A key \in DOMAIN balance : balance[key] \in Nat
  /\ pc      \in [Procs -> {"idle", "fetch", "entry", "read", "save", "journal"}]
  /\ cursor  \in [Procs -> [Networks -> Nat]]
  /\ todo    \in [Procs -> SUBSET Movements]
  /\ seen    \in [Procs -> Nat]
  /\ faults   \in Nat
  /\ restarts \in Nat
  /\ torn    \subseteq Movements
  /\ dropped \subseteq Movements
  /\ overlapped \in BOOLEAN

(* The journal of a network has no hole: whatever failed, raced or was
   restarted, a movement on the chain that is not in the journal is not older
   than any that is, unless a fetch left it out.  The next run, which starts
   from the newest block of the journal, therefore finds it. *)
NoHole ==
  \A m \in Mined \ dropped : \A x \in Movements :
    (journal[m] = 0 /\ journal[x] > 0 /\ NetworkOf(x) = NetworkOf(m)) => BlockOf(x) <= BlockOf(m)

(* One process at a time journals no movement twice, although every run
   fetches the newest blocks of the journal once more. *)
JournalledOnce == ~overlapped => \A m \in Movements : journal[m] <= 1

(* The accounts of an interrupted save, and of an event left out *)
Torn == {AccountOf(m) : m \in torn}

Dropped == {AccountOf(m) : m \in dropped}

InGroup(a, group) == \A n \in Networks : GroupOf[n][a] = group

(* An account that is in the same group everywhere owns, by its balance,
   what its journal rows add up to, in whatever order runs were interrupted
   and repeated; only the account whose own save was torn is off.  A bridge
   counts what it took in. *)
BalanceIsJournal ==
  ~overlapped =>
    \A key \in DOMAIN balance :
      LET mine     == {m \in Movements : journal[m] > 0 /\ AccountOf(m) = key[1]}
          credits  == AmountIn(Credits(mine))
          debits   == AmountIn(Debits(mine))
          inFlight == \E p \in Procs, m \in Movements :
                        pc[p] = "journal" /\ IsNext(p, m) /\ AccountOf(m) = key[1]
      IN  (InGroup(key[1], key[2]) /\ key[1] \notin Torn /\ ~inFlight)
            => balance[key] = IF key[2] \in {"Chain", "Bridge"} THEN credits ELSE credits - debits

(* The books of a movement's account are in order: no save of it was torn, no
   event of it left out, and its group is the same on every network. *)
Sound(m) ==
  LET a == AccountOf(m)
  IN  ~overlapped /\ InGroup(a, MovementGroup(m)) /\ a \notin Torn \cup Dropped

(* A debit the chain allowed never makes the arithmetic fail, even when one
   network is read later than another: a run stops for a negative total only
   at an account with a torn save or a missing event, or in several groups. *)
NoFalseUnderflow ==
  \A p \in Procs, m \in Movements :
    (pc[p] = "save" /\ IsNext(p, m) /\ Sound(m)) => NewTotal(m, seen[p]) >= 0

(* The journal, seen as the set of movements that have a row, is the book of
   module JournalBook: in the order of each chain, append only, with nothing
   passed over, however runs are interrupted, repeated or overlap. *)
Book == INSTANCE JournalBook WITH
  chain   <- Mined,
  book    <- {m \in Movements : journal[m] > 0},
  lost    <- dropped,
  Earlier <- [m \in Movements |->
                {x \in Movements : NetworkOf(x) = NetworkOf(m) /\ x < m}]

KeepsBook == Book!Spec

(* A run is done with a movement that it did not find or that is still not in
   the journal. *)
PassesOver(p, m) ==
  /\ m \in todo[p] \/ (pc[p] = "fetch" /\ pc'[p] # "fetch")
  /\ m \notin todo'[p]
  /\ journal'[m] = 0

(* A run passes over no movement that the chain had when it read the chain,
   from wherever it resumed: only a failed call, a restart or the arithmetic
   at an account whose books are not in order end it before its last one. *)
RunsMissNothing ==
  [][\A p \in Procs, m \in Mined \ dropped :
       PassesOver(p, m) =>
         \/ faults' < faults \/ restarts' > restarts
         \/ \E x \in todo[p] : pc[p] = "save" /\ IsNext(p, x) /\ ~Sound(x)]_vars

(* The journal catches up with the chain again and again, whichever calls
   failed and wherever a run stopped, unless a save was torn, an event left
   out or two processes ran at once: the damage of these can be permanent. *)
JournalCatchesUp ==
  []<>((\A m \in Mined : journal[m] > 0) \/ torn # {} \/ dropped # {} \/ overlapped)
=============================================================================
