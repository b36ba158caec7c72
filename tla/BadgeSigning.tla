---------------------------- MODULE BadgeSigning ----------------------------
(***************************************************************************)
(* The permission to mint a badge: the server verifies that the wallet may *)
(* have it, records a due date and a network in the table mint_history,    *)
(* verifies again and signs (sign-aggregated-mint.usecase.ts,              *)
(* verify-aggregated-badge-mint.usecase.ts,                                *)
(* fetch-aggregated-signature.usecase.ts,                                  *)
(* fetch-presale-badge-eligibility.usecase.ts).                            *)
(*                                                                         *)
(* The rows and caches of two wallets or two badges never meet: this is    *)
(* one wallet and the pre-sale badge.  Rows without a due date, which      *)
(* record refusals and which nothing reads, are left out.                  *)
(***************************************************************************)
EXTENDS Integers, FiniteSets

CONSTANTS
  Requests,    (* requests for one wallet and badge                         *)
  Ask,         (* what a request asks: its kind and its network             *)
  Procs,       (* server processes                                          *)
  ProcOf,      (* the process that answers a request                        *)
  Networks,
  NoNetwork,
  Expiration,  (* signatureExpiration, in ticks of the clock                *)
  MaxTime,     (* bound: the clock                                          *)
  FaultKinds,  (* calls that may fail                                       *)
  MaxFaults,   (* bound: failed calls                                       *)
  MaxRestarts  (* bound: process restarts                                   *)

AllFaultKinds == {"events", "badges", "last", "insert"}

ASSUME BadgeAssumption ==
  /\ Ask \in [Requests -> [kind : {"sign", "fetch"}, network : Networks]]
  /\ ProcOf \in [Requests -> Procs]
  /\ NoNetwork \notin Networks
  /\ Expiration \in Nat \ {0}
  /\ MaxTime \in Nat
  /\ FaultKinds \subseteq AllFaultKinds
  /\ MaxFaults \in Nat
  /\ MaxRestarts \in Nat

VARIABLES
  now,
  bought,        (* the wallet has bought or claimed in the pre-sale        *)
  minted,        (* the networks on which it has minted the badge           *)
  mint_history,  (* the rows with a due date                                *)
  cachedHasPreSaleEvents, cachedAlreadyMinted,   (* of a process            *)
  pc, look,      (* where a request is, and in which verification           *)
  chain,         (* the network it is executed for                          *)
  hasEvents, asked, isVerified,   (* of its verification; asked: the badge
                    was minted when the networks were asked for its events  *)
  lastSignatureHistory,           (* the row its verification has read      *)
  dueDate,
  signed,        (* the signatures handed out                               *)
  faults, restarts,
  (* history variables, which the code does not have *)
  held,          (* the due dates handed out when the request began         *)
  extends,       (* it chose its own due date while one of them was to come *)
  mintedBefore,  (* the badge was minted when the verification began        *)
  again          (* its execute has called itself                           *)

caches  == <<cachedHasPreSaleEvents, cachedAlreadyMinted>>
verify  == <<hasEvents, asked, isVerified>>
request == <<pc, look, chain, lastSignatureHistory, dueDate, held, extends, mintedBefore, again>>
vars    == <<now, bought, minted, mint_history, caches, verify, request,
             signed, faults, restarts>>

(* fetchLast finds no row. *)
NoHistory == [due |-> 0, network |-> NoNetwork]

Fails(kind) ==
  /\ kind \in FaultKinds
  /\ faults > 0
  /\ faults' = faults - 1
-----------------------------------------------------------------------------
(* The world outside *)

Tick ==
  /\ now < MaxTime
  /\ now' = now + 1
  /\ UNCHANGED <<bought, minted, mint_history, caches, verify, request, signed, faults, restarts>>

Buy ==
  /\ ~bought
  /\ bought' = TRUE
  /\ UNCHANGED <<now, minted, mint_history, caches, verify, request, signed, faults, restarts>>

(* The contract of a network takes a signature that has not expired and
   whose type is that of its layer. *)
Mint(s) ==
  /\ s \in signed
  /\ s.due >= now /\ s.asked = s.network /\ s.network \notin minted
  /\ minted' = minted \cup {s.network}
  /\ UNCHANGED <<now, bought, mint_history, caches, verify, request, signed, faults, restarts>>
-----------------------------------------------------------------------------
(* A verification *)

HasMinted_OnAll == minted = Networks

(* The Mint events of all networks together *)
HasMinted == minted # {}

(* Only a cached yes is used *)
AlreadyMinted(p) == cachedAlreadyMinted[p] = "yes"

Begin(r, stage) ==
  LET p == ProcOf[r] IN
  /\ look' = [look EXCEPT ![r] = stage]
  /\ pc'   = [pc EXCEPT ![r] = IF AlreadyMinted(p) THEN "last"
                               ELSE IF cachedHasPreSaleEvents[p] THEN "badges" ELSE "events"]
  /\ hasEvents'    = [hasEvents EXCEPT ![r] = cachedHasPreSaleEvents[p]]
  /\ asked'        = [asked EXCEPT ![r] = pc'[r] = "badges" /\ HasMinted]
  /\ isVerified'   = [isVerified EXCEPT ![r] = FALSE]
  /\ lastSignatureHistory' = [lastSignatureHistory EXCEPT ![r] = NoHistory]
  /\ mintedBefore' = [mintedBefore EXCEPT ![r] = minted # {}]

(* What the request held is gone. *)
Forget(requests) ==
  /\ pc'   = [r \in Requests |-> IF r \in requests THEN "done" ELSE pc[r]]
  /\ look' = [r \in Requests |-> IF r \in requests THEN "first" ELSE look[r]]
  /\ chain'        = [r \in Requests |-> IF r \in requests THEN NoNetwork ELSE chain[r]]
  /\ hasEvents'    = [r \in Requests |-> r \notin requests /\ hasEvents[r]]
  /\ asked'        = [r \in Requests |-> r \notin requests /\ asked[r]]
  /\ isVerified'   = [r \in Requests |-> r \notin requests /\ isVerified[r]]
  /\ lastSignatureHistory' =
       [r \in Requests |-> IF r \in requests THEN NoHistory ELSE lastSignatureHistory[r]]
  /\ dueDate'      = [r \in Requests |-> IF r \in requests THEN 0 ELSE dueDate[r]]
  /\ held'         = [r \in Requests |-> IF r \in requests THEN {} ELSE held[r]]
  /\ extends'      = [r \in Requests |-> r \notin requests /\ extends[r]]
  /\ mintedBefore' = [r \in Requests |-> r \notin requests /\ mintedBefore[r]]
  /\ again'        = [r \in Requests |-> r \notin requests /\ again[r]]

End(r) == Forget({r})

(* The Purchase and Claim events of the pre-sale are read. *)
PreSaleEvents(r) ==
  /\ pc[r] = "events"
  /\ hasEvents' = [hasEvents EXCEPT ![r] = bought]
  /\ asked'     = [asked EXCEPT ![r] = HasMinted]
  /\ pc' = [pc EXCEPT ![r] = "badges"]
  /\ UNCHANGED <<now, bought, minted, mint_history, caches, look, chain, isVerified,
                 lastSignatureHistory, dueDate, signed, faults, restarts, held, extends,
                 mintedBefore, again>>

(* The networks answer with the Mint events of the wallet, each at a moment
   of its own since they were asked; the caches are written, and the wallet
   is eligible or not. *)
Eligibility(r, hasMinted) ==
  /\ pc[r] = "badges"
  /\ hasMinted \in {asked[r], HasMinted}
  /\ cachedAlreadyMinted' =
       [cachedAlreadyMinted EXCEPT ![ProcOf[r]] = IF hasMinted THEN "yes" ELSE "no"]
  /\ cachedHasPreSaleEvents' = [cachedHasPreSaleEvents EXCEPT ![ProcOf[r]] = hasEvents[r]]
  /\ isVerified' = [isVerified EXCEPT ![r] = hasEvents[r] /\ ~hasMinted]
  /\ hasEvents'  = [hasEvents EXCEPT ![r] = FALSE]
  /\ asked'      = [asked EXCEPT ![r] = FALSE]
  /\ pc' = [pc EXCEPT ![r] = "last"]
  /\ UNCHANGED <<now, bought, minted, mint_history, look, chain,
                 lastSignatureHistory, dueDate, signed, faults, restarts, held, extends,
                 mintedBefore, again>>

IsLast_Oldest(h) == \A x \in mint_history : h.due <= x.due

(* fetchLast: order by due_date desc limit 1 *)
IsLast(h) == \A x \in mint_history : x.due <= h.due

FetchLast(r) ==
  /\ pc[r] = "last"
  /\ \E row \in mint_history \cup {NoHistory} :
       /\ IF row = NoHistory THEN mint_history = {} ELSE IsLast(row)
       /\ lastSignatureHistory' = [lastSignatureHistory EXCEPT ![r] = row]
  /\ pc' = [pc EXCEPT ![r] = "found"]
  /\ UNCHANGED <<now, bought, minted, mint_history, caches, verify, look, chain, dueDate,
                 signed, faults, restarts, held, extends, mintedBefore, again>>

IsLive(h) == h.due > now

(* With the answer of fetchLast in hand the clock is read: the row decides the
   due date and the network of the result, if it is live by then. *)
Found(r, due, network) ==
  LET last == lastSignatureHistory[r] IN
  /\ pc[r] = "found"
  /\ IF IsLive(last) THEN due = last.due /\ network = last.network
                     ELSE due = 0 /\ network = chain[r]
-----------------------------------------------------------------------------
(* The requests *)

(* SignAggregatedMintUseCase.execute and FetchAggregatedSignatureUseCase *)
Receive(r) ==
  /\ pc[r] = "new"
  /\ chain' = [chain EXCEPT ![r] = Ask[r].network]
  /\ held'  = [held EXCEPT ![r] = {s.due : s \in signed}]
  /\ Begin(r, IF Ask[r].kind = "fetch" THEN "fetch" ELSE "first")
  /\ UNCHANGED <<now, bought, minted, mint_history, caches, dueDate, signed, faults,
                 restarts, extends, again>>

(* A GET goes on for the network of a live permission, or has no answer. *)
Fetched(r, due, network) ==
  /\ look[r] = "fetch" /\ Found(r, due, network)
  /\ IF due = 0
     THEN End(r)
     ELSE /\ Begin(r, "first")
          /\ chain' = [chain EXCEPT ![r] = network]
          /\ UNCHANGED <<dueDate, held, extends, again>>
  /\ UNCHANGED <<now, bought, minted, mint_history, caches, signed, faults, restarts>>

Refused_Again(r, due, network) ==
  /\ look[r] = "first" /\ Found(r, due, network)
  /\ ~isVerified[r]
  /\ Begin(r, "first")
  /\ again' = [again EXCEPT ![r] = TRUE]
  /\ UNCHANGED <<now, bought, minted, mint_history, caches, chain, dueDate, signed,
                 faults, restarts, held, extends>>

(* A wallet that is not verified is recorded and refused. *)
Refused(r, due, network) ==
  /\ look[r] = "first" /\ Found(r, due, network)
  /\ ~isVerified[r]
  /\ End(r)
  /\ UNCHANGED <<now, bought, minted, mint_history, caches, signed, faults, restarts>>

DueDate_Renewed(due) == now + Expiration

DueDate_Elapsed(due) == IF due = 0 THEN now - Expiration ELSE due

(* verifyResult.dueDate ?? new Date(Date.now() + signatureExpiration) *)
DueDate(due) == IF due = 0 THEN now + Expiration ELSE due

Verified(r, due, network) ==
  /\ look[r] = "first" /\ Found(r, due, network)
  /\ isVerified[r]
  /\ dueDate' = [dueDate EXCEPT ![r] = DueDate(due)]
  /\ extends' = [extends EXCEPT ![r] = DueDate(due) # due /\ \E d \in held[r] : d > now]
  /\ lastSignatureHistory' = [lastSignatureHistory EXCEPT ![r] = NoHistory]
  /\ pc' = [pc EXCEPT ![r] = "insert"]
  /\ UNCHANGED <<now, bought, minted, mint_history, caches, verify, look, chain, signed,
                 faults, restarts, held, mintedBefore, again>>

Row(r) == [due |-> dueDate[r], network |-> chain[r]]

(* The permission is recorded for the network of the request, and the
   wallet is verified again. *)
Insert(r) ==
  /\ pc[r] = "insert"
  /\ mint_history' = mint_history \cup {Row(r)}
  /\ Begin(r, "second")
  /\ UNCHANGED <<now, bought, minted, caches, chain, dueDate, signed, faults, restarts,
                 held, extends, again>>

(* No longer verified: execute calls itself. *)
Again(r, due, network) ==
  /\ look[r] = "second" /\ Found(r, due, network)
  /\ ~isVerified[r]
  /\ Begin(r, "first")
  /\ again' = [again EXCEPT ![r] = TRUE]
  /\ UNCHANGED <<now, bought, minted, mint_history, caches, chain, dueDate, signed,
                 faults, restarts, held, extends>>

(* Signed with the type of the layer of the request, for the network of the
   last verification. *)
Sign(r, due, network) ==
  /\ look[r] = "second" /\ Found(r, due, network)
  /\ isVerified[r]
  /\ signed' = signed \cup
       {[asked |-> chain[r], network |-> network, due |-> dueDate[r],
         extends |-> extends[r], afterMint |-> mintedBefore[r]]}
  /\ End(r)
  /\ UNCHANGED <<now, bought, minted, mint_history, caches, faults, restarts>>

(* A call fails: the controller answers with an error. *)
RequestFails(r) ==
  /\ pc[r] \in AllFaultKinds
  /\ Fails(pc[r])
  /\ End(r)
  /\ UNCHANGED <<now, bought, minted, mint_history, caches, signed, restarts>>

(* A process stops, with its requests and caches, and starts. *)
Restart(p) ==
  /\ restarts < MaxRestarts
  /\ restarts' = restarts + 1
  /\ cachedHasPreSaleEvents' = [cachedHasPreSaleEvents EXCEPT ![p] = FALSE]
  /\ cachedAlreadyMinted'    = [cachedAlreadyMinted EXCEPT ![p] = "unknown"]
  /\ Forget({r \in Requests : ProcOf[r] = p /\ pc[r] # "new"})
  /\ UNCHANGED <<now, bought, minted, mint_history, signed, faults>>
-----------------------------------------------------------------------------
Init ==
  /\ now = 0
  /\ bought = FALSE
  /\ minted = {}
  /\ mint_history = {}
  /\ cachedHasPreSaleEvents = [p \in Procs |-> FALSE]
  /\ cachedAlreadyMinted    = [p \in Procs |-> "unknown"]
  /\ pc           = [r \in Requests |-> "new"]
  /\ look         = [r \in Requests |-> "first"]
  /\ chain        = [r \in Requests |-> NoNetwork]
  /\ hasEvents    = [r \in Requests |-> FALSE]
  /\ asked        = [r \in Requests |-> FALSE]
  /\ isVerified   = [r \in Requests |-> FALSE]
  /\ lastSignatureHistory = [r \in Requests |-> NoHistory]
  /\ dueDate      = [r \in Requests |-> 0]
  /\ signed       = {}
  /\ faults       = MaxFaults
  /\ restarts     = 0
  /\ held         = [r \in Requests |-> {}]
  /\ extends      = [r \in Requests |-> FALSE]
  /\ mintedBefore = [r \in Requests |-> FALSE]
  /\ again        = [r \in Requests |-> FALSE]

Dues == {0} \cup {h.due : h \in mint_history}

Answer(r) ==
  \/ PreSaleEvents(r)
  \/ \E hasMinted \in BOOLEAN : Eligibility(r, hasMinted)
  \/ FetchLast(r)
  \/ \E due \in Dues, n \in Networks : \/ Fetched(r, due, n)
                                       \/ Refused(r, due, n)
                                       \/ Verified(r, due, n)
                                       \/ Again(r, due, n)
                                       \/ Sign(r, due, n)
  \/ Insert(r)

Next ==
  \/ Tick
  \/ Buy
  \/ \E s \in signed : Mint(s)
  \/ \E r \in Requests : Receive(r) \/ Answer(r) \/ RequestFails(r)
  \/ \E p \in Procs : Restart(p)

Spec == Init /\ [][Next]_vars
-----------------------------------------------------------------------------
(* Properties *)

Permissions == [due : Nat, network : Networks]

Signatures ==
  [asked : Networks, network : Networks, due : Nat, extends : BOOLEAN, afterMint : BOOLEAN]

TypeOK ==
  /\ now \in 0..MaxTime
  /\ bought \in BOOLEAN
  /\ minted \subseteq Networks
  /\ mint_history \subseteq Permissions
  /\ cachedHasPreSaleEvents \in [Procs -> BOOLEAN]
  /\ cachedAlreadyMinted \in [Procs -> {"unknown", "yes", "no"}]
  /\ pc \in [Requests -> {"new", "events", "badges", "last", "found", "insert", "done"}]
  /\ look \in [Requests -> {"fetch", "first", "second"}]
  /\ chain \in [Requests -> Networks \cup {NoNetwork}]
  /\ hasEvents \in [Requests -> BOOLEAN]
  /\ asked \in [Requests -> BOOLEAN]
  /\ isVerified \in [Requests -> BOOLEAN]
  /\ lastSignatureHistory \in [Requests -> Permissions \cup {NoHistory}]
  /\ dueDate \in [Requests -> Nat]
  /\ signed \subseteq Signatures
  /\ faults \in Nat
  /\ restarts \in Nat
  /\ held \in [Requests -> SUBSET Nat]
  /\ extends \in [Requests -> BOOLEAN]
  /\ mintedBefore \in [Requests -> BOOLEAN]
  /\ again \in [Requests -> BOOLEAN]

(* A signature is recorded before it is handed out, under its own due date
   and the network it was asked for; and the network it is signed for has a
   row that does not fall due before it. *)
SignatureRecorded ==
  \A s \in signed :
    /\ [due |-> s.due, network |-> s.asked] \in mint_history
    /\ \E h \in mint_history : h.network = s.network /\ h.due >= s.due

(* A request chooses a due date of its own only when every signature that
   was handed out before it began has expired: asking again never extends a
   permission. *)
NotExtended == \A s \in signed : ~s.extends

(* A badge that was minted when the last verification began is not signed
   for again, whatever older answers have put in the caches. *)
NotSignedAfterMint == \A s \in signed : ~s.afterMint

(* execute calls itself at most once: a request that was verified, recorded
   and then not verified is refused, whatever the caches hold meanwhile. *)
CallsItselfOnce == \A r \in Requests : again[r] => pc[r] # "insert" /\ look[r] # "second"
=============================================================================
