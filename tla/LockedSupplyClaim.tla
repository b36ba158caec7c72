-------------------------- MODULE LockedSupplyClaim --------------------------
(***************************************************************************)
(* The claim of locked tokens (claim-locked-supply.usecase.ts).  The owner *)
(* of an e-mail address asks for a challenge and gets a one-time code by   *)
(* mail; who sends the code back with a wallet gets the server's           *)
(* signatures, with which the wallet claims the tokens from the contract.  *)
(* The import of claims (module ClaimImport) sets the orders' last status  *)
(* and appears here with its writes only.                                  *)
(*                                                                         *)
(* Requests run concurrently in one process.  Each is a sequence of        *)
(* statements and network calls on orders it read at its start.  Attempts  *)
(* that fail are counted, and IPs banned, in memory.                       *)
(*                                                                         *)
(* Addresses are lower-cased, and codes hashed together with their         *)
(* address, before they are compared: a code belongs to one address.       *)
(***************************************************************************)
EXTENDS Integers, FiniteSets

CONSTANTS
  Requests,      (* slots for requests that are served at the same time     *)
  Orders,        (* locked orders with identifierType 'EA'                  *)
  Emails,
  OwnerOf,       (* the e-mail address of an order                          *)
  Ips,
  Wallets,
  Codes,         (* one-time codes createOTP may draw                       *)
  NoCode, NoOrder,
  BanThreshold,  (* IP_BAN_THRESHOLD                                        *)
  MaxFaults,     (* bound: failed calls                                     *)
  MaxRestarts    (* bound: process restarts                                 *)

ASSUME ClaimAssumption ==
  /\ IsFiniteSet(Requests)
  /\ OwnerOf \in [Orders -> Emails]
  /\ NoCode \notin Codes
  /\ NoOrder \notin Orders
  /\ BanThreshold \in Nat
  /\ MaxFaults \in Nat
  /\ MaxRestarts \in Nat

VARIABLES
  (* database *)
  status,     (* "order".status                                             *)
  claimRow,   (* orders with a claim row                                    *)
  issuedTo,   (* the address of a code's challenge row                      *)
  active,     (* codes whose challenge is neither deactivated nor expired   *)
  answered,   (* codes with an answer row                                   *)
  (* world *)
  mailed,     (* codes sent to their address                                *)
  handed,     (* signatures handed out: order, code of the answer, wallet   *)
  claimed,    (* orders claimed on the chain                                *)
  (* memory *)
  request,    (* what a slot is serving                                     *)
  errorAttempts, banlist,
  importing,  (* the order the import has inserted the claim row of         *)
  (* budgets *)
  faults, restarts

challenges == <<issuedTo, active, answered>>
world  == <<mailed, handed, claimed>>
bans   == <<errorAttempts, banlist>>
import == <<claimRow, importing>>
budget == <<faults, restarts>>
vars   == <<status, challenges, world, request, bans, import, budget>>

Idle == [pc |-> "idle"]

Goto(r, to) == request' = [request EXCEPT ![r].pc = to]

Finish(r) == request' = [request EXCEPT ![r] = Idle]

(* The next order of a loop is done; with the last one the loop ends. *)
Done(r, o, after) ==
  request' = [request EXCEPT ![r].todo = @ \ {o},
                             ![r].pc   = IF request[r].todo = {o} THEN after ELSE @]

OrdersOf_AnyAddress(e, statuses) ==
  {o \in Orders : o \notin claimRow /\ status[o] \in statuses}

(* fetchLockedAndNotClaimedInStatus and filterByEmail *)
OrdersOf(e, statuses) ==
  {o \in Orders : OwnerOf[o] = e /\ o \notin claimRow /\ status[o] \in statuses}

(* PersistableChallengeDbAdapter.deactivate *)
Deactivate(e) == active' = {c \in active : issuedTo[c] # e}

ReportFailure_BansAddress(r) ==
  LET i == request[r].ip IN
  /\ errorAttempts' = [errorAttempts EXCEPT ![i] = @ + 1]
  /\ \/ /\ errorAttempts[i] + 1 > BanThreshold
        /\ banlist' = banlist \cup {request[r].email}
        /\ Goto(r, "ban")
     \/ /\ errorAttempts[i] + 1 <= BanThreshold
        /\ UNCHANGED banlist
        /\ Finish(r)

(* The body of reportFailure up to its await: one attempt more for the IP,
   which is banned when there are too many.  Nobody awaits the rest. *)
ReportFailure(r) ==
  LET i == request[r].ip IN
  /\ errorAttempts' = [errorAttempts EXCEPT ![i] = @ + 1]
  /\ \/ /\ errorAttempts[i] + 1 > BanThreshold
        /\ banlist' = banlist \cup {i}
        /\ Goto(r, "ban")
     \/ /\ errorAttempts[i] + 1 <= BanThreshold
        /\ UNCHANGED banlist
        /\ Finish(r)
-----------------------------------------------------------------------------
(* PUT /purchases/supply/claim: executeChallenge *)

PutClaim_EvenBanned(r, i, e) ==
  /\ request[r] = Idle
  /\ request' = [request EXCEPT ![r] =
       [pc |-> "challenge", ip |-> i, email |-> e, code |-> NoCode, todo |-> {}]]
  /\ UNCHANGED <<status, challenges, world, bans, import, budget>>

PutClaim(r, i, e) ==
  /\ request[r] = Idle
  /\ i \notin banlist
  /\ request' = [request EXCEPT ![r] =
       [pc |-> "challenge", ip |-> i, email |-> e, code |-> NoCode, todo |-> {}]]
  /\ UNCHANGED <<status, challenges, world, bans, import, budget>>

ChallengeRead(r) ==
  LET orders == OrdersOf(request[r].email, {"Locked", "Challenged", "Owned"}) IN
  /\ request[r].pc = "challenge"
  /\ \/ orders = {} /\ ReportFailure(r)
     \/ /\ orders # {}
        /\ request' = [request EXCEPT ![r].pc = "deactivate", ![r].todo = orders]
        /\ UNCHANGED bans
  /\ UNCHANGED <<status, challenges, world, import, budget>>

ChallengeDeactivate(r) ==
  /\ request[r].pc = "deactivate"
  /\ Deactivate(request[r].email)
  /\ Goto(r, "create")
  /\ UNCHANGED <<status, issuedTo, answered, world, bans, import, budget>>

ChallengeCreate(r, c) ==
  /\ request[r].pc = "create"
  /\ c \notin DOMAIN issuedTo
  /\ issuedTo' = [x \in DOMAIN issuedTo \cup {c} |->
                    IF x = c THEN request[r].email ELSE issuedTo[x]]
  /\ active'   = active \cup {c}
  /\ request'  = [request EXCEPT ![r].pc = "mark", ![r].code = c]
  /\ UNCHANGED <<status, answered, world, bans, import, budget>>

ChallengeMark(r, o) ==
  /\ request[r].pc = "mark" /\ o \in request[r].todo
  /\ status' = [status EXCEPT ![o] = "Challenged"]
  /\ Done(r, o, "mail")
  /\ UNCHANGED <<challenges, world, bans, import, budget>>

ChallengeMail(r) ==
  /\ request[r].pc = "mail"
  /\ mailed' = mailed \cup {request[r].code}
  /\ Finish(r)
  /\ UNCHANGED <<status, challenges, handed, claimed, bans, import, budget>>
-----------------------------------------------------------------------------
(* PATCH /purchases/supply/claim: validateAnswer *)

PatchClaim(r, i, e, c, w) ==
  /\ request[r] = Idle
  /\ i \notin banlist
  /\ request' = [request EXCEPT ![r] =
       [pc |-> "answer", ip |-> i, email |-> e, code |-> c, wallet |-> w,
        todo |-> {}, signed |-> {}]]
  /\ UNCHANGED <<status, challenges, world, bans, import, budget>>

AnswerRead(r) ==
  LET orders == OrdersOf(request[r].email, {"Challenged"}) IN
  /\ request[r].pc = "answer"
  /\ \/ orders = {} /\ ReportFailure(r)
     \/ /\ orders # {}
        /\ request' = [request EXCEPT ![r].pc = "sign", ![r].todo = orders]
        /\ UNCHANGED bans
  /\ UNCHANGED <<status, challenges, world, import, budget>>

(* trySignOrders, for one order: the signature is kept if the contract's gas
   estimate accepts it, which it does not for a claimed order. *)
AnswerSign(r, o) ==
  /\ request[r].pc = "sign" /\ o \in request[r].todo
  /\ \/ /\ o \notin claimed
        /\ request' = [request EXCEPT ![r].todo = @ \ {o}, ![r].signed = @ \cup {o}]
        /\ UNCHANGED faults
     \/ /\ request' = [request EXCEPT ![r].todo = @ \ {o}]
        /\ \/ o \in claimed /\ UNCHANGED faults
           \/ faults > 0 /\ faults' = faults - 1
  /\ UNCHANGED <<status, challenges, world, bans, import, restarts>>

AnswerSigned(r) ==
  /\ request[r].pc = "sign" /\ request[r].todo = {}
  /\ \/ request[r].signed = {} /\ ReportFailure(r)
     \/ request[r].signed # {} /\ Goto(r, "check") /\ UNCHANGED bans
  /\ UNCHANGED <<status, challenges, world, import, budget>>

AnswerCheck_SkipsRecord(r) ==
  LET found == /\ request[r].code \in active
               /\ issuedTo[request[r].code] = request[r].email
  IN
  /\ request[r].pc = "check"
  /\ \/ ~found /\ ReportFailure(r)
     \/ /\ found
        /\ request' = [request EXCEPT ![r].pc = "own", ![r].todo = request[r].signed]
        /\ UNCHANGED bans
  /\ UNCHANGED <<status, challenges, world, import, budget>>

(* FetchableChallengeDbAdapter.fetch: the challenge of this code and address *)
AnswerCheck(r) ==
  LET found == /\ request[r].code \in active
               /\ issuedTo[request[r].code] = request[r].email
  IN
  /\ request[r].pc = "check"
  /\ \/ ~found /\ ReportFailure(r)
     \/ found /\ Goto(r, "record") /\ UNCHANGED bans
  /\ UNCHANGED <<status, challenges, world, import, budget>>

AnswerRecord_NotUnique(r) ==
  /\ request[r].pc = "record"
  /\ answered' = answered \cup {request[r].code}
  /\ request'  = [request EXCEPT ![r].pc = "own", ![r].todo = request[r].signed]
  /\ UNCHANGED <<status, issuedTo, active, world, bans, import, budget>>

(* PersistableAnswerDbAdapter.create: answer.verification_hash is unique. *)
AnswerRecord(r) ==
  /\ request[r].pc = "record"
  /\ request[r].code \notin answered
  /\ answered' = answered \cup {request[r].code}
  /\ request'  = [request EXCEPT ![r].pc = "own", ![r].todo = request[r].signed]
  /\ UNCHANGED <<status, issuedTo, active, world, bans, import, budget>>

AnswerOwn(r, o) ==
  /\ request[r].pc = "own" /\ o \in request[r].todo
  /\ status' = [status EXCEPT ![o] = "Owned"]
  /\ Done(r, o, "return")
  /\ UNCHANGED <<challenges, world, bans, import, budget>>

AnswerReturn(r) ==
  /\ request[r].pc = "return"
  /\ handed' = handed \cup {[order |-> o, code |-> request[r].code, wallet |-> request[r].wallet] :
                              o \in request[r].signed}
  /\ Finish(r)
  /\ UNCHANGED <<status, challenges, mailed, claimed, bans, import, budget>>
-----------------------------------------------------------------------------
(* A statement or the mail server fails, or the code has an answer already:
   the exception ends the request. *)
RequestFails(r) ==
  /\ \/ /\ request[r].pc \in {"challenge", "deactivate", "create", "mark", "mail",
                              "answer", "check", "record", "own"}
        /\ faults > 0 /\ faults' = faults - 1
     \/ /\ request[r].pc = "record" /\ request[r].code \in answered
        /\ UNCHANGED faults
  /\ Finish(r)
  /\ UNCHANGED <<status, challenges, world, bans, import, restarts>>

(* The rest of reportFailure, when the response is sent already *)
BanDeactivate(r) ==
  /\ request[r].pc = "ban"
  /\ Deactivate(request[r].email)
  /\ Finish(r)
  /\ UNCHANGED <<status, issuedTo, answered, world, bans, import, budget>>

(* The process is replaced, or dies of the rejection that nobody handles when
   the deactivation after a ban fails. *)
Restart ==
  /\ \/ restarts < MaxRestarts /\ restarts' = restarts + 1 /\ UNCHANGED faults
     \/ /\ \E r \in Requests : request[r].pc = "ban"
        /\ faults > 0 /\ faults' = faults - 1 /\ UNCHANGED restarts
  /\ request'       = [r \in Requests |-> Idle]
  /\ errorAttempts' = [i \in Ips |-> 0]
  /\ banlist'       = {}
  /\ importing'     = NoOrder
  /\ UNCHANGED <<status, claimRow, challenges, world>>

(* Three days pass for a challenge. *)
Expire(c) ==
  /\ c \in active
  /\ active' = active \ {c}
  /\ UNCHANGED <<status, issuedTo, answered, world, request, bans, import, budget>>

(* A wallet uses its signature; the contract accepts a reference once. *)
ClaimOnChain(o) ==
  /\ o \notin claimed
  /\ \E h \in handed : h.order = o
  /\ claimed' = claimed \cup {o}
  /\ UNCHANGED <<status, challenges, mailed, handed, request, bans, import, budget>>

(* The import of a claim: its rows, and then the status *)
ImportRows(o) ==
  /\ importing = NoOrder
  /\ o \in claimed \ claimRow
  /\ claimRow'  = claimRow \cup {o}
  /\ importing' = o
  /\ UNCHANGED <<status, challenges, world, request, bans, budget>>

ImportStatus ==
  /\ importing # NoOrder
  /\ status'    = [status EXCEPT ![importing] = "Claimed"]
  /\ importing' = NoOrder
  /\ UNCHANGED <<challenges, world, request, bans, claimRow, budget>>

Init ==
  /\ status   = [o \in Orders |-> "Locked"]
  /\ claimRow = {}
  /\ issuedTo = [c \in {} |-> NoCode]
  /\ active   = {}
  /\ answered = {}
  /\ mailed   = {}
  /\ handed   = {}
  /\ claimed  = {}
  /\ request  = [r \in Requests |-> Idle]
  /\ errorAttempts = [i \in Ips |-> 0]
  /\ banlist   = {}
  /\ importing = NoOrder
  /\ faults    = MaxFaults
  /\ restarts  = 0

Challenging(r) ==
  \/ \E i \in Ips, e \in Emails : PutClaim(r, i, e)
  \/ ChallengeRead(r)
  \/ ChallengeDeactivate(r)
  \/ \E c \in Codes : ChallengeCreate(r, c)
  \/ \E o \in Orders : ChallengeMark(r, o)
  \/ ChallengeMail(r)

Answering(r) ==
  \/ \E i \in Ips, e \in Emails, c \in Codes, w \in Wallets : PatchClaim(r, i, e, c, w)
  \/ AnswerRead(r)
  \/ \E o \in Orders : AnswerSign(r, o)
  \/ AnswerSigned(r)
  \/ AnswerCheck(r)
  \/ AnswerRecord(r)
  \/ \E o \in Orders : AnswerOwn(r, o)
  \/ AnswerReturn(r)

Next ==
  \/ \E r \in Requests : Challenging(r) \/ Answering(r) \/ RequestFails(r) \/ BanDeactivate(r)
  \/ Restart
  \/ \E c \in Codes : Expire(c)
  \/ \E o \in Orders : ClaimOnChain(o) \/ ImportRows(o)
  \/ ImportStatus

Spec == Init /\ [][Next]_vars
-----------------------------------------------------------------------------
(* Properties *)

ChallengePcs == {"challenge", "deactivate", "create", "mark", "mail", "ban"}

AnswerPcs == {"answer", "sign", "check", "record", "own", "return", "ban"}

ChallengeRequest ==
  [pc : ChallengePcs, ip : Ips, email : Emails, code : Codes \cup {NoCode},
   todo : SUBSET Orders]

AnswerRequest ==
  [pc : AnswerPcs, ip : Ips, email : Emails, code : Codes, wallet : Wallets,
   todo : SUBSET Orders, signed : SUBSET Orders]

Signatures == [order : Orders, code : Codes, wallet : Wallets]

TypeOK ==
  /\ status   \in [Orders -> {"Locked", "Challenged", "Owned", "Claimed"}]
  /\ claimRow \subseteq Orders
  /\ DOMAIN issuedTo \subseteq Codes
  /\ issuedTo \in [DOMAIN issuedTo -> Emails]
  /\ active   \subseteq Codes
  /\ answered \subseteq Codes
  /\ mailed   \subseteq Codes
  /\ handed   \subseteq Signatures
  /\ claimed  \subseteq Orders
  /\ request  \in [Requests -> {Idle} \cup ChallengeRequest \cup AnswerRequest]
  /\ errorAttempts \in [Ips -> Nat]
  /\ banlist   \subseteq Ips
  /\ importing \in Orders \cup {NoOrder}
  /\ faults    \in Nat
  /\ restarts  \in Nat

(* A signature for an order was handed out for the code of a challenge of
   that order's owner, and the code is used up. *)
HandedToOwner ==
  \A h \in handed : /\ h.code \in answered
                    /\ issuedTo[h.code] = OwnerOf[h.order]

(* A code buys the signatures of one wallet, though requests with the same
   code and different wallets may all have found its challenge active. *)
OneWalletPerCode ==
  \A g, h \in handed : g.code = h.code => g.wallet = h.wallet

(* The statuses tell where an order's owner is, whichever request wrote them
   last: Challenged if there is a challenge to answer for, Owned if one was
   answered, and never Locked when the tokens are claimed, which the import
   would report as "claimed without answering the challenge"
   (reconcile-delegate-signature-claim.usecase.ts:69-73). *)
StatusHasChallenge ==
  \A o \in Orders :
    LET codes == {c \in DOMAIN issuedTo : issuedTo[c] = OwnerOf[o]} IN
    /\ status[o] = "Challenged" => codes # {}
    /\ status[o] = "Owned" => codes \cap answered # {}
    /\ o \in claimed => status[o] # "Locked"

(* An IP gets no further than the threshold and the requests it already had
   under way when it was banned. *)
AttemptsBounded ==
  \A i \in Ips : errorAttempts[i] <= BanThreshold + Cardinality(Requests)
=============================================================================
