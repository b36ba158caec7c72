----------------------- MODULE LockedSupplyClaim_proofs -----------------------
(***************************************************************************)
(* Proofs about module LockedSupplyClaim, for any number of requests,      *)
(* orders, addresses, codes and wallets.                                   *)
(*                                                                         *)
(* The argument: the answer row of a code is inserted once, so one request *)
(* owns the code from then on, and what it goes on to hand out are orders  *)
(* of the address that it found the code's challenge under.                *)
(***************************************************************************)
EXTENDS LockedSupplyClaim, FiniteSetTheorems, TLAPS

(* Steps of a request that has inserted the answer row of its code *)
Owning == {"own", "return"}

(* What a request in progress knows, whatever others do meanwhile *)
Knows(x) ==
  /\ x.pc \in {"mark", "mail", "record", "own", "return"} =>
       x.code \in DOMAIN issuedTo /\ issuedTo[x.code] = x.email
  /\ x.pc \in Owning => x.code \in answered
  /\ x # Idle => \A o \in x.todo : OwnerOf[o] = x.email
  /\ x \in AnswerRequest =>
       \A o \in x.signed :
         /\ OwnerOf[o] = x.email
         /\ x.pc = "return" \/ (x.pc = "own" /\ o \notin x.todo) => status[o] # "Locked"

RequestsKnow == \A r \in Requests : Knows(request[r])

(* A code with an answer row has one owner, and none once it was used. *)
OneOwner ==
  /\ \A q, r \in Requests :
       q # r /\ request[q].pc \in Owning /\ request[r].pc \in Owning
         => request[q].code # request[r].code
  /\ \A h \in handed, r \in Requests :
       request[r].pc \in Owning => request[r].code # h.code

ChallengesExist ==
  /\ active \subseteq DOMAIN issuedTo
  /\ answered \subseteq DOMAIN issuedTo

(* Handed orders have left the status Locked, and only they are claimed. *)
HandedNotLocked ==
  /\ \A h \in handed : status[h.order] # "Locked"
  /\ \A o \in claimed : \E h \in handed : h.order = o

Kept ==
  /\ RequestsKnow
  /\ OneOwner
  /\ ChallengesExist
  /\ HandedToOwner
  /\ OneWalletPerCode
  /\ StatusHasChallenge
  /\ HandedNotLocked

IInv == TypeOK /\ Kept

Record == {Idle} \cup ChallengeRequest \cup AnswerRequest
-----------------------------------------------------------------------------
(* Memory *)

(* A request that moves without taking a code's ownership, and whatever it
   now holds it knows, disturbs nothing while the rows stay. *)
LEMMA SlotMoves ==
  ASSUME IInv, NEW r \in Requests, NEW x \in Record, Knows(x),
         x.pc \in Owning => request[r].pc \in Owning /\ request[r].code = x.code,
         request' = [request EXCEPT ![r] = x],
         UNCHANGED <<status, issuedTo, answered, handed, claimed>>,
         active' \subseteq active
  PROVE  request' \in [Requests -> Record] /\ Kept'
<1>1. request \in [Requests -> Record]
  BY DEF IInv, TypeOK, Record
<1>2. request' \in [Requests -> Record]
  BY <1>1
<1>3. request'[r] = x /\ \A q \in Requests \ {r} : request'[q] = request[q]
  BY <1>1
<1>4. RequestsKnow'
  <2>1. SUFFICES ASSUME NEW q \in Requests PROVE Knows(request[q])'
    BY DEF RequestsKnow
  <2>2. CASE q = r
    BY <1>3, <2>2 DEF Knows
  <2>3. CASE q # r
    BY <1>3, <2>3 DEF Knows, IInv, Kept, RequestsKnow
  <2>. QED  BY <2>2, <2>3
<1>5. OneOwner'
  BY <1>3 DEF IInv, Kept, OneOwner
<1>. QED
  BY <1>2, <1>4, <1>5 DEF IInv, Kept, ChallengesExist, HandedToOwner, OneWalletPerCode,
     StatusHasChallenge, HandedNotLocked

(* The record of a request is of its kind. *)
LEMMA Kinds ==
  ASSUME TypeOK, NEW r \in Requests
  PROVE  /\ request[r] \in Record
         /\ request[r].pc \in ChallengePcs \ {"ban"} => request[r] \in ChallengeRequest
         /\ request[r].pc \in AnswerPcs \ {"ban"} => request[r] \in AnswerRequest
         /\ request[r].pc = "ban" => request[r] # Idle
BY DEF TypeOK, Record, Idle, ChallengeRequest, AnswerRequest, ChallengePcs, AnswerPcs

(* A request that ends forgets what it knew. *)
LEMMA Finished ==
  Idle \in Record /\ Knows(Idle) /\ Idle.pc \notin Owning
BY DEF Idle, Record, Knows, Owning, AnswerRequest, AnswerPcs

(* Reporting a failure moves counters and ends the request, or leaves it to
   deactivate codes. *)
LEMMA Reported ==
  ASSUME IInv, NEW r \in Requests, request[r] # Idle, ReportFailure(r),
         UNCHANGED <<status, issuedTo, active, answered, handed, claimed>>
  PROVE  /\ errorAttempts' \in [Ips -> Nat]
         /\ banlist' \subseteq Ips
         /\ request' \in [Requests -> Record]
         /\ Kept'
<1>1. request[r] \in ChallengeRequest \cup AnswerRequest
  BY DEF IInv, TypeOK
<1>2. request[r].ip \in Ips
  BY <1>1 DEF ChallengeRequest, AnswerRequest
<1>3. errorAttempts' \in [Ips -> Nat] /\ banlist' \subseteq Ips
  BY <1>2 DEF IInv, TypeOK, ReportFailure
<1>4. CASE Finish(r)
  BY <1>4, SlotMoves, Finished, <1>3 DEF Finish
<1>5. CASE Goto(r, "ban")
  <2>. DEFINE x == [request[r] EXCEPT !.pc = "ban"]
  <2>1. x \in ChallengeRequest \cup AnswerRequest
    BY <1>1 DEF ChallengeRequest, AnswerRequest, ChallengePcs, AnswerPcs
  <2>2. Knows(x)
    <3>1. x.pc = "ban" /\ x.todo = request[r].todo /\ x.email = request[r].email
      BY <1>1 DEF ChallengeRequest, AnswerRequest
    <3>2. x \in AnswerRequest => request[r] \in AnswerRequest /\ x.signed = request[r].signed
      BY <1>1 DEF ChallengeRequest, AnswerRequest, AnswerPcs
    <3>. QED  BY <3>1, <3>2 DEF IInv, Kept, RequestsKnow, Knows, Owning
  <2>3. request' = [request EXCEPT ![r] = x]
    BY <1>5 DEF Goto
  <2>4. x.pc \notin Owning
    BY <1>1 DEF Owning, ChallengeRequest, AnswerRequest
  <2>. HIDE DEF x
  <2>. QED  BY <1>3, <2>1, <2>2, <2>3, <2>4, SlotMoves DEF Record
<1>. QED  BY <1>4, <1>5 DEF ReportFailure
(* The orders in a request are orders, and what it knows survives a status
   that is written over, as nothing goes back to Locked. *)
LEMMA LeavesLocked ==
  ASSUME TypeOK, NEW q \in Requests, Knows(request[q]),
         request'[q] = request[q],
         UNCHANGED <<issuedTo, answered>>,
         \A o \in Orders : status[o] # "Locked" => status'[o] # "Locked"
  PROVE  Knows(request[q])'
<1>1. request[q] \in AnswerRequest => request[q].signed \subseteq Orders
  BY DEF AnswerRequest
<1>. QED  BY <1>1 DEF Knows

LEMMA HandedOrders ==
  ASSUME TypeOK
  PROVE  \A h \in handed : h.order \in Orders /\ h.code \in Codes /\ h.wallet \in Wallets
BY DEF TypeOK, Signatures
-----------------------------------------------------------------------------
(* The steps of a challenge *)

LEMMA ChallengingKeeps ==
  ASSUME IInv, NEW r \in Requests, Challenging(r)
  PROVE  TypeOK' /\ Kept'
<1>. USE DEF IInv
<1>0. /\ request[r] \in Record
      /\ request[r].pc \in ChallengePcs \ {"ban"} => request[r] \in ChallengeRequest
  BY Kinds
<1>1. ASSUME NEW i \in Ips, NEW e \in Emails, PutClaim(r, i, e)
      PROVE  TypeOK' /\ Kept'
  <2>. DEFINE x == [pc |-> "challenge", ip |-> i, email |-> e, code |-> NoCode, todo |-> {}]
  <2>1. x \in Record /\ x \notin AnswerRequest
    BY DEF Record, ChallengeRequest, ChallengePcs, AnswerRequest, AnswerPcs
  <2>2. Knows(x) /\ x.pc \notin Owning
    BY <2>1 DEF Knows, Owning
  <2>3. request' = [request EXCEPT ![r] = x]
    BY <1>1 DEF PutClaim
  <2>. HIDE DEF x
  <2>4. request' \in [Requests -> Record] /\ Kept'
    BY <1>1, <2>1, <2>2, <2>3, SlotMoves DEF PutClaim, challenges, world
  <2>. QED  BY <1>1, <2>4 DEF PutClaim, TypeOK, Record, challenges, world, bans, import, budget
<1>2. ASSUME ChallengeRead(r) PROVE TypeOK' /\ Kept'
  <2>. DEFINE orders == OrdersOf(request[r].email, {"Locked", "Challenged", "Owned"})
              x == [request[r] EXCEPT !.pc = "deactivate", !.todo = orders]
  <2>0. request[r] \in ChallengeRequest /\ request[r] # Idle
    BY <1>0, <1>2 DEF ChallengeRead, ChallengePcs, Idle
  <2>1. CASE ReportFailure(r)
    <3>1. /\ errorAttempts' \in [Ips -> Nat]
          /\ banlist' \subseteq Ips
          /\ request' \in [Requests -> Record]
          /\ Kept'
      BY <1>2, <2>0, <2>1, Reported DEF ChallengeRead, challenges, world
    <3>. QED  BY <1>2, <3>1 DEF ChallengeRead, TypeOK, Record, challenges, world, import, budget
  <2>2. CASE request' = [request EXCEPT ![r] = x] /\ UNCHANGED bans
    <3>1. /\ x \in ChallengeRequest /\ x.pc = "deactivate"
          /\ x.todo = orders /\ x.email = request[r].email
      BY <2>0 DEF ChallengeRequest, ChallengePcs, OrdersOf
    <3>2. x \notin AnswerRequest
      BY <3>1 DEF AnswerRequest, AnswerPcs
    <3>3. Knows(x) /\ x.pc \notin Owning
      BY <3>1, <3>2 DEF Knows, Owning, OrdersOf
    <3>. HIDE DEF x
    <3>4. request' \in [Requests -> Record] /\ Kept'
      BY <1>2, <2>2, <3>1, <3>3, SlotMoves DEF ChallengeRead, challenges, world, Record
    <3>. QED
      BY <1>2, <2>2, <3>4 DEF ChallengeRead, TypeOK, Record, challenges, world, bans, import, budget
  <2>. QED  BY <1>2, <2>1, <2>2 DEF ChallengeRead
<1>3. ASSUME ChallengeDeactivate(r) PROVE TypeOK' /\ Kept'
  <2>. DEFINE x == [request[r] EXCEPT !.pc = "create"]
  <2>1. request[r] \in ChallengeRequest
    BY <1>0, <1>3 DEF ChallengeDeactivate, ChallengePcs
  <2>2. /\ x \in ChallengeRequest /\ x \notin AnswerRequest /\ x.pc = "create"
        /\ x.todo = request[r].todo /\ x.email = request[r].email
    BY <2>1 DEF ChallengeRequest, ChallengePcs, AnswerRequest, AnswerPcs
  <2>3. request[r] # Idle
    BY <1>3 DEF ChallengeDeactivate, Idle
  <2>4. Knows(x) /\ x.pc \notin Owning
    BY <2>2, <2>3 DEF Knows, Owning, Kept, RequestsKnow
  <2>5. request' = [request EXCEPT ![r] = x]
    BY <1>3 DEF ChallengeDeactivate, Goto
  <2>. HIDE DEF x
  <2>6. active' \subseteq active
    BY <1>3 DEF ChallengeDeactivate, Deactivate
  <2>7. request' \in [Requests -> Record] /\ Kept'
    BY <1>3, <2>2, <2>4, <2>5, <2>6, SlotMoves DEF ChallengeDeactivate, world, Record
  <2>. QED  BY <1>3, <2>6, <2>7 DEF ChallengeDeactivate, TypeOK, Record, world, bans, import, budget
<1>4. ASSUME NEW c \in Codes, ChallengeCreate(r, c) PROVE TypeOK' /\ Kept'
  <2>. DEFINE x == [request[r] EXCEPT !.pc = "mark", !.code = c]
  <2>1. request[r] \in ChallengeRequest /\ request[r] # Idle
    BY <1>0, <1>4 DEF ChallengeCreate, ChallengePcs, Idle
  <2>2. /\ x \in ChallengeRequest /\ x \notin AnswerRequest /\ x.pc = "mark" /\ x.code = c
        /\ x.todo = request[r].todo /\ x.email = request[r].email /\ x.email \in Emails
    BY <2>1 DEF ChallengeRequest, ChallengePcs, AnswerRequest, AnswerPcs
  <2>3. /\ request' \in [Requests -> Record] /\ request'[r] = x
        /\ \A q \in Requests \ {r} : request'[q] = request[q]
    <3>1. request' = [request EXCEPT ![r] = x]
      BY <1>4 DEF ChallengeCreate
    <3>. HIDE DEF x
    <3>. QED  BY <3>1, <2>2 DEF TypeOK, Record
  <2>. HIDE DEF x
  <2>4. /\ c \notin DOMAIN issuedTo /\ DOMAIN issuedTo' = DOMAIN issuedTo \cup {c}
        /\ issuedTo'[c] = x.email
        /\ \A d \in DOMAIN issuedTo : issuedTo'[d] = issuedTo[d]
        /\ issuedTo' \in [DOMAIN issuedTo' -> Emails]
    BY <1>4, <2>2 DEF ChallengeCreate, TypeOK
  <2>5. active' = active \cup {c} /\ UNCHANGED <<status, answered, handed, claimed>>
    BY <1>4 DEF ChallengeCreate, world
  <2>6. TypeOK'
    BY <1>4, <2>3, <2>4, <2>5 DEF ChallengeCreate, TypeOK, Record, world, bans, import, budget
  <2>7. RequestsKnow'
    <3>1. SUFFICES ASSUME NEW q \in Requests PROVE Knows(request[q])'
      BY DEF RequestsKnow
    <3>2. CASE q = r
      BY <2>1, <2>2, <2>3, <2>4, <3>2 DEF Knows, Owning, Kept, RequestsKnow
    <3>3. CASE q # r
      BY <2>3, <2>4, <2>5, <3>3 DEF Knows, Kept, RequestsKnow
    <3>. QED  BY <3>2, <3>3
  <2>8. OneOwner'
    BY <2>2, <2>3, <2>5 DEF Kept, OneOwner, Owning
  <2>9. ChallengesExist' /\ HandedToOwner' /\ OneWalletPerCode' /\ HandedNotLocked'
    BY <2>4, <2>5 DEF Kept, ChallengesExist, HandedToOwner, OneWalletPerCode, HandedNotLocked
  <2>10. StatusHasChallenge'
    BY <2>4, <2>5 DEF Kept, StatusHasChallenge
  <2>. QED  BY <2>6, <2>7, <2>8, <2>9, <2>10 DEF Kept
<1>5. ASSUME NEW o \in Orders, ChallengeMark(r, o) PROVE TypeOK' /\ Kept'
  <2>. DEFINE to == IF request[r].todo = {o} THEN "mail" ELSE request[r].pc
              x == [request[r] EXCEPT !.todo = @ \ {o}, !.pc = to]
  <2>1. request[r] \in ChallengeRequest /\ request[r] # Idle /\ request[r].pc = "mark"
    BY <1>0, <1>5 DEF ChallengeMark, ChallengePcs, Idle
  <2>2. /\ x \in ChallengeRequest /\ x \notin AnswerRequest /\ x.pc \in {"mark", "mail"}
        /\ x.code = request[r].code /\ x.todo \subseteq request[r].todo
        /\ x.email = request[r].email
    BY <2>1 DEF ChallengeRequest, ChallengePcs, AnswerRequest, AnswerPcs
  <2>3. /\ request' \in [Requests -> Record] /\ request'[r] = x
        /\ \A q \in Requests \ {r} : request'[q] = request[q]
    <3>1. request' = [request EXCEPT ![r] = x]
      BY <1>5 DEF ChallengeMark, Done
    <3>. HIDE DEF x
    <3>. QED  BY <3>1, <2>2 DEF TypeOK, Record
  <2>. HIDE DEF x
  <2>4. /\ status'[o] = "Challenged" /\ \A p \in Orders \ {o} : status'[p] = status[p]
        /\ status' \in [Orders -> {"Locked", "Challenged", "Owned", "Claimed"}]
        /\ UNCHANGED <<issuedTo, active, answered, handed, claimed>>
    BY <1>5 DEF ChallengeMark, TypeOK, challenges, world
  <2>5. /\ request[r].code \in DOMAIN issuedTo /\ issuedTo[request[r].code] = OwnerOf[o]
    BY <1>5, <2>1 DEF ChallengeMark, Kept, RequestsKnow, Knows
  <2>6. TypeOK'
    BY <1>5, <2>3, <2>4 DEF ChallengeMark, TypeOK, Record, challenges, world, bans, import, budget
  <2>7. RequestsKnow'
    <3>1. SUFFICES ASSUME NEW q \in Requests PROVE Knows(request[q])'
      BY DEF RequestsKnow
    <3>2. CASE q = r
      BY <2>1, <2>2, <2>3, <2>4, <3>2 DEF Knows, Owning, Kept, RequestsKnow
    <3>3. CASE q # r
      BY <2>3, <2>4, <3>3, LeavesLocked DEF Kept, RequestsKnow
    <3>. QED  BY <3>2, <3>3
  <2>8. OneOwner'
    BY <2>2, <2>3, <2>4 DEF Kept, OneOwner, Owning
  <2>9. ChallengesExist' /\ HandedToOwner' /\ OneWalletPerCode'
    BY <2>4 DEF Kept, ChallengesExist, HandedToOwner, OneWalletPerCode
  <2>10. HandedNotLocked'
    BY <2>4, HandedOrders DEF Kept, HandedNotLocked
  <2>11. StatusHasChallenge'
    BY <2>4, <2>5 DEF Kept, StatusHasChallenge
  <2>. QED  BY <2>6, <2>7, <2>8, <2>9, <2>10, <2>11 DEF Kept
<1>6. ASSUME ChallengeMail(r) PROVE TypeOK' /\ Kept'
  <2>1. request' \in [Requests -> Record] /\ Kept'
    BY <1>6, SlotMoves, Finished DEF ChallengeMail, Finish, challenges
  <2>2. request[r].code \in Codes
    BY <1>6 DEF ChallengeMail, Kept, RequestsKnow, Knows, TypeOK
  <2>. QED
    BY <1>6, <2>1, <2>2 DEF ChallengeMail, TypeOK, Record, challenges, bans, import, budget
<1>. QED  BY <1>1, <1>2, <1>3, <1>4, <1>5, <1>6 DEF Challenging
-----------------------------------------------------------------------------
(* The steps of an answer *)

(* A request that is not yet, or no longer, at its code's rows *)
LEMMA AnswerMoves ==
  ASSUME IInv, NEW r \in Requests, NEW x \in AnswerRequest,
         x.pc \in {"answer", "sign", "check"},
         \A o \in x.todo \cup x.signed : OwnerOf[o] = x.email,
         request' = [request EXCEPT ![r] = x],
         UNCHANGED <<status, challenges, world>>
  PROVE  request' \in [Requests -> Record] /\ Kept'
<1>1. Knows(x) /\ x.pc \notin Owning
  BY DEF Knows, Owning
<1>. QED  BY <1>1, SlotMoves DEF Record, challenges, world

LEMMA AnswerStarts ==
  ASSUME IInv, NEW r \in Requests,
         \/ \E i \in Ips, e \in Emails, c \in Codes, w \in Wallets : PatchClaim(r, i, e, c, w)
         \/ AnswerRead(r)
         \/ \E o \in Orders : AnswerSign(r, o)
         \/ AnswerSigned(r)
  PROVE  TypeOK' /\ Kept'
<1>. USE DEF IInv
<1>1. ASSUME NEW i \in Ips, NEW e \in Emails, NEW c \in Codes, NEW w \in Wallets,
             PatchClaim(r, i, e, c, w)
      PROVE  TypeOK' /\ Kept'
  <2>. DEFINE x == [pc |-> "answer", ip |-> i, email |-> e, code |-> c, wallet |-> w,
                    todo |-> {}, signed |-> {}]
  <2>1. x \in AnswerRequest /\ x.pc = "answer" /\ x.todo = {} /\ x.signed = {}
    BY DEF AnswerRequest, AnswerPcs
  <2>2. request' = [request EXCEPT ![r] = x] /\ UNCHANGED <<status, challenges, world>>
    BY <1>1 DEF PatchClaim
  <2>. HIDE DEF x
  <2>3. request' \in [Requests -> Record] /\ Kept'
    BY <2>1, <2>2, AnswerMoves
  <2>. QED  BY <1>1, <2>3 DEF PatchClaim, TypeOK, Record, challenges, world, bans, import, budget
<1>2. ASSUME request[r] \in AnswerRequest, ReportFailure(r),
             UNCHANGED <<status, challenges, world, import, budget>>
      PROVE  TypeOK' /\ Kept'
  <2>1. request[r] # Idle
    BY <1>2 DEF AnswerRequest, AnswerPcs, Idle
  <2>2. /\ errorAttempts' \in [Ips -> Nat]
        /\ banlist' \subseteq Ips
        /\ request' \in [Requests -> Record]
        /\ Kept'
    BY <1>2, <2>1, Reported DEF challenges, world
  <2>. QED  BY <1>2, <2>2 DEF TypeOK, Record, challenges, world, import, budget
<1>3. ASSUME AnswerRead(r) PROVE TypeOK' /\ Kept'
  <2>. DEFINE orders == OrdersOf(request[r].email, {"Challenged"})
              x == [request[r] EXCEPT !.pc = "sign", !.todo = orders]
  <2>1. request[r] \in AnswerRequest /\ request[r] # Idle
    BY <1>3, Kinds DEF AnswerRead, AnswerPcs, Idle
  <2>2. CASE ReportFailure(r)
    BY <1>2, <1>3, <2>1, <2>2 DEF AnswerRead
  <2>3. CASE request' = [request EXCEPT ![r] = x] /\ UNCHANGED bans
    <3>1. /\ x \in AnswerRequest /\ x.pc = "sign" /\ x.todo = orders
          /\ x.signed = request[r].signed /\ x.email = request[r].email
      BY <2>1 DEF AnswerRequest, AnswerPcs, OrdersOf
    <3>2. \A o \in x.todo \cup x.signed : OwnerOf[o] = x.email
      BY <2>1, <3>1 DEF OrdersOf, Kept, RequestsKnow, Knows
    <3>. HIDE DEF x
    <3>3. request' \in [Requests -> Record] /\ Kept'
      BY <1>3, <2>3, <3>1, <3>2, AnswerMoves DEF AnswerRead
    <3>. QED
      BY <1>3, <2>3, <3>3 DEF AnswerRead, TypeOK, Record, challenges, world, bans, import, budget
  <2>. QED  BY <1>3, <2>2, <2>3 DEF AnswerRead
<1>4. ASSUME NEW o \in Orders, AnswerSign(r, o) PROVE TypeOK' /\ Kept'
  <2>. DEFINE x == [request[r] EXCEPT !.todo = @ \ {o}, !.signed = @ \cup {o}]
              y == [request[r] EXCEPT !.todo = @ \ {o}]
  <2>1. request[r] \in AnswerRequest /\ request[r] # Idle /\ request[r].pc = "sign"
    BY <1>4, Kinds DEF AnswerSign, AnswerPcs, Idle
  <2>2. \A p \in request[r].todo \cup request[r].signed : OwnerOf[p] = request[r].email
    BY <2>1 DEF Kept, RequestsKnow, Knows
  <2>3. o \in request[r].todo
    BY <1>4 DEF AnswerSign
  <2>4. /\ x \in AnswerRequest /\ x.pc = "sign" /\ x.email = request[r].email
        /\ x.todo \cup x.signed = request[r].todo \cup request[r].signed
    BY <2>1, <2>3 DEF AnswerRequest, AnswerPcs
  <2>5. /\ y \in AnswerRequest /\ y.pc = "sign" /\ y.email = request[r].email
        /\ y.todo \cup y.signed \subseteq request[r].todo \cup request[r].signed
    BY <2>1 DEF AnswerRequest, AnswerPcs
  <2>6. request' = [request EXCEPT ![r] = x] \/ request' = [request EXCEPT ![r] = y]
    BY <1>4 DEF AnswerSign
  <2>. HIDE DEF x, y
  <2>7. request' \in [Requests -> Record] /\ Kept'
    BY <1>4, <2>2, <2>4, <2>5, <2>6, AnswerMoves DEF AnswerSign
  <2>8. faults' \in Nat
    BY <1>4 DEF AnswerSign, TypeOK
  <2>. QED
    BY <1>4, <2>7, <2>8 DEF AnswerSign, TypeOK, Record, challenges, world, bans, import
<1>5. ASSUME AnswerSigned(r) PROVE TypeOK' /\ Kept'
  <2>. DEFINE x == [request[r] EXCEPT !.pc = "check"]
  <2>1. request[r] \in AnswerRequest /\ request[r] # Idle
    BY <1>5, Kinds DEF AnswerSigned, AnswerPcs, Idle
  <2>2. CASE ReportFailure(r)
    BY <1>2, <1>5, <2>1, <2>2 DEF AnswerSigned
  <2>3. CASE Goto(r, "check") /\ UNCHANGED bans
    <3>1. /\ x \in AnswerRequest /\ x.pc = "check" /\ x.todo = request[r].todo
          /\ x.signed = request[r].signed /\ x.email = request[r].email
      BY <2>1 DEF AnswerRequest, AnswerPcs
    <3>2. \A o \in x.todo \cup x.signed : OwnerOf[o] = x.email
      BY <2>1, <3>1 DEF Kept, RequestsKnow, Knows
    <3>3. request' = [request EXCEPT ![r] = x]
      BY <2>3 DEF Goto
    <3>. HIDE DEF x
    <3>4. request' \in [Requests -> Record] /\ Kept'
      BY <1>5, <3>1, <3>2, <3>3, AnswerMoves DEF AnswerSigned
    <3>. QED
      BY <1>5, <2>3, <3>4 DEF AnswerSigned, TypeOK, Record, challenges, world, bans, import, budget
  <2>. QED  BY <1>5, <2>2, <2>3 DEF AnswerSigned
<1>. QED  BY <1>1, <1>3, <1>4, <1>5

(* The code is looked up: its challenge is one of the request's address. *)
LEMMA AnswerCheckKeeps ==
  ASSUME IInv, NEW r \in Requests, AnswerCheck(r)
  PROVE  TypeOK' /\ Kept'
<1>. DEFINE x == [request[r] EXCEPT !.pc = "record"]
<1>. USE DEF IInv
<1>1. request[r] \in AnswerRequest /\ request[r] # Idle /\ request[r].pc = "check"
  BY Kinds DEF AnswerCheck, AnswerPcs, Idle
<1>2. CASE ReportFailure(r)
  <2>1. /\ errorAttempts' \in [Ips -> Nat]
        /\ banlist' \subseteq Ips
        /\ request' \in [Requests -> Record]
        /\ Kept'
    BY <1>1, <1>2, Reported DEF AnswerCheck, challenges, world
  <2>. QED  BY <2>1 DEF AnswerCheck, TypeOK, Record, challenges, world, import, budget
<1>3. CASE /\ request[r].code \in active /\ issuedTo[request[r].code] = request[r].email
           /\ Goto(r, "record") /\ UNCHANGED bans
  <2>1. /\ x \in AnswerRequest /\ x.pc = "record" /\ x.todo = request[r].todo
        /\ x.signed = request[r].signed /\ x.email = request[r].email
        /\ x.code = request[r].code
    BY <1>1 DEF AnswerRequest, AnswerPcs
  <2>2. Knows(x) /\ x.pc \notin Owning
    BY <1>1, <1>3, <2>1 DEF Knows, Owning, Kept, RequestsKnow, ChallengesExist
  <2>3. request' = [request EXCEPT ![r] = x]
    BY <1>3 DEF Goto
  <2>. HIDE DEF x
  <2>4. request' \in [Requests -> Record] /\ Kept'
    BY <2>1, <2>2, <2>3, SlotMoves DEF AnswerCheck, Record, challenges, world
  <2>. QED
    BY <1>3, <2>4 DEF AnswerCheck, TypeOK, Record, challenges, world, bans, import, budget
<1>. QED  BY <1>2, <1>3 DEF AnswerCheck

(* The answer row is inserted: the request becomes the owner of its code. *)
LEMMA AnswerRecordKeeps ==
  ASSUME IInv, NEW r \in Requests, AnswerRecord(r)
  PROVE  TypeOK' /\ Kept'
<1>. DEFINE x == [request[r] EXCEPT !.pc = "own", !.todo = request[r].signed]
<1>. USE DEF IInv
<1>1. request[r] \in AnswerRequest /\ request[r] # Idle /\ request[r].pc = "record"
  BY Kinds DEF AnswerRecord, AnswerPcs, Idle
<1>2. /\ x \in AnswerRequest /\ x.pc = "own" /\ x.todo = request[r].signed
      /\ x.signed = request[r].signed /\ x.email = request[r].email
      /\ x.code = request[r].code
  BY <1>1 DEF AnswerRequest, AnswerPcs
<1>3. /\ request' \in [Requests -> Record] /\ request'[r] = x
      /\ \A q \in Requests \ {r} : request'[q] = request[q]
  <2>1. request' = [request EXCEPT ![r] = x]
    BY DEF AnswerRecord
  <2>. HIDE DEF x
  <2>. QED  BY <2>1, <1>2 DEF TypeOK, Record
<1>. HIDE DEF x
<1>4. /\ request[r].code \in DOMAIN issuedTo
      /\ issuedTo[request[r].code] = request[r].email
      /\ \A o \in request[r].signed : OwnerOf[o] = request[r].email
  BY <1>1 DEF Kept, RequestsKnow, Knows
<1>5. /\ request[r].code \notin answered /\ answered' = answered \cup {request[r].code}
      /\ UNCHANGED <<status, issuedTo, active, handed, claimed>>
  BY DEF AnswerRecord, world
<1>6. TypeOK'
  BY <1>1, <1>3, <1>5 DEF AnswerRecord, TypeOK, Record, AnswerRequest, world, bans, import, budget
<1>7. RequestsKnow'
  <2>1. SUFFICES ASSUME NEW q \in Requests PROVE Knows(request[q])'
    BY DEF RequestsKnow
  <2>2. CASE q = r
    BY <1>2, <1>3, <1>4, <1>5, <2>2 DEF Knows, Owning
  <2>3. CASE q # r
    BY <1>3, <1>5, <2>3 DEF Knows, Kept, RequestsKnow
  <2>. QED  BY <2>2, <2>3
<1>8. OneOwner'
  <2>1. \A q \in Requests : request[q].pc \in Owning => request[q].code # request[r].code
    BY <1>5 DEF Kept, RequestsKnow, Knows
  <2>2. \A h \in handed : h.code # request[r].code
    BY <1>5 DEF Kept, HandedToOwner
  <2>. QED  BY <1>2, <1>3, <1>5, <2>1, <2>2 DEF Kept, OneOwner
<1>9. ChallengesExist' /\ HandedToOwner' /\ OneWalletPerCode' /\ HandedNotLocked'
  BY <1>4, <1>5 DEF Kept, ChallengesExist, HandedToOwner, OneWalletPerCode, HandedNotLocked
<1>10. StatusHasChallenge'
  BY <1>5 DEF Kept, StatusHasChallenge
<1>. QED  BY <1>6, <1>7, <1>8, <1>9, <1>10 DEF Kept

(* An order becomes Owned: its owner's code is answered. *)
LEMMA AnswerOwnKeeps ==
  ASSUME IInv, NEW r \in Requests, NEW o \in Orders, AnswerOwn(r, o)
  PROVE  TypeOK' /\ Kept'
<1>. DEFINE to == IF request[r].todo = {o} THEN "return" ELSE request[r].pc
            x == [request[r] EXCEPT !.todo = @ \ {o}, !.pc = to]
<1>. USE DEF IInv
<1>1. request[r] \in AnswerRequest /\ request[r] # Idle /\ request[r].pc = "own"
  BY Kinds DEF AnswerOwn, AnswerPcs, Idle
<1>2. /\ x \in AnswerRequest /\ x.pc \in Owning /\ x.todo = request[r].todo \ {o}
      /\ x.signed = request[r].signed /\ x.email = request[r].email
      /\ x.code = request[r].code
      /\ x.pc = "return" => x.todo = {}
  BY <1>1 DEF AnswerRequest, AnswerPcs, Owning
<1>3. /\ request' \in [Requests -> Record] /\ request'[r] = x
      /\ \A q \in Requests \ {r} : request'[q] = request[q]
  <2>1. request' = [request EXCEPT ![r] = x]
    BY DEF AnswerOwn, Done
  <2>. HIDE DEF x
  <2>. QED  BY <2>1, <1>2 DEF TypeOK, Record
<1>. HIDE DEF x
<1>4. /\ status'[o] = "Owned" /\ \A p \in Orders \ {o} : status'[p] = status[p]
      /\ status' \in [Orders -> {"Locked", "Challenged", "Owned", "Claimed"}]
      /\ UNCHANGED <<issuedTo, active, answered, handed, claimed>>
  BY DEF AnswerOwn, TypeOK, challenges, world
<1>5. /\ request[r].code \in DOMAIN issuedTo \cap answered
      /\ issuedTo[request[r].code] = request[r].email
      /\ OwnerOf[o] = request[r].email
      /\ \A p \in request[r].todo : OwnerOf[p] = request[r].email
      /\ \A p \in request[r].signed :
           OwnerOf[p] = request[r].email /\ (p \notin request[r].todo => status[p] # "Locked")
      /\ request[r].signed \subseteq Orders
  BY <1>1 DEF AnswerOwn, Kept, RequestsKnow, Knows, Owning, AnswerRequest
<1>6. TypeOK'
  BY <1>3, <1>4 DEF AnswerOwn, TypeOK, Record, challenges, world, bans, import, budget
<1>7. RequestsKnow'
  <2>1. SUFFICES ASSUME NEW q \in Requests PROVE Knows(request[q])'
    BY DEF RequestsKnow
  <2>2. CASE q = r
    BY <1>2, <1>3, <1>4, <1>5, <2>2 DEF Knows, Owning
  <2>3. CASE q # r
    BY <1>3, <1>4, <2>3, LeavesLocked DEF Kept, RequestsKnow
  <2>. QED  BY <2>2, <2>3
<1>8. OneOwner'
  BY <1>1, <1>2, <1>3, <1>4 DEF Kept, OneOwner, Owning
<1>9. ChallengesExist' /\ HandedToOwner' /\ OneWalletPerCode'
  BY <1>4 DEF Kept, ChallengesExist, HandedToOwner, OneWalletPerCode
<1>10. HandedNotLocked'
  BY <1>4, HandedOrders DEF Kept, HandedNotLocked
<1>11. StatusHasChallenge'
  BY <1>4, <1>5 DEF Kept, StatusHasChallenge
<1>. QED  BY <1>6, <1>7, <1>8, <1>9, <1>10, <1>11 DEF Kept

(* The signatures are handed out: no other request, and no earlier one, has
   handed out any for the code. *)
LEMMA AnswerReturnKeeps ==
  ASSUME IInv, NEW r \in Requests, AnswerReturn(r)
  PROVE  TypeOK' /\ Kept'
<1>. DEFINE new == {[order |-> o, code |-> request[r].code, wallet |-> request[r].wallet] :
                      o \in request[r].signed}
<1>. USE DEF IInv
<1>1. request[r] \in AnswerRequest /\ request[r] # Idle /\ request[r].pc = "return"
  BY Kinds DEF AnswerReturn, AnswerPcs, Idle
<1>2. \A h \in new : /\ h \in Signatures
                     /\ h.code = request[r].code /\ h.wallet = request[r].wallet
                     /\ h.order \in request[r].signed
  BY <1>1 DEF AnswerRequest, Signatures
<1>3. handed' = handed \cup new
  BY DEF AnswerReturn
<1>. HIDE DEF new
<1>4. /\ request' \in [Requests -> Record] /\ request'[r] = Idle
      /\ \A q \in Requests \ {r} : request'[q] = request[q]
  BY Finished DEF AnswerReturn, Finish, TypeOK, Record
<1>5. UNCHANGED <<status, issuedTo, active, answered, claimed>>
  BY DEF AnswerReturn, challenges
<1>6. /\ request[r].code \in DOMAIN issuedTo \cap answered
      /\ issuedTo[request[r].code] = request[r].email
      /\ \A o \in request[r].signed : OwnerOf[o] = request[r].email /\ status[o] # "Locked"
  BY <1>1 DEF Kept, RequestsKnow, Knows, Owning
<1>7. TypeOK'
  BY <1>2, <1>3, <1>4 DEF AnswerReturn, TypeOK, Record, challenges, bans, import, budget
<1>8. RequestsKnow'
  <2>1. SUFFICES ASSUME NEW q \in Requests PROVE Knows(request[q])'
    BY DEF RequestsKnow
  <2>2. CASE q = r
    BY <1>4, <2>2, Finished DEF Knows, Owning, Idle, AnswerRequest, AnswerPcs
  <2>3. CASE q # r
    BY <1>4, <1>5, <2>3 DEF Knows, Kept, RequestsKnow
  <2>. QED  BY <2>2, <2>3
<1>9. OneOwner'
  BY <1>1, <1>2, <1>3, <1>4, Finished DEF Kept, OneOwner, Owning
<1>10. HandedToOwner' /\ HandedNotLocked'
  BY <1>2, <1>3, <1>5, <1>6 DEF Kept, HandedToOwner, HandedNotLocked
<1>11. OneWalletPerCode'
  BY <1>1, <1>2, <1>3 DEF Kept, OneWalletPerCode, OneOwner, Owning
<1>12. ChallengesExist' /\ StatusHasChallenge'
  BY <1>5 DEF Kept, ChallengesExist, StatusHasChallenge
<1>. QED  BY <1>7, <1>8, <1>9, <1>10, <1>11, <1>12 DEF Kept
-----------------------------------------------------------------------------
(* Requests that end, and the rest of the system *)

LEMMA EndKeeps ==
  ASSUME IInv, NEW r \in Requests, RequestFails(r) \/ BanDeactivate(r)
  PROVE  TypeOK' /\ Kept'
<1>. USE DEF IInv
<1>1. CASE RequestFails(r)
  <2>1. request' \in [Requests -> Record] /\ Kept'
    BY <1>1, SlotMoves, Finished DEF RequestFails, Finish, challenges, world
  <2>2. faults' \in Nat
    BY <1>1 DEF RequestFails, TypeOK
  <2>. QED  BY <1>1, <2>1, <2>2 DEF RequestFails, TypeOK, Record, challenges, world, bans, import
<1>2. CASE BanDeactivate(r)
  <2>1. active' \subseteq active
    BY <1>2 DEF BanDeactivate, Deactivate
  <2>2. request' \in [Requests -> Record] /\ Kept'
    BY <1>2, <2>1, SlotMoves, Finished DEF BanDeactivate, Finish, world
  <2>. QED
    BY <1>2, <2>1, <2>2 DEF BanDeactivate, TypeOK, Record, world, bans, import, budget
<1>. QED  BY <1>1, <1>2

LEMMA RestartKeeps ==
  ASSUME IInv, Restart
  PROVE  TypeOK' /\ Kept'
<1>. USE DEF IInv
<1>1. \A r \in Requests : request'[r] = Idle
  BY DEF Restart
<1>2. UNCHANGED <<status, claimRow, issuedTo, active, answered, mailed, handed, claimed>>
  BY DEF Restart, challenges, world
<1>3. TypeOK'
  <2>1. request' \in [Requests -> {Idle} \cup ChallengeRequest \cup AnswerRequest]
    BY DEF Restart
  <2>2. /\ errorAttempts' \in [Ips -> Nat] /\ banlist' \subseteq Ips
        /\ importing' \in Orders \cup {NoOrder}
    BY DEF Restart
  <2>3. faults' \in Nat /\ restarts' \in Nat
    BY DEF Restart, TypeOK
  <2>. QED  BY <1>2, <2>1, <2>2, <2>3 DEF TypeOK
<1>4. RequestsKnow' /\ OneOwner'
  BY <1>1, Finished DEF RequestsKnow, Knows, OneOwner, Owning, Idle, AnswerRequest, AnswerPcs
<1>. QED
  BY <1>2, <1>3, <1>4 DEF Kept, ChallengesExist, HandedToOwner, OneWalletPerCode,
     StatusHasChallenge, HandedNotLocked

(* Steps that leave the requests alone *)
LEMMA WorldKeeps ==
  ASSUME IInv,
         \/ \E c \in Codes : Expire(c)
         \/ \E o \in Orders : ClaimOnChain(o) \/ ImportRows(o)
         \/ ImportStatus
         \/ UNCHANGED vars
  PROVE  TypeOK' /\ Kept'
<1>. USE DEF IInv
<1>1. CASE \/ \E c \in Codes : Expire(c)
           \/ \E o \in Orders : ImportRows(o)
           \/ UNCHANGED vars
  <2>1. /\ UNCHANGED <<status, issuedTo, answered, world, request>>
        /\ active' \subseteq active
    BY <1>1 DEF Expire, ImportRows, vars, challenges, world
  <2>2. TypeOK'
    BY <1>1 DEF Expire, ImportRows, TypeOK, vars, challenges, world, bans, import, budget
  <2>. QED
    BY <2>1, <2>2 DEF world, Kept, RequestsKnow, Knows, OneOwner, ChallengesExist, HandedToOwner,
       OneWalletPerCode, StatusHasChallenge, HandedNotLocked
<1>2. ASSUME NEW o \in Orders, ClaimOnChain(o) PROVE TypeOK' /\ Kept'
  <2>1. /\ claimed' = claimed \cup {o} /\ \E h \in handed : h.order = o
        /\ UNCHANGED <<status, issuedTo, active, answered, handed, request>>
    BY <1>2 DEF ClaimOnChain, challenges
  <2>2. TypeOK'
    BY <1>2 DEF ClaimOnChain, TypeOK, challenges, bans, import, budget
  <2>3. HandedNotLocked' /\ StatusHasChallenge'
    BY <2>1 DEF Kept, HandedNotLocked, StatusHasChallenge
  <2>. QED
    BY <2>1, <2>2, <2>3 DEF Kept, RequestsKnow, Knows, OneOwner, ChallengesExist, HandedToOwner,
       OneWalletPerCode
<1>3. CASE ImportStatus
  <2>1. /\ importing \in Orders /\ status'[importing] = "Claimed"
        /\ \A p \in Orders \ {importing} : status'[p] = status[p]
        /\ status' \in [Orders -> {"Locked", "Challenged", "Owned", "Claimed"}]
        /\ UNCHANGED <<issuedTo, active, answered, handed, claimed, request>>
    BY <1>3 DEF ImportStatus, TypeOK, challenges, world
  <2>2. TypeOK'
    BY <1>3, <2>1 DEF ImportStatus, TypeOK, challenges, world, bans, budget
  <2>3. RequestsKnow'
    BY <2>1, LeavesLocked DEF Kept, RequestsKnow
  <2>4. HandedNotLocked' /\ StatusHasChallenge'
    BY <2>1, HandedOrders DEF Kept, HandedNotLocked, StatusHasChallenge
  <2>. QED
    BY <2>1, <2>2, <2>3, <2>4 DEF Kept, OneOwner, ChallengesExist, HandedToOwner, OneWalletPerCode
<1>. QED  BY <1>1, <1>2, <1>3
-----------------------------------------------------------------------------
(* Theorems *)

LEMMA InitIInv == Init => IInv
<1>. SUFFICES ASSUME Init PROVE IInv
  OBVIOUS
<1>. USE DEF Init
<1>1. TypeOK
  BY ClaimAssumption DEF TypeOK, ClaimAssumption
<1>2. RequestsKnow /\ OneOwner
  BY Finished DEF RequestsKnow, OneOwner
<1>3. ChallengesExist /\ HandedToOwner /\ OneWalletPerCode /\ StatusHasChallenge /\ HandedNotLocked
  BY DEF ChallengesExist, HandedToOwner, OneWalletPerCode, StatusHasChallenge, HandedNotLocked
<1>. QED  BY <1>1, <1>2, <1>3 DEF IInv, Kept

LEMMA NextIInv == IInv /\ [Next]_vars => IInv'
<1>. SUFFICES ASSUME IInv, [Next]_vars PROVE IInv'
  OBVIOUS
<1>1. ASSUME NEW r \in Requests, Answering(r) PROVE TypeOK' /\ Kept'
  BY <1>1, AnswerStarts, AnswerCheckKeeps, AnswerRecordKeeps, AnswerOwnKeeps, AnswerReturnKeeps
     DEF Answering
<1>2. ASSUME NEW r \in Requests, Challenging(r) \/ RequestFails(r) \/ BanDeactivate(r)
      PROVE  TypeOK' /\ Kept'
  BY <1>2, ChallengingKeeps, EndKeeps
<1>3. TypeOK' /\ Kept'
  BY <1>1, <1>2, RestartKeeps, WorldKeeps DEF Next
<1>. QED  BY <1>3 DEF IInv

(* What requests know, and what the rows say of each other, holds in every
   reachable state. *)
THEOREM Invariance == Spec => []IInv
BY InitIInv, NextIInv, PTL DEF Spec

(* Every variable of the claim keeps its type. *)
THEOREM TypeCorrect == Spec => []TypeOK
<1>1. IInv => TypeOK
  BY DEF IInv
<1>. QED  BY <1>1, Invariance, PTL

(* Signatures for an order are handed out only for the code of a challenge
   of its owner's address, with its answer row in place. *)
THEOREM SignaturesGoToOwner == Spec => []HandedToOwner
<1>1. IInv => HandedToOwner
  BY DEF IInv, Kept
<1>. QED  BY <1>1, Invariance, PTL

(* However many requests present one code, one wallet gets signatures. *)
THEOREM CodeBuysOneWallet == Spec => []OneWalletPerCode
<1>1. IInv => OneWalletPerCode
  BY DEF IInv, Kept
<1>. QED  BY <1>1, Invariance, PTL

(* Whoever wrote an order's status last, it fits the challenges and answers
   of its owner, and a claimed order is not Locked. *)
THEOREM StatusesHaveChallenges == Spec => []StatusHasChallenge
<1>1. IInv => StatusHasChallenge
  BY DEF IInv, Kept
<1>. QED  BY <1>1, Invariance, PTL
-----------------------------------------------------------------------------
(* Attempts.  A banned IP starts no request, and each one it has under way
   may fail once more. *)

Ended == {"idle", "ban"}

Serving(i) == {r \in Requests : request[r].pc \notin Ended /\ request[r].ip = i}

Limited ==
  \A i \in Ips :
    IF i \in banlist
    THEN errorAttempts[i] + Cardinality(Serving(i)) <= BanThreshold + Cardinality(Requests)
    ELSE errorAttempts[i] <= BanThreshold

LEMMA ServingSize ==
  ASSUME NEW i
  PROVE  /\ IsFiniteSet(Serving(i)) /\ Cardinality(Serving(i)) \in Nat
         /\ Cardinality(Serving(i)) <= Cardinality(Requests)
         /\ Cardinality(Requests) \in Nat
<1>1. Serving(i) \in SUBSET Requests /\ IsFiniteSet(Requests)
  BY ClaimAssumption DEF Serving, ClaimAssumption
<1>2. IsFiniteSet(Serving(i)) /\ Cardinality(Serving(i)) <= Cardinality(Requests)
  BY <1>1, FS_Subset
<1>. QED  BY <1>1, <1>2, FS_CardinalityType

(* A step that fails no attempt starts requests of IPs that are not banned. *)
LEMMA CalmStep ==
  ASSUME TypeOK, Limited, UNCHANGED bans,
         \A i \in banlist : Serving(i)' \subseteq Serving(i)
  PROVE  Limited'
<1>1. \A i \in banlist : /\ Cardinality(Serving(i)') <= Cardinality(Serving(i))
                         /\ Cardinality(Serving(i)') \in Nat
                         /\ Cardinality(Serving(i)) \in Nat
  <2>. TAKE i \in banlist
  <2>1. Serving(i)' \in SUBSET Serving(i) /\ IsFiniteSet(Serving(i))
    BY ServingSize
  <2>2. IsFiniteSet(Serving(i)') /\ Cardinality(Serving(i)') <= Cardinality(Serving(i))
    BY <2>1, FS_Subset
  <2>. QED  BY <2>1, <2>2, FS_CardinalityType
<1>. QED
  BY <1>1, ServingSize, ClaimAssumption DEF TypeOK, Limited, bans, ClaimAssumption

(* A failed attempt ends a request of its IP. *)
LEMMA FailedStep ==
  ASSUME TypeOK, Limited, NEW r \in Requests, request[r].pc \notin Ended, ReportFailure(r)
  PROVE  Limited'
<1>. DEFINE i == request[r].ip
<1>1. request[r] \in ChallengeRequest \cup AnswerRequest
  BY DEF TypeOK, Ended, Idle
<1>2. i \in Ips
  BY <1>1 DEF ChallengeRequest, AnswerRequest
<1>3. /\ request'[r].pc \in Ended
      /\ \A q \in Requests \ {r} : request'[q] = request[q]
  <2>1. CASE Finish(r)
    BY <2>1 DEF Finish, TypeOK, Idle, Ended
  <2>2. CASE Goto(r, "ban")
    <3>1. [request[r] EXCEPT !.pc = "ban"].pc = "ban"
      BY <1>1 DEF ChallengeRequest, AnswerRequest
    <3>2. request' = [request EXCEPT ![r] = [request[r] EXCEPT !.pc = "ban"]]
      BY <2>2 DEF Goto
    <3>. QED  BY <3>1, <3>2 DEF TypeOK, Ended
  <2>. QED  BY <2>1, <2>2 DEF ReportFailure
<1>4. \A j \in Ips : Serving(j)' \subseteq Serving(j) \ {r}
  BY <1>3 DEF Serving
<1>5. ASSUME NEW j \in Ips
      PROVE  /\ Cardinality(Serving(j)') \in Nat
             /\ Cardinality(Serving(j)') <= Cardinality(Serving(j))
             /\ j = i => Cardinality(Serving(j)') <= Cardinality(Serving(j)) - 1
  <2>1. IsFiniteSet(Serving(j)) /\ Cardinality(Serving(j)) \in Nat
    BY ServingSize
  <2>2. /\ IsFiniteSet(Serving(j) \ {r})
        /\ Cardinality(Serving(j) \ {r})
             = IF r \in Serving(j) THEN Cardinality(Serving(j)) - 1 ELSE Cardinality(Serving(j))
    BY <2>1, FS_RemoveElement
  <2>3. Serving(j)' \in SUBSET (Serving(j) \ {r})
    BY <1>4
  <2>4. IsFiniteSet(Serving(j)') /\ Cardinality(Serving(j)') <= Cardinality(Serving(j) \ {r})
    BY <2>2, <2>3, FS_Subset
  <2>5. Cardinality(Serving(j)') \in Nat
    BY <2>4, FS_CardinalityType
  <2>6. j = i => r \in Serving(j)
    BY DEF Serving
  <2>. QED  BY <2>1, <2>2, <2>4, <2>5, <2>6
<1>6. /\ errorAttempts'[i] = errorAttempts[i] + 1
      /\ \A j \in Ips \ {i} : errorAttempts'[j] = errorAttempts[j]
      /\ \A j \in Ips : errorAttempts[j] \in Nat /\ errorAttempts'[j] \in Nat
  BY <1>2 DEF ReportFailure, TypeOK
<1>7. \/ banlist' = banlist \cup {i}
      \/ banlist' = banlist /\ errorAttempts'[i] <= BanThreshold
  BY <1>6 DEF ReportFailure
<1>. HIDE DEF i
<1>. SUFFICES ASSUME NEW j \in Ips
              PROVE  IF j \in banlist'
                     THEN errorAttempts'[j] + Cardinality(Serving(j)')
                            <= BanThreshold + Cardinality(Requests)
                     ELSE errorAttempts'[j] <= BanThreshold
  BY DEF Limited
<1>8. /\ IF j \in banlist
         THEN errorAttempts[j] + Cardinality(Serving(j)) <= BanThreshold + Cardinality(Requests)
         ELSE errorAttempts[j] <= BanThreshold
      /\ Cardinality(Serving(j)) \in Nat /\ Cardinality(Serving(j)) <= Cardinality(Requests)
      /\ Cardinality(Requests) \in Nat /\ BanThreshold \in Nat
  BY ServingSize, ClaimAssumption DEF Limited, ClaimAssumption
<1>9. CASE j = i
  BY <1>2, <1>5, <1>6, <1>7, <1>8, <1>9
<1>10. CASE j # i
  BY <1>5, <1>6, <1>7, <1>8, <1>10
<1>. QED  BY <1>9, <1>10

(* A request that goes on does so for its IP. *)
LEMMA SlotCalm ==
  ASSUME Limited, TypeOK, NEW r \in Requests,
         \A q \in Requests \ {r} : request'[q] = request[q], UNCHANGED bans,
         \/ request'[r].pc \in Ended
         \/ request'[r].ip \notin banlist
         \/ request[r].pc \notin Ended /\ request'[r].ip = request[r].ip
  PROVE  Limited'
<1>1. \A i \in banlist : Serving(i)' \subseteq Serving(i)
  BY DEF Serving
<1>. QED  BY <1>1, CalmStep

LEMMA FinishCalm ==
  ASSUME TypeOK, Limited, NEW r \in Requests, Finish(r), UNCHANGED bans
  PROVE  Limited'
BY SlotCalm DEF Finish, Idle, Ended, TypeOK

LEMMA ChallengingLimited ==
  ASSUME TypeOK, Limited, NEW r \in Requests, Challenging(r)
  PROVE  Limited'
<1>1. ASSUME NEW i \in Ips, NEW e \in Emails, PutClaim(r, i, e) PROVE Limited'
  BY <1>1, SlotCalm DEF PutClaim, TypeOK
<1>2. CASE ChallengeMail(r)
  BY <1>2, FinishCalm DEF ChallengeMail
<1>3. CASE ChallengeRead(r) /\ ReportFailure(r)
  BY <1>3, FailedStep DEF ChallengeRead, Ended
<1>4. ASSUME \/ /\ request[r].pc = "challenge" /\ UNCHANGED bans
                /\ \E orders :
                     request' = [request EXCEPT ![r].pc = "deactivate", ![r].todo = orders]
             \/ ChallengeDeactivate(r)
             \/ \E c \in Codes : ChallengeCreate(r, c)
             \/ \E o \in Orders : ChallengeMark(r, o)
      PROVE  Limited'
  <2>1. request[r].pc \in ChallengePcs \ {"ban"} /\ request[r].pc \notin Ended /\ UNCHANGED bans
    BY <1>4 DEF ChallengeDeactivate, ChallengeCreate, ChallengeMark, ChallengePcs, Ended
  <2>2. request[r] \in ChallengeRequest
    BY <2>1, Kinds
  <2>3. /\ request'[r].ip = request[r].ip
        /\ \A q \in Requests \ {r} : request'[q] = request[q]
    <3>1. CASE \E orders : request' = [request EXCEPT ![r].pc = "deactivate", ![r].todo = orders]
      BY <2>2, <3>1 DEF ChallengeRequest, TypeOK
    <3>2. CASE ChallengeDeactivate(r)
      BY <2>2, <3>2 DEF ChallengeDeactivate, ChallengeRequest, Goto, TypeOK
    <3>3. CASE \E c \in Codes : ChallengeCreate(r, c)
      BY <2>2, <3>3 DEF ChallengeCreate, ChallengeRequest, TypeOK
    <3>4. CASE \E o \in Orders : ChallengeMark(r, o)
      BY <2>2, <3>4 DEF ChallengeMark, ChallengeRequest, Done, TypeOK
    <3>. QED  BY <1>4, <3>1, <3>2, <3>3, <3>4
  <2>. QED  BY <2>1, <2>3, SlotCalm
<1>5. CASE ChallengeRead(r)
  BY <1>3, <1>4, <1>5 DEF ChallengeRead
<1>. QED  BY <1>1, <1>2, <1>4, <1>5 DEF Challenging

LEMMA AnsweringLimited ==
  ASSUME TypeOK, Limited, NEW r \in Requests, Answering(r)
  PROVE  Limited'
<1>1. ASSUME NEW i \in Ips, NEW e \in Emails, NEW c \in Codes, NEW w \in Wallets,
             PatchClaim(r, i, e, c, w)
      PROVE  Limited'
  BY <1>1, SlotCalm DEF PatchClaim, TypeOK
<1>2. CASE AnswerReturn(r)
  BY <1>2, FinishCalm DEF AnswerReturn
<1>3. CASE (AnswerRead(r) \/ AnswerSigned(r) \/ AnswerCheck(r)) /\ ReportFailure(r)
  BY <1>3, FailedStep DEF AnswerRead, AnswerSigned, AnswerCheck, Ended
<1>4. ASSUME \/ /\ request[r].pc = "answer" /\ UNCHANGED bans
                /\ \E orders : request' = [request EXCEPT ![r].pc = "sign", ![r].todo = orders]
             \/ /\ request[r].pc \in {"sign", "check"} /\ UNCHANGED bans
                /\ Goto(r, "check") \/ Goto(r, "record")
             \/ \E o \in Orders : AnswerSign(r, o) \/ AnswerOwn(r, o)
             \/ AnswerRecord(r)
      PROVE  Limited'
  <2>1. request[r].pc \in AnswerPcs \ {"ban"} /\ request[r].pc \notin Ended /\ UNCHANGED bans
    BY <1>4 DEF AnswerSign, AnswerOwn, AnswerRecord, AnswerPcs, Ended
  <2>2. request[r] \in AnswerRequest
    BY <2>1, Kinds
  <2>3. /\ request'[r].ip = request[r].ip
        /\ \A q \in Requests \ {r} : request'[q] = request[q]
    <3>1. CASE \E orders : request' = [request EXCEPT ![r].pc = "sign", ![r].todo = orders]
      BY <2>2, <3>1 DEF AnswerRequest, TypeOK
    <3>2. CASE Goto(r, "check") \/ Goto(r, "record")
      BY <2>2, <3>2 DEF AnswerRequest, Goto, TypeOK
    <3>3. CASE \E o \in Orders : AnswerSign(r, o)
      BY <2>2, <3>3 DEF AnswerSign, AnswerRequest, TypeOK
    <3>4. CASE \E o \in Orders : AnswerOwn(r, o)
      BY <2>2, <3>4 DEF AnswerOwn, AnswerRequest, Done, TypeOK
    <3>5. CASE AnswerRecord(r)
      BY <2>2, <3>5 DEF AnswerRecord, AnswerRequest, TypeOK
    <3>. QED  BY <1>4, <3>1, <3>2, <3>3, <3>4, <3>5
  <2>. QED  BY <2>1, <2>3, SlotCalm
<1>5. CASE AnswerRead(r) \/ AnswerSigned(r) \/ AnswerCheck(r)
  BY <1>3, <1>4, <1>5 DEF AnswerRead, AnswerSigned, AnswerCheck
<1>. QED  BY <1>1, <1>2, <1>4, <1>5 DEF Answering

LEMMA NextLimited == IInv /\ Limited /\ [Next]_vars => Limited'
<1>. SUFFICES ASSUME TypeOK, Limited, [Next]_vars PROVE Limited'
  BY DEF IInv
<1>1. ASSUME NEW r \in Requests, Challenging(r) \/ Answering(r) PROVE Limited'
  BY <1>1, ChallengingLimited, AnsweringLimited
<1>2. ASSUME NEW r \in Requests, RequestFails(r) \/ BanDeactivate(r) PROVE Limited'
  BY <1>2, FinishCalm DEF RequestFails, BanDeactivate
<1>3. CASE Restart
  BY <1>3, ClaimAssumption DEF Restart, Limited, ClaimAssumption
<1>4. CASE \/ \E c \in Codes : Expire(c)
           \/ \E o \in Orders : ClaimOnChain(o) \/ ImportRows(o)
           \/ ImportStatus
           \/ UNCHANGED vars
  <2>1. UNCHANGED <<bans, request>>
    BY <1>4 DEF Expire, ClaimOnChain, ImportRows, ImportStatus, vars
  <2>2. \A i \in banlist : Serving(i)' \subseteq Serving(i)
    BY <2>1 DEF Serving
  <2>. QED  BY <2>1, <2>2, CalmStep
<1>. QED  BY <1>1, <1>2, <1>3, <1>4 DEF Next

(* However many requests of an IP are under way at once, its failed attempts
   exceed the threshold by no more than those. *)
THEOREM AttemptsStayBounded == Spec => []AttemptsBounded
<1>1. Init => Limited
  BY ClaimAssumption DEF Init, Limited, ClaimAssumption
<1>2. Limited /\ TypeOK => AttemptsBounded
  <2>. SUFFICES ASSUME Limited, TypeOK, NEW i \in Ips
                PROVE  errorAttempts[i] <= BanThreshold + Cardinality(Requests)
    BY DEF AttemptsBounded
  <2>. QED  BY ServingSize, ClaimAssumption DEF Limited, TypeOK, ClaimAssumption
<1>. QED  BY <1>1, <1>2, NextLimited, Invariance, TypeCorrect, PTL DEF Spec
=============================================================================
