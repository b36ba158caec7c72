------------------------- MODULE BadgeSigning_proofs -------------------------
(***************************************************************************)
(* Proofs about module BadgeSigning, for any requests, processes and       *)
(* networks, any expiration, and any number of failed calls and restarts.  *)
(*                                                                         *)
(* Each property has an invariant of its own that is inductive together    *)
(* with the types.  Recorded: a request that verifies again has its row.   *)
(* LastRead: the row read as the last falls due no earlier than the        *)
(* request's own, and than every signature handed out before it began.     *)
(* Extending: a due date of one's own is chosen when the last row is dead. *)
(* Seen and Once: mints and purchases are never undone, so that a          *)
(* verification finds those that were there when it began, whatever        *)
(* another request has written to the caches since.                        *)
(***************************************************************************)
EXTENDS BadgeSigning, TLAPS

(* A request at work has a network. *)
Chained == \A r \in Requests : pc[r] \notin {"new", "done"} => chain[r] \in Networks

(* What has been handed out, or is about to be, has its row. *)
Recorded ==
  /\ \A r \in Requests : look[r] = "second" => Row(r) \in mint_history
  /\ \A r \in Requests : \A d \in held[r] : \E h \in mint_history : h.due = d
  /\ SignatureRecorded

(* A row that was read as the last is there, and falls due no earlier than
   what had been handed out when the request began, and than its own row. *)
LastRead ==
  \A r \in Requests : pc[r] = "found" =>
    /\ \A d \in held[r] : d <= lastSignatureHistory[r].due
    /\ look[r] = "second" => /\ lastSignatureHistory[r] \in mint_history
                            /\ lastSignatureHistory[r].due >= dueDate[r]

Extending ==
  /\ \A r \in Requests : ~extends[r]
  /\ NotExtended

(* A badge that was minted when a verification began is found by it. *)
Seen ==
  /\ \A r \in Requests :
       /\ mintedBefore[r] => minted # {}
       /\ asked[r] => minted # {}
       /\ mintedBefore[r] /\ pc[r] = "badges" => asked[r]
       /\ isVerified[r] => ~mintedBefore[r]
  /\ \A p \in Procs : cachedAlreadyMinted[p] = "yes" => minted # {}
  /\ NotSignedAfterMint

(* A wallet that was verified once can only be refused because it has
   minted. *)
Once ==
  /\ \A p \in Procs : cachedHasPreSaleEvents[p] => bought
  /\ \A r \in Requests :
       /\ hasEvents[r] \/ isVerified[r] \/ pc[r] = "insert" \/ look[r] = "second" => bought
       /\ pc[r] = "insert" => isVerified[r]
       /\ look[r] = "second" => pc[r] \in {"events", "badges", "last", "found"}
       /\ look[r] = "second" /\ pc[r] = "badges" => hasEvents[r]
       /\ look[r] = "second" /\ pc[r] \in {"last", "found"} /\ ~isVerified[r] => minted # {}
       /\ again[r] => mintedBefore[r] /\ look[r] = "first" /\ pc[r] # "new"

IInv == TypeOK /\ Chained /\ Recorded /\ LastRead /\ Extending /\ Seen /\ Once

LEMMA InitIInv == Init => IInv
<1>. HAVE Init
<1>1. TypeOK
  <2>1. now \in 0..MaxTime /\ faults \in Nat /\ restarts \in Nat
    BY BadgeAssumption DEF Init, BadgeAssumption
  <2>5. /\ bought \in BOOLEAN /\ minted \subseteq Networks
        /\ mint_history \subseteq Permissions /\ signed \subseteq Signatures
    BY DEF Init
  <2>2. /\ cachedHasPreSaleEvents \in [Procs -> BOOLEAN]
        /\ cachedAlreadyMinted \in [Procs -> {"unknown", "yes", "no"}]
        /\ pc \in [Requests -> {"new", "events", "badges", "last", "found", "insert", "done"}]
        /\ look \in [Requests -> {"fetch", "first", "second"}]
    BY DEF Init
  <2>3. /\ chain \in [Requests -> Networks \cup {NoNetwork}]
        /\ lastSignatureHistory \in [Requests -> Permissions \cup {NoHistory}]
        /\ dueDate \in [Requests -> Nat] /\ held \in [Requests -> SUBSET Nat]
    BY DEF Init
  <2>4. /\ hasEvents \in [Requests -> BOOLEAN] /\ asked \in [Requests -> BOOLEAN]
        /\ isVerified \in [Requests -> BOOLEAN] /\ extends \in [Requests -> BOOLEAN]
        /\ mintedBefore \in [Requests -> BOOLEAN] /\ again \in [Requests -> BOOLEAN]
    BY DEF Init
  <2>. QED  BY <2>1, <2>2, <2>3, <2>4, <2>5 DEF TypeOK
<1>2. Chained /\ Recorded /\ LastRead /\ Extending
  BY DEF Init, Chained, Recorded, SignatureRecorded, LastRead, Extending, NotExtended
<1>3. Seen /\ Once
  BY DEF Init, Seen, NotSignedAfterMint, Once
<1>. QED  BY <1>1, <1>2, <1>3 DEF IInv
-----------------------------------------------------------------------------
LEMMA BeginType ==
  ASSUME TypeOK, NEW r \in Requests, NEW stage \in {"fetch", "first", "second"}, Begin(r, stage)
  PROVE  /\ look' \in [Requests -> {"fetch", "first", "second"}]
         /\ pc' \in [Requests -> {"new", "events", "badges", "last", "found", "insert", "done"}]
         /\ hasEvents' \in [Requests -> BOOLEAN] /\ asked' \in [Requests -> BOOLEAN]
         /\ isVerified' \in [Requests -> BOOLEAN] /\ mintedBefore' \in [Requests -> BOOLEAN]
         /\ lastSignatureHistory' \in [Requests -> Permissions \cup {NoHistory}]
         /\ \A x \in Requests : x # r => pc'[x] = pc[x]
BY BadgeAssumption DEF TypeOK, Begin, BadgeAssumption

LEMMA ForgetType ==
  ASSUME TypeOK, Chained, NEW requests \in SUBSET Requests, Forget(requests)
  PROVE  /\ look' \in [Requests -> {"fetch", "first", "second"}]
         /\ pc' \in [Requests -> {"new", "events", "badges", "last", "found", "insert", "done"}]
         /\ chain' \in [Requests -> Networks \cup {NoNetwork}]
         /\ hasEvents' \in [Requests -> BOOLEAN] /\ asked' \in [Requests -> BOOLEAN]
         /\ isVerified' \in [Requests -> BOOLEAN] /\ mintedBefore' \in [Requests -> BOOLEAN]
         /\ lastSignatureHistory' \in [Requests -> Permissions \cup {NoHistory}]
         /\ dueDate' \in [Requests -> Nat] /\ held' \in [Requests -> SUBSET Nat]
         /\ extends' \in [Requests -> BOOLEAN] /\ again' \in [Requests -> BOOLEAN]
         /\ Chained'
BY DEF TypeOK, Chained, Forget

LEMMA Rows ==
  ASSUME TypeOK
  PROVE  /\ \A h \in mint_history : h.due \in Nat
         /\ \A x \in Requests : lastSignatureHistory[x].due \in Nat
BY DEF TypeOK, Permissions, NoHistory

(* The last row falls due no earlier than any other. *)
LEMMA LastRow ==
  ASSUME TypeOK, NEW r \in Requests, FetchLast(r)
  PROVE  /\ lastSignatureHistory' \in [Requests -> Permissions \cup {NoHistory}]
         /\ \A h \in mint_history : /\ lastSignatureHistory'[r] \in mint_history
                                     /\ h.due <= lastSignatureHistory'[r].due
         /\ \A x \in Requests : x # r => lastSignatureHistory'[x] = lastSignatureHistory[x]
<1>1. PICK row \in mint_history \cup {NoHistory} :
        /\ IF row = NoHistory THEN mint_history = {} ELSE IsLast(row)
        /\ lastSignatureHistory' = [lastSignatureHistory EXCEPT ![r] = row]
  BY DEF FetchLast
<1>. QED  BY <1>1 DEF TypeOK, IsLast

LEMMA FoundType ==
  ASSUME TypeOK, NEW due \in Dues
  PROVE  due \in Nat
BY DEF TypeOK, Dues, Permissions

LEMMA TypeStep == TypeOK /\ Chained /\ [Next]_vars => TypeOK' /\ Chained'
<1>. SUFFICES ASSUME TypeOK, Chained, [Next]_vars PROVE TypeOK' /\ Chained'
  OBVIOUS
<1>1. ASSUME Tick PROVE TypeOK' /\ Chained'
  BY <1>1, BadgeAssumption DEF Tick, TypeOK, Chained, verify, request, caches,
     BadgeAssumption
<1>2. ASSUME Buy PROVE TypeOK' /\ Chained'
  BY <1>2 DEF Buy, TypeOK, Chained, verify, request, caches
<1>3. ASSUME NEW s \in signed, Mint(s) PROVE TypeOK' /\ Chained'
  BY <1>3 DEF Mint, TypeOK, Chained, verify, request, caches, Signatures
<1>4. ASSUME NEW r \in Requests, Receive(r) PROVE TypeOK' /\ Chained'
  <2>1. (IF Ask[r].kind = "fetch" THEN "fetch" ELSE "first") \in {"fetch", "first", "second"}
    OBVIOUS
  <2>2. Ask[r].network \in Networks
    BY BadgeAssumption DEF BadgeAssumption
  <2>3. {s.due : s \in signed} \in SUBSET Nat
    BY DEF TypeOK, Signatures
  <2>. QED  BY <1>4, <2>1, <2>2, <2>3, BeginType DEF Receive, TypeOK, Chained, caches
<1>5. ASSUME NEW r \in Requests, PreSaleEvents(r) PROVE TypeOK' /\ Chained'
  BY <1>5 DEF PreSaleEvents, TypeOK, Chained, HasMinted, caches
<1>6. ASSUME NEW r \in Requests, NEW hasMinted \in BOOLEAN, Eligibility(r, hasMinted)
      PROVE  TypeOK' /\ Chained'
  BY <1>6, BadgeAssumption DEF Eligibility, HasMinted, TypeOK, Chained, BadgeAssumption
<1>7. ASSUME NEW r \in Requests, NEW due \in Dues, NEW n \in Networks, Fetched(r, due, n)
      PROVE  TypeOK' /\ Chained'
  <2>1. CASE End(r)
    BY <1>7, <2>1, ForgetType DEF Fetched, End, TypeOK, caches
  <2>2. CASE /\ Begin(r, "first") /\ chain' = [chain EXCEPT ![r] = n]
             /\ UNCHANGED <<dueDate, held, extends, again>>
    BY <1>7, <2>2, BeginType DEF Fetched, TypeOK, Chained, caches
  <2>. QED  BY <1>7, <2>1, <2>2 DEF Fetched
<1>8. ASSUME NEW r \in Requests, NEW due \in Dues, NEW n \in Networks, Refused(r, due, n)
      PROVE  TypeOK' /\ Chained'
  BY <1>8, ForgetType DEF Refused, End, TypeOK, caches
<1>9. ASSUME NEW r \in Requests, NEW due \in Dues, NEW n \in Networks, Verified(r, due, n)
      PROVE  TypeOK' /\ Chained'
  <2>1. DueDate(due) \in Nat
    BY FoundType, BadgeAssumption DEF DueDate, TypeOK, BadgeAssumption
  <2>2. chain[r] \in Networks
    BY <1>9 DEF Verified, Found, Chained
  <2>. QED  BY <1>9, <2>1, <2>2 DEF Verified, TypeOK, Chained, verify, caches
<1>10. ASSUME NEW r \in Requests, Insert(r) PROVE TypeOK' /\ Chained'
  <2>1. chain[r] \in Networks
    BY <1>10 DEF Insert, Chained
  <2>2. Row(r) \in Permissions
    BY <2>1 DEF Row, Permissions, TypeOK
  <2>. QED  BY <1>10, <2>1, <2>2, BeginType DEF Insert, TypeOK, Chained, caches
<1>11. ASSUME NEW r \in Requests, NEW due \in Dues, NEW n \in Networks, Again(r, due, n)
       PROVE  TypeOK' /\ Chained'
  <2>1. chain[r] \in Networks
    BY <1>11 DEF Again, Found, Chained
  <2>. QED  BY <1>11, <2>1, BeginType DEF Again, TypeOK, Chained, caches
<1>12. ASSUME NEW r \in Requests, NEW due \in Dues, NEW n \in Networks, Sign(r, due, n)
       PROVE  TypeOK' /\ Chained'
  <2>1. chain[r] \in Networks
    BY <1>12 DEF Sign, Found, Chained
  <2>2. signed' \subseteq Signatures
    BY <1>12, <2>1 DEF Sign, Signatures, TypeOK
  <2>. QED  BY <1>12, <2>2, ForgetType DEF Sign, End, TypeOK, caches
<1>13. ASSUME NEW r \in Requests, RequestFails(r) PROVE TypeOK' /\ Chained'
  <2>1. faults' \in Nat
    BY <1>13 DEF RequestFails, Fails, TypeOK
  <2>. QED  BY <1>13, <2>1, ForgetType DEF RequestFails, End, TypeOK, caches
<1>14. ASSUME NEW p \in Procs, Restart(p) PROVE TypeOK' /\ Chained'
  BY <1>14, ForgetType DEF Restart, TypeOK
<1>15. CASE UNCHANGED vars
  BY <1>15 DEF vars, TypeOK, Chained, verify, request, caches
<1>16. ASSUME NEW r \in Requests, FetchLast(r) PROVE TypeOK' /\ Chained'
  BY <1>16, LastRow DEF FetchLast, TypeOK, Chained, verify, caches
<1>. QED  BY <1>1, <1>2, <1>3, <1>4, <1>5, <1>6, <1>7, <1>8, <1>9, <1>10, <1>11, <1>12,
             <1>13, <1>14, <1>15, <1>16 DEF Next, Answer

-----------------------------------------------------------------------------
LEMMA RecordedStep == TypeOK /\ Chained /\ Recorded /\ LastRead /\ [Next]_vars => Recorded'
<1>. SUFFICES ASSUME TypeOK, Chained, Recorded, LastRead, [Next]_vars PROVE Recorded'
  OBVIOUS
<1>1. ASSUME Tick PROVE Recorded'
  BY <1>1 DEF Tick, TypeOK, Recorded, SignatureRecorded, Row, verify, request, caches
<1>2. ASSUME Buy PROVE Recorded'
  BY <1>2 DEF Buy, TypeOK, Recorded, SignatureRecorded, Row, verify, request, caches
<1>3. ASSUME NEW s \in signed, Mint(s) PROVE Recorded'
  BY <1>3 DEF Mint, TypeOK, Recorded, SignatureRecorded, Row, verify, request, caches
<1>4. ASSUME NEW r \in Requests, Receive(r) PROVE Recorded'
  <2>1. \A x \in Requests : look'[x] = "second" => look[x] = "second" /\ Row(x)' = Row(x)
    BY <1>4 DEF Receive, Begin, Row, TypeOK
  <2>2. \A d \in held'[r] : \E h \in mint_history : h.due = d
    <3>1. held'[r] = {s.due : s \in signed}
      BY <1>4 DEF Receive, TypeOK
    <3>2. SignatureRecorded
      BY DEF Recorded
    <3>3. ASSUME NEW s \in signed PROVE \E h \in mint_history : h.due = s.due
      <4>1. [due |-> s.due, network |-> s.asked] \in mint_history
        BY <3>2 DEF SignatureRecorded
      <4>. QED  BY <4>1
    <3>. QED  BY <3>1, <3>3
  <2>3. \A x \in Requests : x # r => held'[x] = held[x]
    BY <1>4 DEF Receive, TypeOK
  <2>. QED  BY <1>4, <2>1, <2>2, <2>3 DEF Receive, Recorded, SignatureRecorded
<1>5. ASSUME NEW r \in Requests, PreSaleEvents(r) PROVE Recorded'
  BY <1>5 DEF PreSaleEvents, TypeOK, Recorded, SignatureRecorded, Row, caches
<1>6. ASSUME NEW r \in Requests, NEW hasMinted \in BOOLEAN, Eligibility(r, hasMinted)
      PROVE  Recorded'
  BY <1>6 DEF Eligibility, TypeOK, Recorded, SignatureRecorded, Row
<1>7. ASSUME NEW r \in Requests, NEW due \in Dues, NEW n \in Networks, Fetched(r, due, n)
      PROVE  Recorded'
  <2>1. \A x \in Requests : look'[x] = "second" => look[x] = "second" /\ Row(x)' = Row(x)
    <3>1. CASE End(r)
      BY <3>1 DEF End, Forget, Row
    <3>2. CASE Begin(r, "first") /\ chain' = [chain EXCEPT ![r] = n] /\ UNCHANGED dueDate
      BY <3>2 DEF Begin, Row, TypeOK
    <3>. QED  BY <1>7, <3>1, <3>2 DEF Fetched
  <2>2. \A x \in Requests : held'[x] \subseteq held[x]
    BY <1>7 DEF Fetched, End, Forget, TypeOK
  <2>. QED  BY <1>7, <2>1, <2>2 DEF Fetched, Recorded, SignatureRecorded
<1>8. ASSUME NEW r \in Requests, NEW due \in Dues, NEW n \in Networks, Refused(r, due, n)
      PROVE  Recorded'
  BY <1>8 DEF Refused, TypeOK, Recorded, SignatureRecorded, Row, caches, End, Forget
<1>9. ASSUME NEW r \in Requests, NEW due \in Dues, NEW n \in Networks, Verified(r, due, n)
      PROVE  Recorded'
  BY <1>9 DEF Verified, TypeOK, Recorded, SignatureRecorded, Row, verify, caches
<1>10. ASSUME NEW r \in Requests, Insert(r) PROVE Recorded'
  BY <1>10 DEF Insert, TypeOK, Recorded, SignatureRecorded, Row, caches, Begin
<1>11. ASSUME NEW r \in Requests, NEW due \in Dues, NEW n \in Networks, Again(r, due, n)
       PROVE  Recorded'
  BY <1>11 DEF Again, TypeOK, Recorded, SignatureRecorded, Row, caches, Begin
<1>12. ASSUME NEW r \in Requests, NEW due \in Dues, NEW n \in Networks, Sign(r, due, n)
       PROVE  Recorded'
  <2>1. /\ Row(r) \in mint_history
        /\ \E h \in mint_history : h.network = n /\ h.due >= dueDate[r]
    <3>1. Row(r) \in mint_history
      BY <1>12 DEF Sign, Recorded
    <3>2. Row(r).due = dueDate[r] /\ Row(r).network = chain[r] /\ dueDate[r] \in Nat
      BY DEF Row, TypeOK
    <3>3. CASE n = chain[r]
      BY <3>1, <3>2, <3>3
    <3>4. CASE n = lastSignatureHistory[r].network
      BY <1>12, <3>1, <3>2, <3>4 DEF Sign, Found, LastRead
    <3>. QED  BY <1>12, <3>1, <3>3, <3>4 DEF Sign, Found
  <2>2. ASSUME NEW s \in signed'
        PROVE
          /\ [due |-> s.due, network |-> s.asked] \in mint_history
          /\ \E h \in mint_history : h.network = s.network /\ h.due >= s.due
    <3>1. CASE s \in signed
      BY <3>1 DEF Recorded, SignatureRecorded
    <3>2. CASE s \notin signed
      <4>1. s.due = dueDate[r] /\ s.asked = chain[r] /\ s.network = n
        BY <1>12, <3>2 DEF Sign
      <4>. QED  BY <2>1, <4>1 DEF Row
    <3>. QED  BY <3>1, <3>2
  <2>3. \A x \in Requests : look'[x] = "second" => x # r /\ look[x] = "second" /\ Row(x)' = Row(x)
    BY <1>12 DEF Sign, End, Forget, Row
  <2>4. \A x \in Requests : held'[x] \subseteq held[x]
    BY <1>12 DEF Sign, End, Forget, TypeOK
  <2>. QED  BY <1>12, <2>2, <2>3, <2>4 DEF Sign, Recorded, SignatureRecorded
<1>13. ASSUME NEW r \in Requests, RequestFails(r) PROVE Recorded'
  BY <1>13 DEF RequestFails, TypeOK, Recorded, SignatureRecorded, Row, caches, End, Forget
<1>14. ASSUME NEW p \in Procs, Restart(p) PROVE Recorded'
  BY <1>14 DEF Restart, TypeOK, Recorded, SignatureRecorded, Row, Forget
<1>15. CASE UNCHANGED vars
  BY <1>15 DEF vars, TypeOK, Recorded, SignatureRecorded, Row, verify, request, caches
<1>16. ASSUME NEW r \in Requests, FetchLast(r) PROVE Recorded'
  BY <1>16 DEF FetchLast, TypeOK, Recorded, SignatureRecorded, Row, verify, caches
<1>. QED  BY <1>1, <1>2, <1>3, <1>4, <1>5, <1>6, <1>7, <1>8, <1>9, <1>10, <1>11, <1>12,
             <1>13, <1>14, <1>15, <1>16 DEF Next, Answer

(* Only FetchLast reads a last row; a request that has one keeps it, with
   what it holds, until it goes on. *)
LEMMA LastReadStep == TypeOK /\ Recorded /\ LastRead /\ [Next]_vars => LastRead'
<1>. SUFFICES ASSUME TypeOK, Recorded, LastRead, [Next]_vars PROVE LastRead'
  OBVIOUS
<1>. DEFINE Kept(x) == /\ pc[x] = "found" /\ held'[x] = held[x]
                       /\ lastSignatureHistory'[x] = lastSignatureHistory[x]
                       /\ look'[x] = look[x] /\ dueDate'[x] = dueDate[x]
            Grown == mint_history \subseteq mint_history'
<1>0. ASSUME Grown, NEW x \in Requests, Kept(x), pc'[x] = "found"
      PROVE  /\ \A d \in held'[x] : d <= lastSignatureHistory'[x].due
             /\ look'[x] = "second" => /\ lastSignatureHistory'[x] \in mint_history'
                                      /\ lastSignatureHistory'[x].due >= dueDate'[x]
  BY <1>0 DEF LastRead
<1>1. ASSUME Tick PROVE Grown /\ \A x \in Requests : pc'[x] = "found" => Kept(x)
  BY <1>1 DEF Tick, request
<1>2. ASSUME Buy PROVE Grown /\ \A x \in Requests : pc'[x] = "found" => Kept(x)
  BY <1>2 DEF Buy, request
<1>3. ASSUME NEW s \in signed, Mint(s)
      PROVE  Grown /\ \A x \in Requests : pc'[x] = "found" => Kept(x)
  BY <1>3 DEF Mint, request
<1>4. ASSUME NEW r \in Requests, Receive(r)
      PROVE  Grown /\ \A x \in Requests : pc'[x] = "found" => Kept(x)
  BY <1>4 DEF Receive, Begin, TypeOK
<1>5. ASSUME NEW r \in Requests, PreSaleEvents(r)
      PROVE  Grown /\ \A x \in Requests : pc'[x] = "found" => Kept(x)
  BY <1>5 DEF PreSaleEvents, TypeOK
<1>6. ASSUME NEW r \in Requests, NEW hasMinted \in BOOLEAN, Eligibility(r, hasMinted)
      PROVE  Grown /\ \A x \in Requests : pc'[x] = "found" => Kept(x)
  BY <1>6 DEF Eligibility, TypeOK
<1>7. ASSUME NEW r \in Requests, NEW due \in Dues, NEW n \in Networks, Fetched(r, due, n)
      PROVE  Grown /\ \A x \in Requests : pc'[x] = "found" => Kept(x)
  BY <1>7 DEF Fetched, Begin, End, Forget, TypeOK
<1>8. ASSUME NEW r \in Requests, NEW due \in Dues, NEW n \in Networks, Refused(r, due, n)
      PROVE  Grown /\ \A x \in Requests : pc'[x] = "found" => Kept(x)
  BY <1>8 DEF Refused, End, Forget, TypeOK
<1>9. ASSUME NEW r \in Requests, NEW due \in Dues, NEW n \in Networks, Verified(r, due, n)
      PROVE  Grown /\ \A x \in Requests : pc'[x] = "found" => Kept(x)
  BY <1>9 DEF Verified, TypeOK
<1>10. ASSUME NEW r \in Requests, Insert(r)
       PROVE  Grown /\ \A x \in Requests : pc'[x] = "found" => Kept(x)
  BY <1>10 DEF Insert, Begin, TypeOK
<1>11. ASSUME NEW r \in Requests, NEW due \in Dues, NEW n \in Networks, Again(r, due, n)
       PROVE  Grown /\ \A x \in Requests : pc'[x] = "found" => Kept(x)
  BY <1>11 DEF Again, Begin, TypeOK
<1>12. ASSUME NEW r \in Requests, NEW due \in Dues, NEW n \in Networks, Sign(r, due, n)
       PROVE  Grown /\ \A x \in Requests : pc'[x] = "found" => Kept(x)
  BY <1>12 DEF Sign, End, Forget, TypeOK
<1>13. ASSUME NEW r \in Requests, RequestFails(r)
       PROVE  Grown /\ \A x \in Requests : pc'[x] = "found" => Kept(x)
  BY <1>13 DEF RequestFails, End, Forget, TypeOK
<1>14. ASSUME NEW p \in Procs, Restart(p)
       PROVE  Grown /\ \A x \in Requests : pc'[x] = "found" => Kept(x)
  BY <1>14 DEF Restart, Forget, TypeOK
<1>15. CASE UNCHANGED vars
  BY <1>15 DEF vars, LastRead, request
<1>16. ASSUME NEW r \in Requests, FetchLast(r) PROVE LastRead'
  <2>1. /\ UNCHANGED <<mint_history, held, look, dueDate>>
        /\ \A x \in Requests : x # r => pc'[x] = pc[x]
    BY <1>16 DEF FetchLast, TypeOK
  <2>2. /\ \A d \in held[r] : d <= lastSignatureHistory'[r].due
        /\ look[r] = "second" => /\ lastSignatureHistory'[r] \in mint_history
                                /\ lastSignatureHistory'[r].due >= dueDate[r]
    <3>1. \A d \in held[r] : \E h \in mint_history : h.due = d
      BY DEF Recorded
    <3>2. look[r] = "second" => \E h \in mint_history : h.due = dueDate[r]
      BY DEF Recorded, Row
    <3>3. \A h \in mint_history : /\ lastSignatureHistory'[r] \in mint_history
                                  /\ h.due <= lastSignatureHistory'[r].due
      BY <1>16, LastRow
    <3>4. \A h \in mint_history : h.due \in Nat
      BY Rows
    <3>. QED  BY <3>1, <3>2, <3>3, <3>4
  <2>3. \A x \in Requests : x # r => lastSignatureHistory'[x] = lastSignatureHistory[x]
    BY <1>16, LastRow
  <2>. QED  BY <2>1, <2>2, <2>3 DEF LastRead
<1>17. (Grown /\ \A x \in Requests : pc'[x] = "found" => Kept(x)) => LastRead'
  <2>. HIDE DEF Grown, Kept
  <2>. QED  BY <1>0 DEF LastRead
<1>. HIDE DEF Grown, Kept
<1>. QED  BY <1>1, <1>2, <1>3, <1>4, <1>5, <1>6, <1>7, <1>8, <1>9, <1>10, <1>11, <1>12,
             <1>13, <1>14, <1>15, <1>16, <1>17 DEF Next, Answer

LEMMA ExtendingStep == TypeOK /\ Chained /\ LastRead /\ Extending /\ [Next]_vars => Extending'
<1>. SUFFICES ASSUME TypeOK, Chained, LastRead, Extending, [Next]_vars PROVE Extending'
  OBVIOUS
<1>1. ASSUME Tick PROVE Extending'
  BY <1>1 DEF Tick, TypeOK, Extending, NotExtended, verify, request, caches
<1>2. ASSUME Buy PROVE Extending'
  BY <1>2 DEF Buy, TypeOK, Extending, NotExtended, verify, request, caches
<1>3. ASSUME NEW s \in signed, Mint(s) PROVE Extending'
  BY <1>3 DEF Mint, TypeOK, Extending, NotExtended, verify, request, caches
<1>4. ASSUME NEW r \in Requests, Receive(r) PROVE Extending'
  BY <1>4 DEF Receive, TypeOK, Extending, NotExtended, caches, Begin
<1>5. ASSUME NEW r \in Requests, PreSaleEvents(r) PROVE Extending'
  BY <1>5 DEF PreSaleEvents, TypeOK, Extending, NotExtended, caches
<1>6. ASSUME NEW r \in Requests, NEW hasMinted \in BOOLEAN, Eligibility(r, hasMinted)
      PROVE  Extending'
  BY <1>6 DEF Eligibility, TypeOK, Extending, NotExtended
<1>7. ASSUME NEW r \in Requests, NEW due \in Dues, NEW n \in Networks, Fetched(r, due, n)
      PROVE  Extending'
  BY <1>7 DEF Fetched, TypeOK, Extending, NotExtended, caches, Begin, End, Forget
<1>8. ASSUME NEW r \in Requests, NEW due \in Dues, NEW n \in Networks, Refused(r, due, n)
      PROVE  Extending'
  BY <1>8 DEF Refused, TypeOK, Extending, NotExtended, caches, End, Forget
<1>9. ASSUME NEW r \in Requests, NEW due \in Dues, NEW n \in Networks, Verified(r, due, n)
      PROVE  Extending'
  <2>1. DueDate(due) # due => ~\E d \in held[r] : d > now
    <3>. SUFFICES ASSUME due = 0, NEW d \in held[r] PROVE ~(d > now)
      BY DEF DueDate
    <3>. DEFINE last == lastSignatureHistory[r].due
    <3>1. d <= last
      BY <1>9 DEF Verified, Found, LastRead
    <3>2. d \in Nat /\ last \in Nat /\ now \in Nat
      BY Rows DEF TypeOK
    <3>3. CASE last > now
      BY <1>9, <3>2, <3>3 DEF Verified, Found, IsLive
    <3>4. CASE ~(last > now)
      <4>. HIDE DEF last
      <4>. QED  BY <3>1, <3>2, <3>4
    <3>. QED  BY <3>3, <3>4
  <2>. QED  BY <1>9, <2>1 DEF Verified, Extending, NotExtended, TypeOK
<1>10. ASSUME NEW r \in Requests, Insert(r) PROVE Extending'
  BY <1>10 DEF Insert, TypeOK, Extending, NotExtended, caches, Begin
<1>11. ASSUME NEW r \in Requests, NEW due \in Dues, NEW n \in Networks, Again(r, due, n)
       PROVE  Extending'
  BY <1>11 DEF Again, TypeOK, Extending, NotExtended, caches, Begin
<1>12. ASSUME NEW r \in Requests, NEW due \in Dues, NEW n \in Networks, Sign(r, due, n)
       PROVE  Extending'
  BY <1>12 DEF Sign, TypeOK, Extending, NotExtended, caches, End, Forget
<1>13. ASSUME NEW r \in Requests, RequestFails(r) PROVE Extending'
  BY <1>13 DEF RequestFails, TypeOK, Extending, NotExtended, caches, End, Forget
<1>14. ASSUME NEW p \in Procs, Restart(p) PROVE Extending'
  BY <1>14 DEF Restart, TypeOK, Extending, NotExtended, Forget
<1>15. CASE UNCHANGED vars
  BY <1>15 DEF vars, TypeOK, Extending, NotExtended, verify, request, caches
<1>16. ASSUME NEW r \in Requests, FetchLast(r) PROVE Extending'
  BY <1>16 DEF FetchLast, TypeOK, Extending, NotExtended, verify, caches
<1>. QED  BY <1>1, <1>2, <1>3, <1>4, <1>5, <1>6, <1>7, <1>8, <1>9, <1>10, <1>11, <1>12,
             <1>13, <1>14, <1>15, <1>16 DEF Next, Answer

-----------------------------------------------------------------------------
LEMMA SeenStep == TypeOK /\ Chained /\ Seen /\ [Next]_vars => Seen'
<1>. SUFFICES ASSUME TypeOK, Chained, Seen, [Next]_vars PROVE Seen'
  OBVIOUS
<1>1. ASSUME Tick PROVE Seen'
  BY <1>1 DEF Tick, TypeOK, Seen, NotSignedAfterMint, verify, request, caches
<1>2. ASSUME Buy PROVE Seen'
  BY <1>2 DEF Buy, TypeOK, Seen, NotSignedAfterMint, verify, request, caches
<1>3. ASSUME NEW s \in signed, Mint(s) PROVE Seen'
  BY <1>3 DEF Mint, TypeOK, Seen, NotSignedAfterMint, verify, request, caches
<1>4. ASSUME NEW r \in Requests, Receive(r) PROVE Seen'
  BY <1>4 DEF Receive, TypeOK, Seen, NotSignedAfterMint, HasMinted, caches, Begin,
     AlreadyMinted
<1>5. ASSUME NEW r \in Requests, PreSaleEvents(r) PROVE Seen'
  BY <1>5 DEF PreSaleEvents, TypeOK, Seen, NotSignedAfterMint, HasMinted, caches
<1>6. ASSUME NEW r \in Requests, NEW hasMinted \in BOOLEAN, Eligibility(r, hasMinted)
      PROVE  Seen'
  BY <1>6 DEF Eligibility, TypeOK, Seen, NotSignedAfterMint, HasMinted
<1>7. ASSUME NEW r \in Requests, NEW due \in Dues, NEW n \in Networks, Fetched(r, due, n)
      PROVE  Seen'
  BY <1>7 DEF Fetched, TypeOK, Seen, NotSignedAfterMint, HasMinted, caches, Begin,
     AlreadyMinted, End, Forget
<1>8. ASSUME NEW r \in Requests, NEW due \in Dues, NEW n \in Networks, Refused(r, due, n)
      PROVE  Seen'
  BY <1>8 DEF Refused, TypeOK, Seen, NotSignedAfterMint, caches, End, Forget
<1>9. ASSUME NEW r \in Requests, NEW due \in Dues, NEW n \in Networks, Verified(r, due, n)
      PROVE  Seen'
  BY <1>9 DEF Verified, TypeOK, Seen, NotSignedAfterMint, verify, caches
<1>10. ASSUME NEW r \in Requests, Insert(r) PROVE Seen'
  BY <1>10 DEF Insert, TypeOK, Seen, NotSignedAfterMint, HasMinted, caches, Begin,
     AlreadyMinted
<1>11. ASSUME NEW r \in Requests, NEW due \in Dues, NEW n \in Networks, Again(r, due, n)
       PROVE  Seen'
  BY <1>11 DEF Again, TypeOK, Seen, NotSignedAfterMint, HasMinted, caches, Begin,
     AlreadyMinted
<1>12. ASSUME NEW r \in Requests, NEW due \in Dues, NEW n \in Networks, Sign(r, due, n)
       PROVE  Seen'
  BY <1>12 DEF Sign, TypeOK, Seen, NotSignedAfterMint, caches, End, Forget
<1>13. ASSUME NEW r \in Requests, RequestFails(r) PROVE Seen'
  BY <1>13 DEF RequestFails, TypeOK, Seen, NotSignedAfterMint, caches, End, Forget
<1>14. ASSUME NEW p \in Procs, Restart(p) PROVE Seen'
  BY <1>14 DEF Restart, TypeOK, Seen, NotSignedAfterMint, Forget
<1>15. CASE UNCHANGED vars
  BY <1>15 DEF vars, TypeOK, Seen, NotSignedAfterMint, verify, request, caches
<1>16. ASSUME NEW r \in Requests, FetchLast(r) PROVE Seen'
  BY <1>16 DEF FetchLast, TypeOK, Seen, NotSignedAfterMint, verify, caches
<1>. QED  BY <1>1, <1>2, <1>3, <1>4, <1>5, <1>6, <1>7, <1>8, <1>9, <1>10, <1>11, <1>12,
             <1>13, <1>14, <1>15, <1>16 DEF Next, Answer

LEMMA OnceStep == TypeOK /\ Chained /\ Seen /\ Once /\ [Next]_vars => Once'
<1>. SUFFICES ASSUME TypeOK, Chained, Seen, Once, [Next]_vars PROVE Once'
  OBVIOUS
<1>1. ASSUME Tick PROVE Once'
  BY <1>1 DEF Tick, TypeOK, Seen, Once, verify, request, caches
<1>2. ASSUME Buy PROVE Once'
  BY <1>2 DEF Buy, TypeOK, Seen, Once, verify, request, caches
<1>3. ASSUME NEW s \in signed, Mint(s) PROVE Once'
  BY <1>3 DEF Mint, TypeOK, Seen, Once, verify, request, caches
<1>4. ASSUME NEW r \in Requests, Receive(r) PROVE Once'
  <2>1. ProcOf[r] \in Procs
    BY BadgeAssumption DEF BadgeAssumption
  <2>2. PICK stage \in {"fetch", "first"} : Begin(r, stage)
    BY <1>4 DEF Receive
  <2>3. ~again[r]
    BY <1>4 DEF Receive, Once
  <2>. QED  BY <1>4, <2>1, <2>2, <2>3 DEF Receive, TypeOK, Seen, Once, caches, Begin
<1>5. ASSUME NEW r \in Requests, PreSaleEvents(r) PROVE Once'
  BY <1>5 DEF PreSaleEvents, TypeOK, Seen, Once, HasMinted, caches
<1>6. ASSUME NEW r \in Requests, NEW hasMinted \in BOOLEAN, Eligibility(r, hasMinted)
      PROVE  Once'
  BY <1>6 DEF Eligibility, TypeOK, Seen, Once, HasMinted
<1>7. ASSUME NEW r \in Requests, NEW due \in Dues, NEW n \in Networks, Fetched(r, due, n)
      PROVE  Once'
  <2>1. ProcOf[r] \in Procs
    BY BadgeAssumption DEF BadgeAssumption
  <2>2. CASE End(r)
    BY <1>7, <2>2 DEF Fetched, TypeOK, Once, caches, End, Forget
  <2>3. CASE Begin(r, "first") /\ UNCHANGED again
    BY <1>7, <2>1, <2>3 DEF Fetched, TypeOK, Seen, Once, caches, Begin, Found
  <2>. QED  BY <1>7, <2>2, <2>3 DEF Fetched
<1>8. ASSUME NEW r \in Requests, NEW due \in Dues, NEW n \in Networks, Refused(r, due, n)
      PROVE  Once'
  BY <1>8 DEF Refused, TypeOK, Seen, Once, caches, End, Forget
<1>9. ASSUME NEW r \in Requests, NEW due \in Dues, NEW n \in Networks, Verified(r, due, n)
      PROVE  Once'
  BY <1>9 DEF Verified, TypeOK, Seen, Once, verify, caches, Found
<1>10. ASSUME NEW r \in Requests, Insert(r) PROVE Once'
  <2>1. ProcOf[r] \in Procs
    BY BadgeAssumption DEF BadgeAssumption
  <2>. QED  BY <1>10, <2>1 DEF Insert, TypeOK, Seen, Once, HasMinted, caches, Begin,
               AlreadyMinted
<1>11. ASSUME NEW r \in Requests, NEW due \in Dues, NEW n \in Networks, Again(r, due, n)
       PROVE  Once'
  <2>1. ProcOf[r] \in Procs
    BY BadgeAssumption DEF BadgeAssumption
  <2>. QED  BY <1>11, <2>1 DEF Again, TypeOK, Seen, Once, HasMinted, caches, Begin,
               AlreadyMinted, Found
<1>12. ASSUME NEW r \in Requests, NEW due \in Dues, NEW n \in Networks, Sign(r, due, n)
       PROVE  Once'
  BY <1>12 DEF Sign, TypeOK, Seen, Once, caches, End, Forget, Found
<1>13. ASSUME NEW r \in Requests, RequestFails(r) PROVE Once'
  BY <1>13 DEF RequestFails, TypeOK, Seen, Once, caches, End, Forget
<1>14. ASSUME NEW p \in Procs, Restart(p) PROVE Once'
  BY <1>14 DEF Restart, TypeOK, Seen, Once, Forget
<1>15. CASE UNCHANGED vars
  BY <1>15 DEF vars, TypeOK, Seen, Once, verify, request, caches
<1>16. ASSUME NEW r \in Requests, FetchLast(r) PROVE Once'
  BY <1>16 DEF FetchLast, TypeOK, Seen, Once, verify, caches
<1>. QED  BY <1>1, <1>2, <1>3, <1>4, <1>5, <1>6, <1>7, <1>8, <1>9, <1>10, <1>11, <1>12,
             <1>13, <1>14, <1>15, <1>16 DEF Next, Answer

-----------------------------------------------------------------------------
LEMMA Induction == Spec => []IInv
<1>1. IInv /\ [Next]_vars => IInv'
  BY TypeStep, RecordedStep, LastReadStep, ExtendingStep, SeenStep, OnceStep DEF IInv
<1>. QED  BY InitIInv, <1>1, PTL DEF Spec

(* Every variable keeps its type. *)
THEOREM BadgeTypes == Spec => []TypeOK
<1>1. IInv => TypeOK
  BY DEF IInv
<1>. QED  BY Induction, <1>1, PTL

(* A signature has a row under its own due date and the network it was
   asked for, and the network it is signed for has one that does not fall
   due before it. *)
THEOREM SignaturesRecorded == Spec => []SignatureRecorded
<1>1. IInv => SignatureRecorded
  BY DEF IInv, Recorded
<1>. QED  BY Induction, <1>1, PTL

(* Asking again never extends a permission that was handed out. *)
THEOREM PermissionsNotExtended == Spec => []NotExtended
<1>1. IInv => NotExtended
  BY DEF IInv, Extending
<1>. QED  BY Induction, <1>1, PTL

(* A badge that was minted when the last verification of a request began is
   not signed for. *)
THEOREM MintedIsNotSigned == Spec => []NotSignedAfterMint
<1>1. IInv => NotSignedAfterMint
  BY DEF IInv, Seen
<1>. QED  BY Induction, <1>1, PTL

(* execute calls itself at most once. *)
THEOREM ExecuteEnds == Spec => []CallsItselfOnce
<1>1. IInv => CallsItselfOnce
  BY DEF IInv, Seen, Once, CallsItselfOnce
<1>. QED  BY Induction, <1>1, PTL
=============================================================================
