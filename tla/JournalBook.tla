----------------------------- MODULE JournalBook -----------------------------
(***************************************************************************)
(* What the ledger promises, whoever runs it and wherever it stops: the    *)
(* movements of a network are entered in the order in which the chain has  *)
(* them, none is taken out again, and none is passed over but those that a *)
(* read of the chain lost.  That all are entered is not promised here.     *)
(***************************************************************************)
CONSTANTS
  Movements,
  Earlier    (* the movements of its network before a movement *)

VARIABLES
  chain,  (* movements on the chain    *)
  book,   (* movements in the journal  *)
  lost    (* movements a read lost     *)

vars == <<chain, book, lost>>

Init == chain = {} /\ book = {} /\ lost = {}

(* A network goes on from where it was. *)
Grow ==
  /\ chain' \in SUBSET Movements
  /\ chain \subseteq chain'
  /\ \A m \in chain' : Earlier[m] \subseteq chain'
  /\ UNCHANGED <<book, lost>>

Lose ==
  /\ lost' \in SUBSET chain
  /\ lost \subseteq lost'
  /\ UNCHANGED <<chain, book>>

Enter(m) ==
  /\ m \in chain \ book
  /\ Earlier[m] \subseteq book \cup lost
  /\ book' = book \cup {m}
  /\ UNCHANGED <<chain, lost>>

Next == Grow \/ Lose \/ \E m \in Movements : Enter(m)

Spec == Init /\ [][Next]_vars
=============================================================================
