------------------------------ MODULE Fulfilment ------------------------------
(***************************************************************************)
(* What the purchase pipeline promises, whatever its jobs do and whenever  *)
(* they stop: an order is credited by one exact bank credit of its own,    *)
(* its tokens are dispatched at most once and only after that, and it is   *)
(* acknowledged only when they were.  That they are dispatched at all is   *)
(* not promised here.                                                      *)
(***************************************************************************)
EXTENDS Naturals

CONSTANTS Orders, Txs, OrderOf, Exact, NoTx

VARIABLES
  credited,     (* the credit that pays for an order, or NoTx    *)
  delivered,    (* dispatches of an order's tokens on the chain  *)
  acknowledged  (* whether the dispatch of an order is recorded  *)

vars == <<credited, delivered, acknowledged>>

Init ==
  /\ credited     = [o \in Orders |-> NoTx]
  /\ delivered    = [o \in Orders |-> 0]
  /\ acknowledged = [o \in Orders |-> FALSE]

Credit(o, t) ==
  /\ credited[o] = NoTx
  /\ t \in Exact /\ OrderOf[t] = o
  /\ credited' = [credited EXCEPT ![o] = t]
  /\ UNCHANGED <<delivered, acknowledged>>

Deliver(o) ==
  /\ credited[o] # NoTx
  /\ delivered[o] = 0
  /\ delivered' = [delivered EXCEPT ![o] = 1]
  /\ UNCHANGED <<credited, acknowledged>>

Acknowledge(o) ==
  /\ delivered[o] = 1
  /\ ~acknowledged[o]
  /\ acknowledged' = [acknowledged EXCEPT ![o] = TRUE]
  /\ UNCHANGED <<credited, delivered>>

Next ==
  \E o \in Orders : \/ \E t \in Txs : Credit(o, t)
                    \/ Deliver(o)
                    \/ Acknowledge(o)

Spec == Init /\ [][Next]_vars
=============================================================================
