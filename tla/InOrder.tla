------------------------------- MODULE InOrder -------------------------------
(***************************************************************************)
(* What the event pump promises a receiver: the messages received for it    *)
(* are dealt with one after the other, in the order they were received,     *)
(* each exactly once, and how each was dealt with never changes.  EventPump *)
(* implements this module.                                                 *)
(***************************************************************************)
EXTENDS Naturals, Sequences

CONSTANTS Receiver, Message

VARIABLES
  arrived,  \* the messages received for each receiver, in order
  dealt     \* how the first of them were dealt with

order_vars == <<arrived, dealt>>

OrderInit ==
  /\ arrived = [r \in Receiver |-> <<>>]
  /\ dealt = [r \in Receiver |-> <<>>]

Arrive(r, m) ==
  /\ \A o \in Receiver : \A n \in DOMAIN arrived[o] : arrived[o][n] # m
  /\ arrived' = [arrived EXCEPT ![r] = Append(@, m)]
  /\ UNCHANGED dealt

DealWith(r, how) ==
  /\ Len(dealt[r]) < Len(arrived[r])
  /\ dealt' = [dealt EXCEPT ![r] = Append(@, how)]
  /\ UNCHANGED arrived

OrderNext ==
  \E r \in Receiver :
    \/ \E m \in Message : Arrive(r, m)
    \/ \E how \in {"handled", "skipped"} : DealWith(r, how)

OrderSpec == OrderInit /\ [][OrderNext]_order_vars
=============================================================================
