-------------------------- MODULE AtMostOnceEffect --------------------------
(***************************************************************************)
(* What dispatch promises about one native effect per message: it happens  *)
(* at most once, and a receipt is only ever recorded for one that happened. *)
(***************************************************************************)
EXTENDS Naturals, Sequences

CONSTANTS Message, Attempt

VARIABLES
  effects,    \* the attempts whose effect took place, in order
  receipted   \* messages with a durable receipt

Init ==
  /\ effects = [m \in Message |-> <<>>]
  /\ receipted = {}

Effect(m) ==
  /\ effects[m] = <<>>
  /\ \E a \in Attempt : effects' = [effects EXCEPT ![m] = <<a>>]
  /\ UNCHANGED receipted

Receipt(m) ==
  /\ effects[m] # <<>>
  /\ receipted' = receipted \cup {m}
  /\ UNCHANGED effects

Next == \E m \in Message : Effect(m) \/ Receipt(m)

Spec == Init /\ [][Next]_<<effects, receipted>>
=============================================================================
