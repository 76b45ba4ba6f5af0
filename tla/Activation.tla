------------------------------ MODULE Activation ------------------------------
(***************************************************************************)
(* What one activation promises to the sender of the message and to the     *)
(* event pump: the receiver decides once, the tools of the business turn    *)
(* run in their order, each at most once and only for an accepted message,  *)
(* and the handler is bound to a turn that did all it was asked for.        *)
(* LiveTurn implements this module.                                         *)
(***************************************************************************)
EXTENDS Naturals

CONSTANTS
  Choice,      \* what a receiver may decide
  NoChoice,    \* it has not decided
  Accepted,    \* the choice that admits the message
  Tools        \* the number of tools the business turn must call

VARIABLES
  choice,   \* the decision of the receiver
  ran,      \* how many tools of the business turn ran
  bound     \* the handler is bound to a completed turn

act_vars == <<choice, ran, bound>>

ActivationInit == choice = NoChoice /\ ran = 0 /\ bound = FALSE

Decides(c) ==
  /\ choice = NoChoice
  /\ choice' = c
  /\ UNCHANGED <<ran, bound>>

RunsTool ==
  /\ choice = Accepted /\ ~bound
  /\ ran < Tools
  /\ ran' = ran + 1
  /\ UNCHANGED <<choice, bound>>

Binds ==
  /\ choice # NoChoice /\ ~bound
  /\ (choice = Accepted) => (ran = Tools)
  /\ bound' = TRUE
  /\ UNCHANGED <<choice, ran>>

ActivationNext == (\E c \in Choice : Decides(c)) \/ RunsTool \/ Binds

ActivationSpec == ActivationInit /\ [][ActivationNext]_act_vars
=============================================================================
