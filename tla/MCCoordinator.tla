--------------------------- MODULE MCCoordinator ---------------------------
(***************************************************************************)
(* Instances of Coordinator for TLC.  One edge between a sender s and a     *)
(* receiver t whose next incarnation is t2; two grants of the edge, the     *)
(* newer one short-lived; one message, a steer or a suggestion.  Its        *)
(* receiver has it delivered, or reads it from its mailbox, in which case   *)
(* t2 is not registered: a claim is not tied to an incarnation.             *)
(***************************************************************************)
EXTENDS Coordinator

CONSTANT Parts  \* those of "mailbox" and "delivery" that may be used
VARIABLE part   \* the one that is

CONSTANTS s, t, t2, r1, r2, a1, a2, g1, g2, steer, suggest

MCInit == part \in Parts /\ Init

MCNext ==
  /\ UNCHANGED part
  /\ Next
  /\ part = "mailbox" => UNCHANGED <<admission, submission, task[t2]>>
  /\ part = "delivery" => UNCHANGED mailbox

MCSpec == MCInit /\ [][MCNext]_<<part, vars>>

MCTaskOf == [i \in Incarnation |-> IF i = s THEN "sender" ELSE "receiver"]

\* The receiver may register without a binding and be attached later.
MCRegistration == [i \in Incarnation |->
  CASE i = s  -> {<<NoRun, NoRef, "idle">>}
    [] i = t  -> {<<r1, a1, "idle">>, <<r1, NoRef, "idle">>}
    [] OTHER  -> {<<r1, a1, "idle">>}]

MCMaxTaskRev == [i \in Incarnation |-> IF i = t THEN 1 ELSE 0]

MCGrantOf == [g \in Grant |->
  [relationship |-> "r", source |-> s, target |-> t,
   version |-> IF g = g1 THEN 1 ELSE 2, type |-> "supervisor",
   intents |-> {"steer", "suggest"}, modes |-> {"queue"},
   expires |-> IF g = g1 THEN 9 ELSE 1]]

MCEnvelope == [m \in Message |->
  [relationship |-> "r", source |-> s, target |-> t,
   intent |-> IF m = steer THEN "steer" ELSE "suggest", mode |-> "queue",
   fresh |-> IF m = steer THEN {r1} ELSE {}, expires |-> 2]]
=============================================================================
