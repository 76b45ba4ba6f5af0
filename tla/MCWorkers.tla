------------------------------ MODULE MCWorkers ------------------------------
(***************************************************************************)
(* Those that work for the coordinator, one kind at a time, while the other  *)
(* rests in its initial state.  The dispatcher: one steer, two workers, one *)
(* of which has an adapter for only one of the two references the receiver  *)
(* may be attached to.  The event pump: two pumps for a receiver r1.         *)
(***************************************************************************)
EXTENDS Dispatcher, EventPump, TLC

CONSTANT Parts  \* those of "dispatcher" and "pump" that may move
VARIABLE part   \* the one that does

CONSTANTS s, t, r1, a1, a2, g1, steer, w1, w2

MCTaskOf == [i \in Incarnation |-> i]
MCRegistration == [i \in Incarnation |->
  IF i = s THEN {<<NoRun, NoRef, "idle">>} ELSE {<<r1, a1, "idle">>}]
MCMaxTaskRev == [i \in Incarnation |-> IF i = t THEN 1 ELSE 0]

MCGrantOf == [g \in Grant |->
  [relationship |-> "r", source |-> s, target |-> t, version |-> 1,
   type |-> "supervisor", intents |-> {"steer"}, modes |-> {"queue"}, expires |-> 9]]

MCEnvelope == [m \in Message |->
  [relationship |-> "r", source |-> s, target |-> t, intent |-> "steer",
   mode |-> "queue", fresh |-> {r1}, expires |-> 1]]

MCSupports == {<<w1, a1>>, <<w2, a1>>, <<w2, a2>>}

MCReceiverOf == [m \in PumpMessage |-> r1]
MCFinalizes == [m \in PumpMessage |-> "finalizes"]
MCMovesOnce == [r \in PumpReceiver |-> 1]
MCAnywhere == Place \ {"idle"}

MCInit == part \in Parts /\ DInit /\ PumpInit

MCNext ==
  /\ UNCHANGED part
  /\ \/ part = "dispatcher" /\ DNext /\ UNCHANGED pump_vars
     \/ part = "pump" /\ PumpNext /\ UNCHANGED dvars

MCSpec == MCInit /\ [][MCNext]_<<part, dvars, pump_vars>>
=============================================================================
