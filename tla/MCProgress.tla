----------------------------- MODULE MCProgress -----------------------------
(***************************************************************************)
(* What must come to an end, one thing at a time, while the others rest in  *)
(* their initial states.  A pump: in part "one", its receiver r1 is sent m1 *)
(* and m2; in part "two", r1 is sent m1 and another receiver r2 is sent m3.  *)
(* An operation of the app-server adapter.  Processes of this release that  *)
(* open a store at the same time, with the next release at the same store.  *)
(***************************************************************************)
EXTENDS EventPump, AppServer, SchemaMigration, TLC

CONSTANT Parts  \* those of "one", "two", "adapter" and "schema" that may move
VARIABLE part   \* the one that does

CONSTANTS r1, r2, m2, m3

MCReceiverOf == [m \in PumpMessage |-> IF m = m3 THEN r2 ELSE r1]
MCMixed == [m \in PumpMessage |-> IF m = m2 THEN "defers" ELSE "promotes"]
MCMoves == [r \in PumpReceiver |-> IF r = r1 THEN 2 ELSE 0]
\* Not while a turn is being started or is running.
MCOutsideTurns == Place \ {"idle", "starting", "turn"}

Pumps == part \in {"one", "two"}
Sent == IF part = "one" THEN {m \in PumpMessage : m # m3} ELSE {m \in PumpMessage : m # m2}

AtRest ==
  /\ part # "adapter" => kind = "run"
  /\ part # "schema" => store = CHOOSE s \in Released : TRUE

MCInit == part \in Parts /\ PumpInit /\ AppInit /\ SchemaInit /\ AtRest

MCNext ==
  /\ UNCHANGED part
  /\ \/ /\ Pumps /\ PumpNext /\ {m \in PumpMessage : WasReceived(m)'} \subseteq Sent
        /\ UNCHANGED <<app_vars, schema_vars>>
     \/ part = "adapter" /\ AppNext /\ UNCHANGED <<pump_vars, schema_vars>>
     \/ part = "schema" /\ SchemaNext /\ UNCHANGED <<pump_vars, app_vars>>

\* The fairness of PumpFairSpec and of AppAnsweredSpec.
MCFairSpec ==
  /\ MCInit /\ [][MCNext]_<<part, pump_vars, app_vars, schema_vars>>
  /\ \A o \in Owner : WF_pump_vars(Pumps /\ Drain(o))
  /\ \A m \in PumpMessage :
       /\ WF_pump_vars(Pumps /\ Time(m))
       /\ WF_pump_vars(Pumps /\ PromoteLater(m) /\ ~Moved(m))
  /\ \A r \in PumpReceiver : WF_pump_vars(Pumps /\ DrainProcessed(r))
  /\ WF_app_vars(part = "adapter" /\ Adapter)
  /\ WF_app_vars(part = "adapter" /\ Timer)
  /\ WF_app_vars(part = "adapter" /\ Reaps)
  /\ WF_app_vars(part = "adapter" /\ kind \in Calm /\ ServerAnswers)
=============================================================================
