---------------------------- MODULE Dispositions ----------------------------
(***************************************************************************)
(* The three orthogonal disposition state machines of                      *)
(* src/state/disposition-transitions.mjs: delivery, receiver decision and  *)
(* observed outcome.  Each table is a relation, a set of <<from, to>>       *)
(* pairs.  The reason codes of a decision are wording and are left out.     *)
(***************************************************************************)

\* The order in which delivery may only progress.
NonTerminalDelivery == {"control-plane-accepted", "durably-received",
                        "receiver-notified", "checkpoint-offered",
                        "context-admitted"}
TerminalDelivery == {"adapter-submitted", "failed", "expired"}
DeliveryStates == NonTerminalDelivery \cup TerminalDelivery

DeliveryTable ==
  { <<"control-plane-accepted", "durably-received">>,
    <<"durably-received", "receiver-notified">>,
    <<"durably-received", "checkpoint-offered">>,
    <<"durably-received", "context-admitted">>,
    <<"durably-received", "adapter-submitted">>,
    <<"receiver-notified", "checkpoint-offered">>,
    <<"receiver-notified", "context-admitted">>,
    <<"receiver-notified", "adapter-submitted">>,
    <<"checkpoint-offered", "context-admitted">>,
    <<"checkpoint-offered", "adapter-submitted">>,
    <<"context-admitted", "adapter-submitted">> }
  \cup (NonTerminalDelivery \X {"failed", "expired"})

UndecidedStates == {"pending", "deferred"}
DecisionStates == UndecidedStates \cup
  {"accepted", "rejected", "stale", "expired", "unsupported", "revoked"}

DecisionTable ==
  ({"pending"} \X (DecisionStates \ {"pending"}))
  \cup ({"deferred"} \X {"accepted", "rejected", "stale", "expired", "revoked"})
  \cup {<<"accepted", "revoked">>}

\* Of the outcome machine only the transition some operation performs is used;
\* the table is complete so that the operations can be held against it.
OutcomeStates == {"not-observed", "effect-observed", "externally-verified", "failed"}
OutcomeTable ==
  { <<"not-observed", "effect-observed">>,
    <<"not-observed", "externally-verified">>,
    <<"not-observed", "failed">>,
    <<"effect-observed", "externally-verified">> }

\* isDispositionTransitionAllowed, one operator per machine.
DeliveryMay(from, to) == <<from, to>> \in DeliveryTable
DecisionMay(from, to) == <<from, to>> \in DecisionTable
OutcomeMay(from, to)  == <<from, to>> \in OutcomeTable
=============================================================================
