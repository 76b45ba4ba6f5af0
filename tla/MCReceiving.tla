----------------------------- MODULE MCReceiving -----------------------------
(***************************************************************************)
(* What a receiver allows and what it attends to: the relationships others  *)
(* have with it and its work through the events of their messages, one of  *)
(* the two at a time, while the other rests in its initial state.           *)
(*                                                                         *)
(* A sender s publishes messages to a receiver r in its turn p; r decides   *)
(* on them in turn d and acts on them in turn b.                           *)
(***************************************************************************)
EXTENDS Attention, Relationships, TLC

CONSTANT Parts  \* those of "attention" and "relationships" that may move
VARIABLE part   \* the one that does

CONSTANTS s, r, as, ar, m1, k1, p, d, b

MCTaskOf == [x \in Incarnation |-> IF x = s THEN "sender" ELSE "receiver"]
MCRegistration == [x \in Incarnation |-> {<<NoRun, IF x = s THEN as ELSE ar, "idle">>}]
MCFixed == [x \in Incarnation |-> 0]
MCReceiverMoves == [x \in Incarnation |-> IF x = r THEN 1 ELSE 0]
MCActorOf == [x \in Execution |-> IF x = p THEN s ELSE r]
MCTool == {"publish_artifact", DecideTool, "work"}
MCToolsOf == [x \in Execution |->
  IF x = p THEN {"publish_artifact"} ELSE IF x = d THEN {DecideTool} ELSE {"work"}]
MCSenderOf == [x \in Message |-> s]
MCTargetOf == [x \in Message |-> r]
MCToolFor == [x \in Message |-> "publish_artifact"]
MCMessageOf == [x \in Execution |-> m1]

MCInit == part \in Parts /\ AttentionInit /\ RelInit

MCNext ==
  /\ UNCHANGED part
  /\ \/ part = "attention" /\ AttentionNext /\ UNCHANGED rel_vars
     \/ part = "relationships" /\ RelNext /\ UNCHANGED attention_vars

MCSpec == MCInit /\ [][MCNext]_<<part, attention_vars, rel_vars>>

Symmetric == Permutations(Grant) \cup Permutations(Proposal)
=============================================================================
