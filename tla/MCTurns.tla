------------------------------- MODULE MCTurns -------------------------------
(***************************************************************************)
(* Turns, from the coordinator's side and from the side of the activation   *)
(* that runs them, one of the two at a time: the other rests in its initial *)
(* state.                                                                  *)
(*                                                                         *)
(* For the coordinator: one task with an incarnation t and its successor    *)
(* t2, three references of which one is of another kind, and two executions *)
(* that a caller may want for one idempotency key: e1 of t, e2 of t2.  For  *)
(* the activation: event pumps that take one activation for theirs at the  *)
(* same time.                                                              *)
(***************************************************************************)
EXTENDS TurnExecution, LiveTurn, TLC

CONSTANT Parts  \* those of "coordinator" and "activation" that may move
VARIABLE part   \* the one that does

CONSTANTS t, t2, a1, a2, ax, e1, e2, publish, review, other, n1, n2, d1, d2

MCTaskOf == [i \in Incarnation |-> "task"]
MCRegistration == [i \in Incarnation |->
  IF i = t THEN {<<NoRun, a1, "idle">>, <<NoRun, ax, "idle">>} ELSE {<<NoRun, a2, "idle">>}]
MCMaxTaskRev == [i \in Incarnation |-> IF i = t THEN 2 ELSE 0]
MCExecutionOf == [e \in Execution |->
  [actor |-> IF e = e1 THEN t ELSE t2, key |-> "k", tools |-> {"publish", "review"}]]
\* Two selections of one call id, and a tool that is not allowed.
MCSelectionOf == [s \in Selection |->
  [call |-> IF s = publish THEN 1 ELSE 2,
   tool |-> IF s = publish THEN "publish" ELSE IF s = review THEN "review" ELSE "shell"]]

MCInit == part \in Parts /\ TurnInit /\ LiveInit

MCNext ==
  /\ UNCHANGED part
  /\ \/ part = "coordinator" /\ TurnNext /\ UNCHANGED live_vars
     \/ part = "activation" /\ LiveNext /\ UNCHANGED turn_vars

MCSpec == MCInit /\ [][MCNext]_<<part, turn_vars, live_vars>>

Symmetric == Permutations(Native) \cup Permutations(Process)
=============================================================================
