------------------------------- MODULE TurnLife -------------------------------
(***************************************************************************)
(* What the record of model turns promises to the components that build on *)
(* it: an execution is opened for the task as it stands, completes at most  *)
(* once with the tools it called, is promoted at most once after that, and  *)
(* none of this happens once the task has moved.  TurnExecution implements  *)
(* this module.                                                             *)
(***************************************************************************)
EXTENDS TaskRegistry, Sequences

CONSTANTS
  Execution,   \* execution identities
  ActorOf,     \* the incarnation whose turn each execution records
  TurnRef,     \* the references of kind codex-app-server
  Tool,        \* tools a model may call
  ToolsOf,     \* the tools each execution allows
  MaxAction    \* bound on the tool calls of a turn

ASSUME LifeAssumption ==
  /\ ActorOf \in [Execution -> Incarnation]
  /\ ToolsOf \in [Execution -> SUBSET Tool]
  /\ TurnRef \subseteq AdapterRef
  /\ MaxAction \in Nat

VARIABLE run   \* what others see of an execution

run_vars == <<registry_vars, run>>

RunType ==
  [state : {"none", "open", "completed", "promoted", "abandoned"},
   ref : TurnRef \cup {NoRef}, rev : Nat, tools : Seq(Tool)]

NoTurnYet == [state |-> "none", ref |-> NoRef, rev |-> 0, tools |-> <<>>]

RunInit == run = [e \in Execution |-> NoTurnYet]

\* The task is the one the execution was opened for.
Unmoved(e) ==
  LET actor == task[ActorOf[e]] IN
  actor.status = "active" /\ actor.ref = run[e].ref /\ actor.rev = run[e].rev

Opens(e) ==
  LET actor == task[ActorOf[e]] IN
  /\ run[e].state = "none"
  /\ actor.status = "active" /\ actor.ref \in TurnRef
  /\ run' = [run EXCEPT ![e] =
       [state |-> "open", ref |-> actor.ref, rev |-> actor.rev, tools |-> <<>>]]

Completes(e, tools) ==
  /\ run[e].state = "open" /\ Unmoved(e)
  /\ \A n \in DOMAIN tools : tools[n] \in ToolsOf[e]
  /\ run' = [run EXCEPT ![e].state = "completed", ![e].tools = tools]

Promotes(e) ==
  /\ run[e].state = "completed" /\ Unmoved(e)
  /\ run[e].tools # <<>>
  /\ run' = [run EXCEPT ![e].state = "promoted"]

\* Nobody relies on what a turn that was given up had reached.
Abandons(e) ==
  /\ run[e].state \in {"open", "completed"} /\ Unmoved(e)
  /\ run' = [run EXCEPT ![e] = [NoTurnYet EXCEPT !.state = "abandoned"]]

ToolLists == UNION {[1..n -> Tool] : n \in 0..MaxAction}

RunNext ==
  \E e \in Execution :
    \/ Opens(e) \/ Abandons(e) \/ Promotes(e)
    \/ \E tools \in ToolLists : Completes(e, tools)

\* A promotion may unlock a task in the same transaction.
LifeOfTurns ==
  \/ UNCHANGED run /\ (TaskNext \/ TaskElsewhere)
  \/ RunNext /\ (UNCHANGED registry_vars \/ UnlockTask)

TurnLifeSpec == RegistryInit /\ RunInit /\ [][LifeOfTurns]_run_vars
=============================================================================
