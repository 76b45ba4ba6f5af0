---------------------------- MODULE TurnExecution ----------------------------
(***************************************************************************)
(* The durable record of one model turn: table turn_execution_intents and  *)
(* its tool actions, in src/coordinator/sqlite-coordinator.mjs, over the    *)
(* state machine of src/state/durable-turn-intent.mjs.                      *)
(*                                                                         *)
(* A caller proposes a turn, marks it started before the native runtime is  *)
(* asked for it, binds the native turn, records every tool call the model   *)
(* selects and its result, and binds the completed turn with its receipt.   *)
(* A turn whose outcome is unknown is reconciled against what the runtime   *)
(* shows afterwards.  Every operation but the creation reads the execution, *)
(* insists that its actor's task is still the one it was created for, and   *)
(* compares the row's revision.                                            *)
(***************************************************************************)
EXTENDS TaskRegistry, Sequences

CONSTANTS
  Execution,    \* execution identities
  ExecutionOf,  \* the immutable intent of each execution
  TurnRef,      \* the references of kind codex-app-server
  Turn,         \* native turn identities
  NoTurn,       \* no native turn is bound
  Selection,    \* tool calls a model may select
  SelectionOf,  \* the call id and the tool of each selection
  Result,       \* digests of tool results
  NoResult,     \* a selected call that has not returned
  MaxAction     \* bound on the tool calls of a turn (MAX_TOOLS)

ASSUME ExecutionAssumption == DOMAIN ExecutionOf = Execution /\
  \A e \in Execution : ExecutionOf[e].actor \in Incarnation

ASSUME SelectionAssumption == DOMAIN SelectionOf = Selection

ASSUME TurnAssumption ==
  /\ TurnRef \subseteq AdapterRef
  /\ NoTurn \notin Turn
  /\ NoResult \notin Result
  /\ MaxAction \in Nat

VARIABLE
  turn          \* tables turn_execution_intents and turn_tool_actions

turn_vars == <<registry_vars, turn>>

TurnStates ==
  {"proposed", "started", "outcome-unknown", "completed-turn-bound", "promoted", "abandoned"}

CallType == [selection : Selection, result : Result \cup {NoResult}]

ReceiptType == [turn : Turn \cup {NoTurn}, calls : Seq(CallType)]

NoReceipt == [turn |-> NoTurn, calls |-> <<>>]

TurnType ==
  [state : TurnStates \cup {"absent"}, rev : Nat, turn : Turn \cup {NoTurn},
   calls : Seq(CallType), receipt : ReceiptType,
   ref : TurnRef \cup {NoRef}, taskRev : Nat]

NoExecution ==
  [state |-> "absent", rev |-> 0, turn |-> NoTurn, calls |-> <<>>,
   receipt |-> NoReceipt, ref |-> NoRef, taskRev |-> 0]

TurnInit == RegistryInit /\ turn = [e \in Execution |-> NoExecution]

(***************************************************************************)
(* What every operation checks.                                            *)
(***************************************************************************)
Actor(e) == task[ExecutionOf[e].actor]

\* Mutant: the task's revision may have moved on.
ActorCurrent_AnyRevision(e) ==
  /\ Actor(e).status = "active"
  /\ Actor(e).ref = turn[e].ref

\* #assertTurnExecutionPrincipalAndBinding
ActorCurrent(e) ==
  /\ Actor(e).status = "active"
  /\ Actor(e).ref = turn[e].ref
  /\ Actor(e).rev = turn[e].taskRev

At(e, rev, state) ==
  /\ turn[e].state = state
  /\ ActorCurrent(e)
  /\ turn[e].rev = rev

\* #writeTurnTransition
Row(e, row) == turn' = [turn EXCEPT ![e] = [row EXCEPT !.rev = @ + 1]]

Write(e, row) == Row(e, row) /\ UNCHANGED registry_vars

AllReturned(calls) == \A n \in DOMAIN calls : calls[n].result # NoResult

(***************************************************************************)
(* A turn from proposal to completion.                                     *)
(***************************************************************************)

\* Neither the execution nor its adapter idempotency key may exist already.
CreateTurnExecutionIntent(e) ==
  /\ \A f \in Execution : turn[f].state # "absent"
                            => f # e /\ ExecutionOf[f].key # ExecutionOf[e].key
  /\ Actor(e).status = "active"
  /\ Actor(e).ref \in TurnRef
  /\ turn' = [turn EXCEPT ![e] =
       [NoExecution EXCEPT !.state = "proposed", !.ref = Actor(e).ref,
                           !.taskRev = Actor(e).rev]]
  /\ UNCHANGED registry_vars

MarkTurnExecutionStarted(e, rev) ==
  /\ At(e, rev, "proposed")
  /\ Write(e, [turn[e] EXCEPT !.state = "started"])

BindStartedTurnOperation(e, rev, t) ==
  /\ At(e, rev, "started")
  /\ turn[e].turn = NoTurn
  /\ Write(e, [turn[e] EXCEPT !.turn = t])

\* The selection is durable before its callback runs.
RecordToolAction(e, rev, s) ==
  /\ At(e, rev, "started")
  /\ turn[e].turn # NoTurn
  /\ SelectionOf[s].tool \in ExecutionOf[e].tools
  /\ Len(turn[e].calls) < MaxAction
  /\ \A n \in DOMAIN turn[e].calls :
       SelectionOf[turn[e].calls[n].selection].call # SelectionOf[s].call
  /\ Write(e, [turn[e] EXCEPT !.calls = Append(@, [selection |-> s, result |-> NoResult])])

CompleteToolAction(e, rev, n, result) ==
  /\ At(e, rev, "started")
  /\ n \in DOMAIN turn[e].calls
  /\ turn[e].calls[n].result = NoResult
  /\ Write(e, [turn[e] EXCEPT !.calls[n].result = result])

Completed(row, t, calls) ==
  [row EXCEPT !.state = "completed-turn-bound", !.turn = t, !.calls = calls,
              !.receipt = [turn |-> t, calls |-> calls]]

\* Mutant: does not wait for the tool calls to return.
BindCompletedTurn_Early(e, rev) ==
  /\ At(e, rev, "started")
  /\ turn[e].turn # NoTurn
  /\ Write(e, Completed(turn[e], turn[e].turn, turn[e].calls))

\* The receipt has to list exactly the recorded calls, each with its result.
BindCompletedTurn(e, rev) ==
  /\ At(e, rev, "started")
  /\ turn[e].turn # NoTurn
  /\ AllReturned(turn[e].calls)
  /\ Write(e, Completed(turn[e], turn[e].turn, turn[e].calls))

(***************************************************************************)
(* Unknown outcomes and abandonment.                                       *)
(***************************************************************************)
MarkTurnOutcomeUnknown(e, rev) ==
  /\ At(e, rev, "started")
  /\ Write(e, [turn[e] EXCEPT !.state = "outcome-unknown"])

\* The calls of a receipt agree with the recorded ones, and fill in results
\* that were lost.
Recovers(calls, found) ==
  /\ DOMAIN found = DOMAIN calls
  /\ \A n \in DOMAIN calls :
       /\ found[n].selection = calls[n].selection
       /\ found[n].result # NoResult
       /\ calls[n].result # NoResult => found[n].result = calls[n].result

\* Mutant: the receipt's calls win over the recorded ones.
ReconcileFound_Overwrites(e, rev, t, found) ==
  /\ At(e, rev, "outcome-unknown")
  /\ AllReturned(found)
  /\ Write(e, Completed(turn[e], t, found))

\* The recorded calls belong to the bound turn.  Without any the receipt's turn
\* is taken, whichever was bound before.
ReconcileFound(e, rev, t, found) ==
  /\ At(e, rev, "outcome-unknown")
  /\ turn[e].calls # <<>> => t = turn[e].turn
  /\ Recovers(turn[e].calls, found)
  /\ Write(e, Completed(turn[e], t, found))

\* The runtime shows the turn interrupted or failed.
ReconcileFoundTerminal(e, rev, t) ==
  /\ At(e, rev, "outcome-unknown")
  /\ turn[e].calls = <<>>
  /\ turn[e].turn \in {NoTurn, t}
  /\ Write(e, [turn[e] EXCEPT !.state = "abandoned", !.turn = t])

ReconcileNotFound(e, rev) ==
  /\ At(e, rev, "outcome-unknown")
  /\ Write(e, [turn[e] EXCEPT !.state = "abandoned"])

\* Whatever was reached is kept on record.
AbandonTurnExecution(e, rev) ==
  \E state \in TurnStates \ {"promoted", "abandoned"} :
    At(e, rev, state) /\ Write(e, [turn[e] EXCEPT !.state = "abandoned"])

(***************************************************************************)
(* Promotion: the completed turn became evidence, or finished an attention  *)
(* handler.  The record that goes with it belongs to the caller; the final  *)
(* evidence of a chain satisfies its dependency in the same transaction.    *)
(***************************************************************************)
\* promoteDurableTurnIntent
Promotable(e, rev) == At(e, rev, "completed-turn-bound") /\ turn[e].calls # <<>>

PromoteTurnExecution(e, rev) ==
  /\ Promotable(e, rev)
  /\ Row(e, [turn[e] EXCEPT !.state = "promoted"])
  /\ UNCHANGED registry_vars \/ UnlockTask

(***************************************************************************)
(* Specification.                                                          *)
(***************************************************************************)
\* The receipts a turn that called at most MaxAction tools may show.
Receipts == UNION {[1..n -> CallType] : n \in 0..MaxAction}

ExecutionNext ==
  \E e \in Execution :
    \/ CreateTurnExecutionIntent(e)
    \/ \E rev \in 0..turn[e].rev :
         \/ MarkTurnExecutionStarted(e, rev)
         \/ \E t \in Turn : BindStartedTurnOperation(e, rev, t)
         \/ \E s \in Selection : RecordToolAction(e, rev, s)
         \/ \E n \in DOMAIN turn[e].calls, result \in Result :
              CompleteToolAction(e, rev, n, result)
         \/ BindCompletedTurn(e, rev)
         \/ MarkTurnOutcomeUnknown(e, rev)
         \/ \E t \in Turn, found \in Receipts : ReconcileFound(e, rev, t, found)
         \/ \E t \in Turn : ReconcileFoundTerminal(e, rev, t)
         \/ ReconcileNotFound(e, rev)
         \/ AbandonTurnExecution(e, rev)
         \/ PromoteTurnExecution(e, rev)

TurnNext == ((TaskNext \/ TaskElsewhere) /\ UNCHANGED turn) \/ ExecutionNext

TurnSpec == TurnInit /\ [][TurnNext]_turn_vars

(***************************************************************************)
(* Properties.                                                             *)
(***************************************************************************)

\* Every row has the shape its tables allow.
TurnTypeOK == turn \in [Execution -> TurnType]

\* A receipt is evidence of exactly what was recorded: one native turn, and
\* every call the model selected in it, each with its result.  No path to it,
\* by completion or by reconciling an unknown outcome, and no later giving up,
\* leaves the two apart; only a turn with a receipt and a call is promoted.
ReceiptExact ==
  \A e \in Execution :
    /\ turn[e].receipt # NoReceipt =>
         /\ turn[e].turn # NoTurn
         /\ turn[e].receipt = [turn |-> turn[e].turn, calls |-> turn[e].calls]
         /\ AllReturned(turn[e].calls)
    /\ turn[e].state \in {"completed-turn-bound", "promoted"} => turn[e].receipt # NoReceipt
    /\ turn[e].state = "promoted" => turn[e].calls # <<>>

\* What a later list of calls may make of an earlier one.
Extends(calls, later) ==
  /\ DOMAIN calls \subseteq DOMAIN later
  /\ \A n \in DOMAIN calls :
       /\ later[n].selection = calls[n].selection
       /\ calls[n].result # NoResult => later[n].result = calls[n].result

\* The calls are a log: a selection is recorded in a started turn or never, and
\* neither it nor its result is taken back or replaced, above all not by a
\* receipt found after the outcome was unknown.
CallsKept ==
  [][\A e \in Execution :
       /\ Extends(turn[e].calls, turn'[e].calls)
       /\ turn'[e].calls # turn[e].calls /\ Len(turn'[e].calls) # Len(turn[e].calls)
            => turn[e].state = "started" /\ turn'[e].state = "started"]_turn_vars

\* The actor of the execution is not the one it was created for, for good.
ActorGone(e) ==
  /\ turn[e].state # "absent"
  /\ \/ Actor(e).status = "retired"
     \/ Actor(e).rev # turn[e].taskRev

\* An execution dies with the task revision it was created for: once the task
\* is updated, attached elsewhere or rotated, no call changes the execution
\* again, not even after the task is attached to the same adapter once more.
FrozenWithActor ==
  [][\A e \in Execution : ActorGone(e) => turn'[e] = turn[e] /\ ActorGone(e)']_turn_vars

\* The states an execution can still reach.
Later(state) ==
  CASE state = "absent" -> {"proposed"}
    [] state = "proposed" -> {"started", "abandoned"}
    [] state = "started" ->
         {"started", "outcome-unknown", "completed-turn-bound", "abandoned"}
    [] state = "outcome-unknown" -> {"completed-turn-bound", "abandoned"}
    [] state = "completed-turn-bound" -> {"promoted", "abandoned"}
    [] OTHER -> {}

\* A turn is asked for once: no call takes an execution back to where it would
\* be started again, a decided outcome is not decided again, and each change
\* takes a revision that fences whoever holds the one before.
OneWay ==
  [][\A e \in Execution : turn'[e] # turn[e] =>
       /\ turn'[e].state \in Later(turn[e].state)
       /\ turn'[e].rev = turn[e].rev + (IF turn[e].state = "absent" THEN 0 ELSE 1)]_turn_vars

\* What TurnLife sees of an execution: the steps before completion are one, and
\* of the calls only their tools are left.
LifeState(state) ==
  CASE state = "absent" -> "none"
    [] state \in {"proposed", "started", "outcome-unknown"} -> "open"
    [] state = "completed-turn-bound" -> "completed"
    [] OTHER -> state

RunOf == [e \in Execution |->
  IF turn[e].state = "abandoned" THEN [state |-> "abandoned", ref |-> NoRef, rev |-> 0, tools |-> <<>>]
  ELSE [state |-> LifeState(turn[e].state), ref |-> turn[e].ref, rev |-> turn[e].taskRev,
        tools |-> [n \in DOMAIN turn[e].receipt.calls |->
                     SelectionOf[turn[e].receipt.calls[n].selection].tool]]]

Life == INSTANCE TurnLife WITH
  ActorOf <- [e \in Execution |-> ExecutionOf[e].actor],
  Tool <- {SelectionOf[s].tool : s \in Selection} \cup UNION {ExecutionOf[e].tools : e \in Execution},
  ToolsOf <- [e \in Execution |-> ExecutionOf[e].tools],
  run <- RunOf

\* What the evidence chains and the attention handlers rely on: a turn that is
\* promoted was completed with the tools it shows, once, and for a task that has
\* not moved since the turn was proposed.
ImplementsTurnLife == Life!TurnLifeSpec

(***************************************************************************)
(* What a comment states and the code does not keep.                       *)
(***************************************************************************)

\* comment: the native turn/start response is irreversible once bound.  A
\* receipt that reconciles a turn without tool calls rebinds it.
TurnNeverRebound ==
  [][\A e \in Execution : turn[e].turn # NoTurn => turn'[e].turn = turn[e].turn]_turn_vars
=============================================================================
