----------------------------- MODULE TurnsProofs -----------------------------
(***************************************************************************)
(* Theorems about TurnExecution, for any executions, tools and bounds, and  *)
(* about LiveTurn, for any processes, native turns and choices.             *)
(*                                                                         *)
(* Of TurnExecution the first part says what one operation makes of the row *)
(* of its own execution, independently of the state it is in; the second    *)
(* one draws the properties from it, and the third maps the operations to   *)
(* those of TurnLife.  The part about LiveTurn stands at the end.           *)
(***************************************************************************)
EXTENDS TurnExecution, LiveTurn, TaskRegistryProofs, SequenceTheorems, FiniteSetTheorems

(***************************************************************************)
(* One row.                                                                *)
(***************************************************************************)
\* What a row says of itself: ReceiptExact, and where no receipt can be yet.
Exact(r) ==
  /\ r.receipt # NoReceipt =>
       /\ r.turn # NoTurn
       /\ r.receipt = [turn |-> r.turn, calls |-> r.calls]
       /\ AllReturned(r.calls)
  /\ r.state \in {"completed-turn-bound", "promoted"} => r.receipt # NoReceipt
  /\ r.state \in {"absent", "proposed", "started", "outcome-unknown"} => r.receipt = NoReceipt
  /\ r.state = "promoted" => r.calls # <<>>

\* What an operation on an existing execution makes of its row.
Follows(r, s) ==
  /\ Extends(r.calls, s.calls)
  /\ s.calls # r.calls /\ Len(s.calls) # Len(r.calls)
       => r.state = "started" /\ s.state = "started"
  /\ s.state \in Later(r.state)
  /\ s.rev = r.rev + 1
  /\ s.taskRev = r.taskRev /\ s.ref = r.ref

LEMMA SameCalls ==
  ASSUME NEW calls
  PROVE  Extends(calls, calls)
BY DEF Extends

LEMMA RowFields ==
  ASSUME NEW row \in TurnType
  PROVE  /\ [row EXCEPT !.rev = @ + 1] \in TurnType
         /\ [row EXCEPT !.rev = @ + 1].rev = row.rev + 1
         /\ [row EXCEPT !.rev = @ + 1].state = row.state
         /\ [row EXCEPT !.rev = @ + 1].turn = row.turn
         /\ [row EXCEPT !.rev = @ + 1].calls = row.calls
         /\ [row EXCEPT !.rev = @ + 1].receipt = row.receipt
         /\ [row EXCEPT !.rev = @ + 1].taskRev = row.taskRev
         /\ [row EXCEPT !.rev = @ + 1].ref = row.ref
BY DEF TurnType

\* The row an operation writes decides what its execution becomes.
LEMMA RowWritten ==
  ASSUME TurnTypeOK, NEW e \in Execution, NEW row \in TurnType, Row(e, row),
         Exact(row), row.rev = turn[e].rev,
         Follows(turn[e], [row EXCEPT !.rev = @ + 1])
  PROVE  /\ TurnTypeOK'
         /\ Exact(turn'[e])
         /\ Follows(turn[e], turn'[e])
         /\ \A f \in Execution : f # e => turn'[f] = turn[f]
<1>1. turn'[e] = [row EXCEPT !.rev = @ + 1]
  BY DEF Row, TurnTypeOK
<1>2. Exact(turn'[e])
  BY <1>1, RowFields DEF Exact
<1> QED
  BY <1>1, <1>2, RowFields DEF Row, TurnTypeOK

\* A change of state, and of the bound turn of a row without a receipt.
LEMMA StateRow ==
  ASSUME NEW r \in TurnType, Exact(r), NEW state \in TurnStates, NEW t \in Turn \cup {NoTurn},
         state \in Later(r.state),
         t = r.turn \/ r.receipt = NoReceipt,
         state \in {"started", "outcome-unknown"} => r.receipt = NoReceipt,
         state # "completed-turn-bound", state # "proposed",
         state = "promoted" => r.receipt # NoReceipt /\ r.calls # <<>>
  PROVE  LET row == [r EXCEPT !.state = state, !.turn = t]
         IN  /\ row \in TurnType
             /\ Exact(row)
             /\ row.rev = r.rev
             /\ Follows(r, [row EXCEPT !.rev = @ + 1])
<1> DEFINE row == [r EXCEPT !.state = state, !.turn = t]
<1>1. /\ row \in TurnType /\ row.state = state /\ row.turn = t /\ row.rev = r.rev
      /\ row.calls = r.calls /\ row.receipt = r.receipt /\ row.taskRev = r.taskRev /\ row.ref = r.ref
  BY DEF TurnType
<1>2. Exact(row)
  BY <1>1 DEF Exact, TurnStates
<1>3. Follows(r, [row EXCEPT !.rev = @ + 1])
  <2> HIDE DEF row
  <2> QED
    BY <1>1, RowFields, SameCalls DEF Follows
<1> QED
  BY <1>1, <1>2, <1>3

LEMMA SameTurn ==
  ASSUME NEW r \in TurnType, NEW state
  PROVE  [r EXCEPT !.state = state] = [r EXCEPT !.state = state, !.turn = r.turn]
BY DEF TurnType

\* What one operation on execution e does.
Stepped(e) ==
  /\ TurnTypeOK'
  /\ Exact(turn'[e])
  /\ Follows(turn[e], turn'[e])
  /\ \A f \in Execution : f # e => turn'[f] = turn[f]

LEMMA StateSteps ==
  ASSUME TurnTypeOK, NEW e \in Execution, Exact(turn[e]), NEW rev,
         \/ MarkTurnExecutionStarted(e, rev)
         \/ \E t \in Turn : BindStartedTurnOperation(e, rev, t)
         \/ MarkTurnOutcomeUnknown(e, rev)
         \/ \E t \in Turn : ReconcileFoundTerminal(e, rev, t)
         \/ ReconcileNotFound(e, rev)
         \/ AbandonTurnExecution(e, rev)
         \/ PromoteTurnExecution(e, rev)
  PROVE  Stepped(e)
<1> DEFINE r == turn[e]
<1> r \in TurnType
  BY DEF TurnTypeOK
<1>1. PICK state \in TurnStates, t \in Turn \cup {NoTurn} :
        /\ Row(e, [r EXCEPT !.state = state, !.turn = t])
        /\ state \in Later(r.state)
        /\ t = r.turn \/ r.receipt = NoReceipt
        /\ state \in {"started", "outcome-unknown"} => r.receipt = NoReceipt
        /\ state # "completed-turn-bound" /\ state # "proposed"
        /\ state = "promoted" => r.receipt # NoReceipt /\ r.calls # <<>>
  <2> r.turn \in Turn \cup {NoTurn}
    BY DEF TurnType
  <2>1. CASE MarkTurnExecutionStarted(e, rev)
    <3>1. r.state = "proposed" /\ Row(e, [r EXCEPT !.state = "started"])
      BY <2>1 DEF MarkTurnExecutionStarted, At, Write
    <3> QED
      BY <3>1, SameTurn DEF Exact, Later, TurnStates
  <2>2. ASSUME NEW t \in Turn, BindStartedTurnOperation(e, rev, t)
        PROVE  r.state = "started" /\ Row(e, [r EXCEPT !.state = "started", !.turn = t])
    <3>1. [r EXCEPT !.turn = t] = [r EXCEPT !.state = "started", !.turn = t]
      BY <2>2 DEF BindStartedTurnOperation, At, TurnType
    <3> QED
      BY <2>2, <3>1 DEF BindStartedTurnOperation, At, Write
  <2>3. CASE \E t \in Turn : BindStartedTurnOperation(e, rev, t)
    BY <2>2, <2>3 DEF Exact, Later, TurnStates
  <2>4. CASE MarkTurnOutcomeUnknown(e, rev)
    <3>1. r.state = "started" /\ Row(e, [r EXCEPT !.state = "outcome-unknown"])
      BY <2>4 DEF MarkTurnOutcomeUnknown, At, Write
    <3> QED
      BY <3>1, SameTurn DEF Exact, Later, TurnStates
  <2>5. ASSUME NEW t \in Turn, ReconcileFoundTerminal(e, rev, t)
        PROVE  r.state = "outcome-unknown" /\ Row(e, [r EXCEPT !.state = "abandoned", !.turn = t])
    BY <2>5 DEF ReconcileFoundTerminal, At, Write
  <2>6. CASE \E t \in Turn : ReconcileFoundTerminal(e, rev, t)
    BY <2>5, <2>6 DEF Exact, Later, TurnStates
  <2>7. CASE ReconcileNotFound(e, rev) \/ AbandonTurnExecution(e, rev)
    <3>1. /\ r.state \in TurnStates \ {"promoted", "abandoned"}
          /\ Row(e, [r EXCEPT !.state = "abandoned"])
      BY <2>7 DEF ReconcileNotFound, AbandonTurnExecution, At, Write, TurnStates
    <3> QED
      BY <3>1, SameTurn DEF Later, TurnStates
  <2>8. CASE PromoteTurnExecution(e, rev)
    <3>1. /\ r.state = "completed-turn-bound" /\ r.calls # <<>>
          /\ Row(e, [r EXCEPT !.state = "promoted"])
      BY <2>8 DEF PromoteTurnExecution, Promotable, At
    <3> QED
      BY <3>1, SameTurn DEF Exact, Later, TurnStates
  <2> QED
    BY <2>1, <2>3, <2>4, <2>6, <2>7, <2>8
<1> DEFINE row == [r EXCEPT !.state = state, !.turn = t]
<1>2. /\ row \in TurnType /\ Exact(row) /\ row.rev = r.rev
      /\ Follows(r, [row EXCEPT !.rev = @ + 1])
  BY <1>1, StateRow
<1> HIDE DEF row
<1> QED
  BY <1>1, <1>2, RowWritten DEF Stepped, row
\* Recording a call or its result leaves a started turn started.
LEMMA CallsRow ==
  ASSUME NEW r \in TurnType, Exact(r), r.state = "started", NEW calls \in Seq(CallType),
         Extends(r.calls, calls)
  PROVE  LET row == [r EXCEPT !.calls = calls]
         IN  /\ row \in TurnType
             /\ Exact(row)
             /\ row.rev = r.rev
             /\ Follows(r, [row EXCEPT !.rev = @ + 1])
<1> DEFINE row == [r EXCEPT !.calls = calls]
<1>1. /\ row \in TurnType /\ row.state = r.state /\ row.turn = r.turn /\ row.rev = r.rev
      /\ row.calls = calls /\ row.receipt = r.receipt /\ row.taskRev = r.taskRev /\ row.ref = r.ref
  BY DEF TurnType
<1>2. Exact(row)
  BY <1>1 DEF Exact
<1>3. Follows(r, [row EXCEPT !.rev = @ + 1])
  <2> HIDE DEF row
  <2> QED
    BY <1>1, RowFields DEF Follows, Later
<1> QED
  BY <1>1, <1>2, <1>3

LEMMA CallSteps ==
  ASSUME TurnTypeOK, NEW e \in Execution, Exact(turn[e]), NEW rev,
         \/ \E s \in Selection : RecordToolAction(e, rev, s)
         \/ \E n \in DOMAIN turn[e].calls, result \in Result : CompleteToolAction(e, rev, n, result)
  PROVE  Stepped(e)
<1> DEFINE r == turn[e]
<1> r \in TurnType /\ r.calls \in Seq(CallType)
  BY DEF TurnTypeOK, TurnType
<1>1. PICK calls \in Seq(CallType) :
        /\ r.state = "started"
        /\ Extends(r.calls, calls)
        /\ Row(e, [r EXCEPT !.calls = calls])
  <2>1. ASSUME NEW s \in Selection, RecordToolAction(e, rev, s)
        PROVE  \E calls \in Seq(CallType) :
                 /\ r.state = "started"
                 /\ Extends(r.calls, calls)
                 /\ Row(e, [r EXCEPT !.calls = calls])
    <3> DEFINE call == [selection |-> s, result |-> NoResult]
    <3>1. call \in CallType
      BY DEF CallType
    <3>2. /\ Append(r.calls, call) \in Seq(CallType)
          /\ Extends(r.calls, Append(r.calls, call))
      <4> HIDE DEF call
      <4> QED
        BY <3>1, AppendProperties, LenProperties DEF Extends
    <3>3. r.state = "started" /\ Row(e, [r EXCEPT !.calls = Append(r.calls, call)])
      BY <2>1 DEF RecordToolAction, At, Write
    <3> QED
      BY <3>2, <3>3
  <2>2. ASSUME NEW n \in DOMAIN r.calls, NEW result \in Result, CompleteToolAction(e, rev, n, result)
        PROVE  \E calls \in Seq(CallType) :
                 /\ r.state = "started"
                 /\ Extends(r.calls, calls)
                 /\ Row(e, [r EXCEPT !.calls = calls])
    <3> DEFINE call == [r.calls[n] EXCEPT !.result = result]
               calls == [r.calls EXCEPT ![n] = call]
    <3>1. n \in 1..Len(r.calls) /\ r.calls[n] \in CallType
      BY LenProperties, ElementOfSeq
    <3>2. call \in CallType /\ call.selection = r.calls[n].selection
      BY <3>1 DEF CallType
    <3>3. calls \in Seq(CallType) /\ Extends(r.calls, calls)
      <4>1. r.calls[n].result = NoResult
        BY <2>2 DEF CompleteToolAction
      <4> HIDE DEF call
      <4> QED
        BY <3>1, <3>2, <4>1, ExceptSeq, LenProperties DEF Extends
    <3>4. r.state = "started" /\ Row(e, [r EXCEPT !.calls = calls])
      BY <2>2 DEF CompleteToolAction, At, Write
    <3> QED
      BY <3>3, <3>4
  <2> QED
    BY <2>1, <2>2
<1> DEFINE row == [r EXCEPT !.calls = calls]
<1>2. /\ row \in TurnType /\ Exact(row) /\ row.rev = r.rev
      /\ Follows(r, [row EXCEPT !.rev = @ + 1])
  BY <1>1, CallsRow
<1> HIDE DEF row
<1> QED
  BY <1>1, <1>2, RowWritten DEF Stepped, row

\* Binding a completed turn: its receipt lists the calls of the row, all returned.
LEMMA CompletedRow ==
  ASSUME NEW r \in TurnType, Exact(r), r.state \in {"started", "outcome-unknown"},
         NEW t \in Turn, NEW calls \in Seq(CallType), AllReturned(calls),
         Extends(r.calls, calls), DOMAIN calls = DOMAIN r.calls
  PROVE  LET row == Completed(r, t, calls)
         IN  /\ row \in TurnType
             /\ Exact(row)
             /\ row.rev = r.rev
             /\ Follows(r, [row EXCEPT !.rev = @ + 1])
<1> DEFINE row == Completed(r, t, calls)
<1>1. /\ row \in TurnType /\ row.state = "completed-turn-bound" /\ row.turn = t /\ row.rev = r.rev
      /\ row.calls = calls /\ row.receipt = [turn |-> t, calls |-> calls]
      /\ row.taskRev = r.taskRev /\ row.ref = r.ref
  BY DEF Completed, TurnType, TurnStates, ReceiptType
<1>2. t # NoTurn /\ row.receipt # NoReceipt
  BY <1>1, TurnAssumption DEF NoReceipt
<1>3. Exact(row)
  BY <1>1, <1>2 DEF Exact
<1>4. Len(calls) = Len(r.calls)
  BY LenProperties DEF TurnType
<1>5. Follows(r, [row EXCEPT !.rev = @ + 1])
  <2> HIDE DEF row
  <2> QED
    BY <1>1, <1>4, RowFields DEF Follows, Later
<1> QED
  BY <1>1, <1>3, <1>5

LEMMA CompletionSteps ==
  ASSUME TurnTypeOK, NEW e \in Execution, Exact(turn[e]), NEW rev,
         \/ BindCompletedTurn(e, rev)
         \/ \E t \in Turn, found \in Receipts : ReconcileFound(e, rev, t, found)
  PROVE  Stepped(e)
<1> DEFINE r == turn[e]
<1> r \in TurnType /\ r.calls \in Seq(CallType) /\ r.turn \in Turn \cup {NoTurn}
  BY DEF TurnTypeOK, TurnType
<1>1. PICK t \in Turn, calls \in Seq(CallType) :
        /\ r.state \in {"started", "outcome-unknown"}
        /\ AllReturned(calls)
        /\ Extends(r.calls, calls) /\ DOMAIN calls = DOMAIN r.calls
        /\ Row(e, Completed(r, t, calls))
  <2>1. CASE BindCompletedTurn(e, rev)
    BY <2>1, SameCalls DEF BindCompletedTurn, At, Write
  <2>2. ASSUME NEW t \in Turn, NEW found \in Receipts, ReconcileFound(e, rev, t, found)
        PROVE  /\ found \in Seq(CallType)
               /\ r.state = "outcome-unknown"
               /\ AllReturned(found)
               /\ Extends(r.calls, found) /\ DOMAIN found = DOMAIN r.calls
               /\ Row(e, Completed(r, t, found))
    <3>1. found \in Seq(CallType)
      BY TurnAssumption, SeqDef DEF Receipts
    <3> QED
      BY <2>2, <3>1 DEF ReconcileFound, Recovers, At, Write, AllReturned, Extends
  <2> QED
    BY <2>1, <2>2
<1> DEFINE row == Completed(r, t, calls)
<1>2. /\ row \in TurnType /\ Exact(row) /\ row.rev = r.rev
      /\ Follows(r, [row EXCEPT !.rev = @ + 1])
  BY <1>1, CompletedRow
<1> HIDE DEF row
<1> QED
  BY <1>1, <1>2, RowWritten DEF Stepped, row
(***************************************************************************)
(* All executions.                                                         *)
(***************************************************************************)
\* An execution belongs to a revision its task has or had.
Held(e) == turn[e].state # "absent" =>
  /\ Actor(e).status # "unregistered"
  /\ turn[e].taskRev <= Actor(e).rev

\* An execution that was not proposed has no row.
Blank(e) == turn[e].state = "absent" => turn[e] = NoExecution

TInv ==
  /\ TaskTypeOK
  /\ TurnTypeOK
  /\ \A e \in Execution : Exact(turn[e]) /\ Held(e) /\ Blank(e)

\* What a creation leaves behind.
Proposed(e) ==
  /\ turn[e].state = "absent"
  /\ Actor(e).status = "active"
  /\ turn'[e] = [NoExecution EXCEPT !.state = "proposed", !.ref = Actor(e).ref,
                                    !.taskRev = Actor(e).rev]
  /\ UNCHANGED task

\* An existing execution changes only while its actor is the one it was made for.
Moved(e) ==
  /\ turn[e].state # "absent"
  /\ ActorCurrent(e)
  /\ Exact(turn'[e])
  /\ Follows(turn[e], turn'[e])

LEMMA NoExecutionType == NoExecution \in TurnType
BY DEF NoExecution, TurnType, ReceiptType, NoReceipt

LEMMA TurnInvInit == TurnInit => TInv
<1> SUFFICES ASSUME TurnInit PROVE TInv
  OBVIOUS
<1>1. TaskTypeOK
  BY TaskTypeInit DEF TurnInit
<1>2. NoExecution \in TurnType
  BY NoExecutionType
<1>3. TurnTypeOK /\ \A e \in Execution : turn[e] = NoExecution
  BY <1>2 DEF TurnInit, TurnTypeOK
<1>4. Exact(NoExecution) /\ NoExecution.state = "absent"
  BY DEF NoExecution, Exact
<1> QED
  BY <1>1, <1>3, <1>4 DEF TInv, Held, Blank, NoExecution

LEMMA CreateStep ==
  ASSUME TInv, NEW e \in Execution, CreateTurnExecutionIntent(e)
  PROVE  /\ TurnTypeOK'
         /\ Proposed(e)
         /\ Exact(turn'[e])
         /\ \A f \in Execution : f # e => turn'[f] = turn[f]
<1> DEFINE row == [NoExecution EXCEPT !.state = "proposed", !.ref = Actor(e).ref,
                                      !.taskRev = Actor(e).rev]
<1>1. Actor(e).rev \in Nat /\ Actor(e).ref \in TurnRef
  BY ExecutionAssumption DEF CreateTurnExecutionIntent, TInv, TaskTypeOK, TaskType, Actor
<1>2. row \in TurnType /\ Exact(row)
  <2>1. NoExecution \in TurnType /\ NoExecution.receipt = NoReceipt
    BY NoExecutionType DEF NoExecution
  <2>2. /\ row \in TurnType
        /\ row.state = "proposed"
        /\ row.receipt = NoExecution.receipt
    BY <1>1, <2>1 DEF TurnType, TurnStates
  <2> QED
    BY <2>1, <2>2 DEF Exact
<1>3. turn' = [turn EXCEPT ![e] = row] /\ UNCHANGED task /\ Actor(e).status = "active"
  BY DEF CreateTurnExecutionIntent, registry_vars
<1>4. turn[e].state = "absent"
  BY DEF CreateTurnExecutionIntent
<1>5. turn \in [Execution -> TurnType]
  BY DEF TInv, TurnTypeOK
<1> HIDE DEF row
<1>6. turn'[e] = row /\ TurnTypeOK' /\ \A f \in Execution : f # e => turn'[f] = turn[f]
  BY <1>2, <1>3, <1>5 DEF TurnTypeOK
<1> QED
  BY <1>2, <1>3, <1>4, <1>6 DEF Proposed, row

\* Every operation checks the actor first.
LEMMA OnlyCurrent ==
  ASSUME NEW e \in Execution, NEW rev,
         \/ MarkTurnExecutionStarted(e, rev)
         \/ \E t \in Turn : BindStartedTurnOperation(e, rev, t)
         \/ \E s \in Selection : RecordToolAction(e, rev, s)
         \/ \E n \in DOMAIN turn[e].calls, result \in Result : CompleteToolAction(e, rev, n, result)
         \/ BindCompletedTurn(e, rev)
         \/ MarkTurnOutcomeUnknown(e, rev)
         \/ \E t \in Turn, found \in Receipts : ReconcileFound(e, rev, t, found)
         \/ \E t \in Turn : ReconcileFoundTerminal(e, rev, t)
         \/ ReconcileNotFound(e, rev)
         \/ AbandonTurnExecution(e, rev)
         \/ PromoteTurnExecution(e, rev)
  PROVE  turn[e].state # "absent" /\ ActorCurrent(e)
BY DEF MarkTurnExecutionStarted, BindStartedTurnOperation, RecordToolAction, CompleteToolAction,
       BindCompletedTurn, MarkTurnOutcomeUnknown, ReconcileFound, ReconcileFoundTerminal,
       ReconcileNotFound, AbandonTurnExecution, PromoteTurnExecution, Promotable, At, TurnStates

LEMMA ExecutionStep ==
  ASSUME TInv, ExecutionNext
  PROVE  /\ TurnTypeOK'
         /\ \A f \in Execution :
              \/ turn'[f] = turn[f]
              \/ Proposed(f) /\ Exact(turn'[f])
              \/ Moved(f)
<1> PICK e \in Execution :
      \/ CreateTurnExecutionIntent(e)
      \/ \E rev \in 0..turn[e].rev :
           \/ MarkTurnExecutionStarted(e, rev)
           \/ \E t \in Turn : BindStartedTurnOperation(e, rev, t)
           \/ \E s \in Selection : RecordToolAction(e, rev, s)
           \/ \E n \in DOMAIN turn[e].calls, result \in Result :
                CompleteToolAction(e, rev, n, result)
           \/ BindCompletedTurn(e, rev)
           \/ MarkTurnOutcomeUnknown(e, rev)
           \/ \E t \in Turn, found \in Receipts : ReconcileFound(e, rev, t, found)
           \/ \E t \in Turn : ReconcileFoundTerminal(e, rev, t)
           \/ ReconcileNotFound(e, rev)
           \/ AbandonTurnExecution(e, rev)
           \/ PromoteTurnExecution(e, rev)
  BY DEF ExecutionNext
<1>1. TurnTypeOK /\ Exact(turn[e])
  BY DEF TInv
<1>2. CASE CreateTurnExecutionIntent(e)
  BY <1>2, CreateStep
<1>3. CASE ~CreateTurnExecutionIntent(e)
  <2>1. Stepped(e)
    BY <1>1, <1>3, StateSteps, CallSteps, CompletionSteps
  <2>2. turn[e].state # "absent" /\ ActorCurrent(e)
    BY <1>3, OnlyCurrent
  <2> QED
    BY <2>1, <2>2 DEF Stepped, Moved
<1> QED
  BY <1>2, <1>3

\* An operation on an execution leaves the registry alone, or a promotion unlocks a task.
LEMMA RegistryAround ==
  ASSUME ExecutionNext
  PROVE  UNCHANGED registry_vars \/ UnlockTask
<1>1. ASSUME NEW e, NEW rev,
             MarkTurnExecutionStarted(e, rev) \/ BindCompletedTurn(e, rev)
             \/ MarkTurnOutcomeUnknown(e, rev) \/ ReconcileNotFound(e, rev)
             \/ AbandonTurnExecution(e, rev)
      PROVE  UNCHANGED registry_vars
  BY <1>1 DEF MarkTurnExecutionStarted, BindCompletedTurn, MarkTurnOutcomeUnknown,
              ReconcileNotFound, AbandonTurnExecution, Write
<1>2. ASSUME NEW e, NEW rev, NEW t, NEW found,
             BindStartedTurnOperation(e, rev, t) \/ ReconcileFound(e, rev, t, found)
             \/ ReconcileFoundTerminal(e, rev, t)
      PROVE  UNCHANGED registry_vars
  BY <1>2 DEF BindStartedTurnOperation, ReconcileFound, ReconcileFoundTerminal, Write
<1>3. ASSUME NEW e, NEW rev, NEW s, NEW n, NEW result,
             RecordToolAction(e, rev, s) \/ CompleteToolAction(e, rev, n, result)
      PROVE  UNCHANGED registry_vars
  BY <1>3 DEF RecordToolAction, CompleteToolAction, Write
<1>4. ASSUME NEW e, CreateTurnExecutionIntent(e) PROVE UNCHANGED registry_vars
  BY <1>4 DEF CreateTurnExecutionIntent
<1>5. ASSUME NEW e, NEW rev, PromoteTurnExecution(e, rev)
      PROVE  UNCHANGED registry_vars \/ UnlockTask
  BY <1>5 DEF PromoteTurnExecution
<1> QED
  BY <1>1, <1>2, <1>3, <1>4, <1>5 DEF ExecutionNext

\* The registry takes one of its own steps meanwhile, or none.
LEMMA RegistryMeanwhile ==
  ASSUME TInv, TurnNext
  PROVE  TaskTypeOK' /\ \A i \in Incarnation : Fenced(i)
<1>1. CASE (TaskNext \/ TaskElsewhere) /\ UNCHANGED turn
  BY <1>1, RegistryStep DEF TInv
<1>2. CASE ExecutionNext
  <2>1. UNCHANGED registry_vars \/ UnlockTask
    BY <1>2, RegistryAround
  <2> QED
    BY <2>1, RegistryStep DEF TInv, TaskElsewhere, TaskTypeOK, registry_vars, Fenced
<1> QED
  BY <1>1, <1>2 DEF TurnNext

\* What every step does to one execution.
LEMMA TurnStep ==
  ASSUME TInv, TurnNext
  PROVE  /\ TInv'
         /\ \A e \in Execution : turn'[e] = turn[e] \/ Proposed(e) \/ Moved(e)
<1>1. TaskTypeOK' /\ \A i \in Incarnation : Fenced(i)
  BY RegistryMeanwhile
<1>2. /\ TurnTypeOK'
      /\ \A e \in Execution : \/ turn'[e] = turn[e]
                              \/ Proposed(e) /\ Exact(turn'[e])
                              \/ Moved(e)
  BY ExecutionStep DEF TurnNext, TInv, TurnTypeOK
<1>3. ASSUME NEW e \in Execution PROVE Exact(turn'[e])
  BY <1>2 DEF TInv, Moved
<1>4. ASSUME NEW e \in Execution PROVE Held(e)'
  <2>1. ExecutionOf[e].actor \in Incarnation /\ ExecutionOf'[e].actor = ExecutionOf[e].actor
    BY ExecutionAssumption
  <2>2. /\ Fenced(ExecutionOf[e].actor)
        /\ Actor(e) \in TaskType /\ Actor(e)' \in TaskType
    BY <1>1, <2>1 DEF TInv, TaskTypeOK, Actor
  <2>3. CASE Proposed(e)
    <3>1. turn'[e].taskRev = Actor(e).rev /\ Actor(e)' = Actor(e) /\ Actor(e).status = "active"
      BY <2>3 DEF Proposed, NoExecution, Actor
    <3> QED
      BY <2>2, <3>1 DEF Held, TaskType
  <2>4. CASE turn'[e] = turn[e] \/ Moved(e)
    <3>1. turn'[e].taskRev = turn[e].taskRev /\ (turn'[e].state # "absent" => turn[e].state # "absent")
      BY <2>4 DEF Moved, Follows
    <3>2. turn[e].taskRev \in Nat
      BY DEF TInv, TurnTypeOK, TurnType
    <3>3. turn[e].state # "absent" =>
            Actor(e)'.status # "unregistered" /\ Actor(e).rev <= Actor(e)'.rev
      BY <2>2 DEF TInv, Held, Fenced, Actor, TaskType
    <3> QED
      BY <2>2, <3>1, <3>2, <3>3 DEF TInv, Held, TaskType
  <2> QED
    BY <1>2, <2>3, <2>4
<1>5. ASSUME NEW e \in Execution PROVE Blank(e)'
  <2>1. turn'[e].state = "absent" => turn'[e] = turn[e]
    <3>1. turn'[e].state \in Later(turn[e].state) => turn'[e].state # "absent"
      BY DEF Later
    <3>2. Proposed(e) => turn'[e].state # "absent"
      BY NoExecutionType DEF Proposed, NoExecution
    <3> QED
      BY <1>2, <3>1, <3>2 DEF Moved, Follows
  <2> QED
    BY <2>1 DEF TInv, Blank
<1> QED
  BY <1>1, <1>2, <1>3, <1>4, <1>5 DEF TInv

THEOREM TurnInductive == TurnSpec => []TInv
<1>1. TInv /\ UNCHANGED turn_vars => TInv'
  BY DEF TInv, turn_vars, registry_vars, TaskTypeOK, TurnTypeOK, Held, Blank, Actor
<1> QED
  BY <1>1, TurnInvInit, TurnStep, PTL DEF TurnSpec
(***************************************************************************)
(* What follows.                                                           *)
(***************************************************************************)

\* Every row of an execution has the shape its tables allow.
THEOREM TurnTypeCorrect == TurnSpec => []TurnTypeOK
<1>1. TInv => TurnTypeOK
  BY DEF TInv
<1> QED
  BY <1>1, TurnInductive, PTL

\* A receipt lists exactly the recorded calls of the bound turn, all returned.
THEOREM ReceiptsExact == TurnSpec => []ReceiptExact
<1>1. TInv => ReceiptExact
  BY DEF TInv, Exact, ReceiptExact
<1> QED
  BY <1>1, TurnInductive, PTL

\* Neither a selection nor a result is taken back, replaced or made up.
THEOREM CallsAreKept == TurnSpec => CallsKept
<1>1. ASSUME TInv, TurnNext, NEW e \in Execution
      PROVE  /\ Extends(turn[e].calls, turn'[e].calls)
             /\ turn'[e].calls # turn[e].calls /\ Len(turn'[e].calls) # Len(turn[e].calls)
                  => turn[e].state = "started" /\ turn'[e].state = "started"
  <2>1. CASE turn'[e] = turn[e]
    BY <2>1, SameCalls
  <2>2. CASE Proposed(e)
    <3>1. turn'[e].calls = <<>>
      BY <2>2, NoExecutionType DEF Proposed, NoExecution, TurnType
    <3>2. turn[e].calls = <<>>
      BY <1>1, <2>2 DEF Proposed, TInv, Blank, NoExecution
    <3> QED
      BY <3>1, <3>2, SameCalls
  <2>3. CASE Moved(e)
    BY <2>3 DEF Moved, Follows
  <2> QED
    BY <1>1, <2>1, <2>2, <2>3, TurnStep
<1>2. TInv /\ [TurnNext]_turn_vars =>
        [\A e \in Execution :
           /\ Extends(turn[e].calls, turn'[e].calls)
           /\ turn'[e].calls # turn[e].calls /\ Len(turn'[e].calls) # Len(turn[e].calls)
                => turn[e].state = "started" /\ turn'[e].state = "started"]_turn_vars
  BY <1>1
<1> QED
  BY <1>2, TurnInductive, PTL DEF TurnSpec, CallsKept

\* Once its task has moved on, an execution is frozen for good.
THEOREM ExecutionsFreeze == TurnSpec => FrozenWithActor
<1>1. ASSUME TInv, TurnNext, NEW e \in Execution, ActorGone(e)
      PROVE  turn'[e] = turn[e] /\ ActorGone(e)'
  <2>1. ~ActorCurrent(e) /\ turn[e].state # "absent"
    BY <1>1 DEF ActorGone, ActorCurrent
  <2>2. turn'[e] = turn[e]
    BY <1>1, <2>1, TurnStep DEF Proposed, Moved
  <2>3. /\ Fenced(ExecutionOf[e].actor) /\ Held(e)
        /\ Actor(e) \in TaskType /\ Actor(e)' \in TaskType
        /\ turn[e] \in TurnType
    BY <1>1, RegistryMeanwhile, ExecutionAssumption DEF TInv, TaskTypeOK, TurnTypeOK, Actor
  <2>4. CASE Actor(e).status = "retired"
    <3>1. Actor(e)'.status = "retired"
      BY <2>3, <2>4 DEF Fenced, Actor, TaskType
    <3> QED
      BY <2>1, <2>2, <3>1 DEF ActorGone
  <2>5. CASE Actor(e).rev # turn[e].taskRev
    <3>1. turn[e].taskRev < Actor(e).rev
      BY <2>1, <2>3, <2>5 DEF Held, TurnType, TaskType
    <3>2. Actor(e).rev <= Actor(e)'.rev
      BY <2>1, <2>3 DEF Held, Fenced, Actor, TaskType
    <3>3. Actor(e)'.rev # turn'[e].taskRev
      BY <2>2, <2>3, <3>1, <3>2 DEF TurnType, TaskType
    <3> QED
      BY <2>1, <2>2, <3>3 DEF ActorGone
  <2> QED
    BY <1>1, <2>4, <2>5 DEF ActorGone
<1>2. TInv /\ [TurnNext]_turn_vars =>
        [\A e \in Execution : ActorGone(e) => turn'[e] = turn[e] /\ ActorGone(e)']_turn_vars
  BY <1>1
<1> QED
  BY <1>2, TurnInductive, PTL DEF TurnSpec, FrozenWithActor

\* No step takes an execution back to where its turn would be asked for again,
\* and each takes a revision.
THEOREM ExecutionsOneWay == TurnSpec => OneWay
<1>1. ASSUME TInv, TurnNext, NEW e \in Execution, turn'[e] # turn[e]
      PROVE  /\ turn'[e].state \in Later(turn[e].state)
             /\ turn'[e].rev = turn[e].rev + (IF turn[e].state = "absent" THEN 0 ELSE 1)
  <2>1. CASE Proposed(e)
    <3>1. turn'[e].state = "proposed" /\ turn'[e].rev = 0
      BY <2>1, NoExecutionType DEF Proposed, NoExecution, TurnType
    <3>2. turn[e].rev = 0
      BY <1>1, <2>1 DEF Proposed, TInv, Blank, NoExecution
    <3> QED
      BY <2>1, <3>1, <3>2 DEF Proposed, Later
  <2>2. CASE Moved(e)
    BY <2>2 DEF Moved, Follows
  <2> QED
    BY <1>1, <2>1, <2>2, TurnStep
<1>2. TInv /\ [TurnNext]_turn_vars =>
        [\A e \in Execution : turn'[e] # turn[e] =>
           /\ turn'[e].state \in Later(turn[e].state)
           /\ turn'[e].rev = turn[e].rev + (IF turn[e].state = "absent" THEN 0 ELSE 1)]_turn_vars
  BY <1>1
<1> QED
  BY <1>2, TurnInductive, PTL DEF TurnSpec, OneWay

(***************************************************************************)
(* The executions as TurnLife sees them.                                   *)
(***************************************************************************)
ToolsIn(calls) == [n \in DOMAIN calls |-> SelectionOf[calls[n].selection].tool]

\* A row of RunOf.
View(r) ==
  IF r.state = "abandoned" THEN [state |-> "abandoned", ref |-> NoRef, rev |-> 0, tools |-> <<>>]
  ELSE [state |-> LifeState(r.state), ref |-> r.ref, rev |-> r.taskRev,
        tools |-> ToolsIn(r.receipt.calls)]

\* An execution calls only tools it allows, and not too many.
Allowed(e) ==
  /\ Len(turn[e].calls) <= MaxAction
  /\ \A n \in DOMAIN turn[e].calls :
       SelectionOf[turn[e].calls[n].selection].tool \in ExecutionOf[e].tools

RInv == TInv /\ \A e \in Execution : Allowed(e)

OpenStates == {"proposed", "started", "outcome-unknown"}

LEMMA RunIsView ==
  /\ RunOf = [e \in Execution |-> View(turn[e])]
  /\ RunOf' = [e \in Execution |-> View(turn'[e])]
BY DEF RunOf, View, ToolsIn

\* The view of one row changes.
LEMMA ViewWritten ==
  ASSUME NEW e \in Execution, \A f \in Execution : f # e => turn'[f] = turn[f]
  PROVE  RunOf' = [RunOf EXCEPT ![e] = View(turn'[e])]
BY RunIsView

LEMMA EmptyTools == ToolsIn(<<>>) = <<>>
BY DEF ToolsIn

LEMMA SameTools ==
  ASSUME NEW calls, NEW later, Extends(calls, later), DOMAIN later = DOMAIN calls
  PROVE  ToolsIn(later) = ToolsIn(calls)
BY DEF Extends, ToolsIn

LEMMA RegistryLife ==
  /\ TaskNext <=> Life!TaskNext
  /\ TaskElsewhere <=> Life!TaskElsewhere
  /\ UnlockTask <=> Life!UnlockTask
  /\ registry_vars = Life!registry_vars
<1>1. registry_vars = Life!registry_vars
  BY DEF registry_vars, Life!registry_vars
<1>2. UnlockTask <=> Life!UnlockTask
  BY DEF UnlockTask, Unlocks, Unlockable, Life!UnlockTask, Life!Unlocks, Life!Unlockable
<1>3. TaskElsewhere <=> Life!TaskElsewhere
  BY <1>2 DEF TaskElsewhere, ForgetRefs, Life!TaskElsewhere, Life!ForgetRefs
<1>4. TaskNext <=> Life!TaskNext
  BY DEF TaskNext, Tick, RegisterTask, NewTask, TaskCas, UpdateTaskState, UpdateTaskRuntime,
         AttachTask, RotateTaskIncarnation,
         Life!TaskNext, Life!Tick, Life!RegisterTask, Life!NewTask, Life!TaskCas,
         Life!UpdateTaskState, Life!UpdateTaskRuntime, Life!AttachTask, Life!RotateTaskIncarnation
<1> QED
  BY <1>1, <1>2, <1>3, <1>4

\* What an operation on an execution that exists leaves of its calls: in a started
\* turn one may come, anywhere else their number stays.
LEMMA AllowedStep ==
  ASSUME TInv, TurnTypeOK', NEW e \in Execution, Allowed(e), Moved(e),
         \/ Len(turn'[e].calls) = Len(turn[e].calls)
         \/ \E rev : \E s \in Selection : RecordToolAction(e, rev, s)
  PROVE  Allowed(e)'
<1>1. /\ turn[e].calls \in Seq(CallType) /\ Extends(turn[e].calls, turn'[e].calls)
      /\ turn[e] \in TurnType
  BY DEF TInv, TurnTypeOK, TurnType, Moved, Follows
<1>2. CASE \E rev : \E s \in Selection : RecordToolAction(e, rev, s)
  <2>0. PICK rev : \E s \in Selection : RecordToolAction(e, rev, s)
    BY <1>2
  <2>1. PICK s \in Selection : RecordToolAction(e, rev, s)
    BY <2>0
  <2> DEFINE call == [selection |-> s, result |-> NoResult]
  <2>2. turn'[e].calls = Append(turn[e].calls, call)
    BY <1>1, <2>1 DEF RecordToolAction, Write, Row, TInv, TurnTypeOK, TurnType
  <2>3. call.selection = s
    OBVIOUS
  <2> HIDE DEF call
  <2>4. Len(turn[e].calls) < MaxAction /\ SelectionOf[s].tool \in ExecutionOf[e].tools
    BY <2>1 DEF RecordToolAction
  <2>5. PICK n \in Nat : n = Len(turn[e].calls) /\ DOMAIN turn[e].calls = 1..n
    BY <1>1, LenProperties
  <2>6. PICK calls : /\ calls = turn'[e].calls /\ Len(calls) = n + 1 /\ DOMAIN calls = 1..(n + 1)
                     /\ calls[n + 1] = call
                     /\ \A m \in 1..n : calls[m] = turn[e].calls[m]
    <3>1. PICK old \in Seq(CallType) : old = turn[e].calls /\ Len(old) = n
      BY <1>1, <2>5
    <3>2. PICK new \in CallType : new = call
      BY DEF CallType, call
    <3>3. /\ Len(Append(old, new)) = n + 1 /\ DOMAIN Append(old, new) = 1..(n + 1)
          /\ Append(old, new)[n + 1] = new
          /\ \A m \in 1..n : Append(old, new)[m] = old[m]
      BY <3>1, AppendProperties, LenProperties
    <3> QED
      BY <2>2, <3>1, <3>2, <3>3
  <2>7. n + 1 <= MaxAction
    BY <2>4, <2>5, TurnAssumption
  <2>8. \A m \in 1..(n + 1) : SelectionOf[calls[m].selection].tool \in ExecutionOf[e].tools
    <3>1. \A m \in 1..n : SelectionOf[calls[m].selection].tool \in ExecutionOf[e].tools
      BY <2>5, <2>6 DEF Allowed
    <3>2. SelectionOf[calls[n + 1].selection].tool \in ExecutionOf[e].tools
      BY <2>3, <2>4, <2>6
    <3>3. 1..(n + 1) = (1..n) \cup {n + 1}
      OBVIOUS
    <3> QED
      BY <3>1, <3>2, <3>3
  <2> QED
    BY <2>6, <2>7, <2>8 DEF Allowed
<1>3. CASE Len(turn'[e].calls) = Len(turn[e].calls)
  <2>1. turn'[e].calls \in Seq(CallType)
    BY DEF TurnTypeOK, TurnType
  <2>2. DOMAIN turn'[e].calls = DOMAIN turn[e].calls
    BY <1>1, <1>3, <2>1, LenProperties
  <2>3. \A n \in DOMAIN turn[e].calls : turn'[e].calls[n].selection = turn[e].calls[n].selection
    BY <1>1 DEF Extends
  <2> QED
    BY <1>3, <2>2, <2>3 DEF Allowed
<1> QED
  BY <1>2, <1>3

LEMMA CountKept ==
  ASSUME TInv, NEW e \in Execution, NEW rev,
         \/ \E t \in Turn : BindStartedTurnOperation(e, rev, t)
         \/ \E n \in DOMAIN turn[e].calls, result \in Result : CompleteToolAction(e, rev, n, result)
  PROVE  Len(turn'[e].calls) = Len(turn[e].calls)
<1>1. turn[e] \in TurnType /\ turn[e].calls \in Seq(CallType)
  BY DEF TInv, TurnTypeOK, TurnType
<1>2. CASE \E t \in Turn : BindStartedTurnOperation(e, rev, t)
  <2>1. turn'[e].calls = turn[e].calls
    BY <1>1, <1>2 DEF BindStartedTurnOperation, Write, Row, TInv, TurnTypeOK, TurnType
  <2> QED
    BY <2>1
<1>3. ASSUME NEW n \in DOMAIN turn[e].calls, NEW result \in Result, CompleteToolAction(e, rev, n, result)
      PROVE  Len(turn'[e].calls) = Len(turn[e].calls)
  <2>1. turn'[e].calls = [turn[e].calls EXCEPT ![n] = [turn[e].calls[n] EXCEPT !.result = result]]
    BY <1>1, <1>3 DEF CompleteToolAction, Write, Row, TInv, TurnTypeOK, TurnType
  <2>2. DOMAIN turn'[e].calls = DOMAIN turn[e].calls
    BY <2>1
  <2>3. turn[e].calls[n] \in CallType
    BY <1>1, ElementOfSeq, LenProperties
  <2>4. [turn[e].calls[n] EXCEPT !.result = result] \in CallType
    BY <2>3 DEF CallType
  <2>5. turn'[e].calls \in Seq(CallType)
    BY <1>1, <2>1, <2>4, ExceptSeq, LenProperties
  <2> QED
    BY <1>1, <2>2, <2>5, LenProperties
<1> QED
  BY <1>2, <1>3

\* What RunOf shows of a row, by the state of the row.
LEMMA ViewFields ==
  ASSUME NEW r \in TurnType
  PROVE  /\ r.state \in OpenStates =>
              View(r) = [state |-> "open", ref |-> r.ref, rev |-> r.taskRev,
                         tools |-> ToolsIn(r.receipt.calls)]
         /\ r.state = "completed-turn-bound" =>
              View(r) = [state |-> "completed", ref |-> r.ref, rev |-> r.taskRev,
                         tools |-> ToolsIn(r.receipt.calls)]
         /\ r.state = "promoted" =>
              View(r) = [state |-> "promoted", ref |-> r.ref, rev |-> r.taskRev,
                         tools |-> ToolsIn(r.receipt.calls)]
         /\ r.state = "abandoned" =>
              View(r) = [state |-> "abandoned", ref |-> NoRef, rev |-> 0, tools |-> <<>>]
BY DEF View, LifeState, OpenStates

\* The row of an execution that completes, and of one that is promoted.
WithTools(e, tools) == [RunOf EXCEPT ![e].state = "completed", ![e].tools = tools]
CompletedRun(e, old, tools) ==
  [RunOf EXCEPT ![e] = [state |-> "completed", ref |-> old.ref, rev |-> old.rev, tools |-> tools]]

LEMMA LifeRows ==
  ASSUME NEW e \in Execution, NEW old, old = RunOf[e], NEW tools,
         old = [state |-> old.state, ref |-> old.ref, rev |-> old.rev, tools |-> old.tools]
  PROVE  /\ WithTools(e, tools) = CompletedRun(e, old, tools)
         /\ [RunOf EXCEPT ![e].state = "promoted"]
              = [RunOf EXCEPT ![e] = [state |-> "promoted", ref |-> old.ref,
                                      rev |-> old.rev, tools |-> old.tools]]
<1>1. PICK run : run = RunOf /\ run = [f \in Execution |-> run[f]]
  BY DEF RunOf
<1>2. old = run[e]
  BY <1>1
<1>3. /\ [old EXCEPT !.state = "completed", !.tools = tools]
           = [state |-> "completed", ref |-> old.ref, rev |-> old.rev, tools |-> tools]
      /\ [old EXCEPT !.state = "promoted"]
           = [state |-> "promoted", ref |-> old.ref, rev |-> old.rev, tools |-> old.tools]
  <2>1. PICK state, ref, rev, list :
          /\ old = [state |-> state, ref |-> ref, rev |-> rev, tools |-> list]
          /\ ref = old.ref /\ rev = old.rev /\ list = old.tools
    <3>1. old = [state |-> old.state, ref |-> old.ref, rev |-> old.rev, tools |-> old.tools]
      OBVIOUS
    <3> QED
      BY <3>1, Zenon
  <2>2. /\ [[state |-> state, ref |-> ref, rev |-> rev, tools |-> list]
              EXCEPT !.state = "completed", !.tools = tools]
             = [state |-> "completed", ref |-> ref, rev |-> rev, tools |-> tools]
        /\ [[state |-> state, ref |-> ref, rev |-> rev, tools |-> list] EXCEPT !.state = "promoted"]
             = [state |-> "promoted", ref |-> ref, rev |-> rev, tools |-> list]
    <3>1. [[state |-> state, ref |-> ref, rev |-> rev, tools |-> list] EXCEPT !.state = "completed"]
             = [state |-> "completed", ref |-> ref, rev |-> rev, tools |-> list]
      OBVIOUS
    <3>2. [[state |-> "completed", ref |-> ref, rev |-> rev, tools |-> list] EXCEPT !.tools = tools]
             = [state |-> "completed", ref |-> ref, rev |-> rev, tools |-> tools]
      OBVIOUS
    <3>3. [[state |-> state, ref |-> ref, rev |-> rev, tools |-> list] EXCEPT !.state = "promoted"]
             = [state |-> "promoted", ref |-> ref, rev |-> rev, tools |-> list]
      OBVIOUS
    <3>4. [[state |-> state, ref |-> ref, rev |-> rev, tools |-> list]
             EXCEPT !.state = "completed", !.tools = tools]
            = [[[state |-> state, ref |-> ref, rev |-> rev, tools |-> list]
                 EXCEPT !.state = "completed"] EXCEPT !.tools = tools]
      OBVIOUS
    <3> QED
      BY <3>1, <3>2, <3>3, <3>4, Zenon
  <2> QED
    BY <2>1, <2>2
<1>4. [run EXCEPT ![e].state = "completed", ![e].tools = tools]
        = [run EXCEPT ![e] = [old EXCEPT !.state = "completed", !.tools = tools]]
  BY <1>1, <1>2
<1>5. [run EXCEPT ![e].state = "promoted"] = [run EXCEPT ![e] = [old EXCEPT !.state = "promoted"]]
  BY <1>1, <1>2
<1> QED
  BY <1>1, <1>3, <1>4, <1>5 DEF WithTools, CompletedRun

\* The tools a completed execution shows are a list TurnLife can name.
LEMMA ListOfTools ==
  ASSUME NEW e \in Execution, Allowed(e)', turn'[e].calls \in Seq(CallType)
  PROVE  /\ ToolsIn(turn'[e].calls) \in Life!ToolLists
         /\ \A n \in DOMAIN ToolsIn(turn'[e].calls) : ToolsIn(turn'[e].calls)[n] \in ExecutionOf[e].tools
<1>1. PICK calls \in Seq(CallType) : calls = turn'[e].calls
  OBVIOUS
<1>2. PICK n \in 0..MaxAction : n = Len(calls) /\ DOMAIN calls = 1..n
  BY <1>1, LenProperties, TurnAssumption DEF Allowed
<1>3. \A m \in 1..n : SelectionOf[calls[m].selection].tool \in ExecutionOf[e].tools
  BY <1>1, <1>2 DEF Allowed
<1>4. PICK list : list = ToolsIn(calls)
  OBVIOUS
<1>5. list = [m \in 1..n |-> SelectionOf[calls[m].selection].tool]
  BY <1>2, <1>4 DEF ToolsIn
<1>6. \A m \in 1..n : list[m] \in ExecutionOf[e].tools
  BY <1>3, <1>5
<1>7. list \in [1..n -> {SelectionOf[s].tool : s \in Selection} \cup UNION {ExecutionOf[f].tools : f \in Execution}]
  BY <1>3, <1>5
<1>8. list \in Life!ToolLists
  BY <1>7 DEF Life!ToolLists
<1> QED
  BY <1>1, <1>4, <1>5, <1>6, <1>8

\* An operation on an execution that exists is a step of TurnLife or none.
LEMMA MovedLife ==
  ASSUME TInv, TurnTypeOK', NEW e \in Execution, Moved(e), Allowed(e)',
         \A f \in Execution : f # e => turn'[f] = turn[f]
  PROVE  \/ UNCHANGED RunOf
         \/ Life!Abandons(e)
         \/ Life!Promotes(e)
         \/ \E tools \in Life!ToolLists : Life!Completes(e, tools)
<1>1. PICK r \in TurnType, s \in TurnType : r = turn[e] /\ s = turn'[e]
  BY DEF TInv, TurnTypeOK
<1>2. /\ Exact(r) /\ Exact(s) /\ s.ref = r.ref /\ s.taskRev = r.taskRev
      /\ Extends(r.calls, s.calls) /\ s.state \in Later(r.state) /\ r.state # "absent"
      /\ s.calls # r.calls /\ Len(s.calls) # Len(r.calls) => r.state = "started" /\ s.state = "started"
  BY <1>1 DEF Moved, Follows, TInv
<1>3. /\ RunOf[e] = View(r) /\ RunOf' = [RunOf EXCEPT ![e] = View(s)]
  BY <1>1, RunIsView, ViewWritten
<1>4. s.calls \in Seq(CallType) /\ r.calls \in Seq(CallType)
  BY DEF TurnType
<1>5. r.state \in {"started", "outcome-unknown", "proposed"} => View(r) =
        [state |-> "open", ref |-> r.ref, rev |-> r.taskRev, tools |-> <<>>]
  <2> SUFFICES ASSUME r.state \in {"started", "outcome-unknown", "proposed"}
               PROVE  View(r) = [state |-> "open", ref |-> r.ref, rev |-> r.taskRev, tools |-> <<>>]
    OBVIOUS
  <2>1. r.receipt = NoReceipt /\ NoReceipt.calls = <<>>
    BY <1>2 DEF Exact, NoReceipt
  <2> QED
    BY <2>1, ViewFields, EmptyTools DEF OpenStates
<1>6. r.state = "completed-turn-bound" => View(r) =
        [state |-> "completed", ref |-> r.ref, rev |-> r.taskRev, tools |-> ToolsIn(r.calls)]
  <2> SUFFICES ASSUME r.state = "completed-turn-bound"
               PROVE  View(r) = [state |-> "completed", ref |-> r.ref, rev |-> r.taskRev,
                                 tools |-> ToolsIn(r.calls)]
    OBVIOUS
  <2>1. r.receipt.calls = r.calls
    BY <1>2 DEF Exact
  <2> QED
    BY <2>1, ViewFields
<1>7. Actor(e).status = "active" /\ Actor(e).ref = r.ref /\ Actor(e).rev = r.taskRev
  BY <1>1 DEF Moved, ActorCurrent
<1>8. PICK old : old = RunOf[e]
  OBVIOUS
<1>9. old.ref = r.ref /\ old.rev = r.taskRev => Life!Unmoved(e)
  BY <1>7, <1>8 DEF Life!Unmoved, Actor
<1>10. CASE s.state \in {"started", "outcome-unknown"}
  <2>1. r.state \in {"proposed", "started"} /\ s.receipt = NoReceipt /\ r.receipt = NoReceipt
    BY <1>2, <1>10 DEF Later, Exact, TurnStates
  <2>2. View(s) = View(r)
    BY <1>2, <1>10, <2>1, ViewFields DEF OpenStates
  <2>3. RunOf' = RunOf
    BY <1>3, <2>2, RunIsView
  <2> QED
    BY <2>3
<1>11. CASE s.state = "completed-turn-bound"
  <2>1. r.state \in {"started", "outcome-unknown"}
    BY <1>2, <1>11 DEF Later
  <2>2. /\ old = [state |-> "open", ref |-> r.ref, rev |-> r.taskRev, tools |-> <<>>]
        /\ old.state = "open" /\ old.ref = r.ref /\ old.rev = r.taskRev /\ old.tools = <<>>
    BY <1>3, <1>5, <1>8, <2>1
  <2>3. PICK tools \in Life!ToolLists :
          tools = ToolsIn(s.calls) /\ \A n \in DOMAIN tools : tools[n] \in ExecutionOf[e].tools
    BY <1>1, <1>4, ListOfTools
  <2>4. View(s) = [state |-> "completed", ref |-> old.ref, rev |-> old.rev, tools |-> tools]
    <3>1. s.receipt.calls = s.calls
      BY <1>2, <1>11 DEF Exact
    <3> QED
      BY <1>2, <1>11, <2>2, <2>3, <3>1, ViewFields
  <2>5. RunOf' = [RunOf EXCEPT ![e].state = "completed", ![e].tools = tools]
    <3>1. old = [state |-> old.state, ref |-> old.ref, rev |-> old.rev, tools |-> old.tools]
      BY <2>2
    <3>2. WithTools(e, tools) = CompletedRun(e, old, tools)
      BY <1>8, <3>1, LifeRows, Zenon
    <3>3. RunOf' = WithTools(e, tools)
      BY <1>3, <2>4, <3>2, Zenon DEF CompletedRun
    <3> QED
      BY <3>3 DEF WithTools
  <2>6. Life!Completes(e, tools)
    BY <1>8, <1>9, <2>2, <2>3, <2>5 DEF Life!Completes
  <2> QED
    BY <2>6
<1>12. CASE s.state = "promoted"
  <2>1. r.state = "completed-turn-bound" /\ s.calls # <<>> /\ s.receipt.calls = s.calls
    BY <1>2, <1>12 DEF Later, Exact
  <2>2. /\ old = [state |-> "completed", ref |-> r.ref, rev |-> r.taskRev, tools |-> ToolsIn(r.calls)]
        /\ old.state = "completed" /\ old.ref = r.ref /\ old.rev = r.taskRev
        /\ old.tools = ToolsIn(r.calls)
    BY <1>3, <1>6, <1>8, <2>1
  <2>3. DOMAIN s.calls = DOMAIN r.calls
    BY <1>2, <1>4, <1>12, LenProperties
  <2>4. ToolsIn(s.calls) = ToolsIn(r.calls)
    BY <1>2, <2>3, SameTools
  <2>5. old.tools # <<>>
    <3>1. DOMAIN s.calls # {}
      <4>1. PICK n \in Nat : n = Len(s.calls) /\ DOMAIN s.calls = 1..n
        BY <1>4, LenProperties
      <4>2. n # 0
        BY <1>4, <2>1, <4>1, EmptySeq
      <4>3. 1 \in 1..n
        BY <4>2
      <4> QED
        BY <4>1, <4>3
    <3>2. DOMAIN old.tools = DOMAIN r.calls
      BY <2>2 DEF ToolsIn
    <3>3. DOMAIN <<>> = {}
      OBVIOUS
    <3> QED
      BY <2>3, <3>1, <3>2, <3>3
  <2>6. View(s) = [state |-> "promoted", ref |-> old.ref, rev |-> old.rev, tools |-> old.tools]
    BY <1>2, <1>12, <2>1, <2>2, <2>4, ViewFields
  <2>7. RunOf' = [RunOf EXCEPT ![e].state = "promoted"]
    <3>1. old = [state |-> old.state, ref |-> old.ref, rev |-> old.rev, tools |-> old.tools]
      BY <2>2
    <3>2. [RunOf EXCEPT ![e].state = "promoted"]
            = [RunOf EXCEPT ![e] = [state |-> "promoted", ref |-> old.ref, rev |-> old.rev,
                                    tools |-> old.tools]]
      BY <1>8, <3>1, LifeRows, Zenon
    <3> QED
      BY <1>3, <2>6, <3>2, Zenon
  <2>8. Life!Promotes(e)
    BY <1>8, <1>9, <2>2, <2>5, <2>7 DEF Life!Promotes
  <2> QED
    BY <2>8
<1>13. CASE s.state = "abandoned"
  <2>1. r.state \in {"proposed", "started", "outcome-unknown", "completed-turn-bound"}
    BY <1>2, <1>13 DEF Later, TurnType, TurnStates
  <2>2. old.state \in {"open", "completed"} /\ old.ref = r.ref /\ old.rev = r.taskRev
    BY <1>3, <1>5, <1>6, <1>8, <2>1
  <2>3. View(s) = [Life!NoTurnYet EXCEPT !.state = "abandoned"]
    BY <1>13, ViewFields DEF Life!NoTurnYet
  <2>4. Life!Abandons(e)
    BY <1>3, <1>8, <1>9, <2>2, <2>3 DEF Life!Abandons
  <2> QED
    BY <2>4
<1>14. s.state \in {"started", "outcome-unknown", "completed-turn-bound", "promoted", "abandoned"}
  BY <1>2 DEF Later, TurnType, TurnStates
<1> QED
  BY <1>10, <1>11, <1>12, <1>13, <1>14

\* A creation opens an execution.
LEMMA CreateOpens ==
  ASSUME TInv, NEW e \in Execution, CreateTurnExecutionIntent(e)
  PROVE  Life!Opens(e) /\ Allowed(e)' /\ \A f \in Execution : f # e => turn'[f] = turn[f]
<1>1. Proposed(e) /\ \A f \in Execution : f # e => turn'[f] = turn[f]
  BY CreateStep
<1>2. turn[e] = NoExecution
  BY <1>1 DEF Proposed, TInv, Blank
<1>3. /\ turn'[e].state = "proposed" /\ turn'[e].ref = Actor(e).ref /\ turn'[e].taskRev = Actor(e).rev
      /\ turn'[e].receipt = NoReceipt /\ turn'[e].calls = <<>>
  BY <1>1, NoExecutionType DEF Proposed, NoExecution
<1>4. NoReceipt.calls = <<>>
  BY DEF NoReceipt
<1>5. View(turn'[e]) = [state |-> "open", ref |-> Actor(e).ref, rev |-> Actor(e).rev, tools |-> <<>>]
  BY <1>3, <1>4, EmptyTools DEF View, LifeState
<1>6. RunOf[e].state = "none"
  BY <1>2, RunIsView DEF View, LifeState, NoExecution
<1>7. Actor(e).status = "active" /\ Actor(e).ref \in TurnRef
  BY DEF CreateTurnExecutionIntent
<1>8. RunOf' = [RunOf EXCEPT ![e] =
                  [state |-> "open", ref |-> Actor(e).ref, rev |-> Actor(e).rev, tools |-> <<>>]]
  BY <1>1, <1>5, ViewWritten
<1>9. Life!Opens(e)
  BY <1>6, <1>7, <1>8 DEF Life!Opens, Actor
<1>10. Allowed(e)'
  <2>1. Len(<<>>) = 0 /\ DOMAIN <<>> = {}
    OBVIOUS
  <2> QED
    BY <1>3, <2>1, TurnAssumption DEF Allowed
<1> QED
  BY <1>1, <1>9, <1>10

LEMMA CountStays ==
  ASSUME TInv, NEW e \in Execution, NEW rev,
         \/ BindCompletedTurn(e, rev)
         \/ MarkTurnOutcomeUnknown(e, rev)
         \/ AbandonTurnExecution(e, rev)
  PROVE  Len(turn'[e].calls) = Len(turn[e].calls)
<1>1. turn[e] \in TurnType
  BY DEF TInv, TurnTypeOK
<1>2. PICK row \in TurnType : row = turn[e]
  BY <1>1
<1>3. CASE BindCompletedTurn(e, rev)
  <2>1. Row(e, Completed(row, row.turn, row.calls))
    BY <1>2, <1>3 DEF BindCompletedTurn, Write
  <2>2. Completed(row, row.turn, row.calls).calls = row.calls
    BY DEF Completed, TurnType
  <2>3. turn'[e].calls = Completed(row, row.turn, row.calls).calls
    BY <2>1 DEF Row, Completed, TInv, TurnTypeOK, TurnType
  <2> QED
    BY <1>2, <2>2, <2>3
<1>4. CASE MarkTurnOutcomeUnknown(e, rev) \/ AbandonTurnExecution(e, rev)
  <2>1. PICK state : Row(e, [row EXCEPT !.state = state])
    BY <1>2, <1>4 DEF MarkTurnOutcomeUnknown, AbandonTurnExecution, Write
  <2>2. turn'[e].calls = row.calls
    BY <2>1 DEF Row, TInv, TurnTypeOK, TurnType
  <2> QED
    BY <1>2, <2>2
<1> QED
  BY <1>3, <1>4

\* Every operation on an execution keeps to what it allows, and is a step of TurnLife
\* or none.
LEMMA ExecutionLife ==
  ASSUME RInv, ExecutionNext
  PROVE  (\A e \in Execution : Allowed(e)') /\ (Life!RunNext \/ UNCHANGED RunOf)
<1>1. PICK e \in Execution :
      \/ CreateTurnExecutionIntent(e)
      \/ \E rev \in 0..turn[e].rev :
           \/ MarkTurnExecutionStarted(e, rev)
           \/ \E t \in Turn : BindStartedTurnOperation(e, rev, t)
           \/ \E s \in Selection : RecordToolAction(e, rev, s)
           \/ \E n \in DOMAIN turn[e].calls, result \in Result :
                CompleteToolAction(e, rev, n, result)
           \/ BindCompletedTurn(e, rev)
           \/ MarkTurnOutcomeUnknown(e, rev)
           \/ \E t \in Turn, found \in Receipts : ReconcileFound(e, rev, t, found)
           \/ \E t \in Turn : ReconcileFoundTerminal(e, rev, t)
           \/ ReconcileNotFound(e, rev)
           \/ AbandonTurnExecution(e, rev)
           \/ PromoteTurnExecution(e, rev)
  BY DEF ExecutionNext
<1>2. TInv /\ TurnTypeOK /\ Exact(turn[e]) /\ Allowed(e)
  BY DEF RInv, TInv
<1>3. ASSUME Allowed(e)', \A f \in Execution : f # e => turn'[f] = turn[f]
      PROVE  \A f \in Execution : Allowed(f)'
  BY <1>3 DEF RInv, Allowed
<1>4. CASE CreateTurnExecutionIntent(e)
  BY <1>2, <1>3, <1>4, CreateOpens DEF Life!RunNext
<1>5. CASE ~CreateTurnExecutionIntent(e)
  <2>1. Stepped(e)
    BY <1>1, <1>2, <1>5, StateSteps, CallSteps, CompletionSteps
  <2>2. turn[e].state # "absent" /\ ActorCurrent(e)
    BY <1>1, <1>5, OnlyCurrent
  <2>3. Moved(e) /\ TurnTypeOK' /\ \A f \in Execution : f # e => turn'[f] = turn[f]
    BY <2>1, <2>2 DEF Stepped, Moved
  <2>4. turn[e].state # "started" => Len(turn'[e].calls) = Len(turn[e].calls)
    BY <2>3 DEF Moved, Follows
  <2>5. \/ Len(turn'[e].calls) = Len(turn[e].calls)
        \/ \E rev : \E s \in Selection : RecordToolAction(e, rev, s)
    <3>1. CASE turn[e].state # "started"
      BY <2>4, <3>1
    <3>2. CASE turn[e].state = "started"
      <4>1. PICK rev \in 0..turn[e].rev :
              \/ MarkTurnExecutionStarted(e, rev)
              \/ \E t \in Turn : BindStartedTurnOperation(e, rev, t)
              \/ \E s \in Selection : RecordToolAction(e, rev, s)
              \/ \E n \in DOMAIN turn[e].calls, result \in Result :
                   CompleteToolAction(e, rev, n, result)
              \/ BindCompletedTurn(e, rev)
              \/ MarkTurnOutcomeUnknown(e, rev)
              \/ \E t \in Turn, found \in Receipts : ReconcileFound(e, rev, t, found)
              \/ \E t \in Turn : ReconcileFoundTerminal(e, rev, t)
              \/ ReconcileNotFound(e, rev)
              \/ AbandonTurnExecution(e, rev)
              \/ PromoteTurnExecution(e, rev)
        BY <1>1, <1>5
      <4>2. /\ ~MarkTurnExecutionStarted(e, rev) /\ ~ReconcileNotFound(e, rev)
            /\ ~PromoteTurnExecution(e, rev)
            /\ \A t, found : ~ReconcileFound(e, rev, t, found)
            /\ \A t : ~ReconcileFoundTerminal(e, rev, t)
        BY <3>2 DEF MarkTurnExecutionStarted, ReconcileNotFound, PromoteTurnExecution, Promotable,
                    ReconcileFound, ReconcileFoundTerminal, At
      <4> QED
        BY <1>2, <4>1, <4>2, CountKept, CountStays
    <3> QED
      BY <3>1, <3>2
  <2>6. Allowed(e)'
    BY <1>2, <2>3, <2>5, AllowedStep
  <2> QED
    BY <1>2, <1>3, <2>3, <2>6, MovedLife DEF Life!RunNext
<1> QED
  BY <1>4, <1>5

LEMMA LifeStep ==
  ASSUME RInv, [TurnNext]_turn_vars
  PROVE  RInv' /\ [Life!LifeOfTurns]_(Life!run_vars)
<1>1. TInv'
  BY TurnStep DEF RInv, TInv, turn_vars, registry_vars, TaskTypeOK, TurnTypeOK, Held, Blank, Actor
<1>2. CASE ExecutionNext
  <2>1. (\A e \in Execution : Allowed(e)') /\ (Life!RunNext \/ UNCHANGED RunOf)
    BY <1>2, ExecutionLife
  <2>2. UNCHANGED Life!registry_vars \/ (UnlockTask /\ Life!UnlockTask /\ Life!TaskElsewhere)
    BY <1>2, RegistryAround, RegistryLife DEF TaskElsewhere, registry_vars, Life!registry_vars
  <2> QED
    BY <1>1, <2>1, <2>2 DEF RInv, Life!LifeOfTurns, Life!run_vars
<1>3. CASE UNCHANGED turn /\ (TaskNext \/ TaskElsewhere \/ UNCHANGED registry_vars)
  <2>1. (\A e \in Execution : Allowed(e)') /\ RunOf' = RunOf
    BY <1>3, RunIsView DEF RInv, Allowed
  <2>2. Life!TaskNext \/ Life!TaskElsewhere \/ UNCHANGED Life!registry_vars
    BY <1>3, RegistryLife DEF registry_vars, Life!registry_vars
  <2> QED
    BY <1>1, <2>1, <2>2 DEF RInv, Life!LifeOfTurns, Life!run_vars
<1> QED
  BY <1>2, <1>3 DEF TurnNext, turn_vars

LEMMA LifeInitial == TurnInit => RInv /\ Life!RegistryInit /\ Life!RunInit
<1> SUFFICES ASSUME TurnInit PROVE RInv /\ Life!RegistryInit /\ Life!RunInit
  OBVIOUS
<1>1. TInv
  BY TurnInvInit
<1>2. \A e \in Execution : turn[e] = NoExecution
  BY DEF TurnInit
<1>3. NoExecution.calls = <<>> /\ NoExecution.receipt.calls = <<>>
  BY DEF NoExecution, NoReceipt
<1>4. \A e \in Execution : Allowed(e)
  <2>1. Len(<<>>) = 0 /\ DOMAIN <<>> = {}
    OBVIOUS
  <2> QED
    BY <1>2, <1>3, <2>1, TurnAssumption DEF Allowed
<1>5. View(NoExecution) = Life!NoTurnYet
  BY <1>3, EmptyTools DEF View, LifeState, NoExecution, Life!NoTurnYet
<1>6. Life!RunInit
  BY <1>2, <1>5, RunIsView DEF Life!RunInit
<1>7. Life!RegistryInit
  BY DEF TurnInit, RegistryInit, Life!RegistryInit
<1> QED
  BY <1>1, <1>4, <1>6, <1>7 DEF RInv

\* A turn that is promoted was completed with the tools it shows, once, and for a task
\* that has not moved since the turn was proposed (sqlite-coordinator.mjs,
\* durable-turn-intent.mjs): every operation is one of TurnLife's, or is not seen there.
THEOREM TurnLifeRefines == TurnSpec => ImplementsTurnLife
<1>1. TurnInit => RInv /\ Life!RegistryInit /\ Life!RunInit
  BY LifeInitial
<1>2. RInv /\ [TurnNext]_turn_vars => RInv' /\ [Life!LifeOfTurns]_(Life!run_vars)
  BY LifeStep
<1> QED
  BY <1>1, <1>2, PTL DEF TurnSpec, ImplementsTurnLife, Life!TurnLifeSpec

(***************************************************************************)
(* The activation: its inductive invariant.                                *)
(***************************************************************************)
Committed(k) == IF k = "decision" THEN decision # NoChoice ELSE admission = "completed"

\* Where a process works in a native turn it has bound, and where it has asked for one.
InTurn(p) == proc[p].at \in {"turn", "staged", "called", "recorded", "ran", "completing"}
Owns(p) == Stands(p, "bind") \/ InTurn(p)

Business == execution["business"]

\* The first n tools of the business turn ran, and no others.
Done(n) ==
  /\ effect \subseteq [turn : {Business.turn}, position : 1..n]
  /\ IsFiniteSet(effect) /\ Cardinality(effect) = n

\* The turn a process is in is the one its execution is bound to, and its locals are
\* those of the last change of the execution.
TurnSound(p) ==
  /\ Owns(p) => proc[p].turn \in Turns
  /\ InTurn(p) => Holds(p)
  /\ Stands(p, "commit") => Mine(p).state = "completed"
  /\ proc[p].kind = "decision" /\ proc[p].at \in {"staged", "called", "recorded", "completing", "commit"}
       => proc[p].choice \in Choice
  /\ proc[p].at \in {"staged", "called"} => proc[p].kind = "decision"
  /\ proc[p].kind = "business" =>
       /\ Stands(p, "turn") => Business.calls = Business.returned
       /\ Stands(p, "recorded") => Business.calls = Business.returned + 1 /\ Done(Business.returned)
       /\ Stands(p, "ran") => Business.calls = Business.returned + 1 /\ Done(Business.calls)

\* A process past its journal has it, or finds its outcome committed.
WaySound(p) ==
  /\ proc[p].at \in {"mark", "start"} => journal[proc[p].kind] # NoBase \/ Committed(proc[p].kind)
  /\ Stands(p, "write") => proc[p].base # NoBase
  /\ Stands(p, "retire") => Committed(proc[p].kind)
  /\ Stands(p, "retire-action") \/ Stands(p, "decided") => decision # NoChoice
  /\ Stands(p, "prepared") \/ proc[p].kind = "business" => decision = Accepted
  /\ Stands(p, "handler") => decision # NoChoice /\ (proc[p].kind = "decision" => decision # Accepted)

\* No two processes are in one native turn.
OwnTurns == \A p \in Process : \A q \in Process \ {p} :
  Owns(p) /\ Owns(q) => proc[p].turn # proc[q].turn

TablesSound ==
  /\ decision # NoChoice => execution["decision"].state = "completed"
  /\ Business.state # "absent" => decision = Accepted
  /\ Business.turn = NoNative => effect = {} /\ Business.calls = 0 /\ Business.returned = 0
  /\ Business.calls \in {Business.returned, Business.returned + 1}
  /\ Done(Business.returned) \/ Done(Business.calls)
  /\ Business.state = "completed" => Business.calls = Tools /\ Business.returned = Tools
  /\ handler = "completed-bound" =>
       decision # NoChoice /\ (decision = Accepted => Business.state = "completed")

LiveInv ==
  /\ LiveTypeOK
  /\ \A p \in Process : TurnSound(p) /\ WaySound(p)
  /\ OwnTurns /\ TablesSound /\ JournalGuardsTurn

\* What a step of p leaves to the others.
Steady(p) ==
  /\ \A q \in Process \ {p} : proc'[q] = proc[q]
  /\ Turns \subseteq Turns'
  /\ decision # NoChoice => decision' = decision
  /\ admission = "completed" => admission' = "completed"
  /\ \A k \in Kind : journal[k] # NoBase => journal'[k] # NoBase \/ Committed(k)'
  /\ \A k \in Kind : execution[k].state = "completed" => execution'[k] = execution[k]
  /\ \A q \in Process \ {p} : InTurn(q) =>
       /\ execution'[proc[q].kind] = execution[proc[q].kind]
       /\ proc[q].kind = "business" => effect' = effect

\* p has no turn it had not before, or a new one.
OwnTurn(p) == Owns(p)' => \/ Owns(p) /\ proc'[p].turn = proc[p].turn
                          \/ proc'[p].turn \notin Turns

LEMMA KindsOfTurns == Kind = {"decision", "business"} /\ "decision" # "business"
BY DEF Kind

LEMMA CommittedStays ==
  ASSUME decision # NoChoice => decision' = decision,
         admission = "completed" => admission' = "completed",
         NEW k, Committed(k)
  PROVE  Committed(k)'
BY DEF Committed

LEMMA DoneKept ==
  ASSUME NEW n, Done(n), Business' = Business, effect' = effect
  PROVE  Done(n)'
BY DEF Done

LEMMA OthersSound ==
  ASSUME LiveTypeOK, NEW p \in Process, Steady(p), NEW q \in Process \ {p},
         TurnSound(q), WaySound(q), NoChoice \notin Choice
  PROVE  TurnSound(q)' /\ WaySound(q)'
<1>1. /\ proc'[q] = proc[q] /\ Turns \subseteq Turns' /\ proc[q].kind \in Kind
      /\ decision # NoChoice => decision' = decision
      /\ admission = "completed" => admission' = "completed"
  BY DEF Steady, LiveTypeOK, ProcType
<1>2. \A k : Committed(k) => Committed(k)'
  BY <1>1, CommittedStays
<1>3. WaySound(q)'
  <2>1. journal[proc[q].kind] # NoBase => journal'[proc[q].kind] # NoBase \/ Committed(proc[q].kind)'
    BY <1>1 DEF Steady
  <2>2. decision = Accepted => decision' = Accepted
    BY <1>1, LiveTurnAssumption
  <2> QED
    BY <1>1, <1>2, <2>1, <2>2 DEF WaySound, Stands, Committed
<1>4. CASE InTurn(q)
  <2>1. /\ execution'[proc[q].kind] = execution[proc[q].kind]
        /\ proc[q].kind = "business" => effect' = effect
    BY <1>4 DEF Steady
  <2>2. proc[q].kind = "business" =>
          /\ Done(Business.returned) => Done(Business.returned)'
          /\ Done(Business.calls) => Done(Business.calls)'
    BY <2>1 DEF Done, Business
  <2>3. /\ InTurn(q)' /\ (InTurn(q)' => Holds(q)') /\ (Owns(q)' => proc'[q].turn \in Turns')
    BY <1>1, <1>4, <2>1 DEF TurnSound, InTurn, Owns, Holds, Mine, Stands
  <2>4. ~Stands(q, "commit")'
    BY <1>1, <1>4 DEF InTurn, Stands
  <2>5. proc[q].kind = "business" =>
          /\ Stands(q, "turn")' => Business'.calls = Business'.returned
          /\ Stands(q, "recorded")' => Business'.calls = Business'.returned + 1 /\ Done(Business.returned)'
          /\ Stands(q, "ran")' => Business'.calls = Business'.returned + 1 /\ Done(Business.calls)'
    BY <1>1, <2>1, <2>2 DEF TurnSound, Stands, Business
  <2>6. /\ proc[q].kind = "decision" /\ proc[q].at \in {"staged", "called", "recorded", "completing", "commit"}
             => proc[q].choice \in Choice
        /\ proc[q].at \in {"staged", "called"} => proc[q].kind = "decision"
    BY DEF TurnSound
  <2> QED
    BY <1>1, <1>3, <2>3, <2>4, <2>5, <2>6 DEF TurnSound
<1>5. CASE ~InTurn(q)
  <2>1. ~InTurn(q)'
    BY <1>1, <1>5 DEF InTurn
  <2>2. Owns(q)' => proc'[q].turn \in Turns'
    BY <1>1, <1>5 DEF TurnSound, Owns, InTurn, Stands
  <2>3. Stands(q, "commit")' => Mine(q)'.state = "completed"
    BY <1>1 DEF TurnSound, Stands, Mine, Steady
  <2>4. /\ proc[q].kind = "decision" /\ proc[q].at \in {"staged", "called", "recorded", "completing", "commit"}
             => proc[q].choice \in Choice
        /\ proc[q].at \in {"staged", "called"} => proc[q].kind = "decision"
    BY DEF TurnSound
  <2>5. ~Stands(q, "turn")' /\ ~Stands(q, "recorded")' /\ ~Stands(q, "ran")'
    BY <2>1 DEF InTurn, Stands
  <2> QED
    BY <1>1, <1>3, <2>1, <2>2, <2>3, <2>4, <2>5 DEF TurnSound
<1> QED
  BY <1>3, <1>4, <1>5

\* The invariant after a step of p, from what the step does of its own.
LEMMA LiveAfter ==
  ASSUME LiveInv, LiveTypeOK', NEW p \in Process, Steady(p), OwnTurn(p),
         TurnSound(p)', WaySound(p)', TablesSound', JournalGuardsTurn'
  PROVE  LiveInv'
<1>1. \A q \in Process : TurnSound(q)' /\ WaySound(q)'
  BY OthersSound, LiveTurnAssumption DEF LiveInv
<1>2. ASSUME NEW q \in Process, NEW o \in Process \ {q}, Owns(q)', Owns(o)'
      PROVE  proc'[q].turn # proc'[o].turn
  <2>1. \A r \in Process \ {p} : Owns(r)' => /\ Owns(r) /\ proc'[r].turn = proc[r].turn
                                            /\ proc[r].turn \in Turns
    BY DEF Steady, Owns, InTurn, Stands, LiveInv, TurnSound
  <2> QED
    BY <1>2, <2>1 DEF OwnTurn, LiveInv, OwnTurns
<1>3. OwnTurns'
  BY <1>2 DEF OwnTurns
<1> QED
  BY <1>1, <1>3 DEF LiveInv

\* Two processes do not hold one execution.
LEMMA OneHolder ==
  ASSUME LiveInv, NEW p \in Process, NEW q \in Process \ {p}, InTurn(p), InTurn(q)
  PROVE  proc[q].kind # proc[p].kind
BY DEF LiveInv, OwnTurns, Owns, TurnSound, Holds, Mine

LEMMA InTurnHolds ==
  ASSUME LiveInv, NEW p \in Process, InTurn(p)
  PROVE  /\ Holds(p) /\ proc[p].turn \in Native /\ proc[p].turn # NoNative
         /\ proc[p].kind \in Kind /\ execution[proc[p].kind] \in ExecutionType
         /\ Mine(p) = execution[proc[p].kind]
BY LiveTurnAssumption DEF LiveInv, TurnSound, Owns, Turns, LiveTypeOK, ProcType, Mine

\* A process whose row is rewritten.
LEMMA RowsOfProcs ==
  ASSUME LiveTypeOK, NEW p \in Process, NEW row \in ProcType, proc' = [proc EXCEPT ![p] = row]
  PROVE  /\ proc' \in [Process -> ProcType] /\ proc'[p] = row
         /\ \A q \in Process \ {p} : proc'[q] = proc[q]
BY DEF LiveTypeOK

LEMMA GoesOn ==
  ASSUME LiveTypeOK, NEW p \in Process, NEW place, Goes(p, place),
         place \in {"threw", "mark", "called", "ran", "commit", "retire", "handler",
                    "retire-action", "decided", "prepared"}
  PROVE  /\ proc' \in [Process -> ProcType]
         /\ proc'[p].at = place /\ proc'[p].kind = proc[p].kind /\ proc'[p].turn = proc[p].turn
         /\ proc'[p].rev = proc[p].rev /\ proc'[p].base = proc[p].base
         /\ proc'[p].choice = proc[p].choice
         /\ \A q \in Process \ {p} : proc'[q] = proc[q]
<1>1. PICK old \in ProcType : old = proc[p]
  BY DEF LiveTypeOK
<1>2. [old EXCEPT !.at = place] \in ProcType
  BY DEF ProcType
<1>3. PICK row \in ProcType :
        /\ row = [old EXCEPT !.at = place] /\ row.at = place /\ row.kind = old.kind
        /\ row.turn = old.turn /\ row.rev = old.rev /\ row.base = old.base /\ row.choice = old.choice
  BY <1>2 DEF ProcType
<1>4. proc' = [proc EXCEPT ![p] = row]
  BY <1>1, <1>3 DEF Goes, LiveTypeOK
<1> QED
  BY <1>1, <1>3, <1>4, RowsOfProcs

\* The tables stand if what they say is left alone.
LEMMA TablesStill ==
  ASSUME LiveInv, UNCHANGED <<execution, decision, handler, effect>>
  PROVE  TablesSound'
<1>1. Business' = Business
  BY DEF Business
<1>2. \A n : Done(n) => Done(n)'
  BY <1>1, DoneKept
<1> QED
  BY <1>1, <1>2 DEF LiveInv, TablesSound

LEMMA GuardStill ==
  ASSUME LiveInv, UNCHANGED thread,
         decision # NoChoice => decision' = decision,
         admission = "completed" => admission' = "completed",
         \A k \in Kind : journal[k] # NoBase => journal'[k] # NoBase \/ Committed(k)'
  PROVE  JournalGuardsTurn'
<1>1. Turns' = Turns /\ \A t \in Turns : thread[t].kind \in Kind
  BY DEF Turns, LiveInv, LiveTypeOK, ThreadType
<1>2. \A k : Committed(k) => Committed(k)'
  BY CommittedStays
<1>3. \A t \in Turns : journal[thread[t].kind] # NoBase \/ Committed(thread[t].kind)
  BY KindsOfTurns DEF LiveInv, JournalGuardsTurn, Committed
<1>4. \A t \in Turns : journal'[thread[t].kind] # NoBase \/ Committed(thread[t].kind)'
  BY <1>1, <1>2, <1>3
<1> QED
  BY <1>1, <1>4, KindsOfTurns DEF JournalGuardsTurn, Committed

\* Places outside a native turn.
LEMMA Outside ==
  ASSUME NEW p, proc'[p].at \in {"idle", "enter", "write", "mark", "start", "retire",
                                 "retire-action", "decided", "prepared", "handler", "threw"}
  PROVE  TurnSound(p)' /\ OwnTurn(p)
BY DEF TurnSound, OwnTurn, Owns, InTurn, Stands

\* A step that leaves executions, decision, handler and native turns alone.
LEMMA Wanders ==
  ASSUME LiveInv, LiveTypeOK', NEW p \in Process, \A q \in Process \ {p} : proc'[q] = proc[q],
         UNCHANGED <<execution, decision, handler, thread, effect>>,
         admission = "completed" => admission' = "completed",
         \A k \in Kind : journal[k] # NoBase => journal'[k] # NoBase \/ Committed(k)',
         OwnTurn(p), TurnSound(p)', WaySound(p)'
  PROVE  LiveInv'
<1>1. Steady(p)
  BY DEF Steady, Turns
<1> QED
  BY <1>1, LiveAfter, TablesStill, GuardStill

LEMMA IdleRow ==
  Idle \in ProcType /\ Idle.at = "idle" /\ Idle.kind = "decision" /\ Idle.rev = 0
<1> NoBase \in (SUBSET Native) \cup {NoBase}
  OBVIOUS
<1> QED
  BY DEF Idle, ProcType, Kind

LEMMA FailsKeeps ==
  ASSUME LiveInv, NEW p \in Process, Fails(p)
  PROVE  LiveInv'
<1>1. PICK row \in ProcType : row = Idle /\ row.at = "idle" /\ row.kind = "decision"
  BY IdleRow
<1>2. UNCHANGED <<execution, decision, admission, handler, journal, action, thread, effect>>
  BY DEF Fails, tables, files, world
<1>3. proc' \in [Process -> ProcType] /\ proc'[p] = row /\ \A q \in Process \ {p} : proc'[q] = proc[q]
  BY <1>1, RowsOfProcs DEF Fails, LiveInv
<1>4. WaySound(p)'
  BY <1>1, <1>3 DEF WaySound, Stands
<1> QED
  BY <1>1, <1>2, <1>3, <1>4, Outside, Wanders DEF LiveInv, LiveTypeOK

LEMMA FailsEarlyKeeps ==
  ASSUME LiveInv, NEW p \in Process, FailsBeforeStart(p)
  PROVE  LiveInv'
<1>1. UNCHANGED <<execution, decision, admission, handler, journal, action, thread, effect>>
  BY DEF FailsBeforeStart, tables, files, world
<1>2. /\ proc' \in [Process -> ProcType] /\ proc'[p].at = "threw" /\ proc'[p].kind = proc[p].kind
      /\ \A q \in Process \ {p} : proc'[q] = proc[q]
  BY GoesOn DEF FailsBeforeStart, LiveInv
<1>3. WaySound(p)'
  BY <1>1, <1>2 DEF WaySound, Stands, LiveInv
<1> QED
  BY <1>1, <1>2, <1>3, Outside, Wanders DEF LiveInv, LiveTypeOK

LEMMA TakesBaselineKeeps ==
  ASSUME LiveInv, NEW p \in Process, TakesBaseline(p)
  PROVE  LiveInv'
<1>1. UNCHANGED <<execution, decision, admission, handler, journal, action, thread, effect>>
  BY DEF TakesBaseline, tables, files, world
<1>2. Turns \in SUBSET Native /\ Turns # NoBase
  BY LiveTurnAssumption DEF Turns, NoBase
<1>3. PICK old \in ProcType : old = proc[p]
  BY DEF LiveInv, LiveTypeOK
<1>4. PICK row \in ProcType : /\ row = [old EXCEPT !.at = "write", !.base = Turns]
                              /\ row.at = "write" /\ row.base = Turns /\ row.kind = old.kind
  <2>1. [old EXCEPT !.at = "write", !.base = Turns] \in ProcType
    BY <1>2 DEF ProcType
  <2> QED
    BY <2>1 DEF ProcType
<1>5. proc' = [proc EXCEPT ![p] = row]
  BY <1>3, <1>4 DEF TakesBaseline
<1>6. proc' \in [Process -> ProcType] /\ proc'[p] = row /\ \A q \in Process \ {p} : proc'[q] = proc[q]
  BY <1>5, RowsOfProcs DEF LiveInv
<1>7. WaySound(p)'
  BY <1>1, <1>2, <1>3, <1>4, <1>6 DEF WaySound, Stands, LiveInv
<1>8. /\ proc' \in [Process -> ProcType] /\ proc'[p].at = "write"
      /\ \A q \in Process \ {p} : proc'[q] = proc[q]
  BY <1>4, <1>6
<1> QED
  BY <1>1, <1>7, <1>8, Outside, Wanders DEF LiveInv, LiveTypeOK

LEMMA JournalsKeeps ==
  ASSUME LiveInv, NEW p \in Process, Journals(p)
  PROVE  LiveInv'
<1>1. UNCHANGED <<execution, decision, admission, handler, action, thread, effect>>
  BY DEF Journals, tables, world
<1>2. /\ proc' \in [Process -> ProcType] /\ proc'[p].at = "mark" /\ proc'[p].kind = proc[p].kind
      /\ \A q \in Process \ {p} : proc'[q] = proc[q]
  BY GoesOn DEF Journals, LiveInv
<1>3. /\ proc[p].base # NoBase /\ proc[p].base \in SUBSET Native \cup {NoBase}
      /\ proc[p].kind \in Kind
  BY DEF Journals, LiveInv, WaySound, LiveTypeOK, ProcType
<1>4. /\ journal' = [journal EXCEPT ![proc[p].kind] = proc[p].base]
      /\ journal \in [Kind -> (SUBSET Native) \cup {NoBase}]
  BY DEF Journals, LiveInv, LiveTypeOK
<1>5. /\ journal' \in [Kind -> (SUBSET Native) \cup {NoBase}]
      /\ journal'[proc[p].kind] # NoBase
      /\ \A k \in Kind : journal[k] # NoBase => journal'[k] # NoBase
  BY <1>3, <1>4 DEF LiveInv, LiveTypeOK, ProcType
<1>6. WaySound(p)'
  BY <1>1, <1>2, <1>5 DEF WaySound, Stands, LiveInv
<1> QED
  BY <1>1, <1>2, <1>5, <1>6, Outside, Wanders DEF LiveInv, LiveTypeOK

LEMMA RetiresKeeps ==
  ASSUME LiveInv, NEW p \in Process, RetiresJournal(p) \/ RetiresAction(p)
  PROVE  LiveInv'
<1>1. CASE RetiresJournal(p)
  <2>1. UNCHANGED <<execution, decision, admission, handler, action, thread, effect>>
    BY <1>1 DEF RetiresJournal, tables, world
  <2>2. PICK place \in {"retire-action", "handler"} :
          /\ place = "handler" => proc[p].kind = "business"
          /\ Goes(p, place)
    BY <1>1, KindsOfTurns DEF RetiresJournal, LiveInv, LiveTypeOK, ProcType
  <2>3. place = "retire-action" => proc[p].kind = "decision"
    BY <1>1, <2>2 DEF RetiresJournal, Goes, LiveInv, LiveTypeOK, ProcType
  <2>4. /\ proc' \in [Process -> ProcType] /\ proc'[p].at = place /\ proc'[p].kind = proc[p].kind
        /\ \A q \in Process \ {p} : proc'[q] = proc[q]
    BY <2>2, GoesOn DEF LiveInv
  <2>5. Committed(proc[p].kind) /\ proc[p].kind \in Kind
    BY <1>1 DEF RetiresJournal, LiveInv, WaySound, LiveTypeOK, ProcType
  <2>6. Committed(proc[p].kind)'
    BY <2>1, <2>4, <2>5 DEF Committed
  <2>7. /\ journal' \in [Kind -> (SUBSET Native) \cup {NoBase}]
        /\ \A k \in Kind : journal[k] # NoBase => journal'[k] # NoBase \/ k = proc[p].kind
    BY <1>1, <2>5 DEF RetiresJournal, LiveInv, LiveTypeOK
  <2>8. WaySound(p)'
    BY <2>1, <2>2, <2>3, <2>4, <2>5, LiveTurnAssumption DEF WaySound, Stands, LiveInv, Committed
  <2>9. \A k \in Kind : journal[k] # NoBase => journal'[k] # NoBase \/ Committed(k)'
    BY <2>1, <2>5, <2>7 DEF Committed
  <2> QED
    BY <2>1, <2>2, <2>4, <2>7, <2>8, <2>9, Outside, Wanders DEF LiveInv, LiveTypeOK
<1>2. CASE RetiresAction(p)
  <2>1. UNCHANGED <<execution, decision, admission, handler, journal, thread, effect>>
    BY <1>2 DEF RetiresAction, tables, world
  <2>2. /\ proc' \in [Process -> ProcType] /\ proc'[p].at = "decided" /\ proc'[p].kind = proc[p].kind
        /\ \A q \in Process \ {p} : proc'[q] = proc[q]
    BY <1>2, GoesOn DEF RetiresAction, LiveInv
  <2>3. action' \in ActionType
    BY <1>2 DEF RetiresAction, NoAction, ActionType
  <2>4. WaySound(p)'
    BY <1>2, <2>1, <2>2 DEF WaySound, Stands, LiveInv, RetiresAction
  <2> QED
    BY <2>1, <2>2, <2>3, <2>4, Outside, Wanders DEF LiveInv, LiveTypeOK
<1> QED
  BY <1>1, <1>2

LEMMA RecoversKeeps ==
  ASSUME LiveInv, NEW p \in Process, RecoversFromAction(p) \/ RecoversFromJournal(p)
  PROVE  LiveInv'
<1>1. PICK old \in ProcType : old = proc[p]
  BY DEF LiveInv, LiveTypeOK
<1>2. action.turn \in Native \cup {NoNative} /\ action.choice \in Choice \cup {NoChoice}
  BY DEF LiveInv, LiveTypeOK, ActionType
<1>3. UNCHANGED <<execution, decision, admission, handler, journal, action, thread, effect>>
  BY DEF RecoversFromAction, RecoversFromJournal, tables, files, world
<1>4. PICK row \in ProcType : /\ row.at \in {"retire", "retire-action"} /\ row.kind = "decision"
                              /\ decision # NoChoice
                              /\ proc' = [proc EXCEPT ![p] = row]
  <2>1. CASE RecoversFromAction(p)
    <3>1. PICK row \in ProcType : /\ row = [old EXCEPT !.at = "retire-action", !.turn = action.turn,
                                                       !.choice = action.choice]
                                  /\ row.at = "retire-action" /\ row.kind = old.kind
      <4>1. [old EXCEPT !.at = "retire-action", !.turn = action.turn, !.choice = action.choice]
              \in ProcType
        BY <1>2 DEF ProcType
      <4> QED
        BY <4>1 DEF ProcType
    <3>2. proc' = [proc EXCEPT ![p] = row]
      BY <1>1, <2>1, <3>1 DEF RecoversFromAction
    <3>3. decision # NoChoice /\ old.kind = "decision"
      BY <1>1, <2>1 DEF RecoversFromAction, Recoverable
    <3> QED
      BY <3>1, <3>2, <3>3
  <2>2. CASE RecoversFromJournal(p)
    <3>1. PICK t \in Native :
            /\ Recoverable(t)
            /\ proc' = [proc EXCEPT ![p].at = "retire", ![p].turn = t,
                                    ![p].base = journal["decision"], ![p].choice = action.choice]
      BY <2>2 DEF RecoversFromJournal
    <3>2. PICK base \in (SUBSET Native) \cup {NoBase} : base = journal["decision"]
      BY KindsOfTurns DEF LiveInv, LiveTypeOK
    <3>3. PICK row \in ProcType : /\ row = [old EXCEPT !.at = "retire", !.turn = t, !.base = base,
                                                       !.choice = action.choice]
                                  /\ row.at = "retire" /\ row.kind = old.kind
      <4>1. [old EXCEPT !.at = "retire", !.turn = t, !.base = base, !.choice = action.choice]
              \in ProcType
        BY <1>2 DEF ProcType
      <4> QED
        BY <4>1 DEF ProcType
    <3>4. proc' = [proc EXCEPT ![p] = row]
      BY <1>1, <3>1, <3>2, <3>3
    <3>5. decision # NoChoice /\ old.kind = "decision"
      BY <1>1, <2>2, <3>1 DEF RecoversFromJournal, Recoverable
    <3> QED
      BY <3>3, <3>4, <3>5
  <2> QED
    BY <2>1, <2>2
<1>5. /\ proc' \in [Process -> ProcType] /\ proc'[p].at \in {"retire", "retire-action"}
      /\ proc'[p].kind = "decision" /\ \A q \in Process \ {p} : proc'[q] = proc[q]
  BY <1>4, RowsOfProcs DEF LiveInv
<1>6. WaySound(p)'
  BY <1>3, <1>4, <1>5 DEF WaySound, Stands, Committed
<1> QED
  BY <1>3, <1>5, <1>6, Outside, Wanders DEF LiveInv, LiveTypeOK

LEMMA PreparesKeeps ==
  ASSUME LiveInv, NEW p \in Process, Prepares(p)
  PROVE  LiveInv'
<1>1. UNCHANGED <<execution, decision, handler, journal, action, thread, effect>>
  BY DEF Prepares, files, world
<1>2. /\ proc' \in [Process -> ProcType] /\ proc'[p].at = "prepared" /\ proc'[p].kind = proc[p].kind
      /\ \A q \in Process \ {p} : proc'[q] = proc[q]
  BY GoesOn DEF Prepares, LiveInv
<1>3. /\ admission' \in {"absent", "in-flight", "completed"} /\ decision = Accepted
      /\ admission = "completed" => admission' = "completed"
  BY DEF Prepares, LiveInv, LiveTypeOK
<1>4. WaySound(p)'
  BY <1>1, <1>2, <1>3 DEF WaySound, Stands
<1> QED
  BY <1>1, <1>2, <1>3, <1>4, Outside, Wanders DEF LiveInv, LiveTypeOK

LEMMA SkipsKeeps ==
  ASSUME LiveInv, NEW p \in Process, SkipsBusiness(p)
  PROVE  LiveInv'
<1>1. UNCHANGED <<execution, decision, admission, handler, journal, action, thread, effect>>
  BY DEF SkipsBusiness, tables, files, world
<1>2. PICK row \in ProcType : /\ row = [Idle EXCEPT !.at = "handler"]
                              /\ row.at = "handler" /\ row.kind = "decision"
  <2>1. PICK idle \in ProcType : idle = Idle /\ idle.kind = "decision"
    BY IdleRow
  <2>2. [idle EXCEPT !.at = "handler"] \in ProcType
    BY DEF ProcType
  <2> QED
    BY <2>1, <2>2 DEF ProcType
<1>3. proc' = [proc EXCEPT ![p] = row]
  BY <1>2 DEF SkipsBusiness
<1>4. /\ proc' \in [Process -> ProcType] /\ proc'[p].at = "handler" /\ proc'[p].kind = "decision"
      /\ \A q \in Process \ {p} : proc'[q] = proc[q]
  BY <1>2, <1>3, RowsOfProcs DEF LiveInv
<1>5. decision # NoChoice /\ decision # Accepted
  BY DEF SkipsBusiness, LiveInv, WaySound
<1>6. WaySound(p)'
  BY <1>1, <1>4, <1>5 DEF WaySound, Stands
<1> QED
  BY <1>1, <1>4, <1>6, Outside, Wanders DEF LiveInv, LiveTypeOK

LEMMA DecisionCallKeeps ==
  ASSUME LiveInv, NEW p \in Process,
         (\E c \in Choice : StagesDecision(p, c)) \/ CompletesDecision(p)
  PROVE  LiveInv'
<1>1. UNCHANGED <<execution, decision, admission, handler, journal, thread, effect>>
  BY DEF StagesDecision, CompletesDecision, tables, world
<1>2. InTurn(p) /\ Holds(p) /\ Owns(p) /\ proc[p].turn \in Native
  <2>1. InTurn(p)
    BY DEF StagesDecision, CompletesDecision, InTurn, Stands
  <2> QED
    BY <2>1, InTurnHolds DEF Owns
<1>3. /\ proc' \in [Process -> ProcType] /\ proc'[p].at \in {"staged", "called"}
      /\ proc'[p].kind = "decision" /\ proc[p].kind = "decision" /\ proc'[p].choice \in Choice
      /\ proc'[p].turn = proc[p].turn /\ proc'[p].rev = proc[p].rev
      /\ \A q \in Process \ {p} : proc'[q] = proc[q]
  <2>1. ASSUME NEW c \in Choice, StagesDecision(p, c)
        PROVE  \E row \in ProcType :
                 /\ row.at = "staged" /\ row.kind = "decision" /\ proc[p].kind = "decision"
                 /\ row.choice \in Choice /\ row.turn = proc[p].turn /\ row.rev = proc[p].rev
                 /\ proc' = [proc EXCEPT ![p] = row]
    <3>1. PICK old \in ProcType : old = proc[p]
      BY DEF LiveInv, LiveTypeOK
    <3>2. [old EXCEPT !.at = "staged", !.choice = c] \in ProcType
      BY DEF ProcType
    <3>3. PICK row \in ProcType : /\ row = [old EXCEPT !.at = "staged", !.choice = c]
                                  /\ row.at = "staged" /\ row.choice = c /\ row.kind = old.kind
                                  /\ row.turn = old.turn /\ row.rev = old.rev
      BY <3>2 DEF ProcType
    <3>4. proc' = [proc EXCEPT ![p] = row] /\ old.kind = "decision"
      BY <2>1, <3>1, <3>3 DEF StagesDecision
    <3> QED
      BY <3>1, <3>3, <3>4
  <2>2. CASE \E c \in Choice : StagesDecision(p, c)
    <3>1. PICK row \in ProcType :
                 /\ row.at = "staged" /\ row.kind = "decision" /\ proc[p].kind = "decision"
                 /\ row.choice \in Choice /\ row.turn = proc[p].turn /\ row.rev = proc[p].rev
                 /\ proc' = [proc EXCEPT ![p] = row]
      BY <2>1, <2>2
    <3> QED
      BY <3>1, RowsOfProcs DEF LiveInv
  <2>3. CASE CompletesDecision(p)
    <3>1. /\ proc' \in [Process -> ProcType] /\ proc'[p].at = "called" /\ proc'[p].kind = proc[p].kind
          /\ proc'[p].turn = proc[p].turn /\ proc'[p].rev = proc[p].rev
          /\ proc'[p].choice = proc[p].choice
          /\ \A q \in Process \ {p} : proc'[q] = proc[q]
      BY <2>3, GoesOn DEF CompletesDecision, LiveInv
    <3>2. proc[p].kind = "decision" /\ proc[p].choice \in Choice
      BY <2>3 DEF CompletesDecision, Stands, LiveInv, TurnSound
    <3> QED
      BY <3>1, <3>2
  <2> QED
    BY <2>2, <2>3
<1>4. action' \in ActionType
  <2>1. ASSUME NEW c \in Choice, StagesDecision(p, c) PROVE action' \in ActionType
    BY <1>2, <2>1 DEF StagesDecision, ActionType
  <2>2. CASE CompletesDecision(p)
    BY <2>2 DEF CompletesDecision, LiveInv, LiveTypeOK, ActionType
  <2> QED
    BY <2>1, <2>2
<1>5. OwnTurn(p) /\ Owns(p)' /\ Holds(p)' /\ proc'[p].turn \in Turns'
  <2>1. proc[p].turn \in Turns /\ Turns' = Turns
    BY <1>1, <1>2 DEF LiveInv, TurnSound, Turns
  <2> QED
    BY <1>1, <1>2, <1>3, <2>1 DEF OwnTurn, Owns, InTurn, Stands, Holds, Mine
<1>6. TurnSound(p)'
  BY <1>3, <1>5 DEF TurnSound, Stands
<1>7. WaySound(p)'
  BY <1>3 DEF WaySound, Stands
<1> QED
  BY <1>1, <1>3, <1>4, <1>5, <1>6, <1>7, Wanders DEF LiveInv, LiveTypeOK

\* An execution that is created, or marked started: nobody is in its turn yet.
EarlyStep ==
  /\ execution' \in [Kind -> ExecutionType]
  /\ \A k \in Kind :
       \/ execution'[k] = execution[k]
       \/ /\ execution[k].state \in {"absent", "proposed"}
          /\ execution'[k].state \in {"proposed", "started"}
          /\ execution'[k].turn = execution[k].turn
          /\ execution'[k].calls = execution[k].calls
          /\ execution'[k].returned = execution[k].returned
          /\ k = "business" => decision = Accepted

LEMMA CreatedEarly ==
  ASSUME LiveInv, NEW k \in Kind, execution' = Created(k), k = "business" => decision = Accepted
  PROVE  EarlyStep
<1>1. PICK old \in ExecutionType : old = execution[k]
  BY DEF LiveInv, LiveTypeOK
<1>2. PICK new \in ExecutionType :
        /\ new = [old EXCEPT !.state = "proposed"] /\ new.state = "proposed"
        /\ new.turn = old.turn /\ new.calls = old.calls /\ new.returned = old.returned
  <2>1. [old EXCEPT !.state = "proposed"] \in ExecutionType
    BY DEF ExecutionType
  <2> QED
    BY <2>1 DEF ExecutionType
<1>3. \/ execution' = execution
      \/ old.state = "absent" /\ execution' = [execution EXCEPT ![k] = new]
  BY <1>1, <1>2 DEF Created
<1> QED
  BY <1>1, <1>2, <1>3 DEF EarlyStep, LiveInv, LiveTypeOK

LEMMA EarlyKeeps ==
  ASSUME LiveInv, LiveTypeOK', NEW p \in Process, EarlyStep,
         \A q \in Process \ {p} : proc'[q] = proc[q],
         UNCHANGED <<decision, admission, handler, journal, thread, effect>>,
         OwnTurn(p), TurnSound(p)', WaySound(p)'
  PROVE  LiveInv'
<1>1. \A q \in Process : InTurn(q) => proc[q].kind \in Kind /\ execution[proc[q].kind].state = "started"
  BY InTurnHolds DEF Holds, Mine
<1>2. Steady(p)
  BY <1>1 DEF EarlyStep, Steady, Turns
<1>3. /\ \/ Business' = Business
         \/ /\ Business.state \in {"absent", "proposed"}
            /\ Business'.state \in {"proposed", "started"}
            /\ decision = Accepted
      /\ Business'.turn = Business.turn /\ Business'.calls = Business.calls
      /\ Business'.returned = Business.returned
  <2>1. PICK k \in Kind : k = "business"
    BY KindsOfTurns
  <2>2. /\ \/ execution'[k] = execution[k]
           \/ /\ execution[k].state \in {"absent", "proposed"}
              /\ execution'[k].state \in {"proposed", "started"}
              /\ decision = Accepted
        /\ execution'[k].turn = execution[k].turn /\ execution'[k].calls = execution[k].calls
        /\ execution'[k].returned = execution[k].returned
    BY <2>1 DEF EarlyStep
  <2>3. Business = execution[k] /\ Business' = execution'[k]
    BY <2>1 DEF Business
  <2> QED
    BY <2>2, <2>3
<1>4. decision # NoChoice => execution'["decision"].state = "completed"
  BY KindsOfTurns DEF EarlyStep, LiveInv, TablesSound
<1>5. /\ Done(Business.returned) => Done(Business.returned)'
      /\ Done(Business.calls) => Done(Business.calls)'
  BY <1>3 DEF Done
<1>6. TablesSound'
  BY <1>3, <1>4, <1>5 DEF LiveInv, TablesSound
<1> QED
  BY <1>2, <1>6, LiveAfter, GuardStill

LEMMA ActivatesKeeps ==
  ASSUME LiveInv, NEW p \in Process, Activates(p)
  PROVE  LiveInv'
<1>1. UNCHANGED <<decision, admission, handler, journal, action, thread, effect>>
  BY DEF Activates, files, world
<1>2. CASE decision # NoChoice
  <2>1. Goes(p, "decided") /\ UNCHANGED execution
    BY <1>2 DEF Activates
  <2>2. /\ proc' \in [Process -> ProcType] /\ proc'[p].at = "decided" /\ proc'[p].kind = proc[p].kind
        /\ \A q \in Process \ {p} : proc'[q] = proc[q]
    BY <2>1, GoesOn DEF LiveInv
  <2>3. WaySound(p)'
    BY <1>1, <1>2, <2>2 DEF WaySound, Stands, LiveInv
  <2> QED
    BY <1>1, <2>1, <2>2, <2>3, Outside, Wanders DEF LiveInv, LiveTypeOK
<1>3. CASE decision = NoChoice
  <2>1. EarlyStep
    BY <1>3, CreatedEarly, KindsOfTurns DEF Activates
  <2>2. PICK rev \in Nat : rev = execution["decision"].rev
    BY KindsOfTurns DEF LiveInv, LiveTypeOK, ExecutionType
  <2>3. PICK row \in ProcType : /\ row = [Idle EXCEPT !.at = "enter", !.rev = rev]
                                /\ row.at = "enter" /\ row.kind = "decision"
    <3>1. PICK idle \in ProcType : idle = Idle /\ idle.kind = "decision"
      BY IdleRow
    <3>2. [idle EXCEPT !.at = "enter", !.rev = rev] \in ProcType
      BY DEF ProcType
    <3> QED
      BY <3>1, <3>2 DEF ProcType
  <2>4. proc' = [proc EXCEPT ![p] = row]
    BY <1>3, <2>2, <2>3 DEF Activates
  <2>5. /\ proc' \in [Process -> ProcType] /\ proc'[p].at = "enter" /\ proc'[p].kind = "decision"
        /\ \A q \in Process \ {p} : proc'[q] = proc[q]
    BY <2>3, <2>4, RowsOfProcs DEF LiveInv
  <2>6. WaySound(p)'
    BY <2>5 DEF WaySound, Stands
  <2>7. LiveTypeOK'
    BY <1>1, <2>1, <2>5 DEF LiveInv, LiveTypeOK, EarlyStep
  <2> QED
    BY <1>1, <2>1, <2>5, <2>6, <2>7, Outside, EarlyKeeps
<1> QED
  BY <1>2, <1>3

LEMMA EntersKeeps ==
  ASSUME LiveInv, NEW p \in Process, EntersBusiness(p)
  PROVE  LiveInv'
<1>1. UNCHANGED <<decision, admission, handler, journal, action, thread, effect>>
  BY DEF EntersBusiness, files, world
<1>2. decision = Accepted /\ decision # NoChoice
  BY LiveTurnAssumption DEF EntersBusiness, LiveInv, WaySound
<1>3. PICK rev \in Nat : rev = execution["business"].rev
  BY KindsOfTurns DEF LiveInv, LiveTypeOK, ExecutionType
<1>4. PICK idle \in ProcType : idle = Idle
  BY IdleRow
<1>5. /\ EarlyStep
      /\ \E row \in ProcType : row.at \in {"handler", "enter"} /\ row.kind = "business"
                               /\ proc' = [proc EXCEPT ![p] = row]
  <2>1. CASE admission = "completed"
    <3>1. PICK row \in ProcType : /\ row = [idle EXCEPT !.at = "handler", !.kind = "business"]
                                  /\ row.at = "handler" /\ row.kind = "business"
      <4>1. [idle EXCEPT !.at = "handler", !.kind = "business"] \in ProcType
        BY DEF ProcType, Kind
      <4> QED
        BY <4>1 DEF ProcType
    <3>2. proc' = [proc EXCEPT ![p] = row] /\ UNCHANGED execution
      BY <1>4, <2>1, <3>1 DEF EntersBusiness
    <3>3. EarlyStep
      BY <3>2 DEF EarlyStep, LiveInv, LiveTypeOK
    <3> QED
      BY <3>1, <3>2, <3>3
  <2>2. CASE admission # "completed"
    <3>1. PICK row \in ProcType : /\ row = [idle EXCEPT !.at = "enter", !.kind = "business", !.rev = rev]
                                  /\ row.at = "enter" /\ row.kind = "business"
      <4>1. [idle EXCEPT !.at = "enter", !.kind = "business", !.rev = rev] \in ProcType
        BY DEF ProcType, Kind
      <4> QED
        BY <4>1 DEF ProcType
    <3>2. proc' = [proc EXCEPT ![p] = row] /\ execution' = Created("business")
      BY <1>3, <1>4, <2>2, <3>1 DEF EntersBusiness
    <3>3. EarlyStep
      BY <1>2, <3>2, CreatedEarly, KindsOfTurns
    <3> QED
      BY <3>1, <3>2, <3>3
  <2> QED
    BY <2>1, <2>2
<1>6. /\ proc' \in [Process -> ProcType] /\ proc'[p].at \in {"handler", "enter"}
      /\ proc'[p].kind = "business" /\ \A q \in Process \ {p} : proc'[q] = proc[q]
  BY <1>5, RowsOfProcs DEF LiveInv
<1>7. WaySound(p)'
  BY <1>1, <1>2, <1>6 DEF WaySound, Stands
<1>8. LiveTypeOK'
  BY <1>1, <1>5, <1>6 DEF LiveInv, LiveTypeOK, EarlyStep
<1> QED
  BY <1>1, <1>5, <1>6, <1>7, <1>8, Outside, EarlyKeeps

LEMMA MarksKeeps ==
  ASSUME LiveInv, NEW p \in Process, Marks(p)
  PROVE  LiveInv'
<1>1. UNCHANGED <<decision, admission, handler, journal, action, thread, effect>>
  BY DEF Marks, files, world
<1>2. PICK k \in Kind : k = proc[p].kind
  BY DEF LiveInv, LiveTypeOK, ProcType
<1>3. PICK old \in ExecutionType : old = execution[k]
  BY DEF LiveInv, LiveTypeOK
<1>4. k = "business" => decision = Accepted
  BY <1>2 DEF LiveInv, WaySound
<1>5. PICK new \in ExecutionType :
        /\ new = [old EXCEPT !.state = "started", !.rev = @ + 1] /\ new.state = "started"
        /\ new.turn = old.turn /\ new.calls = old.calls /\ new.returned = old.returned
  <2>1. PICK n \in Nat : n = old.rev + 1
    BY DEF ExecutionType
  <2>2. [old EXCEPT !.state = "started", !.rev = n] \in ExecutionType
    BY DEF ExecutionType
  <2>3. PICK new \in ExecutionType :
          /\ new = [old EXCEPT !.state = "started", !.rev = n] /\ new.state = "started"
          /\ new.turn = old.turn /\ new.calls = old.calls /\ new.returned = old.returned
    BY <2>2 DEF ExecutionType
  <2>4. new = [old EXCEPT !.state = "started", !.rev = @ + 1]
    BY <2>1, <2>3
  <2> QED
    BY <2>3, <2>4
<1>6. \/ old.state = "proposed" /\ execution' = [execution EXCEPT ![k] = new]
      \/ execution' = execution
  BY <1>2, <1>3, <1>5 DEF Marks
<1>7. EarlyStep
  BY <1>3, <1>4, <1>5, <1>6 DEF EarlyStep, LiveInv, LiveTypeOK
<1>8. PICK rev \in Nat : rev = execution'[k].rev
  BY <1>7 DEF EarlyStep, ExecutionType
<1>9. PICK was \in ProcType : was = proc[p]
  BY DEF LiveInv, LiveTypeOK
<1>10. PICK row \in ProcType : /\ row = [was EXCEPT !.at = "start", !.rev = rev]
                               /\ row.at = "start" /\ row.kind = was.kind
  <2>1. [was EXCEPT !.at = "start", !.rev = rev] \in ProcType
    BY DEF ProcType
  <2> QED
    BY <2>1 DEF ProcType
<1>11. proc' = [proc EXCEPT ![p] = row]
  BY <1>2, <1>8, <1>9, <1>10 DEF Marks
<1>12. /\ proc' \in [Process -> ProcType] /\ proc'[p].at = "start" /\ proc'[p].kind = proc[p].kind
       /\ \A q \in Process \ {p} : proc'[q] = proc[q]
  BY <1>9, <1>10, <1>11, RowsOfProcs DEF LiveInv
<1>13. WaySound(p)'
  <2>1. journal[k] # NoBase \/ Committed(k)
    BY <1>2 DEF Marks, LiveInv, WaySound, Stands
  <2>2. (journal[proc[p].kind] # NoBase \/ Committed(proc[p].kind))'
    BY <1>1, <1>2, <1>12, <2>1 DEF Committed
  <2>3. proc[p].kind = "business" => decision' = Accepted
    BY <1>1, <1>2, <1>4
  <2> QED
    BY <1>1, <1>12, <2>1, <2>2, <2>3 DEF WaySound, Stands
<1>14. LiveTypeOK'
  BY <1>1, <1>7, <1>12 DEF LiveInv, LiveTypeOK, EarlyStep
<1> QED
  BY <1>1, <1>7, <1>12, <1>13, <1>14, Outside, EarlyKeeps

LEMMA StartsKeeps ==
  ASSUME LiveInv, NEW p \in Process, StartsNative(p)
  PROVE  LiveInv'
<1>1. UNCHANGED <<execution, decision, admission, handler, journal, action, effect>>
  BY DEF StartsNative, tables, files
<1>2. PICK t \in Native \ Turns :
        /\ thread' = [thread EXCEPT ![t] = [state |-> "inProgress", kind |-> proc[p].kind]]
        /\ proc' = [proc EXCEPT ![p].at = "bind", ![p].turn = t]
  BY DEF StartsNative
<1>3. PICK k \in Kind : k = proc[p].kind
  BY DEF LiveInv, LiveTypeOK, ProcType
<1>4. PICK started \in ThreadType :
        /\ started = [state |-> "inProgress", kind |-> k]
        /\ started.state = "inProgress" /\ started.kind = k
  <2>1. [state |-> "inProgress", kind |-> k] \in ThreadType
    BY DEF ThreadType
  <2> QED
    BY <2>1
<1>5. thread' = [thread EXCEPT ![t] = started] /\ thread \in [Native -> ThreadType]
  BY <1>2, <1>3, <1>4 DEF LiveInv, LiveTypeOK
<1>6. /\ thread' \in [Native -> ThreadType] /\ thread'[t].kind = k /\ t \in Turns'
      /\ Turns \subseteq Turns'
      /\ \A o \in Turns' \ {t} : o \in Turns /\ thread'[o] = thread[o]
  BY <1>4, <1>5 DEF Turns
<1>7. PICK old \in ProcType : old = proc[p]
  BY DEF LiveInv, LiveTypeOK
<1>8. PICK row \in ProcType : /\ row = [old EXCEPT !.at = "bind", !.turn = t]
                              /\ row.at = "bind" /\ row.turn = t /\ row.kind = old.kind
  <2>1. [old EXCEPT !.at = "bind", !.turn = t] \in ProcType
    BY DEF ProcType
  <2> QED
    BY <2>1 DEF ProcType
<1>9. proc' = [proc EXCEPT ![p] = row]
  BY <1>2, <1>7, <1>8
<1>10. /\ proc' \in [Process -> ProcType] /\ proc'[p].at = "bind" /\ proc'[p].turn = t
       /\ proc'[p].kind = proc[p].kind /\ \A q \in Process \ {p} : proc'[q] = proc[q]
  BY <1>7, <1>8, <1>9, RowsOfProcs DEF LiveInv
<1>11. WaySound(p)'
  BY <1>1, <1>10 DEF WaySound, Stands, LiveInv
<1>12. TurnSound(p)' /\ OwnTurn(p)
  BY <1>2, <1>6, <1>10 DEF TurnSound, OwnTurn, Owns, InTurn, Stands
<1>13. Steady(p)
  BY <1>1, <1>6, <1>10 DEF Steady
<1>14. JournalGuardsTurn'
  <2>1. journal[k] # NoBase \/ Committed(k)
    BY <1>3 DEF StartsNative, LiveInv, WaySound, Stands
  <2>2. \A o \in Turns' : \/ o = t
                          \/ o \in Turns /\ thread'[o] = thread[o]
    BY <1>6
  <2>3. \A o \in Turns : \/ journal[thread[o].kind] # NoBase
                         \/ thread[o].kind = "decision" /\ decision # NoChoice
                         \/ thread[o].kind = "business" /\ admission = "completed"
    BY DEF LiveInv, JournalGuardsTurn
  <2>4. \/ journal[thread'[t].kind] # NoBase
        \/ thread'[t].kind = "decision" /\ decision # NoChoice
        \/ thread'[t].kind = "business" /\ admission = "completed"
    BY <1>6, <2>1, KindsOfTurns DEF Committed
  <2> QED
    BY <1>1, <2>2, <2>3, <2>4 DEF JournalGuardsTurn
<1>15. LiveTypeOK' /\ TablesSound'
  BY <1>1, <1>6, <1>10, TablesStill DEF LiveInv, LiveTypeOK
<1> QED
  BY <1>11, <1>12, <1>13, <1>14, <1>15, LiveAfter

\* p goes on and takes the next revision for its own.
TakesRev(p, place) == proc' = [proc EXCEPT ![p].at = place, ![p].rev = @ + 1]

RowMoved(p, k, row, place) ==
  /\ LiveTypeOK' /\ Steady(p) /\ JournalGuardsTurn'
  /\ execution'[k] = row /\ \A o \in Kind \ {k} : execution'[o] = execution[o]
  /\ proc'[p].at = place /\ proc'[p].kind = k /\ proc'[p].turn = proc[p].turn
  /\ proc'[p].rev = row.rev /\ proc'[p].choice = proc[p].choice
  /\ UNCHANGED <<decision, admission, handler, journal, action, thread, effect>>

\* A step that rewrites the execution of p's turn, under its revision.
LEMMA RowMoves ==
  ASSUME LiveInv, NEW p \in Process, NEW row \in ExecutionType, NEW place,
         place \in {"turn", "recorded", "completing", "commit"},
         NEW k \in Kind, k = proc[p].kind, execution[k].state # "completed",
         InTurn(p) \/ execution[k].turn = NoNative,
         execution' = [execution EXCEPT ![k] = row], row.rev = proc[p].rev + 1,
         TakesRev(p, place), UNCHANGED <<decision, admission, handler, files, world>>
  PROVE  RowMoved(p, k, row, place)
<1>1. UNCHANGED <<decision, admission, handler, journal, action, thread, effect>>
  BY DEF files, world
<1>2. /\ execution' \in [Kind -> ExecutionType] /\ execution'[k] = row
      /\ \A o \in Kind \ {k} : execution'[o] = execution[o]
  BY DEF LiveInv, LiveTypeOK
<1>3. PICK old \in ProcType : old = proc[p]
  BY DEF LiveInv, LiveTypeOK
<1>4. PICK n \in Nat : n = old.rev + 1
  BY DEF ProcType
<1>5. PICK new \in ProcType : /\ new = [old EXCEPT !.at = place, !.rev = n]
                              /\ new.at = place /\ new.rev = n /\ new.kind = old.kind
                              /\ new.turn = old.turn /\ new.choice = old.choice
  <2>1. [old EXCEPT !.at = place, !.rev = n] \in ProcType
    BY DEF ProcType
  <2> QED
    BY <2>1 DEF ProcType
<1>6. proc' = [proc EXCEPT ![p] = new]
  BY <1>3, <1>4, <1>5 DEF TakesRev
<1>7. /\ proc' \in [Process -> ProcType] /\ proc'[p] = new
      /\ \A q \in Process \ {p} : proc'[q] = proc[q]
  BY <1>6, RowsOfProcs DEF LiveInv
<1>8. \A q \in Process \ {p} : InTurn(q) => proc[q].kind # k /\ proc[q].kind \in Kind
  <2> SUFFICES ASSUME NEW q \in Process \ {p}, InTurn(q)
               PROVE  proc[q].kind # k /\ proc[q].kind \in Kind
    OBVIOUS
  <2>1. /\ Holds(q) /\ proc[q].turn # NoNative /\ proc[q].kind \in Kind
        /\ Mine(q) = execution[proc[q].kind]
    BY InTurnHolds
  <2>2. CASE InTurn(p)
    BY <2>1, <2>2, OneHolder
  <2>3. CASE execution[k].turn = NoNative
    BY <2>1, <2>3 DEF Holds
  <2> QED
    BY <2>2, <2>3
<1>9. Steady(p)
  BY <1>1, <1>2, <1>7, <1>8 DEF Steady, Turns
<1>10. LiveTypeOK'
  BY <1>1, <1>2, <1>7 DEF LiveInv, LiveTypeOK
<1>11. JournalGuardsTurn'
  BY <1>1, GuardStill
<1> QED
  BY <1>1, <1>2, <1>3, <1>4, <1>5, <1>7, <1>9, <1>10, <1>11 DEF RowMoved

LEMMA BindsKeeps ==
  ASSUME LiveInv, NEW p \in Process, BindsStarted(p)
  PROVE  LiveInv'
<1>1. PICK k \in Kind : k = proc[p].kind
  BY DEF LiveInv, LiveTypeOK, ProcType
<1>2. PICK old \in ExecutionType : old = execution[k]
  BY DEF LiveInv, LiveTypeOK
<1>3. PICK t \in Native : t = proc[p].turn /\ t \in Turns /\ t # NoNative
  BY LiveTurnAssumption DEF BindsStarted, LiveInv, TurnSound, Owns, Turns
<1>4. old.state = "started" /\ old.rev = proc[p].rev /\ old.turn = NoNative
  BY <1>1, <1>2 DEF BindsStarted
<1>5. PICK n \in Nat : n = old.rev + 1
  BY DEF ExecutionType
<1>6. PICK row \in ExecutionType :
        /\ row = [old EXCEPT !.turn = t, !.rev = n] /\ row.turn = t /\ row.rev = n
        /\ row.state = old.state /\ row.calls = old.calls /\ row.returned = old.returned
  <2>1. [old EXCEPT !.turn = t, !.rev = n] \in ExecutionType
    BY DEF ExecutionType
  <2> QED
    BY <2>1 DEF ExecutionType
<1>7. /\ execution' = [execution EXCEPT ![k] = row] /\ row.rev = proc[p].rev + 1
      /\ TakesRev(p, "turn")
      /\ UNCHANGED <<decision, admission, handler, files, world>>
  BY <1>1, <1>2, <1>3, <1>4, <1>5, <1>6 DEF BindsStarted, TakesRev
<1>8. PICK place \in {"turn", "recorded", "completing", "commit"} : place = "turn"
  OBVIOUS
<1>9. /\ LiveTypeOK' /\ Steady(p) /\ JournalGuardsTurn'
      /\ execution'[k] = row /\ \A o \in Kind \ {k} : execution'[o] = execution[o]
      /\ proc'[p].at = "turn" /\ proc'[p].kind = k /\ proc'[p].turn = t
      /\ proc'[p].rev = row.rev /\ proc'[p].choice = proc[p].choice
      /\ UNCHANGED <<decision, admission, handler, journal, action, thread, effect>>
  <2>1. execution[k].state # "completed" /\ execution[k].turn = NoNative
    BY <1>2, <1>4
  <2>2. TakesRev(p, place)
    BY <1>7, <1>8
  <2>3. RowMoved(p, k, row, place)
    BY <1>1, <1>6, <1>7, <1>8, <2>1, <2>2, RowMoves, Zenon
  <2> QED
    BY <1>3, <1>8, <2>3 DEF RowMoved
<1>10. InTurn(p)' /\ Holds(p)' /\ OwnTurn(p) /\ t \in Turns'
  <2>1. Turns' = Turns
    BY <1>9 DEF Turns
  <2>2. Mine(p)' = row
    BY <1>9 DEF Mine
  <2>3. Holds(p)'
    BY <1>4, <1>6, <1>9, <2>2 DEF Holds
  <2>4. Owns(p) /\ InTurn(p)'
    BY <1>9 DEF BindsStarted, Owns, InTurn
  <2> QED
    BY <1>3, <1>9, <2>1, <2>3, <2>4 DEF OwnTurn
<1>11. k = "business" => /\ old.calls = 0 /\ old.returned = 0 /\ effect = {}
                         /\ Business = old /\ Business' = row
  BY <1>2, <1>4, <1>9 DEF Business, LiveInv, TablesSound
<1>12. TurnSound(p)'
  BY <1>3, <1>6, <1>9, <1>10, <1>11 DEF TurnSound, Stands
<1>13. WaySound(p)'
  BY <1>1, <1>9 DEF WaySound, Stands, LiveInv
<1>14. TablesSound'
  <2>1. CASE k = "decision"
    <3>1. Business' = Business
      BY <1>9, <2>1, KindsOfTurns DEF Business
    <3>2. /\ Done(Business.returned) => Done(Business.returned)'
          /\ Done(Business.calls) => Done(Business.calls)'
      BY <1>9, <3>1 DEF Done
    <3>3. decision = NoChoice
      BY <1>2, <1>4, <2>1 DEF LiveInv, TablesSound
    <3> QED
      BY <1>9, <3>1, <3>2, <3>3 DEF LiveInv, TablesSound
  <2>2. CASE k = "business"
    <3>1. /\ Business' = row /\ Business.state = "started" /\ row.calls = 0 /\ row.returned = 0
          /\ row.turn # NoNative /\ row.state = "started"
      BY <1>3, <1>4, <1>6, <1>11, <2>2
    <3>2. execution'["decision"] = execution["decision"]
      BY <1>9, <2>2, KindsOfTurns
    <3>3. Done(Business.returned)'
      <4>1. IsFiniteSet({}) /\ Cardinality({}) = 0
        BY FS_EmptySet
      <4>2. effect' = {} /\ Business'.returned = 0
        BY <1>9, <1>11, <2>2, <3>1
      <4> QED
        BY <4>1, <4>2 DEF Done
    <3>4. handler # "completed-bound"
      <4>1. decision = Accepted /\ Business.state # "completed"
        BY <3>1 DEF LiveInv, TablesSound
      <4> QED
        BY <4>1 DEF LiveInv, TablesSound
    <3> QED
      BY <1>9, <3>1, <3>2, <3>3, <3>4 DEF LiveInv, TablesSound
  <2> QED
    BY <2>1, <2>2, KindsOfTurns
<1> QED
  BY <1>9, <1>10, <1>12, <1>13, <1>14, LiveAfter

\* What a change of the execution in its own turn leaves to be shown.
LEMMA InTurnMoves ==
  ASSUME LiveInv, NEW p \in Process, InTurn(p), NEW k \in Kind, k = proc[p].kind,
         NEW row \in ExecutionType, NEW place, place \in {"turn", "recorded", "completing", "commit"},
         RowMoved(p, k, row, place), row.turn = proc[p].turn,
         row.state = IF place = "commit" THEN "completed" ELSE "started",
         k = "decision" /\ place \in {"recorded", "completing", "commit"} => proc[p].choice \in Choice,
         k = "business" =>
           /\ place = "turn" => row.calls = row.returned
           /\ place = "recorded" => row.calls = row.returned + 1 /\ Done(Business.returned)'
           /\ row.calls \in {row.returned, row.returned + 1}
           /\ Done(Business.returned)' \/ Done(Business.calls)'
           /\ row.state = "completed" => row.calls = Tools /\ row.returned = Tools
  PROVE  LiveInv'
<1>1. /\ LiveTypeOK' /\ Steady(p) /\ JournalGuardsTurn'
      /\ execution'[k] = row /\ \A o \in Kind \ {k} : execution'[o] = execution[o]
      /\ proc'[p].at = place /\ proc'[p].kind = k /\ proc'[p].turn = proc[p].turn
      /\ proc'[p].rev = row.rev /\ proc'[p].choice = proc[p].choice
      /\ UNCHANGED <<decision, admission, handler, journal, action, thread, effect>>
  BY DEF RowMoved
<1>2. /\ Holds(p) /\ proc[p].turn \in Native /\ proc[p].turn # NoNative
      /\ Mine(p) = execution[k] /\ execution[k].state = "started"
  BY InTurnHolds DEF Holds
<1>3. Owns(p) /\ proc[p].turn \in Turns /\ Turns' = Turns
  BY <1>1 DEF Owns, LiveInv, TurnSound, Turns
<1>4. OwnTurn(p) /\ (Owns(p)' => proc'[p].turn \in Turns')
  BY <1>1, <1>3 DEF OwnTurn
<1>5. Mine(p)' = row
  BY <1>1 DEF Mine
<1>6. /\ InTurn(p)' => Holds(p)'
      /\ Stands(p, "commit")' => Mine(p)'.state = "completed"
  <2>1. InTurn(p)' => place # "commit"
    BY <1>1 DEF InTurn
  <2>2. Stands(p, "commit")' => place = "commit"
    BY <1>1 DEF Stands
  <2> QED
    BY <1>1, <1>5, <2>1, <2>2 DEF Holds
<1>7. WaySound(p)'
  BY <1>1 DEF WaySound, Stands, LiveInv
<1>8. k = "business" => Business' = row
  BY <1>1 DEF Business
<1>9. TurnSound(p)'
  <2>1. /\ k = "decision" /\ place \in {"staged", "called", "recorded", "completing", "commit"}
               => proc[p].choice \in Choice
        /\ place \notin {"staged", "called", "ran"}
    OBVIOUS
  <2>2. k = "business" =>
          /\ Stands(p, "turn")' => Business'.calls = Business'.returned
          /\ Stands(p, "recorded")' => Business'.calls = Business'.returned + 1 /\ Done(Business.returned)'
          /\ ~Stands(p, "ran")'
    BY <1>1, <1>8 DEF Stands
  <2> QED
    BY <1>1, <1>4, <1>6, <2>1, <2>2 DEF TurnSound
<1>10. TablesSound'
  <2>1. CASE k = "decision"
    <3>1. Business' = Business
      BY <1>1, <2>1, KindsOfTurns DEF Business
    <3>2. /\ Done(Business.returned) => Done(Business.returned)'
          /\ Done(Business.calls) => Done(Business.calls)'
      BY <1>1, <3>1 DEF Done
    <3>3. decision = NoChoice
      BY <1>2, <2>1 DEF LiveInv, TablesSound
    <3> QED
      BY <1>1, <3>1, <3>2, <3>3 DEF LiveInv, TablesSound
  <2>2. CASE k = "business"
    <3>1. Business = execution[k] /\ Business.state = "started" /\ Business' = row
      BY <1>2, <1>8, <2>2 DEF Business
    <3>2. execution'["decision"] = execution["decision"]
      BY <1>1, <2>2, KindsOfTurns
    <3>3. decision = Accepted /\ handler # "completed-bound"
      BY <3>1 DEF LiveInv, TablesSound
    <3>4. row.turn # NoNative
      BY <1>2
    <3>5. /\ decision # NoChoice => execution["decision"].state = "completed"
      BY DEF LiveInv, TablesSound
    <3> QED
      BY <1>1, <2>2, <3>1, <3>2, <3>3, <3>4, <3>5 DEF TablesSound
  <2> QED
    BY <2>1, <2>2, KindsOfTurns
<1> QED
  BY <1>1, <1>4, <1>7, <1>9, <1>10, LiveAfter

\* The row a change of the execution writes.
LEMMA MovesWrites ==
  ASSUME LiveInv, NEW p \in Process, InTurn(p), NEW row \in ExecutionType, NEW place,
         place \in {"turn", "recorded", "completing", "commit"}, Moves(p, row, place),
         row.rev = proc[p].rev
  PROVE  \E new \in ExecutionType :
           /\ RowMoved(p, proc[p].kind, new, place)
           /\ new.state = row.state /\ new.turn = row.turn
           /\ new.calls = row.calls /\ new.returned = row.returned
<1>1. PICK k \in Kind : k = proc[p].kind
  BY InTurnHolds
<1>2. execution[k].state # "completed"
  BY <1>1, InTurnHolds DEF Holds
<1>3. PICK n \in Nat : n = row.rev + 1
  BY DEF ExecutionType
<1>4. PICK new \in ExecutionType :
        /\ new = [row EXCEPT !.rev = n] /\ new.rev = n /\ new.state = row.state
        /\ new.turn = row.turn /\ new.calls = row.calls /\ new.returned = row.returned
  <2>1. [row EXCEPT !.rev = n] \in ExecutionType
    BY DEF ExecutionType
  <2> QED
    BY <2>1 DEF ExecutionType
<1>5. /\ execution' = [execution EXCEPT ![k] = new] /\ new.rev = proc[p].rev + 1
      /\ TakesRev(p, place) /\ UNCHANGED <<decision, admission, handler, files, world>>
  BY <1>1, <1>3, <1>4 DEF Moves, TakesRev
<1>6. RowMoved(p, k, new, place)
  BY <1>1, <1>2, <1>4, <1>5, RowMoves, Zenon
<1> QED
  BY <1>1, <1>4, <1>6

LEMMA RecordsKeeps ==
  ASSUME LiveInv, NEW p \in Process, RecordsCall(p)
  PROVE  LiveInv'
<1>1. InTurn(p)
  BY DEF RecordsCall, InTurn, Stands
<1>2. PICK k \in Kind : k = proc[p].kind
  BY <1>1, InTurnHolds
<1>3. PICK old \in ExecutionType :
        /\ old = Mine(p) /\ old = execution[k]
        /\ old.state = "started" /\ old.turn = proc[p].turn /\ old.rev = proc[p].rev
  BY <1>1, <1>2, InTurnHolds DEF Holds
<1>4. old.calls < Tools /\ old.calls = old.returned
  <2>1. Mine(p).calls < (IF proc[p].kind = "decision" THEN 1 ELSE Tools) /\ Mine(p).calls = Mine(p).returned
    BY DEF RecordsCall
  <2>2. Tools \in Nat /\ 1 <= Tools
    BY LiveTurnAssumption
  <2> QED
    BY <1>3, <2>1, <2>2 DEF ExecutionType
<1>5. PICK c \in 0..Tools : c = old.calls + 1
  BY <1>4, LiveTurnAssumption DEF ExecutionType
<1>6. PICK row \in ExecutionType :
        /\ row = [old EXCEPT !.calls = c] /\ row.calls = c /\ row.returned = old.returned
        /\ row.state = old.state /\ row.turn = old.turn /\ row.rev = old.rev
  <2>1. [old EXCEPT !.calls = c] \in ExecutionType
    BY DEF ExecutionType
  <2> QED
    BY <2>1 DEF ExecutionType
<1>7. Moves(p, row, "recorded")
  <2>1. row = [Mine(p) EXCEPT !.calls = @ + 1]
    BY <1>3, <1>5, <1>6
  <2> QED
    BY <2>1 DEF RecordsCall
<1>8. PICK place : place = "recorded" /\ place \in {"turn", "recorded", "completing", "commit"}
  OBVIOUS
<1>9. PICK new \in ExecutionType :
        /\ RowMoved(p, k, new, place)
        /\ new.state = row.state /\ new.turn = row.turn
        /\ new.calls = row.calls /\ new.returned = row.returned
  <2>1. Moves(p, row, place) /\ row.rev = proc[p].rev
    BY <1>3, <1>6, <1>7, <1>8
  <2> QED
    BY <1>1, <1>2, <1>8, <2>1, MovesWrites, Zenon
<1>10. k = "decision" => proc[p].choice \in Choice
  BY <1>2 DEF RecordsCall, LiveInv, TurnSound, Stands
<1>11. k = "business" => /\ new.calls = new.returned + 1 /\ Done(Business.returned)'
  <2> SUFFICES ASSUME k = "business" PROVE new.calls = new.returned + 1 /\ Done(Business.returned)'
    OBVIOUS
  <2>1. Business = old /\ Business' = new /\ effect' = effect
    BY <1>3, <1>9 DEF Business, RowMoved
  <2>2. Done(old.returned)
    <3>1. Done(Business.returned) \/ Done(Business.calls)
      BY DEF LiveInv, TablesSound
    <3> QED
      BY <1>4, <2>1, <3>1
  <2>3. new.returned = old.returned /\ new.turn = old.turn /\ new.calls = old.returned + 1
    BY <1>4, <1>5, <1>6, <1>9
  <2> QED
    BY <2>1, <2>2, <2>3 DEF Done
<1>12. new.state = "started" /\ new.turn = proc[p].turn /\ place # "commit" /\ place # "turn"
  BY <1>3, <1>6, <1>8, <1>9
<1> QED
  BY <1>1, <1>2, <1>8, <1>9, <1>10, <1>11, <1>12, InTurnMoves

LEMMA CompletesKeeps ==
  ASSUME LiveInv, NEW p \in Process, CompletesCall(p)
  PROVE  LiveInv'
<1>1. InTurn(p)
  BY DEF CompletesCall, InTurn, Stands
<1>2. PICK k \in Kind : k = proc[p].kind
  BY <1>1, InTurnHolds
<1>3. PICK old \in ExecutionType :
        /\ old = Mine(p) /\ old = execution[k]
        /\ old.state = "started" /\ old.turn = proc[p].turn /\ old.rev = proc[p].rev
  BY <1>1, <1>2, InTurnHolds DEF Holds
<1>4. PICK c \in 0..Tools : c = old.calls
  BY DEF ExecutionType
<1>5. PICK row \in ExecutionType :
        /\ row = [old EXCEPT !.returned = c] /\ row.returned = c /\ row.calls = c
        /\ row.state = old.state /\ row.turn = old.turn /\ row.rev = old.rev
  <2>1. [old EXCEPT !.returned = c] \in ExecutionType
    BY DEF ExecutionType
  <2> QED
    BY <1>4, <2>1 DEF ExecutionType
<1>6. PICK place : /\ place = IF k = "decision" THEN "completing" ELSE "turn"
                   /\ place \in {"turn", "recorded", "completing", "commit"}
  OBVIOUS
<1>7. Moves(p, row, place)
  <2>1. row = [Mine(p) EXCEPT !.returned = Mine(p).calls]
    BY <1>3, <1>4, <1>5
  <2> QED
    BY <1>2, <1>6, <2>1 DEF CompletesCall
<1>8. PICK new \in ExecutionType :
        /\ RowMoved(p, k, new, place)
        /\ new.state = row.state /\ new.turn = row.turn
        /\ new.calls = row.calls /\ new.returned = row.returned
  <2>1. row.rev = proc[p].rev
    BY <1>3, <1>5
  <2> QED
    BY <1>1, <1>2, <1>6, <1>7, <2>1, MovesWrites, Zenon
<1>9. k = "decision" => proc[p].choice \in Choice
  BY <1>2 DEF CompletesCall, LiveInv, TurnSound, Stands
<1>10. new.calls = new.returned
  BY <1>5, <1>8
<1>11. k = "business" => Done(Business.returned)'
  <2> SUFFICES ASSUME k = "business" PROVE Done(Business.returned)'
    OBVIOUS
  <2>1. Business = old /\ Business' = new /\ effect' = effect
    BY <1>3, <1>8 DEF Business, RowMoved
  <2>2. Done(old.calls)
    <3>1. Stands(p, "ran")
      BY <1>2, KindsOfTurns DEF CompletesCall
    <3>2. Done(Business.calls)
      BY <1>2, <3>1 DEF LiveInv, TurnSound
    <3> QED
      BY <2>1, <3>2
  <2>3. new.returned = old.calls /\ new.turn = old.turn
    BY <1>4, <1>5, <1>8
  <2> QED
    BY <2>1, <2>2, <2>3 DEF Done
<1>12. /\ new.state = "started" /\ new.turn = proc[p].turn /\ place # "commit" /\ place # "recorded"
  BY <1>3, <1>5, <1>6, <1>8
<1> QED
  BY <1>1, <1>2, <1>6, <1>8, <1>9, <1>10, <1>11, <1>12, InTurnMoves

LEMMA BindsCompletedKeeps ==
  ASSUME LiveInv, NEW p \in Process, BindsCompleted(p)
  PROVE  LiveInv'
<1>1. InTurn(p)
  BY DEF BindsCompleted, InTurn, Stands
<1>2. PICK k \in Kind : k = proc[p].kind
  BY <1>1, InTurnHolds
<1>3. PICK old \in ExecutionType :
        /\ old = Mine(p) /\ old = execution[k]
        /\ old.state = "started" /\ old.turn = proc[p].turn /\ old.rev = proc[p].rev
  BY <1>1, <1>2, InTurnHolds DEF Holds
<1>4. PICK row \in ExecutionType :
        /\ row = [old EXCEPT !.state = "completed"] /\ row.state = "completed"
        /\ row.calls = old.calls /\ row.returned = old.returned
        /\ row.turn = old.turn /\ row.rev = old.rev
  <2>1. [old EXCEPT !.state = "completed"] \in ExecutionType
    BY DEF ExecutionType
  <2> QED
    BY <2>1 DEF ExecutionType
<1>5. Moves(p, row, "commit")
  <2>1. row = [Mine(p) EXCEPT !.state = "completed"]
    BY <1>3, <1>4
  <2> QED
    BY <2>1 DEF BindsCompleted
<1>6. PICK place : place = "commit" /\ place \in {"turn", "recorded", "completing", "commit"}
  OBVIOUS
<1>7. PICK new \in ExecutionType :
        /\ RowMoved(p, k, new, place)
        /\ new.state = row.state /\ new.turn = row.turn
        /\ new.calls = row.calls /\ new.returned = row.returned
  <2>1. Moves(p, row, place) /\ row.rev = proc[p].rev
    BY <1>3, <1>4, <1>5, <1>6
  <2> QED
    BY <1>1, <1>2, <1>6, <2>1, MovesWrites, Zenon
<1>8. k = "decision" => proc[p].choice \in Choice
  BY <1>2, KindsOfTurns DEF BindsCompleted, LiveInv, TurnSound, Stands
<1>9. k = "business" => /\ new.calls = Tools /\ new.returned = Tools /\ Done(Business.returned)'
  <2> SUFFICES ASSUME k = "business"
               PROVE  new.calls = Tools /\ new.returned = Tools /\ Done(Business.returned)'
    OBVIOUS
  <2>1. Business = old /\ Business' = new /\ effect' = effect
    BY <1>3, <1>7 DEF Business, RowMoved
  <2>2. Stands(p, "turn") /\ old.calls = Tools
    BY <1>2, <1>3, KindsOfTurns DEF BindsCompleted
  <2>3. old.calls = old.returned
    BY <1>2, <2>1, <2>2 DEF LiveInv, TurnSound
  <2>4. Done(old.returned)
    <3>1. Done(Business.returned) \/ Done(Business.calls)
      BY DEF LiveInv, TablesSound
    <3> QED
      BY <2>1, <2>3, <3>1
  <2> QED
    BY <1>4, <1>7, <2>1, <2>2, <2>3, <2>4 DEF Done
<1>10. new.state = "completed" /\ new.turn = proc[p].turn /\ place # "turn" /\ place # "recorded"
  BY <1>3, <1>4, <1>6, <1>7
<1> QED
  BY <1>1, <1>2, <1>6, <1>7, <1>8, <1>9, <1>10, InTurnMoves

LEMMA ToolKeeps ==
  ASSUME LiveInv, NEW p \in Process, RunsBusinessTool(p)
  PROVE  /\ LiveInv' /\ Business.state = "started"
         /\ Cardinality(effect) < Tools /\ Cardinality(effect') = Cardinality(effect) + 1
<1>1. /\ UNCHANGED <<execution, decision, admission, handler, journal, action, thread>>
      /\ proc[p].kind = "business" /\ Stands(p, "recorded") /\ Mine(p) = Business
      /\ effect' = effect \cup {[turn |-> proc[p].turn, position |-> Mine(p).calls]}
  BY DEF RunsBusinessTool, tables, files, Mine, Business
<1>2. InTurn(p) /\ Owns(p)
  BY <1>1 DEF InTurn, Owns, Stands
<1>3. /\ Holds(p) /\ Business.turn = proc[p].turn /\ Business.turn \in Native
      /\ Business.turn # NoNative /\ Business \in ExecutionType /\ Business.state = "started"
  BY <1>1, <1>2, InTurnHolds DEF Holds
<1>4. PICK n \in Nat : n = Business.returned
  BY <1>3 DEF ExecutionType
<1>5. PICK m \in 1..Tools : m = Business.calls /\ m = n + 1
  <2>1. Business.calls = Business.returned + 1
    BY <1>1, <1>3 DEF LiveInv, TurnSound
  <2>2. Business.calls \in 0..Tools
    BY <1>3 DEF ExecutionType
  <2> QED
    BY <1>4, <2>1, <2>2, LiveTurnAssumption
<1>6. PICK t \in Native : t = Business.turn
  BY <1>3
<1>7. /\ effect \subseteq [turn : {t}, position : 1..n] /\ IsFiniteSet(effect)
      /\ Cardinality(effect) = n
  <2>1. Done(n)
    BY <1>1, <1>3, <1>4 DEF LiveInv, TurnSound
  <2> QED
    BY <1>6, <2>1 DEF Done
<1>8. PICK call \in [turn : {t}, position : {m}] :
        call = [turn |-> t, position |-> m] /\ call.position = m
  <2>1. /\ [turn |-> t, position |-> m] \in [turn : {t}, position : {m}]
        /\ [turn |-> t, position |-> m].position = m
    OBVIOUS
  <2> QED
    BY <2>1, Zenon
<1>9. effect' = effect \cup {call}
  BY <1>1, <1>3, <1>5, <1>6, <1>8
<1>10. call \notin effect
  BY <1>5, <1>7, <1>8
<1>11. /\ IsFiniteSet(effect') /\ Cardinality(effect') = n + 1
  BY <1>7, <1>9, <1>10, FS_AddElement
<1>12. effect' \subseteq [turn : {t}, position : 1..m]
  <2>1. 1..n \subseteq 1..m /\ m \in 1..m
    BY <1>5
  <2>2. [turn : {t}, position : 1..n] \subseteq [turn : {t}, position : 1..m]
    BY <2>1
  <2>3. call \in [turn : {t}, position : 1..m]
    BY <1>8, <2>1
  <2> QED
    BY <1>7, <1>9, <2>2, <2>3
<1>13. Done(Business.calls)' /\ Business' = Business
  <2>1. Business' = Business
    BY <1>1 DEF Business
  <2>2. Business'.calls = m /\ Business'.turn = t
    BY <1>5, <1>6, <2>1
  <2> QED
    BY <1>5, <1>11, <1>12, <2>1, <2>2 DEF Done
<1>14. /\ proc' \in [Process -> ProcType]
       /\ proc'[p].at = "ran" /\ proc'[p].kind = "business" /\ proc'[p].turn = proc[p].turn
       /\ proc'[p].rev = proc[p].rev
       /\ \A q \in Process \ {p} : proc'[q] = proc[q]
  BY <1>1, GoesOn DEF RunsBusinessTool, LiveInv
<1>15. LiveTypeOK'
  <2>1. effect' \subseteq [turn : Native, position : 1..Tools]
    <3>1. call \in [turn : Native, position : 1..Tools]
      BY <1>8
    <3> QED
      BY <1>9, <3>1 DEF LiveInv, LiveTypeOK
  <2> QED
    BY <1>1, <1>14, <2>1 DEF LiveInv, LiveTypeOK
<1>16. Steady(p)
  <2>1. \A q \in Process \ {p} : InTurn(q) => proc[q].kind # "business"
    BY <1>1, <1>2, OneHolder
  <2> QED
    BY <1>1, <1>14, <2>1 DEF Steady, Turns
<1>17. JournalGuardsTurn'
  BY <1>1, GuardStill
<1>18. OwnTurn(p) /\ Owns(p)' /\ Holds(p)' /\ proc'[p].turn \in Turns'
  <2>1. proc[p].turn \in Turns /\ Turns' = Turns
    BY <1>1, <1>2 DEF LiveInv, TurnSound, Turns
  <2> QED
    BY <1>1, <1>2, <1>3, <1>14, <2>1 DEF OwnTurn, Owns, InTurn, Stands, Holds, Mine
<1>19. TurnSound(p)'
  <2>1. Business'.calls = Business'.returned + 1
    BY <1>4, <1>5, <1>13
  <2> QED
    BY <1>13, <1>14, <1>18, <2>1 DEF TurnSound, Stands
<1>20. WaySound(p)'
  BY <1>1, <1>14 DEF WaySound, Stands, LiveInv
<1>21. TablesSound'
  BY <1>1, <1>3, <1>13 DEF LiveInv, TablesSound
<1>22. LiveInv'
  BY <1>15, <1>16, <1>17, <1>18, <1>19, <1>20, <1>21, LiveAfter
<1>23. n < Tools
  BY <1>5, LiveTurnAssumption
<1> QED
  BY <1>3, <1>7, <1>11, <1>22, <1>23

LEMMA CommitsKeeps ==
  ASSUME LiveInv, NEW p \in Process, CommitsDecision(p)
  PROVE  LiveInv' /\ decision = NoChoice /\ decision' \in Choice
<1>1. UNCHANGED <<execution, admission, handler, journal, action, thread, effect>>
  BY DEF CommitsDecision, files, world
<1>2. /\ proc' \in [Process -> ProcType] /\ proc'[p].at = "retire" /\ proc'[p].kind = "decision"
      /\ \A q \in Process \ {p} : proc'[q] = proc[q]
  BY GoesOn DEF CommitsDecision, LiveInv
<1>3. decision = NoChoice /\ decision' \in Choice /\ handler = "claimed"
  BY DEF CommitsDecision, Stands, LiveInv, TurnSound
<1>4. decision' # NoChoice
  BY <1>3, LiveTurnAssumption
<1>5. Mine(p) = execution["decision"] /\ Mine(p).state = "completed"
  BY DEF CommitsDecision, LiveInv, TurnSound, Mine
<1>6. LiveTypeOK'
  BY <1>1, <1>2, <1>3 DEF LiveInv, LiveTypeOK
<1>7. Steady(p)
  BY <1>1, <1>2, <1>3 DEF Steady, Turns
<1>8. TurnSound(p)' /\ OwnTurn(p)
  BY <1>2, Outside
<1>9. WaySound(p)'
  BY <1>2, <1>4 DEF WaySound, Stands, Committed
<1>10. JournalGuardsTurn'
  BY <1>1, <1>3, GuardStill
<1>11. TablesSound'
  <2>1. Business.state = "absent"
    BY <1>3, LiveTurnAssumption DEF LiveInv, TablesSound
  <2>2. Business' = Business
    BY <1>1 DEF Business
  <2>3. /\ Done(Business.returned) => Done(Business.returned)'
        /\ Done(Business.calls) => Done(Business.calls)'
    BY <1>1, <2>2 DEF Done
  <2> QED
    BY <1>1, <1>3, <1>5, <2>1, <2>2, <2>3 DEF LiveInv, TablesSound
<1> QED
  BY <1>3, <1>6, <1>7, <1>8, <1>9, <1>10, <1>11, LiveAfter

LEMMA ConfirmsKeeps ==
  ASSUME LiveInv, NEW p \in Process, ConfirmsAdmission(p)
  PROVE  LiveInv'
<1>1. UNCHANGED <<execution, decision, handler, journal, action, thread, effect>>
  BY DEF ConfirmsAdmission, files, world
<1>2. /\ proc' \in [Process -> ProcType] /\ proc'[p].at = "retire" /\ proc'[p].kind = "business"
      /\ \A q \in Process \ {p} : proc'[q] = proc[q]
  BY GoesOn DEF ConfirmsAdmission, LiveInv
<1>3. admission' = "completed" /\ decision = Accepted
  BY DEF ConfirmsAdmission, LiveInv, WaySound
<1>4. WaySound(p)'
  BY <1>1, <1>2, <1>3 DEF WaySound, Stands, Committed
<1> QED
  BY <1>1, <1>2, <1>3, <1>4, Outside, Wanders DEF LiveInv, LiveTypeOK

LEMMA HandlerKeeps ==
  ASSUME LiveInv, NEW p \in Process, BindsHandler(p)
  PROVE  LiveInv' /\ decision # NoChoice /\ (decision = Accepted => Business.state = "completed")
<1>1. UNCHANGED <<execution, decision, admission, journal, action, thread, effect>>
  BY DEF BindsHandler, files, world
<1>2. PICK row \in ProcType : row = Idle /\ row.at = "idle" /\ row.kind = "decision"
  BY IdleRow
<1>3. /\ proc' \in [Process -> ProcType] /\ proc'[p] = row
      /\ \A q \in Process \ {p} : proc'[q] = proc[q]
  BY <1>2, RowsOfProcs DEF BindsHandler, LiveInv
<1>4. decision # NoChoice /\ (decision = Accepted => Business.state = "completed")
  <2>1. /\ decision # NoChoice /\ (proc[p].kind = "decision" => decision # Accepted)
        /\ proc[p].kind \in Kind /\ Mine(p).state = "completed"
    BY DEF BindsHandler, LiveInv, WaySound, LiveTypeOK, ProcType
  <2> QED
    BY <2>1, KindsOfTurns DEF Mine, Business
<1>5. handler' = "completed-bound"
  BY DEF BindsHandler
<1>6. LiveTypeOK'
  BY <1>1, <1>3, <1>5 DEF LiveInv, LiveTypeOK
<1>7. Steady(p)
  BY <1>1, <1>3 DEF Steady, Turns
<1>8. TurnSound(p)' /\ OwnTurn(p)
  BY <1>2, <1>3, Outside
<1>9. WaySound(p)'
  BY <1>2, <1>3 DEF WaySound, Stands
<1>10. JournalGuardsTurn'
  BY <1>1, GuardStill
<1>11. TablesSound'
  <2>1. Business' = Business
    BY <1>1 DEF Business
  <2>2. /\ Done(Business.returned) => Done(Business.returned)'
        /\ Done(Business.calls) => Done(Business.calls)'
    BY <1>1, <2>1 DEF Done
  <2> QED
    BY <1>1, <1>4, <1>5, <2>1, <2>2 DEF LiveInv, TablesSound
<1> QED
  BY <1>4, <1>6, <1>7, <1>8, <1>9, <1>10, <1>11, LiveAfter

\* Nothing moves but the state of native turns that stay turns.
LEMMA WorldKeeps ==
  ASSUME LiveInv, UNCHANGED <<execution, decision, admission, handler, journal, action, effect, proc>>,
         thread' \in [Native -> ThreadType], Turns' = Turns,
         \A t \in Turns : thread'[t].kind = thread[t].kind
  PROVE  LiveInv'
<1>1. LiveTypeOK'
  BY DEF LiveInv, LiveTypeOK
<1>2. Business' = Business /\ \A n : Done(n) => Done(n)'
  <2>1. Business' = Business
    BY DEF Business
  <2> QED
    BY <2>1, DoneKept
<1>3. \A p \in Process : TurnSound(p)' /\ WaySound(p)'
  <2> SUFFICES ASSUME NEW p \in Process PROVE TurnSound(p)' /\ WaySound(p)'
    OBVIOUS
  <2>1. TurnSound(p) /\ WaySound(p)
    BY DEF LiveInv
  <2>2. WaySound(p)'
    BY <2>1 DEF WaySound, Stands, Committed
  <2>3. /\ Owns(p)' = Owns(p) /\ InTurn(p)' = InTurn(p) /\ Holds(p)' = Holds(p)
        /\ Mine(p)' = Mine(p) /\ \A place : Stands(p, place)' = Stands(p, place)
    BY DEF Owns, InTurn, Holds, Mine, Stands
  <2> QED
    BY <1>2, <2>1, <2>2, <2>3 DEF TurnSound
<1>4. OwnTurns'
  BY DEF LiveInv, OwnTurns, Owns, InTurn, Stands
<1>5. TablesSound'
  BY TablesStill
<1>6. JournalGuardsTurn'
  BY DEF LiveInv, JournalGuardsTurn
<1> QED
  BY <1>1, <1>3, <1>4, <1>5, <1>6 DEF LiveInv

LEMMA NativeKeeps ==
  ASSUME LiveInv, NativeEnds
  PROVE  LiveInv'
<1>1. UNCHANGED <<execution, decision, admission, handler, journal, action, effect, proc>>
  BY DEF NativeEnds, tables, files
<1>2. PICK t \in Native, outcome \in {"completed", "failed"} :
        thread[t].state = "inProgress" /\ thread' = [thread EXCEPT ![t].state = outcome]
  BY DEF NativeEnds
<1>3. PICK old \in ThreadType : old = thread[t]
  BY DEF LiveInv, LiveTypeOK
<1>4. PICK row \in ThreadType : /\ row = [old EXCEPT !.state = outcome]
                                /\ row.state = outcome /\ row.kind = old.kind
  <2>1. [old EXCEPT !.state = outcome] \in ThreadType
    BY DEF ThreadType
  <2> QED
    BY <2>1 DEF ThreadType
<1>5. /\ thread' \in [Native -> ThreadType] /\ thread'[t] = row
      /\ \A u \in Native \ {t} : thread'[u] = thread[u]
  BY <1>2, <1>3, <1>4 DEF LiveInv, LiveTypeOK
<1>6. Turns' = Turns
  BY <1>2, <1>3, <1>4, <1>5 DEF Turns
<1>7. \A u \in Turns : thread'[u].kind = thread[u].kind
  BY <1>3, <1>4, <1>5 DEF Turns
<1> QED
  BY <1>1, <1>5, <1>6, <1>7, WorldKeeps

LEMMA LiveStutters ==
  ASSUME LiveInv, UNCHANGED live_vars
  PROVE  LiveInv'
<1>1. UNCHANGED <<execution, decision, admission, handler, journal, action, thread, effect, proc>>
  BY DEF live_vars, tables, files, world
<1>2. Turns' = Turns /\ thread' \in [Native -> ThreadType]
  BY <1>1 DEF Turns, LiveInv, LiveTypeOK
<1> QED
  BY <1>1, <1>2, WorldKeeps

LEMMA LiveStarts == LiveInit => LiveInv
<1> SUFFICES ASSUME LiveInit PROVE LiveInv
  OBVIOUS
<1>1. PICK idle \in ProcType : idle = Idle /\ idle.at = "idle" /\ idle.kind = "decision"
  BY IdleRow
<1>2. \A p \in Process : proc[p] = idle
  BY <1>1 DEF LiveInit
<1>3. PICK absent \in ExecutionType :
        /\ absent.state = "absent" /\ absent.turn = NoNative /\ absent.calls = 0 /\ absent.returned = 0
        /\ execution = [k \in Kind |-> absent]
  <2>1. 0 \in 0..Tools
    BY LiveTurnAssumption
  <2>2. PICK absent : absent = [state |-> "absent", rev |-> 0, turn |-> NoNative,
                                calls |-> 0, returned |-> 0]
    OBVIOUS
  <2>3. /\ absent \in ExecutionType /\ absent.state = "absent" /\ absent.turn = NoNative
        /\ absent.calls = 0 /\ absent.returned = 0
    BY <2>1, <2>2 DEF ExecutionType
  <2> QED
    BY <2>2, <2>3 DEF LiveInit
<1>4. Business = absent /\ effect = {} /\ decision = NoChoice /\ handler = "claimed" /\ Turns = {}
  BY <1>3, KindsOfTurns DEF Business, LiveInit, Turns
<1>5. LiveTypeOK
  <2>1. proc \in [Process -> ProcType]
    BY <1>1 DEF LiveInit
  <2>2. thread \in [Native -> ThreadType]
    BY KindsOfTurns DEF LiveInit, ThreadType
  <2>3. NoAction \in ActionType
    BY DEF NoAction, ActionType
  <2>4. journal \in [Kind -> (SUBSET Native) \cup {NoBase}]
    BY DEF LiveInit
  <2> QED
    BY <1>3, <2>1, <2>2, <2>3, <2>4 DEF LiveInit, LiveTypeOK
<1>6. \A p \in Process : TurnSound(p) /\ WaySound(p) /\ ~Owns(p)
  BY <1>1, <1>2 DEF TurnSound, WaySound, Owns, InTurn, Stands
<1>7. TablesSound
  <2>1. Done(0)
    <3>1. IsFiniteSet({}) /\ Cardinality({}) = 0
      BY FS_EmptySet
    <3> QED
      BY <1>4, <3>1 DEF Done
  <2> QED
    BY <1>3, <1>4, <2>1, LiveTurnAssumption DEF TablesSound
<1> QED
  BY <1>4, <1>5, <1>6, <1>7 DEF LiveInv, OwnTurns, JournalGuardsTurn

LEMMA LiveStep ==
  ASSUME LiveInv, [LiveNext]_live_vars
  PROVE  LiveInv'
<1>1. ASSUME NEW p \in Process, Step(p) PROVE LiveInv'
  <2>1. CASE Activates(p) \/ TakesBaseline(p) \/ Journals(p) \/ Marks(p)
    BY <2>1, ActivatesKeeps, TakesBaselineKeeps, JournalsKeeps, MarksKeeps
  <2>2. CASE StartsNative(p) \/ BindsStarted(p)
    BY <2>2, StartsKeeps, BindsKeeps
  <2>3. CASE (\E c \in Choice : StagesDecision(p, c)) \/ CompletesDecision(p)
    BY <2>3, DecisionCallKeeps
  <2>4. CASE RecordsCall(p) \/ RunsBusinessTool(p) \/ CompletesCall(p)
    BY <2>4, RecordsKeeps, ToolKeeps, CompletesKeeps
  <2>5. CASE BindsCompleted(p) \/ CommitsDecision(p) \/ ConfirmsAdmission(p)
    BY <2>5, BindsCompletedKeeps, CommitsKeeps, ConfirmsKeeps
  <2>6. CASE RetiresJournal(p) \/ RetiresAction(p)
    BY <2>6, RetiresKeeps
  <2>7. CASE RecoversFromAction(p) \/ RecoversFromJournal(p)
    BY <2>7, RecoversKeeps
  <2>8. CASE Prepares(p) \/ EntersBusiness(p) \/ SkipsBusiness(p) \/ BindsHandler(p)
    BY <2>8, PreparesKeeps, EntersKeeps, SkipsKeeps, HandlerKeeps
  <2> QED
    BY <1>1, <2>1, <2>2, <2>3, <2>4, <2>5, <2>6, <2>7, <2>8 DEF Step
<1> QED
  BY <1>1, FailsKeeps, FailsEarlyKeeps, NativeKeeps, LiveStutters DEF LiveNext

\* The inductive invariant of the activation, whichever processes are at it and fail.
THEOREM LiveInductive == LiveSpec => []LiveInv
<1>1. LiveInit => LiveInv
  BY LiveStarts
<1>2. LiveInv /\ [LiveNext]_live_vars => LiveInv'
  BY LiveStep
<1> QED
  BY <1>1, <1>2, PTL DEF LiveSpec

\* Whatever other turns a second owner started, no tool ran in one and no decision
\* was committed from one (live-agent-scenario.mjs).
THEOREM TheBoundTurnActs == LiveSpec => []OnlyTheBoundTurnActs
<1>1. LiveInv => OnlyTheBoundTurnActs
  BY DEF LiveInv, TablesSound, Done, Business, OnlyTheBoundTurnActs
<1> QED
  BY <1>1, LiveInductive, PTL

\* From the start of a native turn on, its journal is there or its outcome committed
\* (m5-2-live-turn-journal.mjs).
THEOREM JournalsGuard == LiveSpec => []JournalsKept
<1>1. LiveInv => JournalsKept
  BY DEF LiveInv, JournalsKept
<1> QED
  BY <1>1, LiveInductive, PTL

LEMMA LiveRefines ==
  ASSUME LiveInv, [LiveNext]_live_vars
  PROVE  [Promise!ActivationNext]_<<decision, Cardinality(effect), handler = "completed-bound">>
<1> DEFINE Kept == decision' = decision /\ effect' = effect /\ handler' = handler
<1>1. Kept => UNCHANGED <<decision, Cardinality(effect), handler = "completed-bound">>
  OBVIOUS
<1>2. ASSUME NEW p \in Process, CommitsDecision(p) PROVE Promise!ActivationNext
  <2>1. decision = NoChoice /\ decision' \in Choice
    BY <1>2, CommitsKeeps
  <2>2. effect' = effect /\ handler' = handler
    BY <1>2 DEF CommitsDecision, world
  <2>3. Promise!Decides(decision')
    BY <2>1, <2>2 DEF Promise!Decides
  <2> QED
    BY <2>1, <2>3 DEF Promise!ActivationNext
<1>3. ASSUME NEW p \in Process, RunsBusinessTool(p) PROVE Promise!ActivationNext
  <2>1. /\ Business.state = "started"
        /\ Cardinality(effect) < Tools /\ Cardinality(effect') = Cardinality(effect) + 1
    BY <1>3, ToolKeeps
  <2>2. decision = Accepted /\ handler # "completed-bound"
    BY <2>1 DEF LiveInv, TablesSound
  <2>3. decision' = decision /\ handler' = handler
    BY <1>3 DEF RunsBusinessTool, tables
  <2>4. Promise!RunsTool
    BY <2>1, <2>2, <2>3 DEF Promise!RunsTool
  <2> QED
    BY <2>4 DEF Promise!ActivationNext
<1>4. ASSUME NEW p \in Process, BindsHandler(p)
      PROVE  Promise!ActivationNext \/ UNCHANGED <<decision, Cardinality(effect), handler = "completed-bound">>
  <2>1. decision # NoChoice /\ (decision = Accepted => Business.state = "completed")
    BY <1>4, HandlerKeeps
  <2>2. decision' = decision /\ effect' = effect /\ handler' = "completed-bound"
    BY <1>4 DEF BindsHandler, world
  <2>3. decision = Accepted => Cardinality(effect) = Tools
    BY <2>1 DEF LiveInv, TablesSound, Done
  <2>4. CASE handler = "completed-bound"
    BY <2>2, <2>4
  <2>5. CASE handler # "completed-bound"
    <3>1. Promise!Binds
      BY <2>1, <2>2, <2>3, <2>5 DEF Promise!Binds
    <3> QED
      BY <3>1 DEF Promise!ActivationNext
  <2> QED
    BY <2>4, <2>5
<1>5. ASSUME NEW p \in Process,
             Step(p) \/ Fails(p) \/ FailsBeforeStart(p),
             ~CommitsDecision(p), ~RunsBusinessTool(p), ~BindsHandler(p)
      PROVE  Kept
  <2>1. CASE Activates(p) \/ TakesBaseline(p) \/ Journals(p) \/ Marks(p) \/ StartsNative(p) \/ BindsStarted(p)
    BY <2>1 DEF Activates, TakesBaseline, Journals, Marks, StartsNative, BindsStarted, tables, world
  <2>2. CASE (\E c \in Choice : StagesDecision(p, c)) \/ CompletesDecision(p)
    BY <2>2 DEF StagesDecision, CompletesDecision, tables, world
  <2>3. CASE RecordsCall(p) \/ CompletesCall(p) \/ BindsCompleted(p)
    BY <2>3 DEF RecordsCall, CompletesCall, BindsCompleted, Moves, world
  <2>4. CASE ConfirmsAdmission(p) \/ Prepares(p) \/ EntersBusiness(p) \/ SkipsBusiness(p)
    BY <2>4 DEF ConfirmsAdmission, Prepares, EntersBusiness, SkipsBusiness, tables, world
  <2>5. CASE RetiresJournal(p) \/ RetiresAction(p) \/ RecoversFromAction(p) \/ RecoversFromJournal(p)
    BY <2>5 DEF RetiresJournal, RetiresAction, RecoversFromAction, RecoversFromJournal, tables, world
  <2>6. CASE Fails(p) \/ FailsBeforeStart(p)
    BY <2>6 DEF Fails, FailsBeforeStart, tables, world
  <2> QED
    BY <1>5, <2>1, <2>2, <2>3, <2>4, <2>5, <2>6 DEF Step
<1>6. NativeEnds \/ UNCHANGED live_vars => Kept
  BY DEF NativeEnds, live_vars, tables, world
<1> QED
  BY <1>1, <1>2, <1>3, <1>4, <1>5, <1>6 DEF LiveNext

\* Whichever processes drive an activation and fail at whichever step, the receiver
\* decides once, its tools run in order and at most once, and the handler is bound to a
\* turn that ran them all.
THEOREM ActivationRefines == LiveSpec => ImplementsActivation
<1>1. LiveInit => Promise!ActivationInit
  <2>1. Cardinality({}) = 0
    BY FS_EmptySet
  <2> QED
    BY <2>1 DEF LiveInit, Promise!ActivationInit
<1>2. LiveInv /\ [LiveNext]_live_vars =>
        [Promise!ActivationNext]_<<decision, Cardinality(effect), handler = "completed-bound">>
  BY LiveRefines
<1> QED
  BY <1>1, <1>2, LiveInductive, PTL DEF LiveSpec, ImplementsActivation, Promise!ActivationSpec, Promise!act_vars
=============================================================================
