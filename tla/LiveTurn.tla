------------------------------- MODULE LiveTurn -------------------------------
(***************************************************************************)
(* One activation of a receiver, as the processes that may be at it drive   *)
(* it: runCoordinatorActivation of                                          *)
(* src/activation/coordinator-activation-driver.mjs, the protected turns of *)
(* src/validation/live-agent-scenario.mjs and the journals that             *)
(* src/validation/m5-2-live-turn-journal.mjs keeps of them.                 *)
(*                                                                         *)
(* A decision turn lets the receiver's model decide on the offer; for an    *)
(* accepted message a business turn then calls its tools.  Both follow one  *)
(* scheme: freeze a baseline of the thread, write the journal, mark the     *)
(* execution started, ask the native runtime for a turn, bind it, work,     *)
(* commit, and only then retire the journal.  Whoever finds a journal must  *)
(* not start a turn.  A process may fail, or be killed, between any two     *)
(* steps, and nothing but the coordinator's tables, the files and the       *)
(* native thread survives; the claim of the attention event is in Attention *)
(* and EventPump.                                                           *)
(***************************************************************************)
EXTENDS Naturals, FiniteSets

CONSTANTS
  Process,    \* event pumps that run the activation
  Native,       \* native turns the runtime may start
  NoNative,     \* no turn
  Choice,     \* what a receiver may decide
  NoChoice,   \* it has not decided
  Accepted,   \* the choice that admits the message
  Tools       \* the tools the business turn must call, one after the other

ASSUME LiveTurnAssumption ==
  /\ NoNative \notin Native
  /\ NoChoice \notin Choice /\ Accepted \in Choice
  /\ Tools \in Nat \ {0}

VARIABLES
  execution,   \* the coordinator's execution of each kind of turn
  decision,    \* the committed decision of the receiver
  admission,   \* the context admission of the message
  handler,     \* the attention handler of the event
  journal,     \* the live turn journal of each execution: its baseline
  action,      \* the decision-action file
  thread,      \* the turns of the receiver's native thread
  effect,      \* the business tools that ran, by turn and position
  proc         \* what each process is at

tables == <<execution, decision, admission, handler>>
files == <<journal, action>>
world == <<thread, effect>>
live_vars == <<tables, files, world, proc>>

Kind == {"decision", "business"}

\* A journal that does not exist is no set of turns.
NoBase == {NoNative}

ExecutionType ==
  [state : {"absent", "proposed", "started", "completed"}, rev : Nat,
   turn : Native \cup {NoNative}, calls : 0..Tools, returned : 0..Tools]

NoAction == [state |-> "absent", turn |-> NoNative, choice |-> NoChoice]

ActionType ==
  [state : {"absent", "selection-staged", "call-completed"},
   turn : Native \cup {NoNative}, choice : Choice \cup {NoChoice}]

Idle == [at |-> "idle", kind |-> "decision", rev |-> 0, turn |-> NoNative,
         base |-> NoBase, choice |-> NoChoice]

ProcType ==
  [at : {"idle", "enter", "write", "mark", "start", "bind", "turn", "staged", "called",
         "recorded", "ran", "completing", "commit", "retire", "retire-action",
         "decided", "prepared", "handler", "threw"},
   kind : Kind, rev : Nat, turn : Native \cup {NoNative},
   base : (SUBSET Native) \cup {NoBase}, choice : Choice \cup {NoChoice}]

ThreadType ==
  [state : {"none", "inProgress", "completed", "failed"}, kind : Kind]

LiveInit ==
  /\ execution = [k \in Kind |-> [state |-> "absent", rev |-> 0, turn |-> NoNative,
                                  calls |-> 0, returned |-> 0]]
  /\ decision = NoChoice
  /\ admission = "absent"
  /\ handler = "claimed"
  /\ journal = [k \in Kind |-> NoBase]
  /\ action = NoAction
  /\ thread = [t \in Native |-> [state |-> "none", kind |-> "decision"]]
  /\ effect = {}
  /\ proc = [p \in Process |-> Idle]

Stands(p, place) == proc[p].at = place
Goes(p, place) == proc' = [proc EXCEPT ![p].at = place]
Mine(p) == execution[proc[p].kind]

(***************************************************************************)
(* The native thread.                                                      *)
(***************************************************************************)
Turns == {t \in Native : thread[t].state # "none"}
ThreadIdle == \A t \in Turns : thread[t].state # "inProgress"

\* The one turn that is new since the baseline.
Delta(base) == Turns \ base

\* classifyCodexNativeTurnReconciliation: completed-observation-only, with its
\* correlation by the client id the execution sent.
ObservedCompleted(k, base, t) ==
  /\ ThreadIdle
  /\ Delta(base) = {t}
  /\ thread[t].kind = k /\ thread[t].state = "completed"

\* A turn ends when the model says so, whatever became of its client: a process
\* that stopped takes its server along, and the thread shows one or the other.
NativeEnds ==
  \E t \in Native :
    /\ thread[t].state = "inProgress"
    /\ \E outcome \in {"completed", "failed"} : thread' = [thread EXCEPT ![t].state = outcome]
    /\ UNCHANGED <<tables, files, effect, proc>>

(***************************************************************************)
(* Into the activation.  A process that fails, times out or is killed loses *)
(* what it knew; every error path of the wrappers ends in a throw and       *)
(* leaves the files alone.                                                 *)
(***************************************************************************)

Fails(p) ==
  /\ ~ Stands(p, "idle")
  /\ proc' = [proc EXCEPT ![p] = Idle]
  /\ UNCHANGED <<tables, files, world>>

\* The runtime could not be reached, or refused the snapshot or the thread: the
\* caller gets the error, and knows that no turn was asked for.
FailsBeforeStart(p) ==
  /\ Stands(p, "mark")
  /\ Goes(p, "threw")
  /\ UNCHANGED <<tables, files, world>>

\* createTurnExecutionIntent; one that is there already is replayed.
Created(k) ==
  IF execution[k].state = "absent"
  THEN [execution EXCEPT ![k].state = "proposed"] ELSE execution

\* A decision that is committed is recovered; otherwise the turn's execution is
\* created or found, and the mailbox claimed at revision 0.
Activates(p) ==
  /\ Stands(p, "idle") \/ Stands(p, "threw")
  /\ IF decision # NoChoice
     THEN Goes(p, "decided") /\ UNCHANGED execution
     ELSE /\ execution' = Created("decision")
          /\ proc' = [proc EXCEPT ![p] =
               [Idle EXCEPT !.at = "enter", !.rev = execution["decision"].rev]]
  /\ UNCHANGED <<decision, admission, handler, files, world>>

(***************************************************************************)
(* A turn, from its journal to its native turn.                            *)
(***************************************************************************)
\* runReceiverDecisionTurn and runAdmittedToolTurn take the way of a new turn.
MayStart(k) ==
  /\ journal[k] = NoBase
  /\ (k = "decision") => (action = NoAction)
  /\ ThreadIdle

\* freezeCodexNativeTurnBaseline
TakesBaseline(p) ==
  /\ Stands(p, "enter")
  /\ MayStart(proc[p].kind)
  /\ proc' = [proc EXCEPT ![p].at = "write", ![p].base = Turns]
  /\ UNCHANGED <<tables, files, world>>

\* writeM52LiveTurnJournal: an equal record that is there already is replayed.
Journals(p) ==
  LET k == proc[p].kind IN
  /\ Stands(p, "write")
  /\ journal[k] \in {NoBase, proc[p].base}
  /\ journal' = [journal EXCEPT ![k] = proc[p].base]
  /\ Goes(p, "mark")
  /\ UNCHANGED <<tables, action, world>>

\* markTurnExecutionStarted from beforeTurnStart; the driver takes the replayed
\* answer for its own (acquired is not looked at).
Marks(p) ==
  LET k == proc[p].kind IN
  /\ Stands(p, "mark")
  /\ \/ /\ execution[k].state = "proposed" /\ execution[k].rev = proc[p].rev
        /\ execution' = [execution EXCEPT ![k].state = "started", ![k].rev = @ + 1]
     \/ execution[k].state = "started" /\ UNCHANGED execution
  /\ proc' = [proc EXCEPT ![p].at = "start", ![p].rev = execution'[k].rev]
  /\ UNCHANGED <<decision, admission, handler, files, world>>

\* turn/start, sent with the execution's key as the client id.
StartsNative(p) ==
  /\ Stands(p, "start")
  /\ \E t \in Native \ Turns :
       /\ thread' = [thread EXCEPT ![t] = [state |-> "inProgress", kind |-> proc[p].kind]]
       /\ proc' = [proc EXCEPT ![p].at = "bind", ![p].turn = t]
  /\ UNCHANGED <<tables, files, effect>>

\* Mutant: a second turn takes the place of the first.
BindsStarted_Anew(p) ==
  LET k == proc[p].kind IN
  /\ Stands(p, "bind")
  /\ execution[k].state = "started"
  /\ execution' = [execution EXCEPT ![k].turn = proc[p].turn, ![k].rev = @ + 1]
  /\ proc' = [proc EXCEPT ![p].at = "turn", ![p].rev = execution'[k].rev]
  /\ UNCHANGED <<decision, admission, handler, files, world>>

\* bindStartedTurnExecutionOperation; tool calls wait for it.
BindsStarted(p) ==
  LET k == proc[p].kind IN
  /\ Stands(p, "bind")
  /\ execution[k].state = "started" /\ execution[k].rev = proc[p].rev
  /\ execution[k].turn = NoNative
  /\ execution' = [execution EXCEPT ![k].turn = proc[p].turn, ![k].rev = @ + 1]
  /\ proc' = [proc EXCEPT ![p].at = "turn", ![p].rev = @ + 1]
  /\ UNCHANGED <<decision, admission, handler, files, world>>

(***************************************************************************)
(* What the model selects, and the transactions that follow it.            *)
(***************************************************************************)
Running(p) == thread[proc[p].turn].state = "inProgress"
Over(p) == thread[proc[p].turn].state = "completed"

\* The CAS of every operation on the execution of p's turn.
Holds(p) ==
  /\ Mine(p).state = "started"
  /\ Mine(p).turn = proc[p].turn
  /\ Mine(p).rev = proc[p].rev

Moves(p, row, place) ==
  /\ execution' = [execution EXCEPT ![proc[p].kind] = [row EXCEPT !.rev = @ + 1]]
  /\ proc' = [proc EXCEPT ![p].at = place, ![p].rev = @ + 1]
  /\ UNCHANGED <<decision, admission, handler, files, world>>

\* stageM52DecisionAction: the selection is on disk before it is answered.
StagesDecision(p, c) ==
  /\ Stands(p, "turn") /\ proc[p].kind = "decision" /\ Running(p)
  /\ action = NoAction
  /\ action' = [state |-> "selection-staged", turn |-> proc[p].turn, choice |-> c]
  /\ proc' = [proc EXCEPT ![p].at = "staged", ![p].choice = c]
  /\ UNCHANGED <<tables, journal, world>>

\* completeM52DecisionAction replaces exactly the record that was staged.
CompletesDecision(p) ==
  /\ Stands(p, "staged")
  /\ action.state = "selection-staged" /\ action.turn = proc[p].turn
  /\ action' = [action EXCEPT !.state = "call-completed"]
  /\ Goes(p, "called")
  /\ UNCHANGED <<tables, journal, world>>

\* recordModelSelectedTurnToolAction.  The decision turn records its call when
\* it is over, the business turn before each tool.
RecordsCall(p) ==
  /\ IF proc[p].kind = "decision" THEN Stands(p, "called") /\ Over(p)
                                  ELSE Stands(p, "turn") /\ Running(p)
  /\ Holds(p)
  /\ Mine(p).calls < (IF proc[p].kind = "decision" THEN 1 ELSE Tools)
  /\ Mine(p).calls = Mine(p).returned
  /\ Moves(p, [Mine(p) EXCEPT !.calls = @ + 1], "recorded")

\* onBusinessToolCall
RunsBusinessTool(p) ==
  /\ Stands(p, "recorded") /\ proc[p].kind = "business"
  /\ effect' = effect \cup {[turn |-> proc[p].turn, position |-> Mine(p).calls]}
  /\ Goes(p, "ran")
  /\ UNCHANGED <<tables, files, thread>>

\* completeModelSelectedTurnToolAction
CompletesCall(p) ==
  /\ Stands(p, IF proc[p].kind = "decision" THEN "recorded" ELSE "ran")
  /\ Holds(p)
  /\ Moves(p, [Mine(p) EXCEPT !.returned = Mine(p).calls],
            IF proc[p].kind = "decision" THEN "completing" ELSE "turn")

\* Mutant: the journal goes when the turn is bound, before the commit.
BindsCompleted_Retires(p) ==
  /\ \/ proc[p].kind = "decision" /\ Stands(p, "completing")
     \/ proc[p].kind = "business" /\ Stands(p, "turn") /\ Mine(p).calls = Tools
  /\ Over(p) /\ Holds(p)
  /\ execution' = [execution EXCEPT ![proc[p].kind].state = "completed"]
  /\ journal' = [journal EXCEPT ![proc[p].kind] = NoBase]
  /\ Goes(p, "commit")
  /\ UNCHANGED <<decision, admission, handler, action, world>>

\* bindCompletedTurnExecution, for a turn that called what it had to call.
BindsCompleted(p) ==
  /\ \/ proc[p].kind = "decision" /\ Stands(p, "completing")
     \/ proc[p].kind = "business" /\ Stands(p, "turn") /\ Mine(p).calls = Tools
  /\ Over(p) /\ Holds(p)
  /\ Moves(p, [Mine(p) EXCEPT !.state = "completed"], "commit")

\* commitReceiverDecision
CommitsDecision(p) ==
  /\ Stands(p, "commit") /\ proc[p].kind = "decision"
  /\ handler = "claimed" /\ decision = NoChoice
  /\ decision' = proc[p].choice
  /\ Goes(p, "retire")
  /\ UNCHANGED <<execution, admission, handler, files, world>>

\* confirmContextAdmissionFromTurn
ConfirmsAdmission(p) ==
  /\ Stands(p, "commit") /\ proc[p].kind = "business"
  /\ admission = "in-flight"
  /\ admission' = "completed"
  /\ Goes(p, "retire")
  /\ UNCHANGED <<execution, decision, handler, files, world>>

\* retireM52LiveTurnJournal
RetiresJournal(p) ==
  LET k == proc[p].kind IN
  /\ Stands(p, "retire")
  /\ journal[k] = proc[p].base /\ journal[k] # NoBase
  /\ journal' = [journal EXCEPT ![k] = NoBase]
  /\ Goes(p, IF k = "decision" THEN "retire-action" ELSE "handler")
  /\ UNCHANGED <<tables, action, world>>

\* retireM52DecisionAction
RetiresAction(p) ==
  /\ Stands(p, "retire-action")
  /\ action.state = "call-completed" /\ action.turn = proc[p].turn
  /\ action' = NoAction
  /\ Goes(p, "decided")
  /\ UNCHANGED <<tables, journal, world>>

(***************************************************************************)
(* What an earlier process left behind.                                    *)
(***************************************************************************)
\* Mutant: the action file alone is believed.
Recoverable_ByFile(t) == action.state = "call-completed" /\ action.turn = t

\* recoverCompletedDecision: the call that is on disk as completed is believed
\* only if the coordinator has committed that decision.
Recoverable(t) ==
  /\ action.state = "call-completed" /\ action.turn = t
  /\ decision # NoChoice /\ decision = action.choice

\* The journal is retired already.
RecoversFromAction(p) ==
  /\ Stands(p, "enter") /\ proc[p].kind = "decision"
  /\ journal["decision"] = NoBase /\ action # NoAction
  /\ Recoverable(action.turn)
  /\ proc' = [proc EXCEPT ![p].at = "retire-action", ![p].turn = action.turn,
                          ![p].choice = action.choice]
  /\ UNCHANGED <<tables, files, world>>

\* The journal is there, and the thread shows the one turn of this execution
\* completed; everything else fails.
RecoversFromJournal(p) ==
  LET base == journal["decision"] IN
  /\ Stands(p, "enter") /\ proc[p].kind = "decision"
  /\ base # NoBase
  /\ \E t \in Native :
       /\ ObservedCompleted("decision", base, t)
       /\ Recoverable(t)
       /\ proc' = [proc EXCEPT ![p].at = "retire", ![p].turn = t, ![p].base = base,
                               ![p].choice = action.choice]
  /\ UNCHANGED <<tables, files, world>>

(***************************************************************************)
(* From the decision to the handler.                                       *)
(***************************************************************************)
\* prepareContextAdmission, or the admission that is there already; then the
\* business execution, created or found.
Prepares(p) ==
  /\ Stands(p, "decided") /\ decision = Accepted
  /\ admission' = IF admission = "absent" THEN "in-flight" ELSE admission
  /\ Goes(p, "prepared")
  /\ UNCHANGED <<execution, decision, handler, files, world>>

\* A completed admission is confirmed again, and the turn skipped.
EntersBusiness(p) ==
  /\ Stands(p, "prepared")
  /\ IF admission = "completed"
     THEN /\ execution["business"].state = "completed"
          /\ proc' = [proc EXCEPT ![p] = [Idle EXCEPT !.at = "handler", !.kind = "business"]]
          /\ UNCHANGED execution
     ELSE /\ execution' = Created("business")
          /\ proc' = [proc EXCEPT ![p] =
               [Idle EXCEPT !.at = "enter", !.kind = "business",
                            !.rev = execution["business"].rev]]
  /\ UNCHANGED <<decision, admission, handler, files, world>>

SkipsBusiness(p) ==
  /\ Stands(p, "decided") /\ decision # Accepted
  /\ proc' = [proc EXCEPT ![p] = [Idle EXCEPT !.at = "handler"]]
  /\ UNCHANGED <<tables, files, world>>

\* bindCompletedAttentionHandler, with the execution of the last turn.
BindsHandler(p) ==
  /\ Stands(p, "handler")
  /\ Mine(p).state = "completed"
  /\ (admission = "completed") => (proc[p].kind = "business")
  /\ handler' = "completed-bound"
  /\ proc' = [proc EXCEPT ![p] = Idle]
  /\ UNCHANGED <<execution, decision, admission, files, world>>

Step(p) ==
  \/ Activates(p) \/ TakesBaseline(p) \/ Journals(p) \/ Marks(p)
  \/ StartsNative(p) \/ BindsStarted(p)
  \/ (\E c \in Choice : StagesDecision(p, c)) \/ CompletesDecision(p)
  \/ RecordsCall(p) \/ RunsBusinessTool(p) \/ CompletesCall(p)
  \/ BindsCompleted(p) \/ CommitsDecision(p) \/ ConfirmsAdmission(p)
  \/ RetiresJournal(p) \/ RetiresAction(p)
  \/ RecoversFromAction(p) \/ RecoversFromJournal(p)
  \/ Prepares(p) \/ EntersBusiness(p) \/ SkipsBusiness(p) \/ BindsHandler(p)

LiveNext == (\E p \in Process : Step(p) \/ Fails(p) \/ FailsBeforeStart(p)) \/ NativeEnds

LiveSpec == LiveInit /\ [][LiveNext]_live_vars

(***************************************************************************)
(* Properties.                                                             *)
(***************************************************************************)
\* The variables have their types.
LiveTypeOK ==
  /\ execution \in [Kind -> ExecutionType]
  /\ decision \in Choice \cup {NoChoice}
  /\ admission \in {"absent", "in-flight", "completed"}
  /\ handler \in {"claimed", "completed-bound"}
  /\ journal \in [Kind -> (SUBSET Native) \cup {NoBase}]
  /\ action \in ActionType
  /\ thread \in [Native -> ThreadType]
  /\ effect \subseteq [turn : Native, position : 1..Tools]
  /\ proc \in [Process -> ProcType]

\* Only the turn that the execution is bound to acts: whatever other turns a
\* second owner started, they reach no tool and no decision.
OnlyTheBoundTurnActs ==
  /\ \A e \in effect : e.turn = execution["business"].turn
  /\ (decision # NoChoice) => execution["decision"].state = "completed"

\* A journal is retired only when what it protects is committed: from the start
\* of a native turn on, its journal is there or its outcome in the tables.
JournalGuardsTurn ==
  \A t \in Turns :
    \/ journal[thread[t].kind] # NoBase
    \/ thread[t].kind = "decision" /\ decision # NoChoice
    \/ thread[t].kind = "business" /\ admission = "completed"

\* The journals and the rows they stand for.
JournalsKept == LiveTypeOK /\ JournalGuardsTurn

\* The mapping of the activation's promise: decision, tools run, handler bound.
Promise == INSTANCE Activation WITH
  choice <- decision, ran <- Cardinality(effect), bound <- (handler = "completed-bound")

\* The activation keeps its promise, with processes failing anywhere.
ImplementsActivation == Promise!ActivationSpec

(***************************************************************************)
(* What the repository says, and the code does not do.                      *)
(***************************************************************************)

\* The native runtime is asked for one turn of each kind, however often the
\* activation is tried.
OneNativeTurn ==
  \A k \in Kind : Cardinality({t \in Turns : thread[t].kind = k}) <= 1

\* A known failure before the native start of an admitted turn leaves no journal
\* behind, so that the turn can be tried again.
PreStartFailureRetires ==
  \A p \in Process :
    Stands(p, "threw") /\ proc[p].kind = "business" => journal["business"] = NoBase
=============================================================================
