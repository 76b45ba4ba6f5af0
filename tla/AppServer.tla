------------------------------ MODULE AppServer ------------------------------
(***************************************************************************)
(* One operation of the Codex adapter, src/adapters/codex-app-server.mjs:   *)
(* it spawns a `codex app-server` child, speaks JSON lines with it, asks it *)
(* for one thing or runs one native turn in a new or a resumed thread,      *)
(* serves the tool calls of that turn, and races all of it against a timer. *)
(*                                                                         *)
(* Nothing stops the operation that lost the race: its callbacks, and those *)
(* of the tools, run on in the same process, against a peer that is closed. *)
(* The child may exit at any time; only requests and waiters that exist at  *)
(* that moment hear of it.  What JavaScript runs between two events (the    *)
(* continuations of settled promises) belongs to the step of the event.     *)
(***************************************************************************)
EXTENDS Naturals, Sequences, SequencesExt, FiniteSets

CONSTANTS
  Kinds,      \* operations of the adapter that are run
  Call,       \* tool calls the turn may make
  Budget,     \* tool calls a turn may complete (4 in the code)
  Faults,     \* what may go wrong: see Fault
  Calm        \* the operations around which nothing does, not even the timer

Fault == {"exit", "timeout", "boundary", "remote", "tool", "protocol"}

\* Operations that run a turn, and those that ask one thing and return.
OfTurn == {"run", "start", "create", "suggest", "accept", "validate"}
OfRequest == {"probe", "new", "resume", "delete", "absent"}

ASSUME AppServerAssumption ==
  /\ Kinds \subseteq OfTurn \cup OfRequest /\ Calm \subseteq Kinds
  /\ IsFiniteSet(Call) /\ Budget \in Nat \ {0}
  /\ Faults \subseteq Fault

\* Those that begin a thread, those that serve tool calls, those with callbacks
\* around the start of the turn.
NewThread == {"start", "create", "accept", "validate"}
WithTools == {"run", "start"}
WithBoundary == {"run", "start", "suggest"}

VARIABLES
  kind,     \* the operation
  server,   \* the child: is it alive, what is it asked, its turn
  inbox,    \* lines it wrote and nobody read
  peer,     \* the connection: closed, failed, still reading; what it noted
  op,       \* the operation: where it is, whether it read the thread's id
  gate,     \* the gate of the tool calls, and the calls waiting at it
  call,     \* each tool call
  ordinal,  \* the next call's number
  caller,   \* what the caller of the operation knows
  runner    \* the process that runs all this

app_vars == <<kind, server, inbox, peer, op, gate, call, ordinal, caller, runner>>

Request == {"initialize", "thread", "turn"}

AppTypeOK ==
  /\ kind \in Kinds
  /\ server \in [alive : BOOLEAN, asked : Request \cup {"none"},
                 turn : {"none", "running", "completed", "failed"}]
  /\ \A i \in 1..Len(inbox) : inbox[i] \in [is : {"reply", "error", "note", "call"},
                                           of : Request \cup {"completed", "failed"} \cup Call]
  /\ peer \in [closed : BOOLEAN, failed : BOOLEAN, reading : BOOLEAN,
               noted : SUBSET {"completed", "failed"}]
  /\ op \in [at : Request \cup {"before", "bind", "look", "wait", "over"}, thread : BOOLEAN]
  /\ gate.at \in {"open", "bound", "rejected"} /\ Range(gate.queue) \subseteq Call
  /\ call \in [Call -> [at : {"none", "sent", "gated", "admitted", "acted", "over"},
                        ord : 0..Cardinality(Call), effect : BOOLEAN, listed : BOOLEAN,
                        told : {"no", "ok", "error"}]]
  /\ ordinal \in 0..Cardinality(Call)
  /\ caller \in [is : {"waiting", "returned", "failed"}, ref : BOOLEAN]
  /\ runner \in {"up", "crashed"}

Uncalled == [at |-> "none", ord |-> 0, effect |-> FALSE, listed |-> FALSE, told |-> "no"]

\* #withServer: the child is spawned and the first request is on its way.
AppInit ==
  /\ kind \in Kinds
  /\ server = [alive |-> TRUE, asked |-> "initialize", turn |-> "none"]
  /\ inbox = <<>>
  /\ peer = [closed |-> FALSE, failed |-> FALSE, reading |-> TRUE, noted |-> {}]
  /\ op = [at |-> "initialize", thread |-> FALSE]
  /\ gate = [at |-> "open", queue |-> <<>>]
  /\ call = [c \in Call |-> Uncalled]
  /\ ordinal = 0
  /\ caller = [is |-> "waiting", ref |-> FALSE]
  /\ runner = "up"

Up == runner = "up"

May(fault) == fault \in Faults /\ kind \notin Calm

\* What #send asks before it writes; without it, it throws.
PeerOpen == ~ peer.closed /\ ~ peer.failed

(***************************************************************************)
(* The child.                                                              *)
(***************************************************************************)
Writes(what, which) == inbox' = Append(inbox, [is |-> what, of |-> which])

\* It answers what it was asked; a turn/start also starts the turn, whose end may
\* be written before the answer.
ServerAnswers ==
  /\ server.alive /\ server.asked # "none"
  /\ server.asked = "turn" => server.turn # "none"
  /\ Writes("reply", server.asked)
  /\ server' = [server EXCEPT !.asked = "none"]
  /\ UNCHANGED <<kind, peer, op, gate, call, ordinal, caller, runner>>

ServerRefuses ==
  /\ May("remote")
  /\ server.alive /\ server.asked # "none" /\ server.turn = "none"
  /\ Writes("error", server.asked)
  /\ server' = [server EXCEPT !.asked = "none"]
  /\ UNCHANGED <<kind, peer, op, gate, call, ordinal, caller, runner>>

ServerStartsTurn ==
  /\ server.alive /\ server.asked = "turn" /\ server.turn = "none"
  /\ server' = [server EXCEPT !.turn = "running"]
  /\ UNCHANGED <<kind, inbox, peer, op, gate, call, ordinal, caller, runner>>

ServerCalls(c) ==
  /\ server.alive /\ server.turn = "running"
  /\ call[c].at = "none"
  /\ call' = [call EXCEPT ![c].at = "sent"]
  /\ Writes("call", c)
  /\ UNCHANGED <<kind, server, peer, op, gate, ordinal, caller, runner>>

\* A turn completes when its calls are answered; it may fail or be interrupted
\* with a call outstanding.
ServerEnds(outcome) ==
  /\ server.alive /\ server.turn = "running"
  /\ \/ outcome = "completed" /\ \A c \in Call : call[c].at = "none" \/ call[c].told # "no"
     \/ outcome = "failed" /\ May("remote")
  /\ server' = [server EXCEPT !.turn = outcome]
  /\ Writes("note", outcome)
  /\ UNCHANGED <<kind, peer, op, gate, call, ordinal, caller, runner>>

(***************************************************************************)
(* How the operation ends, and what the caller gets.  The reference to a    *)
(* thread that was begun comes with the result, and with the errors the     *)
(* operation itself throws; where the outer catch has it too it also comes  *)
(* with the timer's.                                                       *)
(***************************************************************************)

KnowsThread(k, thread) == \/ k \notin NewThread
                          \/ k \in {"start", "validate"} /\ thread

\* The finally of #withServer: the connection is closed whatever happened.
Gets(outcome, ref) ==
  /\ caller' = IF caller.is = "waiting" THEN [is |-> outcome, ref |-> ref] ELSE caller
  /\ peer' = [peer EXCEPT !.closed = TRUE, !.reading = FALSE]

\* A call that is refused is answered with an error, through #send; where that
\* throws nobody handles the rejection, and the process ends.
Refuses(cs, open) ==
  /\ call' = [c \in Call |->
       IF c \in cs THEN [call[c] EXCEPT !.at = "over", !.told = IF open THEN "error" ELSE "no"]
                   ELSE call[c]]
  /\ runner' = IF open \/ cs = {} THEN runner ELSE "crashed"

\* An error out of the operation: the gate closes on the calls that wait at it.
OpThrows(open) ==
  /\ op' = [op EXCEPT !.at = "over"]
  /\ gate' = [at |-> IF gate.at = "open" THEN "rejected" ELSE gate.at, queue |-> <<>>]
  /\ Refuses(Range(gate.queue), open)
  /\ Gets("failed", op.thread)
  /\ UNCHANGED <<server, inbox, ordinal>>

\* The calls of the turn that were completed are numbered without a gap.
CallsInOrder ==
  LET listed == {c \in Call : call[c].listed}
  IN {call[c].ord : c \in listed} = 0..(Cardinality(listed) - 1)

\* Mutant: the operation returns whatever calls were completed.
TurnEnds_Unchecked(outcome) ==
  IF outcome = "completed"
  THEN /\ op' = [op EXCEPT !.at = "over"] /\ Gets("returned", TRUE)
       /\ UNCHANGED <<server, inbox, gate, call, ordinal, runner>>
  ELSE OpThrows(PeerOpen)

TurnEnds(outcome) ==
  IF outcome = "completed" /\ CallsInOrder
  THEN /\ op' = [op EXCEPT !.at = "over"] /\ Gets("returned", TRUE)
       /\ UNCHANGED <<server, inbox, gate, call, ordinal, runner>>
  ELSE OpThrows(PeerOpen)

(***************************************************************************)
(* The lines the child wrote, one at a time.                               *)
(***************************************************************************)
Reads(what) == Up /\ peer.reading /\ inbox # <<>> /\ inbox[1].is = what

\* The request that comes next, at the place where its answer is awaited.
Asks(request, known) ==
  /\ op' = [at |-> request, thread |-> known]
  /\ server' = [server EXCEPT !.asked = IF server.alive THEN request ELSE "none"]

\* Mutant: request() does not look at the connection.
AsksIfOpen_Always ==
  /\ Asks("turn", op.thread)
  /\ UNCHANGED <<inbox, peer, gate, call, ordinal, caller, runner>>

\* request(): it throws on a connection that is closed or failed.
AsksIfOpen ==
  IF PeerOpen
  THEN Asks("turn", op.thread) /\ UNCHANGED <<inbox, peer, gate, call, ordinal, caller, runner>>
  ELSE OpThrows(PeerOpen)

\* waitForNotification: a notification that came early is remembered.
Remembered == IF "completed" \in peer.noted THEN "completed" ELSE "failed"

\* The request whose answer is the operation's result, where it is not a turn's end.
LastRequest ==
  IF kind = "probe" THEN "initialize" ELSE IF kind \in OfRequest THEN "thread" ELSE "none"

ReadsReply ==
  /\ Reads("reply") /\ inbox[1].of = op.at
  /\ inbox' = Tail(inbox)
  /\ IF op.at = LastRequest
     THEN /\ op' = [op EXCEPT !.at = "over"] /\ Gets("returned", TRUE)
          /\ UNCHANGED server
     ELSE /\ CASE op.at = "initialize" -> Asks("thread", FALSE)
               [] op.at = "thread" -> IF kind \in WithBoundary
                                      THEN op' = [at |-> "before", thread |-> TRUE] /\ UNCHANGED server
                                      ELSE Asks("turn", TRUE)
               [] op.at = "turn" ->
                    /\ op' = [op EXCEPT !.at = IF kind \in WithBoundary THEN "bind"
                                              ELSE IF peer.noted # {} THEN "look" ELSE "wait"]
                    /\ UNCHANGED server
          /\ UNCHANGED <<peer, caller>>
  /\ UNCHANGED <<kind, gate, call, ordinal, runner>>

\* confirmThreadAbsent takes the error that says there is no such thread for its answer.
AnswersByError == kind = "absent" /\ op.at = "thread"

ReadsError ==
  /\ Reads("error") /\ inbox[1].of = op.at
  /\ inbox' = Tail(inbox)
  /\ op' = [op EXCEPT !.at = "over"]
  /\ gate' = [gate EXCEPT !.at = "rejected"]
  /\ \/ Gets("failed", op.thread)
     \/ AnswersByError /\ Gets("returned", TRUE)
  /\ UNCHANGED <<kind, server, call, ordinal, runner>>

\* The end of the turn, whoever waits for it.
ReadsNote ==
  /\ Reads("note")
  /\ inbox' = Tail(inbox)
  /\ peer' = [peer EXCEPT !.noted = @ \cup {inbox[1].of}]
  /\ op' = IF op.at = "wait" THEN [op EXCEPT !.at = "look"] ELSE op
  /\ UNCHANGED <<kind, server, gate, call, ordinal, caller, runner>>

\* A call that is let in gets its number; calls that were completed are counted.
Admits(c) ==
  IF Cardinality({d \in Call : call[d].listed}) >= Budget
  THEN Refuses({c}, PeerOpen) /\ UNCHANGED ordinal
  ELSE /\ call' = [call EXCEPT ![c].at = "admitted", ![c].ord = ordinal]
       /\ ordinal' = ordinal + 1
       /\ UNCHANGED runner

\* A call: without a handler it is denied, before the turn is bound it waits.
ReadsCall(c) ==
  /\ Reads("call") /\ inbox[1].of = c
  /\ inbox' = Tail(inbox)
  /\ IF kind \notin WithTools
     THEN Refuses({c}, PeerOpen) /\ UNCHANGED <<gate, ordinal>>
     ELSE IF gate.at = "open"
     THEN /\ gate' = [gate EXCEPT !.queue = Append(@, c)]
          /\ call' = [call EXCEPT ![c].at = "gated"]
          /\ UNCHANGED <<ordinal, runner>>
     ELSE Admits(c) /\ UNCHANGED gate
  /\ UNCHANGED <<kind, server, peer, op, caller>>

(***************************************************************************)
(* The callbacks: around the start of the turn, and of the tools.          *)
(***************************************************************************)
BeforeTurnStart ==
  /\ Up /\ op.at = "before"
  /\ AsksIfOpen
  /\ UNCHANGED kind

\* onTurnStarted committed the turn's id: the gate opens on those who wait, in
\* their order, and the operation goes for the end of the turn.
OnTurnStarted ==
  /\ Up /\ op.at = "bind"
  /\ gate' = [at |-> "bound", queue |-> <<>>]
  /\ call' = [c \in Call |->
       IF c \in Range(gate.queue)
       THEN [call[c] EXCEPT !.at = "admitted",
                            !.ord = CHOOSE n \in 0..(Len(gate.queue) - 1) : gate.queue[n + 1] = c]
       ELSE call[c]]
  /\ ordinal' = Len(gate.queue)
  /\ op' = [op EXCEPT !.at = IF peer.noted # {} \/ peer.failed THEN "look" ELSE "wait"]
  /\ UNCHANGED <<kind, server, inbox, peer, caller, runner>>

BoundaryFails ==
  /\ May("boundary")
  /\ Up /\ op.at \in {"before", "bind"}
  /\ OpThrows(PeerOpen)
  /\ UNCHANGED kind

\* The wait is over, or never begins.
Looks ==
  /\ Up /\ op.at = "look"
  /\ IF peer.noted # {} THEN TurnEnds(Remembered) ELSE OpThrows(FALSE)
  /\ UNCHANGED kind

\* beforeToolCall, then onToolCall.
OnToolCall(c) ==
  /\ Up /\ call[c].at = "admitted"
  /\ call' = [call EXCEPT ![c].at = "acted", ![c].effect = TRUE]
  /\ UNCHANGED <<kind, server, inbox, peer, op, gate, ordinal, caller, runner>>

\* Either may fail, or afterToolCall; the number is used up.
ToolFails(c) ==
  /\ May("tool")
  /\ Up /\ call[c].at \in {"admitted", "acted"}
  /\ Refuses({c}, PeerOpen)
  /\ UNCHANGED <<kind, server, inbox, peer, op, gate, ordinal, caller>>

\* afterToolCall; the call is listed, then answered.
AfterToolCall(c) ==
  /\ Up /\ call[c].at = "acted"
  /\ call' = [call EXCEPT ![c].at = "over", ![c].listed = TRUE,
                          ![c].told = IF PeerOpen THEN "ok" ELSE "no"]
  /\ runner' = IF PeerOpen THEN runner ELSE "crashed"
  /\ UNCHANGED <<kind, server, inbox, peer, op, gate, ordinal, caller>>

(***************************************************************************)
(* What goes wrong around the operation.                                   *)
(***************************************************************************)
\* Those who wait for an answer, or for the end of the turn.
Awaiting == op.at \in Request \cup {"wait"}

\* The child exits: whoever waits is told, and the connection is closed.
ServerExits ==
  /\ May("exit")
  /\ Up /\ server.alive /\ caller.is = "waiting"
  /\ IF Awaiting
     THEN /\ op' = [op EXCEPT !.at = "over"]
          /\ gate' = [at |-> IF gate.at = "open" THEN "rejected" ELSE gate.at, queue |-> <<>>]
          /\ Refuses(Range(gate.queue), FALSE)
          /\ Gets("failed", op.thread)
     ELSE /\ peer' = [peer EXCEPT !.closed = TRUE]
          /\ UNCHANGED <<op, gate, call, caller, runner>>
  /\ server' = [server EXCEPT !.alive = FALSE, !.asked = "none"]
  /\ UNCHANGED <<kind, inbox, ordinal>>

\* A line that is no message, or one too many: the connection has failed.
PeerFails ==
  /\ May("protocol")
  /\ Up /\ peer.reading /\ server.alive /\ ~ peer.failed
  /\ IF Awaiting
     THEN /\ op' = [op EXCEPT !.at = "over"]
          /\ gate' = [at |-> IF gate.at = "open" THEN "rejected" ELSE gate.at, queue |-> <<>>]
          /\ Refuses(Range(gate.queue), FALSE)
          /\ caller' = [is |-> "failed", ref |-> op.thread]
          /\ peer' = [peer EXCEPT !.closed = TRUE, !.reading = FALSE, !.failed = TRUE]
     ELSE /\ peer' = [peer EXCEPT !.failed = TRUE]
          /\ UNCHANGED <<op, gate, call, caller, runner>>
  /\ UNCHANGED <<kind, server, inbox, ordinal>>

\* Mutant: the timer is cleared with the answer to turn/start.
Timer_TurnOnly ==
  /\ May("timeout")
  /\ Up /\ caller.is = "waiting" /\ op.at # "wait"
  /\ Gets("failed", KnowsThread(kind, op.thread))
  /\ UNCHANGED <<kind, server, inbox, op, gate, call, ordinal, runner>>

\* The timer wins the race; the operation stays where it is.
Timer ==
  /\ May("timeout")
  /\ Up /\ caller.is = "waiting"
  /\ Gets("failed", KnowsThread(kind, op.thread))
  /\ UNCHANGED <<kind, server, inbox, op, gate, call, ordinal, runner>>

\* SIGTERM, SIGKILL: the child does not outlive the operation by much.
Reaps ==
  /\ Up /\ caller.is # "waiting" /\ server.alive
  /\ server' = [server EXCEPT !.alive = FALSE, !.asked = "none"]
  /\ UNCHANGED <<kind, inbox, peer, op, gate, call, ordinal, caller, runner>>

Adapter == \/ ReadsReply \/ ReadsError \/ ReadsNote
           \/ BeforeTurnStart \/ OnTurnStarted \/ Looks
           \/ \E c \in Call : ReadsCall(c) \/ OnToolCall(c) \/ AfterToolCall(c)

Child == \/ ServerAnswers \/ ServerRefuses \/ ServerStartsTurn
         \/ \E c \in Call : ServerCalls(c)
         \/ \E outcome \in {"completed", "failed"} : ServerEnds(outcome)

AppNext ==
  \/ Adapter
  \/ Child
  \/ BoundaryFails \/ ServerExits \/ PeerFails \/ Timer \/ Reaps
  \/ \E c \in Call : ToolFails(c)

AppSpec == AppInit /\ [][AppNext]_app_vars

\* Node runs what is ready: lines that were read, callbacks that returned, timers
\* that ran out, the kill of the child.
AppFairSpec == AppSpec /\ WF_app_vars(Adapter) /\ WF_app_vars(Timer) /\ WF_app_vars(Reaps)

\* A child that answers what it is asked.
AppAnsweredSpec == AppFairSpec /\ WF_app_vars(kind \in Calm /\ ServerAnswers)

(***************************************************************************)
(* Properties.                                                             *)
(***************************************************************************)
\* A tool acts only for a turn whose id was committed by onTurnStarted: a call that
\* came earlier waits at the gate, and goes nowhere when the binding fails.
ActsWhenBound == \A c \in Call : call[c].effect => gate.at = "bound"

\* The list of calls a returned turn comes with has every call the model was told
\* of, and leaves no call out of the middle: whoever numbers them from the list
\* numbers them as they were let in.
ReturnedListsCalls ==
  caller.is = "returned" =>
    \A c \in Call :
      /\ call[c].told = "ok" => call[c].listed
      /\ call[c].listed => \A d \in Call : call[d].at # "none" /\ call[d].ord < call[c].ord
                                           /\ call[d].effect => call[d].listed

\* The calls of a turn are accounted for: both of the above.
CallsAccounted == AppTypeOK /\ ActsWhenBound /\ ReturnedListsCalls

\* An operation whose caller was told of its end starts no turn: beforeTurnStart may
\* return after the timer, to a connection that is closed.
NoTurnAfterwards ==
  [][caller.is # "waiting" /\ server.asked # "turn" => server'.asked # "turn"]_app_vars

\* Whatever hangs (a callback, a child that exited while nobody was waiting for it),
\* the caller is told and the child is gone.
OperationSettles ==
  kind \notin Calm ~> (runner = "crashed" \/ (caller.is # "waiting" /\ ~ server.alive))

\* A turn that completed is returned as completed, also when the child told of it
\* before the turn was bound, or before its start was answered.
CompletedIsReturned == (kind \in Calm /\ server.turn = "completed") ~> (caller.is = "returned")

\* Every operation comes to its end: both of the above.
OperationEnds == OperationSettles /\ CompletedIsReturned

(***************************************************************************)
(* What the repository says, and the code does not do.                      *)
(***************************************************************************)

\* An error an operation ends with carries the thread it began and knows, also when
\* it is the timer's.
RefKept == caller.is = "failed" /\ op.thread => caller.ref

\* The process outlives every operation it runs, to clean up after it.
RunnerSurvives == runner = "up"

\* A turn does not act on more calls than the budget.
WithinBudget == Cardinality({c \in Call : call[c].effect}) <= Budget
=============================================================================
