------------------------------ MODULE EventPump ------------------------------
(***************************************************************************)
(* The autonomous event pump of src/activation/autonomous-event-pump.mjs    *)
(* over the tables event_pump_dispatches and attention_receiver_cursors of  *)
(* src/coordinator/sqlite-coordinator.mjs.                                 *)
(*                                                                         *)
(* Several pumps of the same identity work through the messages received    *)
(* for their receivers.  Each call of the coordinator is one transaction    *)
(* and hence one action; between two calls another pump, the passing of     *)
(* time or a crash may come in.  A pump whose step is refused gives up its  *)
(* round (the exception leaves drainOnce) and starts over when it is        *)
(* drained again.                                                          *)
(*                                                                         *)
(* A handler's claim is named after its event, so a message has one.  A     *)
(* model turn is its journal, written before the turn is started and        *)
(* retired when the turn is bound: a journal without an outcome is never    *)
(* started again.                                                          *)
(***************************************************************************)
EXTENDS Naturals, Sequences, FiniteSets

CONSTANTS
  Owner,        \* the pumps
  PumpReceiver, PumpMessage, ReceiverOf,
  Subscribed,   \* the messages of a type the receiver's route is for
  Pinned,       \* the messages fresh only while the receiver's runtime is what it was
  Perishable,   \* the messages that may expire here
  CallbackOf,   \* what onLifecyclePublication of a message's route does
  Revocable,    \* the messages whose grant may be revoked here
  Drained,      \* the receivers whose host skips what handling left in the log
  CrashAt,      \* where a pump may crash
  MaxCrash,     \* bound on the crashes
  MaxEpoch,     \* bound on the leases of a dispatch
  MaxMove,      \* bounds on the changes of each receiver's runtime
  NoOwner, NoMessage

ASSUME PumpAssumption ==
  /\ ReceiverOf \in [PumpMessage -> PumpReceiver]
  /\ Subscribed \subseteq PumpMessage /\ Pinned \subseteq PumpMessage
  /\ Perishable \subseteq PumpMessage /\ Revocable \subseteq PumpMessage
  /\ Drained \subseteq PumpReceiver
  /\ CallbackOf \in [PumpMessage -> {"promotes", "finalizes", "defers"}]
  /\ NoOwner \notin Owner /\ NoMessage \notin PumpMessage
  /\ MaxMove \in [PumpReceiver -> Nat] /\ MaxCrash \in Nat /\ MaxEpoch \in Nat \ {0}

VARIABLES
  audit,       \* audit_events: what was received, and what handling it left
  position,    \* committed_cursor of each receiver
  handler,   \* the attention claim of each message's event
  turn,      \* the model turn of each message
  withdrawn, \* messages whose grant was revoked, or ran out
  expired,   \* messages whose time ran out
  moves,     \* the revisions of each receiver's task metadata
  row,       \* table event_pump_dispatches
  pump,      \* the round each pump is in
  crashes

route_vars == <<withdrawn, expired, moves>>
world_vars == <<audit, withdrawn, expired, moves, crashes>>
handler_vars == <<position, handler, turn>>
pump_vars == <<audit, position, handler, turn, withdrawn, expired, moves, row, pump, crashes>>

\* What evaluateAttentionRoute says of a message.
Outcome == {"ignored", "expired", "stale", "offered"}

Place ==
  {"idle", "picked", "evaluated", "selected", "starting", "turn", "bound", "settled",
   "callback", "committed", "skip", "skipped", "recover", "recover-active",
   "recover-committed", "reread", "replay"}

Idle ==
  [at |-> "idle", on |-> NoMessage, epoch |-> 0, route |-> "none", seen |-> <<FALSE, 0>>]

NoDispatch ==
  [state |-> "none", route |-> "none", by |-> NoOwner, epoch |-> 0, live |-> FALSE,
   pubBy |-> NoOwner, pubEpoch |-> 0, pubLive |-> FALSE]

PumpInit ==
  /\ audit = <<>>
  /\ position = [r \in PumpReceiver |-> 0]
  /\ handler = [m \in PumpMessage |-> "none"]
  /\ turn = [m \in PumpMessage |-> "none"]
  /\ withdrawn = {} /\ expired = {}
  /\ moves = [r \in PumpReceiver |-> 0]
  /\ row = [m \in PumpMessage |-> NoDispatch]
  /\ pump = [o \in Owner |-> Idle]
  /\ crashes = 0

(***************************************************************************)
(* What the coordinator tells.                                             *)
(***************************************************************************)
WasReceived(m) == \E n \in DOMAIN audit : audit[n] = <<m, "received">>

EventOf(m) == CHOOSE n \in DOMAIN audit : audit[n] = <<m, "received">>

Past(m) == WasReceived(m) /\ EventOf(m) <= position[ReceiverOf[m]]

\* The events of a receiver's messages after its cursor, whatever their type.
Ahead(r) == {n \in DOMAIN audit : ReceiverOf[audit[n][1]] = r /\ n > position[r]}

\* Mutant: an event the cursor has passed is not refused.
IsNext_Passed(m) == WasReceived(m) /\ \A n \in Ahead(ReceiverOf[m]) : EventOf(m) <= n

\* #assertNextAttentionEvent
IsNext(m) ==
  /\ WasReceived(m) /\ ~Past(m)
  /\ \A n \in Ahead(ReceiverOf[m]) : EventOf(m) <= n

Active(r) == {m \in PumpMessage : ReceiverOf[m] = r /\ handler[m] \in {"claimed", "completed-bound"}}

\* readAttentionEvents, with a limit of one: received messages only.
HeadEvent(m) ==
  /\ WasReceived(m) /\ ~Past(m)
  /\ \A o \in PumpMessage :
       WasReceived(o) /\ ~Past(o) /\ ReceiverOf[o] = ReceiverOf[m] => EventOf(m) <= EventOf(o)

\* getEventPumpRouteAuthority
Authority(m) == IsNext(m) /\ m \notin withdrawn

\* The runtime is one of two: each change leaves the one for the other.
RuntimeOf(r) == moves[r] % 2

\* What else the digest of the authority covers: the cursor with its claim, and the
\* receiver's runtime.  The clock is not in it.
Snapshot(m) == <<handler[m] # "none", RuntimeOf(ReceiverOf[m])>>

\* evaluateAttentionRoute, by the clock and by the runtime as it is now; that the
\* policy allows the message was found out with the authority.
RouteOf(m) ==
  IF m \notin Subscribed THEN "ignored"
  ELSE IF m \in expired THEN "expired"
  ELSE IF m \in Pinned /\ RuntimeOf(ReceiverOf[m]) # 0 THEN "stale"
  ELSE "offered"

\* The executions of a receiver are bound to the revision of its task, and its
\* decision is asked for at revision zero.
Moved(m) == moves[ReceiverOf[m]] > 0

\* listPendingEventPumpPublications, of all receivers
Pending == {m \in PumpMessage : row[m].state \in {"completed-bound", "publishing"}}

\* A settled head whose promotion is left to others.
Blocked(m) ==
  \/ row[m].state = "published"
  \/ row[m].state = "none" /\ handler[m] = "completed-bound"

Earliest(m, ms) == m \in ms /\ \A o \in ms : EventOf(m) <= EventOf(o)

\* Mutant: publications that were begun are not looked for.
Candidate_HeadsOnly(m) == Earliest(m, {o \in PumpMessage : HeadEvent(o) /\ ~Blocked(o)})

\* #nextCandidate
Candidate(m) ==
  IF Pending # {} THEN Earliest(m, Pending)
  ELSE Earliest(m, {o \in PumpMessage : HeadEvent(o) /\ ~Blocked(o)})

(***************************************************************************)
(* The surroundings.                                                       *)
(***************************************************************************)
Receive(m) ==
  /\ ~WasReceived(m)
  /\ audit' = Append(audit, <<m, "received">>)
  /\ UNCHANGED <<handler_vars, route_vars, row, pump, crashes>>

Withdraw(m) ==
  /\ m \in Revocable \ withdrawn
  /\ withdrawn' = withdrawn \cup {m}
  /\ UNCHANGED <<audit, handler_vars, expired, moves, row, pump, crashes>>

Expires(m) ==
  /\ m \in Perishable \ expired /\ WasReceived(m)
  /\ expired' = expired \cup {m}
  /\ UNCHANGED <<audit, handler_vars, withdrawn, moves, row, pump, crashes>>

\* updateTaskRuntime
RuntimeMoves(r) ==
  /\ moves[r] < MaxMove[r]
  /\ moves' = [moves EXCEPT ![r] = @ + 1]
  /\ UNCHANGED <<audit, handler_vars, withdrawn, expired, row, pump, crashes>>

\* Nobody renews a lease: it runs out however busy its owner is.
LeaseExpires(m) ==
  /\ row[m].state = "selected" /\ row[m].live /\ row[m].epoch < MaxEpoch
  /\ row' = [row EXCEPT ![m].live = FALSE]
  /\ UNCHANGED <<world_vars, handler_vars, pump>>

PublicationLeaseExpires(m) ==
  /\ row[m].state = "publishing" /\ row[m].pubLive /\ row[m].pubEpoch < MaxEpoch
  /\ row' = [row EXCEPT ![m].pubLive = FALSE]
  /\ UNCHANGED <<world_vars, handler_vars, pump>>

\* promoteAttentionHandler and commitFinalizedDependencyAttentionHandler: of the
\* two, only the first is about an execution that was promoted itself.
Commits(m) ==
  IF handler[m] # "completed-bound" THEN UNCHANGED <<handler, turn, position>>
  ELSE
    /\ handler' = [handler EXCEPT ![m] = "promoted"]
    /\ turn' = [turn EXCEPT ![m] = IF CallbackOf[m] = "finalizes" THEN @ ELSE "promoted"]
    /\ position' = [position EXCEPT ![ReceiverOf[m]] = EventOf(m)]

\* A promotion that the callback did not make.
PromoteLater(m) ==
  /\ CallbackOf[m] = "defers" /\ row[m].state = "published"
  /\ handler[m] = "completed-bound"
  /\ Commits(m)
  /\ UNCHANGED <<world_vars, row, pump>>

\* drainProcessedMessageEvents
DrainProcessed(r) ==
  /\ r \in Drained /\ Active(r) = {}
  /\ \E n \in Ahead(r) :
       /\ \A o \in Ahead(r) : n <= o
       /\ audit[n][2] = "handling" /\ handler[audit[n][1]] = "promoted"
       /\ position' = [position EXCEPT ![r] = n]
  /\ UNCHANGED <<world_vars, handler, turn, row, pump>>

(***************************************************************************)
(* A round of a pump.                                                      *)
(***************************************************************************)
Goes(o, place) == pump' = [pump EXCEPT ![o].at = place]
GivesUp(o) == pump' = [pump EXCEPT ![o] = Idle]

Pick(o) ==
  /\ pump[o].at = "idle"
  /\ \E m \in PumpMessage :
       /\ Candidate(m)
       /\ pump' = [pump EXCEPT ![o] =
            [at |-> IF m \in Pending THEN "recover"
                    ELSE IF row[m].state = "skipped" THEN "skipped" ELSE "picked",
             on |-> m, epoch |-> 0, route |-> "none", seen |-> <<FALSE, 0>>]]
  /\ UNCHANGED <<world_vars, handler_vars, row>>

\* The authority is read and the route evaluated; both are kept for the round.
Evaluates(o, m, place) ==
  pump' = [pump EXCEPT ![o].at = place, ![o].route = RouteOf(m), ![o].seen = Snapshot(m)]

Evaluate(o) ==
  LET m == pump[o].on IN
  /\ pump[o].at = "picked"
  /\ IF Authority(m) THEN Evaluates(o, m, "evaluated") ELSE GivesUp(o)
  /\ UNCHANGED <<world_vars, handler_vars, row>>

\* claimEventPumpDispatch: a dispatch that is on record under another route is
\* refused; a lease that ran out is taken over, also by the owner that had it; a
\* lease that runs is kept as it is.
ClaimDispatch(o) ==
  LET m == pump[o].on
      granted == IF pump[o].route = "offered" THEN "selected" ELSE "skip"
      Lease(epoch) ==
        /\ row' = [row EXCEPT ![m].state = "selected", ![m].route = pump[o].route,
                              ![m].by = o, ![m].epoch = epoch, ![m].live = TRUE]
        /\ pump' = [pump EXCEPT ![o].at = granted, ![o].epoch = epoch]
  IN
  /\ pump[o].at = "evaluated"
  /\ IF \/ ~IsNext(m) \/ row[m].state \notin {"none", "selected"}
        \/ row[m].state = "selected" /\ row[m].route # pump[o].route
       THEN GivesUp(o) /\ UNCHANGED row
     ELSE IF row[m].state = "none" THEN Lease(1)
     ELSE IF ~row[m].live THEN Lease(row[m].epoch + 1)
     ELSE IF row[m].by = o /\ row[m].live
       THEN /\ pump' = [pump EXCEPT ![o].at = granted, ![o].epoch = row[m].epoch]
            /\ UNCHANGED row
     ELSE GivesUp(o) /\ UNCHANGED row
  /\ UNCHANGED <<world_vars, handler_vars>>

\* Mutant: the lease is not looked at again when the work is done.
HoldsLease_Unchecked(o, m) == row[m].state = "selected"

HoldsLease(o, m) ==
  /\ row[m].state = "selected"
  /\ row[m].by = o /\ row[m].epoch = pump[o].epoch /\ row[m].live

\* settleEventPumpDispatch, outcome "skipped"
SettleSkipped(o) ==
  LET m == pump[o].on IN
  /\ pump[o].at = "skip"
  /\ IF HoldsLease(o, m)
       THEN row' = [row EXCEPT ![m].state = "skipped"] /\ Goes(o, "skipped")
       ELSE GivesUp(o) /\ UNCHANGED row
  /\ UNCHANGED <<world_vars, handler_vars>>

\* advanceAttentionCursor over what was settled as skipped, in this round or an
\* earlier one
AdvanceSkipped(o) ==
  LET m == pump[o].on IN
  /\ pump[o].at = "skipped"
  /\ position' = IF IsNext(m) /\ Active(ReceiverOf[m]) = {}
                 THEN [position EXCEPT ![ReceiverOf[m]] = EventOf(m)] ELSE position
  /\ GivesUp(o)
  /\ UNCHANGED <<world_vars, handler, turn, row>>

\* The route is authorised once more, and what the authority covers may not have
\* changed; runCoordinatorActivation then claims the event, or finds that it was
\* claimed before.  A completed claim is replayed.  A journal that says nothing of
\* the turn's outcome fails the activation.
SameAuthority(o, m) == Authority(m) /\ Snapshot(m) = pump[o].seen

Activate(o) ==
  LET m == pump[o].on IN
  /\ pump[o].at = "selected"
  /\ IF \/ ~SameAuthority(o, m)
        \/ handler[m] = "none" /\ Active(ReceiverOf[m]) # {}
        \/ handler[m] = "claimed" /\ turn[m] = "running"
       THEN GivesUp(o) /\ UNCHANGED handler
     ELSE IF handler[m] = "completed-bound"
       THEN /\ Goes(o, "bound") \/ (Moved(m) /\ GivesUp(o))
            /\ UNCHANGED handler
     ELSE Goes(o, "starting") /\ handler' = [handler EXCEPT ![m] = "claimed"]
  /\ UNCHANGED <<world_vars, position, turn, row>>

\* An activation is two turns, taken as one: from the first on, whether an expired
\* message or a receiver whose task has moved stops it depends on where it is.
Startable(m) == handler[m] = "claimed" /\ turn[m] \in {"none", "running"}
Spoilt(m) == m \in expired \/ Moved(m)

\* claimPending, the intent at revision zero, the journal, and the native turn.  A
\* journal that is there already and says the same is accepted.
StartTurn(o) ==
  LET m == pump[o].on IN
  /\ pump[o].at = "starting"
  /\ \/ /\ Startable(m) /\ (turn[m] = "none" => ~Spoilt(m))
        /\ turn' = [turn EXCEPT ![m] = "running"] /\ Goes(o, "turn")
     \/ (~Startable(m) \/ Spoilt(m)) /\ GivesUp(o) /\ UNCHANGED turn
  /\ UNCHANGED <<world_vars, position, handler, row>>

\* The turn completed and is bound to the claim.  What the receiver did with the
\* message is audited.
FinishTurn(o) ==
  LET m == pump[o].on
      bindable == turn[m] = "running" /\ handler[m] = "claimed"
  IN
  /\ pump[o].at = "turn"
  /\ \/ /\ bindable
        /\ turn' = [turn EXCEPT ![m] = "bound"]
        /\ handler' = [handler EXCEPT ![m] = "completed-bound"]
        /\ audit' = Append(audit, <<m, "handling">>)
        /\ Goes(o, "bound")
     \/ (~bindable \/ Spoilt(m)) /\ GivesUp(o) /\ UNCHANGED <<turn, handler, audit>>
  /\ UNCHANGED <<route_vars, crashes, position, row>>

\* settleEventPumpDispatch, outcome "completed-bound"
Settle(o) ==
  LET m == pump[o].on IN
  /\ pump[o].at = "bound"
  /\ IF HoldsLease(o, m) /\ handler[m] = "completed-bound"
       THEN row' = [row EXCEPT ![m].state = "completed-bound"] /\ Goes(o, "settled")
       ELSE GivesUp(o) /\ UNCHANGED row
  /\ UNCHANGED <<world_vars, handler_vars>>

(***************************************************************************)
(* Publication.                                                            *)
(***************************************************************************)

\* inspectEventPumpPublicationRecovery, "cursor-committed"
Committed(m) ==
  /\ handler[m] = "promoted" /\ Active(ReceiverOf[m]) = {}
  /\ Past(m) /\ turn[m] = "promoted"

Inspect(o) ==
  LET m == pump[o].on IN
  /\ pump[o].at = "recover"
  /\ IF m \notin Pending THEN GivesUp(o)
     ELSE IF Committed(m) THEN Goes(o, "recover-committed")
     ELSE IF handler[m] = "completed-bound" THEN Goes(o, "recover-active")
     ELSE GivesUp(o)
  /\ UNCHANGED <<world_vars, handler_vars, row>>

\* Mutant: a publication lease that runs is taken over.
PublicationBusy_Never(o, m) == FALSE

PublicationBusy(o, m) ==
  row[m].state = "publishing" /\ row[m].pubLive /\ row[m].pubBy # o

PublicationEpoch(o, m) ==
  IF row[m].state = "completed-bound" THEN 1
  ELSE IF row[m].pubBy = o /\ row[m].pubLive THEN row[m].pubEpoch
  ELSE row[m].pubEpoch + 1

\* claimEventPumpPublication
ClaimPublication(o) ==
  LET m == pump[o].on
      then == IF pump[o].at = "recover-committed" THEN "committed"
              ELSE IF pump[o].at = "recover-active" THEN "reread" ELSE "callback"
  IN
  /\ pump[o].at \in {"settled", "recover-active", "recover-committed"}
  /\ IF m \notin Pending \/ PublicationBusy(o, m)
       THEN GivesUp(o) /\ UNCHANGED row
       ELSE /\ row' = [row EXCEPT ![m].state = "publishing", ![m].pubBy = o,
                                  ![m].pubEpoch = PublicationEpoch(o, m), ![m].pubLive = TRUE]
            /\ pump' = [pump EXCEPT ![o].at = then, ![o].epoch = PublicationEpoch(o, m)]
  /\ UNCHANGED <<world_vars, handler_vars>>

\* The event is read and authorised and its route evaluated again: it must be the
\* one on record, and be offered.
Reread(o) ==
  LET m == pump[o].on IN
  /\ pump[o].at = "reread"
  /\ IF /\ HeadEvent(m) /\ Authority(m) /\ handler[m] = "completed-bound"
        /\ RouteOf(m) = row[m].route /\ RouteOf(m) = "offered"
       THEN Evaluates(o, m, "replay") ELSE GivesUp(o)
  /\ UNCHANGED <<world_vars, handler_vars, row>>

\* The authority is compared once more and the activation is replayed.
Replay(o) ==
  LET m == pump[o].on
      replays == SameAuthority(o, m) /\ handler[m] = "completed-bound"
  IN
  /\ pump[o].at = "replay"
  /\ \/ replays /\ Goes(o, "callback")
     \/ (~replays \/ Moved(m)) /\ GivesUp(o)
  /\ UNCHANGED <<world_vars, handler_vars, row>>

\* onLifecyclePublication; what was promoted before is replayed.  A promotion whose
\* actor has moved since the turn was bound is refused.
Callback(o) ==
  LET m == pump[o].on IN
  /\ pump[o].at = "callback"
  /\ \/ /\ IF CallbackOf[m] = "defers" THEN UNCHANGED handler_vars ELSE Commits(m)
        /\ Goes(o, "committed")
     \/ /\ CallbackOf[m] # "defers" /\ handler[m] = "completed-bound" /\ Moved(m)
        /\ GivesUp(o) /\ UNCHANGED handler_vars
  /\ UNCHANGED <<world_vars, row>>

HoldsPublication(o, m) ==
  /\ row[m].state = "publishing"
  /\ row[m].pubBy = o /\ row[m].pubEpoch = pump[o].epoch /\ row[m].pubLive

\* completeEventPumpPublication
CompletesDispatch(o) ==
  LET m == pump[o].on IN
  /\ pump[o].at = "committed"
  /\ row' = IF HoldsPublication(o, m) THEN [row EXCEPT ![m].state = "published"] ELSE row
  /\ GivesUp(o)
  /\ UNCHANGED <<world_vars, handler_vars>>

\* The process dies and is started again; what it had in memory is lost.
Crash(o) ==
  /\ pump[o].at \in CrashAt /\ crashes < MaxCrash
  /\ crashes' = crashes + 1
  /\ GivesUp(o)
  /\ UNCHANGED <<audit, route_vars, handler_vars, row>>

Drain(o) ==
  \/ Pick(o) \/ Evaluate(o) \/ ClaimDispatch(o) \/ SettleSkipped(o) \/ AdvanceSkipped(o)
  \/ Activate(o) \/ StartTurn(o) \/ FinishTurn(o) \/ Settle(o)
  \/ Inspect(o) \/ ClaimPublication(o) \/ Reread(o) \/ Replay(o) \/ Callback(o)
  \/ CompletesDispatch(o)

Time(m) == LeaseExpires(m) \/ PublicationLeaseExpires(m)

PumpNext ==
  \/ \E m \in PumpMessage :
       Receive(m) \/ Withdraw(m) \/ Expires(m) \/ Time(m) \/ PromoteLater(m)
  \/ \E r \in PumpReceiver : RuntimeMoves(r) \/ DrainProcessed(r)
  \/ \E o \in Owner : Drain(o) \/ Crash(o)

PumpSpec == PumpInit /\ [][PumpNext]_pump_vars

\* runUntilIdle is called again and again, time passes, and the hosts do what is
\* left to them, where the coordinator lets them.
PumpFairSpec ==
  /\ PumpSpec
  /\ \A o \in Owner : WF_pump_vars(Drain(o))
  /\ \A m \in PumpMessage :
       WF_pump_vars(Time(m)) /\ WF_pump_vars(PromoteLater(m) /\ ~Moved(m))
  /\ \A r \in PumpReceiver : WF_pump_vars(DrainProcessed(r))

(***************************************************************************)
(* Properties.                                                             *)
(***************************************************************************)
\* Types, and what the constructor demands of a dispatch when the database is
\* opened: a publication lease is there exactly when the publication began
\* (#validatePersistedEventPumpState).
PumpTypeOK ==
  /\ audit \in Seq(PumpMessage \X {"received", "handling"})
  /\ position \in [PumpReceiver -> Nat] /\ crashes \in 0..MaxCrash
  /\ handler \in [PumpMessage -> {"none", "claimed", "completed-bound", "promoted"}]
  /\ turn \in [PumpMessage -> {"none", "running", "bound", "promoted"}]
  /\ withdrawn \subseteq Revocable /\ expired \subseteq Perishable
  /\ \A r \in PumpReceiver : moves[r] \in 0..MaxMove[r]
  /\ pump \in [Owner ->
       [at : Place, on : PumpMessage \cup {NoMessage}, epoch : 0..MaxEpoch,
        route : Outcome \cup {"none"}, seen : BOOLEAN \X {0, 1}]]
  /\ \A m \in PumpMessage :
       LET d == row[m] IN
       /\ d.state \in {"none", "selected", "skipped", "completed-bound", "publishing",
                       "published"}
       /\ d.epoch \in 0..MaxEpoch /\ d.pubEpoch \in 0..MaxEpoch
       /\ d.live \in BOOLEAN /\ d.pubLive \in BOOLEAN
       /\ d.route \in Outcome \cup {"none"} /\ (d.route = "none" <=> d.state = "none")
       /\ d.state = "none" <=> d.by = NoOwner /\ d.epoch = 0
       /\ d.state \in {"publishing", "published"} <=> d.pubBy \in Owner
       /\ d.pubBy \in Owner <=> d.pubEpoch > 0

\* A dispatch is published only after its event was dealt with: the receiver's
\* cursor has passed the event and its handler was promoted, whoever ran the
\* callback and whoever came after a crash to complete it.
PublishedIsCommitted ==
  \A m \in PumpMessage :
    row[m].state = "published" /\ CallbackOf[m] # "defers" =>
      handler[m] = "promoted" /\ Past(m)

\* Nobody is given the right to publish while another pump has it, or once the
\* dispatch is published.
Publishing(o, m) ==
  /\ pump[o].on = m /\ pump[o].at \in {"reread", "replay", "callback", "committed"}
  /\ HoldsPublication(o, m)

SolePublisher ==
  [][\A o \in Owner : ClaimPublication(o) /\ pump'[o].at # "idle" =>
       /\ row[pump[o].on].state # "published"
       /\ \A other \in Owner \ {o} : ~Publishing(other, pump[o].on)]_pump_vars

\* Publication belongs to one owner at a time and comes after the commit: both of the
\* above.
PublishesAlone == [](PumpTypeOK /\ PublishedIsCommitted) /\ SolePublisher

\* A stale owner is fenced: a dispatch is settled or published by the owner whose
\* lease it was last, which itself has come to that point with it.
StaleOwnerFenced ==
  [][\A m \in PumpMessage :
       /\ row[m].state = "selected" /\ row'[m].state \in {"completed-bound", "skipped"} =>
            LET p == pump[row[m].by]
            IN p.on = m /\ p.at \in {"bound", "skip"} /\ p.epoch = row[m].epoch
       /\ row[m].state = "publishing" /\ row'[m].state = "published" =>
            LET p == pump[row[m].pubBy] IN
            p.on = m /\ p.at = "committed" /\ p.epoch = row[m].pubEpoch]_pump_vars

\* The pumps deal with a receiver's messages in the order they were received.
ReceivedFor(r) == {n \in DOMAIN audit : ReceiverOf[audit[n][1]] = r /\ audit[n][2] = "received"}

InSequence(ns, f(_)) ==
  [i \in 1..Cardinality(ns) |->
     f(CHOOSE n \in ns : Cardinality({o \in ns : o <= n}) = i)]

HowDealt(n) == IF row[audit[n][1]].state = "skipped" THEN "skipped" ELSE "handled"
MessageAt(n) == audit[n][1]

Order == INSTANCE InOrder WITH
  Receiver <- PumpReceiver, Message <- PumpMessage,
  arrived <- [r \in PumpReceiver |-> InSequence(ReceivedFor(r), MessageAt)],
  dealt <- [r \in PumpReceiver |->
              InSequence({n \in ReceivedFor(r) : n <= position[r]}, HowDealt)]

ImplementsInOrder == Order!OrderSpec

Dealt(m) == Past(m) /\ row[m].state \in {"published", "skipped"}

\* A message whose dispatch is on record under another route than the message has
\* now, or which asks a decision of a receiver whose task was moved: nobody gets it
\* past the coordinator, and, as long as it is the first, no other message either.
Obstructed(m) ==
  /\ WasReceived(m) /\ ~Dealt(m)
  /\ \/ /\ row[m].state \in {"selected", "completed-bound", "publishing"}
        /\ row[m].route # RouteOf(m)
     \/ (IF row[m].state = "none" THEN RouteOf(m) ELSE row[m].route) = "offered" /\ Moved(m)

\* Unless some message is obstructed again and again, or for good, every message
\* that is received is dealt with in the end: its dispatch is published, or it is
\* skipped, and the cursor is past it.  A message that had expired or gone stale when
\* its dispatch was claimed is skipped, and obstructs nothing.
EveryMessageDealt ==
  <>[](\A m \in PumpMessage : ~Obstructed(m)) =>
    \A m \in PumpMessage : WasReceived(m) ~> Dealt(m)

(***************************************************************************)
(* What the repository says, and the code does not do.                      *)
(***************************************************************************)

\* "Only one publication callback enters while its lease is held": the lease was
\* looked at when it was claimed, and not when the callback is entered.
Entering(o) == pump[o].at # "callback" /\ pump'[o].at = "callback"

SoleEntrant ==
  [][\A o \in Owner : Entering(o) =>
       \A other \in Owner \ {o} :
         ~(pump[other].at = "callback" /\ Publishing(other, pump[o].on))]_pump_vars

\* "Selected exact-head work survives coordinator reopen and an expired lease can be
\* taken over": not once the message has expired, or its receiver's runtime changed.
SelectedTakenOver ==
  \A m \in PumpMessage : row[m].state = "selected" ~> row[m].state # "selected"

\* One completed callback is completed in the tables too.
OrphanCompleted ==
  \A m \in PumpMessage :
    row[m].state = "publishing" /\ handler[m] = "promoted" ~> row[m].state = "published"
=============================================================================
