------------------------------- MODULE Attention -------------------------------
(***************************************************************************)
(* How a receiver works through the events of its messages: the attention   *)
(* cursor, the handler claims and the bindings between claims, decisions,   *)
(* context admissions, publications and model turns of                     *)
(* src/coordinator/sqlite-coordinator.mjs (tables attention_receiver_cursors, *)
(* attention_cursor_commits, attention_handler_claims,                     *)
(* attention_route_decision_bindings, context_admission_turn_bindings and   *)
(* lifecycle_action_publications), together with the checks that the        *)
(* constructor makes of them whenever the database is opened.              *)
(*                                                                         *)
(* The turns are those of TurnLife.  Of a message its disposition row, its  *)
(* mailbox claim and its admission are kept, and its audit events, which     *)
(* the cursor walks.  Whether a grant allows a message is left open: an      *)
(* operation the policy denies is one that does not happen.                *)
(*                                                                         *)
(* An expected revision that is not the present one is refused everywhere,  *)
(* so the actions take the present one.                                    *)
(***************************************************************************)
EXTENDS TurnLife, Dispositions, FiniteSets

CONSTANTS
  Message,
  SenderOf, TargetOf,  \* the incarnations of each message
  ToolFor,       \* the tool whose completed call may publish each message
  MessageOf,     \* the message each execution answers
  Epoch,         \* names of handler claims
  NoEpoch, NoExecution, NoCall,
  Direct,        \* the messages sent without the publication of a tool call
  Decision,      \* the decisions receivers take here
  Expiring,      \* the messages whose deadline passes within the instance
  Linked,        \* the messages that satisfy a dependency of their receiver
  GivenUp,       \* the executions that may be abandoned
  MaxLog         \* bound on the audit events

DecideTool == "threadmesh_decide_offer"

ASSUME AttentionAssumption ==
  /\ SenderOf \in [Message -> Incarnation] /\ TargetOf \in [Message -> Incarnation]
  /\ ToolFor \in [Message -> Tool \ {DecideTool}]
  /\ MessageOf \in [Execution -> Message]
  /\ NoEpoch \notin Epoch /\ NoExecution \notin Execution
  /\ NoCall \notin Execution \X Nat
  /\ Decision \subseteq DecisionStates \ {"pending"}
  /\ Direct \subseteq Message /\ Expiring \subseteq Message /\ Linked \subseteq Message
  /\ GivenUp \subseteq Execution
  /\ MaxLog \in Nat

VARIABLES
  about,      \* the intent's eventId: an audit event, or 0 for the admission token
  said,       \* what the turn's decision tool was told and answered
  log,        \* table audit_events, by sequence
  disp,       \* table dispositions
  due,        \* messages whose expires_at has passed
  purged,     \* messages with content_purged_at set
  finalized,  \* messages of git_evidence_dependency_finalizations
  mailbox,    \* table mailbox_claims; "lapsed" is a claim past its expires_at
  admission,  \* table admission_claims
  admittedBy, \* table context_admission_turn_bindings
  published,  \* table lifecycle_action_publications
  claim,      \* table attention_handler_claims
  decided,    \* table attention_route_decision_bindings
  cursor,     \* table attention_receiver_cursors
  commits     \* table attention_cursor_commits

turn_vars == <<run_vars, about, said>>
mail_vars == <<disp, due, purged, finalized, mailbox, admission>>
bind_vars == <<admittedBy, published, decided>>
cursor_vars == <<claim, cursor, commits>>
attention_vars == <<turn_vars, log, mail_vars, bind_vars, cursor_vars>>

(***************************************************************************)
(* Rows.                                                                   *)
(***************************************************************************)
AuditWord ==
  {"message-durably-received", "mailbox-claimed", "receiver-decided", "context-admitted",
   "other"}

AuditType ==
  [message : Message, word : AuditWord, rev : Nat, decision : DecisionStates,
   redacted : BOOLEAN]

DispositionType ==
  [delivery : DeliveryStates \cup {"none"}, decision : DecisionStates,
   outcome : OutcomeStates, rev : Nat]

ClaimType ==
  [state : {"none", "claimed", "completed-bound", "promoted", "abandoned"},
   event : Nat, seen : BOOLEAN, by : Execution \cup {NoExecution}]

NoClaim == [state |-> "none", event |-> 0, seen |-> FALSE, by |-> NoExecution]

SaidType == [decision : DecisionStates, rev : Nat]
Silent == [decision |-> "pending", rev |-> 0]

DecidedType == [by : Execution \cup {NoExecution}, decision : DecisionStates, rev : Nat]

CommitType ==
  [from : Nat, to : Nat, kind : {"irrelevant-skip", "handler-promoted"},
   source : Epoch \cup {NoEpoch}]

AttentionInit ==
  /\ RegistryInit /\ RunInit
  /\ about = [e \in Execution |-> 0]
  /\ said = [e \in Execution |-> Silent]
  /\ log = <<>>
  /\ disp = [m \in Message |->
       [delivery |-> "none", decision |-> "pending", outcome |-> "not-observed", rev |-> 0]]
  /\ due = {} /\ purged = {} /\ finalized = {}
  /\ mailbox = [m \in Message |-> [state |-> "none", rev |-> 0]]
  /\ admission = [m \in Message |-> [state |-> "none", rev |-> 0, ref |-> NoRef]]
  /\ admittedBy = [m \in Message |-> NoExecution]
  /\ published = [m \in Message |-> NoCall]
  /\ claim = [k \in Epoch |-> NoClaim]
  /\ decided = [k \in Epoch |-> [by |-> NoExecution, decision |-> "pending", rev |-> 0]]
  /\ cursor = [i \in Incarnation |-> [at |-> 0, rev |-> 0, active |-> NoEpoch]]
  /\ commits = [i \in Incarnation |-> <<>>]

(***************************************************************************)
(* What the operations share.                                              *)
(***************************************************************************)
\* #audit
Audits(m, word, rev) ==
  /\ Len(log) < MaxLog
  /\ log' = Append(log,
       [message |-> m, word |-> word, rev |-> rev, redacted |-> FALSE,
        decision |-> IF word = "receiver-decided" THEN disp'[m].decision ELSE "pending"])

Exists(m) == disp[m].delivery # "none"
AcceptedAt(m, rev) == Exists(m) /\ disp[m].decision = "accepted" /\ disp[m].rev = rev

\* One update of a disposition row.
Moves(m, field, state) ==
  disp' = [disp EXCEPT ![m][field] = state, ![m].rev = @ + 1]

Finished(e) == run[e].state \in {"completed", "promoted"}

Called(e, n, tool) == n \in DOMAIN run[e].tools /\ run[e].tools[n] = tool

MessageOfClaim(k) == log[claim[k].event].message
Receiver(k) == TargetOf[MessageOfClaim(k)]

(***************************************************************************)
(* Turns.                                                                  *)
(***************************************************************************)
\* createTurnExecutionIntent: what the receiver's turn is about is an event that
\* is claimed, or the token of the message's admission, which exists once the
\* admission was prepared.
Open(e) ==
  LET m == MessageOf[e] IN
  /\ Opens(e)
  /\ \/ ActorOf[e] # TargetOf[m] /\ UNCHANGED about
     \/ admission[m].state # "none" /\ UNCHANGED about
     \/ \E k \in Epoch :
          /\ claim[k].state # "none" /\ MessageOfClaim(k) = m
          /\ about' = [about EXCEPT ![e] = claim[k].event]
  /\ UNCHANGED <<registry_vars, said, log, mail_vars, bind_vars, cursor_vars>>

\* The decision tool answers with the revision its decision will have as things
\* stand: by the time the decision is committed the message may have moved.
Complete(e) ==
  \E tools \in ToolLists :
    /\ Completes(e, tools)
    /\ IF DecideTool \in {tools[n] : n \in DOMAIN tools}
         THEN \E d \in Decision :
                said' = [said EXCEPT ![e] = [decision |-> d, rev |-> disp[MessageOf[e]].rev + 1]]
         ELSE UNCHANGED said
    /\ UNCHANGED <<registry_vars, about, log, mail_vars, bind_vars, cursor_vars>>

PromoteTurn(e) ==
  /\ Promotes(e)
  /\ UNCHANGED <<registry_vars, about, said, log, mail_vars, bind_vars, cursor_vars>>

\* abandonTurnExecution: what is bound to the execution is not looked at.
AbandonTurn(e) ==
  /\ e \in GivenUp
  /\ Abandons(e)
  /\ UNCHANGED <<registry_vars, about, said, log, mail_vars, bind_vars, cursor_vars>>

(***************************************************************************)
(* Messages and their publication.                                         *)
(***************************************************************************)
Received(m) ==
  /\ ~Exists(m) /\ m \notin due
  /\ task[SenderOf[m]].status = "active" /\ task[TargetOf[m]].status = "active"
  /\ disp' = [disp EXCEPT ![m].delivery = "durably-received"]
  /\ Audits(m, "message-durably-received", 0)
  /\ UNCHANGED <<turn_vars, due, purged, finalized, mailbox, admission, admittedBy, decided,
                 cursor_vars>>

\* submit
Submit(m) == m \in Direct /\ Received(m) /\ UNCHANGED published

\* publishLifecycleFromCompletedAction: the message of a completed tool call.
Publish(e, n, m) ==
  /\ Finished(e) /\ Unmoved(e)
  /\ ActorOf[e] = SenderOf[m] /\ Called(e, n, ToolFor[m])
  /\ \A o \in Message : published[o] # <<e, n>>
  /\ Received(m)
  /\ published' = [published EXCEPT ![m] = <<e, n>>]

\* claimPending: a claim that lapsed is taken over, an acknowledged one never.
ClaimPending(m) ==
  /\ Exists(m) /\ m \notin due
  /\ disp[m].decision \in UndecidedStates
  /\ mailbox[m].state \in {"none", "lapsed"}
  /\ mailbox' = [mailbox EXCEPT ![m] = [state |-> "claimed", rev |-> disp[m].rev]]
  /\ UNCHANGED disp
  /\ Audits(m, "mailbox-claimed", disp[m].rev)
  /\ UNCHANGED <<turn_vars, due, purged, finalized, admission, bind_vars, cursor_vars>>

Lapse(m) ==
  /\ mailbox[m].state = "claimed"
  /\ mailbox' = [mailbox EXCEPT ![m].state = "lapsed"]
  /\ UNCHANGED <<turn_vars, log, disp, due, purged, finalized, admission, bind_vars, cursor_vars>>

Responds(m, decision) ==
  /\ Exists(m)
  /\ decision # "expired" => m \notin due
  /\ DecisionMay(disp[m].decision, decision)
  /\ Moves(m, "decision", decision)
  /\ Audits(m, "receiver-decided", disp[m].rev + 1)

\* respond
Respond(m, decision) ==
  /\ Responds(m, decision)
  /\ UNCHANGED <<turn_vars, due, purged, finalized, mailbox, admission, bind_vars, cursor_vars>>

Acknowledges(m, decision) ==
  /\ mailbox[m].state = "claimed" /\ m \notin due
  /\ mailbox[m].rev = disp[m].rev
  /\ Responds(m, decision)
  /\ mailbox' = [mailbox EXCEPT ![m].state = "acknowledged"]

\* acknowledgePending
AcknowledgePending(m, decision) ==
  /\ Acknowledges(m, decision)
  /\ UNCHANGED <<turn_vars, due, purged, finalized, admission, bind_vars, cursor_vars>>

(***************************************************************************)
(* Context admission.                                                      *)
(***************************************************************************)
\* prepareContextAdmission
PrepareContextAdmission(m) ==
  LET target == task[TargetOf[m]] IN
  /\ AcceptedAt(m, disp[m].rev) /\ m \notin due
  /\ DeliveryMay(disp[m].delivery, "context-admitted")
  /\ admission[m].state = "none"
  /\ target.status = "active" /\ target.ref \in TurnRef
  /\ admission' = [admission EXCEPT ![m] =
       [state |-> "in-flight", rev |-> disp[m].rev, ref |-> target.ref]]
  /\ UNCHANGED <<turn_vars, log, disp, due, purged, finalized, mailbox, bind_vars, cursor_vars>>

\* #hasPreverifiedAdmissionState
Preverified(m) ==
  /\ AcceptedAt(m, admission[m].rev + 2)
  /\ disp[m].delivery = "adapter-submitted" /\ disp[m].outcome = "externally-verified"

Confirms(m) ==
  /\ admission[m].state = "in-flight"
  /\ \/ /\ AcceptedAt(m, admission[m].rev)
        /\ disp[m].delivery \in {"durably-received", "checkpoint-offered"}
        /\ Moves(m, "delivery", "context-admitted")
     \/ Preverified(m) /\ m \in finalized /\ UNCHANGED disp
  /\ admission' = [admission EXCEPT ![m].state = "completed"]
  /\ Audits(m, "context-admitted", disp'[m].rev)

\* confirmContextAdmission
ConfirmContextAdmission(m) ==
  /\ Confirms(m)
  /\ UNCHANGED <<turn_vars, due, purged, finalized, mailbox, bind_vars, cursor_vars>>

\* confirmContextAdmissionFromTurn: the turn was made for this admission, in the
\* thread it was prepared for.
ConfirmContextAdmissionFromTurn(e, m) ==
  /\ Finished(e) /\ Unmoved(e)
  /\ ActorOf[e] = TargetOf[m] /\ MessageOf[e] = m /\ about[e] = 0
  /\ run[e].ref = admission[m].ref
  /\ admittedBy[m] = NoExecution /\ \A o \in Message : admittedBy[o] # e
  /\ Confirms(m)
  /\ admittedBy' = [admittedBy EXCEPT ![m] = e]
  /\ UNCHANGED <<turn_vars, due, purged, finalized, mailbox, published, decided, cursor_vars>>

(***************************************************************************)
(* What else happens to a message.                                         *)
(***************************************************************************)
\* recordAdapterReceipt, and failDelivery
Delivers(m, delivery) ==
  /\ DeliveryMay(disp[m].delivery, delivery)
  /\ delivery = "adapter-submitted" => disp[m].decision = "accepted"
  /\ Moves(m, "delivery", delivery)
  /\ Audits(m, "other", disp[m].rev + 1)
  /\ UNCHANGED <<turn_vars, due, purged, finalized, mailbox, admission, bind_vars, cursor_vars>>

\* prepareAdapterSubmission, beginAdapterSubmission and
\* reconcileAdapterSubmission leave their trace only.
SubmissionTrace(m) ==
  /\ disp[m].decision = "accepted" /\ DeliveryMay(disp[m].delivery, "adapter-submitted")
  /\ UNCHANGED disp
  /\ Audits(m, "other", disp[m].rev)
  /\ UNCHANGED <<turn_vars, due, purged, finalized, mailbox, admission, bind_vars, cursor_vars>>

\* #satisfyDependencyEdge, called with or without the evidence of a chain; the
\* receiver becomes ready when nothing else holds it back.
Satisfy(m, viaGit) ==
  /\ m \in Linked \ due
  /\ disp[m].decision = "accepted" /\ disp[m].delivery = "adapter-submitted"
  /\ disp[m].outcome # "externally-verified"
  /\ Moves(m, "outcome", "externally-verified")
  /\ finalized' = IF viaGit THEN finalized \cup {m} ELSE finalized
  /\ \/ UNCHANGED task
     \/ task[TargetOf[m]].status = "active" /\ Unlocks(TargetOf[m])
  /\ Audits(m, "other", disp[m].rev + 1)
  /\ UNCHANGED <<now, run, about, said, due, purged, mailbox, admission, bind_vars, cursor_vars>>

FallDue(m) ==
  /\ m \in Expiring \ due
  /\ due' = due \cup {m}
  /\ mailbox' = [mailbox EXCEPT ![m].state = IF @ = "claimed" THEN "lapsed" ELSE @]
  /\ UNCHANGED <<turn_vars, log, disp, purged, finalized, admission, bind_vars, cursor_vars>>

\* expireDueMessages, message by message
Expire(m) ==
  /\ m \in due /\ disp[m].delivery \in NonTerminalDelivery
  /\ admission[m].state # "in-flight"
  /\ disp' = [disp EXCEPT ![m].delivery = "expired", ![m].rev = @ + 1,
                          ![m].decision = IF @ \in UndecidedStates THEN "expired" ELSE @]
  /\ Audits(m, "other", disp[m].rev + 1)
  /\ UNCHANGED <<turn_vars, due, purged, finalized, mailbox, admission, bind_vars, cursor_vars>>

\* purgeSensitiveContent, message by message: the details of what was audited
\* before are redacted and the mailbox claim is deleted.
Purge(m) ==
  /\ Exists(m) /\ m \in due \ purged /\ admission[m].state # "in-flight"
  /\ purged' = purged \cup {m}
  /\ mailbox' = [mailbox EXCEPT ![m].state = "none"]
  /\ Len(log) < MaxLog
  /\ log' = Append([n \in DOMAIN log |->
                      IF log[n].message = m THEN [log[n] EXCEPT !.redacted = TRUE] ELSE log[n]],
       [message |-> m, word |-> "other", rev |-> disp[m].rev, redacted |-> FALSE,
        decision |-> "pending"])
  /\ UNCHANGED <<turn_vars, disp, due, finalized, admission, bind_vars, cursor_vars>>

(***************************************************************************)
(* The cursor.                                                             *)
(***************************************************************************)
\* The events of a receiver's messages, whatever their type.
EventsOf(r) == {n \in DOMAIN log : TargetOf[log[n].message] = r}

\* Mutant: only the events a receiver reads count.
NextEvent_Received(r, n) ==
  /\ n \in EventsOf(r) /\ n > cursor[r].at
  /\ \A o \in EventsOf(r) :
       o > cursor[r].at /\ log[o].word = "message-durably-received" => n <= o

\* #assertNextAttentionEvent
NextEvent(r, n) ==
  /\ n \in EventsOf(r) /\ n > cursor[r].at
  /\ \A o \in EventsOf(r) : o > cursor[r].at => n <= o

\* #appendAttentionCursorCommit
CommitTo(r, n, kind, source) ==
  /\ commits' = [commits EXCEPT ![r] =
       Append(@, [from |-> cursor[r].at, to |-> n, kind |-> kind, source |-> source])]
  /\ cursor' = [cursor EXCEPT ![r] =
       [at |-> n, rev |-> cursor[r].rev + 1, active |-> NoEpoch]]

\* advanceAttentionCursor: the event is nothing to handle.
AdvanceAttentionCursor(r, n) ==
  /\ task[r].status = "active"
  /\ NextEvent(r, n) /\ cursor[r].active = NoEpoch
  /\ CommitTo(r, n, "irrelevant-skip", NoEpoch)
  /\ UNCHANGED <<turn_vars, log, mail_vars, bind_vars, claim>>

(***************************************************************************)
(* Handler claims.                                                         *)
(***************************************************************************)
ClaimAttentionEvent(r, k, n) ==
  /\ task[r].status = "active"
  /\ claim[k].state = "none"
  /\ \A o \in Epoch : claim[o].event # n
  /\ NextEvent(r, n) /\ cursor[r].active = NoEpoch
  /\ claim' = [claim EXCEPT ![k] =
       [state |-> "claimed", event |-> n, seen |-> log[n].redacted, by |-> NoExecution]]
  /\ cursor' = [cursor EXCEPT ![r].active = k, ![r].rev = @ + 1]
  /\ UNCHANGED <<turn_vars, log, mail_vars, bind_vars, commits>>

\* A turn of the receiver about the claimed event or, once a turn has admitted
\* the message to the receiver's context, that very turn.
HandlerOf(k, e) ==
  LET m == MessageOfClaim(k) IN
  /\ ActorOf[e] = Receiver(k) /\ MessageOf[e] = m
  /\ IF admittedBy[m] = NoExecution
       THEN about[e] = claim[k].event
       ELSE admittedBy[m] = e /\ decided[k].by # NoExecution

\* The turn in which the receiver decided on the offer.
DecidedIn(k, e) ==
  /\ Finished(e)
  /\ ActorOf[e] = Receiver(k) /\ MessageOf[e] = MessageOfClaim(k)
  /\ about[e] = claim[k].event

\* Mutant: the revision the turn reported is not compared.
CommitReceiverDecision_AnyRevision(k, e, n) ==
  LET m == MessageOfClaim(k) IN
  /\ claim[k].state = "claimed"
  /\ Unmoved(e) /\ DecidedIn(k, e) /\ Called(e, n, DecideTool)
  /\ published[m] # NoCall
  /\ decided[k].by = NoExecution /\ \A o \in Epoch : decided[o].by # e
  /\ Acknowledges(m, said[e].decision)
  /\ decided' = [decided EXCEPT ![k] =
       [by |-> e, decision |-> said[e].decision, rev |-> said[e].rev]]
  /\ UNCHANGED <<turn_vars, due, purged, finalized, admission, admittedBy, published,
                 cursor_vars>>

\* commitReceiverDecision: the decision the turn reported is taken, under the
\* mailbox claim, with the revision the turn reported.
CommitReceiverDecision(k, e, n) ==
  LET m == MessageOfClaim(k) IN
  /\ claim[k].state = "claimed"
  /\ Unmoved(e) /\ DecidedIn(k, e) /\ Called(e, n, DecideTool)
  /\ published[m] # NoCall
  /\ decided[k].by = NoExecution /\ \A o \in Epoch : decided[o].by # e
  /\ said[e].rev = disp[m].rev + 1
  /\ Acknowledges(m, said[e].decision)
  /\ decided' = [decided EXCEPT ![k] =
       [by |-> e, decision |-> said[e].decision, rev |-> said[e].rev]]
  /\ UNCHANGED <<turn_vars, due, purged, finalized, admission, admittedBy, published,
                 cursor_vars>>

(***************************************************************************)
(* What opening the database checks of these tables: the constructor runs   *)
(* these validators and closes the database when one of them fails.        *)
(***************************************************************************)
Entries(m, word) == {n \in DOMAIN log : log[n].message = m /\ log[n].word = word}

\* #validatePersistedAttentionState, cursor by cursor.
CursorOpens(r) ==
  LET path == commits[r] IN
  /\ \A n \in DOMAIN path :
       /\ path[n].from = (IF n = 1 THEN 0 ELSE path[n - 1].to)
       /\ path[n].to > path[n].from
  /\ cursor[r].at = (IF path = <<>> THEN 0 ELSE path[Len(path)].to)
  /\ cursor[r].rev >= Len(path)
  /\ cursor[r].active # NoEpoch =>
       LET k == cursor[r].active IN
       /\ Receiver(k) = r /\ claim[k].event > cursor[r].at
       /\ claim[k].state # "promoted"

\* #validatePersistedAttentionState, claim by claim.
ClaimOpens(k) ==
  claim[k].state # "none" =>
    /\ claim[k].seen = log[claim[k].event].redacted
    /\ IF claim[k].by = NoExecution
         THEN claim[k].state \in {"claimed", "abandoned"}
         ELSE /\ claim[k].state # "claimed"
              /\ HandlerOf(k, claim[k].by)
              /\ Finished(claim[k].by)
              /\ claim[k].state = "promoted" => run[claim[k].by].state = "promoted"

\* #assertPreverifiedAdmissionProvenance
PreverifiedOpens(m) ==
  admission[m].state # "none" /\ Preverified(m) => m \in finalized

\* #validatePersistedLifecycleBindings: publications,
PublicationOpens(m) ==
  published[m] # NoCall =>
    /\ Finished(published[m][1]) /\ Called(published[m][1], published[m][2], ToolFor[m])
    /\ m \notin purged

\* decisions
DecisionOpens(k) ==
  LET m == MessageOfClaim(k)
      heard == Entries(m, "receiver-decided")
      last == CHOOSE n \in heard : \A o \in heard : o <= n
  IN decided[k].by # NoExecution =>
       /\ m \notin purged
       /\ DecidedIn(k, decided[k].by)
       /\ \E n \in heard : /\ log[n].rev = decided[k].rev
                           /\ log[n].decision = decided[k].decision
       /\ log[last].decision = disp[m].decision
       /\ mailbox[m].state = "acknowledged" /\ mailbox[m].rev + 1 = decided[k].rev
       /\ Cardinality(Entries(m, "mailbox-claimed")) = 1
       /\ claim[k].by # decided[k].by

\* and admissions.
AdmissionOpens(m) ==
  LET e == admittedBy[m] IN
  e # NoExecution =>
    /\ admission[m].state = "completed"
    /\ disp[m].delivery = "context-admitted" \/ (Preverified(m) /\ m \in finalized)
    /\ Finished(e) /\ run[e].ref = admission[m].ref
    /\ m \notin purged

BindingsOpen ==
  /\ \A m \in Message : PreverifiedOpens(m) /\ PublicationOpens(m) /\ AdmissionOpens(m)
  /\ \A k \in Epoch : DecisionOpens(k)

(***************************************************************************)
(* From the claim to the commit.                                           *)
(***************************************************************************)
\* bindCompletedAttentionHandler
BindCompletedAttentionHandler(k, e) ==
  /\ claim[k].state = "claimed"
  /\ Unmoved(e) /\ Finished(e) /\ HandlerOf(k, e)
  /\ admittedBy[MessageOfClaim(k)] = e => BindingsOpen
  /\ claim' = [claim EXCEPT ![k].state = "completed-bound", ![k].by = e]
  /\ UNCHANGED <<turn_vars, log, mail_vars, bind_vars, cursor, commits>>

CommitClaim(k) ==
  /\ claim[k].state = "completed-bound"
  /\ cursor[Receiver(k)].active = k
  /\ CommitTo(Receiver(k), claim[k].event, "handler-promoted", k)
  /\ claim' = [claim EXCEPT ![k].state = "promoted"]
  /\ UNCHANGED <<turn_vars, log, mail_vars, bind_vars>>

PromoteAttentionHandler(k) ==
  /\ claim[k].by # NoExecution
  /\ run[claim[k].by].state = "promoted" /\ Unmoved(claim[k].by)
  /\ CommitClaim(k)

\* Mutant: an accepted decision is enough.
CommitFinalizedDependencyAttentionHandler_Accepted(k) ==
  /\ claim[k].by # NoExecution
  /\ run[claim[k].by].state = "completed" /\ said[claim[k].by].decision = "accepted"
  /\ disp[MessageOfClaim(k)].decision = "accepted"
  /\ CommitClaim(k)

\* The receiver is as the handler's turn knew it, or has been made ready since.
ReceiverKnown(k) ==
  LET receiver == task[Receiver(k)] IN
  /\ receiver.status = "active" /\ receiver.ref = run[claim[k].by].ref
  /\ \/ receiver.rev = run[claim[k].by].rev
     \/ receiver.rev = run[claim[k].by].rev + 1 /\ receiver.word = "ready"

\* The turn whose only act was to accept the message: the one that the decision
\* is bound to if another turn then admitted the message, else the handler.
AcceptedIn(k, e) ==
  LET m == MessageOfClaim(k)
      heard == Entries(m, "receiver-decided")
  IN
  /\ e = (IF admittedBy[m] = claim[k].by /\ decided[k].by # NoExecution
            THEN decided[k].by ELSE claim[k].by)
  /\ run[e].state = "completed" /\ DecidedIn(k, e)
  /\ run[e].tools = <<DecideTool>> /\ said[e].decision = "accepted"
  /\ \E n \in heard : /\ heard = {n} /\ ~log[n].redacted
                      /\ log[n].decision = "accepted" /\ log[n].rev = said[e].rev

\* The admission completed in the thread of that turn.
AdmittedInThreadOf(m, e) == admission[m].state = "completed" /\ admission[m].ref = run[e].ref

\* The message was accepted, verified and finalized its dependency.
FinalizedFor(m) ==
  /\ m \in finalized
  /\ disp[m].decision = "accepted" /\ disp[m].outcome = "externally-verified"

\* commitFinalizedDependencyAttentionHandler: for a message whose dependency was
\* finalized, after which the receiver may be one revision further.
CommitFinalizedDependencyAttentionHandler(k) ==
  /\ claim[k].by # NoExecution /\ run[claim[k].by].state = "completed"
  /\ ReceiverKnown(k)
  /\ \E e \in Execution : AcceptedIn(k, e) /\ AdmittedInThreadOf(MessageOfClaim(k), e)
  /\ FinalizedFor(MessageOfClaim(k))
  /\ CommitClaim(k)

AbandonAttentionHandler(k) ==
  /\ claim[k].state \in {"claimed", "completed-bound"}
  /\ claim' = [claim EXCEPT ![k].state = "abandoned"]
  /\ UNCHANGED <<turn_vars, log, mail_vars, bind_vars, cursor, commits>>

\* Mutant: the claim is reopened without its turn.
ReopenAbandonedAttentionHandler_Fresh(k) ==
  /\ claim[k].state = "abandoned" /\ cursor[Receiver(k)].active = k
  /\ claim' = [claim EXCEPT ![k].state = "claimed", ![k].by = NoExecution]
  /\ UNCHANGED <<turn_vars, log, mail_vars, bind_vars, cursor, commits>>

ReopenAbandonedAttentionHandler(k) ==
  /\ claim[k].state = "abandoned" /\ cursor[Receiver(k)].active = k
  /\ claim' = [claim EXCEPT ![k].state =
       IF claim[k].by = NoExecution THEN "claimed" ELSE "completed-bound"]
  /\ UNCHANGED <<turn_vars, log, mail_vars, bind_vars, cursor, commits>>

(***************************************************************************)
(* Specification.                                                          *)
(***************************************************************************)
TasksMove ==
  /\ TaskNext
  /\ UNCHANGED <<run, about, said, log, mail_vars, bind_vars, cursor_vars>>

TurnsMove ==
  \E e \in Execution : Open(e) \/ Complete(e) \/ PromoteTurn(e) \/ AbandonTurn(e)

MessagesMove ==
  \E m \in Message :
    \/ Submit(m)
    \/ \E e \in Execution : \E n \in DOMAIN run[e].tools : Publish(e, n, m)
    \/ ClaimPending(m) \/ Lapse(m) \/ FallDue(m) \/ Expire(m) \/ Purge(m)
    \/ \E d \in Decision : Respond(m, d) \/ AcknowledgePending(m, d)
    \/ PrepareContextAdmission(m) \/ ConfirmContextAdmission(m)
    \/ \E e \in Execution : ConfirmContextAdmissionFromTurn(e, m)
    \/ Delivers(m, "adapter-submitted") \/ Delivers(m, "failed") \/ SubmissionTrace(m)
    \/ Satisfy(m, TRUE) \/ Satisfy(m, FALSE)

ClaimsMove ==
  \E k \in Epoch :
    \/ \E r \in Incarnation, n \in DOMAIN log : ClaimAttentionEvent(r, k, n)
    \/ \E e \in Execution : BindCompletedAttentionHandler(k, e)
    \/ \E e \in Execution : \E n \in DOMAIN run[e].tools : CommitReceiverDecision(k, e, n)
    \/ PromoteAttentionHandler(k) \/ CommitFinalizedDependencyAttentionHandler(k)
    \/ AbandonAttentionHandler(k) \/ ReopenAbandonedAttentionHandler(k)

AttentionNext ==
  \/ TasksMove \/ TurnsMove \/ MessagesMove \/ ClaimsMove
  \/ \E r \in Incarnation, n \in DOMAIN log : AdvanceAttentionCursor(r, n)

AttentionSpec == AttentionInit /\ [][AttentionNext]_attention_vars

(***************************************************************************)
(* Properties.                                                             *)
(***************************************************************************)

\* Every row has the shape its table allows.
AttentionTypeOK ==
  /\ run \in [Execution -> RunType]
  /\ about \in [Execution -> 0..Len(log)] /\ said \in [Execution -> SaidType]
  /\ log \in Seq(AuditType)
  /\ disp \in [Message -> DispositionType]
  /\ mailbox \in [Message ->
       [state : {"none", "claimed", "lapsed", "acknowledged"}, rev : Nat]]
  /\ admission \in [Message ->
       [state : {"none", "in-flight", "completed"}, rev : Nat, ref : TurnRef \cup {NoRef}]]
  /\ claim \in [Epoch -> ClaimType] /\ decided \in [Epoch -> DecidedType]
  /\ cursor \in [Incarnation -> [at : Nat, rev : Nat, active : Epoch \cup {NoEpoch}]]
  /\ commits \in [Incarnation -> Seq(CommitType)]

\* No event is lost and none is handled twice: a receiver's commits walk its
\* events one by one up to the cursor, and those that say a handler was promoted
\* are, one to one, the claims that were.
CursorExact ==
  /\ \A r \in Incarnation :
       /\ CursorOpens(r)
       /\ {commits[r][n].to : n \in DOMAIN commits[r]} = {n \in EventsOf(r) : n <= cursor[r].at}
       /\ \A n \in DOMAIN commits[r] : commits[r][n].kind = "handler-promoted" =>
            LET k == commits[r][n].source IN
            claim[k].state = "promoted" /\ claim[k].event = commits[r][n].to
  /\ \A k \in Epoch : claim[k].state = "promoted" =>
       \E n \in DOMAIN commits[Receiver(k)] : commits[Receiver(k)][n].source = k

\* A claim that is not promoted is the one its receiver is at: an abandoned
\* claim keeps the receiver where it is until somebody reopens it.
OneOpenClaim ==
  \A k \in Epoch : claim[k].state \notin {"none", "promoted"} => cursor[Receiver(k)].active = k

\* The cursor, the commits and the claims tell one story: both of the above.
CursorKept == AttentionTypeOK /\ CursorExact /\ OneOpenClaim

\* The ways a claim comes to be refused at the next start; there is no other.
ClaimSpoiled(k) ==
  LET m == MessageOfClaim(k) IN
  \/ m \in purged /\ ~claim[k].seen
  \/ claim[k].by # NoExecution /\ run[claim[k].by].state = "abandoned"
  \/ claim[k].state = "promoted" /\ m \in finalized /\ run[claim[k].by].state = "completed"
  \/ claim[k].by # NoExecution /\ admittedBy[m] \notin {NoExecution, claim[k].by}

\* A claim the storage would refuse was spoiled in one of the known ways: its
\* message was purged, its turn given up, its commit made over a finalization
\* without its turn, or its message admitted by another turn.
ClaimsOpen == \A k \in Epoch : ClaimOpens(k) \/ ClaimSpoiled(k)

\* The same of decisions: purged, given up, decided again or expired, claimed
\* from the mailbox a second time, or decided in the turn that handled the event.
DecisionSpoiled(k) ==
  LET m == MessageOfClaim(k) IN
  \/ m \in purged
  \/ run[decided[k].by].state = "abandoned"
  \/ disp[m].decision = "expired" /\ disp[m].delivery = "expired"
  \/ \E n, o \in Entries(m, "mailbox-claimed") : n # o
  \/ claim[k].by = decided[k].by

\* A decision binding the storage would refuse was spoiled in one of these ways.
DecisionsOpen == \A k \in Epoch : DecisionOpens(k) \/ DecisionSpoiled(k)

\* A claim bound to a turn that was then given up holds its receiver for good:
\* nothing binds it to another turn, commits it or moves the cursor past it.
BoundToAbandoned(k) ==
  /\ claim[k].state \in {"completed-bound", "abandoned"} /\ claim[k].by # NoExecution
  /\ run[claim[k].by].state = "abandoned"

HeldForGood ==
  [][\A k \in Epoch : BoundToAbandoned(k) =>
       BoundToAbandoned(k)' /\ UNCHANGED <<cursor[Receiver(k)], commits[Receiver(k)]>>]_attention_vars

(***************************************************************************)
(* What the repository says, and the code does not do.                      *)
(***************************************************************************)

\* docs: purge tombstones survive restart.
PurgeSurvivesRestart ==
  \A m \in purged :
    /\ PublicationOpens(m)
    /\ \A k \in Epoch : claim[k].state # "none" /\ MessageOfClaim(k) = m => ClaimOpens(k)

\* docs: a decided offer survives restart.
DecisionSurvivesRestart == \A k \in Epoch : DecisionOpens(k)

\* docs: the commit over a finalization survives restart.
PromotionSurvivesRestart ==
  \A k \in Epoch : claim[k].state = "promoted" => ClaimOpens(k)

\* docs: an admission in flight is recovered after restart.
AdmissionSurvivesRestart ==
  \A m \in Message : admission[m].state = "in-flight" => PreverifiedOpens(m)
=============================================================================
