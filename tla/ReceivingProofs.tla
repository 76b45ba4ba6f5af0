--------------------------- MODULE ReceivingProofs ---------------------------
(***************************************************************************)
(* Theorems about what a receiver attends to and what it allows: the        *)
(* attention cursor with its claims, decisions and bindings, and the         *)
(* relationships, for any tasks, turns, messages, grants and bounds.        *)
(***************************************************************************)
EXTENDS Attention, Relationships, TaskRegistryProofs, FiniteSetTheorems

(***************************************************************************)
(* Attention: the inductive invariant.                                     *)
(***************************************************************************)
AttentionTypes ==
  /\ TaskTypeOK /\ AttentionTypeOK
  /\ admittedBy \in [Message -> Execution \cup {NoExecution}]

\* A claim is of an event.
ClaimPlaced(k) == claim[k].state # "none" => claim[k].event \in DOMAIN log

\* The cursor stands where its commits led, with nothing skipped, and what is claimed
\* for it is its next event.
CursorSound(r) ==
  /\ cursor[r].at <= Len(log)
  /\ \A n \in DOMAIN commits[r] :
       /\ commits[r][n].from = (IF n = 1 THEN 0 ELSE commits[r][n - 1].to)
       /\ commits[r][n].to > commits[r][n].from
       /\ commits[r][n].kind = "handler-promoted" =>
            LET k == commits[r][n].source IN
            k \in Epoch /\ claim[k].state = "promoted" /\ claim[k].event = commits[r][n].to
  /\ cursor[r].at = (IF commits[r] = <<>> THEN 0 ELSE commits[r][Len(commits[r])].to)
  /\ cursor[r].rev >= Len(commits[r])
  /\ {commits[r][n].to : n \in DOMAIN commits[r]} = {n \in EventsOf(r) : n <= cursor[r].at}
  /\ cursor[r].active # NoEpoch =>
       /\ claim[cursor[r].active].state \notin {"none", "promoted"}
       /\ NextEvent(r, claim[cursor[r].active].event)

PromotedCommitted(k) == claim[k].state = "promoted" =>
  \E n \in DOMAIN commits[Receiver(k)] : commits[Receiver(k)][n].source = k

\* Only purges redact.
RedactedPurged == \A n \in DOMAIN log : log[n].redacted => log[n].message \in purged

\* A turn that reached its end keeps what it was about.
Ended(e) == run[e].state \in {"completed", "promoted", "abandoned"}

\* What the binding of a claim to its turn found.
BindingSound(k) ==
  LET m == MessageOfClaim(k) IN
  /\ claim[k].state \in {"none", "claimed"} => claim[k].by = NoExecution
  /\ claim[k].state \in {"completed-bound", "promoted"} => claim[k].by # NoExecution
  /\ claim[k].state # "none" /\ claim[k].seen => log[claim[k].event].redacted
  /\ claim[k].by # NoExecution =>
       /\ ActorOf[claim[k].by] = Receiver(k) /\ MessageOf[claim[k].by] = m
       /\ Ended(claim[k].by)
       /\ admittedBy[m] = NoExecution => about[claim[k].by] = claim[k].event
       /\ admittedBy[m] = claim[k].by => decided[k].by # NoExecution
  /\ claim[k].state = "promoted" => run[claim[k].by].state = "promoted" \/ m \in finalized

\* The last decision that was audited is the one that stands, or else it expired.
LastHeard(m) == Entries(m, "receiver-decided") # {} =>
  \E l \in Entries(m, "receiver-decided") :
    /\ \A o \in Entries(m, "receiver-decided") : o <= l
    /\ \/ log[l].decision = disp[m].decision
       \/ disp[m].decision = "expired" /\ disp[m].delivery = "expired"

ClaimAudited(m) == mailbox[m].state # "none" => Entries(m, "mailbox-claimed") # {}

\* What the decision found, as long as the message was not purged.
DecisionSound(k) ==
  LET m == MessageOfClaim(k)
      e == decided[k].by
  IN e # NoExecution =>
       /\ claim[k].state # "none"
       /\ Ended(e)
       /\ ActorOf[e] = Receiver(k) /\ MessageOf[e] = m /\ about[e] = claim[k].event
       /\ \E n \in Entries(m, "receiver-decided") :
            log[n].rev = decided[k].rev /\ log[n].decision = decided[k].decision
       /\ m \notin purged =>
            mailbox[m].state = "acknowledged" /\ mailbox[m].rev + 1 = decided[k].rev

WalkInv ==
  /\ \A k \in Epoch : ClaimPlaced(k)
  /\ \A r \in Incarnation : CursorSound(r)
  /\ \A k \in Epoch : PromotedCommitted(k)
  /\ OneOpenClaim

BoundInv ==
  /\ RedactedPurged
  /\ \A k \in Epoch : BindingSound(k)

DecidedInv ==
  /\ \A m \in Message : LastHeard(m) /\ ClaimAudited(m)
  /\ \A k \in Epoch : DecisionSound(k)

AttentionInv == AttentionTypes /\ WalkInv /\ BoundInv /\ DecidedInv

\* A function on an interval is a sequence.
LEMMA FunctionIsSeq ==
  ASSUME NEW S, NEW n \in Nat, NEW f \in [1..n -> S]
  PROVE  f \in Seq(S) /\ Len(f) = n
OBVIOUS

LEMMA AppendKeeps ==
  ASSUME NEW S, NEW f \in Seq(S), NEW x, NEW n \in DOMAIN f
  PROVE  n \in DOMAIN Append(f, x) /\ Append(f, x)[n] = f[n]
OBVIOUS

(***************************************************************************)
(* Types.                                                                  *)
(***************************************************************************)
\* What a step of a message leaves of its row and of the log.
RowsTyped ==
  /\ disp' \in [Message -> DispositionType]
  /\ log' \in Seq(AuditType) /\ Len(log') >= Len(log)

MailTyped == mailbox' \in [Message ->
  [state : {"none", "claimed", "lapsed", "acknowledged"}, rev : Nat]]

AdmissionTyped == admission' \in [Message ->
  [state : {"none", "in-flight", "completed"}, rev : Nat, ref : TurnRef \cup {NoRef}]]

LEMMA AuditsTyped ==
  ASSUME AttentionTypes, disp' \in [Message -> DispositionType],
         NEW m \in Message, NEW word \in AuditWord, NEW rev \in Nat, Audits(m, word, rev)
  PROVE  RowsTyped
<1>1. disp'[m].decision \in DecisionStates /\ "pending" \in DecisionStates
  BY DEF DispositionType, DecisionStates, UndecidedStates
<1>2. [message |-> m, word |-> word, rev |-> rev, redacted |-> FALSE,
       decision |-> IF word = "receiver-decided" THEN disp'[m].decision ELSE "pending"]
        \in AuditType
  BY <1>1 DEF AuditType
<1> QED
  BY <1>2 DEF RowsTyped, Audits, AttentionTypes, AttentionTypeOK

LEMMA MovesTyped ==
  ASSUME AttentionTypes, NEW m \in Message
  PROVE  /\ \A d \in DecisionStates :
              Moves(m, "decision", d) => disp' \in [Message -> DispositionType]
         /\ \A d \in DeliveryStates :
              Moves(m, "delivery", d) => disp' \in [Message -> DispositionType]
         /\ \A o \in OutcomeStates :
              Moves(m, "outcome", o) => disp' \in [Message -> DispositionType]
<1> disp \in [Message -> DispositionType]
  BY DEF AttentionTypes, AttentionTypeOK
<1> QED
  BY DEF Moves, DispositionType

LEMMA RowOf ==
  ASSUME AttentionTypes, NEW m \in Message
  PROVE  /\ disp \in [Message -> DispositionType] /\ disp[m].rev \in Nat
         /\ mailbox \in [Message ->
              [state : {"none", "claimed", "lapsed", "acknowledged"}, rev : Nat]]
         /\ admission \in [Message ->
              [state : {"none", "in-flight", "completed"}, rev : Nat, ref : TurnRef \cup {NoRef}]]
         /\ log \in Seq(AuditType) /\ Len(log) \in Nat
BY DEF AttentionTypes, AttentionTypeOK, DispositionType

LEMMA DecisionsKnown == Decision \subseteq DecisionStates
BY AttentionAssumption

LEMMA RespondsTyped ==
  ASSUME AttentionTypes, NEW m \in Message, NEW d \in DecisionStates, Responds(m, d)
  PROVE  RowsTyped
<1>1. disp' \in [Message -> DispositionType]
  BY MovesTyped DEF Responds
<1> QED
  BY <1>1, AuditsTyped, RowOf DEF Responds, AuditWord

LEMMA AcknowledgesTyped ==
  ASSUME AttentionTypes, NEW m \in Message, NEW d \in DecisionStates, Acknowledges(m, d)
  PROVE  RowsTyped /\ MailTyped
BY RespondsTyped, RowOf DEF Acknowledges, MailTyped

LEMMA ReceivedTyped ==
  ASSUME AttentionTypes, NEW m \in Message, Received(m)
  PROVE  RowsTyped
<1>1. disp' \in [Message -> DispositionType]
  <2>1. "durably-received" \in DeliveryStates
    BY DEF DeliveryStates, NonTerminalDelivery
  <2>2. disp' = [disp EXCEPT ![m].delivery = "durably-received"]
    BY DEF Received
  <2>3. disp \in [Message -> DispositionType]
    BY RowOf
  <2> QED
    BY <2>1, <2>2, <2>3 DEF DispositionType
<1> QED
  BY <1>1, AuditsTyped DEF Received, AuditWord

LEMMA ConfirmsTyped ==
  ASSUME AttentionTypes, NEW m \in Message, Confirms(m)
  PROVE  RowsTyped /\ AdmissionTyped
<1>1. disp' \in [Message -> DispositionType]
  BY RowOf, MovesTyped DEF Confirms, DeliveryStates, NonTerminalDelivery
<1>2. disp'[m].rev \in Nat
  BY <1>1 DEF DispositionType
<1>3. RowsTyped
  BY <1>1, <1>2, AuditsTyped DEF Confirms, AuditWord
<1>4. AdmissionTyped
  BY RowOf DEF Confirms, AdmissionTyped
<1> QED
  BY <1>3, <1>4

LEMMA PurgeTyped ==
  ASSUME AttentionTypes, NEW m \in Message, Purge(m)
  PROVE  RowsTyped /\ MailTyped
<1> USE RowOf
<1>1. MailTyped
  BY DEF Purge, MailTyped
<1> DEFINE Cut(n) == IF log[n].message = m THEN [log[n] EXCEPT !.redacted = TRUE] ELSE log[n]
           Old == [n \in DOMAIN log |-> Cut(n)]
           New == [message |-> m, word |-> "other", rev |-> disp[m].rev, redacted |-> FALSE,
                   decision |-> "pending"]
<1>2. New \in AuditType
  BY DEF AuditType, AuditWord, DecisionStates, UndecidedStates
<1>3. ASSUME NEW n \in 1..Len(log) PROVE Cut(n) \in AuditType
  <2>1. log[n] \in AuditType
    OBVIOUS
  <2>2. [log[n] EXCEPT !.redacted = TRUE] \in AuditType
    BY <2>1 DEF AuditType
  <2> QED
    BY <2>1, <2>2
<1>4. Old \in Seq(AuditType) /\ Len(Old) = Len(log)
  <2>1. DOMAIN log = 1..Len(log)
    OBVIOUS
  <2> HIDE DEF Cut
  <2>2. Old \in [1..Len(log) -> AuditType]
    BY <1>3, <2>1
  <2>3. Len(log) \in Nat
    OBVIOUS
  <2> HIDE DEF Old
  <2> QED
    BY <2>2, <2>3, FunctionIsSeq
<1>5. log' = Append(Old, New)
  BY DEF Purge
<1> HIDE DEF Old, New
<1>6. log' \in Seq(AuditType) /\ Len(log') >= Len(log)
  BY <1>2, <1>4, <1>5
<1> QED
  BY <1>1, <1>6 DEF RowsTyped, Purge

\* A step of a message is no step of a turn or a claim.
MessageTyped ==
  /\ RowsTyped /\ MailTyped /\ AdmissionTyped
  /\ admittedBy' \in [Message -> Execution \cup {NoExecution}]
  /\ TaskTypeOK'
  /\ UNCHANGED <<run, about, said, decided, cursor_vars>>

LEMMA RestTyped ==
  ASSUME AttentionTypes
  PROVE  /\ UNCHANGED <<disp, log>> => RowsTyped
         /\ UNCHANGED mailbox => MailTyped
         /\ UNCHANGED admission => AdmissionTyped
         /\ UNCHANGED admittedBy => admittedBy' \in [Message -> Execution \cup {NoExecution}]
         /\ UNCHANGED registry_vars => TaskTypeOK'
<1>1. UNCHANGED <<disp, log>> => RowsTyped
  BY DEF AttentionTypes, AttentionTypeOK, RowsTyped
<1> QED
  BY <1>1
     DEF AttentionTypes, AttentionTypeOK, MailTyped, AdmissionTyped, TaskTypeOK, registry_vars

LEMMA MessageSteps ==
  ASSUME AttentionTypes, MessagesMove
  PROVE  MessageTyped
<1> USE RestTyped DEF MessageTyped, turn_vars, run_vars, bind_vars
<1>1. ASSUME NEW m \in Message, Submit(m) PROVE MessageTyped
  BY <1>1, ReceivedTyped DEF Submit, Received
<1>2. ASSUME NEW m \in Message, NEW e \in Execution, NEW n, Publish(e, n, m) PROVE MessageTyped
  BY <1>2, ReceivedTyped DEF Publish, Received
<1>3. ASSUME NEW m \in Message, ClaimPending(m) PROVE MessageTyped
  <2>1. RowsTyped
    BY <1>3, AuditsTyped, RowOf DEF ClaimPending, AuditWord
  <2>2. MailTyped
    BY <1>3, RowOf DEF ClaimPending, MailTyped
  <2> QED
    BY <1>3, <2>1, <2>2 DEF ClaimPending
<1>4. ASSUME NEW m \in Message, Lapse(m) \/ FallDue(m) PROVE MessageTyped
  <2>1. \E state \in {"none", "claimed", "lapsed", "acknowledged"} :
           mailbox' = [mailbox EXCEPT ![m].state = state]
    BY <1>4, RowOf DEF Lapse, FallDue
  <2>2. MailTyped
    BY <2>1, RowOf DEF MailTyped
  <2> QED
    BY <1>4, <2>2 DEF Lapse, FallDue
<1>5. ASSUME NEW m \in Message, Expire(m) PROVE MessageTyped
  <2>1. disp' \in [Message -> DispositionType]
    <3>1. "expired" \in DeliveryStates /\ "expired" \in DecisionStates
      BY DEF DeliveryStates, TerminalDelivery, DecisionStates
    <3>2. disp' = [disp EXCEPT ![m].delivery = "expired", ![m].rev = @ + 1,
                     ![m].decision = IF @ \in UndecidedStates THEN "expired" ELSE @]
      BY <1>5 DEF Expire
    <3>3. disp \in [Message -> DispositionType]
      BY RowOf
    <3> QED
      BY <3>1, <3>2, <3>3 DEF DispositionType
  <2>2. RowsTyped
    BY <1>5, <2>1, AuditsTyped, RowOf DEF Expire, AuditWord
  <2> QED
    BY <1>5, <2>2 DEF Expire
<1>6. ASSUME NEW m \in Message, Purge(m) PROVE MessageTyped
  BY <1>6, PurgeTyped DEF Purge
<1>7. ASSUME NEW m \in Message, NEW d \in Decision, Respond(m, d) PROVE MessageTyped
  BY <1>7, RespondsTyped, DecisionsKnown DEF Respond
<1>8. ASSUME NEW m \in Message, NEW d \in Decision, AcknowledgePending(m, d) PROVE MessageTyped
  BY <1>8, AcknowledgesTyped, DecisionsKnown DEF AcknowledgePending
<1>9. ASSUME NEW m \in Message, PrepareContextAdmission(m) PROVE MessageTyped
  <2>1. AdmissionTyped
    BY <1>9, RowOf DEF PrepareContextAdmission, AdmissionTyped
  <2> QED
    BY <1>9, <2>1 DEF PrepareContextAdmission
<1>10. ASSUME NEW m \in Message, ConfirmContextAdmission(m) PROVE MessageTyped
  BY <1>10, ConfirmsTyped DEF ConfirmContextAdmission
<1>11. ASSUME NEW m \in Message, NEW e \in Execution, ConfirmContextAdmissionFromTurn(e, m)
       PROVE  MessageTyped
  <2>1. admittedBy' \in [Message -> Execution \cup {NoExecution}]
    BY <1>11 DEF ConfirmContextAdmissionFromTurn, AttentionTypes
  <2> QED
    BY <1>11, <2>1, ConfirmsTyped DEF ConfirmContextAdmissionFromTurn
<1>12. ASSUME NEW m \in Message, NEW d \in {"adapter-submitted", "failed"}, Delivers(m, d)
       PROVE  MessageTyped
  <2>1. d \in DeliveryStates
    BY DEF DeliveryStates, TerminalDelivery
  <2>2. disp' \in [Message -> DispositionType]
    BY <1>12, <2>1, MovesTyped DEF Delivers
  <2>3. RowsTyped
    BY <1>12, <2>2, AuditsTyped, RowOf DEF Delivers, AuditWord
  <2> QED
    BY <1>12, <2>3 DEF Delivers
<1>13. ASSUME NEW m \in Message, SubmissionTrace(m) PROVE MessageTyped
  <2>1. RowsTyped
    BY <1>13, AuditsTyped, RowOf DEF SubmissionTrace, AuditWord
  <2> QED
    BY <1>13, <2>1 DEF SubmissionTrace
<1>14. ASSUME NEW m \in Message, NEW g \in BOOLEAN, Satisfy(m, g) PROVE MessageTyped
  <2>1. disp' \in [Message -> DispositionType]
    BY <1>14, MovesTyped DEF Satisfy, OutcomeStates
  <2>2. RowsTyped
    BY <1>14, <2>1, AuditsTyped, RowOf DEF Satisfy, AuditWord
  <2>3. task' \in [Incarnation -> TaskType]
    BY <1>14, UnlockKeeps, AttentionAssumption DEF Satisfy, AttentionTypes
  <2>4. TaskTypeOK'
    BY <1>14, <2>3 DEF Satisfy, AttentionTypes, TaskTypeOK
  <2> QED
    BY <1>14, <2>2, <2>4 DEF Satisfy
<1> QED
  BY <1>1, <1>2, <1>3, <1>4, <1>5, <1>6, <1>7, <1>8, <1>9, <1>10, <1>11, <1>12, <1>13, <1>14
     DEF MessagesMove

\* A step of a turn is its own, and keeps what the turn was about once it is open.
TurnTyped ==
  /\ run' \in [Execution -> RunType]
  /\ about' \in [Execution -> 0..Len(log)]
  /\ said' \in [Execution -> SaidType]
  /\ UNCHANGED <<registry_vars, log, mail_vars, bind_vars, cursor_vars>>
  /\ \A e \in Execution : Ended(e) =>
       Ended(e)' /\ about'[e] = about[e] /\ (run[e].state # "completed" => run'[e] = run[e])

LEMMA RunOf ==
  ASSUME AttentionTypes
  PROVE  /\ run \in [Execution -> RunType] /\ about \in [Execution -> 0..Len(log)]
         /\ said \in [Execution -> SaidType]
         /\ task \in [Incarnation -> TaskType]
BY DEF AttentionTypes, AttentionTypeOK, TaskTypeOK

LEMMA TurnSteps ==
  ASSUME AttentionTypes, \A k \in Epoch : ClaimPlaced(k), TurnsMove
  PROVE  TurnTyped
<1> USE RunOf DEF TurnTyped, Ended
<1>1. ASSUME NEW e \in Execution, Open(e) PROVE TurnTyped
  <2>1. run[e].state = "none"
    BY <1>1 DEF Open, Opens
  <2>2. task[ActorOf[e]] \in TaskType /\ task[ActorOf[e]].ref \in TurnRef
    BY <1>1, LifeAssumption DEF Open, Opens
  <2> DEFINE row == [state |-> "open", ref |-> task[ActorOf[e]].ref, rev |-> task[ActorOf[e]].rev,
                     tools |-> <<>>]
  <2>3. row \in RunType /\ row.state = "open" /\ run' = [run EXCEPT ![e] = row]
    <3>1. row.rev \in Nat
      BY <2>2 DEF TaskType
    <3>2. row \in RunType
      BY <2>2, <3>1 DEF RunType
    <3> QED
      BY <1>1, <3>2 DEF Open, Opens
  <2> HIDE DEF row
  <2>4. about' \in [Execution -> 0..Len(log)] /\ \A o \in Execution \ {e} : about'[o] = about[o]
    <3>1. CASE UNCHANGED about
      BY <3>1
    <3>2. ASSUME NEW k \in Epoch, claim[k].state # "none",
                 about' = [about EXCEPT ![e] = claim[k].event]
          PROVE  <2>4!1
      BY <3>2, RowOf, AttentionAssumption DEF ClaimPlaced
    <3> QED
      BY <1>1, <3>1, <3>2 DEF Open
  <2> QED
    BY <1>1, <2>1, <2>3, <2>4 DEF Open
<1>2. ASSUME NEW e \in Execution, Complete(e) PROVE TurnTyped
  <2>1. PICK tools \in ToolLists : Completes(e, tools)
    BY <1>2 DEF Complete
  <2>2. run[e].state = "open" /\ tools \in Seq(Tool)
    BY <2>1, LifeAssumption, FunctionIsSeq DEF Completes, ToolLists
  <2>3. run' = [run EXCEPT ![e] = [run[e] EXCEPT !.state = "completed", !.tools = tools]]
    BY <2>1 DEF Completes
  <2>4. [run[e] EXCEPT !.state = "completed", !.tools = tools] \in RunType
    BY <2>2 DEF RunType
  <2>5. said' \in [Execution -> SaidType]
    <3>1. CASE UNCHANGED said
      BY <3>1
    <3>2. ASSUME NEW d \in Decision,
                 said' = [said EXCEPT ![e] = [decision |-> d, rev |-> disp[MessageOf[e]].rev + 1]]
          PROVE  said' \in [Execution -> SaidType]
      <4>1. disp[MessageOf[e]].rev \in Nat
        BY RowOf, AttentionAssumption
      <4>2. [decision |-> d, rev |-> disp[MessageOf[e]].rev + 1] \in SaidType
        BY <4>1, DecisionsKnown DEF SaidType
      <4> QED
        BY <3>2, <4>2
    <3> QED
      BY <1>2, <3>1, <3>2 DEF Complete
  <2> QED
    BY <1>2, <2>2, <2>3, <2>4, <2>5 DEF Complete
<1>3. ASSUME NEW e \in Execution, PromoteTurn(e) PROVE TurnTyped
  BY <1>3 DEF PromoteTurn, Promotes, RunType
<1>4. ASSUME NEW e \in Execution, AbandonTurn(e) PROVE TurnTyped
  <2>1. [NoTurnYet EXCEPT !.state = "abandoned"] \in RunType
    <3>1. [NoTurnYet EXCEPT !.state = "abandoned"]
            = [state |-> "abandoned", ref |-> NoRef, rev |-> 0, tools |-> <<>>]
      BY DEF NoTurnYet
    <3>2. <<>> \in Seq(Tool)
      OBVIOUS
    <3>3. [state |-> "abandoned", ref |-> NoRef, rev |-> 0, tools |-> <<>>] \in RunType
      BY <3>2 DEF RunType
    <3> QED
      BY <3>1, <3>3
  <2>2. run' = [run EXCEPT ![e] = [NoTurnYet EXCEPT !.state = "abandoned"]]
    BY <1>4 DEF AbandonTurn, Abandons
  <2>3. [NoTurnYet EXCEPT !.state = "abandoned"].state = "abandoned"
    BY DEF NoTurnYet
  <2>4. run[e].state \in {"open", "completed"}
    BY <1>4 DEF AbandonTurn, Abandons
  <2> QED
    BY <1>4, <2>1, <2>2, <2>3, <2>4 DEF AbandonTurn
<1> QED
  BY <1>1, <1>2, <1>3, <1>4 DEF TurnsMove

LEMMA ClaimOf ==
  ASSUME AttentionTypes
  PROVE  /\ claim \in [Epoch -> ClaimType] /\ decided \in [Epoch -> DecidedType]
         /\ cursor \in [Incarnation -> [at : Nat, rev : Nat, active : Epoch \cup {NoEpoch}]]
         /\ commits \in [Incarnation -> Seq(CommitType)]
         /\ log \in Seq(AuditType) /\ Len(log) \in Nat /\ DOMAIN log = 1..Len(log)
         /\ \A n \in DOMAIN log : log[n].message \in Message /\ log[n].redacted \in BOOLEAN
<1>1. log \in Seq(AuditType)
  BY DEF AttentionTypes, AttentionTypeOK
<1>2. Len(log) \in Nat /\ DOMAIN log = 1..Len(log)
  BY <1>1
<1>3. ASSUME NEW n \in 1..Len(log) PROVE log[n].message \in Message /\ log[n].redacted \in BOOLEAN
  <2>1. log[n] \in AuditType
    BY <1>1
  <2> QED
    BY <2>1 DEF AuditType
<1> QED
  BY <1>1, <1>2, <1>3 DEF AttentionTypes, AttentionTypeOK

LEMMA ClaimAt ==
  ASSUME AttentionTypes, NEW k \in Epoch, ClaimPlaced(k), claim[k].state # "none"
  PROVE  /\ MessageOfClaim(k) \in Message /\ Receiver(k) \in Incarnation
         /\ claim[k].event \in EventsOf(Receiver(k))
BY ClaimOf, AttentionAssumption DEF MessageOfClaim, Receiver, ClaimPlaced, EventsOf

\* What is claimed, where the cursors stand and what they committed.
CursorTyped ==
  /\ claim' \in [Epoch -> ClaimType]
  /\ cursor' \in [Incarnation -> [at : Nat, rev : Nat, active : Epoch \cup {NoEpoch}]]
  /\ commits' \in [Incarnation -> Seq(CommitType)]

LEMMA CursorClaims ==
  ASSUME AttentionTypes, NEW r \in Incarnation, NEW k \in Epoch,
         cursor' = [cursor EXCEPT ![r].active = k, ![r].rev = @ + 1]
  PROVE  /\ cursor' = [cursor EXCEPT ![r] =
                         [at |-> cursor[r].at, rev |-> cursor[r].rev + 1, active |-> k]]
         /\ cursor' \in [Incarnation -> [at : Nat, rev : Nat, active : Epoch \cup {NoEpoch}]]
<1> DEFINE Row == [at : Nat, rev : Nat, active : Epoch \cup {NoEpoch}]
           row == [at |-> cursor[r].at, rev |-> cursor[r].rev + 1, active |-> k]
<1>1. cursor \in [Incarnation -> Row]
  BY ClaimOf
<1>2. row \in Row
  BY <1>1
<1>3. [cursor[r] EXCEPT !.active = k, !.rev = @ + 1] = row
  BY <1>1
<1>4. cursor' = [cursor EXCEPT ![r] = [cursor[r] EXCEPT !.active = k, !.rev = @ + 1]]
  BY <1>1
<1>5. cursor' = [cursor EXCEPT ![r] = row]
  BY <1>3, <1>4
<1> HIDE DEF Row, row
<1> QED
  BY <1>1, <1>2, <1>5 DEF row, Row

LEMMA CommitTyped ==
  ASSUME AttentionTypes, NEW r \in Incarnation, NEW n \in Nat,
         NEW kind \in {"irrelevant-skip", "handler-promoted"}, NEW k \in Epoch \cup {NoEpoch},
         CommitTo(r, n, kind, k)
  PROVE  /\ cursor' \in [Incarnation -> [at : Nat, rev : Nat, active : Epoch \cup {NoEpoch}]]
         /\ commits' \in [Incarnation -> Seq(CommitType)]
<1> USE ClaimOf
<1>1. [from |-> cursor[r].at, to |-> n, kind |-> kind, source |-> k] \in CommitType
  BY DEF CommitType
<1>2. commits[r] \in Seq(CommitType)
  OBVIOUS
<1>3. Append(commits[r], [from |-> cursor[r].at, to |-> n, kind |-> kind, source |-> k])
        \in Seq(CommitType)
  BY <1>1, <1>2
<1>4. commits' \in [Incarnation -> Seq(CommitType)]
  BY <1>3 DEF CommitTo
<1>5. cursor' \in [Incarnation -> [at : Nat, rev : Nat, active : Epoch \cup {NoEpoch}]]
  BY DEF CommitTo
<1> QED
  BY <1>4, <1>5

LEMMA CommitClaimTyped ==
  ASSUME AttentionTypes, NEW k \in Epoch, ClaimPlaced(k), CommitClaim(k)
  PROVE  CursorTyped
<1> USE ClaimOf
<1>1. claim[k].event \in Nat /\ Receiver(k) \in Incarnation
  BY ClaimAt DEF CommitClaim, ClaimType
<1>2. claim' \in [Epoch -> ClaimType]
  BY DEF CommitClaim, ClaimType
<1> QED
  BY <1>1, <1>2, CommitTyped DEF CommitClaim, CursorTyped

LEMMA DecisionTyped ==
  ASSUME AttentionTypes, NEW k \in Epoch, NEW e \in Execution, NEW n, ClaimPlaced(k),
         CommitReceiverDecision(k, e, n)
  PROVE  RowsTyped /\ MailTyped /\ decided' \in [Epoch -> DecidedType]
<1>1. said[e].decision \in DecisionStates /\ said[e].rev \in Nat
  BY RunOf DEF SaidType
<1>2. MessageOfClaim(k) \in Message
  BY ClaimAt DEF CommitReceiverDecision
<1>3. RowsTyped /\ MailTyped
  BY <1>1, <1>2, AcknowledgesTyped DEF CommitReceiverDecision
<1>4. decided' \in [Epoch -> DecidedType]
  BY <1>1, ClaimOf DEF CommitReceiverDecision, DecidedType
<1> QED
  BY <1>3, <1>4

LEMMA AttentionTypesInit == AttentionInit => AttentionTypes
<1> SUFFICES ASSUME AttentionInit PROVE AttentionTypes
  OBVIOUS
<1> USE DEF AttentionInit
<1>1. TaskTypeOK
  BY TaskTypeInit
<1>2. run \in [Execution -> RunType]
  <2>1. <<>> \in Seq(Tool)
    OBVIOUS
  <2>2. NoTurnYet \in RunType
    BY <2>1 DEF NoTurnYet, RunType
  <2> QED
    BY <2>2 DEF RunInit
<1>3. log = <<>> /\ log \in Seq(AuditType) /\ Len(log) = 0
  OBVIOUS
<1>4. about \in [Execution -> 0..Len(log)]
  BY <1>3
<1>5. said \in [Execution -> SaidType]
  BY DEF SaidType, Silent, DecisionStates, UndecidedStates
<1>6. disp \in [Message -> DispositionType]
  BY DEF DispositionType, DecisionStates, UndecidedStates, OutcomeStates
<1>7. claim \in [Epoch -> ClaimType]
  BY DEF ClaimType, NoClaim
<1>8. decided \in [Epoch -> DecidedType]
  BY DEF DecidedType, DecisionStates, UndecidedStates
<1>9. commits \in [Incarnation -> Seq(CommitType)]
  OBVIOUS
<1> QED
  BY <1>1, <1>2, <1>3, <1>4, <1>5, <1>6, <1>7, <1>8, <1>9 DEF AttentionTypes, AttentionTypeOK

LEMMA SameTyped ==
  ASSUME AttentionTypes, UNCHANGED <<turn_vars, log, mail_vars, bind_vars>>, CursorTyped
  PROVE  AttentionTypes'
BY DEF AttentionTypes, AttentionTypeOK, CursorTyped, turn_vars, run_vars, mail_vars, bind_vars,
       registry_vars, TaskTypeOK

LEMMA AttentionTypesNext ==
  ASSUME AttentionTypes, \A k \in Epoch : ClaimPlaced(k), AttentionNext
  PROVE  AttentionTypes'
<1>1. CASE TasksMove
  <2>1. TaskTypeOK'
    BY <1>1, TaskStep DEF TasksMove, AttentionTypes
  <2> QED
    BY <1>1, <2>1
       DEF TasksMove, AttentionTypes, AttentionTypeOK, mail_vars, bind_vars, cursor_vars
<1>2. CASE TurnsMove
  <2>1. TurnTyped
    BY <1>2, TurnSteps
  <2>2. TaskTypeOK'
    BY <2>1 DEF TurnTyped, AttentionTypes, TaskTypeOK, registry_vars
  <2> QED
    BY <2>1, <2>2
       DEF TurnTyped, AttentionTypes, AttentionTypeOK, mail_vars, bind_vars, cursor_vars
<1>3. CASE MessagesMove
  <2>1. MessageTyped
    BY <1>3, MessageSteps
  <2>2. about \in [Execution -> 0..Len(log')]
    BY <2>1, RunOf, ClaimOf DEF MessageTyped, RowsTyped
  <2> QED
    BY <2>1, <2>2
       DEF MessageTyped, RowsTyped, MailTyped, AdmissionTyped, AttentionTypes, AttentionTypeOK,
           cursor_vars
<1>4. ASSUME NEW k \in Epoch, NEW r \in Incarnation, NEW n \in DOMAIN log,
             ClaimAttentionEvent(r, k, n)
      PROVE  AttentionTypes'
  <2>1. claim' \in [Epoch -> ClaimType]
    <3>1. [state |-> "claimed", event |-> n, seen |-> log[n].redacted, by |-> NoExecution]
            \in ClaimType
      BY ClaimOf DEF ClaimType
    <3> QED
      BY <1>4, <3>1, ClaimOf DEF ClaimAttentionEvent
  <2>2. cursor' \in [Incarnation -> [at : Nat, rev : Nat, active : Epoch \cup {NoEpoch}]]
    BY <1>4, CursorClaims DEF ClaimAttentionEvent
  <2> QED
    BY <1>4, <2>1, <2>2, SameTyped, ClaimOf DEF ClaimAttentionEvent, CursorTyped
<1>5. ASSUME NEW k \in Epoch, NEW e \in Execution, BindCompletedAttentionHandler(k, e)
      PROVE  AttentionTypes'
  <2>1. claim' \in [Epoch -> ClaimType]
    BY <1>5, ClaimOf DEF BindCompletedAttentionHandler, ClaimType
  <2> QED
    BY <1>5, <2>1, SameTyped, ClaimOf DEF BindCompletedAttentionHandler, CursorTyped
<1>6. ASSUME NEW k \in Epoch, NEW e \in Execution, NEW n, CommitReceiverDecision(k, e, n)
      PROVE  AttentionTypes'
  <2>1. RowsTyped /\ MailTyped /\ decided' \in [Epoch -> DecidedType]
    BY <1>6, DecisionTyped
  <2>2. about \in [Execution -> 0..Len(log')]
    BY <2>1, RunOf, ClaimOf DEF RowsTyped
  <2> QED
    BY <1>6, <2>1, <2>2
       DEF CommitReceiverDecision, RowsTyped, MailTyped, AttentionTypes, AttentionTypeOK,
           turn_vars, run_vars, registry_vars, cursor_vars, TaskTypeOK
<1>7. ASSUME NEW k \in Epoch,
             PromoteAttentionHandler(k) \/ CommitFinalizedDependencyAttentionHandler(k)
      PROVE  AttentionTypes'
  BY <1>7, CommitClaimTyped, SameTyped
     DEF PromoteAttentionHandler, CommitFinalizedDependencyAttentionHandler, CommitClaim
<1>8. ASSUME NEW k \in Epoch, AbandonAttentionHandler(k) \/ ReopenAbandonedAttentionHandler(k)
      PROVE  AttentionTypes'
  <2>1. claim' \in [Epoch -> ClaimType]
    <3>1. \E state \in {"claimed", "completed-bound", "abandoned"} :
             claim' = [claim EXCEPT ![k].state = state]
      BY <1>8, ClaimOf DEF AbandonAttentionHandler, ReopenAbandonedAttentionHandler
    <3> QED
      BY <3>1, ClaimOf DEF ClaimType
  <2> QED
    BY <1>8, <2>1, SameTyped, ClaimOf
       DEF AbandonAttentionHandler, ReopenAbandonedAttentionHandler, CursorTyped
<1>9. ASSUME NEW r \in Incarnation, NEW n \in DOMAIN log, AdvanceAttentionCursor(r, n)
      PROVE  AttentionTypes'
  BY <1>9, CommitTyped, SameTyped, ClaimOf DEF AdvanceAttentionCursor, CursorTyped
<1> QED
  BY <1>1, <1>2, <1>3, <1>4, <1>5, <1>6, <1>7, <1>8, <1>9 DEF AttentionNext, ClaimsMove

(***************************************************************************)
(* The log only grows, and a purge only redacts.                           *)
(***************************************************************************)
SameEntry(n) ==
  /\ log'[n].message = log[n].message /\ log'[n].word = log[n].word
  /\ log'[n].rev = log[n].rev /\ log'[n].decision = log[n].decision
  /\ log[n].redacted => log'[n].redacted
  /\ log'[n].redacted /\ ~log[n].redacted => log[n].message \in purged'

LogGrows ==
  /\ DOMAIN log \subseteq DOMAIN log' /\ Len(log') >= Len(log) /\ DOMAIN log' = 1..Len(log')
  /\ purged \subseteq purged'
  /\ \A n \in DOMAIN log : SameEntry(n)
  /\ \A n \in DOMAIN log' \ DOMAIN log : ~log'[n].redacted

\* A step writes nothing, or one entry at the end.
Written(m, word, rev) ==
  /\ Audits(m, word, rev)
  /\ UNCHANGED purged

LogStep ==
  \/ UNCHANGED <<log, purged>>
  \/ \E m \in Message, word \in AuditWord, rev \in Nat : Written(m, word, rev)
  \/ \E m \in Message : Purge(m)

LEMMA LogGrowth ==
  ASSUME AttentionTypes, LogStep
  PROVE  LogGrows
<1> USE ClaimOf DEF LogGrows, SameEntry
<1>1. CASE UNCHANGED <<log, purged>>
  BY <1>1
<1>2. ASSUME NEW m \in Message, NEW word \in AuditWord, NEW rev \in Nat, Written(m, word, rev)
      PROVE  LogGrows
  BY <1>2 DEF Written, Audits
<1>3. ASSUME NEW m \in Message, Purge(m) PROVE LogGrows
  <2> DEFINE Cut(n) == IF log[n].message = m THEN [log[n] EXCEPT !.redacted = TRUE] ELSE log[n]
             Old == [n \in DOMAIN log |-> Cut(n)]
             New == [message |-> m, word |-> "other", rev |-> disp[m].rev, redacted |-> FALSE,
                     decision |-> "pending"]
  <2>1. ASSUME NEW n \in DOMAIN log
        PROVE  /\ Cut(n).message = log[n].message /\ Cut(n).word = log[n].word
               /\ Cut(n).rev = log[n].rev /\ Cut(n).decision = log[n].decision
               /\ log[n].redacted => Cut(n).redacted
               /\ Cut(n).redacted /\ ~log[n].redacted => log[n].message = m
               /\ Cut(n) \in AuditType
    <3>1. log[n] \in AuditType
      OBVIOUS
    <3> QED
      BY <3>1 DEF AuditType
  <2>2. log' = Append(Old, New) /\ purged' = purged \cup {m}
    BY <1>3 DEF Purge
  <2>3. ~New.redacted
    OBVIOUS
  <2> HIDE DEF Cut, New
  <2>4. Old \in Seq(AuditType) /\ Len(Old) = Len(log) /\ \A n \in DOMAIN log : Old[n] = Cut(n)
    <3>1. Old \in [1..Len(log) -> AuditType]
      BY <2>1
    <3>2. \A n \in DOMAIN log : Old[n] = Cut(n)
      OBVIOUS
    <3> HIDE DEF Old
    <3> QED
      BY <3>1, <3>2, FunctionIsSeq
  <2> HIDE DEF Old
  <2>5. /\ Len(log') = Len(log) + 1 /\ DOMAIN log' = 1..Len(log')
        /\ \A n \in DOMAIN log : log'[n] = Cut(n)
        /\ log'[Len(log')] = New
    BY <2>2, <2>4
  <2> QED
    BY <2>1, <2>2, <2>3, <2>5
<1> QED
  BY <1>1, <1>2, <1>3 DEF LogStep

LEMMA MessageWrites ==
  ASSUME AttentionTypes, MessagesMove
  PROVE  LogStep
<1> USE RowOf DEF AuditWord, LogStep, Written
<1>1. ASSUME NEW m \in Message,
             \/ Submit(m)
             \/ \E e \in Execution : \E n \in DOMAIN run[e].tools : Publish(e, n, m)
      PROVE  LogStep
  BY <1>1 DEF Submit, Publish, Received
<1>2. ASSUME NEW m \in Message, ClaimPending(m) \/ Lapse(m) \/ FallDue(m) \/ Expire(m) \/ Purge(m)
      PROVE  LogStep
  <2>1. CASE ClaimPending(m)
    BY <2>1 DEF ClaimPending
  <2>2. CASE Lapse(m) \/ FallDue(m) \/ Purge(m)
    BY <2>2 DEF Lapse, FallDue
  <2>3. CASE Expire(m)
    <3>1. Written(m, "other", disp[m].rev + 1)
      BY <2>3 DEF Expire
    <3> QED
      BY <3>1
  <2> QED
    BY <1>2, <2>1, <2>2, <2>3
<1>3. ASSUME NEW m \in Message, NEW d \in Decision, Respond(m, d) \/ AcknowledgePending(m, d)
      PROVE  LogStep
  <2>1. Written(m, "receiver-decided", disp[m].rev + 1)
    BY <1>3 DEF Respond, AcknowledgePending, Acknowledges, Responds
  <2> QED
    BY <2>1
<1>4. ASSUME NEW m \in Message,
             \/ ConfirmContextAdmission(m)
             \/ \E e \in Execution : ConfirmContextAdmissionFromTurn(e, m)
      PROVE  LogStep
  <2>1. disp' \in [Message -> DispositionType]
    BY <1>4, ConfirmsTyped DEF ConfirmContextAdmission, ConfirmContextAdmissionFromTurn, RowsTyped
  <2>2. disp'[m].rev \in Nat
    BY <2>1 DEF DispositionType
  <2> QED
    BY <1>4, <2>2 DEF ConfirmContextAdmission, ConfirmContextAdmissionFromTurn, Confirms
<1>5. ASSUME NEW m \in Message,
             \/ PrepareContextAdmission(m) \/ SubmissionTrace(m)
             \/ Delivers(m, "adapter-submitted") \/ Delivers(m, "failed")
             \/ Satisfy(m, TRUE) \/ Satisfy(m, FALSE)
      PROVE  LogStep
  BY <1>5 DEF PrepareContextAdmission, SubmissionTrace, Delivers, Satisfy
<1> QED
  BY <1>1, <1>2, <1>3, <1>4, <1>5 DEF MessagesMove

(***************************************************************************)
(* The cursor.                                                             *)
(***************************************************************************)
Claims(r, k, n) ==
  /\ claim[k].state = "none" /\ cursor[r].active = NoEpoch /\ NextEvent(r, n)
  /\ claim' = [claim EXCEPT ![k] =
       [state |-> "claimed", event |-> n, seen |-> log[n].redacted, by |-> NoExecution]]
  /\ cursor' = [cursor EXCEPT ![r] =
       [at |-> cursor[r].at, rev |-> cursor[r].rev + 1, active |-> k]]
  /\ UNCHANGED commits

\* The claim stays an open one of its event.
StaysOpen(k) ==
  /\ claim[k].state \notin {"none", "promoted"}
  /\ claim'[k].state \notin {"none", "promoted"} /\ claim'[k].event = claim[k].event
  /\ \A o \in Epoch \ {k} : claim'[o] = claim[o]
  /\ claim[k].state \in {"completed-bound", "abandoned"} /\ claim[k].by # NoExecution =>
       claim'[k].state \in {"completed-bound", "abandoned"} /\ claim'[k].by = claim[k].by
  /\ UNCHANGED <<cursor, commits>>

Skips(r, n) ==
  /\ cursor[r].active = NoEpoch /\ NextEvent(r, n)
  /\ CommitTo(r, n, "irrelevant-skip", NoEpoch)
  /\ UNCHANGED claim

CursorStep ==
  \/ LogGrows /\ UNCHANGED cursor_vars
  \/ /\ UNCHANGED log
     /\ \/ \E r \in Incarnation, k \in Epoch, n \in DOMAIN log : Claims(r, k, n)
        \/ \E k \in Epoch : StaysOpen(k) \/ (CommitClaim(k) /\ Finished(claim[k].by))
        \/ \E r \in Incarnation, n \in DOMAIN log : Skips(r, n)

LEMMA CursorSteps ==
  ASSUME AttentionTypes, \A k \in Epoch : ClaimPlaced(k), AttentionNext
  PROVE  CursorStep
<1> USE DEF CursorStep
<1>1. CASE TasksMove
  BY <1>1, LogGrowth DEF TasksMove, LogStep, mail_vars, cursor_vars
<1>2. CASE TurnsMove
  BY <1>2, TurnSteps, LogGrowth DEF TurnTyped, LogStep, mail_vars, cursor_vars
<1>3. CASE MessagesMove
  BY <1>3, MessageSteps, MessageWrites, LogGrowth DEF MessageTyped
<1>4. ASSUME NEW k \in Epoch, NEW r \in Incarnation, NEW n \in DOMAIN log,
             ClaimAttentionEvent(r, k, n)
      PROVE  CursorStep
  BY <1>4, CursorClaims DEF ClaimAttentionEvent, Claims
<1>5. ASSUME NEW k \in Epoch, NEW e \in Execution, BindCompletedAttentionHandler(k, e)
      PROVE  CursorStep
  <2>1. StaysOpen(k)
    BY <1>5, ClaimOf DEF BindCompletedAttentionHandler, StaysOpen, ClaimType
  <2> QED
    BY <1>5, <2>1 DEF BindCompletedAttentionHandler
<1>6. ASSUME NEW k \in Epoch, NEW e \in Execution, NEW n, CommitReceiverDecision(k, e, n)
      PROVE  CursorStep
  <2>1. MessageOfClaim(k) \in Message
    BY <1>6, ClaimAt DEF CommitReceiverDecision
  <2>2. Written(MessageOfClaim(k), "receiver-decided", disp[MessageOfClaim(k)].rev + 1)
    BY <1>6 DEF CommitReceiverDecision, Acknowledges, Responds, Written
  <2>3. LogStep
    BY <2>1, <2>2, RowOf DEF LogStep, AuditWord
  <2> QED
    BY <1>6, <2>3, LogGrowth DEF CommitReceiverDecision
<1>7. ASSUME NEW k \in Epoch,
             PromoteAttentionHandler(k) \/ CommitFinalizedDependencyAttentionHandler(k)
      PROVE  CursorStep
  BY <1>7
     DEF PromoteAttentionHandler, CommitFinalizedDependencyAttentionHandler, CommitClaim, Finished
<1>8. ASSUME NEW k \in Epoch, AbandonAttentionHandler(k) \/ ReopenAbandonedAttentionHandler(k)
      PROVE  CursorStep
  <2>1. StaysOpen(k)
    <3>1. PICK state \in {"claimed", "completed-bound", "abandoned"} :
            claim' = [claim EXCEPT ![k].state = state]
      BY <1>8, ClaimOf DEF AbandonAttentionHandler, ReopenAbandonedAttentionHandler
    <3> QED
      BY <1>8, <3>1, ClaimOf
         DEF AbandonAttentionHandler, ReopenAbandonedAttentionHandler, StaysOpen, ClaimType
  <2> QED
    BY <1>8, <2>1 DEF AbandonAttentionHandler, ReopenAbandonedAttentionHandler
<1>9. ASSUME NEW r \in Incarnation, NEW n \in DOMAIN log, AdvanceAttentionCursor(r, n)
      PROVE  CursorStep
  BY <1>9 DEF AdvanceAttentionCursor, Skips
<1> QED
  BY <1>1, <1>2, <1>3, <1>4, <1>5, <1>6, <1>7, <1>8, <1>9 DEF AttentionNext, ClaimsMove

\* New events come after all that were there.
LEMMA EventsGrow ==
  ASSUME AttentionTypes, LogGrows
  PROVE  /\ \A r \in Incarnation : \A n \in EventsOf(r) : n \in EventsOf(r)'
         /\ \A r \in Incarnation : \A n \in EventsOf(r)' :
              n \in Nat /\ (n \in EventsOf(r) \/ n > Len(log))
BY ClaimOf DEF LogGrows, SameEntry, EventsOf

LEMMA ClaimStays ==
  ASSUME AttentionTypes, NEW k \in Epoch, ClaimPlaced(k), LogGrows, claim[k].state # "none",
         claim'[k].event = claim[k].event
  PROVE  /\ claim'[k].event \in DOMAIN log' /\ MessageOfClaim(k)' = MessageOfClaim(k)
         /\ Receiver(k)' = Receiver(k)
BY DEF ClaimPlaced, LogGrows, SameEntry, MessageOfClaim, Receiver

LEMMA CursorWaits ==
  ASSUME AttentionTypes, LogGrows, UNCHANGED cursor_vars, NEW r \in Incarnation, CursorSound(r)
  PROVE  CursorSound(r)'
<1> USE ClaimOf DEF cursor_vars
<1>1. Len(log') \in Nat /\ cursor[r].at \in Nat
  BY DEF LogGrows
<1>2. {n \in EventsOf(r) : n <= cursor[r].at}' = {n \in EventsOf(r) : n <= cursor[r].at}
  <2>1. \A n \in EventsOf(r) : n \in Nat
    BY DEF EventsOf
  <2> QED
    BY <1>1, <2>1, EventsGrow DEF CursorSound
<1>3. ASSUME NEW n, NextEvent(r, n) PROVE NextEvent(r, n)'
  <2>1. n \in EventsOf(r) /\ n \in Nat /\ n <= Len(log)
    BY <1>3 DEF NextEvent, EventsOf
  <2> QED
    BY <1>1, <1>3, <2>1, EventsGrow DEF NextEvent
<1>4. cursor[r].active # NoEpoch => NextEvent(r, claim[cursor[r].active].event)'
  BY <1>3 DEF CursorSound
<1>5. cursor[r].at <= Len(log')
  BY <1>1 DEF CursorSound, LogGrows
<1>6. {commits[r][n].to : n \in DOMAIN commits[r]} = {n \in EventsOf(r) : n <= cursor[r].at}'
  BY <1>2 DEF CursorSound
<1> QED
  BY <1>4, <1>5, <1>6 DEF CursorSound

\* A commit takes the cursor to the next event.
LEMMA CursorCommits ==
  ASSUME AttentionTypes, NEW r \in Incarnation, CursorSound(r), UNCHANGED log,
         NEW n, NextEvent(r, n), NEW kind, NEW k, CommitTo(r, n, kind, k),
         kind = "handler-promoted" =>
           k \in Epoch /\ claim'[k].state = "promoted" /\ claim'[k].event = n,
         \A o \in Epoch : claim[o].state = "promoted" => claim'[o] = claim[o]
  PROVE  CursorSound(r)'
<1> USE ClaimOf
<1> DEFINE old == commits[r]
           entry == [from |-> cursor[r].at, to |-> n, kind |-> kind, source |-> k]
<1>1. /\ old \in Seq(CommitType) /\ Len(old) \in Nat /\ DOMAIN old = 1..Len(old)
      /\ \A i \in DOMAIN old : old[i].to \in Nat /\ old[i].from \in Nat
  <2>1. old \in Seq(CommitType)
    OBVIOUS
  <2> HIDE DEF old
  <2>2. ASSUME NEW i \in 1..Len(old) PROVE old[i].to \in Nat /\ old[i].from \in Nat
    <3>1. old[i] \in CommitType
      BY <2>1
    <3> QED
      BY <3>1 DEF CommitType
  <2>3. Len(old) \in Nat /\ DOMAIN old = 1..Len(old)
    BY <2>1
  <2> QED
    BY <2>1, <2>2, <2>3, Zenon
<1>2. commits'[r] = Append(old, entry)
  BY DEF CommitTo
<1>3. /\ Len(commits'[r]) = Len(old) + 1 /\ DOMAIN commits'[r] = 1..(Len(old) + 1)
      /\ \A i \in DOMAIN old : commits'[r][i] = old[i]
      /\ commits'[r][Len(old) + 1] = entry
  BY <1>1, <1>2
<1>4. cursor'[r] = [at |-> n, rev |-> cursor[r].rev + 1, active |-> NoEpoch]
  BY DEF CommitTo
<1>5. n \in Nat /\ n <= Len(log) /\ n > cursor[r].at /\ cursor[r].at \in Nat
  BY DEF NextEvent, EventsOf
<1>6. old = <<>> <=> Len(old) = 0
  BY <1>1
<1> HIDE DEF old
<1>7. ASSUME NEW i \in DOMAIN commits'[r]
      PROVE  /\ commits'[r][i].from = (IF i = 1 THEN 0 ELSE commits'[r][i - 1].to)
             /\ commits'[r][i].to > commits'[r][i].from
             /\ commits'[r][i].kind = "handler-promoted" =>
                  LET o == commits'[r][i].source IN
                  o \in Epoch /\ claim'[o].state = "promoted" /\ claim'[o].event = commits'[r][i].to
  <2>1. CASE i \in DOMAIN old
    <3>1. i # 1 => i - 1 \in DOMAIN old
      BY <1>1, <2>1
    <3> QED
      BY <1>3, <2>1, <3>1 DEF CursorSound, old
  <2>2. CASE i = Len(old) + 1
    <3>1. cursor[r].at = IF i = 1 THEN 0 ELSE commits'[r][i - 1].to
      <4>1. CASE Len(old) = 0
        BY <1>6, <2>2, <4>1 DEF CursorSound, old
      <4>2. CASE Len(old) # 0
        <5>1. i - 1 = Len(old) /\ Len(old) \in DOMAIN old /\ i # 1
          BY <1>1, <2>2, <4>2
        <5>2. commits'[r][i - 1] = old[Len(old)]
          BY <1>3, <5>1
        <5>3. cursor[r].at = old[Len(old)].to
          BY <1>6, <4>2 DEF CursorSound, old
        <5> QED
          BY <5>1, <5>2, <5>3
      <4> QED
        BY <4>1, <4>2
    <3> QED
      BY <1>3, <1>5, <2>2, <3>1
  <2> QED
    BY <1>1, <1>3, <2>1, <2>2
<1>8. {commits'[r][i].to : i \in DOMAIN commits'[r]} = {i \in EventsOf(r) : i <= n}
  <2>1. {commits'[r][i].to : i \in DOMAIN commits'[r]} = {old[i].to : i \in DOMAIN old} \cup {n}
    <3>1. \A i \in DOMAIN commits'[r] : i \in DOMAIN old \/ i = Len(old) + 1
      BY <1>1, <1>3
    <3>2. \A i \in DOMAIN old : i \in DOMAIN commits'[r] /\ commits'[r][i].to = old[i].to
      BY <1>1, <1>3
    <3>3. Len(old) + 1 \in DOMAIN commits'[r] /\ commits'[r][Len(old) + 1].to = n
      BY <1>1, <1>3
    <3> DEFINE L == {commits'[r][i].to : i \in DOMAIN commits'[r]}
               R == {old[i].to : i \in DOMAIN old}
    <3>4. \A x \in L : x \in R \cup {n}
      BY <3>1, <3>2, <3>3
    <3>5. \A x \in R : x \in L
      BY <3>2
    <3>6. n \in L
      BY <3>3
    <3> QED
      BY <3>4, <3>5, <3>6
  <2>2. {old[i].to : i \in DOMAIN old} = {i \in EventsOf(r) : i <= cursor[r].at}
    BY DEF CursorSound, old
  <2>3. \A i \in EventsOf(r) : i \in Nat
    BY DEF EventsOf
  <2> QED
    <3>1. n \in EventsOf(r) /\ \A i \in EventsOf(r) : i <= cursor[r].at \/ n <= i
      <4>1. n \in EventsOf(r)
        BY DEF NextEvent
      <4>2. ASSUME NEW i \in EventsOf(r), ~(i <= cursor[r].at) PROVE n <= i
        <5>1. i \in Nat /\ cursor[r].at \in Nat
          BY <1>5, <2>3
        <5>2. i > cursor[r].at
          BY <4>2, <5>1
        <5> QED
          BY <5>2 DEF NextEvent
      <4> QED
        BY <4>1, <4>2
    <3>2. {i \in EventsOf(r) : i <= n} = {i \in EventsOf(r) : i <= cursor[r].at} \cup {n}
      BY <1>5, <2>3, <3>1
    <3> QED
      BY <2>1, <2>2, <3>2
<1>9. EventsOf(r)' = EventsOf(r)
  BY DEF EventsOf
<1>10. Len(commits'[r]) # 0 /\ commits'[r] # <<>>
  BY <1>1, <1>3
<1>11. cursor[r].rev >= Len(old) /\ cursor[r].rev \in Nat
  BY DEF CursorSound, old
<1> QED
  BY <1>1, <1>3, <1>4, <1>5, <1>7, <1>8, <1>9, <1>10, <1>11 DEF CursorSound

\* A cursor of which neither the row nor the claim at it changed.
LEMMA CursorRests ==
  ASSUME AttentionTypes, NEW r \in Incarnation, CursorSound(r), UNCHANGED log,
         cursor'[r] = cursor[r], commits'[r] = commits[r],
         cursor[r].active # NoEpoch =>
           /\ claim'[cursor[r].active].state \notin {"none", "promoted"}
           /\ claim'[cursor[r].active].event = claim[cursor[r].active].event,
         \A o \in Epoch : claim[o].state = "promoted" => claim'[o] = claim[o]
  PROVE  CursorSound(r)'
<1>1. EventsOf(r)' = EventsOf(r)
  BY DEF EventsOf
<1>2. ASSUME NEW n, NextEvent(r, n) PROVE NextEvent(r, n)'
  BY <1>1, <1>2 DEF NextEvent
<1>3. cursor[r].active # NoEpoch => NextEvent(r, claim[cursor[r].active].event)'
  BY <1>2 DEF CursorSound
<1> QED
  BY <1>1, <1>3 DEF CursorSound

LEMMA WalkWaits ==
  ASSUME AttentionTypes, WalkInv, LogGrows, UNCHANGED cursor_vars
  PROVE  WalkInv'
<1> USE DEF WalkInv, cursor_vars
<1>1. \A k \in Epoch : ClaimPlaced(k)'
  BY ClaimStays DEF ClaimPlaced
<1>2. \A r \in Incarnation : CursorSound(r)'
  BY CursorWaits
<1>3. \A k \in Epoch : claim[k].state # "none" => Receiver(k)' = Receiver(k)
  BY ClaimStays
<1>4. \A k \in Epoch : PromotedCommitted(k)'
  BY <1>3 DEF PromotedCommitted
<1>5. OneOpenClaim'
  BY <1>3 DEF OneOpenClaim
<1> QED
  BY <1>1, <1>2, <1>4, <1>5

LEMMA WalkClaims ==
  ASSUME AttentionTypes, WalkInv, UNCHANGED log,
         NEW r \in Incarnation, NEW k \in Epoch, NEW n \in DOMAIN log, Claims(r, k, n)
  PROVE  WalkInv'
<1> USE ClaimOf DEF WalkInv
<1>1. /\ claim'[k].state = "claimed" /\ claim'[k].event = n
      /\ \A o \in Epoch \ {k} : claim'[o] = claim[o]
      /\ cursor'[r].active = k /\ cursor'[r].at = cursor[r].at /\ cursor'[r].rev = cursor[r].rev + 1
      /\ \A q \in Incarnation \ {r} : cursor'[q] = cursor[q]
      /\ commits' = commits
  BY DEF Claims
<1>2. /\ claim[k].state = "none" /\ cursor[r].active = NoEpoch /\ NextEvent(r, n)
      /\ NoEpoch \notin Epoch
  BY AttentionAssumption DEF Claims
<1>3. \A o \in Epoch : ClaimPlaced(o)'
  BY <1>1 DEF ClaimPlaced
<1>4. \A o \in Epoch \ {k} : MessageOfClaim(o)' = MessageOfClaim(o) /\ Receiver(o)' = Receiver(o)
  BY <1>1 DEF MessageOfClaim, Receiver
<1>5. Receiver(k)' = r
  BY <1>1, <1>2 DEF Receiver, MessageOfClaim, NextEvent, EventsOf
<1>6. \A o \in Epoch : claim[o].state = "promoted" => claim'[o] = claim[o]
  BY <1>1, <1>2
<1>7. ASSUME NEW q \in Incarnation \ {r} PROVE CursorSound(q)'
  <2>1. cursor[q].active # NoEpoch => cursor[q].active \in Epoch /\ cursor[q].active # k
    BY <1>2 DEF CursorSound
  <2>2. cursor[q].active # NoEpoch => claim'[cursor[q].active] = claim[cursor[q].active]
    BY <1>1, <2>1
  <2>3. CursorSound(q)
    OBVIOUS
  <2>4. cursor[q].active # NoEpoch => claim[cursor[q].active].state \notin {"none", "promoted"}
    BY <2>3 DEF CursorSound
  <2> QED
    BY <1>1, <1>6, <2>2, <2>3, <2>4, CursorRests
<1>8. CursorSound(r)'
  <2>1. EventsOf(r)' = EventsOf(r)
    BY DEF EventsOf
  <2>2. NextEvent(r, n)'
    BY <1>1, <1>2, <2>1 DEF NextEvent
  <2>3. CursorSound(r)
    OBVIOUS
  <2>4. cursor[r].rev \in Nat /\ Len(commits[r]) \in Nat
    OBVIOUS
  <2>5. cursor'[r].rev >= Len(commits[r])
    BY <1>1, <2>3, <2>4 DEF CursorSound
  <2>6. claim'[cursor'[r].active].event = n /\ claim'[cursor'[r].active].state = "claimed"
    BY <1>1
  <2>7. NextEvent(r, claim[cursor[r].active].event)'
    BY <2>2, <2>6 DEF NextEvent
  <2>8. cursor'[r].at = cursor[r].at /\ commits'[r] = commits[r]
    BY <1>1
  <2>9. \A i \in DOMAIN commits'[r] :
          /\ commits'[r][i].from = (IF i = 1 THEN 0 ELSE commits'[r][i - 1].to)
          /\ commits'[r][i].to > commits'[r][i].from
          /\ commits'[r][i].kind = "handler-promoted" =>
               LET o == commits'[r][i].source IN
               o \in Epoch /\ claim'[o].state = "promoted" /\ claim'[o].event = commits'[r][i].to
    <3>1. ASSUME NEW i \in DOMAIN commits[r], NEW o \in Epoch, claim[o].state = "promoted"
          PROVE  claim'[o] = claim[o]
      BY <1>6, <3>1
    <3>2. commits'[r] = commits[r]
      BY <2>8
    <3>3. ASSUME NEW i \in DOMAIN commits[r], commits[r][i].kind = "handler-promoted"
          PROVE  /\ commits[r][i].source \in Epoch
                 /\ claim'[commits[r][i].source].state = "promoted"
                 /\ claim'[commits[r][i].source].event = commits[r][i].to
      BY <2>3, <3>1, <3>3 DEF CursorSound
    <3>4. \A i \in DOMAIN commits[r] :
             /\ commits[r][i].from = (IF i = 1 THEN 0 ELSE commits[r][i - 1].to)
             /\ commits[r][i].to > commits[r][i].from
      BY <2>3 DEF CursorSound
    <3> QED
      BY <3>2, <3>3, <3>4
  <2>10. /\ cursor'[r].at <= Len(log')
         /\ cursor'[r].at = (IF commits'[r] = <<>> THEN 0 ELSE commits'[r][Len(commits'[r])].to)
         /\ cursor'[r].rev >= Len(commits'[r])
    BY <2>3, <2>5, <2>8 DEF CursorSound
  <2>11. {commits'[r][i].to : i \in DOMAIN commits'[r]} = {i \in EventsOf(r)' : i <= cursor'[r].at}
    BY <2>1, <2>3, <2>8 DEF CursorSound
  <2>12. claim'[cursor'[r].active].state \notin {"none", "promoted"}
    BY <2>6
  <2> QED
    BY <2>7, <2>9, <2>10, <2>11, <2>12 DEF CursorSound
<1>9. ASSUME NEW o \in Epoch PROVE PromotedCommitted(o)'
  <2>1. CASE o = k
    BY <1>1, <2>1 DEF PromotedCommitted
  <2>2. CASE o # k
    <3>1. claim'[o] = claim[o] /\ Receiver(o)' = Receiver(o) /\ commits' = commits
      BY <1>1, <1>4, <2>2
    <3>2. PromotedCommitted(o)
      OBVIOUS
    <3> QED
      BY <3>1, <3>2 DEF PromotedCommitted
  <2> QED
    BY <2>1, <2>2
<1>10. OneOpenClaim'
  <2>1. ASSUME NEW o \in Epoch \ {k}, claim[o].state \notin {"none", "promoted"}
        PROVE  cursor'[Receiver(o)].active = o
    <3>1. Receiver(o) \in Incarnation
      BY <2>1, ClaimAt
    <3>2. Receiver(o) # r
      BY <1>2, <2>1 DEF OneOpenClaim
    <3> QED
      BY <1>1, <2>1, <3>1, <3>2 DEF OneOpenClaim
  <2> QED
    BY <1>1, <1>4, <1>5, <2>1 DEF OneOpenClaim
<1> QED
  BY <1>3, <1>7, <1>8, <1>9, <1>10

LEMMA WalkKeeps ==
  ASSUME AttentionTypes, WalkInv, UNCHANGED log, NEW k \in Epoch, StaysOpen(k)
  PROVE  WalkInv'
<1> USE ClaimOf DEF WalkInv
<1>1. /\ claim[k].state \notin {"none", "promoted"} /\ claim'[k].state \notin {"none", "promoted"}
      /\ claim'[k].event = claim[k].event
      /\ \A o \in Epoch \ {k} : claim'[o] = claim[o]
      /\ cursor' = cursor /\ commits' = commits
  BY DEF StaysOpen
<1>2. \A o \in Epoch : ClaimPlaced(o)' /\ Receiver(o)' = Receiver(o)
  BY <1>1 DEF ClaimPlaced, Receiver, MessageOfClaim
<1>3. ASSUME NEW q \in Incarnation PROVE CursorSound(q)'
  <2>1. CursorSound(q)
    OBVIOUS
  <2>2. cursor[q].active # NoEpoch => cursor[q].active \in Epoch
    OBVIOUS
  <2>3. cursor[q].active # NoEpoch =>
           /\ claim'[cursor[q].active].state \notin {"none", "promoted"}
           /\ claim'[cursor[q].active].event = claim[cursor[q].active].event
    BY <1>1, <2>1, <2>2 DEF CursorSound
  <2> QED
    BY <1>1, <2>1, <2>3, CursorRests
<1>4. ASSUME NEW o \in Epoch PROVE PromotedCommitted(o)'
  <2>1. CASE o = k
    BY <1>1, <2>1 DEF PromotedCommitted
  <2>2. CASE o # k
    <3>1. claim'[o] = claim[o] /\ Receiver(o)' = Receiver(o) /\ commits' = commits
      BY <1>1, <1>2, <2>2
    <3>2. PromotedCommitted(o)
      OBVIOUS
    <3> QED
      BY <3>1, <3>2 DEF PromotedCommitted
  <2> QED
    BY <2>1, <2>2
<1>5. OneOpenClaim'
  BY <1>1, <1>2 DEF OneOpenClaim
<1> QED
  BY <1>2, <1>3, <1>4, <1>5

LEMMA WalkCommits ==
  ASSUME AttentionTypes, WalkInv, UNCHANGED log, NEW k \in Epoch, CommitClaim(k)
  PROVE  WalkInv'
<1> USE ClaimOf DEF WalkInv
<1>a. claim[k].state = "completed-bound"
  BY DEF CommitClaim
<1> PICK r \in Incarnation : r = Receiver(k)
  BY <1>a, ClaimAt
<1> PICK n \in Nat : n = claim[k].event
  BY DEF ClaimType
<1>1. /\ claim[k].state = "completed-bound" /\ cursor[r].active = k
      /\ CommitTo(r, n, "handler-promoted", k)
      /\ claim'[k].state = "promoted" /\ claim'[k].event = n
      /\ \A o \in Epoch \ {k} : claim'[o] = claim[o]
  BY DEF CommitClaim, ClaimType
<1>2. NoEpoch \notin Epoch
  BY AttentionAssumption
<1>3. NextEvent(r, n)
  <2>1. CursorSound(r) /\ cursor[r].active # NoEpoch
    BY <1>1, <1>2
  <2>2. NextEvent(r, claim[cursor[r].active].event)
    BY <2>1 DEF CursorSound
  <2>3. claim[cursor[r].active].event = n
    BY <1>1
  <2> QED
    BY <2>2, <2>3
<1>4. \A o \in Epoch : claim[o].state = "promoted" => claim'[o] = claim[o]
  BY <1>1
<1>5. \A o \in Epoch : ClaimPlaced(o)' /\ Receiver(o)' = Receiver(o)
  BY <1>1 DEF ClaimPlaced, Receiver, MessageOfClaim
<1>6. /\ \A q \in Incarnation \ {r} : cursor'[q] = cursor[q] /\ commits'[q] = commits[q]
      /\ cursor'[r].active = NoEpoch
      /\ commits'[r] = Append(commits[r], [from |-> cursor[r].at, to |-> n,
                                           kind |-> "handler-promoted", source |-> k])
  BY <1>1, <1>2 DEF CommitTo
<1>7. CursorSound(r)'
  BY <1>1, <1>2, <1>3, <1>4, CursorCommits
<1>8. ASSUME NEW q \in Incarnation \ {r} PROVE CursorSound(q)'
  <2>1. CursorSound(q)
    OBVIOUS
  <2>2. cursor[q].active # NoEpoch => cursor[q].active \in Epoch
    OBVIOUS
  <2>3. cursor[q].active # k
    <3>1. cursor[q].active # NoEpoch => TargetOf[log[claim[cursor[q].active].event].message] = q
      BY <2>1 DEF CursorSound, NextEvent, EventsOf
    <3> QED
      BY <1>2, <3>1 DEF Receiver, MessageOfClaim
  <2>4. cursor[q].active # NoEpoch => claim'[cursor[q].active] = claim[cursor[q].active]
    BY <1>1, <2>2, <2>3
  <2>5. cursor[q].active # NoEpoch => claim[cursor[q].active].state \notin {"none", "promoted"}
    BY <2>1 DEF CursorSound
  <2> QED
    BY <1>4, <1>6, <2>1, <2>4, <2>5, CursorRests
<1>9. ASSUME NEW o \in Epoch, claim'[o].state = "promoted"
      PROVE  \E i \in DOMAIN commits'[Receiver(o)] : commits'[Receiver(o)][i].source = o
  <2>1. /\ commits[r] \in Seq(CommitType) /\ Len(commits[r]) \in Nat
        /\ \A i \in DOMAIN commits[r] : i \in DOMAIN commits'[r] /\ commits'[r][i] = commits[r][i]
    BY <1>6, AppendKeeps
  <2>2. CASE o = k
    <3>1. /\ Len(commits[r]) + 1 \in DOMAIN commits'[r]
          /\ commits'[r][Len(commits[r]) + 1].source = k
      BY <1>6, <2>1
    <3> QED
      BY <2>2, <3>1
  <2>3. CASE o # k
    <3>1. claim[o].state = "promoted"
      BY <1>1, <1>9, <2>3
    <3>2. Receiver(o) \in Incarnation
      BY <3>1, ClaimAt
    <3>3. PICK i \in DOMAIN commits[Receiver(o)] : commits[Receiver(o)][i].source = o
      BY <3>1 DEF PromotedCommitted
    <3>4. CASE Receiver(o) = r
      BY <1>6, <2>1, <3>3, <3>4
    <3>5. CASE Receiver(o) # r
      BY <1>6, <3>2, <3>3, <3>5
    <3> QED
      BY <3>4, <3>5
  <2> QED
    BY <2>2, <2>3
<1>10. \A o \in Epoch : PromotedCommitted(o)'
  BY <1>5, <1>9 DEF PromotedCommitted
<1>11. ASSUME NEW o \in Epoch, claim'[o].state \notin {"none", "promoted"}
       PROVE  cursor'[Receiver(o)].active = o
  <2>1. o # k /\ claim'[o] = claim[o] /\ Receiver(o) \in Incarnation
    BY <1>1, <1>11, ClaimAt
  <2>2. Receiver(o) # r
    BY <1>1, <1>11, <2>1 DEF OneOpenClaim
  <2> QED
    BY <1>6, <1>11, <2>1, <2>2 DEF OneOpenClaim
<1>12. OneOpenClaim'
  BY <1>5, <1>11 DEF OneOpenClaim
<1> QED
  BY <1>5, <1>7, <1>8, <1>10, <1>12

LEMMA WalkSkips ==
  ASSUME AttentionTypes, WalkInv, UNCHANGED log,
         NEW r \in Incarnation, NEW n \in DOMAIN log, Skips(r, n)
  PROVE  WalkInv'
<1> USE ClaimOf DEF WalkInv
<1>1. /\ cursor[r].active = NoEpoch /\ NextEvent(r, n)
      /\ CommitTo(r, n, "irrelevant-skip", NoEpoch) /\ claim' = claim
  BY DEF Skips
<1>2. /\ \A q \in Incarnation \ {r} : cursor'[q] = cursor[q] /\ commits'[q] = commits[q]
      /\ commits'[r] = Append(commits[r], [from |-> cursor[r].at, to |-> n,
                                           kind |-> "irrelevant-skip", source |-> NoEpoch])
      /\ NoEpoch \notin Epoch
  BY <1>1, AttentionAssumption DEF CommitTo
<1>3. \A o \in Epoch : ClaimPlaced(o)' /\ Receiver(o)' = Receiver(o)
  BY <1>1 DEF ClaimPlaced, Receiver, MessageOfClaim
<1>4. CursorSound(r)'
  BY <1>1, CursorCommits
<1>5. ASSUME NEW q \in Incarnation \ {r} PROVE CursorSound(q)'
  <2>1. CursorSound(q)
    OBVIOUS
  <2>2. cursor[q].active # NoEpoch => claim[cursor[q].active].state \notin {"none", "promoted"}
    BY <2>1 DEF CursorSound
  <2> QED
    BY <1>1, <1>2, <2>1, <2>2, CursorRests
<1>6. ASSUME NEW o \in Epoch, claim[o].state = "promoted"
      PROVE  \E i \in DOMAIN commits'[Receiver(o)] : commits'[Receiver(o)][i].source = o
  <2>1. /\ commits[r] \in Seq(CommitType) /\ Receiver(o) \in Incarnation
        /\ \A i \in DOMAIN commits[r] : i \in DOMAIN commits'[r] /\ commits'[r][i] = commits[r][i]
    BY <1>2, <1>6, ClaimAt, AppendKeeps
  <2>2. PICK i \in DOMAIN commits[Receiver(o)] : commits[Receiver(o)][i].source = o
    BY <1>6 DEF PromotedCommitted
  <2>3. CASE Receiver(o) = r
    BY <1>2, <2>1, <2>2, <2>3
  <2>4. CASE Receiver(o) # r
    BY <1>2, <2>1, <2>2, <2>4
  <2> QED
    BY <2>3, <2>4
<1>7. \A o \in Epoch : PromotedCommitted(o)'
  BY <1>1, <1>3, <1>6 DEF PromotedCommitted
<1>8. ASSUME NEW o \in Epoch, claim[o].state \notin {"none", "promoted"}
      PROVE  cursor'[Receiver(o)].active = o
  <2>1. Receiver(o) \in Incarnation /\ cursor[Receiver(o)].active = o
    BY <1>8, ClaimAt DEF OneOpenClaim
  <2>2. Receiver(o) # r
    BY <1>1, <1>2, <2>1
  <2> QED
    BY <1>2, <2>1, <2>2
<1>9. OneOpenClaim'
  BY <1>1, <1>3, <1>8 DEF OneOpenClaim
<1> QED
  BY <1>3, <1>4, <1>5, <1>7, <1>9

LEMMA WalkNext ==
  ASSUME AttentionTypes, WalkInv, CursorStep
  PROVE  WalkInv'
BY WalkWaits, WalkClaims, WalkKeeps, WalkCommits, WalkSkips DEF CursorStep

LEMMA WalkInit == AttentionInit => WalkInv
<1> SUFFICES ASSUME AttentionInit PROVE WalkInv
  OBVIOUS
<1> USE DEF AttentionInit
<1>1. \A k \in Epoch : claim[k].state = "none"
  BY DEF NoClaim
<1>2. \A r \in Incarnation : CursorSound(r)
  <2>1. log = <<>> /\ Len(log) = 0 /\ DOMAIN log = {}
    OBVIOUS
  <2>2. ASSUME NEW r \in Incarnation
        PROVE  commits[r] = <<>> /\ DOMAIN commits[r] = {} /\ Len(commits[r]) = 0
               /\ cursor[r] = [at |-> 0, rev |-> 0, active |-> NoEpoch]
    OBVIOUS
  <2> QED
    BY <2>1, <2>2 DEF CursorSound, EventsOf
<1> QED
  BY <1>1, <1>2 DEF WalkInv, ClaimPlaced, PromotedCommitted, OneOpenClaim

\* The claims and the cursors are sound in every state.
THEOREM WalkInductive == AttentionSpec => [](AttentionTypes /\ WalkInv)
<1>1. AttentionTypes /\ WalkInv /\ UNCHANGED attention_vars => (AttentionTypes /\ WalkInv)'
  <2> SUFFICES ASSUME AttentionTypes, WalkInv, UNCHANGED attention_vars
               PROVE  (AttentionTypes /\ WalkInv)'
    OBVIOUS
  <2> USE DEF attention_vars, turn_vars, run_vars, registry_vars, mail_vars, bind_vars, cursor_vars
  <2>1. AttentionTypes'
    BY DEF AttentionTypes, AttentionTypeOK, TaskTypeOK
  <2>2. LogGrows
    BY LogGrowth DEF LogStep
  <2> QED
    BY <2>1, <2>2, WalkWaits
<1>2. AttentionTypes /\ WalkInv /\ AttentionNext => (AttentionTypes /\ WalkInv)'
  BY AttentionTypesNext, CursorSteps, WalkNext DEF WalkInv
<1> QED
  BY <1>1, <1>2, AttentionTypesInit, WalkInit, PTL DEF AttentionSpec

\* No event of a receiver is lost and none is handled twice: its commits walk its
\* events one by one up to the cursor (#validatePersistedAttentionState), the commits
\* of handlers are the claims that were promoted, and a claim that is not promoted is
\* the one its receiver is at.
THEOREM CursorsAreKept == AttentionSpec => []CursorKept
<1>1. AttentionTypes /\ WalkInv => CursorKept
  <2> SUFFICES ASSUME AttentionTypes, WalkInv PROVE CursorKept
    OBVIOUS
  <2>1. ASSUME NEW r \in Incarnation PROVE CursorOpens(r)
    <3>1. CursorSound(r)
      BY DEF WalkInv
    <3>2. cursor[r].active # NoEpoch => Receiver(cursor[r].active) = r
      BY <3>1 DEF CursorSound, NextEvent, EventsOf, Receiver, MessageOfClaim
    <3> QED
      BY <3>1, <3>2 DEF CursorSound, CursorOpens, NextEvent
  <2>2. CursorExact
    BY <2>1 DEF CursorExact, WalkInv, CursorSound, PromotedCommitted
  <2> QED
    BY <2>2 DEF CursorKept, AttentionTypes, WalkInv
<1> QED
  BY <1>1, WalkInductive, PTL

LEMMA AbandonedStays ==
  ASSUME AttentionTypes, \A k \in Epoch : ClaimPlaced(k), AttentionNext,
         NEW e \in Execution, run[e].state = "abandoned"
  PROVE  run'[e].state = "abandoned"
<1>1. CASE TurnsMove
  BY <1>1, TurnSteps DEF TurnTyped, Ended
<1>2. CASE MessagesMove
  BY <1>2, MessageSteps DEF MessageTyped
<1>3. CASE ~TurnsMove /\ ~MessagesMove
  BY <1>3
     DEF AttentionNext, TasksMove, ClaimsMove, ClaimAttentionEvent, BindCompletedAttentionHandler,
         CommitReceiverDecision, PromoteAttentionHandler, CommitFinalizedDependencyAttentionHandler,
         CommitClaim, AbandonAttentionHandler, ReopenAbandonedAttentionHandler,
         AdvanceAttentionCursor, turn_vars, run_vars
<1> QED
  BY <1>1, <1>2, <1>3

\* A claim whose turn was given up (abandonTurnExecution, after
\* bindCompletedAttentionHandler) holds its receiver's cursor where it is, forever.
THEOREM AbandonedTurnHolds == AttentionSpec => HeldForGood
<1> DEFINE Held(k) == BoundToAbandoned(k) =>
             BoundToAbandoned(k)' /\ UNCHANGED <<cursor[Receiver(k)], commits[Receiver(k)]>>
<1>1. ASSUME AttentionTypes, WalkInv, AttentionNext, NEW k \in Epoch PROVE Held(k)
  <2> SUFFICES ASSUME BoundToAbandoned(k)
               PROVE  /\ BoundToAbandoned(k)'
                      /\ UNCHANGED <<cursor[Receiver(k)], commits[Receiver(k)]>>
    OBVIOUS
  <2> USE <1>1 DEF WalkInv
  <2>1. /\ claim[k].state \in {"completed-bound", "abandoned"} /\ claim[k].by \in Execution
        /\ run[claim[k].by].state = "abandoned"
    BY ClaimOf DEF BoundToAbandoned, ClaimType
  <2>2. PICK e \in Execution : e = claim[k].by
    BY <2>1
  <2>3. run'[e].state = "abandoned"
    BY <2>1, <2>2, AbandonedStays
  <2>4. PICK r \in Incarnation : r = Receiver(k)
    BY <2>1, ClaimAt
  <2>5. cursor[r].active = k
    BY <2>1, <2>4 DEF OneOpenClaim
  <2>6. NoEpoch \notin Epoch
    BY AttentionAssumption
  <2> SUFFICES /\ claim'[k].state \in {"completed-bound", "abandoned"} /\ claim'[k].by = e
               /\ claim'[k].event = claim[k].event
               /\ log'[claim[k].event].message = log[claim[k].event].message
               /\ cursor'[r] = cursor[r] /\ commits'[r] = commits[r]
    <3>1. Receiver(k)' = r
      BY <2>4 DEF Receiver, MessageOfClaim
    <3>2. BoundToAbandoned(k)'
      BY <2>1, <2>2, <2>3, AttentionAssumption DEF BoundToAbandoned
    <3> QED
      BY <2>4, <3>1, <3>2
  <2>7. CASE LogGrows /\ UNCHANGED cursor_vars
    BY <2>1, <2>2, <2>7 DEF cursor_vars, ClaimPlaced, LogGrows, SameEntry
  <2>8. ASSUME UNCHANGED log, NEW q \in Incarnation, NEW o \in Epoch, NEW n \in DOMAIN log,
               Claims(q, o, n)
        PROVE  /\ claim'[k] = claim[k] /\ cursor'[r] = cursor[r] /\ commits'[r] = commits[r]
    BY <2>1, <2>5, <2>6, <2>8, ClaimOf DEF Claims
  <2>9. ASSUME UNCHANGED log, NEW o \in Epoch, StaysOpen(o)
        PROVE  /\ claim'[k].state \in {"completed-bound", "abandoned"} /\ claim'[k].by = e
               /\ claim'[k].event = claim[k].event
               /\ cursor'[r] = cursor[r] /\ commits'[r] = commits[r]
    <3>1. CASE o = k
      BY <2>1, <2>2, <2>9, <3>1, AttentionAssumption DEF StaysOpen
    <3>2. CASE o # k
      BY <2>1, <2>2, <2>9, <3>2 DEF StaysOpen
    <3> QED
      BY <3>1, <3>2
  <2>10. ASSUME UNCHANGED log, NEW o \in Epoch, CommitClaim(o), Finished(claim[o].by)
         PROVE  /\ claim'[k] = claim[k] /\ cursor'[r] = cursor[r] /\ commits'[r] = commits[r]
    <3>1. o # k
      BY <2>1, <2>10 DEF Finished
    <3>2. Receiver(o) # r /\ Receiver(o) \in Incarnation
      BY <2>5, <2>10, <3>1, ClaimAt DEF CommitClaim
    <3> QED
      BY <2>10, <3>1, <3>2, ClaimOf DEF CommitClaim, CommitTo
  <2>11. ASSUME UNCHANGED log, NEW q \in Incarnation, NEW n \in DOMAIN log, Skips(q, n)
         PROVE  /\ claim'[k] = claim[k] /\ cursor'[r] = cursor[r] /\ commits'[r] = commits[r]
    BY <2>5, <2>6, <2>11, ClaimOf DEF Skips, CommitTo
  <2> QED
    BY <2>1, <2>2, <2>7, <2>8, <2>9, <2>10, <2>11, CursorSteps DEF CursorStep
<1>2. AttentionTypes /\ WalkInv /\ [AttentionNext]_attention_vars =>
        [\A k \in Epoch : Held(k)]_attention_vars
  BY <1>1
<1> QED
  BY <1>2, WalkInductive, PTL DEF AttentionSpec, HeldForGood

(***************************************************************************)
(* What is bound stays bound.                                              *)
(***************************************************************************)
\* What no step takes back.
EndsKept == \A e \in Execution : Ended(e) =>
  Ended(e)' /\ about'[e] = about[e] /\ (run[e].state # "completed" => run'[e] = run[e])

AdmissionsKept ==
  /\ finalized \subseteq finalized'
  /\ \A m \in Message : admittedBy'[m] # admittedBy[m] =>
       admittedBy[m] = NoExecution /\ admittedBy'[m] \in Execution /\ about[admittedBy'[m]] = 0

DecidedKept == \A k \in Epoch : decided[k].by # NoExecution => decided'[k] = decided[k]

Kept == LogGrows /\ EndsKept /\ AdmissionsKept /\ DecidedKept

LEMMA MessageKeeps ==
  ASSUME AttentionTypes, MessagesMove
  PROVE  AdmissionsKept
<1> USE DEF AdmissionsKept, bind_vars
<1>1. ASSUME NEW m \in Message,
             \/ Submit(m)
             \/ \E e \in Execution : \E n \in DOMAIN run[e].tools : Publish(e, n, m)
      PROVE  AdmissionsKept
  BY <1>1 DEF Submit, Publish, Received
<1>2. ASSUME NEW m \in Message, ClaimPending(m) \/ Lapse(m) \/ FallDue(m) \/ Expire(m) \/ Purge(m)
      PROVE  AdmissionsKept
  BY <1>2 DEF ClaimPending, Lapse, FallDue, Expire, Purge
<1>3. ASSUME NEW m \in Message, NEW d \in Decision, Respond(m, d) \/ AcknowledgePending(m, d)
      PROVE  AdmissionsKept
  BY <1>3 DEF Respond, AcknowledgePending
<1>4. ASSUME NEW m \in Message, NEW e \in Execution, ConfirmContextAdmissionFromTurn(e, m)
      PROVE  AdmissionsKept
  <2>1. /\ about[e] = 0 /\ admittedBy[m] = NoExecution /\ UNCHANGED finalized
        /\ admittedBy' = [admittedBy EXCEPT ![m] = e]
    BY <1>4 DEF ConfirmContextAdmissionFromTurn
  <2> QED
    BY <2>1 DEF AttentionTypes
<1>5. ASSUME NEW m \in Message,
             \/ PrepareContextAdmission(m) \/ SubmissionTrace(m) \/ ConfirmContextAdmission(m)
             \/ Delivers(m, "adapter-submitted") \/ Delivers(m, "failed")
             \/ Satisfy(m, TRUE) \/ Satisfy(m, FALSE)
      PROVE  AdmissionsKept
  BY <1>5 DEF PrepareContextAdmission, SubmissionTrace, ConfirmContextAdmission, Delivers, Satisfy
<1> QED
  BY <1>1, <1>2, <1>3, <1>4, <1>5 DEF MessagesMove

LEMMA KeptNext ==
  ASSUME AttentionTypes, \A k \in Epoch : ClaimPlaced(k), AttentionNext
  PROVE  Kept
<1> USE DEF Kept, EndsKept, AdmissionsKept, DecidedKept, LogStep
<1>1. CASE MessagesMove
  BY <1>1, MessageSteps, MessageWrites, MessageKeeps, LogGrowth DEF MessageTyped, Ended
<1>2. CASE TurnsMove
  BY <1>2, TurnSteps, LogGrowth DEF TurnTyped, mail_vars, bind_vars
<1>3. ASSUME NEW k \in Epoch, NEW e \in Execution, NEW n, CommitReceiverDecision(k, e, n)
      PROVE  Kept
  <2>1. MessageOfClaim(k) \in Message
    BY <1>3, ClaimAt DEF CommitReceiverDecision
  <2>2. Written(MessageOfClaim(k), "receiver-decided", disp[MessageOfClaim(k)].rev + 1)
    BY <1>3 DEF CommitReceiverDecision, Acknowledges, Responds, Written
  <2>3. LogGrows
    BY <2>1, <2>2, RowOf, LogGrowth DEF AuditWord
  <2>4. DecidedKept
    BY <1>3, ClaimOf DEF CommitReceiverDecision
  <2> QED
    BY <1>3, <2>3, <2>4 DEF CommitReceiverDecision, turn_vars, run_vars, Ended
<1>4. ASSUME UNCHANGED <<turn_vars, log, mail_vars, bind_vars>> PROVE Kept
  BY <1>4, LogGrowth DEF turn_vars, run_vars, mail_vars, bind_vars, Ended
<1>5. CASE TasksMove
  BY <1>5, LogGrowth DEF TasksMove, mail_vars, bind_vars, Ended
<1>6. CASE ~MessagesMove /\ ~TurnsMove /\ ~TasksMove
           /\ ~(\E k \in Epoch, e \in Execution :
                  \E n \in DOMAIN run[e].tools : CommitReceiverDecision(k, e, n))
  <2>1. UNCHANGED <<turn_vars, log, mail_vars, bind_vars>>
    BY <1>6
       DEF AttentionNext, ClaimsMove, ClaimAttentionEvent, BindCompletedAttentionHandler,
           PromoteAttentionHandler, CommitFinalizedDependencyAttentionHandler,
           CommitClaim, AbandonAttentionHandler, ReopenAbandonedAttentionHandler,
           AdvanceAttentionCursor
  <2> QED
    BY <1>4, <2>1
<1> QED
  BY <1>1, <1>2, <1>3, <1>5, <1>6

LEMMA BindingStays ==
  ASSUME AttentionTypes, Kept, NEW k \in Epoch, ClaimPlaced(k), BindingSound(k), claim'[k] = claim[k]
  PROVE  BindingSound(k)'
<1> DEFINE m == MessageOfClaim(k)
           e == claim[k].by
<1>1. CASE claim[k].state = "none"
  BY <1>1 DEF BindingSound
<1>2. CASE claim[k].state # "none"
  <2>1. LogGrows
    BY DEF Kept
  <2>2. m' = m /\ Receiver(k)' = Receiver(k) /\ m \in Message
    BY <1>2, <2>1, ClaimStays, ClaimAt
  <2>3. claim[k].seen => log'[claim[k].event].redacted
    BY <1>2, <2>1 DEF BindingSound, ClaimPlaced, LogGrows, SameEntry
  <2>4. e \in Execution \cup {NoExecution}
    BY ClaimOf DEF ClaimType
  <2>5. CASE e = NoExecution
    BY <1>2, <2>2, <2>3, <2>5 DEF BindingSound
  <2>6. CASE e # NoExecution
    <3>1. /\ ActorOf[e] = Receiver(k) /\ MessageOf[e] = m
          /\ Ended(e)
          /\ admittedBy[m] = NoExecution => about[e] = claim[k].event
          /\ admittedBy[m] = e => decided[k].by # NoExecution
          /\ claim[k].state = "promoted" => run[e].state = "promoted" \/ m \in finalized
      BY <2>6 DEF BindingSound
    <3>2. Ended(e)' /\ about'[e] = about[e] /\ (run[e].state # "completed" => run'[e] = run[e])
      BY <2>4, <2>6, <3>1 DEF Kept, EndsKept
    <3>3. admittedBy'[m] = NoExecution => about'[e] = claim[k].event
      BY <2>2, <3>1, <3>2, AttentionAssumption DEF Kept, AdmissionsKept
    <3>4. claim[k].event # 0
      BY <1>2, ClaimOf DEF ClaimPlaced
    <3>5. admittedBy'[m] = e => decided[k].by # NoExecution
      BY <2>2, <3>1, <3>4 DEF Kept, AdmissionsKept
    <3>6. decided[k].by # NoExecution => decided'[k].by # NoExecution
      BY DEF Kept, DecidedKept
    <3>7. claim[k].state = "promoted" => run'[e].state = "promoted" \/ m \in finalized'
      BY <2>2, <3>1, <3>2 DEF Kept, AdmissionsKept
    <3>8. claim[k].state \notin {"none", "claimed"}
      BY <2>6 DEF BindingSound
    <3> QED
      BY <1>2, <2>2, <2>3, <2>6, <3>1, <3>2, <3>3, <3>5, <3>6, <3>7, <3>8 DEF BindingSound
  <2> QED
    BY <2>5, <2>6
<1> QED
  BY <1>1, <1>2

\* What a step does to claims: nothing, or the one it is about.
ClaimsMovedBy(k) == \A o \in Epoch \ {k} : claim'[o] = claim[o]

LEMMA BoundNext ==
  ASSUME AttentionTypes, WalkInv, BoundInv, AttentionNext
  PROVE  BoundInv'
<1> USE ClaimOf DEF WalkInv, BoundInv
<1>1. Kept
  BY KeptNext
<1>2. RedactedPurged'
  BY <1>1 DEF Kept, LogGrows, SameEntry, RedactedPurged
<1>3. SUFFICES ASSUME NEW k \in Epoch PROVE BindingSound(k)'
  BY <1>2
<1>4. CASE claim'[k] = claim[k]
  BY <1>1, <1>4, BindingStays
<1>5. ASSUME NEW r \in Incarnation, NEW n \in DOMAIN log, ClaimAttentionEvent(r, k, n)
      PROVE  BindingSound(k)'
  <2>1. claim'[k] = [state |-> "claimed", event |-> n, seen |-> log[n].redacted, by |-> NoExecution]
    BY <1>5 DEF ClaimAttentionEvent
  <2>2. log' = log
    BY <1>5 DEF ClaimAttentionEvent
  <2> QED
    BY <2>1, <2>2 DEF BindingSound
<1>6. ASSUME NEW e \in Execution, BindCompletedAttentionHandler(k, e) PROVE BindingSound(k)'
  <2>1. /\ claim[k].state = "claimed" /\ Finished(e) /\ HandlerOf(k, e)
        /\ UNCHANGED <<run, about, log, finalized, admittedBy, decided>>
    BY <1>6
       DEF BindCompletedAttentionHandler, turn_vars, run_vars, mail_vars, bind_vars
  <2>2. claim'[k] = [claim[k] EXCEPT !.state = "completed-bound", !.by = e]
    BY <1>6 DEF BindCompletedAttentionHandler
  <2>3. /\ claim'[k].state = "completed-bound" /\ claim'[k].by = e
        /\ claim'[k].event = claim[k].event /\ claim'[k].seen = claim[k].seen
    BY <2>2 DEF ClaimType
  <2>4. MessageOfClaim(k)' = MessageOfClaim(k) /\ Receiver(k)' = Receiver(k)
    BY <2>1, <2>3 DEF MessageOfClaim, Receiver
  <2>5. claim[k].seen => log[claim[k].event].redacted
    BY <2>1 DEF BindingSound
  <2>6. Ended(e)'
    BY <2>1 DEF Finished, Ended
  <2>7. /\ ActorOf[e] = Receiver(k) /\ MessageOf[e] = MessageOfClaim(k)
        /\ admittedBy[MessageOfClaim(k)] = NoExecution => about[e] = claim[k].event
        /\ admittedBy[MessageOfClaim(k)] = e => decided[k].by # NoExecution
    BY <2>1, AttentionAssumption DEF HandlerOf
  <2> QED
    BY <2>1, <2>3, <2>4, <2>5, <2>6, <2>7, AttentionAssumption DEF BindingSound
<1>7. ASSUME PromoteAttentionHandler(k) \/ CommitFinalizedDependencyAttentionHandler(k)
      PROVE  BindingSound(k)'
  <2>1. /\ claim[k].by # NoExecution /\ claim[k].state = "completed-bound"
        /\ run[claim[k].by].state = "promoted" \/ MessageOfClaim(k) \in finalized
        /\ claim' = [claim EXCEPT ![k].state = "promoted"]
        /\ UNCHANGED <<run, about, log, finalized, admittedBy, decided>>
    BY <1>7
       DEF PromoteAttentionHandler, CommitFinalizedDependencyAttentionHandler, FinalizedFor,
           CommitClaim, turn_vars, run_vars, mail_vars, bind_vars
  <2>2. /\ claim'[k].state = "promoted" /\ claim'[k].by = claim[k].by
        /\ claim'[k].event = claim[k].event /\ claim'[k].seen = claim[k].seen
    BY <2>1 DEF ClaimType
  <2>3. MessageOfClaim(k)' = MessageOfClaim(k) /\ Receiver(k)' = Receiver(k)
    BY <2>1, <2>2 DEF MessageOfClaim, Receiver
  <2>4. Ended(claim[k].by) => Ended(claim[k].by)'
    BY <2>1, <2>2 DEF Ended
  <2> QED
    BY <2>1, <2>2, <2>3, <2>4 DEF BindingSound, Ended
<1>8. ASSUME AbandonAttentionHandler(k) \/ ReopenAbandonedAttentionHandler(k)
      PROVE  BindingSound(k)'
  <2>1. PICK state \in {"claimed", "completed-bound", "abandoned"} :
          /\ claim' = [claim EXCEPT ![k].state = state]
          /\ state = "claimed" => claim[k].by = NoExecution
          /\ state = "completed-bound" => claim[k].by # NoExecution
    BY <1>8 DEF AbandonAttentionHandler, ReopenAbandonedAttentionHandler
  <2>2. /\ claim[k].state \in {"claimed", "completed-bound", "abandoned"}
        /\ UNCHANGED <<run, about, log, finalized, admittedBy, decided>>
    BY <1>8
       DEF AbandonAttentionHandler, ReopenAbandonedAttentionHandler, turn_vars, run_vars, mail_vars,
           bind_vars
  <2>3. /\ claim'[k].state = state /\ claim'[k].by = claim[k].by
        /\ claim'[k].event = claim[k].event /\ claim'[k].seen = claim[k].seen
    BY <2>1 DEF ClaimType
  <2>4. MessageOfClaim(k)' = MessageOfClaim(k) /\ Receiver(k)' = Receiver(k)
    BY <2>2, <2>3 DEF MessageOfClaim, Receiver
  <2> QED
    BY <2>1, <2>2, <2>3, <2>4 DEF BindingSound, Ended
<1>9. CASE claim'[k] # claim[k]
  <2>1. ~UNCHANGED claim
    BY <1>9
  <2>2. ~TasksMove /\ ~TurnsMove /\ ~MessagesMove
    BY <2>1, TurnSteps, MessageSteps DEF TasksMove, TurnTyped, MessageTyped, cursor_vars
  <2>3. \A r \in Incarnation, n \in DOMAIN log : ~AdvanceAttentionCursor(r, n)
    BY <2>1 DEF AdvanceAttentionCursor
  <2>4. PICK o \in Epoch :
          \/ \E r \in Incarnation, n \in DOMAIN log : ClaimAttentionEvent(r, o, n)
          \/ \E e \in Execution : BindCompletedAttentionHandler(o, e)
          \/ \E e \in Execution : \E n \in DOMAIN run[e].tools : CommitReceiverDecision(o, e, n)
          \/ PromoteAttentionHandler(o) \/ CommitFinalizedDependencyAttentionHandler(o)
          \/ AbandonAttentionHandler(o) \/ ReopenAbandonedAttentionHandler(o)
    BY <2>2, <2>3 DEF AttentionNext, ClaimsMove
  <2>5. \A e \in Execution : \A n \in DOMAIN run[e].tools : ~CommitReceiverDecision(o, e, n)
    BY <2>1 DEF CommitReceiverDecision, cursor_vars
  <2>6. ClaimsMovedBy(o)
    BY <2>4, <2>5
       DEF ClaimsMovedBy, ClaimAttentionEvent, BindCompletedAttentionHandler,
           PromoteAttentionHandler, CommitFinalizedDependencyAttentionHandler, CommitClaim,
           AbandonAttentionHandler, ReopenAbandonedAttentionHandler
  <2>7. o = k
    BY <1>9, <2>6 DEF ClaimsMovedBy
  <2> QED
    BY <1>5, <1>6, <1>7, <1>8, <2>4, <2>5, <2>7
<1> QED
  BY <1>4, <1>9

(***************************************************************************)
(* What was decided.                                                       *)
(***************************************************************************)
LEMMA EntriesOf ==
  ASSUME AttentionTypes, NEW x \in Message, NEW word \in AuditWord, NEW rev \in Nat,
         Audits(x, word, rev)
  PROVE  /\ \A m \in Message, w \in AuditWord :
              m # x \/ w # word => Entries(m, w)' = Entries(m, w)
         /\ Len(log) + 1 \in Entries(x, word)'
         /\ \A o \in Entries(x, word)' : o <= Len(log) + 1
         /\ log'[Len(log) + 1].rev = rev
         /\ word = "receiver-decided" => log'[Len(log) + 1].decision = disp'[x].decision
<1> USE ClaimOf
<1> DEFINE entry == [message |-> x, word |-> word, rev |-> rev, redacted |-> FALSE,
                     decision |-> IF word = "receiver-decided" THEN disp'[x].decision ELSE "pending"]
<1>1. log' = Append(log, entry)
  BY DEF Audits
<1>2. entry.message = x /\ entry.word = word /\ entry.rev = rev
      /\ (word = "receiver-decided" => entry.decision = disp'[x].decision)
  OBVIOUS
<1> HIDE DEF entry
<1>3. /\ Len(log) \in Nat /\ DOMAIN log = 1..Len(log) /\ DOMAIN log' = 1..(Len(log) + 1)
      /\ log'[Len(log) + 1] = entry /\ \A n \in DOMAIN log : log'[n] = log[n]
  BY <1>1
<1> HIDE DEF entry
<1>4. ASSUME NEW m \in Message, NEW w \in AuditWord, m # x \/ w # word
      PROVE  Entries(m, w)' = Entries(m, w)
  BY <1>2, <1>3, <1>4 DEF Entries
<1>5. Len(log) + 1 \in Entries(x, word)' /\ \A o \in Entries(x, word)' : o <= Len(log) + 1
  BY <1>2, <1>3 DEF Entries
<1> QED
  BY <1>2, <1>3, <1>4, <1>5

\* No entry goes away.
LEMMA EntriesKept ==
  ASSUME LogGrows, NEW m, NEW w
  PROVE  /\ Entries(m, w) \subseteq Entries(m, w)'
         /\ \A n \in Entries(m, w) : log'[n].rev = log[n].rev /\ log'[n].decision = log[n].decision
BY DEF LogGrows, SameEntry, Entries

LEMMA PurgeEntries ==
  ASSUME AttentionTypes, NEW x \in Message, Purge(x)
  PROVE  \A m \in Message, w \in AuditWord : w # "other" => Entries(m, w)' = Entries(m, w)
<1> USE ClaimOf
<1> DEFINE Cut(n) == IF log[n].message = x THEN [log[n] EXCEPT !.redacted = TRUE] ELSE log[n]
           Old == [n \in DOMAIN log |-> Cut(n)]
           New == [message |-> x, word |-> "other", rev |-> disp[x].rev, redacted |-> FALSE,
                   decision |-> "pending"]
<1>1. LogGrows
  BY LogGrowth DEF LogStep
<1>2. log' = Append(Old, New) /\ New.word = "other"
  BY DEF Purge
<1>3. \A n \in 1..Len(log) : Cut(n) \in AuditType
  <2>1. \A n \in 1..Len(log) : log[n] \in AuditType
    OBVIOUS
  <2> QED
    BY <2>1 DEF AuditType
<1> HIDE DEF Cut, New
<1>4. Old \in [1..Len(log) -> AuditType]
  BY <1>3
<1> HIDE DEF Old
<1>5. Old \in Seq(AuditType) /\ Len(Old) = Len(log)
  BY <1>4, FunctionIsSeq
<1>6. DOMAIN log' = 1..(Len(log) + 1) /\ log'[Len(log) + 1].word = "other"
  BY <1>2, <1>5
<1>7. \A n \in DOMAIN log : SameEntry(n)
  BY <1>1 DEF LogGrows
<1> QED
  BY <1>6, <1>7 DEF Entries, SameEntry

\* A decision is audited, unless it is that time ran out, which is final.
HeardStep(m) ==
  \/ /\ disp'[m].decision = disp[m].decision
     /\ disp[m].delivery = "expired" => disp'[m].delivery = "expired"
     /\ Entries(m, "receiver-decided")' = Entries(m, "receiver-decided")
  \/ /\ disp'[m].decision = "expired" /\ disp'[m].delivery = "expired"
     /\ Entries(m, "receiver-decided")' = Entries(m, "receiver-decided")
  \/ /\ Len(log) + 1 \in Entries(m, "receiver-decided")'
     /\ \A o \in Entries(m, "receiver-decided")' : o <= Len(log) + 1
     /\ log'[Len(log) + 1].decision = disp'[m].decision

\* A claim from the mailbox is audited, and once acknowledged only a purge ends it.
MailStep(m) ==
  /\ mailbox'[m].state # "none" =>
       mailbox[m].state # "none" \/ Entries(m, "mailbox-claimed")' # {}
  /\ mailbox[m].state = "acknowledged" => mailbox'[m] = mailbox[m] \/ m \in purged'

HearsAll == \A m \in Message : HeardStep(m) /\ MailStep(m)

LEMMA NothingHeard ==
  ASSUME UNCHANGED <<log, disp, mailbox>> PROVE HearsAll
BY DEF HearsAll, HeardStep, MailStep, Entries

\* An audit of another kind.
LEMMA OtherHeard ==
  ASSUME AttentionTypes, NEW x \in Message, NEW word \in AuditWord \ {"receiver-decided"},
         NEW rev \in Nat, Audits(x, word, rev),
         \A m \in Message :
           /\ disp'[m].decision = disp[m].decision
           /\ disp[m].delivery = "expired" => disp'[m].delivery = "expired"
  PROVE  \A m \in Message : HeardStep(m)
<1>1. "receiver-decided" \in AuditWord
  BY DEF AuditWord
<1>2. \A m \in Message : Entries(m, "receiver-decided")' = Entries(m, "receiver-decided")
  BY <1>1, EntriesOf
<1> QED
  BY <1>2 DEF HeardStep

LEMMA RespondsHeard ==
  ASSUME AttentionTypes, NEW x \in Message, NEW d \in DecisionStates, Responds(x, d)
  PROVE  \A m \in Message : HeardStep(m)
<1> USE RowOf
<1>1. "receiver-decided" \in AuditWord
  BY DEF AuditWord
<1>2. Audits(x, "receiver-decided", disp[x].rev + 1)
  BY DEF Responds
<1>3. \A m \in Message \ {x} : disp'[m] = disp[m]
  BY DEF Responds, Moves
<1> QED
  BY <1>1, <1>2, <1>3, EntriesOf DEF HeardStep

\* Of the mailbox nothing changed, or a claim lapsed.
LEMMA MailWaits ==
  ASSUME \A m \in Message : mailbox'[m] = mailbox[m] \/ mailbox[m].state = "claimed"
  PROVE  \A m \in Message : MailStep(m)
BY DEF MailStep

LEMMA MessageHears ==
  ASSUME AttentionTypes, MessagesMove
  PROVE  HearsAll
<1> USE RowOf DEF HearsAll
<1>1. ASSUME NEW x \in Message, Received(x) PROVE HearsAll
  <2>1. \A m \in Message : /\ disp'[m].decision = disp[m].decision
                           /\ disp[m].delivery = "expired" => disp'[m].delivery = "expired"
    BY <1>1 DEF Received, Exists, DispositionType
  <2>2. \A m \in Message : HeardStep(m)
    BY <1>1, <2>1, OtherHeard DEF Received, AuditWord
  <2> QED
    BY <1>1, <2>2, MailWaits DEF Received
<1>2. ASSUME NEW x \in Message, ClaimPending(x) PROVE HearsAll
  <2>1. \A m \in Message : HeardStep(m)
    BY <1>2, OtherHeard DEF ClaimPending, AuditWord
  <2>2. Entries(x, "mailbox-claimed")' # {}
    BY <1>2, EntriesOf DEF ClaimPending, AuditWord
  <2>3. \A m \in Message : MailStep(m)
    BY <1>2, <2>2 DEF ClaimPending, MailStep
  <2> QED
    BY <2>1, <2>3
<1>3. ASSUME NEW x \in Message, Lapse(x) \/ FallDue(x) PROVE HearsAll
  <2>1. \A m \in Message : HeardStep(m)
    BY <1>3 DEF Lapse, FallDue, HeardStep, Entries
  <2>2. \A m \in Message : mailbox'[m] = mailbox[m] \/ mailbox[m].state = "claimed"
    <3>1. CASE Lapse(x)
      BY <3>1 DEF Lapse
    <3>2. CASE FallDue(x)
      <4>1. mailbox' = [mailbox EXCEPT ![x].state = mailbox[x].state] \/ mailbox[x].state = "claimed"
        BY <3>2 DEF FallDue
      <4>2. [mailbox[x] EXCEPT !.state = mailbox[x].state] = mailbox[x]
        OBVIOUS
      <4>3. \A m \in Message \ {x} : mailbox'[m] = mailbox[m]
        BY <3>2 DEF FallDue
      <4> QED
        BY <4>1, <4>2, <4>3
    <3> QED
      BY <1>3, <3>1, <3>2
  <2> QED
    BY <2>1, <2>2, MailWaits
<1>4. ASSUME NEW x \in Message, Expire(x) PROVE HearsAll
  <2> DEFINE word == IF disp[x].decision \in UndecidedStates THEN "expired" ELSE disp[x].decision
  <2>1. /\ disp'[x].delivery = "expired" /\ disp'[x].decision = word
        /\ \A m \in Message \ {x} : disp'[m] = disp[m]
    <3>1. disp' = [disp EXCEPT ![x].delivery = "expired", ![x].rev = @ + 1, ![x].decision = word]
      BY <1>4 DEF Expire
    <3> HIDE DEF word
    <3> QED
      BY <3>1 DEF DispositionType
  <2>2. \A m \in Message : Entries(m, "receiver-decided")' = Entries(m, "receiver-decided")
    <3>1. Audits(x, "other", disp[x].rev + 1)
      BY <1>4 DEF Expire
    <3>2. "other" \in AuditWord /\ "receiver-decided" \in AuditWord /\ disp[x].rev + 1 \in Nat
      BY DEF AuditWord
    <3> QED
      BY <3>1, <3>2, EntriesOf
  <2>3. \A m \in Message : HeardStep(m)
    BY <2>1, <2>2 DEF HeardStep
  <2> QED
    BY <1>4, <2>3, MailWaits DEF Expire
<1>5. ASSUME NEW x \in Message, Purge(x) PROVE HearsAll
  <2>1. \A m \in Message : Entries(m, "receiver-decided")' = Entries(m, "receiver-decided")
    BY <1>5, PurgeEntries DEF AuditWord
  <2>2. \A m \in Message : HeardStep(m)
    BY <1>5, <2>1 DEF Purge, HeardStep
  <2>3. \A m \in Message : MailStep(m)
    BY <1>5 DEF Purge, MailStep
  <2> QED
    BY <2>2, <2>3
<1>6. ASSUME NEW x \in Message, NEW d \in Decision, Respond(x, d) PROVE HearsAll
  BY <1>6, RespondsHeard, DecisionsKnown, MailWaits DEF Respond
<1>7. ASSUME NEW x \in Message, NEW d \in Decision, AcknowledgePending(x, d) PROVE HearsAll
  <2>1. \A m \in Message : HeardStep(m)
    BY <1>7, RespondsHeard, DecisionsKnown DEF AcknowledgePending, Acknowledges
  <2>2. \A m \in Message : mailbox'[m] = mailbox[m] \/ mailbox[m].state = "claimed"
    BY <1>7 DEF AcknowledgePending, Acknowledges
  <2> QED
    BY <2>1, <2>2, MailWaits
<1>8. ASSUME NEW x \in Message, Confirms(x), UNCHANGED mailbox PROVE HearsAll
  <2>1. disp' \in [Message -> DispositionType]
    BY <1>8, ConfirmsTyped DEF RowsTyped
  <2>2. disp'[x].rev \in Nat
    BY <2>1 DEF DispositionType
  <2>3. \A m \in Message : /\ disp'[m].decision = disp[m].decision
                           /\ disp[m].delivery = "expired" => disp'[m].delivery = "expired"
    BY <1>8 DEF Confirms, Moves, DispositionType
  <2>4. \A m \in Message : HeardStep(m)
    BY <1>8, <2>2, <2>3, OtherHeard DEF Confirms, AuditWord
  <2> QED
    BY <1>8, <2>4, MailWaits
<1>9. ASSUME NEW x \in Message, NEW d \in {"adapter-submitted", "failed"}, Delivers(x, d)
      PROVE  HearsAll
  <2>1. disp[x].delivery # "expired"
    BY <1>9 DEF Delivers, DeliveryMay, DeliveryTable, NonTerminalDelivery
  <2>2. \A m \in Message : /\ disp'[m].decision = disp[m].decision
                           /\ disp[m].delivery = "expired" => disp'[m].delivery = "expired"
    BY <1>9, <2>1 DEF Delivers, Moves, DispositionType
  <2>3. \A m \in Message : HeardStep(m)
    BY <1>9, <2>2, OtherHeard DEF Delivers, AuditWord
  <2> QED
    BY <1>9, <2>3, MailWaits DEF Delivers
<1>10. ASSUME NEW x \in Message, SubmissionTrace(x) PROVE HearsAll
  <2>1. \A m \in Message : HeardStep(m)
    BY <1>10, OtherHeard DEF SubmissionTrace, AuditWord
  <2> QED
    BY <1>10, <2>1, MailWaits DEF SubmissionTrace
<1>11. ASSUME NEW x \in Message, NEW g \in BOOLEAN, Satisfy(x, g) PROVE HearsAll
  <2>1. \A m \in Message : /\ disp'[m].decision = disp[m].decision
                           /\ disp[m].delivery = "expired" => disp'[m].delivery = "expired"
    BY <1>11 DEF Satisfy, Moves, DispositionType
  <2>2. \A m \in Message : HeardStep(m)
    BY <1>11, <2>1, OtherHeard DEF Satisfy, AuditWord
  <2> QED
    BY <1>11, <2>2, MailWaits DEF Satisfy
<1>12. ASSUME NEW x \in Message, PrepareContextAdmission(x) PROVE HearsAll
  BY <1>12, NothingHeard DEF PrepareContextAdmission
<1> QED
  BY <1>1, <1>2, <1>3, <1>4, <1>5, <1>6, <1>7, <1>8, <1>9, <1>10, <1>11, <1>12
     DEF MessagesMove, Submit, Publish, ConfirmContextAdmission, ConfirmContextAdmissionFromTurn

\* A claim stays a claim of its event.
LEMMA ClaimLasts ==
  ASSUME AttentionTypes, CursorStep, NEW k \in Epoch, claim[k].state # "none"
  PROVE  claim'[k].state # "none" /\ claim'[k].event = claim[k].event
<1> USE ClaimOf
<1>1. CASE UNCHANGED claim
  BY <1>1
<1>2. ASSUME NEW r \in Incarnation, NEW o \in Epoch, NEW n \in DOMAIN log, Claims(r, o, n)
      PROVE  claim'[k] = claim[k]
  BY <1>2 DEF Claims
<1>3. ASSUME NEW o \in Epoch, StaysOpen(o)
      PROVE  claim'[k].state # "none" /\ claim'[k].event = claim[k].event
  BY <1>3 DEF StaysOpen
<1>4. ASSUME NEW o \in Epoch, CommitClaim(o)
      PROVE  claim'[k].state # "none" /\ claim'[k].event = claim[k].event
  BY <1>4 DEF CommitClaim, ClaimType
<1> QED
  BY <1>1, <1>2, <1>3, <1>4 DEF CursorStep, cursor_vars, Skips

LEMMA DecisionHears ==
  ASSUME AttentionTypes, NEW k \in Epoch, NEW e \in Execution, NEW n, ClaimPlaced(k),
         CommitReceiverDecision(k, e, n)
  PROVE  HearsAll
<1> USE RowOf
<1>1. MessageOfClaim(k) \in Message
  BY ClaimAt DEF CommitReceiverDecision
<1>2. said[e].decision \in DecisionStates
  BY RunOf DEF SaidType
<1>3. \A m \in Message : HeardStep(m)
  BY <1>1, <1>2, RespondsHeard DEF CommitReceiverDecision, Acknowledges
<1>4. \A m \in Message : mailbox'[m] = mailbox[m] \/ mailbox[m].state = "claimed"
  BY DEF CommitReceiverDecision, Acknowledges
<1> QED
  BY <1>3, <1>4, MailWaits DEF HearsAll

LEMMA DecisionStays ==
  ASSUME AttentionTypes, WalkInv, Kept, HearsAll, CursorStep,
         NEW k \in Epoch, DecisionSound(k), decided[k].by # NoExecution
  PROVE  DecisionSound(k)'
<1> USE DEF WalkInv
<1> DEFINE m == MessageOfClaim(k)
           e == decided[k].by
<1>1. /\ claim[k].state # "none" /\ Ended(e)
      /\ ActorOf[e] = Receiver(k) /\ MessageOf[e] = m /\ about[e] = claim[k].event
      /\ \E n \in Entries(m, "receiver-decided") :
            log[n].rev = decided[k].rev /\ log[n].decision = decided[k].decision
      /\ m \notin purged => mailbox[m].state = "acknowledged" /\ mailbox[m].rev + 1 = decided[k].rev
  BY DEF DecisionSound
<1>2. decided'[k] = decided[k] /\ LogGrows /\ e \in Execution
  BY ClaimOf DEF Kept, DecidedKept, DecidedType
<1>3. claim'[k].state # "none" /\ claim'[k].event = claim[k].event
  BY <1>1, ClaimLasts
<1>4. m' = m /\ Receiver(k)' = Receiver(k) /\ m \in Message
  BY <1>1, <1>2, <1>3, ClaimStays, ClaimAt
<1>5. Ended(e)' /\ about'[e] = about[e]
  BY <1>1, <1>2 DEF Kept, EndsKept
<1>6. PICK n \in Entries(m, "receiver-decided") :
        log[n].rev = decided[k].rev /\ log[n].decision = decided[k].decision
  BY <1>1
<1>7. n \in Entries(m, "receiver-decided")' /\ log'[n].rev = decided[k].rev
      /\ log'[n].decision = decided[k].decision
  BY <1>2, <1>4, <1>6 DEF Entries, LogGrows, SameEntry
<1>8. m \notin purged' => mailbox'[m].state = "acknowledged" /\ mailbox'[m].rev + 1 = decided[k].rev
  BY <1>1, <1>2, <1>4 DEF HearsAll, MailStep, LogGrows
<1> QED
  BY <1>1, <1>2, <1>3, <1>4, <1>5, <1>7, <1>8 DEF DecisionSound

LEMMA DecidedNext ==
  ASSUME AttentionTypes, WalkInv, DecidedInv, AttentionNext
  PROVE  DecidedInv'
<1> USE DEF WalkInv, DecidedInv
<1>1. Kept /\ CursorStep
  BY KeptNext, CursorSteps
<1>2. HearsAll
  <2>1. CASE UNCHANGED <<log, disp, mailbox>>
    BY <2>1, NothingHeard
  <2>2. CASE MessagesMove
    BY <2>2, MessageHears
  <2>3. ASSUME NEW k \in Epoch, NEW e \in Execution, NEW n, CommitReceiverDecision(k, e, n)
        PROVE  HearsAll
    BY <2>3, DecisionHears
  <2> QED
    BY <2>1, <2>2, <2>3, TurnSteps
       DEF AttentionNext, TasksMove, ClaimsMove, ClaimAttentionEvent, TurnTyped,
           BindCompletedAttentionHandler, PromoteAttentionHandler,
           CommitFinalizedDependencyAttentionHandler, CommitClaim, AbandonAttentionHandler,
           ReopenAbandonedAttentionHandler, AdvanceAttentionCursor, mail_vars
<1>3. ASSUME NEW m \in Message PROVE LastHeard(m)'
  <2>1. LastHeard(m) /\ HeardStep(m) /\ LogGrows
    BY <1>1, <1>2 DEF HearsAll, Kept
  <2>2. CASE /\ Len(log) + 1 \in Entries(m, "receiver-decided")'
             /\ \A o \in Entries(m, "receiver-decided")' : o <= Len(log) + 1
             /\ log'[Len(log) + 1].decision = disp'[m].decision
    BY <2>2 DEF LastHeard
  <2>3. CASE /\ \/ /\ disp'[m].decision = disp[m].decision
                   /\ disp[m].delivery = "expired" => disp'[m].delivery = "expired"
                \/ disp'[m].decision = "expired" /\ disp'[m].delivery = "expired"
             /\ Entries(m, "receiver-decided")' = Entries(m, "receiver-decided")
    <3>1. \A n \in Entries(m, "receiver-decided") : log'[n].decision = log[n].decision
      BY <2>1, EntriesKept
    <3> QED
      BY <2>1, <2>3, <3>1 DEF LastHeard
  <2> QED
    BY <2>1, <2>2, <2>3 DEF HeardStep
<1>4. ASSUME NEW m \in Message PROVE ClaimAudited(m)'
  <2>1. Entries(m, "mailbox-claimed") \subseteq Entries(m, "mailbox-claimed")'
    BY <1>1, EntriesKept DEF Kept
  <2> QED
    BY <1>2, <2>1 DEF ClaimAudited, HearsAll, MailStep
<1>5. ASSUME NEW k \in Epoch PROVE DecisionSound(k)'
  <2>1. CASE decided[k].by # NoExecution
    BY <1>1, <1>2, <2>1, DecisionStays
  <2>2. CASE decided'[k].by = NoExecution
    BY <2>2 DEF DecisionSound
  <2>3. CASE decided[k].by = NoExecution /\ decided'[k].by # NoExecution
    <3>1. decided' # decided
      BY <2>3
    <3>2. PICK o \in Epoch, e \in Execution :
            \E n \in DOMAIN run[e].tools : CommitReceiverDecision(o, e, n)
      BY <3>1, TurnSteps, MessageSteps
         DEF AttentionNext, TasksMove, ClaimsMove, ClaimAttentionEvent, TurnTyped, MessageTyped,
             BindCompletedAttentionHandler, PromoteAttentionHandler,
             CommitFinalizedDependencyAttentionHandler, CommitClaim, AbandonAttentionHandler,
             ReopenAbandonedAttentionHandler, AdvanceAttentionCursor, bind_vars
    <3>3. o = k /\ decided'[k] = [by |-> e, decision |-> said[e].decision, rev |-> said[e].rev]
      BY <2>3, <3>2, ClaimOf DEF CommitReceiverDecision
    <3> PICK m \in Message : m = MessageOfClaim(k)
      BY <3>2, <3>3, ClaimAt DEF CommitReceiverDecision
    <3>4. /\ claim[k].state = "claimed" /\ DecidedIn(k, e) /\ Acknowledges(m, said[e].decision)
          /\ said[e].rev = disp[m].rev + 1
          /\ UNCHANGED <<run, about, claim, purged>>
      BY <3>2, <3>3 DEF CommitReceiverDecision, turn_vars, run_vars, cursor_vars
    <3>5. MessageOfClaim(k)' = m /\ Receiver(k)' = Receiver(k)
      BY <1>1, <3>4, ClaimStays DEF Kept
    <3>6. Ended(e)' /\ ActorOf[e] = Receiver(k) /\ MessageOf[e] = m /\ about'[e] = claim'[k].event
      BY <3>4 DEF DecidedIn, Finished, Ended
    <3>7. /\ Len(log) + 1 \in Entries(m, "receiver-decided")'
          /\ log'[Len(log) + 1].rev = said[e].rev
          /\ log'[Len(log) + 1].decision = said[e].decision
      <4>1. Audits(m, "receiver-decided", disp[m].rev + 1)
        BY <3>4 DEF Acknowledges, Responds
      <4>2. disp'[m].decision = said[e].decision
        <5>1. disp' = [disp EXCEPT ![m]["decision"] = said[e].decision, ![m].rev = @ + 1]
          BY <3>4 DEF Acknowledges, Responds, Moves
        <5> QED
          BY <5>1, RowOf DEF DispositionType
      <4>3. "receiver-decided" \in AuditWord /\ disp[m].rev + 1 \in Nat
        BY RowOf DEF AuditWord
      <4> QED
        BY <3>4, <4>1, <4>2, <4>3, EntriesOf
    <3>8. mailbox'[m].state = "acknowledged" /\ mailbox'[m].rev + 1 = said[e].rev
      BY <3>4, RowOf DEF Acknowledges
    <3> QED
      BY <3>3, <3>4, <3>5, <3>6, <3>7, <3>8 DEF DecisionSound
  <2> QED
    BY <2>1, <2>2, <2>3
<1> QED
  BY <1>3, <1>4, <1>5

LEMMA AttentionInvInit == AttentionInit => AttentionInv
<1> SUFFICES ASSUME AttentionInit PROVE AttentionInv
  OBVIOUS
<1> USE DEF AttentionInit
<1>1. AttentionTypes /\ WalkInv
  BY AttentionTypesInit, WalkInit
<1>2. log = <<>> /\ DOMAIN log = {}
  OBVIOUS
<1>3. BoundInv
  BY <1>2 DEF BoundInv, RedactedPurged, BindingSound, NoClaim
<1>4. DecidedInv
  BY <1>2 DEF DecidedInv, LastHeard, ClaimAudited, DecisionSound, Entries
<1> QED
  BY <1>1, <1>3, <1>4 DEF AttentionInv

\* Claims, bindings and decisions are sound in every state.
THEOREM AttentionInductive == AttentionSpec => []AttentionInv
<1>1. AttentionInv /\ UNCHANGED attention_vars => AttentionInv'
  <2> SUFFICES ASSUME AttentionInv, UNCHANGED attention_vars PROVE AttentionInv'
    OBVIOUS
  <2> USE DEF attention_vars, turn_vars, run_vars, registry_vars, mail_vars, bind_vars, cursor_vars,
              AttentionInv
  <2>1. AttentionTypes'
    BY DEF AttentionTypes, AttentionTypeOK, TaskTypeOK
  <2>2. LogGrows
    BY LogGrowth DEF LogStep
  <2>3. WalkInv'
    BY <2>2, WalkWaits
  <2>4. BoundInv'
    BY DEF BoundInv, RedactedPurged, BindingSound, MessageOfClaim, Receiver, Ended
  <2>5. DecidedInv'
    BY DEF DecidedInv, LastHeard, ClaimAudited, DecisionSound, Entries, MessageOfClaim, Receiver, Ended
  <2> QED
    BY <2>1, <2>3, <2>4, <2>5
<1>2. AttentionInv /\ AttentionNext => AttentionInv'
  BY AttentionTypesNext, CursorSteps, WalkNext, BoundNext, DecidedNext DEF AttentionInv, WalkInv
<1> QED
  BY <1>1, <1>2, AttentionInvInit, PTL DEF AttentionSpec

\* A claim that the constructor would refuse when it opens the database was spoiled by
\* one of four things: its message was purged, its turn was given up, its commit was
\* made over a finalization (commitFinalizedDependencyAttentionHandler) or its message
\* was admitted by another turn.
THEOREM ClaimsStayOpen == AttentionSpec => []ClaimsOpen
<1>1. AttentionInv => ClaimsOpen
  <2> SUFFICES ASSUME AttentionInv, NEW k \in Epoch, claim[k].state # "none", ~ClaimSpoiled(k)
               PROVE  ClaimOpens(k)
    BY DEF ClaimsOpen, ClaimOpens
  <2> USE ClaimOf DEF AttentionInv, WalkInv, BoundInv
  <2>1. BindingSound(k) /\ claim[k].event \in DOMAIN log /\ claim[k].seen \in BOOLEAN
    BY DEF ClaimPlaced, ClaimType
  <2>2. claim[k].seen = log[claim[k].event].redacted
    <3>1. log[claim[k].event].redacted => claim[k].seen
      BY <2>1 DEF RedactedPurged, ClaimSpoiled, MessageOfClaim
    <3>2. claim[k].seen => log[claim[k].event].redacted
      BY <2>1 DEF BindingSound
    <3>3. log[claim[k].event].redacted \in BOOLEAN
      BY <2>1
    <3> QED
      BY <2>1, <3>1, <3>2, <3>3
  <2>3. claim[k].state \in {"claimed", "completed-bound", "promoted", "abandoned"}
    BY DEF ClaimType
  <2>4. CASE claim[k].by = NoExecution
    BY <2>1, <2>2, <2>3, <2>4 DEF ClaimOpens, BindingSound
  <2>5. CASE claim[k].by # NoExecution
    BY <2>1, <2>2, <2>3, <2>5 DEF ClaimOpens, BindingSound, ClaimSpoiled, Ended, Finished, HandlerOf
  <2> QED
    BY <2>4, <2>5
<1> QED
  BY <1>1, AttentionInductive, PTL

\* A decision that the constructor would refuse had its message purged, its turn given
\* up, its message decided by time or claimed from the mailbox twice, or was taken in
\* the turn that handled the event (#validatePersistedLifecycleBindings).
THEOREM DecisionsStayOpen == AttentionSpec => []DecisionsOpen
<1>1. AttentionInv => DecisionsOpen
  <2> SUFFICES ASSUME AttentionInv, NEW k \in Epoch, decided[k].by # NoExecution, ~DecisionSpoiled(k)
               PROVE  DecisionOpens(k)
    BY DEF DecisionsOpen, DecisionOpens
  <2> USE ClaimOf DEF AttentionInv, WalkInv, DecidedInv
  <2> DEFINE m == MessageOfClaim(k)
             heard == Entries(m, "receiver-decided")
             last == CHOOSE n \in heard : \A o \in heard : o <= n
             taken == Entries(m, "mailbox-claimed")
  <2>1. DecisionSound(k) /\ claim[k].state # "none" /\ m \in Message
    BY ClaimAt DEF DecisionSound
  <2>2. DecidedIn(k, decided[k].by)
    BY <2>1 DEF DecisionSound, DecisionSpoiled, Ended, Finished, DecidedIn
  <2>3. m \notin purged
    BY DEF DecisionSpoiled
  <2>4. PICK n \in heard : log[n].rev = decided[k].rev /\ log[n].decision = decided[k].decision
    BY <2>1 DEF DecisionSound
  <2>5. log[last].decision = disp[m].decision
    <3>1. LastHeard(m) /\ heard # {}
      BY <2>1, <2>4
    <3>2. PICK l \in heard : (\A o \in heard : o <= l) /\ log[l].decision = disp[m].decision
      BY <3>1 DEF LastHeard, DecisionSpoiled
    <3>3. last \in heard /\ \A o \in heard : o <= last
      BY <3>2
    <3>4. \A o \in heard : o \in Nat
      BY DEF Entries
    <3> HIDE DEF last, heard
    <3>5. last = l
      BY <3>2, <3>3, <3>4
    <3> QED
      BY <3>2, <3>5
  <2>6. mailbox[m].state = "acknowledged" /\ mailbox[m].rev + 1 = decided[k].rev
    BY <2>1, <2>3 DEF DecisionSound
  <2>7. Cardinality(taken) = 1
    <3>1. ClaimAudited(m)
      BY <2>1
    <3>2. taken # {}
      BY <2>6, <3>1 DEF ClaimAudited
    <3>3. PICK x \in taken : \A o \in taken : o = x
      BY <3>2 DEF DecisionSpoiled
    <3>4. taken = {x}
      BY <3>3
    <3> QED
      BY <3>4, FS_Singleton
  <2>8. claim[k].by # decided[k].by
    BY DEF DecisionSpoiled
  <2> QED
    BY <2>2, <2>3, <2>4, <2>5, <2>6, <2>7, <2>8 DEF DecisionOpens
<1> QED
  BY <1>1, AttentionInductive, PTL

(***************************************************************************)
(* Relationships: the inductive invariant.                                 *)
(***************************************************************************)
InstalledRow ==
  [version : Version, terms : ProposalTerms, expires : RelTime \cup {Never}, by : Approver,
   proposal : Proposal \cup {NoProposal}, decided : RelTime, revoked : RelTime \cup {Never}]

RelTypes ==
  /\ clock \in RelTime
  /\ retired \in [{"source", "target"} -> RelTime \cup {Never}]
  /\ proposal \in [Proposal -> {Nothing} \cup ProposalRow]
  /\ grant \in [Grant -> {Nothing} \cup InstalledRow]
  /\ summary \in {Nothing} \cup SummaryRow
  /\ summary # Nothing => grant[summary.under] # Nothing

\* What was granted on a proposal closed it.
ProposalSpent(g) == grant[g] # Nothing /\ grant[g].proposal \in Proposal =>
  LET p == grant[g].proposal IN
  proposal[p] # Nothing /\ proposal[p].status = "approved" /\ grant[g].terms = proposal[p].terms

SpentOnce ==
  \A g, h \in Installed :
    grant[g].proposal \in Proposal /\ grant[g].proposal = grant[h].proposal => g = h

\* Nobody reads under this grant any more.
GrantOver(g) ==
  \/ grant[g].revoked # Never
  \/ grant[g].expires <= clock
  \/ retired["target"] # Never

\* A tombstone stands where a grant has ended.
TombstoneDead == summary # Nothing /\ ~summary.content => GrantOver(summary.under)

RelInv ==
  /\ RelTypes
  /\ \A g \in Grant : ProposalSpent(g)
  /\ SpentOnce
  /\ TombstoneDead

LEMMA Clocks == MaxClock \in Nat /\ Never \in Nat /\ \A t \in RelTime : t \in Nat /\ t < Never
BY RelationshipAssumption DEF Never, RelTime

LEMMA RowsAreSomething ==
  /\ \A row \in InstalledRow : row # Nothing
  /\ \A row \in ProposalRow : row # Nothing
  /\ \A row \in SummaryRow : row # Nothing
<1>1. DOMAIN Nothing = {"none"}
  BY DEF Nothing
<1>2. ASSUME NEW row \in InstalledRow PROVE "version" \in DOMAIN row
  BY DEF InstalledRow
<1>3. ASSUME NEW row \in ProposalRow PROVE "terms" \in DOMAIN row
  BY DEF ProposalRow
<1>4. ASSUME NEW row \in SummaryRow PROVE "version" \in DOMAIN row
  BY DEF SummaryRow
<1> QED
  BY <1>1, <1>2, <1>3, <1>4

\* What a step may do to the grants, the clock and the tasks.
GrantsMove ==
  /\ clock' >= clock
  /\ \A t \in {"source", "target"} : retired[t] # Never => retired'[t] = retired[t]
  /\ \A g \in Installed :
       /\ g \in Installed'
       /\ grant'[g].version = grant[g].version /\ grant'[g].terms = grant[g].terms
       /\ grant'[g].expires = grant[g].expires /\ grant'[g].proposal = grant[g].proposal
       /\ grant[g].revoked # Never => grant'[g].revoked = grant[g].revoked

\* What a step may do to the proposals.
ProposalsMove ==
  \A p \in Proposal : proposal[p] # Nothing =>
    /\ proposal'[p] # Nothing /\ proposal'[p].terms = proposal[p].terms
    /\ proposal[p].status = "approved" => proposal'[p].status = "approved"

RelTypesButSummary ==
  /\ clock' \in RelTime
  /\ retired' \in [{"source", "target"} -> RelTime \cup {Never}]
  /\ proposal' \in [Proposal -> {Nothing} \cup ProposalRow]
  /\ grant' \in [Grant -> {Nothing} \cup InstalledRow]

\* A grant that is installed comes of its proposal alone.
LEMMA InstallsRow ==
  ASSUME RelTypes, NEW g \in Grant, NEW version \in Version, NEW terms \in ProposalTerms,
         NEW expires \in RelTime \cup {Never}, NEW revoked \in RelTime \cup {Never},
         NEW who \in Approver,
         NEW p \in Proposal \cup {NoProposal},
         Installs(g, Effective(version, terms, expires, revoked, who, p))
  PROVE  /\ grant' \in [Grant -> {Nothing} \cup InstalledRow]
         /\ \A h \in Installed : h \in Installed' /\ grant'[h] = grant[h]
         /\ \A h \in Installed' \ Installed : h = g /\ grant'[g].proposal = p /\ grant'[g].terms = terms
         /\ grant' = grant => grant[g].proposal = p /\ grant[g] # Nothing
<1> DEFINE row == Effective(version, terms, expires, revoked, who, p)
<1>1. /\ row \in InstalledRow /\ row.proposal = p /\ row.terms = terms
      /\ grant \in [Grant -> {Nothing} \cup InstalledRow]
  BY DEF Effective, InstalledRow, RelTypes
<1> HIDE DEF row
<1>2. CASE grant[g] = Nothing /\ grant' = [grant EXCEPT ![g] = row]
  <2>1. grant' \in [Grant -> {Nothing} \cup InstalledRow]
    BY <1>1, <1>2
  <2>2. row # Nothing
    BY <1>1, RowsAreSomething
  <2> QED
    BY <1>1, <1>2, <2>1, <2>2 DEF Installed
<1>3. CASE /\ grant[g] # Nothing /\ row \in {grant[g], [grant[g] EXCEPT !.revoked = Never]}
           /\ grant' = grant
  <2>1. grant[g] \in InstalledRow
    BY <1>1, <1>3
  <2>2. [grant[g] EXCEPT !.revoked = Never].proposal = grant[g].proposal
    BY <2>1 DEF InstalledRow
  <2> QED
    BY <1>1, <1>3, <2>2 DEF Installed
<1> QED
  BY <1>2, <1>3 DEF Installs, row

\* Grants and proposals after a step that installs nothing new.
RelKept ==
  /\ RelTypesButSummary /\ GrantsMove /\ ProposalsMove
  /\ \A g \in Grant : ProposalSpent(g)'
  /\ SpentOnce'

LEMMA NothingInstalled ==
  ASSUME RelInv, RelTypesButSummary, GrantsMove, ProposalsMove, Installed' = Installed
  PROVE  RelKept
<1>1. ASSUME NEW g \in Grant PROVE ProposalSpent(g)'
  <2>1. ProposalSpent(g)
    BY DEF RelInv
  <2> QED
    BY <2>1 DEF ProposalSpent, GrantsMove, ProposalsMove, Installed
<1>2. SpentOnce'
  BY DEF RelInv, SpentOnce, GrantsMove
<1> QED
  BY <1>1, <1>2 DEF RelKept

LEMMA SameRows ==
  ASSUME RelTypes
  PROVE  /\ UNCHANGED <<clock, retired, grant>> => GrantsMove
         /\ UNCHANGED proposal => ProposalsMove
         /\ UNCHANGED grant => Installed' = Installed
BY Clocks DEF RelTypes, GrantsMove, ProposalsMove, Installed

LEMMA DirectlyKept ==
  ASSUME RelInv, NEW g \in Grant, NEW version \in Version, NEW terms \in ProposalTerms,
         NEW expires \in RelTime \cup {Never}, NEW revoked \in RelTime \cup {Never},
         NEW who \in Approver,
         IssueDirectly(g, version, terms, expires, revoked, who)
  PROVE  RelKept
<1> USE DEF IssueDirectly
<1>1. RelTypes /\ NoProposal \notin Proposal
  BY RelationshipAssumption DEF RelInv
<1>2. /\ grant' \in [Grant -> {Nothing} \cup InstalledRow]
      /\ \A h \in Installed : h \in Installed' /\ grant'[h] = grant[h]
      /\ \A h \in Installed' \ Installed : h = g /\ grant'[g].proposal = NoProposal
  BY <1>1, InstallsRow
<1>3. RelTypesButSummary /\ GrantsMove /\ ProposalsMove
  BY <1>1, <1>2, Clocks, SameRows DEF RelTypesButSummary, RelTypes, GrantsMove
<1>4. ASSUME NEW h \in Grant PROVE ProposalSpent(h)'
  <2>1. ProposalSpent(h)
    BY DEF RelInv
  <2> QED
    BY <1>1, <1>2, <2>1 DEF ProposalSpent, Installed
<1>5. SpentOnce'
  BY <1>1, <1>2 DEF RelInv, SpentOnce
<1> QED
  BY <1>3, <1>4, <1>5 DEF RelKept

LEMMA OnProposalKept ==
  ASSUME RelInv, NEW g \in Grant, NEW version \in Version, NEW terms \in ProposalTerms,
         NEW expires \in RelTime \cup {Never}, NEW revoked \in RelTime \cup {Never},
         NEW who \in Approver, NEW p \in Proposal,
         IssueOnProposal(g, version, terms, expires, revoked, who, p)
  PROVE  RelKept
<1> USE DEF IssueOnProposal
<1>1. RelTypes
  BY DEF RelInv
<1>2. /\ grant' \in [Grant -> {Nothing} \cup InstalledRow]
      /\ \A h \in Installed : h \in Installed' /\ grant'[h] = grant[h]
      /\ \A h \in Installed' \ Installed : h = g /\ grant'[g].proposal = p /\ grant'[g].terms = terms
  BY <1>1, InstallsRow
<1>3. /\ proposal[p] \in ProposalRow /\ proposal[p].status = "pending" /\ proposal[p].terms = terms
      /\ proposal \in [Proposal -> {Nothing} \cup ProposalRow]
  BY <1>1 DEF Grantable, RelTypes
<1>4. /\ proposal'[p] \in ProposalRow /\ proposal'[p].status = "approved" /\ proposal'[p].terms = terms
      /\ \A q \in Proposal \ {p} : proposal'[q] = proposal[q]
      /\ proposal' \in [Proposal -> {Nothing} \cup ProposalRow]
  <2>1. [proposal[p] EXCEPT !.status = "approved"] \in ProposalRow
    BY <1>3 DEF ProposalRow
  <2>2. /\ [proposal[p] EXCEPT !.status = "approved"].status = "approved"
        /\ [proposal[p] EXCEPT !.status = "approved"].terms = proposal[p].terms
    BY <1>3 DEF ProposalRow
  <2>3. proposal' = [proposal EXCEPT ![p] = [proposal[p] EXCEPT !.status = "approved"]]
    OBVIOUS
  <2> QED
    BY <1>3, <2>1, <2>2, <2>3
<1>5. proposal'[p] # Nothing /\ proposal[p] # Nothing
  BY <1>3, <1>4, RowsAreSomething
<1>6. RelTypesButSummary /\ GrantsMove /\ ProposalsMove
  BY <1>1, <1>2, <1>3, <1>4, <1>5, Clocks DEF RelTypesButSummary, RelTypes, GrantsMove, ProposalsMove
<1>7. \A h \in Installed : grant[h].proposal # p
  BY <1>3 DEF RelInv, ProposalSpent, Installed
<1>8. ASSUME NEW h \in Grant PROVE ProposalSpent(h)'
  <2>1. CASE h \in Installed
    <3>1. grant'[h] = grant[h] /\ ProposalSpent(h) /\ grant[h] # Nothing /\ grant[h].proposal # p
      BY <1>2, <1>7, <2>1 DEF RelInv, Installed
    <3> QED
      BY <1>4, <3>1 DEF ProposalSpent
  <2>2. CASE h \notin Installed /\ grant'[h] # Nothing
    <3>1. h = g /\ grant'[g].proposal = p /\ grant'[g].terms = terms
      BY <1>2, <2>2 DEF Installed
    <3> QED
      BY <1>4, <1>5, <3>1 DEF ProposalSpent
  <2> QED
    BY <2>1, <2>2 DEF ProposalSpent
<1>9. SpentOnce'
  BY <1>2, <1>7 DEF RelInv, SpentOnce
<1> QED
  BY <1>6, <1>8, <1>9 DEF RelKept

LEMMA RelSteps ==
  ASSUME RelInv, RelNext
  PROVE  RelKept
<1>1. RelTypes
  BY DEF RelInv
<1> USE <1>1
<1>2. CASE RelTick
  <2>1. clock' \in RelTime /\ clock' >= clock
    BY <1>2, Clocks DEF RelTick, RelTypes, RelTime
  <2>2. RelTypesButSummary /\ GrantsMove /\ ProposalsMove /\ Installed' = Installed
    BY <1>2, <2>1, SameRows DEF RelTick, RelTypes, RelTypesButSummary, GrantsMove, Installed
  <2> QED
    BY <2>2, NothingInstalled
<1>3. ASSUME NEW t \in {"source", "target"}, Retire(t) PROVE RelKept
  <2>1. RelTypesButSummary /\ GrantsMove /\ ProposalsMove /\ Installed' = Installed
    BY <1>3, SameRows, Clocks
       DEF Retire, ActiveTask, RelTypes, RelTypesButSummary, GrantsMove, Installed
  <2> QED
    BY <2>1, NothingInstalled
<1>4. ASSUME NEW p \in Proposal, NEW terms \in ProposalTerms, NEW expires \in RelTime,
             Propose(p, terms, expires)
      PROVE  RelKept
  <2> DEFINE row == [terms |-> terms, expires |-> expires, status |-> "pending", purged |-> FALSE]
  <2>1. row \in ProposalRow
    BY DEF ProposalRow
  <2>2. proposal' = [proposal EXCEPT ![p] = row] /\ proposal[p] = Nothing
    BY <1>4 DEF Propose
  <2> HIDE DEF row
  <2>3. RelTypesButSummary /\ GrantsMove /\ ProposalsMove /\ Installed' = Installed
    BY <1>4, <2>1, <2>2, SameRows DEF Propose, RelTypes, RelTypesButSummary, ProposalsMove
  <2> QED
    BY <2>3, NothingInstalled
<1>5. ASSUME NEW g \in Grant, NEW who \in Approver, RevokeGrant(g, who) PROVE RelKept
  <2>1. grant[g] \in InstalledRow /\ grant[g].revoked = Never /\ clock \in RelTime
    BY <1>5 DEF RevokeGrant, Installed, RelTypes
  <2> DEFINE row == [grant[g] EXCEPT !.revoked = clock]
  <2>2. /\ row \in InstalledRow
        /\ row.version = grant[g].version /\ row.terms = grant[g].terms
        /\ row.expires = grant[g].expires /\ row.proposal = grant[g].proposal
    BY <2>1 DEF InstalledRow
  <2>3. grant' = [grant EXCEPT ![g] = row]
    BY <1>5 DEF RevokeGrant
  <2> HIDE DEF row
  <2>4. row # Nothing
    BY <2>2, RowsAreSomething
  <2>5. grant[g] # Nothing
    BY <2>1, RowsAreSomething
  <2>6. /\ \A h \in Grant \ {g} : grant'[h] = grant[h]
        /\ grant'[g] = row /\ grant' \in [Grant -> {Nothing} \cup InstalledRow]
    BY <2>2, <2>3 DEF RelTypes
  <2>7. Installed' = Installed
    BY <2>4, <2>5, <2>6 DEF Installed
  <2>8. GrantsMove
    BY <1>5, <2>1, <2>2, <2>6, <2>7, Clocks DEF GrantsMove, RevokeGrant, Installed
  <2>9. RelTypesButSummary /\ ProposalsMove
    BY <1>5, <2>6, SameRows DEF RevokeGrant, RelTypes, RelTypesButSummary
  <2> QED
    BY <2>7, <2>8, <2>9, NothingInstalled
<1>6. ASSUME NEW g \in Grant, NEW version, NEW expected, NEW updated,
             PublishSummary(g, version, expected, updated)
      PROVE  RelKept
  BY <1>6, SameRows, NothingInstalled DEF PublishSummary, RelTypes, RelTypesButSummary
<1>7. ASSUME NEW cutoff \in RelTime, PurgeSensitiveContent(cutoff) PROVE RelKept
  <2>1. ASSUME NEW p \in Proposal
        PROVE  /\ proposal'[p] \in {Nothing} \cup ProposalRow
               /\ proposal[p] # Nothing =>
                    /\ proposal'[p] # Nothing /\ proposal'[p].terms = proposal[p].terms
                    /\ proposal'[p].status = proposal[p].status
    <3>1. CASE Due(p, cutoff)
      <4>1. proposal[p] \in ProposalRow /\ proposal'[p] = [proposal[p] EXCEPT !.purged = TRUE]
        BY <1>7, <3>1 DEF PurgeSensitiveContent, Due, RelTypes
      <4>2. /\ [proposal[p] EXCEPT !.purged = TRUE] \in ProposalRow
            /\ [proposal[p] EXCEPT !.purged = TRUE].terms = proposal[p].terms
            /\ [proposal[p] EXCEPT !.purged = TRUE].status = proposal[p].status
        BY <4>1 DEF ProposalRow
      <4> QED
        BY <4>1, <4>2, RowsAreSomething
    <3>2. CASE ~Due(p, cutoff)
      BY <1>7, <3>2 DEF PurgeSensitiveContent, RelTypes
    <3> QED
      BY <3>1, <3>2
  <2>2. proposal' \in [Proposal -> {Nothing} \cup ProposalRow]
    <3>1. DOMAIN proposal' = Proposal /\ proposal' = [p \in Proposal |-> proposal'[p]]
      BY <1>7 DEF PurgeSensitiveContent
    <3> QED
      BY <2>1, <3>1
  <2>3. RelTypesButSummary /\ GrantsMove /\ ProposalsMove /\ Installed' = Installed
    BY <1>7, <2>1, <2>2, SameRows
       DEF PurgeSensitiveContent, RelTypes, RelTypesButSummary, ProposalsMove
  <2> QED
    BY <2>3, NothingInstalled
<1> QED
  BY <1>2, <1>3, <1>4, <1>5, <1>6, <1>7, DirectlyKept, OnProposalKept DEF RelNext

\* What ended a grant is not undone.
LEMMA GrantStaysOver ==
  ASSUME RelTypes, RelKept, NEW g \in Installed, GrantOver(g)
  PROVE  GrantOver(g)'
<1>1. grant[g] \in InstalledRow /\ g \in Grant /\ clock \in RelTime /\ clock' \in RelTime
  BY DEF RelTypes, RelKept, RelTypesButSummary, Installed
<1>2. grant[g].expires \in Nat
  BY <1>1, Clocks DEF InstalledRow
<1> QED
  BY <1>1, <1>2, Clocks DEF RelKept, GrantsMove, GrantOver

\* What a step may do to the summary.
SummaryStep ==
  \/ summary' = summary
  \/ /\ summary' \in SummaryRow /\ summary'.content /\ summary'.under \in Installed
     /\ summary # Nothing => summary'.version > summary.version
  \/ /\ summary # Nothing /\ summary' \in SummaryRow /\ ~summary'.content
     /\ summary'.version = summary.version
     /\ summary'.under = summary.under /\ GrantOver(summary.under)

LEMMA SummarySteps ==
  ASSUME RelInv, RelNext
  PROVE  SummaryStep
<1>1. RelTypes
  BY DEF RelInv
<1>2. ASSUME NEW g \in Grant, NEW version \in 1..MaxSummary, NEW expected \in 0..MaxSummary,
             NEW updated \in RelTime, PublishSummary(g, version, expected, updated)
      PROVE  SummaryStep
  <2> DEFINE mark == IF summary = Nothing THEN FALSE ELSE summary.purged
  <2>1. mark \in BOOLEAN
    BY <1>1 DEF RelTypes, SummaryRow
  <2>2. summary' = [version |-> version, under |-> g, updated |-> updated, content |-> TRUE,
                    purged |-> mark]
    BY <1>2 DEF PublishSummary
  <2> HIDE DEF mark
  <2>3. summary' \in SummaryRow
    BY <2>1, <2>2 DEF SummaryRow
  <2>4. g \in Installed
    BY <1>2 DEF PublishSummary, GrantForProjection
  <2>5. summary # Nothing => version > summary.version
    BY <1>2 DEF PublishSummary, Supersedes
  <2> QED
    BY <2>2, <2>3, <2>4, <2>5 DEF SummaryStep
<1>3. ASSUME NEW cutoff \in RelTime, PurgeSensitiveContent(cutoff), summary' # summary
      PROVE  SummaryStep
  <2>1. /\ summary # Nothing /\ Unreadable(summary, cutoff)
        /\ summary' = [summary EXCEPT !.content = FALSE, !.purged = TRUE]
    BY <1>3 DEF PurgeSensitiveContent, Swept
  <2>2. summary \in SummaryRow
    BY <1>1, <2>1 DEF RelTypes
  <2>3. /\ summary' \in SummaryRow /\ ~summary'.content /\ summary'.version = summary.version
        /\ summary'.under = summary.under
    BY <2>1, <2>2 DEF SummaryRow
  <2>4. GrantOver(summary.under)
    <3>1. cutoff <= clock /\ clock \in RelTime /\ cutoff \in Nat
      BY <1>1, <1>3, Clocks DEF PurgeSensitiveContent, RelTypes
    <3>2. /\ grant[summary.under] \in InstalledRow
          /\ retired["target"] \in RelTime \cup {Never}
      BY <1>1, <2>1, <2>2 DEF RelTypes, SummaryRow
    <3>3. /\ grant[summary.under].expires \in Nat /\ grant[summary.under].revoked \in Nat
          /\ retired["target"] \in Nat
      BY <3>2, Clocks DEF InstalledRow
    <3> QED
      BY <2>1, <3>1, <3>3, Clocks DEF Unreadable, GrantOver
  <2> QED
    BY <2>1, <2>3, <2>4 DEF SummaryStep
<1>4. CASE summary' = summary
  BY <1>4 DEF SummaryStep
<1> QED
  BY <1>2, <1>3, <1>4
     DEF RelNext, RelTick, Retire, Propose, RevokeGrant, IssueDirectly, IssueOnProposal

LEMMA RelInvNext ==
  ASSUME RelInv, RelNext
  PROVE  RelInv'
<1>1. RelTypes /\ RelKept /\ SummaryStep /\ TombstoneDead
  BY RelSteps, SummarySteps DEF RelInv
<1>2. \A g \in Installed : g \in Installed' /\ g \in Grant
  BY <1>1 DEF RelKept, GrantsMove, Installed
<1>3. summary # Nothing => summary.under \in Installed
  BY <1>1 DEF RelTypes, SummaryRow, Installed
<1>4. summary' # Nothing => summary'.under \in Installed'
  BY <1>1, <1>2, <1>3 DEF SummaryStep
<1>5. summary' \in {Nothing} \cup SummaryRow
  BY <1>1 DEF SummaryStep, RelTypes
<1>6. TombstoneDead'
  <2>1. CASE summary' = summary
    BY <1>1, <1>3, <2>1, GrantStaysOver DEF TombstoneDead, GrantOver
  <2>2. CASE summary'.content
    BY <2>2 DEF TombstoneDead
  <2>3. CASE summary # Nothing /\ summary'.under = summary.under /\ GrantOver(summary.under)
    BY <1>1, <1>3, <2>3, GrantStaysOver DEF TombstoneDead, GrantOver
  <2> QED
    BY <1>1, <2>1, <2>2, <2>3 DEF SummaryStep
<1>7. RelTypes'
  BY <1>1, <1>4, <1>5 DEF RelTypes, RelKept, RelTypesButSummary, Installed
<1> QED
  BY <1>1, <1>6, <1>7 DEF RelInv, RelKept

LEMMA RelInvInit == RelInit => RelInv
BY RelationshipAssumption
   DEF RelInit, RelInv, RelTypes, RelTime, ProposalSpent, SpentOnce, Installed, TombstoneDead

\* Grants, proposals and the summary agree in every state.
THEOREM RelationshipsInductive == RelSpec => []RelInv
<1>1. RelInv /\ UNCHANGED rel_vars => RelInv'
  BY DEF RelInv, rel_vars, RelTypes, ProposalSpent, SpentOnce, Installed, TombstoneDead, GrantOver
<1> QED
  BY <1>1, RelInvInit, RelInvNext, PTL DEF RelSpec

LEMMA GrantRowOf ==
  ASSUME NEW row \in InstalledRow
  PROVE  [f \in DOMAIN row \ {"proposal"} |-> row[f]] \in GrantRow
<1> DEFINE cut == [f \in DOMAIN row \ {"proposal"} |-> row[f]]
<1>1. DOMAIN row = {"version", "terms", "expires", "by", "proposal", "decided", "revoked"}
  BY DEF InstalledRow
<1>2. DOMAIN cut = {"version", "terms", "by", "decided", "expires", "revoked"}
  BY <1>1
<1>3. cut = [version |-> row.version, terms |-> row.terms, by |-> row.by, decided |-> row.decided,
             expires |-> row.expires, revoked |-> row.revoked]
  BY <1>1
<1> HIDE DEF cut
<1> QED
  BY <1>3 DEF InstalledRow, GrantRow

\* The source never reads a tombstone, and at most one grant comes of a proposal, on
\* the terms it asked for (getTaskSummary, #installGrant, purgeSensitiveContent).
THEOREM GrantsAreKept == RelSpec => []GrantsKept
<1>1. RelInv => GrantsKept
  <2> SUFFICES ASSUME RelInv PROVE GrantsKept
    OBVIOUS
  <2>1. RelTypes /\ SpentOnce /\ TombstoneDead
    BY DEF RelInv
  <2>2. ASSUME NEW g \in Grant, grant[g] # Nothing
        PROVE  /\ [f \in DOMAIN grant[g] \ {"proposal"} |-> grant[g][f]] \in GrantRow
               /\ grant[g].proposal \in Proposal \cup {NoProposal}
    <3>1. grant[g] \in InstalledRow
      BY <2>1, <2>2 DEF RelTypes
    <3> QED
      BY <3>1, GrantRowOf DEF InstalledRow
  <2>3. RelTypeOK
    BY <2>1, <2>2 DEF RelTypeOK, RelTypes
  <2>4. ReadsWhole
    <3> SUFFICES ASSUME summary # Nothing, GrantForProjection(summary.under), ~summary.content
                 PROVE  FALSE
      BY DEF ReadsWhole, Readable
    <3>1. GrantOver(summary.under)
      BY <2>1 DEF TombstoneDead
    <3>2. grant[summary.under].expires \in Nat /\ clock \in Nat
      BY <2>1, Clocks DEF RelTypes, SummaryRow, InstalledRow
    <3> QED
      BY <3>1, <3>2 DEF GrantOver, GrantForProjection, ActiveTask
  <2>5. ASSUME NEW p \in Proposal
        PROVE  /\ Cardinality({g \in Installed : grant[g].proposal = p}) <= 1
               /\ \A g \in Installed : grant[g].proposal = p =>
                    proposal[p].status = "approved" /\ grant[g].terms = proposal[p].terms
    <3> DEFINE G == {g \in Installed : grant[g].proposal = p}
    <3>1. \A g, h \in G : g = h
      BY <2>1 DEF SpentOnce
    <3>2. Cardinality(G) <= 1
      <4>1. CASE G = {}
        BY <4>1, FS_EmptySet
      <4>2. ASSUME NEW g \in G PROVE Cardinality(G) <= 1
        <5>1. G = {g}
          BY <3>1, <4>2
        <5> HIDE DEF G
        <5> QED
          BY <5>1, FS_Singleton
      <4> QED
        BY <4>1, <4>2
    <3>3. \A g \in Installed : ProposalSpent(g)
      BY DEF RelInv, Installed
    <3> QED
      BY <3>2, <3>3 DEF ProposalSpent, Installed
  <2> QED
    BY <2>3, <2>4, <2>5 DEF GrantsKept, OneGrantPerProposal
<1> QED
  BY <1>1, RelationshipsInductive, PTL

LEMMA NeverResurfaces ==
  ASSUME RelInv, RelNext, ~Readable, Readable', summary' = summary
  PROVE  FALSE
<1>1. RelTypes /\ RelKept
  BY RelSteps DEF RelInv
<1>2. summary # Nothing
  BY DEF Readable
<1> PICK g \in Installed : g = summary.under
  BY <1>1, <1>2 DEF RelTypes, SummaryRow, Installed
<1>3. GrantForProjection(g)'
  BY <1>2 DEF Readable, GrantForProjection, Newest
<1>4. /\ grant[g].revoked = Never /\ retired["source"] = Never /\ retired["target"] = Never
      /\ grant'[g].expires = grant[g].expires
  BY <1>1, <1>3 DEF RelKept, GrantsMove, GrantForProjection, ActiveTask
<1>5. clock < grant[g].expires
  <2>1. grant[g] \in InstalledRow /\ clock \in RelTime /\ clock' \in RelTime /\ clock' >= clock
    BY <1>1 DEF RelTypes, Installed, RelKept, RelTypesButSummary, GrantsMove
  <2>2. grant[g].expires \in Nat
    BY <2>1, Clocks DEF InstalledRow
  <2> QED
    BY <1>3, <1>4, <2>1, <2>2, Clocks DEF GrantForProjection
<1>6. Newest(g)
  BY <1>1, <1>3 DEF GrantForProjection, Newest, RelKept, GrantsMove
<1>7. GrantForProjection(g)
  BY <1>4, <1>5, <1>6 DEF GrantForProjection, ActiveTask
<1> QED
  BY <1>2, <1>7 DEF Readable

\* No step but a publication makes the summary readable, and of two publishers that
\* saw one version only one is stored (publishTaskSummary, issueGrant, revokeGrant).
THEOREM SummariesAreFinal == RelSpec => SummariesFinal
<1>1. RelInv /\ [RelNext]_rel_vars => [(~Readable /\ Readable') => summary' # summary]_rel_vars
  BY NeverResurfaces
<1>2. RelInv /\ [RelNext]_rel_vars =>
        [(summary # Nothing /\ summary' # summary)
           => \/ summary'.version > summary.version
              \/ summary'.version = summary.version /\ ~summary'.content]_rel_vars
  BY SummarySteps DEF SummaryStep
<1>3. RelSpec => NoGrantResurfaces
  BY <1>1, RelationshipsInductive, PTL DEF RelSpec, NoGrantResurfaces
<1>4. RelSpec => SummaryGrows
  BY <1>2, RelationshipsInductive, PTL DEF RelSpec, SummaryGrows
<1> QED
  BY <1>3, <1>4 DEF SummariesFinal
=============================================================================
