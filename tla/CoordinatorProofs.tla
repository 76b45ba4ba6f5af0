------------------------- MODULE CoordinatorProofs -------------------------
(***************************************************************************)
(* Theorems about Coordinator, for any tasks, grants, messages and bounds.  *)
(***************************************************************************)
EXTENDS Coordinator, TaskRegistryProofs, TLAPS

LEMMA TypeInit == Init => TypeOK
BY AbsentAssumption, NoGrantAssumption, TaskTypeInit
   DEF Init, TypeOK, DispositionType, MailboxType, AdmissionType,
       SubmissionType, DeliveryStates, DecisionStates, UndecidedStates, OutcomeStates

\* What the row updates produce, field by field.
LEMMA RowUpdates ==
  ASSUME NEW d \in DispositionType, NEW x
  PROVE  /\ Delivered(d, x) = [delivery |-> x, decision |-> d.decision,
                               outcome |-> d.outcome, rev |-> d.rev + 1]
         /\ Decided(d, x) = [delivery |-> d.delivery, decision |-> x,
                             outcome |-> d.outcome, rev |-> d.rev + 1]
         /\ Observed(d, x) = [delivery |-> d.delivery, decision |-> d.decision,
                              outcome |-> x, rev |-> d.rev + 1]
<1>1. d = [delivery |-> d.delivery, decision |-> d.decision,
           outcome |-> d.outcome, rev |-> d.rev]
  BY DEF DispositionType
<1>2. NextRevision(d) = [delivery |-> d.delivery, decision |-> d.decision,
                         outcome |-> d.outcome, rev |-> d.rev + 1]
  BY <1>1 DEF NextRevision
<1>3. Delivered(d, x) = [delivery |-> x, decision |-> d.decision,
                         outcome |-> d.outcome, rev |-> d.rev + 1]
  BY <1>2 DEF Delivered
<1>4. Decided(d, x) = [delivery |-> d.delivery, decision |-> x,
                       outcome |-> d.outcome, rev |-> d.rev + 1]
  BY <1>2 DEF Decided
<1>5. Observed(d, x) = [delivery |-> d.delivery, decision |-> d.decision,
                        outcome |-> x, rev |-> d.rev + 1]
  BY <1>2 DEF Observed
<1> QED
  BY <1>3, <1>4, <1>5

LEMMA ExpiredUpdate ==
  ASSUME NEW d \in DispositionType
  PROVE  ExpiredRow(d) = [delivery |-> "expired",
                          decision |-> IF d.decision \in UndecidedStates THEN "expired"
                                       ELSE d.decision,
                          outcome |-> d.outcome, rev |-> d.rev + 1]
BY RowUpdates DEF ExpiredRow

LEMMA TypeRegistry == ASSUME TypeOK, RegistryNext PROVE TypeOK'
<1> USE DEF TypeOK, delivery_vars
<1>1. CASE TaskNext /\ UNCHANGED <<grant, delivery_vars>>
  BY <1>1, TaskStep
<1>2. ASSUME NEW g \in Grant, InstallGrant(g) PROVE TypeOK'
  BY <1>2 DEF InstallGrant, TaskTypeOK
<1>3. ASSUME NEW g \in Grant, RevokeGrant(g) PROVE TypeOK'
  <2>1. ASSUME NEW m \in Message
        PROVE  Decided(disp[m], "revoked") \in DispositionType
    BY RowUpdates DEF DispositionType, DecisionStates
  <2>2. disp' \in [Message -> DispositionType]
    BY <1>3, <2>1 DEF RevokeGrant
  <2> QED
    BY <1>3, <2>2 DEF RevokeGrant, TaskTypeOK
<1> QED
  BY <1>1, <1>2, <1>3 DEF RegistryNext

LEMMA DecisionTarget ==
  ASSUME NEW from, NEW to, DecisionMay(from, to)
  PROVE  from \in DecisionStates /\ to \in DecisionStates
BY DEF DecisionMay, DecisionTable, DecisionStates, UndecidedStates

LEMMA TypeMail == ASSUME TypeOK, MailNext PROVE TypeOK'
<1> USE DEF TypeOK, TaskTypeOK
<1>1. ASSUME NEW m \in Message, Submit(m) PROVE TypeOK'
  BY <1>1 DEF Submit, DispositionType, DeliveryStates, NonTerminalDelivery
<1>2. ASSUME NEW m \in Message, NEW rev \in Revisions(m), ClaimPending(m, rev) PROVE TypeOK'
  <2>1. rev \in Nat /\ Earlier(Envelope[m].expires, now + ClaimWindow) \in Nat
    BY EnvelopeAssumption, BoundAssumption DEF Revisions, Earlier, EnvelopeType, DispositionType
  <2> QED
    BY <1>2, <2>1 DEF ClaimPending, MailboxType
<1>3. ASSUME NEW m \in Message, NEW rev \in Revisions(m), FailDelivery(m, rev) PROVE TypeOK'
  BY <1>3, RowUpdates DEF FailDelivery, DispositionType, DeliveryStates, TerminalDelivery, Revisions
<1>4. ASSUME NEW m \in Message, NEW rev \in Revisions(m), NEW decision, Responds(m, decision, rev)
      PROVE  disp' \in [Message -> DispositionType]
  BY <1>4, RowUpdates, DecisionTarget DEF Responds, DispositionType, Revisions
<1>5. ASSUME NEW m \in Message, NEW rev \in Revisions(m), NEW decision, Respond(m, decision, rev)
      PROVE  TypeOK'
  BY <1>4, <1>5 DEF Respond
<1>6. ASSUME NEW m \in Message, NEW rev \in Revisions(m), NEW decision, NEW token,
             AcknowledgePending(m, token, decision, rev)
      PROVE  TypeOK'
  BY <1>4, <1>6 DEF AcknowledgePending, MailboxType
<1> QED
  BY <1>1, <1>2, <1>3, <1>5, <1>6 DEF MailNext

LEMMA TypeAdmission == ASSUME TypeOK, AdmissionNext PROVE TypeOK'
<1> USE DEF TypeOK, TaskTypeOK, AdmissionType, Revisions
<1>1. ASSUME NEW m \in Message, NEW rev \in Revisions(m), PrepareContextAdmission(m, rev)
      PROVE  TypeOK'
  BY <1>1, ContextRefAssumption DEF PrepareContextAdmission, DispositionType
<1>2. ASSUME NEW m \in Message, NEW rev \in Revisions(m), ConfirmContextAdmission(m, rev)
      PROVE  TypeOK'
  <2>1. Delivered(disp[m], "context-admitted") \in DispositionType
    BY RowUpdates DEF DispositionType, DeliveryStates, NonTerminalDelivery
  <2> QED
    BY <1>2, <2>1 DEF ConfirmContextAdmission
<1> QED
  BY <1>1, <1>2 DEF AdmissionNext

LEMMA TypeSubmission == ASSUME TypeOK, SubmissionNext PROVE TypeOK'
<1> USE DEF TypeOK, TaskTypeOK, SubmissionType, SubmissionStates, Revisions
<1>1. ASSUME NEW m \in Message, NEW rev \in Revisions(m), PrepareAdapterSubmission(m, rev)
      PROVE  TypeOK'
  <2>1. Target(m).ref \in AdapterRef \cup {NoRef}
    BY EnvelopeAssumption DEF Target, TaskType, EnvelopeType
  <2> QED
    BY <1>1, <2>1 DEF PrepareAdapterSubmission, DispositionType
<1>2. ASSUME NEW m \in Message, NEW rev, NEW attempt, BeginAdapterSubmission(m, attempt, rev)
      PROVE  TypeOK'
  BY <1>2 DEF BeginAdapterSubmission
<1>3. ASSUME NEW m \in Message, NEW rev \in Revisions(m), NEW attempt,
             RecordAdapterReceipt(m, attempt, rev)
      PROVE  TypeOK'
  <2>1. Delivered(disp[m], "adapter-submitted") \in DispositionType
    BY RowUpdates DEF DispositionType, DeliveryStates, TerminalDelivery
  <2> QED
    BY <1>3, <2>1 DEF RecordAdapterReceipt
<1>4. ASSUME NEW m \in Message, NEW rev, NEW attempt, NEW resolution,
             ReconcileAdapterSubmission(m, attempt, rev, resolution)
      PROVE  TypeOK'
  BY <1>4 DEF ReconcileAdapterSubmission
<1> QED
  BY <1>1, <1>2, <1>3, <1>4 DEF SubmissionNext

LEMMA TypeMaintenance == ASSUME TypeOK, MaintenanceNext PROVE TypeOK'
<1> USE DEF TypeOK, TaskTypeOK
<1>1. ASSUME NEW m \in Message, NEW viaGit \in BOOLEAN, SatisfyDependency(m, viaGit)
      PROVE  TypeOK'
  <2>1. task' \in [Incarnation -> TaskType]
    BY <1>1, EnvelopeAssumption, UnlockKeeps DEF SatisfyDependency, Verifies, EnvelopeType
  <2> QED
    BY <1>1, <2>1, RowUpdates DEF SatisfyDependency, Verifies, DispositionType, OutcomeStates
<1>2. ASSUME NEW swept \in SUBSET Message, ExpireDueMessages(swept) PROVE TypeOK'
  <2>1. ASSUME NEW m \in Message PROVE ExpiredRow(disp[m]) \in DispositionType
    BY ExpiredUpdate DEF DispositionType, DeliveryStates, TerminalDelivery, DecisionStates
  <2> QED
    BY <1>2, <2>1 DEF ExpireDueMessages
<1>3. ASSUME NEW cutoff, PurgeSensitiveContent(cutoff) PROVE TypeOK'
  <2>1. ASSUME NEW m \in Message
        PROVE  /\ [mailbox[m] EXCEPT !.state = "none"] \in MailboxType
               /\ [admission[m] EXCEPT !.ref = NoRef] \in AdmissionType
    BY DEF MailboxType, AdmissionType
  <2>2. ForgetRefs({i \in Incarnation : RefPurgeable(i, cutoff)})
    BY <1>3 DEF PurgeSensitiveContent
  <2>3. /\ mailbox' \in [Message -> MailboxType]
        /\ admission' \in [Message -> AdmissionType]
        /\ task' \in [Incarnation -> TaskType]
    BY <1>3, <2>1, <2>2, ForgetKeeps DEF PurgeSensitiveContent
  <2> QED
    BY <1>3, <2>3 DEF PurgeSensitiveContent
<1> QED
  BY <1>1, <1>2, <1>3 DEF MaintenanceNext, VerificationNext, RetentionNext

\* Every reachable row has the shape its table allows.
THEOREM TypeCorrect == Spec => []TypeOK
<1>1. TypeOK /\ [Next]_vars => TypeOK'
  <2>1. TypeOK /\ UNCHANGED vars => TypeOK'
    BY DEF TypeOK, TaskTypeOK, vars, delivery_vars
  <2> QED
    BY <2>1, TypeRegistry, TypeMail, TypeAdmission, TypeSubmission, TypeMaintenance DEF Next
<1> QED
  BY <1>1, TypeInit, PTL DEF Spec

(***************************************************************************)
(* The inductive invariant.                                                *)
(***************************************************************************)

\* A message that was never sent has no rows.
Unsent(m) == disp[m].delivery = "none" =>
  /\ disp[m].decision = "pending"
  /\ disp[m].outcome = "not-observed"
  /\ bound[m] = NoGrant
  /\ mailbox[m].state = "none"
  /\ admission[m].state = "none"
  /\ submission[m].state = "none"

\* The delivery, the attempt, the admission and the decision of one message.
RowsAgree(m) ==
  /\ disp[m].delivery \in {"context-admitted", "adapter-submitted"}
       => disp[m].decision \in {"accepted", "revoked"}
  /\ disp[m].outcome = "externally-verified" => disp[m].delivery = "adapter-submitted"
  /\ disp[m].outcome \in {"not-observed", "externally-verified"}
  /\ submission[m].state = "receipt-recorded" <=> disp[m].delivery = "adapter-submitted"
  /\ disp[m].delivery = "context-admitted" => admission[m].state = "completed"
  /\ admission[m].state = "completed"
       => disp[m].delivery \in {"context-admitted"} \cup TerminalDelivery
  /\ submission[m].state = "outcome-unknown" =>
       disp[m].delivery \in NonTerminalDelivery /\ disp[m].decision \in {"accepted", "revoked"}
  /\ admission[m].state = "in-flight" => disp[m].delivery # "expired"

\* A message is bound to an installed grant, and a revocation of it was acted on.
Invalidated(m) ==
  /\ bound[m] \in Grant => grant[bound[m]] # "absent"
  /\ (/\ bound[m] \in Grant
      /\ grant[bound[m]] = "revoked"
      /\ Envelope[m].intent \in StateChangingIntents
      /\ disp[m].decision \in UndecidedStates \cup {"accepted"})
       => \/ disp[m].delivery \in TerminalDelivery
          \/ submission[m].state \notin {"none", "prepared"}

Quiescent(m) == m \in purged =>
  /\ Due(m)
  /\ disp[m].delivery # "none"
  /\ ~Unresolved(m)
  /\ admission[m].state # "in-flight"
  /\ mailbox[m].state = "none"

\* An attempt has a number and names a real reference, and the receiver it was prepared for keeps
\* one while it is unresolved.
RefKept(m) ==
  /\ submission[m].state # "none" =>
       submission[m].ref \in AdapterRef /\ submission[m].attempt \in 1..MaxAttempt
  /\ Unresolved(m) \/ admission[m].state = "in-flight"
       => Target(m).status # "unregistered" /\ Target(m).ref # NoRef

\* A claim runs out no later than its message, hence before any purge of it.
ClaimBounded(m) == mailbox[m].state = "claimed" => mailbox[m].expires <= Envelope[m].expires

MessageInv(m) ==
  Unsent(m) /\ RowsAgree(m) /\ Invalidated(m) /\ Quiescent(m) /\ RefKept(m) /\ ClaimBounded(m)

IInv == TypeOK /\ \A m \in Message : MessageInv(m)

LEMMA InvInit == Init => IInv
<1>1. ASSUME Init, NEW m \in Message PROVE MessageInv(m)
  BY <1>1, NoGrantAssumption
     DEF Init, MessageInv, Unsent, RowsAgree, Invalidated, Quiescent, RefKept, ClaimBounded,
         Unresolved, NonTerminalDelivery, TerminalDelivery
<1> QED
  BY <1>1, TypeInit DEF IInv

LEMMA DeliveryMoves ==
  ASSUME NEW from, NEW to, DeliveryMay(from, to)
  PROVE  /\ from \in NonTerminalDelivery
         /\ from \notin TerminalDelivery
         /\ from # "none"
BY DEF DeliveryMay, DeliveryTable, NonTerminalDelivery, TerminalDelivery

LEMMA DecisionMoves ==
  ASSUME NEW from, NEW to, DecisionMay(from, to)
  PROVE  /\ from \in {"pending", "deferred", "accepted"}
         /\ from = "accepted" => to = "revoked"
         /\ to # "pending"
BY DEF DecisionMay, DecisionTable, DecisionStates, UndecidedStates

\* A step that leaves a message's rows, the registry and the grants alone keeps
\* its invariant.
LEMMA OtherMessage ==
  ASSUME NEW m \in Message, MessageInv(m), UNCHANGED <<now, grant>>,
         \A j \in Incarnation : task'[j].status = task[j].status /\ task'[j].ref = task[j].ref,
         bound'[m] = bound[m], disp'[m] = disp[m], mailbox'[m] = mailbox[m],
         admission'[m] = admission[m], submission'[m] = submission[m],
         m \in purged' => m \in purged
  PROVE  MessageInv(m)'
BY EnvelopeAssumption
   DEF MessageInv, Unsent, RowsAgree, Invalidated, Quiescent, RefKept, ClaimBounded,
       Unresolved, Target, Due, EnvelopeType

LEMMA InvRegistry == ASSUME IInv, RegistryNext PROVE IInv'
<1> USE DEF IInv
<1>1. TypeOK'
  BY TypeRegistry
<1> SUFFICES ASSUME NEW m \in Message PROVE MessageInv(m)'
  BY <1>1
<1> MessageInv(m)
  OBVIOUS
<1> Envelope[m].source \in Incarnation /\ Envelope[m].target \in Incarnation /\ Envelope[m].expires \in Nat
  BY EnvelopeAssumption DEF EnvelopeType
<1> USE DEF MessageInv, delivery_vars
<1>2. ASSUME UNCHANGED delivery_vars, UNCHANGED grant, RefKept(m)', Due(m) => Due(m)' PROVE MessageInv(m)'
  BY <1>2 DEF Unsent, RowsAgree, Invalidated, Quiescent, ClaimBounded, Unresolved
<1>3. CASE TaskNext /\ UNCHANGED <<grant, delivery_vars>>
  <2>1. /\ now' >= now
        /\ now \in Nat /\ now' \in Nat
        /\ Persists(Envelope[m].target)
    BY <1>3, TaskStep DEF TypeOK, TaskTypeOK
  <2>2. RefKept(m)'
    BY <1>3, <2>1 DEF RefKept, Unresolved, Target, Persists
  <2> QED
    BY <1>2, <1>3, <2>1, <2>2 DEF Due
<1>4. ASSUME NEW g \in Grant, InstallGrant(g) PROVE MessageInv(m)'
  <2>1. Invalidated(m)'
    BY <1>4 DEF InstallGrant, Invalidated, TypeOK
  <2> QED
    BY <1>4, <2>1
       DEF InstallGrant, Unsent, RowsAgree, Quiescent, RefKept, ClaimBounded, Unresolved, Target, Due
<1>5. ASSUME NEW g \in Grant, RevokeGrant(g) PROVE MessageInv(m)'
  <2> disp[m] \in DispositionType
    BY DEF TypeOK
  <2>1. CASE QueuedUnder(m, g)
    <3>1. disp'[m] = Decided(disp[m], "revoked")
      BY <1>5, <2>1 DEF RevokeGrant
    <3>2. disp'[m].delivery = disp[m].delivery /\ disp'[m].decision = "revoked"
          /\ disp'[m].outcome = disp[m].outcome /\ disp[m].delivery # "none"
      BY <3>1, <2>1, RowUpdates DEF QueuedUnder, NonTerminalDelivery
    <3> QED
      BY <1>5, <3>2
         DEF RevokeGrant, Unsent, RowsAgree, Invalidated, Quiescent, RefKept, ClaimBounded,
             Unresolved, Target, Due, UndecidedStates
  <2>2. CASE ~QueuedUnder(m, g)
    <3>1. disp'[m] = disp[m]
      BY <1>5, <2>2 DEF RevokeGrant
    <3>2. Invalidated(m)'
      BY <1>5, <2>2, <3>1, NoGrantAssumption
         DEF RevokeGrant, QueuedUnder, Invalidated, Unsent, TypeOK, DispositionType,
             DeliveryStates, UndecidedStates
    <3> QED
      BY <1>5, <3>1, <3>2
         DEF RevokeGrant, Unsent, RowsAgree, Quiescent, RefKept, ClaimBounded,
             Unresolved, Target, Due
  <2> QED
    BY <2>1, <2>2
<1> QED
  BY <1>3, <1>4, <1>5 DEF RegistryNext

LEMMA InvMail == ASSUME IInv, MailNext PROVE IInv'
<1> USE DEF IInv
<1>1. TypeOK'
  BY TypeMail
<1> SUFFICES ASSUME NEW n \in Message PROVE MessageInv(n)'
  BY <1>1
<1> USE DEF MessageInv
<1> /\ disp[n] \in DispositionType /\ mailbox[n] \in MailboxType
    /\ Envelope[n].expires \in Nat /\ now \in Nat
  BY EnvelopeAssumption DEF TypeOK, TaskTypeOK, EnvelopeType
<1>2. ASSUME NEW m \in Message, Submit(m) PROVE MessageInv(n)'
  BY <1>2
     DEF Submit, TypeOK, Unsent, RowsAgree, Invalidated, Quiescent, RefKept, ClaimBounded,
         ActiveGrantFor, PolicyAllows, Unresolved, Target, Due, NonTerminalDelivery, TerminalDelivery
<1>3. ASSUME NEW m \in Message, NEW rev \in Revisions(m), ClaimPending(m, rev) PROVE MessageInv(n)'
  <2>1. ClaimBounded(n)'
    BY <1>3, BoundAssumption DEF ClaimPending, ClaimBounded, Earlier, TypeOK
  <2> QED
    BY <1>3, <2>1
       DEF ClaimPending, TypeOK, Unsent, RowsAgree, Invalidated, Quiescent, RefKept,
           Unresolved, Target, Due
<1>4. ASSUME NEW m \in Message, NEW rev \in Revisions(m), FailDelivery(m, rev) PROVE MessageInv(n)'
  <2>1. CASE m = n
    <3>1. disp'[n] = Delivered(disp[n], "failed") /\ DeliveryMay(disp[n].delivery, "failed")
      BY <1>4, <2>1 DEF FailDelivery, TypeOK
    <3>2. /\ disp'[n].delivery = "failed"
          /\ disp'[n].decision = disp[n].decision
          /\ disp'[n].outcome = disp[n].outcome
      BY <3>1, RowUpdates
    <3> QED
      BY <1>4, <2>1, <3>1, <3>2, DeliveryMoves
         DEF FailDelivery, Unsent, RowsAgree, Invalidated, Quiescent, RefKept, ClaimBounded,
             Unresolved, Target, Due, TerminalDelivery
  <2>2. CASE m # n
    BY <1>4, <2>2, OtherMessage DEF FailDelivery, TypeOK
  <2> QED
    BY <2>1, <2>2
<1>5. ASSUME NEW m \in Message, NEW rev \in Revisions(m), NEW decision, Responds(m, decision, rev),
             UNCHANGED <<now, task, grant, bound, admission, submission, purged>>,
             ClaimBounded(n)', mailbox[n].state = "none" => mailbox'[n].state = "none"
      PROVE  MessageInv(n)'
  <2>1. CASE m = n
    <3>1. /\ disp'[n] = Decided(disp[n], decision)
          /\ DecisionMay(disp[n].decision, decision)
          /\ disp[n].delivery # "none"
          /\ decision \in {"accepted", "deferred"} => CurrentlyAuthorized(n)
      BY <1>5, <2>1 DEF Responds, TypeOK
    <3>2. /\ disp'[n].delivery = disp[n].delivery
          /\ disp'[n].decision = decision
          /\ disp'[n].outcome = disp[n].outcome
      BY <3>1, RowUpdates
    <3>3. Unsent(n)' /\ RowsAgree(n)'
      BY <1>5, <3>1, <3>2, DecisionMoves DEF Unsent, RowsAgree
    <3>4. Invalidated(n)'
      <4>1. CASE decision \in {"accepted", "deferred"}
        BY <1>5, <3>1, <4>1
           DEF Invalidated, CurrentlyAuthorized, ActiveGrantFor, PolicyAllows
      <4>2. CASE decision \notin {"accepted", "deferred"}
        BY <1>5, <3>1, <3>2, <4>2, DecisionMoves DEF Invalidated, UndecidedStates
      <4> QED
        BY <4>1, <4>2
    <3> QED
      BY <1>5, <3>1, <3>2, <3>3, <3>4 DEF Quiescent, RefKept, Unresolved, Target, Due
  <2>2. CASE m # n
    <3>1. disp'[n] = disp[n]
      BY <1>5, <2>2 DEF Responds, TypeOK
    <3> QED
      BY <1>5, <3>1
         DEF Unsent, RowsAgree, Invalidated, Quiescent, RefKept, Unresolved, Target, Due
  <2> QED
    BY <2>1, <2>2
<1>6. ASSUME NEW m \in Message, NEW rev \in Revisions(m), NEW decision, Respond(m, decision, rev)
      PROVE  MessageInv(n)'
  BY <1>5, <1>6 DEF Respond, ClaimBounded
<1>7. ASSUME NEW m \in Message, NEW rev \in Revisions(m), NEW decision, NEW token,
             AcknowledgePending(m, token, decision, rev)
      PROVE  MessageInv(n)'
  <2>1. ClaimBounded(n)' /\ (mailbox[n].state = "none" => mailbox'[n].state = "none")
    BY <1>7 DEF AcknowledgePending, ClaimBounded, TypeOK, MailboxType
  <2> QED
    BY <1>5, <1>7, <2>1 DEF AcknowledgePending
<1> QED
  BY <1>2, <1>3, <1>4, <1>6, <1>7 DEF MailNext

LEMMA InvAdmission == ASSUME IInv, AdmissionNext PROVE IInv'
<1> USE DEF IInv
<1>1. TypeOK'
  BY TypeAdmission
<1> SUFFICES ASSUME NEW n \in Message PROVE MessageInv(n)'
  BY <1>1
<1> USE DEF MessageInv
<1> disp[n] \in DispositionType /\ admission[n] \in AdmissionType
  BY DEF TypeOK
<1>2. ASSUME NEW m \in Message, NEW rev \in Revisions(m), PrepareContextAdmission(m, rev)
      PROVE  MessageInv(n)'
  <2>1. CASE m = n
    <3>1. /\ admission'[n].state = "in-flight"
          /\ ~Due(n)
          /\ Target(n).status = "active" /\ Target(n).ref # NoRef
          /\ DeliveryMay(disp[n].delivery, "context-admitted")
          /\ admission[n].state = "none"
      BY <1>2, <2>1, AbsentAssumption, ContextRefAssumption
         DEF PrepareContextAdmission, ContextAdmissionState, CurrentlyAuthorized,
             ActiveGrantFor, PolicyAllows, TypeOK
    <3> QED
      BY <1>2, <3>1, DeliveryMoves
         DEF PrepareContextAdmission, Unsent, RowsAgree, Invalidated, Quiescent, RefKept,
             ClaimBounded, Unresolved, Target, Due, TerminalDelivery
  <2>2. CASE m # n
    BY <1>2, <2>2, OtherMessage DEF PrepareContextAdmission, TypeOK
  <2> QED
    BY <2>1, <2>2
<1>3. ASSUME NEW m \in Message, NEW rev \in Revisions(m), ConfirmContextAdmission(m, rev)
      PROVE  MessageInv(n)'
  <2>1. CASE m = n /\ OrdinaryAdmission(n) /\ disp'[n] = Delivered(disp[n], "context-admitted")
    <3>1. /\ disp'[n].delivery = "context-admitted"
          /\ disp'[n].decision = disp[n].decision
          /\ disp'[n].outcome = disp[n].outcome
          /\ disp[n].decision = "accepted"
          /\ disp[n].delivery \in {"durably-received", "checkpoint-offered"}
          /\ admission'[n].state = "completed"
      BY <1>3, <2>1, RowUpdates DEF OrdinaryAdmission, AcceptedAt, ConfirmContextAdmission, TypeOK
    <3> QED
      BY <1>3, <3>1
         DEF ConfirmContextAdmission, Unsent, RowsAgree, Invalidated, Quiescent, RefKept,
             ClaimBounded, Unresolved, Target, Due, NonTerminalDelivery, TerminalDelivery
  <2>2. CASE m = n /\ PreverifiedAdmission(n) /\ UNCHANGED disp
    <3>1. disp[n].delivery = "adapter-submitted" /\ admission'[n].state = "completed"
      BY <1>3, <2>2 DEF PreverifiedAdmission, ConfirmContextAdmission, TypeOK
    <3> QED
      BY <1>3, <2>2, <3>1
         DEF ConfirmContextAdmission, Unsent, RowsAgree, Invalidated, Quiescent, RefKept,
             ClaimBounded, Unresolved, Target, Due, TerminalDelivery
  <2>3. CASE m # n
    BY <1>3, <2>3, OtherMessage DEF ConfirmContextAdmission, TypeOK
  <2> QED
    BY <1>3, <2>1, <2>2, <2>3 DEF ConfirmContextAdmission, TypeOK
<1> QED
  BY <1>2, <1>3 DEF AdmissionNext

\* What an authorised, undue message needs of its receiver.
LEMMA AuthorizedTarget ==
  ASSUME NEW m \in Message, CurrentlyAuthorized(m)
  PROVE  /\ bound[m] \in Grant
         /\ grant[bound[m]] = "active"
         /\ Target(m).status = "active"
         /\ task[Envelope[m].source].status = "active"
BY DEF CurrentlyAuthorized, ActiveGrantFor, PolicyAllows

LEMMA InvSubmission == ASSUME IInv, SubmissionNext PROVE IInv'
<1> USE DEF IInv
<1>1. TypeOK'
  BY TypeSubmission
<1> SUFFICES ASSUME NEW n \in Message PROVE MessageInv(n)'
  BY <1>1
<1> USE DEF MessageInv
<1> /\ disp[n] \in DispositionType /\ submission[n] \in SubmissionType
    /\ Target(n) \in TaskType
  BY EnvelopeAssumption DEF TypeOK, TaskTypeOK, EnvelopeType, Target
<1>2. ASSUME NEW m \in Message, NEW rev \in Revisions(m), PrepareAdapterSubmission(m, rev)
      PROVE  MessageInv(n)'
  <2>1. CASE m = n
    <3>1. /\ submission[n].state \in {"none", "confirmed-not-submitted"}
          /\ submission'[n].state = "prepared"
          /\ submission'[n].ref \in AdapterRef
          /\ submission'[n].attempt \in 1..MaxAttempt
          /\ grant[bound[n]] = "active"
          /\ disp[n].delivery \in NonTerminalDelivery
          /\ disp[n].delivery # "adapter-submitted"
          /\ disp[n].delivery # "none"
          /\ ~Due(n)
      BY <1>2, <2>1, AuthorizedTarget, DeliveryMoves, BoundAssumption
         DEF PrepareAdapterSubmission, AdapterSubmissionState, TypeOK, TaskType, SubmissionType,
             TerminalDelivery
    <3> QED
      BY <1>2, <3>1
         DEF PrepareAdapterSubmission, Unsent, RowsAgree, Invalidated, Quiescent, RefKept,
             ClaimBounded, Unresolved, Target, Due
  <2>2. CASE m # n
    BY <1>2, <2>2, OtherMessage DEF PrepareAdapterSubmission, TypeOK
  <2> QED
    BY <2>1, <2>2
<1>3. ASSUME NEW m \in Message, NEW rev, NEW attempt, BeginAdapterSubmission(m, attempt, rev)
      PROVE  MessageInv(n)'
  <2>1. CASE m = n
    <3>1. /\ submission[n].state = "prepared"
          /\ submission'[n].state = "outcome-unknown"
          /\ submission'[n].ref = submission[n].ref
          /\ submission'[n].attempt = submission[n].attempt
          /\ Target(n).ref = submission[n].ref
          /\ Target(n).status = "active"
          /\ disp[n].decision = "accepted"
          /\ disp[n].delivery \in NonTerminalDelivery
          /\ disp[n].delivery # "none"
          /\ ~Due(n)
      BY <1>3, <2>1, AuthorizedTarget, DeliveryMoves
         DEF BeginAdapterSubmission, AdapterSubmissionState, AcceptedAt, TypeOK
    <3>2. disp[n].delivery # "adapter-submitted"
      BY <3>1 DEF NonTerminalDelivery
    <3> QED
      BY <1>3, <3>1, <3>2, AbsentAssumption
         DEF BeginAdapterSubmission, Unsent, RowsAgree, Invalidated, Quiescent, RefKept,
             ClaimBounded, Unresolved, Target, Due
  <2>2. CASE m # n
    BY <1>3, <2>2, OtherMessage DEF BeginAdapterSubmission, TypeOK
  <2> QED
    BY <2>1, <2>2
<1>4. ASSUME NEW m \in Message, NEW rev, NEW attempt, RecordAdapterReceipt(m, attempt, rev)
      PROVE  MessageInv(n)'
  <2>1. CASE m = n
    <3>1. /\ disp'[n].delivery = "adapter-submitted"
          /\ disp'[n].decision = disp[n].decision
          /\ disp'[n].outcome = disp[n].outcome
          /\ disp[n].decision = "accepted"
          /\ submission'[n].state = "receipt-recorded"
          /\ submission'[n].ref = submission[n].ref
          /\ submission'[n].attempt = submission[n].attempt
          /\ submission[n].state = "outcome-unknown"
      BY <1>4, <2>1, RowUpdates
         DEF RecordAdapterReceipt, AdapterSubmissionState, AcceptedAt, TypeOK
    <3> QED
      BY <1>4, <3>1
         DEF RecordAdapterReceipt, Unsent, RowsAgree, Invalidated, Quiescent, RefKept,
             ClaimBounded, Unresolved, Target, Due, NonTerminalDelivery, TerminalDelivery
  <2>2. CASE m # n
    BY <1>4, <2>2, OtherMessage DEF RecordAdapterReceipt, TypeOK
  <2> QED
    BY <2>1, <2>2
<1>5. ASSUME NEW m \in Message, NEW rev, NEW attempt, NEW resolution,
             ReconcileAdapterSubmission(m, attempt, rev, resolution)
      PROVE  MessageInv(n)'
  <2>1. CASE m = n
    <3>1. /\ submission[n].state = "outcome-unknown"
          /\ submission'[n].state \in {"confirmed-not-submitted", "manual-reconciliation"}
          /\ submission'[n].ref = submission[n].ref
          /\ submission'[n].attempt = submission[n].attempt
      BY <1>5, <2>1 DEF ReconcileAdapterSubmission, TypeOK
    <3> QED
      BY <1>5, <3>1
         DEF ReconcileAdapterSubmission, Unsent, RowsAgree, Invalidated, Quiescent, RefKept,
             ClaimBounded, Unresolved, Target, Due
  <2>2. CASE m # n
    BY <1>5, <2>2, OtherMessage DEF ReconcileAdapterSubmission, TypeOK
  <2> QED
    BY <2>1, <2>2
<1> QED
  BY <1>2, <1>3, <1>4, <1>5 DEF SubmissionNext

LEMMA InvMaintenance == ASSUME IInv, MaintenanceNext PROVE IInv'
<1> USE DEF IInv
<1>1. TypeOK'
  BY TypeMaintenance
<1> SUFFICES ASSUME NEW n \in Message PROVE MessageInv(n)'
  BY <1>1
<1> USE DEF MessageInv
<1> /\ disp[n] \in DispositionType /\ mailbox[n] \in MailboxType
    /\ admission[n] \in AdmissionType
    /\ Target(n) \in TaskType /\ Envelope[n].target \in Incarnation
    /\ Envelope[n].expires \in Nat /\ now \in Nat
  BY EnvelopeAssumption DEF TypeOK, TaskTypeOK, EnvelopeType, Target
<1>2. ASSUME NEW m \in Message, NEW viaGit \in BOOLEAN, SatisfyDependency(m, viaGit)
      PROVE  MessageInv(n)'
  <2>0. \A j \in Incarnation : task'[j].status = task[j].status /\ task'[j].ref = task[j].ref
    BY <1>2, EnvelopeAssumption, UnlockKeeps DEF SatisfyDependency, Verifies, EnvelopeType, TypeOK
  <2>1. CASE m = n
    <3>1. /\ disp'[n].delivery = "adapter-submitted"
          /\ disp[n].delivery = "adapter-submitted"
          /\ disp'[n].decision = disp[n].decision
          /\ disp'[n].outcome = "externally-verified"
      BY <1>2, <2>1, RowUpdates DEF SatisfyDependency, Verifies, TypeOK
    <3> QED
      BY <1>2, <2>0, <3>1
         DEF SatisfyDependency, Verifies, Unsent, RowsAgree, Invalidated, Quiescent, RefKept,
             ClaimBounded, Unresolved, Target, Due
  <2>2. CASE m # n
    BY <1>2, <2>0, <2>2, OtherMessage DEF SatisfyDependency, Verifies, TypeOK
  <2> QED
    BY <2>1, <2>2
<1>3. ASSUME NEW swept \in SUBSET Message, ExpireDueMessages(swept) PROVE MessageInv(n)'
  <2>1. CASE n \in swept
    <3>1. disp'[n] = ExpiredRow(disp[n]) /\ Expirable(n)
      BY <1>3, <2>1 DEF ExpireDueMessages
    <3>2. /\ disp'[n].delivery = "expired"
          /\ disp'[n].decision = IF disp[n].decision \in UndecidedStates THEN "expired"
                                 ELSE disp[n].decision
          /\ disp'[n].outcome = disp[n].outcome
      BY <3>1, ExpiredUpdate
    <3>3. /\ disp[n].delivery # "adapter-submitted"
          /\ submission[n].state # "outcome-unknown"
          /\ admission[n].state # "in-flight"
          /\ disp[n].delivery # "none"
      BY <3>1 DEF Expirable, NonTerminalDelivery
    <3> QED
      BY <1>3, <3>2, <3>3
         DEF ExpireDueMessages, Unsent, RowsAgree, Invalidated, Quiescent, RefKept,
             ClaimBounded, Unresolved, Target, Due, TerminalDelivery
  <2>2. CASE n \notin swept
    <3>1. disp'[n] = disp[n]
      BY <1>3, <2>2 DEF ExpireDueMessages
    <3> QED
      BY <1>3, <3>1, OtherMessage DEF ExpireDueMessages
  <2> QED
    BY <2>1, <2>2
<1>4. ASSUME NEW cutoff \in 0..MaxTime, PurgeSensitiveContent(cutoff) PROVE MessageInv(n)'
  <2>1. /\ mailbox'[n] = IF ContentPurgeable(n, cutoff) THEN [mailbox[n] EXCEPT !.state = "none"]
                         ELSE mailbox[n]
        /\ n \in purged' => n \in purged \/ ContentPurgeable(n, cutoff)
        /\ UNCHANGED <<now, grant, bound, disp, submission>>
        /\ admission'[n].state = admission[n].state
    BY <1>4 DEF PurgeSensitiveContent, AdmissionType
  <2>2. RefKept(n)'
    <3>1. task'[Envelope[n].target] =
            IF RefPurgeable(Envelope[n].target, cutoff) THEN [Target(n) EXCEPT !.ref = NoRef]
            ELSE Target(n)
      BY <1>4 DEF PurgeSensitiveContent, ForgetRefs, Target
    <3>2. Unresolved(n) \/ admission[n].state = "in-flight"
            => ~RefPurgeable(Envelope[n].target, cutoff)
      BY DEF RefPurgeable
    <3> QED
      BY <2>1, <3>1, <3>2 DEF RefKept, Unresolved, Target
  <2>3. Quiescent(n)'
    <3>1. CASE ContentPurgeable(n, cutoff)
      BY <1>4, <2>1, <3>1, BoundAssumption
         DEF ContentPurgeable, Quiescent, Due, Unresolved, PurgeSensitiveContent, MailboxType
    <3>2. CASE ~ContentPurgeable(n, cutoff)
      BY <2>1, <3>2 DEF Quiescent, Due, Unresolved
    <3> QED
      BY <3>1, <3>2
  <2> QED
    BY <2>1, <2>2, <2>3
       DEF Unsent, RowsAgree, Invalidated, ClaimBounded, ContentPurgeable, MailboxType
<1> QED
  BY <1>2, <1>3, <1>4 DEF MaintenanceNext, VerificationNext, RetentionNext

\* The inductive invariant: for every message, what its rows say together after
\* any sequence of the coordinator's operations.
THEOREM Inductive == Spec => []IInv
<1>1. IInv /\ [Next]_vars => IInv'
  <2>1. IInv /\ UNCHANGED vars => IInv'
    BY OtherMessage DEF IInv, TypeOK, TaskTypeOK, vars, delivery_vars
  <2> QED
    BY <2>1, InvRegistry, InvMail, InvAdmission, InvSubmission, InvMaintenance DEF Next
<1> QED
  BY <1>1, InvInit, PTL DEF Spec

(***************************************************************************)
(* What follows for every reachable state.                                 *)
(***************************************************************************)

\* Nothing enters a receiver's context or runtime unaccepted, and nothing is
\* verified that was not submitted.
THEOREM CrossStateHolds == Spec => []CrossState
<1>1. IInv => CrossState
  BY DEF IInv, MessageInv, RowsAgree, CrossState
<1> QED
  BY <1>1, Inductive, PTL

\* The durable receipt and the delivery state stand or fall together.
THEOREM ReceiptMatchesDeliveryHolds == Spec => []ReceiptMatchesDelivery
<1>1. IInv => ReceiptMatchesDelivery
  BY DEF IInv, MessageInv, RowsAgree, ReceiptMatchesDelivery
<1> QED
  BY <1>1, Inductive, PTL

\* A message counts as in the receiver's context only by a completed claim.
THEOREM AdmissionMatchesDeliveryHolds == Spec => []AdmissionMatchesDelivery
<1>1. IInv => AdmissionMatchesDelivery
  BY DEF IInv, MessageInv, RowsAgree, AdmissionMatchesDelivery
<1> QED
  BY <1>1, Inductive, PTL

\* Neither an attempt of unknown outcome nor an admission under way is covered
\* up by another outcome of the delivery.
THEOREM UnknownNotRelabelledHolds == Spec => [](UnknownNotRelabelled /\ AdmissionNotExpired)
<1>1. IInv => UnknownNotRelabelled /\ AdmissionNotExpired
  BY DEF IInv, MessageInv, RowsAgree, UnknownNotRelabelled, AdmissionNotExpired
<1> QED
  BY <1>1, Inductive, PTL

\* The rows of a message agree with each other, whichever operations wrote them:
\* its submissions, the receipt and the delivery.
THEOREM RowsOfAMessageAgree == Spec => []SubmissionsAgree
<1>1. IInv => TypeOK /\ CrossState /\ ReceiptMatchesDelivery
  BY DEF IInv, MessageInv, RowsAgree, CrossState, ReceiptMatchesDelivery
<1>2. IInv => SubmissionsAgree
  BY <1>1 DEF SubmissionsAgree
<1> QED
  BY <1>2, Inductive, PTL

\* So do the claim of its admission and the delivery: what is in the receiver's
\* context was confirmed by a completed claim, and an admission under way does not
\* expire.
THEOREM AdmissionsOfAMessageAgree == Spec => []AdmissionsAgree
<1>1. IInv => AdmissionsAgree
  BY DEF IInv, MessageInv, RowsAgree, AdmissionMatchesDelivery, AdmissionNotExpired, AdmissionsAgree
<1> QED
  BY <1>1, Inductive, PTL

\* A revoked grant leaves no steer or interrupt waiting to be executed.
THEOREM RevokedWorkInvalidatedHolds == Spec => []RevokedWorkInvalidated
<1>1. IInv => RevokedWorkInvalidated
  BY DEF IInv, MessageInv, Invalidated, RevokedWorkInvalidated
<1> QED
  BY <1>1, Inductive, PTL

\* Purging and recovery do not meet: purged messages are at rest.
THEOREM RetentionSafe == Spec => []PurgedQuiescent
<1>1. IInv => PurgedQuiescent
  BY DEF IInv, TypeOK, MessageInv, Quiescent, PurgedQuiescent
<1> QED
  BY <1>1, Inductive, PTL

\* What an unresolved attempt or an admission under way needs of its receiver is
\* still there, although retention forgets the references of retired receivers.
THEOREM RefsAreKept == Spec => []RefKeptWhileUnresolved
<1>1. IInv => RefKeptWhileUnresolved
  BY DEF IInv, TypeOK, MessageInv, RefKept, RefKeptWhileUnresolved
<1> QED
  BY <1>1, Inductive, PTL

(***************************************************************************)
(* What no step does.                                                      *)
(***************************************************************************)
LEMMA LegalUpdates ==
  ASSUME NEW d \in DispositionType, NEW x
  PROVE  /\ DeliveryMay(d.delivery, x) => LegalChange(d, Delivered(d, x))
         /\ DecisionMay(d.decision, x) => LegalChange(d, Decided(d, x))
         /\ OutcomeMay(d.outcome, x) => LegalChange(d, Observed(d, x))
BY RowUpdates DEF LegalChange

\* One disposition changes and it changes legally, or several do in a batch.
LEMMA LegalAction ==
  ASSUME IInv, Next, NEW n \in Message
  PROVE  disp'[n] = disp[n] \/ LegalChange(disp[n], disp'[n])
<1> USE DEF IInv, TypeOK
<1> /\ disp[n] \in DispositionType /\ MessageInv(n)
  OBVIOUS
<1>1. CASE RegistryNext
  <2>1. ASSUME NEW g \in Grant, RevokeGrant(g), QueuedUnder(n, g) PROVE LegalChange(disp[n], disp'[n])
    <3>1. disp'[n] = Decided(disp[n], "revoked")
      BY <2>1 DEF RevokeGrant
    <3>2. DecisionMay(disp[n].decision, "revoked")
      BY <2>1 DEF QueuedUnder, UndecidedStates, DecisionMay, DecisionTable, DecisionStates
    <3> QED
      BY <3>1, <3>2, LegalUpdates
  <2>2. ASSUME NEW g \in Grant, RevokeGrant(g), ~QueuedUnder(n, g) PROVE disp'[n] = disp[n]
    BY <2>2 DEF RevokeGrant
  <2> QED
    BY <1>1, <2>1, <2>2
       DEF RegistryNext, InstallGrant, delivery_vars
<1>2. CASE MailNext
  <2>1. ASSUME NEW m \in Message, Submit(m) PROVE disp'[n] = disp[n] \/ LegalChange(disp[n], disp'[n])
    BY <2>1 DEF Submit, LegalChange
  <2>2. ASSUME NEW m \in Message, NEW rev, FailDelivery(m, rev)
        PROVE  disp'[n] = disp[n] \/ LegalChange(disp[n], disp'[n])
    BY <2>2, LegalUpdates DEF FailDelivery
  <2>3. ASSUME NEW m \in Message, NEW rev, NEW decision, Responds(m, decision, rev)
        PROVE  disp'[n] = disp[n] \/ LegalChange(disp[n], disp'[n])
    BY <2>3, LegalUpdates DEF Responds
  <2> QED
    BY <1>2, <2>1, <2>2, <2>3 DEF MailNext, ClaimPending, Respond, AcknowledgePending
<1>3. CASE AdmissionNext
  <2>1. ASSUME NEW m \in Message, NEW rev, ConfirmContextAdmission(m, rev)
        PROVE  disp'[n] = disp[n] \/ LegalChange(disp[n], disp'[n])
    <3>1. CASE m = n /\ OrdinaryAdmission(n) /\ disp'[n] = Delivered(disp[n], "context-admitted")
      <4>1. DeliveryMay(disp[n].delivery, "context-admitted")
        BY <3>1 DEF OrdinaryAdmission, DeliveryMay, DeliveryTable
      <4> QED
        BY <3>1, <4>1, LegalUpdates
    <3>2. CASE disp'[n] = disp[n]
      BY <3>2
    <3> QED
      BY <2>1, <3>1, <3>2 DEF ConfirmContextAdmission
  <2> QED
    BY <1>3, <2>1 DEF AdmissionNext, PrepareContextAdmission
<1>4. CASE SubmissionNext
  <2>1. ASSUME NEW m \in Message, NEW rev, NEW attempt, RecordAdapterReceipt(m, attempt, rev)
        PROVE  disp'[n] = disp[n] \/ LegalChange(disp[n], disp'[n])
    BY <2>1, LegalUpdates DEF RecordAdapterReceipt, AdapterSubmissionState
  <2> QED
    BY <1>4, <2>1
       DEF SubmissionNext, PrepareAdapterSubmission, BeginAdapterSubmission,
           ReconcileAdapterSubmission
<1>5. CASE MaintenanceNext
  <2>1. ASSUME NEW m \in Message, NEW viaGit, SatisfyDependency(m, viaGit)
        PROVE  disp'[n] = disp[n] \/ LegalChange(disp[n], disp'[n])
    <3>1. CASE m = n
      <4>1. OutcomeMay(disp[n].outcome, "externally-verified")
        BY <2>1, <3>1 DEF SatisfyDependency, Verifies, MessageInv, RowsAgree, OutcomeMay, OutcomeTable
      <4> QED
        BY <2>1, <3>1, <4>1, LegalUpdates DEF SatisfyDependency, Verifies
    <3>2. CASE m # n
      BY <2>1, <3>2 DEF SatisfyDependency, Verifies
    <3> QED
      BY <3>1, <3>2
  <2>2. ASSUME NEW swept \in SUBSET Message, ExpireDueMessages(swept)
        PROVE  disp'[n] = disp[n] \/ LegalChange(disp[n], disp'[n])
    <3>1. CASE n \in swept
      <4>1. disp'[n] = ExpiredRow(disp[n]) /\ disp[n].delivery \in NonTerminalDelivery
        BY <2>2, <3>1 DEF ExpireDueMessages, Expirable
      <4>2. DeliveryMay(disp[n].delivery, "expired")
        BY <4>1 DEF DeliveryMay, DeliveryTable
      <4>3. disp[n].decision \in UndecidedStates => DecisionMay(disp[n].decision, "expired")
        BY DEF UndecidedStates, DecisionMay, DecisionTable, DecisionStates
      <4> QED
        BY <4>1, <4>2, <4>3, ExpiredUpdate DEF LegalChange
    <3>2. CASE n \notin swept
      BY <2>2, <3>2 DEF ExpireDueMessages
    <3> QED
      BY <3>1, <3>2
  <2> QED
    BY <1>5, <2>1, <2>2 DEF MaintenanceNext, VerificationNext, RetentionNext, PurgeSensitiveContent
<1> QED
  BY <1>1, <1>2, <1>3, <1>4, <1>5 DEF Next

\* Every change of a disposition follows the tables and takes one revision.
THEOREM LegalSteps == Spec => LegalStep
<1>1. IInv /\ [Next]_vars => [\A m \in Message : disp'[m] = disp[m]
                                \/ LegalChange(disp[m], disp'[m])]_vars
  BY LegalAction
<1> QED
  BY <1>1, Inductive, PTL DEF Spec, LegalStep

\* Who may rewrite a mailbox claim: a new claim only when none is live, an
\* acknowledgement of it, and a purge only when the message, and with it the
\* claim, has run out.
LEMMA ClaimAction ==
  ASSUME IInv, Next, NEW n \in Message, mailbox[n].state = "claimed", now < mailbox[n].expires
  PROVE  \/ mailbox'[n] = mailbox[n]
         \/ mailbox'[n] = [mailbox[n] EXCEPT !.state = "acknowledged"]
<1> USE DEF IInv, TypeOK, TaskTypeOK
<1>1. ASSUME NEW m \in Message, NEW rev, ClaimPending(m, rev) PROVE mailbox'[n] = mailbox[n]
  BY <1>1 DEF ClaimPending, LiveClaim
<1>2. ASSUME NEW m \in Message, NEW token, NEW decision, NEW rev,
             AcknowledgePending(m, token, decision, rev)
      PROVE  \/ mailbox'[n] = mailbox[n]
             \/ mailbox'[n] = [mailbox[n] EXCEPT !.state = "acknowledged"]
  BY <1>2 DEF AcknowledgePending
<1>3. ASSUME NEW cutoff \in 0..MaxTime, PurgeSensitiveContent(cutoff)
      PROVE  mailbox'[n] = mailbox[n]
  <2>1. mailbox[n].expires <= Envelope[n].expires
    BY DEF MessageInv, ClaimBounded
  <2>2. Envelope[n].expires \in Nat /\ mailbox[n].expires \in Nat /\ cutoff <= now
    BY <1>3, EnvelopeAssumption DEF EnvelopeType, MailboxType, PurgeSensitiveContent
  <2>3. ~ContentPurgeable(n, cutoff)
    BY <2>1, <2>2, BoundAssumption DEF ContentPurgeable
  <2> QED
    BY <1>3, <2>3 DEF PurgeSensitiveContent
<1>4. ASSUME UNCHANGED mailbox PROVE mailbox'[n] = mailbox[n]
  BY <1>4
<1>5. CASE RegistryNext
  BY <1>4, <1>5
     DEF RegistryNext, InstallGrant, RevokeGrant, delivery_vars
<1>6. CASE MailNext
  BY <1>1, <1>2, <1>4, <1>6 DEF MailNext, Submit, FailDelivery, Respond
<1>7. CASE AdmissionNext \/ SubmissionNext
  BY <1>4, <1>7
     DEF AdmissionNext, PrepareContextAdmission, ConfirmContextAdmission, SubmissionNext,
         PrepareAdapterSubmission, BeginAdapterSubmission, RecordAdapterReceipt,
         ReconcileAdapterSubmission
<1>8. CASE MaintenanceNext
  BY <1>3, <1>4, <1>8 DEF MaintenanceNext, VerificationNext, RetentionNext, SatisfyDependency, Verifies,
         ExpireDueMessages
<1> QED
  BY <1>5, <1>6, <1>7, <1>8 DEF Next

\* A live claim is neither stolen nor purged.
THEOREM ClaimsExclusive == Spec => ClaimExclusive
<1>1. IInv /\ [Next]_vars =>
        [\A m \in Message :
           (mailbox[m].state = "claimed" /\ now < mailbox[m].expires)
             => \/ mailbox'[m] = mailbox[m]
                \/ mailbox'[m] = [mailbox[m] EXCEPT !.state = "acknowledged"]]_vars
  BY ClaimAction
<1> QED
  BY <1>1, Inductive, PTL DEF Spec, ClaimExclusive

(***************************************************************************)
(* Lost authority.                                                         *)
(***************************************************************************)
LEMMA LostNotAuthorized ==
  ASSUME IInv, NEW m \in Message, AuthorityLost(m)
  PROVE  ~CurrentlyAuthorized(m)
<1>1. GrantOf[bound[m]].version \in Nat /\ GrantOf[bound[m]].expires \in Nat /\ now \in Nat
  BY GrantAssumption DEF IInv, TypeOK, TaskTypeOK, AuthorityLost
<1>2. \A h \in EdgeGrants(m) : GrantOf[h].version \in Nat
  BY GrantAssumption DEF EdgeGrants
<1> QED
  BY <1>1, <1>2
     DEF AuthorityLost, CurrentlyAuthorized, ActiveGrantFor, NewestGrant, PolicyAllows

\* The registry and the grants only move away from authority.
LEMMA RegistryMonotone ==
  ASSUME TypeOK, Next
  PROVE  /\ now' >= now
         /\ \A i \in Incarnation : task[i].status = "retired" => task'[i].status = "retired"
         /\ \A g \in Grant : /\ grant[g] = "revoked" => grant'[g] = "revoked"
                             /\ grant[g] # "absent" => grant'[g] # "absent"
<1> USE DEF TypeOK, TaskTypeOK
<1>1. CASE RegistryNext
  <2>1. CASE TaskNext /\ UNCHANGED grant
    <3>1. now' >= now /\ \A i \in Incarnation : Persists(i)
      BY <2>1, TaskStep
    <3> QED
      BY <2>1, <3>1 DEF Persists
  <2>2. ASSUME NEW g \in Grant, InstallGrant(g) \/ RevokeGrant(g)
        PROVE  /\ UNCHANGED <<now, task>>
               /\ \A h \in Grant : /\ grant[h] = "revoked" => grant'[h] = "revoked"
                                   /\ grant[h] # "absent" => grant'[h] # "absent"
    BY <2>2 DEF InstallGrant, RevokeGrant
  <2> QED
    BY <1>1, <2>1, <2>2 DEF RegistryNext, TaskTypeOK
<1>2. CASE MailNext
  BY <1>2 DEF MailNext, Submit, ClaimPending, FailDelivery, Respond, AcknowledgePending
<1>3. CASE AdmissionNext \/ SubmissionNext
  BY <1>3
     DEF AdmissionNext, PrepareContextAdmission, ConfirmContextAdmission, SubmissionNext,
         PrepareAdapterSubmission, BeginAdapterSubmission, RecordAdapterReceipt,
         ReconcileAdapterSubmission
<1>4. CASE MaintenanceNext
  <2>1. ASSUME NEW cutoff, PurgeSensitiveContent(cutoff)
        PROVE  \A j \in Incarnation : task[j].status = "retired" => task'[j].status = "retired"
    BY <2>1, ForgetKeeps DEF PurgeSensitiveContent
  <2>2. ASSUME NEW m \in Message, NEW viaGit, SatisfyDependency(m, viaGit)
        PROVE  \A j \in Incarnation : task[j].status = "retired" => task'[j].status = "retired"
    BY <2>2, EnvelopeAssumption, UnlockKeeps DEF SatisfyDependency, Verifies, EnvelopeType, TypeOK
  <2>3. UNCHANGED <<now, grant>>
    BY <1>4 DEF MaintenanceNext, VerificationNext, RetentionNext, SatisfyDependency, Verifies,
         ExpireDueMessages, PurgeSensitiveContent
  <2>4. \A j \in Incarnation : task[j].status = "retired" => task'[j].status = "retired"
    BY <1>4, <2>1, <2>2
       DEF MaintenanceNext, VerificationNext, RetentionNext, ExpireDueMessages
  <2> QED
    BY <2>3, <2>4
<1> QED
  BY <1>1, <1>2, <1>3, <1>4 DEF Next

\* A message keeps the grant it was accepted under.
LEMMA BoundStays ==
  ASSUME IInv, Next, NEW m \in Message, bound[m] \in Grant
  PROVE  bound'[m] = bound[m]
<1>1. ASSUME NEW n \in Message, Submit(n) PROVE bound'[m] = bound[m]
  <2>1. m # n
    BY <1>1, NoGrantAssumption DEF Submit, IInv, MessageInv, Unsent
  <2> QED
    BY <1>1, <2>1 DEF Submit, IInv, TypeOK
<1>2. ASSUME UNCHANGED bound PROVE bound'[m] = bound[m]
  BY <1>2
<1>3. CASE RegistryNext
  BY <1>2, <1>3
     DEF RegistryNext, InstallGrant, RevokeGrant, delivery_vars
<1>4. CASE MailNext
  BY <1>1, <1>2, <1>4 DEF MailNext, ClaimPending, FailDelivery, Respond, AcknowledgePending
<1>5. CASE AdmissionNext \/ SubmissionNext
  BY <1>2, <1>5
     DEF AdmissionNext, PrepareContextAdmission, ConfirmContextAdmission, SubmissionNext,
         PrepareAdapterSubmission, BeginAdapterSubmission, RecordAdapterReceipt,
         ReconcileAdapterSubmission
<1>6. CASE MaintenanceNext
  BY <1>2, <1>6 DEF MaintenanceNext, VerificationNext, RetentionNext, SatisfyDependency, Verifies,
         ExpireDueMessages, PurgeSensitiveContent
<1> QED
  BY <1>3, <1>4, <1>5, <1>6 DEF Next

LEMMA LossPersists ==
  ASSUME IInv, Next, NEW m \in Message, AuthorityLost(m)
  PROVE  AuthorityLost(m)'
<1>1. bound'[m] = bound[m] /\ bound[m] \in Grant
  BY BoundStays DEF AuthorityLost
<1>2. EdgeGrants(m) \subseteq EdgeGrants(m)'
  BY RegistryMonotone DEF EdgeGrants, IInv
<1>3. GrantOf[bound[m]].expires <= now => GrantOf[bound[m]].expires <= now'
  <2>1. now \in Nat /\ now' \in Nat
    BY TypeRegistry, TypeMail, TypeAdmission, TypeSubmission, TypeMaintenance
       DEF IInv, Next, TypeOK, TaskTypeOK
  <2> QED
    BY <1>1, <2>1, RegistryMonotone, GrantAssumption DEF IInv
<1>4. /\ Envelope[m].source \in Incarnation
      /\ Envelope[m].target \in Incarnation
  BY EnvelopeAssumption DEF EnvelopeType
<1> QED
  BY <1>1, <1>2, <1>3, <1>4, RegistryMonotone DEF AuthorityLost, Target, IInv

LEMMA WorkNeedsAuthority ==
  ASSUME IInv, Next, NEW n \in Message, NewWork(n)
  PROVE  CurrentlyAuthorized(n)
<1> USE DEF IInv, TypeOK
<1> disp[n] \in DispositionType /\ mailbox[n] \in MailboxType
    /\ admission[n] \in AdmissionType /\ submission[n] \in SubmissionType
  OBVIOUS
<1> DEFINE Idle == /\ mailbox'[n].token = mailbox[n].token
                   /\ disp'[n].decision = disp[n].decision
                        \/ disp'[n].decision \notin {"accepted", "deferred"}
                   /\ admission[n].state = "none" => admission'[n].state = "none"
                   /\ submission'[n].attempt = submission[n].attempt
                   /\ submission[n].state = "prepared" => submission'[n].state = "prepared"
<1> SUFFICES ASSUME ~CurrentlyAuthorized(n) PROVE Idle
  BY DEF NewWork
<1>1. ASSUME UNCHANGED <<mailbox, admission, submission>>,
             disp'[n].decision = disp[n].decision
                \/ disp'[n].decision \notin {"accepted", "deferred"}
      PROVE  Idle
  BY <1>1
<1>2. CASE RegistryNext
  <2>1. ASSUME NEW g \in Grant, RevokeGrant(g) PROVE Idle
    <3>1. disp'[n] = disp[n] \/ disp'[n] = Decided(disp[n], "revoked")
      BY <2>1 DEF RevokeGrant
    <3> QED
      BY <1>1, <2>1, <3>1, RowUpdates DEF RevokeGrant
  <2>2. ASSUME UNCHANGED delivery_vars PROVE Idle
    BY <2>2 DEF delivery_vars
  <2> QED
    BY <1>2, <2>1, <2>2
       DEF RegistryNext, InstallGrant
<1>3. CASE MailNext
  <2>1. ASSUME NEW m \in Message, Submit(m) PROVE Idle
    BY <2>1 DEF Submit
  <2>2. ASSUME NEW m \in Message, NEW rev, ClaimPending(m, rev) PROVE Idle
    BY <2>2 DEF ClaimPending
  <2>3. ASSUME NEW m \in Message, NEW rev, FailDelivery(m, rev) PROVE Idle
    <3>1. disp'[n] = disp[n] \/ disp'[n] = Delivered(disp[n], "failed")
      BY <2>3 DEF FailDelivery
    <3> QED
      BY <1>1, <2>3, <3>1, RowUpdates DEF FailDelivery
  <2>4. ASSUME NEW m \in Message, NEW rev, NEW decision, Responds(m, decision, rev)
        PROVE  disp'[n].decision = disp[n].decision
                 \/ disp'[n].decision \notin {"accepted", "deferred"}
    <3>1. CASE m = n
      <4>1. decision \notin {"accepted", "deferred"}
        BY <2>4, <3>1 DEF Responds
      <4>2. disp'[n] = Decided(disp[n], decision)
        BY <2>4, <3>1 DEF Responds
      <4> QED
        BY <4>1, <4>2, RowUpdates
    <3>2. CASE m # n
      BY <2>4, <3>2 DEF Responds
    <3> QED
      BY <3>1, <3>2
  <2>5. ASSUME NEW m \in Message, NEW rev, NEW decision, Respond(m, decision, rev) PROVE Idle
    BY <1>1, <2>4, <2>5 DEF Respond
  <2>6. ASSUME NEW m \in Message, NEW token, NEW decision, NEW rev,
               AcknowledgePending(m, token, decision, rev)
        PROVE  Idle
    <3>1. mailbox'[n].token = mailbox[n].token
      BY <2>6 DEF AcknowledgePending, MailboxType
    <3> QED
      BY <2>4, <2>6, <3>1 DEF AcknowledgePending
  <2> QED
    BY <1>3, <2>1, <2>2, <2>3, <2>5, <2>6 DEF MailNext
<1>4. CASE AdmissionNext
  <2>1. ASSUME NEW m \in Message, NEW rev, PrepareContextAdmission(m, rev) PROVE Idle
    BY <2>1 DEF PrepareContextAdmission, ContextAdmissionState
  <2>2. ASSUME NEW m \in Message, NEW rev, ConfirmContextAdmission(m, rev) PROVE Idle
    <3>1. disp'[n] = disp[n] \/ disp'[n] = Delivered(disp[n], "context-admitted")
      BY <2>2 DEF ConfirmContextAdmission
    <3>2. admission[n].state = "none" => admission'[n].state = "none"
      BY <2>2 DEF ConfirmContextAdmission
    <3> QED
      BY <2>2, <3>1, <3>2, RowUpdates DEF ConfirmContextAdmission
  <2> QED
    BY <1>4, <2>1, <2>2 DEF AdmissionNext
<1>5. CASE SubmissionNext
  <2>1. ASSUME NEW m \in Message, NEW rev, PrepareAdapterSubmission(m, rev) PROVE Idle
    BY <2>1 DEF PrepareAdapterSubmission
  <2>2. ASSUME NEW m \in Message, NEW rev, NEW attempt, BeginAdapterSubmission(m, attempt, rev)
        PROVE  Idle
    BY <2>2 DEF BeginAdapterSubmission
  <2>3. ASSUME NEW m \in Message, NEW rev, NEW attempt, RecordAdapterReceipt(m, attempt, rev)
        PROVE  Idle
    <3>1. disp'[n] = disp[n] \/ disp'[n] = Delivered(disp[n], "adapter-submitted")
      BY <2>3 DEF RecordAdapterReceipt
    <3>2. /\ submission'[n].attempt = submission[n].attempt
          /\ submission[n].state = "prepared" => submission'[n].state = "prepared"
      BY <2>3 DEF RecordAdapterReceipt, SubmissionType
    <3> QED
      BY <2>3, <3>1, <3>2, RowUpdates DEF RecordAdapterReceipt
  <2>4. ASSUME NEW m \in Message, NEW rev, NEW attempt, NEW resolution,
               ReconcileAdapterSubmission(m, attempt, rev, resolution)
        PROVE  Idle
    BY <2>4 DEF ReconcileAdapterSubmission, SubmissionType
  <2> QED
    BY <1>5, <2>1, <2>2, <2>3, <2>4 DEF SubmissionNext
<1>6. CASE MaintenanceNext
  <2>1. ASSUME NEW m \in Message, NEW viaGit, SatisfyDependency(m, viaGit) PROVE Idle
    <3>1. disp'[n] = disp[n] \/ disp'[n] = Observed(disp[n], "externally-verified")
      BY <2>1 DEF SatisfyDependency, Verifies
    <3> QED
      BY <1>1, <2>1, <3>1, RowUpdates DEF SatisfyDependency, Verifies
  <2>2. ASSUME NEW swept \in SUBSET Message, ExpireDueMessages(swept) PROVE Idle
    <3>1. disp'[n] = disp[n] \/ disp'[n] = ExpiredRow(disp[n])
      BY <2>2 DEF ExpireDueMessages
    <3> QED
      BY <1>1, <2>2, <3>1, ExpiredUpdate DEF ExpireDueMessages, UndecidedStates
  <2>3. ASSUME NEW cutoff, PurgeSensitiveContent(cutoff) PROVE Idle
    <3>1. mailbox'[n].token = mailbox[n].token /\ admission'[n].state = admission[n].state
      BY <2>3 DEF PurgeSensitiveContent, MailboxType, AdmissionType
    <3> QED
      BY <2>3, <3>1 DEF PurgeSensitiveContent
  <2> QED
    BY <1>6, <2>1, <2>2, <2>3 DEF MaintenanceNext, VerificationNext, RetentionNext
<1> QED
  BY <1>2, <1>3, <1>4, <1>5, <1>6 DEF Next

\* Authority that was revoked, superseded, has run out or was retired with its
\* task is gone for good, and nothing starts under it.
THEOREM AuthorityLossFinal == Spec => AuthorityLossIsFinal
<1>1. IInv /\ [Next]_vars =>
        [\A m \in Message : AuthorityLost(m) => AuthorityLost(m)' /\ ~NewWork(m)]_vars
  BY LossPersists, LostNotAuthorized, WorkNeedsAuthority
<1> QED
  BY <1>1, Inductive, PTL DEF Spec, AuthorityLossIsFinal

(***************************************************************************)
(* The standing of a message.                                              *)
(***************************************************************************)

\* Lost standing stays lost, in whatever order its reasons come about.
LEMMA StandingStaysLost ==
  ASSUME IInv, Next, NEW m \in Message, StandingLost(m)
  PROVE  StandingLost(m)'
<1> USE DEF StandingLost
<1>1. disp'[m] = disp[m] \/ LegalChange(disp[m], disp'[m])
  BY LegalAction
<1>2. CASE AuthorityLost(m)
  BY <1>2, LossPersists
<1>3. CASE disp[m].delivery # "none" /\ Due(m)
  <2>1. disp'[m].delivery # "none"
    BY <1>1, <1>3 DEF LegalChange, DeliveryMay, DeliveryTable, NonTerminalDelivery
  <2>2. Due(m)'
    <3>1. now \in Nat /\ now' \in Nat /\ now' >= now
      BY RegistryMonotone, TypeRegistry, TypeMail, TypeAdmission, TypeSubmission, TypeMaintenance
         DEF IInv, Next, TypeOK, TaskTypeOK
    <3>2. Envelope[m].expires \in Nat
      BY EnvelopeAssumption DEF EnvelopeType
    <3> QED
      BY <1>3, <3>1, <3>2 DEF Due
  <2> QED
    BY <2>1, <2>2
<1>4. CASE disp[m].decision \in DecisionStates \ (UndecidedStates \cup {"accepted"})
  <2>1. disp[m] \in DispositionType
    BY DEF IInv, TypeOK
  <2>2. disp'[m].decision = disp[m].decision \/ DecisionMay(disp[m].decision, disp'[m].decision)
    BY <1>1, <2>1 DEF LegalChange, DispositionType
  <2>3. disp'[m].decision = disp[m].decision
    BY <1>4, <2>2, DecisionMoves DEF UndecidedStates
  <2> QED
    BY <1>4, <2>3
<1> QED
  BY <1>2, <1>3, <1>4

\* Only a receipt completes the delivery to an adapter, and only the
\* satisfaction of a dependency records a verification.
LEMMA OthersNeitherSubmitNorVerify ==
  ASSUME IInv, Next, NEW n \in Message,
         ~ \E m \in Message : \E rev, attempt : RecordAdapterReceipt(m, attempt, rev),
         ~ \E m \in Message : \E viaGit : SatisfyDependency(m, viaGit)
  PROVE  /\ disp'[n].outcome = disp[n].outcome
         /\ disp'[n].delivery = "adapter-submitted" => disp[n].delivery = "adapter-submitted"
<1> USE DEF IInv, TypeOK
<1> disp[n] \in DispositionType
  OBVIOUS
<1> DEFINE Goal == /\ disp'[n].outcome = disp[n].outcome
                   /\ disp'[n].delivery = "adapter-submitted"
                        => disp[n].delivery = "adapter-submitted"
<1>1. ASSUME UNCHANGED disp PROVE Goal
  BY <1>1
<1>2. ASSUME NEW x, x # "adapter-submitted",
             \/ disp'[n] = disp[n]
             \/ disp'[n] = Decided(disp[n], x)
             \/ disp'[n] = Delivered(disp[n], x)
      PROVE  Goal
  BY <1>2, RowUpdates
<1>3. CASE RegistryNext
  <2>1. ASSUME NEW g \in Grant, RevokeGrant(g) PROVE Goal
    BY <2>1, RowUpdates DEF RevokeGrant
  <2> QED
    BY <1>1, <1>3, <2>1 DEF RegistryNext, InstallGrant, delivery_vars
<1>4. CASE MailNext
  <2>1. ASSUME NEW m \in Message, Submit(m) PROVE Goal
    BY <2>1 DEF Submit, DispositionType
  <2>2. ASSUME NEW m \in Message, NEW rev, FailDelivery(m, rev) PROVE Goal
    BY <1>2, <2>2 DEF FailDelivery
  <2>3. ASSUME NEW m \in Message, NEW rev, NEW decision, Responds(m, decision, rev) PROVE Goal
    BY <2>3, RowUpdates DEF Responds
  <2> QED
    BY <1>1, <1>4, <2>1, <2>2, <2>3 DEF MailNext, ClaimPending, Respond, AcknowledgePending
<1>5. CASE AdmissionNext
  <2>1. ASSUME NEW m \in Message, NEW rev, ConfirmContextAdmission(m, rev) PROVE Goal
    BY <1>2, <2>1 DEF ConfirmContextAdmission
  <2> QED
    BY <1>1, <1>5, <2>1 DEF AdmissionNext, PrepareContextAdmission
<1>6. CASE SubmissionNext
  BY <1>1, <1>6
     DEF SubmissionNext, PrepareAdapterSubmission, BeginAdapterSubmission,
         ReconcileAdapterSubmission
<1>7. CASE MaintenanceNext
  <2>1. ASSUME NEW swept \in SUBSET Message, ExpireDueMessages(swept) PROVE Goal
    <3>1. disp'[n] = disp[n] \/ disp'[n] = ExpiredRow(disp[n])
      BY <2>1 DEF ExpireDueMessages
    <3> QED
      BY <3>1, ExpiredUpdate
  <2> QED
    BY <1>1, <1>7, <2>1
       DEF MaintenanceNext, VerificationNext, RetentionNext, PurgeSensitiveContent
<1> QED
  BY <1>3, <1>4, <1>5, <1>6, <1>7 DEF Next

\* The standing of a message that a step does not touch.
LEMMA StandingUntouched ==
  ASSUME NEW n \in Message, UNCHANGED <<now, grant, bound>>,
         \A j \in Incarnation : task'[j].status = task[j].status
  PROVE  /\ AuthorityLost(n)' <=> AuthorityLost(n)
         /\ disp'[n] = disp[n] => LifeOf'[n] = LifeOf[n]
<1>1. Envelope[n].source \in Incarnation /\ Envelope[n].target \in Incarnation
  BY EnvelopeAssumption DEF EnvelopeType
<1>2. EdgeGrants(n)' = EdgeGrants(n)
  BY DEF EdgeGrants
<1>3. AuthorityLost(n)' <=> AuthorityLost(n)
  BY <1>1, <1>2 DEF AuthorityLost, Target
<1>4. ASSUME disp'[n] = disp[n] PROVE StandingLost(n)' <=> StandingLost(n)
  BY <1>3, <1>4 DEF StandingLost, Due
<1> QED
  BY <1>3, <1>4 DEF LifeOf

LEMMA LifeStep ==
  ASSUME IInv, Next
  PROVE  Life!LifeNext \/ UNCHANGED LifeOf
<1> USE DEF IInv, TypeOK
<1>0. LifeOf = [n \in Message |-> LifeOf[n]] /\ LifeOf' = [n \in Message |-> LifeOf'[n]]
  BY DEF LifeOf
<1>1. ASSUME NEW m \in Message, NEW rev, NEW attempt, RecordAdapterReceipt(m, attempt, rev)
      PROVE  Life!LifeNext \/ UNCHANGED LifeOf
  <2>1. \A n \in Message : /\ AuthorityLost(n)' <=> AuthorityLost(n)
                           /\ n # m => LifeOf'[n] = LifeOf[n]
    BY <1>1, StandingUntouched DEF RecordAdapterReceipt
  <2>2. /\ disp'[m].outcome = disp[m].outcome
        /\ disp'[m].decision = disp[m].decision
        /\ disp'[m].delivery = "adapter-submitted"
        /\ disp[m].delivery # "none" /\ disp[m].delivery # "adapter-submitted"
        /\ disp[m].decision = "accepted"
    BY <1>1, RowUpdates, DeliveryMoves
       DEF RecordAdapterReceipt, AdapterSubmissionState, AcceptedAt, TerminalDelivery
  <2>3. StandingLost(m)' <=> StandingLost(m)
    BY <1>1, <2>1, <2>2 DEF StandingLost, Due, RecordAdapterReceipt
  <2>4. LifeOf'[m] = LifeOf[m] \/ (LifeOf[m] = "open" /\ LifeOf'[m] = "submitted")
    BY <2>2, <2>3 DEF LifeOf
  <2>5. CASE LifeOf'[m] = LifeOf[m]
    BY <1>0, <2>1, <2>5
  <2>6. CASE LifeOf[m] = "open" /\ LifeOf'[m] = "submitted"
    <3>1. Life!BecomesSubmitted(m)
      BY <1>0, <2>1, <2>6 DEF Life!BecomesSubmitted
    <3> QED
      BY <3>1 DEF Life!LifeNext
  <2> QED
    BY <2>4, <2>5, <2>6
<1>2. ASSUME NEW m \in Message, NEW viaGit, SatisfyDependency(m, viaGit)
      PROVE  Life!LifeNext
  <2>1. \A n \in Message : n # m => LifeOf'[n] = LifeOf[n]
    <3>1. \A j \in Incarnation : task'[j].status = task[j].status
      BY <1>2, EnvelopeAssumption, UnlockKeeps DEF SatisfyDependency, EnvelopeType
    <3> QED
      BY <1>2, <3>1, StandingUntouched DEF SatisfyDependency, Verifies
  <2>2. LifeOf[m] = "submitted"
    BY <1>2, LostNotAuthorized
       DEF SatisfyDependency, Verifies, LifeOf, StandingLost
  <2>3. LifeOf'[m] = "verified"
    <3>1. disp'[m].outcome = "externally-verified"
      BY <1>2, RowUpdates DEF SatisfyDependency, Verifies
    <3> QED
      BY <3>1 DEF LifeOf
  <2>4. Life!BecomesVerified(m)
    BY <1>0, <2>1, <2>2, <2>3 DEF Life!BecomesVerified
  <2> QED
    BY <2>4 DEF Life!LifeNext
<1>3. ASSUME ~ \E m \in Message : \E rev, attempt : RecordAdapterReceipt(m, attempt, rev),
             ~ \E m \in Message : \E viaGit : SatisfyDependency(m, viaGit)
      PROVE  Life!LifeNext
  <2> DEFINE gone == {n \in Message : LifeOf[n] # "verified" /\ LifeOf'[n] = "lost"}
  <2>1. ASSUME NEW n \in Message
        PROVE  \/ LifeOf'[n] = LifeOf[n]
               \/ LifeOf[n] # "verified" /\ LifeOf'[n] = "lost"
    <3>1. /\ disp'[n].decision = disp[n].decision
             \/ DecisionMay(disp[n].decision, disp'[n].decision)
          /\ disp'[n].delivery = disp[n].delivery \/ disp[n].delivery = "none"
             \/ DeliveryMay(disp[n].delivery, disp'[n].delivery)
      <4>1. disp'[n] = disp[n] \/ LegalChange(disp[n], disp'[n])
        BY LegalAction
      <4> QED
        BY <4>1 DEF LegalChange, DispositionType
    <3>2. /\ disp'[n].outcome = disp[n].outcome
          /\ disp'[n].delivery = "adapter-submitted" => disp[n].delivery = "adapter-submitted"
      BY <1>3, OthersNeitherSubmitNorVerify
    <3>3. StandingLost(n) => StandingLost(n)'
      BY StandingStaysLost
    <3>4. disp[n].delivery = "adapter-submitted" =>
            /\ disp'[n].delivery = "adapter-submitted"
            /\ disp[n].decision \in {"accepted", "revoked"}
      BY <3>1, DeliveryMoves DEF TerminalDelivery, MessageInv, RowsAgree
    <3>5. disp[n].decision = "accepted" => disp'[n].decision \in {"accepted", "revoked"}
      BY <3>1, DecisionMoves
    <3>6. disp[n].decision = "revoked" => StandingLost(n)
      BY DEF StandingLost, DecisionStates, UndecidedStates
    <3>7. disp'[n].decision = "revoked" => StandingLost(n)'
      BY DEF StandingLost, DecisionStates, UndecidedStates
    <3> QED
      BY <3>2, <3>3, <3>4, <3>5, <3>6, <3>7 DEF LifeOf
  <2>2. LifeOf' = [n \in Message |->
          IF n \in gone /\ LifeOf[n] # "verified" THEN "lost" ELSE LifeOf[n]]
    <3>1. \A n \in Message :
            LifeOf'[n] = IF n \in gone /\ LifeOf[n] # "verified" THEN "lost" ELSE LifeOf[n]
      BY <2>1
    <3> HIDE DEF gone
    <3> QED
      BY <1>0, <3>1, Zenon
  <2>4. Life!LoseStanding(gone)
    BY <2>2 DEF Life!LoseStanding
  <2>3. gone \in SUBSET Message
    OBVIOUS
  <2> QED
    BY <2>3, <2>4 DEF Life!LifeNext
<1> QED
  BY <1>1, <1>2, <1>3

\* A message is verified only once it was submitted to its adapter with its
\* authority, time and acceptance intact, and what loses those loses them for
\* good: the coordinator keeps what MessageLife promises to the dependencies.
THEOREM LifeImplemented == Spec => ImplementsMessageLife
<1>1. Init => Life!LifeInit
  BY NoGrantAssumption
     DEF Init, Life!LifeInit, LifeOf, StandingLost, AuthorityLost, DecisionStates, UndecidedStates
<1>2. IInv /\ [Next]_vars => [Life!LifeNext]_LifeOf
  <2>1. UNCHANGED vars => UNCHANGED LifeOf
    BY DEF vars, LifeOf, StandingLost, AuthorityLost, Due, Target, EdgeGrants
  <2> QED
    BY <2>1, LifeStep
<1> QED
  BY <1>1, <1>2, Inductive, PTL DEF Spec, ImplementsMessageLife, Life!LifeSpec
==============================================================================
