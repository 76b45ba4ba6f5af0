-------------------------- MODULE DispatcherProofs --------------------------
(***************************************************************************)
(* Theorems about Dispatcher: the composition keeps the coordinator's own   *)
(* specification, and it implements AtMostOnceEffect, for any number of      *)
(* workers, messages and attempts.                                          *)
(***************************************************************************)
EXTENDS Dispatcher, CoordinatorProofs

(***************************************************************************)
(* The composition is the coordinator plus steps it does not see.          *)
(***************************************************************************)
LEMMA WorkerSteps ==
  ASSUME IInv, NEW m \in Message, NEW rev, NEW attempt
  PROVE  /\ FailDelivery(m, rev) => MailNext
         /\ BeginAdapterSubmission(m, attempt, rev) => SubmissionNext
         /\ RecordAdapterReceipt(m, attempt, rev) => SubmissionNext
<1> disp[m].rev \in Nat /\ MessageInv(m)
  BY DEF IInv, TypeOK, DispositionType
<1>1. disp[m].rev \in Revisions(m)
  BY DEF Revisions
<1>2. submission[m].state # "none" => submission[m].attempt \in Attempts(m)
  BY BoundAssumption DEF MessageInv, RefKept, Attempts
<1>3. FailDelivery(m, rev) => MailNext
  BY <1>1 DEF FailDelivery, MailNext
<1>4. BeginAdapterSubmission(m, attempt, rev) => SubmissionNext
  BY <1>1, <1>2
     DEF BeginAdapterSubmission, AdapterSubmissionState, AcceptedAt, SubmissionNext
<1>5. RecordAdapterReceipt(m, attempt, rev) => SubmissionNext
  BY <1>1, <1>2
     DEF RecordAdapterReceipt, AdapterSubmissionState, AcceptedAt, SubmissionNext
<1> QED
  BY <1>3, <1>4, <1>5

LEMMA DispatchTypes ==
  ASSUME DTypeOK, NEW w \in Worker, pc[w] # "idle"
  PROVE  /\ job[w] \in JobType
         /\ job[w].msg \in Message
         /\ job[w].attempt \in Attempt
BY DEF DTypeOK, JobType

LEMMA WorkerIsCoordinator ==
  ASSUME IInv, DTypeOK, WorkerNext
  PROVE  Next \/ UNCHANGED vars
<1>1. ASSUME NEW w \in Worker, NEW m \in Message, NEW rev \in Revisions(m), Prepare(w, m, rev)
      PROVE  Next \/ UNCHANGED vars
  <2>1. PrepareAdapterSubmission(m, rev) => SubmissionNext
    BY DEF SubmissionNext
  <2> QED
    BY <1>1, <2>1 DEF Prepare, ReplayPrepared, Next
<1>2. ASSUME NEW w \in Worker, FailUnsupported(w) PROVE Next
  BY <1>2, DispatchTypes, WorkerSteps DEF FailUnsupported, Next
<1>3. ASSUME NEW w \in Worker, Begin(w) PROVE Next
  BY <1>3, DispatchTypes, WorkerSteps DEF Begin, Next
<1>4. ASSUME NEW w \in Worker, RecordReceipt(w) PROVE Next
  BY <1>4, DispatchTypes, WorkerSteps DEF RecordReceipt, Next
<1>5. ASSUME NEW w \in Worker, CallAdapter(w) \/ ReceiveReceipt(w) \/ Abandon(w)
      PROVE  UNCHANGED vars
  BY <1>5 DEF CallAdapter, ReceiveReceipt, Abandon
<1> QED
  BY <1>1, <1>2, <1>3, <1>4, <1>5 DEF WorkerNext

LEMMA StepIsCoordinator ==
  ASSUME IInv, DTypeOK, DNext
  PROVE  Next \/ UNCHANGED vars
<1>1. CASE WorkerNext
  BY <1>1, WorkerIsCoordinator
<1>2. CASE HarnessNext
  BY <1>2 DEF HarnessNext, HarnessPerforms, HarnessLoses
<1>3. CASE OthersNext
  BY <1>3 DEF OthersNext, Next
<1>4. ASSUME NEW m \in Message, NEW rev \in Revisions(m), Reconcile(m, rev) PROVE Next
  <2>1. MessageInv(m) /\ submission[m].state = "outcome-unknown"
    BY <1>4 DEF IInv, Reconcile
  <2>2. submission[m].attempt \in Attempts(m)
    BY <2>1, BoundAssumption DEF MessageInv, RefKept, Attempts
  <2>3. RecordAdapterReceipt(m, submission[m].attempt, rev)
          \/ \E r \in SubmissionStates :
               ReconcileAdapterSubmission(m, submission[m].attempt, rev, r)
    BY <1>4 DEF Reconcile, SubmissionStates
  <2> QED
    BY <2>2, <2>3 DEF SubmissionNext, Next
<1> QED
  BY <1>1, <1>2, <1>3, <1>4 DEF DNext

(***************************************************************************)
(* Types.                                                                  *)
(***************************************************************************)
LEMMA DTypeInit == DInit => DTypeOK
BY TypeInit DEF DInit, DTypeOK, Stages, Init

LEMMA CoordinatorStep ==
  ASSUME IInv, Next \/ UNCHANGED vars
  PROVE  IInv'
<1>1. ASSUME UNCHANGED vars PROVE IInv'
  BY <1>1, OtherMessage DEF IInv, TypeOK, TaskTypeOK, vars, delivery_vars
<1> QED
  BY <1>1, InvRegistry, InvMail, InvAdmission, InvSubmission, InvMaintenance DEF Next

LEMMA DTypeStep == ASSUME IInv, DTypeOK, DNext PROVE DTypeOK'
<1>0. IInv'
  BY StepIsCoordinator, CoordinatorStep
<1>1. TypeOK'
  BY <1>0 DEF IInv
<1> DEFINE Rest ==
      /\ pc \in [Worker -> Stages]
      /\ job \in [Worker -> JobType \cup {NoJob}]
      /\ \A w \in Worker : pc[w] # "idle" => job[w] \in JobType
      /\ calls \in [Message -> [Attempt -> Nat]]
      /\ effects \in [Message -> Seq(Attempt)]
<1> Rest
  BY DEF DTypeOK
<1> SUFFICES Rest'
  BY <1>1 DEF DTypeOK
<1>2. CASE WorkerNext
  <2>1. ASSUME NEW w \in Worker, NEW m \in Message, NEW rev \in Revisions(m), Prepare(w, m, rev)
        PROVE  Rest'
    <3>1. rev \in Nat /\ Target(m).ref \in AdapterRef \cup {NoRef}
      BY EnvelopeAssumption
         DEF DTypeOK, TypeOK, TaskTypeOK, TaskType, DispositionType, Revisions, Target, EnvelopeType
    <3>2. submission'[m].state = "prepared"
      BY <2>1 DEF Prepare, PrepareAdapterSubmission, ReplayPrepared, vars, DTypeOK, TypeOK
    <3>3. submission'[m].attempt \in Attempt
      BY <1>0, <3>2 DEF IInv, MessageInv, RefKept, Attempt
    <3> QED
      BY <2>1, <3>1, <3>3 DEF Prepare, JobType, Stages
  <2>2. ASSUME NEW w \in Worker, FailUnsupported(w) \/ RecordReceipt(w) \/ Abandon(w) PROVE Rest'
    BY <2>2 DEF FailUnsupported, RecordReceipt, Abandon, Ends, Stages
  <2>3. ASSUME NEW w \in Worker, Begin(w) \/ ReceiveReceipt(w) PROVE Rest'
    BY <2>3 DEF Begin, ReceiveReceipt, MovesTo, Stages
  <2>4. ASSUME NEW w \in Worker, CallAdapter(w) PROVE Rest'
    <3>1. job[w].msg \in Message /\ job[w].attempt \in Attempt
      BY <2>4 DEF CallAdapter, JobType, Stages
    <3>2. calls[job[w].msg] \in [Attempt -> Nat]
      BY <3>1
    <3>3. calls' \in [Message -> [Attempt -> Nat]]
      BY <2>4, <3>1, <3>2 DEF CallAdapter
    <3> QED
      BY <2>4, <3>3 DEF CallAdapter, MovesTo, Stages
  <2> QED
    BY <1>2, <2>1, <2>2, <2>3, <2>4 DEF WorkerNext
<1>3. CASE HarnessNext
  <2>1. ASSUME NEW m \in Message, NEW a \in Attempt, HarnessPerforms(m, a) PROVE Rest'
    <3>1. Append(effects[m], a) \in Seq(Attempt)
      OBVIOUS
    <3> QED
      BY <2>1, <3>1 DEF HarnessPerforms
  <2>2. ASSUME NEW m \in Message, NEW a \in Attempt, HarnessLoses(m, a) PROVE Rest'
    BY <2>2 DEF HarnessLoses
  <2> QED
    BY <1>3, <2>1, <2>2 DEF HarnessNext
<1>4. ASSUME UNCHANGED dispatch_vars PROVE Rest'
  BY <1>4 DEF dispatch_vars
<1> QED
  BY <1>2, <1>3, <1>4 DEF DNext, OthersNext, Reconcile

(***************************************************************************)
(* The inductive invariant of one message.                                 *)
(***************************************************************************)

\* The durable record of a started attempt, and the single token that goes from
\* a begun worker to a call to an effect.
Covered(m) == \A a \in Attempt : Started(m, a) =>
  /\ a = submission[m].attempt
  /\ submission[m].state \in {"outcome-unknown", "receipt-recorded", "manual-reconciliation"}

BegunOn(w, m) == pc[w] = "begun" /\ job[w].msg = m

OneToken(m) ==
  /\ \A a \in Attempt : calls[m][a] > 0 => calls[m][a] = 1 /\ effects[m] = <<>>
  /\ effects[m] # <<>> => \E a \in Attempt : effects[m] = <<a>>
  /\ \A w \in Worker : BegunOn(w, m) =>
       /\ effects[m] = <<>>
       /\ \A a \in Attempt : calls[m][a] = 0
       /\ \A v \in Worker : BegunOn(v, m) => v = w

Answered(m) == \A w \in Worker :
  pc[w] = "received" /\ job[w].msg = m => Happened(m, job[w].attempt)

DMessageInv(m) == Covered(m) /\ OneToken(m) /\ Answered(m)

DInv == IInv /\ DTypeOK /\ \A m \in Message : DMessageInv(m)

LEMMA DInvInit == DInit => DInv
<1>1. ASSUME DInit, NEW m \in Message PROVE DMessageInv(m)
  BY <1>1
     DEF DInit, DMessageInv, Covered, OneToken, Answered, Started, Happened, BegunOn
<1> QED
  BY <1>1, InvInit, DTypeInit DEF DInv, DInit

\* A message none of whose attempts is in a state that may have an effect.
LEMMA NothingStarted ==
  ASSUME DInv, NEW m \in Message,
         submission[m].state \notin {"outcome-unknown", "receipt-recorded", "manual-reconciliation"}
  PROVE  /\ \A a \in Attempt : calls[m][a] = 0 /\ ~Happened(m, a)
         /\ effects[m] = <<>>
         /\ \A w \in Worker : ~BegunOn(w, m)
<1> DMessageInv(m) /\ DTypeOK
  BY DEF DInv
<1>1. \A a \in Attempt : ~Started(m, a)
  BY DEF DMessageInv, Covered
<1>2. \A a \in Attempt : calls[m][a] = 0 /\ ~Happened(m, a)
  BY <1>1 DEF Started, DTypeOK
<1>3. effects[m] = <<>>
  <2>1. ASSUME NEW a \in Attempt, effects[m] = <<a>> PROVE FALSE
    BY <1>2, <2>1 DEF Happened
  <2> QED
    BY <2>1 DEF DMessageInv, OneToken
<1>4. \A w \in Worker : ~BegunOn(w, m)
  BY <1>1, DispatchTypes DEF Started, BegunOn
<1> QED
  BY <1>2, <1>3, <1>4

\* Steps that change neither the attempt of a message nor what was made of it.
LEMMA MessageAtRest ==
  ASSUME DInv, NEW m \in Message, UNCHANGED <<calls, effects>>,
         submission'[m].attempt = submission[m].attempt,
         submission'[m].state = submission[m].state
           \/ submission'[m].state \in {"outcome-unknown", "receipt-recorded", "manual-reconciliation"},
         \A w \in Worker : (pc'[w] = pc[w] /\ job'[w] = job[w]) \/ pc'[w] \notin {"begun", "received"}
  PROVE  DMessageInv(m)'
BY DEF DInv, DMessageInv, Covered, OneToken, Answered, Started, Happened, BegunOn

\* A fresh or repeated preparation.
LEMMA PrepareInv ==
  ASSUME DInv, NEW w \in Worker, NEW n \in Message, NEW rev \in Revisions(n),
         Prepare(w, n, rev), NEW m \in Message
  PROVE  DMessageInv(m)'
<1>1. \A v \in Worker : (pc'[v] = pc[v] /\ job'[v] = job[v]) \/ pc'[v] = "prepared"
  BY DEF Prepare, DInv, DTypeOK
<1>2. UNCHANGED <<calls, effects>>
  BY DEF Prepare
<1>3. CASE submission'[m] = submission[m]
  BY <1>1, <1>2, <1>3, MessageAtRest
<1>4. CASE submission'[m] # submission[m]
  <2>1. submission[m].state \notin {"outcome-unknown", "receipt-recorded", "manual-reconciliation"}
    BY <1>4 DEF Prepare, PrepareAdapterSubmission, ReplayPrepared, vars, DInv, DTypeOK, TypeOK
  <2>2. /\ \A a \in Attempt : calls[m][a] = 0 /\ ~Happened(m, a)
        /\ effects[m] = <<>>
        /\ \A v \in Worker : ~BegunOn(v, m)
    BY <2>1, NothingStarted
  <2>3. \A v \in Worker : ~BegunOn(v, m)'
    BY <1>1, <2>2 DEF BegunOn
  <2>4. \A a \in Attempt : ~Started(m, a)'
    BY <1>2, <2>2, <2>3 DEF Started, Happened, BegunOn
  <2>5. Answered(m)'
    BY <1>1, <1>2 DEF Answered, Happened, DInv, DMessageInv
  <2> QED
    BY <1>2, <2>2, <2>3, <2>4, <2>5 DEF DMessageInv, Covered, OneToken
<1> QED
  BY <1>3, <1>4

\* The one step that lets an effect begin: the attempt was only prepared, so no
\* other worker is past this point.
LEMMA BeginInv ==
  ASSUME DInv, NEW w \in Worker, Begin(w), NEW m \in Message
  PROVE  DMessageInv(m)'
<1> USE DEF Begin, MovesTo
<1>0. job[w].msg \in Message /\ job[w].attempt \in Attempt /\ DTypeOK /\ DMessageInv(m)
  BY DispatchTypes DEF DInv
<1>1. pc' = [pc EXCEPT ![w] = "begun"] /\ UNCHANGED <<job, calls, effects>>
  OBVIOUS
<1>2. CASE m # job[w].msg
  <2>1. submission'[m] = submission[m]
    BY <1>2, <1>0 DEF BeginAdapterSubmission, DTypeOK, TypeOK
  <2>2. \A v \in Worker : BegunOn(v, m)' <=> BegunOn(v, m)
    BY <1>1, <1>2, <1>0 DEF BegunOn, DTypeOK
  <2>3. \A a \in Attempt : Started(m, a)' => Started(m, a)
    BY <1>1, <1>2, <1>0 DEF Started, Happened, DTypeOK
  <2>4. Answered(m)'
    BY <1>0, <1>1 DEF Answered, Happened, DMessageInv, DTypeOK
  <2> QED
    BY <1>0, <1>1, <2>1, <2>2, <2>3, <2>4 DEF DMessageInv, Covered, OneToken
<1>3. CASE m = job[w].msg
  <2>1. /\ submission[m].state = "prepared"
        /\ submission[m].attempt = job[w].attempt
        /\ submission'[m].state = "outcome-unknown"
        /\ submission'[m].attempt = submission[m].attempt
    BY <1>3, <1>0 DEF BeginAdapterSubmission, DTypeOK, TypeOK, SubmissionType
  <2>2. /\ \A a \in Attempt : calls[m][a] = 0 /\ ~Happened(m, a)
        /\ effects[m] = <<>>
        /\ \A v \in Worker : ~BegunOn(v, m)
    BY <2>1, NothingStarted
  <2>3. \A v \in Worker : BegunOn(v, m)' => v = w
    BY <1>1, <2>2 DEF BegunOn, DTypeOK
  <2>4. \A a \in Attempt : Started(m, a)' => a = job[w].attempt
    BY <1>1, <2>2, <2>3 DEF Started, Happened, BegunOn
  <2>5. Answered(m)'
    BY <1>0, <1>1 DEF Answered, Happened, DMessageInv, DTypeOK
  <2> QED
    BY <1>1, <2>1, <2>2, <2>3, <2>4, <2>5 DEF DMessageInv, Covered, OneToken
<1> QED
  BY <1>2, <1>3

LEMMA CallInv ==
  ASSUME DInv, NEW w \in Worker, CallAdapter(w), NEW m \in Message
  PROVE  DMessageInv(m)'
<1> USE DEF CallAdapter, MovesTo
<1>0. job[w].msg \in Message /\ job[w].attempt \in Attempt /\ DTypeOK /\ DMessageInv(m)
  BY DispatchTypes DEF DInv
<1>1. /\ pc[w] = "begun" /\ pc' = [pc EXCEPT ![w] = "awaiting"]
      /\ UNCHANGED <<job, effects, submission>>
  BY DEF vars
<1>2. Answered(m)'
  BY <1>0, <1>1 DEF Answered, Happened, DMessageInv, DTypeOK
<1>3. CASE m # job[w].msg
  <2>1. calls'[m] = calls[m]
    BY <1>3, <1>0 DEF DTypeOK
  <2>2. \A v \in Worker : BegunOn(v, m)' <=> BegunOn(v, m)
    BY <1>1, <1>3, <1>0 DEF BegunOn, DTypeOK
  <2>3. \A a \in Attempt : Started(m, a)' => Started(m, a)
    BY <1>1, <2>1, <1>0 DEF Started, Happened, DTypeOK
  <2> QED
    BY <1>0, <1>1, <1>2, <2>1, <2>2, <2>3 DEF DMessageInv, Covered, OneToken
<1>4. CASE m = job[w].msg
  <2>1. BegunOn(w, m)
    BY <1>1, <1>4 DEF BegunOn
  <2>2. /\ effects[m] = <<>>
        /\ \A a \in Attempt : calls[m][a] = 0
        /\ \A v \in Worker : BegunOn(v, m) => v = w
    BY <1>0, <2>1 DEF DMessageInv, OneToken
  <2>3. \A a \in Attempt : calls'[m][a] = IF a = job[w].attempt THEN 1 ELSE 0
    BY <1>0, <1>4, <2>2 DEF DTypeOK
  <2>4. \A v \in Worker : ~BegunOn(v, m)'
    BY <1>1, <1>0, <2>2 DEF BegunOn, DTypeOK
  <2>5. Started(m, job[w].attempt)
    BY <1>1, <1>4 DEF Started
  <2>6. \A a \in Attempt : Started(m, a)' => a = job[w].attempt
    BY <1>1, <2>2, <2>3, <2>4 DEF Started, Happened, BegunOn
  <2>7. OneToken(m)'
    BY <1>1, <2>2, <2>3, <2>4 DEF OneToken
  <2>8. Covered(m)'
    BY <1>0, <1>1, <2>5, <2>6 DEF DMessageInv, Covered
  <2> QED
    BY <1>2, <2>7, <2>8 DEF DMessageInv
<1> QED
  BY <1>3, <1>4

LEMMA HarnessInv ==
  ASSUME DInv, HarnessNext, NEW m \in Message
  PROVE  DMessageInv(m)'
<1>1. UNCHANGED <<submission, pc, job>>
  BY DEF HarnessNext, HarnessPerforms, HarnessLoses, vars
<1>2. DTypeOK /\ DMessageInv(m)
  BY DEF DInv
<1>3. \A v \in Worker : BegunOn(v, m)' <=> BegunOn(v, m)
  BY <1>1 DEF BegunOn
<1>4. ASSUME NEW n \in Message, NEW a \in Attempt, HarnessPerforms(n, a)
      PROVE  DMessageInv(m)'
  <2>1. CASE m # n
    <3>1. calls'[m] = calls[m] /\ effects'[m] = effects[m]
      BY <1>2, <1>4, <2>1 DEF HarnessPerforms, DTypeOK
    <3> QED
      BY <1>1, <1>2, <1>3, <3>1
         DEF DMessageInv, Covered, OneToken, Answered, Started, Happened
  <2>2. CASE m = n
    <3>1. Started(m, a) /\ effects[m] = <<>> /\ calls[m][a] = 1
      BY <1>2, <1>4, <2>2 DEF HarnessPerforms, Started, DMessageInv, OneToken
    <3>2. \A v \in Worker : ~BegunOn(v, m)
      BY <1>2, <3>1 DEF DMessageInv, OneToken
    <3>3. effects'[m] = <<a>>
      BY <1>2, <1>4, <2>2, <3>1 DEF HarnessPerforms, DTypeOK
    <3>4. \A b \in Attempt : calls[m][b] > 0 => b = a
      BY <1>2, <3>1 DEF DMessageInv, Covered, Started
    <3>5. \A b \in Attempt : calls'[m][b] = 0
      BY <1>2, <1>4, <2>2, <3>1, <3>4 DEF HarnessPerforms, DTypeOK
    <3>6. \A b \in Attempt : Started(m, b)' => b = a
      BY <1>3, <3>2, <3>3, <3>5 DEF Started, Happened, BegunOn
    <3>7. Happened(m, a)'
      BY <3>3 DEF Happened
    <3>8. Answered(m)'
      BY <1>1, <1>2, <3>1 DEF Answered, DMessageInv, Happened
    <3> QED
      BY <1>1, <1>2, <1>3, <3>1, <3>2, <3>3, <3>5, <3>6, <3>8
         DEF DMessageInv, Covered, OneToken
  <2> QED
    BY <2>1, <2>2
<1>5. ASSUME NEW n \in Message, NEW a \in Attempt, HarnessLoses(n, a)
      PROVE  DMessageInv(m)'
  <2>1. \A b \in Attempt : calls'[m][b] = calls[m][b] \/ (calls[m][b] = 1 /\ calls'[m][b] = 0)
    BY <1>2, <1>5 DEF HarnessLoses, DTypeOK, DMessageInv, OneToken
  <2>2. effects' = effects
    BY <1>5 DEF HarnessLoses
  <2>3. \A b \in Attempt : Started(m, b)' => Started(m, b)
    BY <1>1, <1>2, <2>1, <2>2 DEF Started, Happened
  <2>4. \A b \in Attempt : calls[m][b] = 0 => calls'[m][b] = 0
    BY <2>1
  <2>5. \A b \in Attempt : calls'[m][b] > 0 => calls'[m][b] = calls[m][b]
    BY <2>1
  <2>6. OneToken(m)'
    BY <1>2, <1>3, <2>2, <2>4, <2>5 DEF OneToken, DMessageInv
  <2>7. Covered(m)' /\ Answered(m)'
    BY <1>1, <1>2, <2>2, <2>3 DEF DMessageInv, Covered, Answered, Happened
  <2> QED
    BY <2>6, <2>7 DEF DMessageInv
<1> QED
  BY <1>4, <1>5 DEF HarnessNext

\* A worker that learns the result, records it, gives up or fails the delivery.
LEMMA SettleInv ==
  ASSUME DInv, NEW w \in Worker, NEW m \in Message,
         ReceiveReceipt(w) \/ RecordReceipt(w) \/ Abandon(w) \/ FailUnsupported(w)
  PROVE  DMessageInv(m)'
<1>1. DTypeOK /\ DMessageInv(m)
  BY DEF DInv
<1>2. CASE ReceiveReceipt(w)
  <2>1. /\ pc[w] = "awaiting" /\ pc' = [pc EXCEPT ![w] = "received"]
        /\ UNCHANGED <<job, calls, effects, submission>>
        /\ Happened(job[w].msg, job[w].attempt)
    BY <1>2 DEF ReceiveReceipt, MovesTo, vars
  <2>2. \A v \in Worker : BegunOn(v, m)' <=> BegunOn(v, m)
    BY <1>1, <2>1 DEF BegunOn, DTypeOK
  <2>3. \A a \in Attempt : Started(m, a)' => Started(m, a)
    BY <1>1, <2>1 DEF Started, Happened, DTypeOK
  <2>4. \A v \in Worker : pc'[v] = "received" => v = w \/ pc[v] = "received"
    BY <1>1, <2>1 DEF DTypeOK
  <2>5. Answered(m)'
    BY <1>1, <2>1, <2>4 DEF Answered, Happened, DMessageInv
  <2> QED
    BY <1>1, <2>1, <2>2, <2>3, <2>5 DEF DMessageInv, Covered, OneToken
<1>3. ASSUME Ends(w)
      PROVE  \A v \in Worker : (pc'[v] = pc[v] /\ job'[v] = job[v])
                                 \/ pc'[v] \notin {"begun", "received"}
  BY <1>1, <1>3 DEF Ends, DTypeOK
<1>4. CASE RecordReceipt(w)
  <2>1. /\ submission'[m].attempt = submission[m].attempt
        /\ submission'[m].state \in {submission[m].state, "receipt-recorded"}
    BY <1>1, <1>4 DEF RecordReceipt, RecordAdapterReceipt, DTypeOK, TypeOK, SubmissionType
  <2> QED
    BY <1>3, <1>4, <2>1, MessageAtRest DEF RecordReceipt
<1>5. CASE Abandon(w) \/ FailUnsupported(w)
  <2>1. submission' = submission
    BY <1>5 DEF Abandon, FailUnsupported, FailDelivery, vars
  <2> QED
    BY <1>3, <1>5, <2>1, MessageAtRest DEF Abandon, FailUnsupported
<1> QED
  BY <1>2, <1>4, <1>5

\* A person or a recovery run resolves an attempt; declaring it not submitted is
\* sound because nothing of it is left.
LEMMA ReconcileInv ==
  ASSUME DInv, NEW n \in Message, NEW rev, Reconcile(n, rev), NEW m \in Message
  PROVE  DMessageInv(m)'
<1>0. DTypeOK /\ DMessageInv(m) /\ DMessageInv(n)
  BY DEF DInv
<1>1. UNCHANGED <<pc, job, calls, effects>>
  BY DEF Reconcile, dispatch_vars
<1>2. submission'[m].attempt = submission[m].attempt
  <2>1. PICK x : submission' = [submission EXCEPT ![n].state = x]
    <3>1. CASE \E a : RecordAdapterReceipt(n, a, rev)
      BY <3>1 DEF RecordAdapterReceipt
    <3>2. CASE \E a, r : ReconcileAdapterSubmission(n, a, rev, r)
      BY <3>2 DEF ReconcileAdapterSubmission
    <3> QED
      BY <3>1, <3>2 DEF Reconcile
  <2>2. submission[n] \in SubmissionType /\ submission \in [Message -> SubmissionType]
    BY <1>0 DEF DTypeOK, TypeOK
  <2> QED
    BY <2>1, <2>2 DEF SubmissionType
<1>3. CASE submission'[m].state \in {submission[m].state, "receipt-recorded", "manual-reconciliation"}
  BY <1>1, <1>2, <1>3, MessageAtRest
<1>4. CASE submission'[m].state \notin {submission[m].state, "receipt-recorded", "manual-reconciliation"}
  <2>1. m = n /\ NoTrace(n, submission[n].attempt)
    BY <1>0, <1>4 DEF Reconcile, RecordAdapterReceipt, ReconcileAdapterSubmission,
                     DTypeOK, TypeOK, SubmissionType
  <2>2. ~Started(m, submission[m].attempt)
    BY <1>0, <2>1 DEF NoTrace, Started, DTypeOK
  <2>3. \A a \in Attempt : ~Started(m, a)
    BY <1>0, <2>2 DEF DMessageInv, Covered
  <2>4. \A a \in Attempt : ~Started(m, a)'
    BY <1>1, <2>3 DEF Started, Happened
  <2>5. OneToken(m)' /\ Answered(m)'
    BY <1>0, <1>1 DEF DMessageInv, OneToken, Answered, Happened, BegunOn
  <2> QED
    BY <2>4, <2>5 DEF DMessageInv, Covered
<1> QED
  BY <1>3, <1>4

LEMMA OthersKeepSubmissions ==
  ASSUME RegistryNext \/ MailNext \/ AdmissionNext \/ MaintenanceNext
  PROVE  submission' = submission
<1>1. CASE RegistryNext
  BY <1>1 DEF RegistryNext, InstallGrant, RevokeGrant, delivery_vars
<1>2. CASE MailNext
  BY <1>2 DEF MailNext, Submit, ClaimPending, FailDelivery, Respond, AcknowledgePending
<1>3. CASE AdmissionNext
  BY <1>3 DEF AdmissionNext, PrepareContextAdmission, ConfirmContextAdmission
<1>4. CASE MaintenanceNext
  BY <1>4 DEF MaintenanceNext, VerificationNext, RetentionNext, SatisfyDependency, Verifies,
              ExpireDueMessages, PurgeSensitiveContent
<1> QED
  BY <1>1, <1>2, <1>3, <1>4

LEMMA OthersInv ==
  ASSUME DInv, OthersNext, NEW m \in Message
  PROVE  DMessageInv(m)'
BY OthersKeepSubmissions, MessageAtRest DEF OthersNext, dispatch_vars

LEMMA DInvStep == ASSUME DInv, [DNext]_dvars PROVE DInv'
<1>1. CASE DNext
  <2>1. IInv' /\ DTypeOK'
    BY <1>1, StepIsCoordinator, CoordinatorStep, DTypeStep DEF DInv
  <2>2. ASSUME NEW m \in Message PROVE DMessageInv(m)'
    <3>1. CASE WorkerNext
      BY <3>1, PrepareInv, BeginInv, CallInv, SettleInv DEF WorkerNext
    <3> QED
      BY <1>1, <3>1, HarnessInv, OthersInv, ReconcileInv DEF DNext
  <2> QED
    BY <2>1, <2>2 DEF DInv
<1>2. CASE UNCHANGED dvars
  <2>1. IInv'
    BY <1>2, CoordinatorStep DEF dvars, DInv
  <2>2. DTypeOK'
    BY <1>2, <2>1 DEF dvars, dispatch_vars, DInv, DTypeOK, IInv
  <2>3. ASSUME NEW m \in Message PROVE DMessageInv(m)'
    BY <1>2, MessageAtRest DEF dvars, dispatch_vars, vars
  <2> QED
    BY <2>1, <2>2, <2>3 DEF DInv
<1> QED
  BY <1>1, <1>2

(***************************************************************************)
(* Theorems.                                                               *)
(***************************************************************************)

\* The inductive invariant holds: every attempt that may have an effect has its
\* durable record, and one token at most stands for it.
THEOREM DInductive == DSpec => []DInv
<1>1. DInit => DInv
  BY DInvInit
<1>2. DInv /\ [DNext]_dvars => DInv'
  BY DInvStep
<1> QED
  BY <1>1, <1>2, PTL DEF DSpec

\* Workers, harness and reconciliation only use the coordinator's operations as
\* Coordinator describes them, so what holds of Spec holds of the composition.
THEOREM ComposesCoordinator == DSpec => Spec
<1>1. DInit => Init
  BY DEF DInit
<1>2. DInv /\ [DNext]_dvars => [Next]_vars
  BY StepIsCoordinator DEF DInv, dvars
<1> QED
  BY <1>1, <1>2, DInductive, PTL DEF DSpec, Spec

\* An effect that took place or may still belongs to the latest attempt, whose
\* record says so, wherever workers of dispatch() stop.
THEOREM EffectsCovered == DSpec => []EffectCovered
<1>1. DInv => EffectCovered
  BY DEF DInv, DMessageInv, Covered, EffectCovered
<1> QED
  BY <1>1, DInductive, PTL

\* What failDelivery and expireDueMessages declare dead had no effect and has no
\* call on its way, except after manual reconciliation.
THEOREM DenialsTrue == DSpec => []DenialIsTrue
<1>1. DInv => (UnknownNotRelabelled /\ ReceiptMatchesDelivery => DenialIsTrue)
  <2>1. ASSUME DInv, UnknownNotRelabelled, ReceiptMatchesDelivery, NEW m \in Message,
               disp[m].delivery \in {"failed", "expired"},
               submission[m].state # "manual-reconciliation",
               NEW a \in Attempt, Started(m, a)
        PROVE  FALSE
    <3>1. submission[m].state \in {"outcome-unknown", "receipt-recorded"}
      BY <2>1 DEF DInv, DMessageInv, Covered
    <3> QED
      BY <2>1, <3>1 DEF UnknownNotRelabelled, ReceiptMatchesDelivery, NonTerminalDelivery
  <2> QED
    BY <2>1 DEF DenialIsTrue
<1> QED
  BY <1>1, DInductive, ComposesCoordinator, UnknownNotRelabelledHolds,
     ReceiptMatchesDeliveryHolds, PTL

\* What the tables say of an effect is true, wherever a worker stops.
THEOREM EffectsAreKnown == DSpec => []EffectsKnown
<1>1. DInv => DTypeOK
  BY DEF DInv
<1>2. DTypeOK /\ EffectCovered /\ DenialIsTrue => EffectsKnown
  BY DEF EffectsKnown
<1> QED
  BY <1>1, <1>2, DInductive, EffectsCovered, DenialsTrue, PTL

(***************************************************************************)
(* The refinement.                                                         *)
(***************************************************************************)
Receipted == {m \in Message : submission[m].state = "receipt-recorded"}

LEMMA ReceiptStep ==
  ASSUME DInv, NEW n \in Message, NEW a \in Attempt, NEW rev,
         Happened(n, a), RecordAdapterReceipt(n, a, rev), UNCHANGED effects
  PROVE  Promise!Receipt(n)
<1>1. effects[n] # <<>>
  BY DEF Happened
<1>2. Receipted' = Receipted \cup {n}
  BY DEF Receipted, RecordAdapterReceipt, DInv, DTypeOK, TypeOK, SubmissionType
<1> QED
  BY <1>1, <1>2 DEF Promise!Receipt, Receipted

\* A step on one record that neither sets nor clears "receipt-recorded".
LEMMA SameReceipts ==
  ASSUME DInv, UNCHANGED effects, NEW n \in Message,
         \A m \in Message \ {n} : submission'[m] = submission[m],
         submission[n].state # "receipt-recorded",
         submission'[n].state # "receipt-recorded"
  PROVE  UNCHANGED <<effects, Receipted>>
BY DEF Receipted

LEMMA StepRefines ==
  ASSUME DInv, [DNext]_dvars
  PROVE  Promise!Next \/ UNCHANGED <<effects, Receipted>>
<1>0. DTypeOK /\ TypeOK
  BY DEF DInv, DTypeOK
<1>1. ASSUME UNCHANGED <<submission, effects>> PROVE UNCHANGED <<effects, Receipted>>
  BY <1>1 DEF Receipted
<1>2. CASE UNCHANGED dvars
  BY <1>1, <1>2 DEF dvars, vars, dispatch_vars
<1>3. CASE HarnessNext
  <2>1. submission' = submission
    BY <1>3 DEF HarnessNext, HarnessPerforms, HarnessLoses, vars
  <2>2. ASSUME NEW m \in Message, NEW a \in Attempt, HarnessPerforms(m, a)
        PROVE  Promise!Effect(m)
    <3>1. effects[m] = <<>>
      BY <2>2 DEF HarnessPerforms, DInv, DMessageInv, OneToken
    <3>2. Append(effects[m], a) = <<a>>
      BY <3>1
    <3> QED
      BY <1>0, <2>1, <2>2, <3>1, <3>2 DEF HarnessPerforms, DTypeOK, Promise!Effect
  <2>3. ASSUME NEW m \in Message, NEW a \in Attempt, HarnessLoses(m, a)
        PROVE  UNCHANGED <<effects, Receipted>>
    BY <1>1, <2>1, <2>3 DEF HarnessLoses
  <2> QED
    BY <1>3, <2>2, <2>3 DEF HarnessNext, Promise!Next
<1>4. CASE WorkerNext
  <2>1. ASSUME NEW w \in Worker, NEW m \in Message, NEW rev \in Revisions(m), Prepare(w, m, rev)
        PROVE  UNCHANGED <<effects, Receipted>>
    <3>1. CASE submission' = submission
      BY <1>1, <2>1, <3>1 DEF Prepare
    <3>2. CASE PrepareAdapterSubmission(m, rev)
      BY <1>0, <2>1, <3>2, SameReceipts DEF Prepare, PrepareAdapterSubmission, TypeOK
    <3> QED
      BY <2>1, <3>1, <3>2 DEF Prepare, ReplayPrepared, vars
  <2>2. ASSUME NEW w \in Worker, Begin(w) PROVE UNCHANGED <<effects, Receipted>>
    <3>1. job[w].msg \in Message
      BY <1>0, <2>2, DispatchTypes DEF Begin
    <3> QED
      BY <1>0, <2>2, <3>1, SameReceipts DEF Begin, BeginAdapterSubmission, TypeOK, SubmissionType
  <2>3. ASSUME NEW w \in Worker, RecordReceipt(w) PROVE Promise!Next
    <3>1. job[w].msg \in Message /\ job[w].attempt \in Attempt /\ job[w].rev \in Nat
      BY <1>0, <2>3, DispatchTypes DEF RecordReceipt, JobType
    <3>2. Happened(job[w].msg, job[w].attempt)
      BY <2>3, <3>1 DEF RecordReceipt, DInv, DMessageInv, Answered
    <3>3. RecordAdapterReceipt(job[w].msg, job[w].attempt, job[w].rev) /\ UNCHANGED effects
      BY <2>3 DEF RecordReceipt
    <3>4. PICK n \in Message, a \in Attempt, rev \in Nat :
              n = job[w].msg /\ a = job[w].attempt /\ rev = job[w].rev
      BY <3>1
    <3>5. Happened(n, a) /\ RecordAdapterReceipt(n, a, rev)
      BY <3>2, <3>3, <3>4
    <3> QED
      BY <3>3, <3>5, ReceiptStep DEF Promise!Next
  <2>4. ASSUME NEW w \in Worker,
               FailUnsupported(w) \/ CallAdapter(w) \/ ReceiveReceipt(w) \/ Abandon(w)
        PROVE  UNCHANGED <<effects, Receipted>>
    BY <1>1, <2>4 DEF FailUnsupported, FailDelivery, CallAdapter, ReceiveReceipt, Abandon, vars
  <2> QED
    BY <1>4, <2>1, <2>2, <2>3, <2>4 DEF WorkerNext
<1>5. CASE OthersNext
  BY <1>1, <1>5, OthersKeepSubmissions DEF OthersNext, dispatch_vars
<1>6. ASSUME NEW m \in Message, NEW rev \in Revisions(m), Reconcile(m, rev)
      PROVE  Promise!Next \/ UNCHANGED <<effects, Receipted>>
  <2> DEFINE a == submission[m].attempt
  <2>1. UNCHANGED effects
    BY <1>6 DEF Reconcile, dispatch_vars
  <2>2. CASE Happened(m, a) /\ RecordAdapterReceipt(m, a, rev)
    <3>1. a \in Attempt
      BY <1>6 DEF Reconcile, DInv, IInv, MessageInv, RefKept, Attempt
    <3> HIDE DEF a
    <3> QED
      BY <2>1, <2>2, <3>1, ReceiptStep DEF Promise!Next
  <2>3. ASSUME NEW r, ReconcileAdapterSubmission(m, a, rev, r)
        PROVE  UNCHANGED <<effects, Receipted>>
    BY <1>0, <2>1, <2>3, SameReceipts DEF ReconcileAdapterSubmission, TypeOK, SubmissionType
  <2> QED
    BY <1>6, <2>2, <2>3 DEF Reconcile
<1> QED
  BY <1>2, <1>3, <1>4, <1>5, <1>6 DEF DNext

\* dispatch() implements the abstract promise for any number of workers and
\* attempts: one effect at most for each message, and a receipt only for an
\* effect that took place.
THEOREM ImplementsAtMostOnce == DSpec => AtMostOnce
<1>1. DInit => Promise!Init
  BY DEF DInit, Init, Promise!Init
<1>2. DInv /\ [DNext]_dvars => [Promise!Next]_<<effects, Receipted>>
  BY StepRefines
<1>3. DInv /\ [DNext]_dvars
        => [Promise!Next]_<<effects, {m \in Message : submission[m].state = "receipt-recorded"}>>
  BY <1>2 DEF Receipted
<1> QED
  BY <1>1, <1>3, DInductive, PTL DEF DSpec, AtMostOnce, Promise!Spec
=============================================================================
