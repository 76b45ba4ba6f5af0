----------------------------- MODULE Dispatcher -----------------------------
(***************************************************************************)
(* src/dispatcher/durable-dispatcher.mjs composed with the coordinator and *)
(* the native harness behind an adapter.                                   *)
(*                                                                         *)
(* A worker is one call of dispatch(): several may run at once, in several  *)
(* processes on one database, and each may stop between any two steps.  The *)
(* harness is external: it performs a call it received or loses it, at any  *)
(* later time.  A worker that goes back to "idle" without a receipt stands  *)
(* for a crash, a refused coordinator call, an adapter that threw or timed  *)
(* out, and a malformed or lost answer; dispatch() treats them alike.       *)
(***************************************************************************)
EXTENDS Coordinator, Sequences

CONSTANTS
  Worker,     \* concurrent dispatch() calls
  NoJob,      \* what an idle worker works on
  Supports    \* pairs <<worker, reference>>: a registered adapter takes it

VARIABLES
  pc,       \* where each worker is
  job,      \* the submission it works on, as prepare returned it
  calls,    \* adapter calls the harness has not acted on, per attempt
  effects   \* attempts whose native effect took place, in order

dispatch_vars == <<pc, job, calls, effects>>
dvars == <<vars, dispatch_vars>>

Attempt == 1..MaxAttempt
Stages == {"idle", "prepared", "begun", "awaiting", "received"}
JobType == [msg : Message, attempt : Attempt, rev : Nat, ref : AdapterRef \cup {NoRef}]

DInit ==
  /\ Init
  /\ pc = [w \in Worker |-> "idle"]
  /\ job = [w \in Worker |-> NoJob]
  /\ calls = [m \in Message |-> [a \in Attempt |-> 0]]
  /\ effects = [m \in Message |-> <<>>]

MovesTo(w, stage) == pc' = [pc EXCEPT ![w] = stage] /\ UNCHANGED job

\* dispatch() returns, or its process is gone.
Ends(w) == pc' = [pc EXCEPT ![w] = "idle"] /\ job' = [job EXCEPT ![w] = NoJob]

\* Prepare is asked again for an attempt that is already prepared and answers
\* with it, after the same checks.
ReplayPrepared(m, rev) ==
  /\ submission[m].state = "prepared"
  /\ submission[m].rev = rev
  /\ CurrentlyAuthorized(m)
  /\ ~Due(m)
  /\ AdapterSubmissionState(m, rev)
  /\ Target(m).ref # NoRef
  /\ UNCHANGED vars

\* The reference is the receiver's current one, not the one the attempt was
\* prepared with.  In any other state dispatch() returns without a step.
Prepare(w, m, rev) ==
  /\ pc[w] = "idle"
  /\ PrepareAdapterSubmission(m, rev) \/ ReplayPrepared(m, rev)
  /\ job' = [job EXCEPT ![w] =
       [msg |-> m, attempt |-> submission'[m].attempt, rev |-> rev, ref |-> Target(m).ref]]
  /\ pc' = [pc EXCEPT ![w] = "prepared"]
  /\ UNCHANGED <<calls, effects>>

FailUnsupported(w) ==
  /\ pc[w] = "prepared"
  /\ <<w, job[w].ref>> \notin Supports
  /\ FailDelivery(job[w].msg, job[w].rev)
  /\ Ends(w)
  /\ UNCHANGED <<calls, effects>>

\* Mutant: takes the replayed answer of an earlier begin for permission.
Begin_Replay(w) ==
  /\ pc[w] = "prepared"
  /\ <<w, job[w].ref>> \in Supports
  /\ \/ BeginAdapterSubmission(job[w].msg, job[w].attempt, job[w].rev)
     \/ /\ submission[job[w].msg].state = "outcome-unknown"
        /\ submission[job[w].msg].attempt = job[w].attempt
        /\ UNCHANGED vars
  /\ MovesTo(w, "begun")
  /\ UNCHANGED <<calls, effects>>

\* A replay answer of begin, which finds "outcome-unknown", ends the dispatch.
Begin(w) ==
  /\ pc[w] = "prepared"
  /\ <<w, job[w].ref>> \in Supports
  /\ BeginAdapterSubmission(job[w].msg, job[w].attempt, job[w].rev)
  /\ MovesTo(w, "begun")
  /\ UNCHANGED <<calls, effects>>

\* Mutant: calls the adapter before the begin is on record.
CallAdapter_Prepared(w) ==
  /\ pc[w] \in {"prepared", "begun"}
  /\ calls' = [calls EXCEPT ![job[w].msg][job[w].attempt] = @ + 1]
  /\ MovesTo(w, "awaiting")
  /\ UNCHANGED <<vars, effects>>

CallAdapter(w) ==
  /\ pc[w] = "begun"
  /\ calls' = [calls EXCEPT ![job[w].msg][job[w].attempt] = @ + 1]
  /\ MovesTo(w, "awaiting")
  /\ UNCHANGED <<vars, effects>>

Happened(m, a) == \E k \in 1..Len(effects[m]) : effects[m][k] = a

\* The adapter resolves only with what the harness acknowledged.
ReceiveReceipt(w) ==
  /\ pc[w] = "awaiting"
  /\ Happened(job[w].msg, job[w].attempt)
  /\ MovesTo(w, "received")
  /\ UNCHANGED <<vars, calls, effects>>

RecordReceipt(w) ==
  /\ pc[w] = "received"
  /\ RecordAdapterReceipt(job[w].msg, job[w].attempt, job[w].rev)
  /\ Ends(w)
  /\ UNCHANGED <<calls, effects>>

Abandon(w) ==
  /\ pc[w] # "idle"
  /\ Ends(w)
  /\ UNCHANGED <<vars, calls, effects>>

(***************************************************************************)
(* The harness.                                                            *)
(***************************************************************************)
HarnessPerforms(m, a) ==
  /\ calls[m][a] > 0
  /\ calls' = [calls EXCEPT ![m][a] = @ - 1]
  /\ effects' = [effects EXCEPT ![m] = Append(@, a)]
  /\ UNCHANGED <<vars, pc, job>>

HarnessLoses(m, a) ==
  /\ calls[m][a] > 0
  /\ calls' = [calls EXCEPT ![m][a] = @ - 1]
  /\ UNCHANGED <<vars, pc, job, effects>>

(***************************************************************************)
(* Reconciliation, which may come while a worker still waits.  Its evidence *)
(* is true: a submission is confirmed only when its effect took place, and  *)
(* ruled out only when nothing can bring it about any more.                 *)
(***************************************************************************)
NoTrace(m, a) ==
  /\ ~Happened(m, a)
  /\ calls[m][a] = 0
  /\ \A w \in Worker : pc[w] = "begun" => job[w].msg # m \/ job[w].attempt # a

Reconcile(m, rev) ==
  LET a == submission[m].attempt IN
  /\ submission[m].state = "outcome-unknown"
  /\ \/ Happened(m, a) /\ RecordAdapterReceipt(m, a, rev)
     \/ NoTrace(m, a) /\ ReconcileAdapterSubmission(m, a, rev, "confirmed-not-submitted")
     \/ ReconcileAdapterSubmission(m, a, rev, "manual-reconciliation")
  /\ UNCHANGED dispatch_vars

WorkerNext ==
  \E w \in Worker :
    \/ \E m \in Message : \E rev \in Revisions(m) : Prepare(w, m, rev)
    \/ FailUnsupported(w)
    \/ Begin(w)
    \/ CallAdapter(w)
    \/ ReceiveReceipt(w)
    \/ RecordReceipt(w)
    \/ Abandon(w)

HarnessNext ==
  \E m \in Message, a \in Attempt : HarnessPerforms(m, a) \/ HarnessLoses(m, a)

\* Everybody else the coordinator serves.
OthersNext ==
  /\ RegistryNext \/ MailNext \/ AdmissionNext \/ MaintenanceNext
  /\ UNCHANGED dispatch_vars

DNext ==
  \/ WorkerNext
  \/ HarnessNext
  \/ OthersNext
  \/ \E m \in Message : \E rev \in Revisions(m) : Reconcile(m, rev)

DSpec == DInit /\ [][DNext]_dvars

(***************************************************************************)
(* Properties.                                                             *)
(***************************************************************************)
DTypeOK ==
  /\ TypeOK
  /\ pc \in [Worker -> Stages]
  /\ job \in [Worker -> JobType \cup {NoJob}]
  /\ \A w \in Worker : pc[w] # "idle" => job[w] \in JobType
  /\ calls \in [Message -> [Attempt -> Nat]]
  /\ effects \in [Message -> Seq(Attempt)]

Started(m, a) ==
  \/ calls[m][a] > 0
  \/ Happened(m, a)
  \/ \E w \in Worker : pc[w] = "begun" /\ job[w].msg = m /\ job[w].attempt = a

\* An effect that took place, or still may, always has its durable record: it
\* belongs to the message's latest attempt, and that attempt is neither called
\* unsubmitted nor replaced, wherever workers stop.
EffectCovered ==
  \A m \in Message, a \in Attempt : Started(m, a) =>
    /\ a = submission[m].attempt
    /\ submission[m].state \in {"outcome-unknown", "receipt-recorded", "manual-reconciliation"}

\* A message that is declared failed or expired had no effect and will have none,
\* unless its attempt was handed to a person.
DenialIsTrue ==
  \A m \in Message :
    /\ disp[m].delivery \in {"failed", "expired"}
    /\ submission[m].state # "manual-reconciliation"
    => \A a \in Attempt : ~Started(m, a)

\* What the tables say of an effect is true: both of the above.
EffectsKnown == DTypeOK /\ EffectCovered /\ DenialIsTrue

\* The dispatcher implements the abstract promise: at most one effect for each
\* message, whatever is retried, replayed, raced or reconciled, and no receipt
\* without one.
Promise == INSTANCE AtMostOnceEffect WITH
  receipted <- {m \in Message : submission[m].state = "receipt-recorded"}

AtMostOnce == Promise!Spec
=============================================================================
