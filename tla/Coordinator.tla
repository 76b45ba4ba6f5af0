----------------------------- MODULE Coordinator -----------------------------
(***************************************************************************)
(* The message-delivery core of src/coordinator/sqlite-coordinator.mjs.    *)
(*                                                                         *)
(* Every mutating method of the class runs in one immediate SQLite          *)
(* transaction, so an action below is one whole call: it is enabled exactly *)
(* when the call succeeds and changes a row.  A call that throws is rolled  *)
(* back, and a replay writes nothing; both are stuttering steps.  The       *)
(* arguments a caller may get wrong or hold too long (expected revision,    *)
(* claim token, submission id) are parameters.  Callers are identified by   *)
(* the transport; the authenticated principal an operation insists on is    *)
(* the caller the action stands for.                                        *)
(*                                                                         *)
(* The static content of envelopes and grants is given by constants; the    *)
(* variables hold what the operations change.                               *)
(***************************************************************************)
EXTENDS TaskRegistry, FiniteSets, Dispositions, RelationshipPolicy

CONSTANTS
  ContextRef,    \* the adapter references assertContextAdapterRef takes
  Grant,         \* grant identities
  GrantOf,       \* the immutable content of each grant
  NoGrant,       \* the binding of a message that was never submitted
  Message,       \* message identities, scoped to their sender
  Envelope,      \* the immutable envelope of each message
  ClaimWindow,   \* how long a mailbox claim lasts
  MaxAttempt,    \* bound on the submission records created for a message
  MaxClaim       \* bound on the mailbox claim tokens issued for a message

EnvelopeType ==
  [relationship : STRING, source : Incarnation, target : Incarnation,
   intent : {"notify", "suggest", "steer", "interrupt"},
   mode : STRING, fresh : SUBSET Runtime, expires : Nat]

GrantType ==
  [relationship : STRING, source : Incarnation, target : Incarnation,
   version : Nat, type : STRING, intents : SUBSET STRING,
   modes : SUBSET STRING, expires : Nat]

ASSUME EnvelopeAssumption == Envelope \in [Message -> EnvelopeType]

ASSUME GrantAssumption == DOMAIN GrantOf = Grant /\
  \A g \in Grant : /\ GrantOf[g].source \in Incarnation
                   /\ GrantOf[g].target \in Incarnation
                   /\ GrantOf[g].version \in Nat
                   /\ GrantOf[g].expires \in Nat

ASSUME NoGrantAssumption == NoGrant \notin Grant

ASSUME ContextRefAssumption == ContextRef \subseteq AdapterRef

ASSUME BoundAssumption ==
  /\ ClaimWindow \in Nat \ {0}
  /\ MaxAttempt \in Nat
  /\ MaxClaim \in Nat

VARIABLES
  grant,       \* table grants: presence and revoked_at
  bound,       \* messages.grant_id and grant_version
  disp,        \* table dispositions
  mailbox,     \* table mailbox_claims
  admission,   \* table admission_claims
  submission,  \* table adapter_submissions
  finalized,   \* messages of git_evidence_dependency_finalizations
  purged       \* messages with content_purged_at set

vars == <<now, task, grant, bound, disp, mailbox, admission, submission, finalized, purged>>
delivery_vars == <<bound, disp, mailbox, admission, submission, finalized, purged>>

(***************************************************************************)
(* Rows.  A row that does not exist yet has state "none" ("unregistered",  *)
(* "absent"); the primary keys allow at most one row of each per message.  *)
(***************************************************************************)
DispositionType ==
  [delivery : DeliveryStates \cup {"none"}, decision : DecisionStates,
   outcome : OutcomeStates, rev : Nat]

MailboxType ==
  [state : {"none", "claimed", "acknowledged"}, token : Nat, rev : Nat, expires : Nat]

AdmissionType ==
  [state : {"none", "in-flight", "completed"}, rev : Nat, ref : AdapterRef \cup {NoRef}]

SubmissionStates ==
  {"prepared", "outcome-unknown", "receipt-recorded", "confirmed-not-submitted",
   "manual-reconciliation"}

SubmissionType ==
  [state : SubmissionStates \cup {"none"}, attempt : Nat, rev : Nat,
   ref : AdapterRef \cup {NoRef}]

Init ==
  /\ RegistryInit
  /\ grant = [g \in Grant |-> "absent"]
  /\ bound = [m \in Message |-> NoGrant]
  /\ disp = [m \in Message |->
       [delivery |-> "none", decision |-> "pending", outcome |-> "not-observed", rev |-> 0]]
  /\ mailbox = [m \in Message |-> [state |-> "none", token |-> 0, rev |-> 0, expires |-> 0]]
  /\ admission = [m \in Message |-> [state |-> "none", rev |-> 0, ref |-> NoRef]]
  /\ submission = [m \in Message |->
       [state |-> "none", attempt |-> 0, rev |-> 0, ref |-> NoRef]]
  /\ finalized = {}
  /\ purged = {}

(***************************************************************************)
(* The checks the operations share.                                        *)
(***************************************************************************)
Due(m) == Envelope[m].expires <= now
Target(m) == task[Envelope[m].target]

\* Installed grants of the directional edge an envelope names.
EdgeGrants(m) ==
  {g \in Grant : /\ grant[g] # "absent"
                 /\ GrantOf[g].relationship = Envelope[m].relationship
                 /\ GrantOf[g].source = Envelope[m].source
                 /\ GrantOf[g].target = Envelope[m].target}

\* Mutant: skips revoked grants, so that an older one resurfaces.
NewestGrant_Unrevoked(m, g) ==
  /\ g \in EdgeGrants(m)
  /\ \A h \in EdgeGrants(m) :
       grant[h] = "active" => GrantOf[h].version <= GrantOf[g].version

\* #activeGrantFor selects the highest version of the edge, revoked or not.
NewestGrant(m, g) ==
  g \in EdgeGrants(m) /\ \A h \in EdgeGrants(m) : GrantOf[h].version <= GrantOf[g].version

ActiveGrantFor(m, g) ==
  /\ NewestGrant(m, g)
  /\ PolicyAllows(Envelope[m], GrantOf[g], grant[g] = "active",
                  task[Envelope[m].source], Target(m), now)

\* #assertCurrentAuthorization: the edge's current grant is still the one the
\* message was accepted under.
CurrentlyAuthorized(m) == bound[m] \in Grant /\ ActiveGrantFor(m, bound[m])

\* Mutant: forgets the decision.
AcceptedAt_AnyDecision(m, rev) == disp[m].delivery # "none" /\ disp[m].rev = rev

AcceptedAt(m, rev) ==
  /\ disp[m].delivery # "none"
  /\ disp[m].rev = rev
  /\ disp[m].decision = "accepted"

\* #assertContextAdmissionState
ContextAdmissionState(m, rev) ==
  /\ CurrentlyAuthorized(m)
  /\ ~Due(m)
  /\ Envelope[m].intent = "suggest"
  /\ AcceptedAt(m, rev)
  /\ DeliveryMay(disp[m].delivery, "context-admitted")

\* #assertAdapterSubmissionState
AdapterSubmissionState(m, rev) ==
  AcceptedAt(m, rev) /\ DeliveryMay(disp[m].delivery, "adapter-submitted")

\* One update of a disposition row: "revision = revision + 1" and one machine.
NextRevision(d) == [d EXCEPT !.rev = @ + 1]
Delivered(d, delivery) == [NextRevision(d) EXCEPT !.delivery = delivery]
Decided(d, decision) == [NextRevision(d) EXCEPT !.decision = decision]
Observed(d, outcome) == [NextRevision(d) EXCEPT !.outcome = outcome]

\* An external attempt whose effect nobody has established.
Unresolved(m) ==
  submission[m].state \in {"outcome-unknown", "manual-reconciliation"}

(***************************************************************************)
(* Grants.                                                                 *)
(***************************************************************************)
SameEdge(g, h) ==
  /\ GrantOf[g].relationship = GrantOf[h].relationship
  /\ GrantOf[g].source = GrantOf[h].source
  /\ GrantOf[g].target = GrantOf[h].target

\* Any version not yet taken on the edge may be installed, in any order.  The
\* document may carry a "revokedAt" already, which the row takes over.
InstallGrant(g) ==
  /\ grant[g] = "absent"
  /\ \A h \in Grant : grant[h] # "absent" /\ SameEdge(g, h)
                        => GrantOf[h].version # GrantOf[g].version
  /\ task[GrantOf[g].source].status = "active"
  /\ task[GrantOf[g].target].status = "active"
  /\ \E state \in {"active", "revoked"} : grant' = [grant EXCEPT ![g] = state]
  /\ UNCHANGED <<now, task, delivery_vars>>

\* Mutant: forgets that accepted work can be queued too.
QueuedUnder_Undecided(m, g) ==
  /\ bound[m] = g
  /\ Envelope[m].intent \in StateChangingIntents
  /\ disp[m].delivery \in NonTerminalDelivery
  /\ disp[m].decision \in UndecidedStates

\* The queued state-changing work a revocation rewrites.
QueuedUnder(m, g) ==
  /\ bound[m] = g
  /\ Envelope[m].intent \in StateChangingIntents
  /\ disp[m].delivery \in NonTerminalDelivery
  /\ disp[m].decision \in UndecidedStates \cup {"accepted"}
  /\ submission[m].state \notin {"outcome-unknown", "receipt-recorded"}

RevokeGrant(g) ==
  /\ grant[g] = "active"
  /\ grant' = [grant EXCEPT ![g] = "revoked"]
  /\ disp' = [m \in Message |->
       IF QueuedUnder(m, g)
         THEN Decided(disp[m], "revoked")
         ELSE disp[m]]
  /\ UNCHANGED <<now, task, bound, mailbox, admission, submission, finalized, purged>>

(***************************************************************************)
(* Sending, and the receiver's mailbox.                                    *)
(***************************************************************************)
Submit(m) ==
  /\ disp[m].delivery = "none"
  /\ ~Due(m)
  /\ \E g \in Grant :
       /\ ActiveGrantFor(m, g)
       /\ bound' = [bound EXCEPT ![m] = g]
  /\ disp' = [disp EXCEPT ![m].delivery = "durably-received"]
  /\ UNCHANGED <<now, task, grant, mailbox, admission, submission, finalized, purged>>

LiveClaim(m) == mailbox[m].state = "claimed" /\ now < mailbox[m].expires

\* Mutant: the claim may outlive the message.
Earlier_Window(s, t) == t

Earlier(s, t) == IF s <= t THEN s ELSE t

\* A live claim is replayed and an acknowledged one refused; otherwise a new
\* token replaces whatever claim there was.
ClaimPending(m, rev) ==
  /\ disp[m].delivery # "none"
  /\ CurrentlyAuthorized(m)
  /\ ~Due(m)
  /\ disp[m].rev = rev
  /\ disp[m].decision \in UndecidedStates
  /\ ~LiveClaim(m)
  /\ mailbox[m].state # "acknowledged"
  /\ mailbox[m].token < MaxClaim
  /\ mailbox' = [mailbox EXCEPT ![m] =
       [state |-> "claimed", token |-> mailbox[m].token + 1, rev |-> rev,
        expires |-> Earlier(Envelope[m].expires, now + ClaimWindow)]]
  /\ UNCHANGED <<now, task, grant, bound, disp, admission, submission, finalized, purged>>

\* The row respond() updates: the receiver's decision under revision CAS.
Responds(m, decision, rev) ==
  /\ disp[m].delivery # "none"
  /\ decision \in {"accepted", "deferred"} => CurrentlyAuthorized(m)
  /\ decision # "expired" => ~Due(m)
  /\ disp[m].rev = rev
  /\ DecisionMay(disp[m].decision, decision)
  /\ disp' = [disp EXCEPT ![m] = Decided(@, decision)]

Respond(m, decision, rev) ==
  /\ Responds(m, decision, rev)
  /\ UNCHANGED <<now, task, grant, bound, mailbox, admission, submission, finalized, purged>>

AcknowledgePending(m, token, decision, rev) ==
  /\ mailbox[m].state = "claimed"
  /\ mailbox[m].token = token
  /\ mailbox[m].rev = rev
  /\ now < mailbox[m].expires
  /\ Responds(m, decision, rev)
  /\ mailbox' = [mailbox EXCEPT ![m].state = "acknowledged"]
  /\ UNCHANGED <<now, task, grant, bound, admission, submission, finalized, purged>>

\* "manual-reconciliation" and an in-flight admission do not stop it.
FailDelivery(m, rev) ==
  /\ disp[m].rev = rev
  /\ DeliveryMay(disp[m].delivery, "failed")
  /\ submission[m].state \notin {"outcome-unknown", "receipt-recorded"}
  /\ disp' = [disp EXCEPT ![m] = Delivered(@, "failed")]
  /\ UNCHANGED <<now, task, grant, bound, mailbox, admission, submission, finalized, purged>>

(***************************************************************************)
(* Context admission: a claim taken before the peer text is rendered, and  *)
(* its confirmation afterwards.                                            *)
(***************************************************************************)
PrepareContextAdmission(m, rev) ==
  /\ ContextAdmissionState(m, rev)
  /\ admission[m].state = "none"
  /\ Target(m).ref \in ContextRef
  /\ admission' = [admission EXCEPT ![m] =
       [state |-> "in-flight", rev |-> rev, ref |-> Target(m).ref]]
  /\ UNCHANGED <<now, task, grant, bound, disp, mailbox, submission, finalized, purged>>

OrdinaryAdmission(m) ==
  /\ AcceptedAt(m, admission[m].rev)
  /\ disp[m].delivery \in {"durably-received", "checkpoint-offered"}

\* #isProvenPreverifiedAdmission: the turn that admitted the text was already
\* submitted, receipted and verified through the git-evidence finalization.
PreverifiedAdmission(m) ==
  /\ AcceptedAt(m, admission[m].rev + 2)
  /\ disp[m].delivery = "adapter-submitted"
  /\ disp[m].outcome = "externally-verified"
  /\ m \in finalized
  /\ submission[m].state = "receipt-recorded"
  /\ submission[m].rev = admission[m].rev
  /\ submission[m].ref = admission[m].ref

\* Mutant: leaves the claim open.
ConfirmContextAdmission_Open(m, rev) ==
  /\ admission[m].state = "in-flight"
  /\ admission[m].rev = rev
  /\ OrdinaryAdmission(m)
  /\ disp' = [disp EXCEPT ![m] = Delivered(@, "context-admitted")]
  /\ UNCHANGED <<now, task, grant, bound, mailbox, admission, submission, finalized, purged>>

\* Neither the grant nor the expiry is looked at again.
ConfirmContextAdmission(m, rev) ==
  /\ admission[m].state = "in-flight"
  /\ admission[m].rev = rev
  /\ \/ /\ OrdinaryAdmission(m)
        /\ disp' = [disp EXCEPT ![m] = Delivered(@, "context-admitted")]
     \/ PreverifiedAdmission(m) /\ UNCHANGED disp
  /\ admission' = [admission EXCEPT ![m].state = "completed"]
  /\ UNCHANGED <<now, task, grant, bound, mailbox, submission, finalized, purged>>

(***************************************************************************)
(* Adapter submission: the durable record around one native effect.        *)
(* <<m, submission[m].attempt>> is the submission id; a fresh attempt gets *)
(* a new one, and calls that name an older id find no row.                 *)
(***************************************************************************)
PrepareAdapterSubmission(m, rev) ==
  /\ submission[m].state \in {"none", "confirmed-not-submitted"}
  /\ CurrentlyAuthorized(m)
  /\ ~Due(m)
  /\ AdapterSubmissionState(m, rev)
  /\ Target(m).ref # NoRef
  /\ submission[m].attempt < MaxAttempt
  /\ submission' = [submission EXCEPT ![m] =
       [state |-> "prepared", attempt |-> submission[m].attempt + 1,
        rev |-> rev, ref |-> Target(m).ref]]
  /\ UNCHANGED <<now, task, grant, bound, disp, mailbox, admission, finalized, purged>>

\* Everything the preparation checked is checked again, and the reference the
\* preparation was bound to must still be the task's.
BeginAdapterSubmission(m, attempt, rev) ==
  /\ submission[m].state = "prepared"
  /\ submission[m].attempt = attempt
  /\ submission[m].rev = rev
  /\ CurrentlyAuthorized(m)
  /\ ~Due(m)
  /\ AdapterSubmissionState(m, rev)
  /\ Target(m).ref = submission[m].ref
  /\ submission' = [submission EXCEPT ![m].state = "outcome-unknown"]
  /\ UNCHANGED <<now, task, grant, bound, disp, mailbox, admission, finalized, purged>>

\* Also what reconcileAdapterSubmission does with "confirmed-submitted".
RecordAdapterReceipt(m, attempt, rev) ==
  /\ submission[m].state = "outcome-unknown"
  /\ submission[m].attempt = attempt
  /\ submission[m].rev = rev
  /\ AdapterSubmissionState(m, rev)
  /\ disp' = [disp EXCEPT ![m] = Delivered(@, "adapter-submitted")]
  /\ submission' = [submission EXCEPT ![m].state = "receipt-recorded"]
  /\ UNCHANGED <<now, task, grant, bound, mailbox, admission, finalized, purged>>

ReconcileAdapterSubmission(m, attempt, rev, resolution) ==
  /\ resolution \in {"confirmed-not-submitted", "manual-reconciliation"}
  /\ submission[m].state = "outcome-unknown"
  /\ submission[m].attempt = attempt
  /\ submission[m].rev = rev
  /\ disp[m].rev = rev
  /\ submission' = [submission EXCEPT ![m].state = resolution]
  /\ UNCHANGED <<now, task, grant, bound, disp, mailbox, admission, finalized, purged>>

(***************************************************************************)
(* The disposition half of #satisfyDependencyEdge: a signed attestation    *)
(* upgrades the observed outcome.  viaGit distinguishes the call made by   *)
(* finalizeGitEvidenceDependency.  A lifecycle event is sent as a suggest. *)
(* The portable disposition is validated against its schema, which ties     *)
(* "externally-verified" to "adapter-submitted".  Whether the receiver, the  *)
(* dependent task, becomes ready depends on the dependency edges, which are  *)
(* not kept here: the Dependencies module decides it.                      *)
(***************************************************************************)
\* Mutant: verifies what was never submitted.
Verifies_Unsubmitted(m, viaGit) ==
  /\ Envelope[m].intent = "suggest"
  /\ disp[m].decision = "accepted"
  /\ disp[m].outcome # "externally-verified"
  /\ CurrentlyAuthorized(m)
  /\ ~Due(m)
  /\ disp' = [disp EXCEPT ![m] = Observed(@, "externally-verified")]
  /\ finalized' = IF viaGit THEN finalized \cup {m} ELSE finalized
  /\ UNCHANGED <<now, grant, bound, mailbox, admission, submission, purged>>

Verifies(m, viaGit) ==
  /\ Envelope[m].intent = "suggest"
  /\ disp[m].delivery = "adapter-submitted"
  /\ disp[m].decision = "accepted"
  /\ disp[m].outcome # "externally-verified"
  /\ CurrentlyAuthorized(m)
  /\ ~Due(m)
  /\ disp' = [disp EXCEPT ![m] = Observed(@, "externally-verified")]
  /\ finalized' = IF viaGit THEN finalized \cup {m} ELSE finalized
  /\ UNCHANGED <<now, grant, bound, mailbox, admission, submission, purged>>

SatisfyDependency(m, viaGit) ==
  /\ Verifies(m, viaGit)
  /\ Unlocks(Envelope[m].target) \/ UNCHANGED task

(***************************************************************************)
(* Maintenance.                                                            *)
(***************************************************************************)
\* Mutant: sweeps messages with an attempt of unknown outcome.
Expirable_Unknown(m) ==
  Due(m) /\ disp[m].delivery \in NonTerminalDelivery /\ admission[m].state # "in-flight"

Expirable(m) ==
  /\ Due(m)
  /\ disp[m].delivery \in NonTerminalDelivery
  /\ admission[m].state # "in-flight"
  /\ submission[m].state # "outcome-unknown"

ExpiredRow(d) ==
  [Delivered(d, "expired") EXCEPT !.decision = IF @ \in UndecidedStates THEN "expired" ELSE @]

\* A sweep takes a bounded part of the due messages, those of one owner unless
\* the policy principal asks: any part of them.
ExpireDueMessages(swept) ==
  /\ swept # {}
  /\ \A m \in swept : Expirable(m)
  /\ disp' = [m \in Message |-> IF m \in swept THEN ExpiredRow(disp[m]) ELSE disp[m]]
  /\ UNCHANGED <<now, task, grant, bound, mailbox, admission, submission, finalized, purged>>

\* Mutant: purges messages whose text is being admitted.
ContentPurgeable_InFlight(m, cutoff) ==
  /\ disp[m].delivery # "none"
  /\ m \notin purged
  /\ Envelope[m].expires <= cutoff
  /\ submission[m].state \notin {"outcome-unknown", "manual-reconciliation"}

ContentPurgeable(m, cutoff) ==
  /\ disp[m].delivery # "none"
  /\ m \notin purged
  /\ Envelope[m].expires <= cutoff
  /\ admission[m].state # "in-flight"
  /\ submission[m].state \notin {"outcome-unknown", "manual-reconciliation"}

RetiredBy(i, cutoff) == task[i].status = "retired" /\ task[i].retiredAt <= cutoff

\* Mutant: only looks at unresolved attempts.
RefPurgeable_Unresolved(i, cutoff) ==
  RetiredBy(i, cutoff) /\ \A m \in Message : Envelope[m].target = i => ~Unresolved(m)

RefPurgeable(i, cutoff) ==
  /\ RetiredBy(i, cutoff)
  /\ \A m \in Message : Envelope[m].target = i
                          => ~Unresolved(m) /\ admission[m].state # "in-flight"

AdmissionPurgeable(m, cutoff) ==
  admission[m].state = "completed" /\ RetiredBy(Envelope[m].target, cutoff)

\* One transaction over every storage class.  The instance's rows fit in one
\* bounded pass.
PurgeSensitiveContent(cutoff) ==
  /\ cutoff <= now
  /\ purged' = purged \cup {m \in Message : ContentPurgeable(m, cutoff)}
  /\ mailbox' = [m \in Message |->
       IF ContentPurgeable(m, cutoff) THEN [mailbox[m] EXCEPT !.state = "none"]
       ELSE mailbox[m]]
  /\ ForgetRefs({i \in Incarnation : RefPurgeable(i, cutoff)})
  /\ admission' = [m \in Message |->
       IF AdmissionPurgeable(m, cutoff) THEN [admission[m] EXCEPT !.ref = NoRef]
       ELSE admission[m]]
  /\ UNCHANGED <<now, grant, bound, disp, submission, finalized>>

(***************************************************************************)
(* Specification.  Expected revisions are observed ones, never ahead.      *)
(***************************************************************************)
Revisions(m) == 0..disp[m].rev
Attempts(m) == 1..submission[m].attempt
Tokens(m) == 1..mailbox[m].token

RegistryNext ==
  \/ TaskNext /\ UNCHANGED <<grant, delivery_vars>>
  \/ \E g \in Grant : InstallGrant(g) \/ RevokeGrant(g)

MailNext ==
  \E m \in Message :
    \/ Submit(m)
    \/ \E rev \in Revisions(m) :
         \/ ClaimPending(m, rev)
         \/ FailDelivery(m, rev)
         \/ \E decision \in DecisionStates \ {"pending"} :
              \/ Respond(m, decision, rev)
              \/ \E token \in Tokens(m) : AcknowledgePending(m, token, decision, rev)

AdmissionNext ==
  \E m \in Message : \E rev \in Revisions(m) :
    PrepareContextAdmission(m, rev) \/ ConfirmContextAdmission(m, rev)

SubmissionNext ==
  \E m \in Message : \E rev \in Revisions(m) :
    \/ PrepareAdapterSubmission(m, rev)
    \/ \E attempt \in Attempts(m) :
         \/ BeginAdapterSubmission(m, attempt, rev)
         \/ RecordAdapterReceipt(m, attempt, rev)
         \/ \E resolution \in SubmissionStates :
              ReconcileAdapterSubmission(m, attempt, rev, resolution)

VerificationNext ==
  \E m \in Message, viaGit \in BOOLEAN : SatisfyDependency(m, viaGit)

RetentionNext ==
  \/ \E swept \in SUBSET Message : ExpireDueMessages(swept)
  \/ \E cutoff \in 0..MaxTime : PurgeSensitiveContent(cutoff)

MaintenanceNext == VerificationNext \/ RetentionNext

Next == RegistryNext \/ MailNext \/ AdmissionNext \/ SubmissionNext \/ MaintenanceNext

Spec == Init /\ [][Next]_vars

(***************************************************************************)
(* Invariants.                                                             *)
(***************************************************************************)

\* Every row has the shape its table allows.
TypeOK ==
  /\ TaskTypeOK
  /\ grant \in [Grant -> {"absent", "active", "revoked"}]
  /\ bound \in [Message -> Grant \cup {NoGrant}]
  /\ disp \in [Message -> DispositionType]
  /\ mailbox \in [Message -> MailboxType]
  /\ admission \in [Message -> AdmissionType]
  /\ submission \in [Message -> SubmissionType]
  /\ finalized \subseteq Message
  /\ purged \subseteq Message

\* The three machines stay consistent with each other: nothing reaches the
\* receiver's model or runtime without an acceptance (which a revocation may
\* follow), and no effect is verified that was not submitted.
CrossState ==
  \A m \in Message :
    /\ disp[m].delivery \in {"context-admitted", "adapter-submitted"}
         => disp[m].decision \in {"accepted", "revoked"}
    /\ disp[m].outcome = "externally-verified" => disp[m].delivery = "adapter-submitted"

\* The submission record and the disposition tell one story: a receipt is
\* recorded exactly for the messages delivered by adapter submission, whatever
\* prepare, begin, reconcile, fail, expire and revoke calls came between.
ReceiptMatchesDelivery ==
  \A m \in Message :
    submission[m].state = "receipt-recorded" <=> disp[m].delivery = "adapter-submitted"

\* A message is in the receiver's context exactly by a completed admission
\* claim: no crash between the two halves of an admission, and no turn that was
\* verified first, leaves one table ahead of the other.
AdmissionMatchesDelivery ==
  \A m \in Message :
    /\ disp[m].delivery = "context-admitted" => admission[m].state = "completed"
    /\ admission[m].state = "completed"
         => disp[m].delivery \in {"context-admitted"} \cup TerminalDelivery

\* While an attempt may have had its effect, the message is never declared
\* delivered, failed or expired, by a sweep, a receiver or a revocation.
UnknownNotRelabelled ==
  \A m \in Message : submission[m].state = "outcome-unknown" =>
    /\ disp[m].delivery \in NonTerminalDelivery
    /\ disp[m].decision \in {"accepted", "revoked"}

\* Text that is on its way into the receiver's context is never swept away as
\* expired, so its confirmation still finds the row it needs.
AdmissionNotExpired ==
  \A m \in Message : admission[m].state = "in-flight" => disp[m].delivery # "expired"

\* Rows that belong together agree, whichever operations wrote them: the columns
\* of a disposition among themselves, and with those of an attempt or an admission.
SubmissionsAgree == TypeOK /\ CrossState /\ ReceiptMatchesDelivery
AdmissionsAgree == AdmissionMatchesDelivery /\ AdmissionNotExpired

\* Once the grant a steer or interrupt was accepted under is revoked, the
\* message no longer counts as accepted or decidable, unless its attempt had
\* started already or its delivery had ended.
RevokedWorkInvalidated ==
  \A m \in Message :
    (/\ bound[m] \in Grant
     /\ grant[bound[m]] = "revoked"
     /\ Envelope[m].intent \in StateChangingIntents
     /\ disp[m].decision \in UndecidedStates \cup {"accepted"})
      => \/ disp[m].delivery \in TerminalDelivery
         \/ submission[m].state \notin {"none", "prepared"}

\* Content is only purged from messages nobody can act on any more: past their
\* expiry, with no admission under way and no attempt left to reconcile, and no
\* later call starts one.
PurgedQuiescent ==
  \A m \in purged :
    /\ Due(m)
    /\ disp[m].delivery # "none"
    /\ ~Unresolved(m)
    /\ admission[m].state # "in-flight"
    /\ mailbox[m].state = "none"

\* The adapter reference that reconciliation and recovery need survives the
\* retirement of the receiver for as long as they may need it.
RefKeptWhileUnresolved ==
  \A m \in Message :
    Unresolved(m) \/ admission[m].state = "in-flight"
      => Target(m).status # "unregistered" /\ Target(m).ref # NoRef

(***************************************************************************)
(* Action properties.                                                      *)
(***************************************************************************)
LegalChange(d, e) ==
  \/ d.delivery = "none" /\ e = [d EXCEPT !.delivery = "durably-received"]
  \/ /\ e.rev = d.rev + 1
     /\ d.delivery = e.delivery \/ DeliveryMay(d.delivery, e.delivery)
     /\ d.decision = e.decision \/ DecisionMay(d.decision, e.decision)
     /\ d.outcome = e.outcome \/ OutcomeMay(d.outcome, e.outcome)

\* Every change of a disposition, by whichever operation, follows the three
\* tables and takes exactly one revision, so that a holder of an older revision
\* always conflicts.
LegalStep ==
  [][\A m \in Message : disp'[m] = disp[m] \/ LegalChange(disp[m], disp'[m])]_vars

\* What can no longer be repaired about a message's authority.
AuthorityLost(m) ==
  /\ bound[m] \in Grant
  /\ \/ grant[bound[m]] = "revoked"
     \/ \E h \in EdgeGrants(m) : GrantOf[h].version > GrantOf[bound[m]].version
     \/ GrantOf[bound[m]].expires <= now
     \/ task[Envelope[m].source].status = "retired"
     \/ Target(m).status = "retired"

\* A new mailbox token, a decision to take the work on, a new admission claim,
\* a new attempt, or the start of one.
NewWork(m) ==
  \/ mailbox'[m].token # mailbox[m].token
  \/ disp'[m].decision # disp[m].decision /\ disp'[m].decision \in {"accepted", "deferred"}
  \/ admission[m].state = "none" /\ admission'[m].state # "none"
  \/ submission'[m].attempt # submission[m].attempt
  \/ submission[m].state = "prepared" /\ submission'[m].state # "prepared"

\* Authority that is lost by revocation, supersession, expiry or retirement
\* never comes back, in whatever order grants are installed and revoked
\* afterwards, and no work starts under it, however old the claims, revisions
\* and preparations a caller still holds.
AuthorityLossIsFinal ==
  [][\A m \in Message : AuthorityLost(m) => AuthorityLost(m)' /\ ~NewWork(m)]_vars

\* A live mailbox claim belongs to one receiver: until it runs out it is neither
\* replaced nor purged, only acknowledged.
ClaimExclusive ==
  [][\A m \in Message :
       (mailbox[m].state = "claimed" /\ now < mailbox[m].expires)
         => \/ mailbox'[m] = mailbox[m]
            \/ mailbox'[m] = [mailbox[m] EXCEPT !.state = "acknowledged"]]_vars

(***************************************************************************)
(* What the components that build on messages rely on.                     *)
(***************************************************************************)
StandingLost(m) ==
  \/ AuthorityLost(m)
  \/ disp[m].delivery # "none" /\ Due(m)
  \/ disp[m].decision \in DecisionStates \ (UndecidedStates \cup {"accepted"})

LifeOf == [m \in Message |->
  IF disp[m].outcome = "externally-verified" THEN "verified"
  ELSE IF StandingLost(m) THEN "lost"
  ELSE IF disp[m].delivery = "adapter-submitted" /\ disp[m].decision = "accepted"
    THEN "submitted"
  ELSE "open"]

Life == INSTANCE MessageLife WITH life <- LifeOf

\* A message is verified at most once, only after its receiver accepted it and
\* its adapter acknowledged it, and never after its authority, its time or its
\* acceptance was lost, whatever happened in between.
ImplementsMessageLife == Life!LifeSpec

(***************************************************************************)
(* What the documentation states and the code does not keep.               *)
(***************************************************************************)

\* docs: an attempt left to manual reconciliation remains quarantined, so its
\* message is not relabelled as failed or expired.  failDelivery,
\* expireDueMessages and revokeGrant only look for "outcome-unknown" and
\* "receipt-recorded".
ManualQuarantined ==
  \A m \in Message : submission[m].state = "manual-reconciliation"
    => disp[m].delivery \notin {"failed", "expired"}

\* docs: a revocation during an attempt leaves it quarantined for receipt
\* recording or manual reconciliation.  Both compare the message's revision with
\* the attempt's, and respond and confirmContextAdmission move it on.
ReceiptRecordable ==
  \A m \in Message : submission[m].state = "outcome-unknown"
    => disp[m].rev = submission[m].rev
=============================================================================
