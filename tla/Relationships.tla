---------------------------- MODULE Relationships ----------------------------
(***************************************************************************)
(* One relationship between a source and a target task: proposals, grants   *)
(* and the target's summary, as src/coordinator/sqlite-coordinator.mjs       *)
(* keeps them.                                                             *)
(*                                                                         *)
(* The source proposes; the owner of both tasks, or policy, grants, with or  *)
(* without a proposal, and revokes.  The target publishes a summary under a  *)
(* grant, and the source reads it as long as that grant is the current one,  *)
(* which is the one of the highest version, revoked or not.  Retention       *)
(* replaces what nobody may read any more by tombstones.                    *)
(***************************************************************************)
EXTENDS Naturals, FiniteSets

CONSTANTS
  Proposal,   \* proposal ids
  Grant,      \* grant ids
  Version,    \* grant versions
  ProposalTerms,      \* what is asked for, or granted: intents, modes, visibility
  Approver,  \* control-plane principals
  PolicyApprover,     \* the one among them that is policy
  SourceOwner, TargetOwner,  \* who owns the tasks
  MaxSummary, \* bound on summary versions
  MaxClock     \* bound on the clock

Nothing == [none |-> TRUE]
NoProposal == [direct |-> TRUE]

ASSUME RelationshipAssumption ==
  /\ NoProposal \notin Proposal
  /\ Version \subseteq Nat \ {0}
  /\ {PolicyApprover, SourceOwner, TargetOwner} \subseteq Approver
  /\ MaxSummary \in Nat /\ MaxClock \in Nat

VARIABLES
  clock,
  retired,   \* when each task's incarnation was retired, or Never
  proposal,  \* relationship_proposals
  grant,     \* grants
  summary    \* the target's row of task_summaries for this relationship

rel_vars == <<clock, retired, proposal, grant, summary>>

Never == MaxClock + 1
RelTime == 0..MaxClock

ProposalRow ==
  [terms : ProposalTerms, expires : RelTime, status : {"pending", "approved"}, purged : BOOLEAN]

GrantRow ==
  [version : Version, terms : ProposalTerms, by : Approver, decided : RelTime,
   expires : RelTime \cup {Never}, revoked : RelTime \cup {Never}]

SummaryRow ==
  [version : 1..MaxSummary, under : Grant, updated : RelTime, content : BOOLEAN, purged : BOOLEAN]

RelTypeOK ==
  /\ clock \in RelTime
  /\ retired \in [{"source", "target"} -> RelTime \cup {Never}]
  /\ proposal \in [Proposal -> {Nothing} \cup ProposalRow]
  /\ \A g \in Grant : grant[g] # Nothing =>
        /\ [f \in DOMAIN grant[g] \ {"proposal"} |-> grant[g][f]] \in GrantRow
        /\ grant[g].proposal \in Proposal \cup {NoProposal}
  /\ summary \in {Nothing} \cup SummaryRow
  /\ summary # Nothing => grant[summary.under] # Nothing

(***************************************************************************)
(* Which grant is current.                                                 *)
(***************************************************************************)
ActiveTask(t) == retired[t] = Never
Installed == {g \in Grant : grant[g] # Nothing}

\* Mutant: the newest grant that is not revoked.
Newest_Unrevoked(g) ==
  g \in Installed /\ \A h \in Installed :
    grant[h].revoked = Never => grant[h].version <= grant[g].version

Newest(g) == g \in Installed /\ \A h \in Installed : grant[h].version <= grant[g].version

GrantForProjection(g) ==
  /\ g \in Installed
  /\ grant[g].revoked = Never
  /\ ActiveTask("source") /\ ActiveTask("target")
  /\ clock < grant[g].expires
  /\ Newest(g)

\* getTaskSummary by the source: what it returns is the row as it is.
Readable == IF summary = Nothing THEN FALSE ELSE GrantForProjection(summary.under)

(***************************************************************************)
(* Proposals.                                                               *)
(***************************************************************************)
\* A proposal known under its id is answered with the row as it is.
Propose(p, terms, expires) ==
  /\ clock < expires
  /\ ActiveTask("source") /\ ActiveTask("target")
  /\ proposal[p] = Nothing
  /\ proposal' = [proposal EXCEPT ![p] =
       [terms |-> terms, expires |-> expires, status |-> "pending", purged |-> FALSE]]
  /\ UNCHANGED <<clock, retired, grant, summary>>

(***************************************************************************)
(* Grants.                                                                  *)
(***************************************************************************)
MayGrant(who) == who = PolicyApprover \/ (who = SourceOwner /\ who = TargetOwner)

\* A draft may say that the grant is revoked already.
Effective(version, terms, expires, revoked, who, p) ==
  [version |-> version, terms |-> terms, expires |-> expires, by |-> who,
   proposal |-> p, decided |-> clock, revoked |-> revoked]

\* #installGrant: the same grant again changes nothing, and what was said of it then
\* is what is compared; another one of its id, or of its version, is refused.
Installs(g, effective) ==
  \/ /\ grant[g] = Nothing
     /\ \A h \in Installed : grant[h].version # effective.version
     /\ ActiveTask("source") /\ ActiveTask("target")
     /\ MayGrant(effective.by)
     /\ grant' = [grant EXCEPT ![g] = effective]
  \/ /\ IF grant[g] = Nothing THEN FALSE
        ELSE effective \in {grant[g], [grant[g] EXCEPT !.revoked = Never]}
     /\ grant' = grant

\* Mutant: whether the proposal is still pending is not looked at.
Grantable_Anyway(p, terms) ==
  IF proposal[p] = Nothing THEN FALSE
  ELSE clock < proposal[p].expires /\ proposal[p].terms = terms

Grantable(p, terms) ==
  IF proposal[p] = Nothing THEN FALSE
  ELSE /\ proposal[p].status = "pending"
       /\ clock < proposal[p].expires
       /\ proposal[p].terms = terms

\* issueGrant on a proposal, and without one.
IssueOnProposal(g, version, terms, expires, revoked, who, p) ==
  /\ Grantable(p, terms)
  /\ Installs(g, Effective(version, terms, expires, revoked, who, p))
  /\ proposal' = [proposal EXCEPT ![p].status = "approved"]
  /\ UNCHANGED <<clock, retired, summary>>

IssueDirectly(g, version, terms, expires, revoked, who) ==
  /\ Installs(g, Effective(version, terms, expires, revoked, who, NoProposal))
  /\ UNCHANGED <<clock, retired, proposal, summary>>

RevokeGrant(g, who) ==
  /\ g \in Installed
  /\ who \in {PolicyApprover, TargetOwner, grant[g].by}
  /\ grant[g].revoked = Never
  /\ grant' = [grant EXCEPT ![g].revoked = clock]
  /\ UNCHANGED <<clock, retired, proposal, summary>>

(***************************************************************************)
(* The summary.                                                             *)
(***************************************************************************)

\* Mutant: a summary of the same version again is taken for a newer one.
Supersedes_Same(version, expected) ==
  IF summary = Nothing THEN expected = 0
  ELSE expected = summary.version /\ version >= summary.version

Supersedes(version, expected) ==
  IF summary = Nothing THEN expected = 0
  ELSE expected = summary.version /\ version > summary.version

\* publishTaskSummary by the target or its owner, who says when it was updated; the purge
\* mark of the row stays.
PublishSummary(g, version, expected, updated) ==
  /\ GrantForProjection(g)
  /\ Supersedes(version, expected)
  /\ summary' = [version |-> version, under |-> g, updated |-> updated, content |-> TRUE,
                 purged |-> IF summary = Nothing THEN FALSE ELSE summary.purged]
  /\ UNCHANGED <<clock, retired, proposal, grant>>

(***************************************************************************)
(* Time, rotation and retention.                                               *)
(***************************************************************************)
RelTick == clock < MaxClock /\ clock' = clock + 1 /\ UNCHANGED <<retired, proposal, grant, summary>>

\* rotateTaskIncarnation, of which only the retirement matters here.
Retire(t) ==
  /\ ActiveTask(t)
  /\ retired' = [retired EXCEPT ![t] = clock]
  /\ UNCHANGED <<clock, proposal, grant, summary>>

\* The summary is old, and since the cutoff at least nobody may read it.
Unreadable(s, cutoff) ==
  /\ s.updated <= cutoff
  /\ \/ grant[s.under].revoked <= cutoff
     \/ grant[s.under].expires <= cutoff
     \/ retired["target"] <= cutoff

Due(p, cutoff) == IF proposal[p] = Nothing THEN FALSE ELSE proposal[p].expires <= cutoff

\* What a sweep makes of the summary.
Swept(cutoff) ==
  IF summary = Nothing THEN Nothing
  ELSE IF ~summary.purged /\ Unreadable(summary, cutoff)
    THEN [summary EXCEPT !.content = FALSE, !.purged = TRUE]
  ELSE summary

PurgeSensitiveContent(cutoff) ==
  /\ cutoff <= clock
  /\ proposal' = [p \in Proposal |->
       IF Due(p, cutoff) THEN [proposal[p] EXCEPT !.purged = TRUE] ELSE proposal[p]]
  /\ summary' = Swept(cutoff)
  /\ UNCHANGED <<clock, retired, grant>>

(***************************************************************************)
(* The specification.                                                       *)
(***************************************************************************)
RelInit ==
  /\ clock = 0
  /\ retired = [t \in {"source", "target"} |-> Never]
  /\ proposal = [p \in Proposal |-> Nothing]
  /\ grant = [g \in Grant |-> Nothing]
  /\ summary = Nothing

RelNext ==
  \/ RelTick
  \/ \E t \in {"source", "target"} : Retire(t)
  \/ \E p \in Proposal, terms \in ProposalTerms, expires \in RelTime : Propose(p, terms, expires)
  \/ \E g \in Grant, who \in Approver :
       \/ RevokeGrant(g, who)
       \/ \E version \in Version, terms \in ProposalTerms,
             expires \in RelTime \cup {Never}, revoked \in RelTime \cup {Never} :
            \/ IssueDirectly(g, version, terms, expires, revoked, who)
            \/ \E p \in Proposal : IssueOnProposal(g, version, terms, expires, revoked, who, p)
  \/ \E g \in Grant, version \in 1..MaxSummary, expected \in 0..MaxSummary, updated \in RelTime :
       PublishSummary(g, version, expected, updated)
  \/ \E cutoff \in RelTime : PurgeSensitiveContent(cutoff)

RelSpec == RelInit /\ [][RelNext]_rel_vars

(***************************************************************************)
(* Properties.                                                              *)
(***************************************************************************)

\* The source never reads a tombstone: what makes retention purge a summary, once
\* true of the grant or the task, stays true, so that the summary stays unreadable
\* until it is published again under another grant.
ReadsWhole == Readable => summary.content

\* A summary that may not be read is not readable again until it is published again:
\* an older grant does not come back into force when the one that superseded it is
\* revoked or runs out, nor when one of a lower version is installed late.
NoGrantResurfaces == [][(~Readable /\ Readable') => summary' # summary]_rel_vars

\* However many principals decide on a proposal at once, one grant at most comes of
\* it, on the terms it asked for.
OneGrantPerProposal ==
  \A p \in Proposal :
    /\ Cardinality({g \in Installed : grant[g].proposal = p}) <= 1
    /\ \A g \in Installed : grant[g].proposal = p =>
         proposal[p].status = "approved" /\ grant[g].terms = proposal[p].terms

\* Whatever is granted, revoked and purged in between, and under whichever grant it is
\* published again, the version never falls: of two publishers that bring the same
\* version only one has its summary stored, and a version once read is not replaced by
\* another of the same number.
SummaryGrows ==
  [][(summary # Nothing /\ summary' # summary)
     => \/ summary'.version > summary.version
        \/ summary'.version = summary.version /\ ~summary'.content]_rel_vars

\* Grants and summaries as they stand, and as they change.
GrantsKept == RelTypeOK /\ ReadsWhole /\ OneGrantPerProposal
SummariesFinal == NoGrantResurfaces /\ SummaryGrows

(***************************************************************************)
(* What the repository says, and the code does not do.                      *)
(***************************************************************************)

\* sqlite-storage-contract.md: content (task summary fields) is purged after expiry
\* plus grace, never retained only for convenience: of what is due a sweep leaves none.
SweepIsComplete ==
  \A cutoff \in 0..clock :
    summary # Nothing => ~(Unreadable(summary, cutoff) /\ Swept(cutoff).content)
=============================================================================
