----------------------------- MODULE Dependencies -----------------------------
(***************************************************************************)
(* The dependency edges of src/coordinator/sqlite-coordinator.mjs: tables   *)
(* dependency_edges, dependency_satisfactions and, of the git-evidence      *)
(* chains, the row that ties an edge to a chain.  An edge says that a       *)
(* dependent task waits until a message of its prerequisite is verified.    *)
(*                                                                         *)
(* The tasks are those of TaskRegistry.  Of a message only its standing     *)
(* matters, which MessageLife keeps as Coordinator implements it.           *)
(***************************************************************************)
EXTENDS TaskRegistry, MessageLife

CONSTANTS
  Principal,     \* control-plane principals: users and policies
  Policy,        \* those of them that are policies
  OwnerOf,       \* the principal that registered each incarnation
  Dependency,    \* dependency identities
  Terms,         \* what the documents callers write say of an edge
  NoTerms,       \* the terms of an edge that was never created
  Unrelated,     \* the relationship of an edge that names none
  Relationship,
  Event,         \* the immutable dependency-satisfied event of each message
  NoMessage,
  MaxVersion     \* bound on the versions of each edge

\* A freshness expectation is the set of runtime snapshots that satisfy it, {}
\* when there is none; an absent expiry is a time past the horizon.
TermsType ==
  [prerequisite : Incarnation, dependent : Incarnation,
   relationship : Relationship \cup {Unrelated}, fresh : SUBSET Runtime, expires : Nat]

EventType ==
  [sender : Incarnation, target : Incarnation, relationship : Relationship,
   fresh : SUBSET Runtime, expires : Nat]

ASSUME DependencyAssumption ==
  /\ Policy \subseteq Principal
  /\ OwnerOf \in [Incarnation -> Principal]
  /\ Terms \subseteq TermsType
  /\ NoTerms \notin Terms
  /\ Event \in [Message -> EventType]
  /\ NoMessage \notin Message
  /\ MaxVersion \in Nat

VARIABLES
  edge,        \* the newest version of each edge
  satisfied,   \* table dependency_satisfactions
  tied         \* git_evidence_dependency_bindings.edge_version, 0 without a row

edge_vars == <<edge, satisfied, tied>>
dep_vars == <<registry_vars, life, edge_vars>>

EdgeType ==
  [version : Nat, status : {"none", "waiting", "revoked"},
   by : Principal, terms : Terms \cup {NoTerms}]

SatisfactionType == [message : Message \cup {NoMessage}, version : Nat]

\* "by" has no meaning before there is an edge.
DependenciesInit ==
  /\ RegistryInit
  /\ LifeInit
  /\ \E p \in Principal :
       edge = [d \in Dependency |->
         [version |-> 0, status |-> "none", by |-> p, terms |-> NoTerms]]
  /\ satisfied = [d \in Dependency |-> [message |-> NoMessage, version |-> 0]]
  /\ tied = [d \in Dependency |-> 0]

(***************************************************************************)
(* The checks the operations share.                                        *)
(***************************************************************************)
Active(i) == task[i].status = "active"

\* #assertDependencyControlAuthority
Controls(p, d) == p \in Policy \/ edge[d].by = p

Unsatisfied(d) == satisfied[d].message = NoMessage

CurrentWaiting(d, version) == edge[d].status = "waiting" /\ edge[d].version = version

InForce(terms) == now < terms.expires

\* dependencyEdgeMatchesEvent
Matches(terms, event) ==
  /\ terms.prerequisite = event.sender
  /\ terms.dependent = event.target
  /\ terms.relationship \in {Unrelated, event.relationship}

\* #assertDependencyFreshness: the event repeats what the edge expects, and the
\* dependent still runs that.
MeetsFreshness(terms, event, run) ==
  terms.fresh # {} =>
    /\ event.fresh # {} /\ event.fresh \subseteq terms.fresh
    /\ run \in terms.fresh

(***************************************************************************)
(* Edges.                                                                  *)
(***************************************************************************)

\* The first version, or one that replaces a waiting or a revoked edge that was
\* never satisfied.  The document names its version.
CreateDependencyEdge(d, version, p, terms) ==
  /\ terms.prerequisite # terms.dependent
  /\ Active(terms.prerequisite) /\ Active(terms.dependent)
  /\ p \in Policy \/ (OwnerOf[terms.prerequisite] = p /\ OwnerOf[terms.dependent] = p)
  /\ InForce(terms)
  /\ version = edge[d].version + 1
  /\ edge[d].status # "none" => Controls(p, d) /\ Unsatisfied(d)
  /\ edge' = [edge EXCEPT ![d] =
       [version |-> version, status |-> "waiting", by |-> p, terms |-> terms]]
  /\ UNCHANGED <<registry_vars, life, satisfied, tied>>

\* A revocation is a version of its own, with the terms of the one it ends.
\* It unlocks nobody, whatever else the dependent waited for.
RevokeDependencyEdge(d, version, p) ==
  /\ CurrentWaiting(d, version)
  /\ Controls(p, d)
  /\ Unsatisfied(d)
  /\ edge' = [edge EXCEPT ![d] =
       [version |-> version + 1, status |-> "revoked", by |-> p, terms |-> edge[d].terms]]
  /\ UNCHANGED <<registry_vars, life, satisfied, tied>>

\* The edge's half of bindGitEvidenceDependency; what the chain requires of the
\* three actors is not kept here, so the call is allowed whenever it might be.
BindGitEvidenceDependency(d, version, p) ==
  /\ edge[d].by = p
  /\ tied[d] = 0
  /\ CurrentWaiting(d, version)
  /\ InForce(edge[d].terms)
  /\ Unsatisfied(d)
  /\ tied' = [tied EXCEPT ![d] = version]
  /\ UNCHANGED <<registry_vars, life, edge, satisfied>>

(***************************************************************************)
(* Satisfaction.                                                           *)
(***************************************************************************)
\* The newest edges that make a task wait.
WaitsOn(i) == {d \in Dependency : edge[d].status = "waiting" /\ edge[d].terms.dependent = i}

SatisfiedAt(rows, d) == rows[d].message # NoMessage /\ rows[d].version = edge[d].version

\* Mutant: forgets the edges that ran out.
Remaining_InForce(rows, i) ==
  \E d \in WaitsOn(i) : InForce(edge[d].terms) /\ ~SatisfiedAt(rows, d)

\* What is left for a task to wait for once the new row is written.  An edge
\* that ran out unsatisfied is counted like any other.
Remaining(rows, i) == \E d \in WaitsOn(i) : ~SatisfiedAt(rows, d)

Ready(i) ==
  IF Remaining(satisfied', i) \/ ~Unlockable(i) THEN UNCHANGED task ELSE Unlocks(i)

\* Mutant: one message satisfies several dependencies.
Satisfies_Shared(d, version, m) ==
  LET terms == edge[d].terms IN
  /\ Unsatisfied(d)
  /\ CurrentWaiting(d, version)
  /\ InForce(terms) /\ InForce(Event[m])
  /\ Active(terms.prerequisite) /\ Active(terms.dependent)
  /\ Matches(terms, Event[m])
  /\ MeetsFreshness(terms, Event[m], task[terms.dependent].run)
  /\ life[m] \in {"submitted", "verified"}
  /\ life' = [life EXCEPT ![m] = "verified"]
  /\ satisfied' = [satisfied EXCEPT ![d] = [message |-> m, version |-> version]]
  /\ Ready(terms.dependent)
  /\ UNCHANGED <<now, edge, tied>>

\* #satisfyDependencyEdge
Satisfies(d, version, m) ==
  LET terms == edge[d].terms IN
  /\ Unsatisfied(d)
  /\ \A e \in Dependency : satisfied[e].message # m
  /\ CurrentWaiting(d, version)
  /\ InForce(terms) /\ InForce(Event[m])
  /\ Active(terms.prerequisite) /\ Active(terms.dependent)
  /\ Matches(terms, Event[m])
  /\ MeetsFreshness(terms, Event[m], task[terms.dependent].run)
  /\ BecomesVerified(m)
  /\ satisfied' = [satisfied EXCEPT ![d] = [message |-> m, version |-> version]]
  /\ Ready(terms.dependent)
  /\ UNCHANGED <<now, edge, tied>>

SatisfyDependencyEdge(d, version, m) == tied[d] = 0 /\ Satisfies(d, version, m)

\* The edge's half of finalizeGitEvidenceDependency; the chain's half is left
\* out as above.
FinalizeGitEvidenceDependency(d, version, m) ==
  /\ tied[d] = version
  /\ Satisfies(d, version, m)

(***************************************************************************)
(* Specification.                                                          *)
(***************************************************************************)
StandingNext ==
  /\ \/ \E m \in Message : BecomesSubmitted(m)
     \/ \E gone \in SUBSET Message : LoseStanding(gone)
  /\ UNCHANGED <<registry_vars, edge_vars>>

EdgeNext ==
  \E d \in Dependency, version \in 1..MaxVersion :
    \/ \E p \in Principal :
         \/ \E terms \in Terms : CreateDependencyEdge(d, version, p, terms)
         \/ version < MaxVersion /\ RevokeDependencyEdge(d, version, p)
         \/ BindGitEvidenceDependency(d, version, p)
    \/ \E m \in Message :
         \/ SatisfyDependencyEdge(d, version, m)
         \/ FinalizeGitEvidenceDependency(d, version, m)

DependenciesNext ==
  \/ TaskNext /\ UNCHANGED <<life, edge_vars>>
  \/ StandingNext
  \/ EdgeNext

DependenciesSpec == DependenciesInit /\ [][DependenciesNext]_dep_vars

(***************************************************************************)
(* Properties.                                                             *)
(***************************************************************************)

\* Every row has the shape its table allows.
DependenciesTypeOK ==
  /\ TaskTypeOK
  /\ life \in [Message -> LifeStates]
  /\ edge \in [Dependency -> EdgeType]
  /\ satisfied \in [Dependency -> SatisfactionType]
  /\ tied \in [Dependency -> Nat]

\* A satisfaction is of the newest version of a waiting edge, by a verified
\* message from its prerequisite to its dependent, and of no other dependency:
\* nothing that happens to edges, tasks or messages afterwards undoes it.
SatisfactionBacked ==
  \A d \in Dependency : ~Unsatisfied(d) =>
    /\ CurrentWaiting(d, satisfied[d].version)
    /\ life[satisfied[d].message] = "verified"
    /\ Matches(edge[d].terms, Event[satisfied[d].message])
    /\ \A e \in Dependency \ {d} : satisfied[e].message # satisfied[d].message

\* No message is verified but as the satisfaction of a dependency.
VerifiedForDependency ==
  \A m \in Message : life[m] = "verified" => \E d \in Dependency : satisfied[d].message = m

\* An edge that was tied to a chain is satisfied in the version that was tied
\* or not at all, although it may be replaced or revoked in between.
EvidenceNotBypassed ==
  \A d \in Dependency : ~Unsatisfied(d) /\ tied[d] # 0 => satisfied[d].version = tied[d]

\* Satisfactions, verified messages and ties stand for each other: all of the above.
SatisfactionsSound ==
  DependenciesTypeOK /\ SatisfactionBacked /\ VerifiedForDependency /\ EvidenceNotBypassed

\* Versions fence an edge: it changes only to its next version, never once it
\* was satisfied, and neither a satisfaction nor a tie is ever taken back.
EdgesFenced ==
  [][\A d \in Dependency :
       /\ edge'[d] # edge[d] =>
            Unsatisfied(d) /\ Unsatisfied(d)' /\ edge'[d].version = edge[d].version + 1
       /\ ~Unsatisfied(d) => satisfied'[d] = satisfied[d]
       /\ tied[d] # 0 => tied'[d] = tied[d]]_dep_vars

\* docs: a dependent becomes ready through its dependencies only when every
\* current inbound dependency is satisfied, by a verified message of that
\* dependency's own prerequisite to this incarnation.
UnlockedBySatisfaction(i) ==
  /\ satisfied' # satisfied
  /\ task'[i] # task[i]

UnlockSound ==
  [][\A i \in Incarnation : UnlockedBySatisfaction(i) =>
       /\ task'[i].word = "ready" /\ Active(i)
       /\ \A d \in WaitsOn(i) :
            /\ SatisfiedAt(satisfied', d)
            /\ life'[satisfied'[d].message] = "verified"
            /\ Event[satisfied'[d].message].sender = edge[d].terms.prerequisite
            /\ Event[satisfied'[d].message].target = i]_dep_vars

(***************************************************************************)
(* What the documentation states and the code does not keep.               *)
(***************************************************************************)

\* docs: a stale run, objective or checkpoint must remain locked.  The runtime
\* is compared when an edge is satisfied; the last satisfaction unlocks without
\* another look at the edges satisfied before it.
UnlockFresh ==
  [][\A i \in Incarnation : UnlockedBySatisfaction(i) =>
       \A d \in WaitsOn(i) : edge[d].terms.fresh # {} => task[i].run \in edge[d].terms.fresh]_dep_vars
=============================================================================
