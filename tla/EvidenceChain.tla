---------------------------- MODULE EvidenceChain ----------------------------
(***************************************************************************)
(* The git evidence chains of src/coordinator/sqlite-coordinator.mjs, over *)
(* the record state machine of src/state/git-evidence-chain.mjs: tables     *)
(* git_evidence_requirements, _records, _dependency_bindings and            *)
(* _dependency_finalizations.                                               *)
(*                                                                         *)
(* A chain is required of three tasks.  The implementer records a commit,   *)
(* the reviewer a finding about it, the implementer a fix of that finding,  *)
(* and the verifier closes the chain; the turn that produced a record is    *)
(* promoted with it.  A chain may be bound to a dependency, which then is   *)
(* satisfied by closing the chain and in no other way.                      *)
(*                                                                         *)
(* The edges are those of Dependencies, the turns those of TurnLife.        *)
(***************************************************************************)
EXTENDS Dependencies, TurnLife, FiniteSets

CONSTANTS
  Chain,
  RolesOf,       \* the three incarnations each chain names
  ChainOf,       \* the chain each execution works for
  MessageOf,     \* the message each execution answers
  Commit, Seed,  \* commits, and the one every chain starts from
  Finding,
  NoDependency,
  Foreign,       \* the digest of no completed tool call
  MaxAtOnce      \* bound on the turns under way at once

Role == {"implementer", "reviewer", "verifier"}

Stage == <<"implementation", "review-failed", "fix", "independently-verified">>

StageRole == <<"implementer", "reviewer", "implementer", "verifier">>

\* GIT_EVIDENCE_STAGE_TOOL and FINAL_GIT_EVIDENCE_TOOL
StageTool ==
  <<"publish_artifact", "report_review_finding", "publish_dependency", "verify_exact_chain">>

\* The digest of a completed tool call stands for the call.
Call == Execution \X (1..MaxAction)

\* A review names the commit it is about, the other records what they build on.
\* The digest of a record stands for the record and everything before it.
Record ==
  [call : Call \cup {Foreign}, commit : Commit, on : Commit, finding : Finding]

ASSUME ChainAssumption ==
  /\ RolesOf \in [Chain -> [Role -> Incarnation]]
  /\ \A c \in Chain, r \in Role, s \in Role :
       TaskOf[RolesOf[c][r]] = TaskOf[RolesOf[c][s]] => r = s
  /\ ChainOf \in [Execution -> Chain]
  /\ MessageOf \in [Execution -> Message \cup {NoMessage}]
  /\ Seed \in Commit
  /\ Foreign \notin Call
  /\ MaxAtOnce \in Nat
  /\ NoDependency \notin Dependency

VARIABLES
  chain,   \* tables git_evidence_requirements and git_evidence_records
  head,    \* promotion.expectedEvidenceChainHead of each promoted execution
  named,   \* the head each verifying call named, by its length
  bound,   \* git_evidence_dependency_bindings.dependency_id of each chain
  final    \* table git_evidence_dependency_finalizations

chain_vars == <<chain, head, named, bound, final>>
evidence_vars == <<dep_vars, run, chain_vars>>

PinType == [ref : TurnRef \cup {NoRef}, rev : Nat]

ChainType ==
  [required : BOOLEAN, by : Principal, pins : [Role -> PinType], records : Seq(Record)]

FinalType == [execution : Execution, dependency : Dependency, message : Message]

EvidenceInit ==
  /\ DependenciesInit
  /\ RunInit
  /\ \E p \in Principal : chain = [c \in Chain |->
       [required |-> FALSE, by |-> p, pins |-> [r \in Role |-> [ref |-> NoRef, rev |-> 0]],
        records |-> <<>>]]
  /\ head = [e \in Execution |-> <<>>]
  /\ named = [e \in Execution |-> 0]
  /\ bound = [c \in Chain |-> NoDependency]
  /\ final = [c \in Chain |-> {}]

(***************************************************************************)
(* Requirements.                                                           *)
(***************************************************************************)
Holder(c, r) == task[RolesOf[c][r]]

\* createGitEvidenceRequirement: the roles are held by live tasks with native
\* threads of their own, which the requirement pins as they stand.
RequireChain(c, p) ==
  /\ ~chain[c].required
  /\ \A r \in Role : Holder(c, r).status = "active" /\ Holder(c, r).ref \in TurnRef
  /\ \A r, s \in Role : Holder(c, r).ref = Holder(c, s).ref => r = s
  /\ p \in Policy \/ \A r \in Role : OwnerOf[RolesOf[c][r]] = p
  /\ chain' = [chain EXCEPT ![c] =
       [required |-> TRUE, by |-> p, records |-> <<>>,
        pins |-> [r \in Role |-> [ref |-> Holder(c, r).ref, rev |-> Holder(c, r).rev]]]]
  /\ UNCHANGED <<dep_vars, run, head, named, bound, final>>

\* Mutant: a role may move on to another thread.
Pinned_AnyRef(c, r) == Holder(c, r).status = "active"

\* #assertGitEvidenceActorCurrent
Pinned(c, r) ==
  /\ Holder(c, r).status = "active"
  /\ Holder(c, r).ref = chain[c].pins[r].ref
  /\ Holder(c, r).rev = chain[c].pins[r].rev

(***************************************************************************)
(* Records.                                                                *)
(***************************************************************************)
\* validateStageBinding
Follows(records, record) ==
  CASE Len(records) = 0 -> record.on = Seed /\ record.commit # Seed
    [] Len(records) = 1 -> record.on = records[1].commit /\ record.commit = record.on
    [] Len(records) = 2 ->
         /\ record.on = records[1].commit /\ record.commit # record.on
         /\ record.finding = records[2].finding
    [] OTHER ->
         /\ record.on = records[1].commit /\ record.commit = records[3].commit
         /\ record.finding = records[2].finding

\* #assertGitEvidenceCas, the stage order and #insertGitEvidenceRecord: what the
\* caller holds is a number of records, whose head is known with it.
Appends(c, count, record) ==
  /\ chain[c].required
  /\ count = Len(chain[c].records) /\ count < Len(Stage)
  /\ Follows(chain[c].records, record)
  /\ Pinned(c, StageRole[count + 1])
  /\ chain' = [chain EXCEPT ![c].records = Append(@, record)]

\* appendGitEvidenceRecord and appendIndependentGitVerificationRecord: the
\* record names a tool call that nothing looks up.  Only a call that returned
\* has a digest to name; one of a turn that was given up is as good as none.
AppendRecord(c, count, record) ==
  /\ record.call # Foreign => record.call[2] \in DOMAIN run[record.call[1]].tools
  /\ Appends(c, count, record)
  /\ UNCHANGED <<dep_vars, run, head, named, bound, final>>

Called(e, n, tool) == n \in DOMAIN run[e].tools /\ run[e].tools[n] = tool

\* promoteTurnExecutionWithGitEvidenceRecord
PromoteWithRecord(e, n, count, record) ==
  LET c == ChainOf[e] IN
  /\ count < 3 /\ ActorOf[e] = RolesOf[c][StageRole[count + 1]]
  /\ Called(e, n, StageTool[count + 1])
  /\ record.call = <<e, n>>
  /\ Appends(c, count, record)
  /\ Promotes(e)
  /\ head' = [head EXCEPT ![e] = chain'[c].records]
  /\ UNCHANGED <<dep_vars, named, bound, final>>

(***************************************************************************)
(* The dependency a chain is bound to.                                     *)
(***************************************************************************)

\* bindGitEvidenceDependency
BindDependency(c, d, version, p) ==
  /\ chain[c].required /\ chain[c].by = p
  /\ bound[c] = NoDependency
  /\ BindGitEvidenceDependency(d, version, p)
  /\ edge[d].terms.prerequisite = RolesOf[c]["verifier"]
  /\ \A r \in Role : Pinned(c, r)
  /\ bound' = [bound EXCEPT ![c] = d]
  /\ UNCHANGED <<run, chain, head, named, final>>

\* #assertPromotedGitEvidenceRecordAction: the turn whose call the record names
\* was promoted with this very record, at this place of this chain.
Backed(c, k) ==
  \E e \in Execution :
    /\ chain[c].records[k].call # Foreign
    /\ chain[c].records[k].call[1] = e
    /\ run[e].state = "promoted"
    /\ ChainOf[e] = c /\ ActorOf[e] = RolesOf[c][StageRole[k]]
    /\ Called(e, chain[c].records[k].call[2], StageTool[k])
    /\ head[e] = SubSeq(chain[c].records, 1, k)

\* Mutant: the earlier records are taken as they are.
Finalize_Unbacked(c, e, n, d, version, m, record) ==
  /\ ChainOf[e] = c /\ MessageOf[e] = m
  /\ ActorOf[e] = RolesOf[c]["verifier"]
  /\ \A r \in Role : Pinned(c, r)
  /\ Len(chain[c].records) = 3
  /\ Called(e, n, StageTool[4]) /\ named[e] = 3
  /\ record.call = <<e, n>>
  /\ bound[c] = d
  /\ Appends(c, 3, record)
  /\ Promotes(e)
  /\ head' = [head EXCEPT ![e] = chain'[c].records]
  /\ FinalizeGitEvidenceDependency(d, version, m)
  /\ final' = [final EXCEPT ![c] = {[execution |-> e, dependency |-> d, message |-> m]}]
  /\ UNCHANGED <<named, bound>>

\* finalizeGitEvidenceDependency: the last record, the promotion of the turn
\* that verified, and the satisfaction, in one transaction.
Finalize(c, e, n, d, version, m, record) ==
  /\ ChainOf[e] = c /\ MessageOf[e] = m
  /\ ActorOf[e] = RolesOf[c]["verifier"]
  /\ \A r \in Role : Pinned(c, r)
  /\ Len(chain[c].records) = 3 /\ \A k \in 1..3 : Backed(c, k)
  /\ Called(e, n, StageTool[4]) /\ named[e] = 3
  /\ record.call = <<e, n>>
  /\ bound[c] = d
  /\ Appends(c, 3, record)
  /\ Promotes(e)
  /\ head' = [head EXCEPT ![e] = chain'[c].records]
  /\ FinalizeGitEvidenceDependency(d, version, m)
  /\ final' = [final EXCEPT ![c] = {[execution |-> e, dependency |-> d, message |-> m]}]
  /\ UNCHANGED <<named, bound>>

(***************************************************************************)
(* Specification.                                                          *)
(***************************************************************************)
UnderWay == {e \in Execution : run[e].state \in {"open", "completed"}}

\* A turn runs; one that is given up is one that goes on no more.  A verifying
\* call names a head the chain has had by then: no digest can be named before
\* its record is there.
TurnRuns ==
  /\ \E e \in Execution :
       \/ Cardinality(UnderWay) < MaxAtOnce /\ Opens(e) /\ UNCHANGED named
       \/ \E tools \in ToolLists, k \in 0..Len(chain[ChainOf[e]].records) :
            /\ StageTool[4] \notin {tools[n] : n \in DOMAIN tools} => k = 0
            /\ Completes(e, tools)
            /\ named' = [named EXCEPT ![e] = k]
  /\ UNCHANGED <<dep_vars, chain, head, bound, final>>

\* What the other parts do; the bound edges are left to the actions above.
EvidenceElsewhere ==
  /\ \/ TaskNext /\ UNCHANGED <<life, edge_vars>>
     \/ StandingNext
     \/ \E d \in Dependency, version \in 1..MaxVersion :
          \/ \E p \in Principal, terms \in Terms : CreateDependencyEdge(d, version, p, terms)
          \/ \E p \in Principal :
               version < MaxVersion /\ RevokeDependencyEdge(d, version, p)
          \/ \E m \in Message : SatisfyDependencyEdge(d, version, m)
  /\ UNCHANGED <<run, chain_vars>>

Completed == {e \in Execution : run[e].state = "completed"}

ChainNext ==
  \E c \in Chain :
    \/ \E p \in Principal : RequireChain(c, p)
    \/ /\ chain[c].required
       /\ \E count \in 0..Len(chain[c].records), record \in Record :
            AppendRecord(c, count, record)
    \/ \E p \in Principal, d \in Dependency, version \in 1..MaxVersion :
         BindDependency(c, d, version, p)

PromotionNext ==
  \E e \in Completed : \E record \in Record :
    /\ record.call # Foreign /\ record.call[1] = e
    /\ \/ \E count \in 0..Len(chain[ChainOf[e]].records) :
            PromoteWithRecord(e, record.call[2], count, record)
       \/ \E d \in Dependency, version \in 1..MaxVersion, m \in Message :
            Finalize(ChainOf[e], e, record.call[2], d, version, m, record)

EvidenceNext == TurnRuns \/ EvidenceElsewhere \/ ChainNext \/ PromotionNext

EvidenceSpec == EvidenceInit /\ [][EvidenceNext]_evidence_vars

(***************************************************************************)
(* Properties.                                                             *)
(***************************************************************************)

\* Every row has the shape its table allows.
EvidenceTypeOK ==
  /\ DependenciesTypeOK
  /\ run \in [Execution -> RunType]
  /\ chain \in [Chain -> ChainType]
  /\ head \in [Execution -> Seq(Record)]
  /\ named \in [Execution -> 0..Len(Stage)]
  /\ bound \in [Chain -> Dependency \cup {NoDependency}]
  /\ final \in [Chain -> SUBSET FinalType]

\* docs: an edge that is bound to a chain is satisfied by the chain or not at
\* all.  By then the chain is complete, each of its records came from a promoted
\* turn of the right task with the right tool, the fix answers the finding the
\* reviewer had with the very commit it builds on, the verifier's turn named the
\* chain as it stood after the fix, and it answered the message that satisfies
\* the edge.  The same is what opening the database checks of the finalization.
SatisfiedByChain ==
  \A d \in Dependency : ~Unsatisfied(d) /\ tied[d] # 0 =>
    \E c \in Chain : \E row \in final[c] :
      LET records == chain[c].records IN
      /\ bound[c] = d /\ row.dependency = d /\ row.message = satisfied[d].message
      /\ Len(records) = 4 /\ \A k \in 1..4 : Backed(c, k)
      /\ records[2].on = records[1].commit /\ records[3].on = records[1].commit
      /\ records[3].finding = records[2].finding
      /\ records[4].call[1] = row.execution
      /\ MessageOf[row.execution] = row.message /\ named[row.execution] = 3

\* A promoted turn stands behind one record of its chain, and no two turns
\* behind the same.
PromotedForRecord ==
  \A e \in Execution : run[e].state = "promoted" =>
    LET records == chain[ChainOf[e]].records IN
    /\ head[e] # <<>> /\ Len(head[e]) <= Len(records)
    /\ head[e] = SubSeq(records, 1, Len(head[e]))
    /\ Backed(ChainOf[e], Len(head[e])) /\ records[Len(head[e])].call[1] = e

\* Chains and edges are bound one to one, and the edge was, in the version that
\* was bound, one that waits for the chain's verifier.
BoundOneToOne ==
  \A c \in Chain : bound[c] # NoDependency =>
    /\ tied[bound[c]] # 0
    /\ \A o \in Chain \ {c} : bound[o] # bound[c]
    /\ edge[bound[c]].version = tied[bound[c]] =>
         edge[bound[c]].terms.prerequisite = RolesOf[c]["verifier"]

\* Satisfaction, turns and binding all have the chain behind them: the three above.
ChainsBack == EvidenceTypeOK /\ SatisfiedByChain /\ PromotedForRecord /\ BoundOneToOne

\* A task that moved after the requirement was made has left the chain.
RoleGone(c, r) ==
  /\ chain[c].required
  /\ \/ Holder(c, r).status = "retired"
     \/ Holder(c, r).rev # chain[c].pins[r].rev

\* Records are appended one by one, under the heads they were made for, and the
\* role whose task has moved adds none any more, even if the task returns to the
\* thread it had.  A chain whose next role is gone stays as it is for good.
RecordsFrozenWithRole ==
  [][\A c \in Chain : chain[c].required =>
       /\ \A k \in 1..Len(chain[c].records) : chain'[c].records[k] = chain[c].records[k]
       /\ Len(chain'[c].records) <= Len(chain[c].records) + 1
       /\ \A r \in Role : RoleGone(c, r) =>
            /\ RoleGone(c, r)'
            /\ Len(chain'[c].records) > Len(chain[c].records)
                 => StageRole[Len(chain'[c].records)] # r]_evidence_vars

\* A record that no promoted turn stands behind, or a chain closed without its
\* dependency.
Spoiled(c) ==
  \/ \E k \in 1..Len(chain[c].records) : ~Backed(c, k)
  \/ Len(chain[c].records) = 4 /\ final[c] = {}

\* There is no way back from a record that was appended without its turn: the
\* chain never finalizes, and what is bound to it is never satisfied.
SpoiledForGood ==
  [][\A c \in Chain : Spoiled(c) =>
       /\ Spoiled(c)' /\ final'[c] = {}
       /\ bound[c] # NoDependency => satisfied'[bound[c]] = satisfied[bound[c]]]_evidence_vars

\* What a chain lost, a role or the backing of a record, it lost for good: both of the
\* above.
LossIsFinal == RecordsFrozenWithRole /\ SpoiledForGood

(***************************************************************************)
(* What the repository says, and the code does not do.                      *)
(***************************************************************************)

\* What the call checks before it looks for a row of an earlier finalization.
FinalizeReaches(c, d, m) ==
  /\ \A r \in Role : Pinned(c, r)
  /\ InForce(edge[d].terms) /\ InForce(Event[m])
  /\ MeetsFreshness(edge[d].terms, Event[m], task[edge[d].terms.dependent].run)

\* docs: exact replay is idempotent.  The same call again, after its answer was
\* lost, meets checks of the present first.
FinalizeReplayable ==
  \A c \in Chain : \A row \in final[c] : FinalizeReaches(c, row.dependency, row.message)
=============================================================================
