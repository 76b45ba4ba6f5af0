-------------------------- MODULE DependenciesProofs --------------------------
(***************************************************************************)
(* Theorems about Dependencies, for any tasks, edges, messages and bounds,  *)
(* and about EvidenceChain, for any chains, turns and records.              *)
(***************************************************************************)
EXTENDS EvidenceChain, TaskRegistryProofs, SequenceTheorems

\* An edge that exists has terms some document gave it.
EdgesDrawn == \A d \in Dependency : edge[d].status # "none" => edge[d].terms \in Terms

EInv ==
  /\ DependenciesTypeOK
  /\ EdgesDrawn
  /\ SatisfactionBacked
  /\ VerifiedForDependency
  /\ EvidenceNotBypassed

LEMMA EInvInit == DependenciesInit => EInv
<1> SUFFICES ASSUME DependenciesInit PROVE EInv
  OBVIOUS
<1>1. DependenciesTypeOK
  BY TaskTypeInit, DependencyAssumption
     DEF DependenciesInit, LifeInit, DependenciesTypeOK, LifeStates, EdgeType, SatisfactionType
<1> QED
  BY <1>1
     DEF DependenciesInit, LifeInit, EInv, EdgesDrawn, SatisfactionBacked, Unsatisfied,
         VerifiedForDependency, EvidenceNotBypassed

\* The tasks a document names are known incarnations.
LEMMA TermsUsed ==
  ASSUME NEW terms \in Terms
  PROVE  terms.prerequisite \in Incarnation /\ terms.dependent \in Incarnation
BY DependencyAssumption DEF TermsType

LEMMA TaskSteps ==
  ASSUME EInv, TaskNext, UNCHANGED <<life, edge_vars>>
  PROVE  EInv'
<1>1. DependenciesTypeOK'
  BY TaskStep DEF EInv, DependenciesTypeOK, edge_vars
<1> QED
  BY <1>1
     DEF EInv, edge_vars, EdgesDrawn, SatisfactionBacked, Unsatisfied, CurrentWaiting,
         VerifiedForDependency, EvidenceNotBypassed

LEMMA StandingSteps ==
  ASSUME EInv, StandingNext
  PROVE  EInv'
<1> USE DEF EInv, DependenciesTypeOK
<1>1. UNCHANGED <<now, task, edge, satisfied, tied>>
  BY DEF StandingNext, registry_vars, edge_vars
<1>2. /\ life' \in [Message -> LifeStates]
      /\ \A m \in Message : life'[m] = "verified" <=> life[m] = "verified"
  BY DEF StandingNext, BecomesSubmitted, LoseStanding, LifeStates
<1>3. DependenciesTypeOK'
  BY <1>1, <1>2 DEF TaskTypeOK
<1>4. SatisfactionBacked'
  BY <1>1, <1>2 DEF SatisfactionBacked, Unsatisfied, CurrentWaiting, SatisfactionType
<1> QED
  BY <1>1, <1>2, <1>3, <1>4
     DEF EdgesDrawn, VerifiedForDependency, EvidenceNotBypassed, Unsatisfied

\* A new version of an edge leaves everything else alone and is never one of a
\* satisfied edge.
LEMMA EdgeSteps ==
  ASSUME EInv, NEW d \in Dependency, NEW version \in 1..MaxVersion, NEW p \in Principal,
         \/ \E terms \in Terms : CreateDependencyEdge(d, version, p, terms)
         \/ RevokeDependencyEdge(d, version, p)
  PROVE  EInv' /\ Unsatisfied(d) /\ edge'[d].version = edge[d].version + 1
               /\ UNCHANGED <<now, task, life, satisfied, tied>>
               /\ \A e \in Dependency \ {d} : edge'[e] = edge[e]
<1> USE DEF EInv, DependenciesTypeOK
<1> DEFINE Goal == /\ Unsatisfied(d)
                   /\ UNCHANGED <<now, task, life, satisfied, tied>>
                   /\ edge' \in [Dependency -> EdgeType]
                   /\ edge'[d].terms \in Terms
                   /\ edge'[d].version = edge[d].version + 1
                   /\ \A e \in Dependency \ {d} : edge'[e] = edge[e]
<1>1. ASSUME NEW terms \in Terms, CreateDependencyEdge(d, version, p, terms) PROVE Goal
  <2>1. Unsatisfied(d)
    BY <1>1 DEF CreateDependencyEdge, SatisfactionBacked, CurrentWaiting
  <2>2. [version |-> version, status |-> "waiting", by |-> p, terms |-> terms] \in EdgeType
    BY DependencyAssumption DEF EdgeType
  <2> QED
    BY <1>1, <2>1, <2>2 DEF CreateDependencyEdge, registry_vars
<1>2. ASSUME RevokeDependencyEdge(d, version, p) PROVE Goal
  <2>1. edge[d] \in EdgeType /\ edge[d].terms \in Terms /\ version = edge[d].version
    BY <1>2 DEF RevokeDependencyEdge, CurrentWaiting, EdgesDrawn
  <2>2. [version |-> version + 1, status |-> "revoked", by |-> p, terms |-> edge[d].terms]
          \in EdgeType
    BY <2>1 DEF EdgeType
  <2> QED
    BY <1>2, <2>1, <2>2 DEF RevokeDependencyEdge, registry_vars
<1>3. Goal
  BY <1>1, <1>2
<1>4. DependenciesTypeOK'
  BY <1>3 DEF TaskTypeOK
<1>5. EdgesDrawn'
  BY <1>3 DEF EdgesDrawn
<1>6. SatisfactionBacked'
  BY <1>3 DEF SatisfactionBacked, Unsatisfied, CurrentWaiting
<1>7. VerifiedForDependency' /\ EvidenceNotBypassed'
  BY <1>3 DEF VerifiedForDependency, EvidenceNotBypassed, Unsatisfied
<1> QED
  BY <1>3, <1>4, <1>5, <1>6, <1>7

LEMMA BindStep ==
  ASSUME EInv, NEW d \in Dependency, NEW version \in 1..MaxVersion, NEW p \in Principal,
         BindGitEvidenceDependency(d, version, p)
  PROVE  EInv' /\ tied[d] = 0 /\ UNCHANGED <<now, task, life, edge, satisfied>>
               /\ \A e \in Dependency \ {d} : tied'[e] = tied[e]
<1> USE DEF EInv, DependenciesTypeOK, BindGitEvidenceDependency, registry_vars
<1>1. DependenciesTypeOK'
  BY DEF TaskTypeOK
<1>2. EdgesDrawn' /\ SatisfactionBacked' /\ VerifiedForDependency'
  BY DEF EdgesDrawn, SatisfactionBacked, Unsatisfied, CurrentWaiting, VerifiedForDependency
<1>3. EvidenceNotBypassed'
  BY DEF EvidenceNotBypassed, Unsatisfied
<1> QED
  BY <1>1, <1>2, <1>3

\* What a satisfaction does, by either operation.
LEMMA SatisfyStep ==
  ASSUME EInv, NEW d \in Dependency, NEW version \in 1..MaxVersion, NEW m \in Message,
         SatisfyDependencyEdge(d, version, m) \/ FinalizeGitEvidenceDependency(d, version, m)
  PROVE  /\ EInv'
         /\ Satisfies(d, version, m)
         /\ edge[d].terms.dependent \in Incarnation
         /\ satisfied'[d].message = m
         /\ \A e \in Dependency \ {d} : satisfied'[e] = satisfied[e]
<1> USE DEF EInv, DependenciesTypeOK
<1>1. Satisfies(d, version, m) /\ tied[d] \in {0, version}
  BY DEF SatisfyDependencyEdge, FinalizeGitEvidenceDependency
<1> DEFINE i == edge[d].terms.dependent
<1>2. i \in Incarnation
  BY <1>1, TermsUsed DEF Satisfies, CurrentWaiting, EdgesDrawn
<1>3. UNCHANGED <<now, edge, tied>> /\ Unsatisfied(d)
      /\ CurrentWaiting(d, version) /\ Matches(edge[d].terms, Event[m])
      /\ \A e \in Dependency : satisfied[e].message # m
  BY <1>1 DEF Satisfies
<1>4. task' \in [Incarnation -> TaskType]
  <2>1. Unlocks(i) \/ UNCHANGED task
    BY <1>1 DEF Satisfies, Ready
  <2> QED
    BY <1>2, <2>1, UnlockKeeps
<1>5. /\ satisfied' \in [Dependency -> SatisfactionType]
      /\ satisfied'[d].message = m /\ satisfied'[d].version = version
      /\ \A e \in Dependency \ {d} : satisfied'[e] = satisfied[e]
  BY <1>1 DEF Satisfies, SatisfactionType
<1>6. /\ life' \in [Message -> LifeStates]
      /\ life'[m] = "verified"
      /\ \A n \in Message \ {m} : life'[n] = life[n]
  BY <1>1 DEF Satisfies, BecomesVerified, LifeStates
<1>7. DependenciesTypeOK'
  BY <1>3, <1>4, <1>5, <1>6 DEF TaskTypeOK
<1>8. SatisfactionBacked'
  <2>1. ASSUME NEW e \in Dependency, ~Unsatisfied(e)'
        PROVE  /\ CurrentWaiting(e, satisfied[e].version)'
               /\ life'[satisfied'[e].message] = "verified"
               /\ Matches(edge'[e].terms, Event[satisfied'[e].message])
               /\ \A f \in Dependency \ {e} : satisfied'[f].message # satisfied'[e].message
    <3>1. CASE e = d
      BY <1>3, <1>5, <1>6, <3>1 DEF CurrentWaiting
    <3>2. CASE e # d
      <4>1. satisfied'[e] = satisfied[e] /\ ~Unsatisfied(e)
        BY <1>5, <2>1, <3>2 DEF Unsatisfied
      <4>2. satisfied[e].message \in Message \ {m}
        BY <1>3, <4>1 DEF Unsatisfied, SatisfactionType
      <4> QED
        BY <1>3, <1>5, <1>6, <3>2, <4>1, <4>2 DEF SatisfactionBacked, CurrentWaiting
    <3> QED
      BY <3>1, <3>2
  <2> QED
    BY <2>1 DEF SatisfactionBacked
<1>9. VerifiedForDependency'
  <2>1. \A e \in Dependency : satisfied[e].message \in Message => e # d
    BY <1>3, DependencyAssumption DEF Unsatisfied
  <2> QED
    BY <1>5, <1>6, <2>1 DEF VerifiedForDependency
<1>10. EdgesDrawn' /\ EvidenceNotBypassed'
  BY <1>1, <1>3, <1>5 DEF EdgesDrawn, EvidenceNotBypassed, Unsatisfied
<1> QED
  BY <1>1, <1>2, <1>5, <1>7, <1>8, <1>9, <1>10

LEMMA EInvStep ==
  ASSUME EInv, [DependenciesNext]_dep_vars
  PROVE  EInv'
<1>1. CASE TaskNext /\ UNCHANGED <<life, edge_vars>>
  BY <1>1, TaskSteps
<1>2. CASE StandingNext
  BY <1>2, StandingSteps
<1>3. CASE EdgeNext
  BY <1>3, EdgeSteps, BindStep, SatisfyStep DEF EdgeNext
<1>4. CASE UNCHANGED dep_vars
  BY <1>4
     DEF dep_vars, registry_vars, edge_vars, EInv, DependenciesTypeOK, TaskTypeOK, EdgesDrawn,
         SatisfactionBacked, Unsatisfied, CurrentWaiting, VerifiedForDependency,
         EvidenceNotBypassed
<1> QED
  BY <1>1, <1>2, <1>3, <1>4 DEF DependenciesNext

THEOREM EdgesInductive == DependenciesSpec => []EInv
<1> QED
  BY EInvInit, EInvStep, PTL DEF DependenciesSpec

\* Every row of the tables has its shape.
THEOREM DependenciesTypeCorrect == DependenciesSpec => []DependenciesTypeOK
<1>1. EInv => DependenciesTypeOK
  BY DEF EInv
<1> QED
  BY <1>1, EdgesInductive, PTL

\* Nothing that happens to edges, tasks or messages leaves a satisfaction
\* without its edge or its verified message, or a message verified for nothing.
THEOREM SatisfactionsBacked ==
  DependenciesSpec => [](SatisfactionBacked /\ VerifiedForDependency)
<1>1. EInv => SatisfactionBacked /\ VerifiedForDependency
  BY DEF EInv
<1> QED
  BY <1>1, EdgesInductive, PTL

\* An edge tied to an evidence chain is satisfied in the tied version only.
THEOREM EvidenceBinds == DependenciesSpec => []EvidenceNotBypassed
<1>1. EInv => EvidenceNotBypassed
  BY DEF EInv
<1> QED
  BY <1>1, EdgesInductive, PTL

\* Satisfactions, verified messages and ties stand for each other.
THEOREM SatisfactionsStand == DependenciesSpec => []SatisfactionsSound
<1>1. EInv => SatisfactionsSound
  BY DEF EInv, SatisfactionsSound
<1> QED
  BY <1>1, EdgesInductive, PTL

\* Only a satisfaction changes the satisfactions.
LEMMA OnlySatisfactionSatisfies ==
  ASSUME EInv, DependenciesNext, satisfied' # satisfied
  PROVE  \E d \in Dependency, version \in 1..MaxVersion, m \in Message :
           SatisfyDependencyEdge(d, version, m) \/ FinalizeGitEvidenceDependency(d, version, m)
<1>1. CASE EdgeNext
  BY <1>1, EdgeSteps, BindStep DEF EdgeNext
<1>2. CASE ~EdgeNext
  BY <1>2 DEF DependenciesNext, StandingNext, edge_vars
<1> QED
  BY <1>1, <1>2

\* An edge changes only to its next version and never once it was satisfied;
\* satisfactions and ties are kept.
THEOREM EdgesAreFences == DependenciesSpec => EdgesFenced
<1> DEFINE Kept(d) ==
      /\ edge'[d] # edge[d] =>
           Unsatisfied(d) /\ Unsatisfied(d)' /\ edge'[d].version = edge[d].version + 1
      /\ ~Unsatisfied(d) => satisfied'[d] = satisfied[d]
      /\ tied[d] # 0 => tied'[d] = tied[d]
<1>1. ASSUME EInv, DependenciesNext, NEW d \in Dependency PROVE Kept(d)
  <2>1. CASE UNCHANGED edge_vars
    BY <2>1 DEF edge_vars
  <2>2. CASE EdgeNext
    <3> PICK c \in Dependency, version \in 1..MaxVersion :
          \/ \E p \in Principal :
               \/ \E terms \in Terms : CreateDependencyEdge(c, version, p, terms)
               \/ RevokeDependencyEdge(c, version, p)
               \/ BindGitEvidenceDependency(c, version, p)
          \/ \E m \in Message :
               \/ SatisfyDependencyEdge(c, version, m)
               \/ FinalizeGitEvidenceDependency(c, version, m)
      BY <2>2 DEF EdgeNext
    <3>1. ASSUME NEW p \in Principal,
                 \/ \E terms \in Terms : CreateDependencyEdge(c, version, p, terms)
                 \/ RevokeDependencyEdge(c, version, p)
          PROVE  Kept(d)
      BY <1>1, <3>1, EdgeSteps DEF Unsatisfied
    <3>2. ASSUME NEW p \in Principal, BindGitEvidenceDependency(c, version, p) PROVE Kept(d)
      BY <1>1, <3>2, BindStep
    <3>3. ASSUME NEW m \in Message,
                 \/ SatisfyDependencyEdge(c, version, m)
                 \/ FinalizeGitEvidenceDependency(c, version, m)
          PROVE  Kept(d)
      <4>1. /\ UNCHANGED <<edge, tied>>
            /\ Unsatisfied(c)
            /\ \A e \in Dependency \ {c} : satisfied'[e] = satisfied[e]
        BY <1>1, <3>3, SatisfyStep DEF Satisfies
      <4> QED
        BY <4>1
    <3> QED
      BY <3>1, <3>2, <3>3
  <2> QED
    BY <1>1, <2>1, <2>2 DEF DependenciesNext, StandingNext
<1>2. EInv /\ [DependenciesNext]_dep_vars => [\A d \in Dependency : Kept(d)]_dep_vars
  BY <1>1
<1> QED
  BY <1>2, EdgesInductive, PTL DEF DependenciesSpec, EdgesFenced

\* A dependent becomes ready only when every current edge it waits on was
\* satisfied by a verified message of that edge's prerequisite to it.
THEOREM UnlocksAreSound == DependenciesSpec => UnlockSound
<1> DEFINE Sound(i) == UnlockedBySatisfaction(i) =>
      /\ task'[i].word = "ready" /\ Active(i)
      /\ \A d \in WaitsOn(i) :
           /\ SatisfiedAt(satisfied', d)
           /\ life'[satisfied'[d].message] = "verified"
           /\ Event[satisfied'[d].message].sender = edge[d].terms.prerequisite
           /\ Event[satisfied'[d].message].target = i
<1>1. ASSUME EInv, DependenciesNext, NEW i \in Incarnation, UnlockedBySatisfaction(i)
      PROVE  Sound(i)
  <2> PICK c \in Dependency, version \in 1..MaxVersion, m \in Message :
        SatisfyDependencyEdge(c, version, m) \/ FinalizeGitEvidenceDependency(c, version, m)
    BY <1>1, OnlySatisfactionSatisfies DEF UnlockedBySatisfaction
  <2>1. EInv' /\ Satisfies(c, version, m) /\ edge[c].terms.dependent \in Incarnation
    BY <1>1, SatisfyStep
  <2>2. /\ i = edge[c].terms.dependent
        /\ task'[i].word = "ready"
        /\ ~Remaining(satisfied', i)
        /\ Active(i)
    <3>1. PICK j \in Incarnation : j = edge[c].terms.dependent
      BY <2>1
    <3>2. Active(j) /\ Ready(j)
      BY <2>1, <3>1 DEF Satisfies
    <3>3. task'[i] # task[i]
      BY <1>1 DEF UnlockedBySatisfaction
    <3>4. ~Remaining(satisfied', j) /\ Unlocks(j)
      BY <3>2, <3>3 DEF Ready
    <3>5. task \in [Incarnation -> TaskType]
      BY <1>1 DEF EInv, DependenciesTypeOK, TaskTypeOK
    <3>6. task'[j].word = "ready" /\ \A o \in Incarnation \ {j} : task'[o] = task[o]
      BY <3>4, <3>5 DEF Unlocks, TaskType
    <3>7. i = j
      BY <3>3, <3>6
    <3> QED
      BY <3>1, <3>2, <3>4, <3>6, <3>7
  <2>3. ASSUME NEW d \in WaitsOn(i)
        PROVE  /\ SatisfiedAt(satisfied', d)
               /\ life'[satisfied'[d].message] = "verified"
               /\ Event[satisfied'[d].message].sender = edge[d].terms.prerequisite
               /\ Event[satisfied'[d].message].target = i
    <3>1. SatisfiedAt(satisfied', d) /\ d \in Dependency /\ edge[d].terms.dependent = i
      BY <2>2 DEF Remaining, WaitsOn
    <3>2. /\ life'[satisfied'[d].message] = "verified"
          /\ Matches(edge'[d].terms, Event[satisfied'[d].message])
      BY <2>1, <3>1 DEF EInv, SatisfactionBacked, Unsatisfied, SatisfiedAt
    <3>3. edge' = edge
      BY <2>1 DEF Satisfies
    <3> QED
      BY <3>1, <3>2, <3>3 DEF Matches
  <2> QED
    BY <2>2, <2>3
<1>2. EInv /\ [DependenciesNext]_dep_vars => [\A i \in Incarnation : Sound(i)]_dep_vars
  <2>1. ASSUME EInv, DependenciesNext, NEW i \in Incarnation PROVE Sound(i)
    BY <1>1, <2>1
  <2> QED
    BY <2>1
<1> QED
  BY <1>2, EdgesInductive, PTL DEF DependenciesSpec, UnlockSound

\* The edges use the registry and the standing of messages as those modules
\* promise them: what holds of either holds here.
THEOREM KeepsRegistryAndStanding == DependenciesSpec => RegistrySpec /\ LifeSpec
<1>1. DependenciesInit => RegistryInit /\ LifeInit
  BY DEF DependenciesInit
<1>2. EInv /\ [DependenciesNext]_dep_vars =>
        /\ [TaskNext \/ TaskElsewhere]_registry_vars
        /\ [LifeNext]_life
  <2>1. CASE UNCHANGED dep_vars \/ StandingNext \/ (TaskNext /\ UNCHANGED <<life, edge_vars>>)
    BY <2>1 DEF dep_vars, StandingNext, LifeNext
  <2>2. ASSUME EInv, NEW d \in Dependency, NEW version \in 1..MaxVersion, NEW p \in Principal,
               \/ \E terms \in Terms : CreateDependencyEdge(d, version, p, terms)
               \/ RevokeDependencyEdge(d, version, p)
               \/ BindGitEvidenceDependency(d, version, p)
        PROVE  UNCHANGED registry_vars /\ UNCHANGED life
    BY <2>2 DEF CreateDependencyEdge, RevokeDependencyEdge, BindGitEvidenceDependency
  <2>3. ASSUME EInv, NEW d \in Dependency, NEW version \in 1..MaxVersion, NEW m \in Message,
               SatisfyDependencyEdge(d, version, m) \/ FinalizeGitEvidenceDependency(d, version, m)
        PROVE  [TaskElsewhere]_registry_vars /\ LifeNext
    <3>1. Satisfies(d, version, m) /\ edge[d].terms.dependent \in Incarnation
      BY <2>3, SatisfyStep
    <3>2. LifeNext
      BY <3>1 DEF Satisfies, LifeNext
    <3>3. UnlockTask \/ UNCHANGED registry_vars
      BY <3>1 DEF Satisfies, Ready, UnlockTask, Active, registry_vars
    <3> QED
      BY <3>2, <3>3 DEF TaskElsewhere
  <2> QED
    BY <2>1, <2>2, <2>3 DEF DependenciesNext, EdgeNext
<1> QED
  BY <1>1, <1>2, EdgesInductive, PTL DEF DependenciesSpec, RegistrySpec, LifeSpec

(***************************************************************************)
(* The evidence chains: their inductive invariant.                         *)
(***************************************************************************)
EvidenceTypes ==
  /\ run \in [Execution -> RunType]
  /\ chain \in [Chain -> ChainType]
  /\ head \in [Execution -> Seq(Record)]
  /\ named \in [Execution -> 0..4]
  /\ bound \in [Chain -> Dependency \cup {NoDependency}]
  /\ final \in [Chain -> SUBSET FinalType]

Records(c) == chain[c].records

\* A chain that is not required has nothing; the records build on each other; one that
\* was finalized is complete and backed; the tasks are those that were pinned, or later.
ChainSound(c) ==
  /\ ~chain[c].required => Records(c) = <<>> /\ bound[c] = NoDependency
  /\ Len(Records(c)) <= 4
  /\ Len(Records(c)) >= 2 => Records(c)[2].on = Records(c)[1].commit
  /\ Len(Records(c)) >= 3 => /\ Records(c)[3].on = Records(c)[1].commit
                             /\ Records(c)[3].finding = Records(c)[2].finding
  /\ final[c] # {} => Len(Records(c)) = 4 /\ \A k \in 1..4 : Backed(c, k)

PinsSound(c) ==
  chain[c].required => \A r \in Role : /\ Holder(c, r).status # "unregistered"
                                       /\ chain[c].pins[r].rev <= Holder(c, r).rev

\* A tie is of a version that was drawn.
TiesDrawn == \A d \in Dependency : tied[d] # 0 => tied[d] <= edge[d].version

EvidenceInv ==
  /\ EInv /\ EvidenceTypes
  /\ \A c \in Chain : ChainSound(c) /\ PinsSound(c)
  /\ TiesDrawn /\ BoundOneToOne
  /\ SatisfiedByChain /\ PromotedForRecord

(***************************************************************************)
(* What a record, a chain and a turn keep in a step.                       *)
(***************************************************************************)
LEMMA PrefixKept ==
  ASSUME NEW S, NEW s \in Seq(S), NEW t \in Seq(S), Len(s) <= Len(t),
         \A k \in 1..Len(s) : t[k] = s[k], NEW n \in 0..Len(s)
  PROVE  SubSeq(t, 1, n) = SubSeq(s, 1, n)
<1>1. Len(s) \in Nat /\ Len(t) \in Nat /\ n \in Nat /\ n <= Len(s) /\ n <= Len(t)
  OBVIOUS
<1>2. /\ SubSeq(s, 1, n) = [k \in 1..n |-> s[k]]
      /\ SubSeq(t, 1, n) = [k \in 1..n |-> t[k]]
  BY <1>1
<1>3. \A k \in 1..n : t[k] = s[k]
  BY <1>1
<1> QED
  BY <1>2, <1>3

\* A chain keeps its records and takes at most one more; one that is complete, or bound,
\* stays as it is.
SteadyChain(c) ==
  /\ chain[c].required => chain'[c].required /\ chain'[c].pins = chain[c].pins
  /\ Len(Records(c)) <= Len(Records(c)') /\ Len(Records(c)') <= Len(Records(c)) + 1
  /\ \A k \in 1..Len(Records(c)) : Records(c)'[k] = Records(c)[k]
  /\ Len(Records(c)) = 4 => final'[c] = final[c]
  /\ bound[c] # NoDependency => bound'[c] = bound[c]

\* A turn that was promoted stays so; one that is, is so for the record it brings.
SteadyTurn(e) ==
  /\ run[e].state = "promoted" =>
       run'[e] = run[e] /\ head'[e] = head[e] /\ named'[e] = named[e]
  /\ run[e].state # "promoted" /\ run'[e].state = "promoted" =>
       Len(head'[e]) = Len(Records(ChainOf[e])) + 1

Steady ==
  /\ \A c \in Chain : SteadyChain(c)
  /\ \A e \in Execution : SteadyTurn(e)

LEMMA BackedStays ==
  ASSUME EvidenceTypes, EvidenceTypes', Steady, NEW c \in Chain, NEW k \in 1..Len(Records(c))
  PROVE  Backed(c, k)' <=> Backed(c, k)
<1>1. /\ Records(c) \in Seq(Record) /\ Records(c)' \in Seq(Record)
      /\ Len(Records(c)) <= Len(Records(c)')
      /\ \A n \in 1..Len(Records(c)) : Records(c)'[n] = Records(c)[n]
  BY DEF EvidenceTypes, Records, ChainType, Steady, SteadyChain
<1>2. PICK s \in Seq(Record) : s = Records(c)
  BY <1>1
<1>3. Len(s) \in Nat /\ k \in 0..Len(s) /\ k \in Nat /\ k <= Len(s)
  BY <1>2
<1>4. SubSeq(Records(c)', 1, k) = SubSeq(s, 1, k)
  <2>1. \A t \in Seq(Record) : Len(s) <= Len(t) /\ (\A n \in 1..Len(s) : t[n] = s[n])
          => SubSeq(t, 1, k) = SubSeq(s, 1, k)
    BY <1>3, PrefixKept
  <2> QED
    BY <1>1, <1>2, <2>1
<1>5. Len(SubSeq(s, 1, k)) = k
  BY <1>3
<1>6. Records(c)'[k] = s[k]
  BY <1>1, <1>2
<1>7. ASSUME NEW e \in Execution, ChainOf[e] = c
      PROVE  run'[e].state = "promoted" /\ head'[e] = SubSeq(s, 1, k)
             <=> run[e].state = "promoted" /\ head[e] = SubSeq(s, 1, k)
  <2>1. CASE run[e].state = "promoted"
    BY <2>1 DEF Steady, SteadyTurn
  <2>2. CASE run[e].state # "promoted" /\ run'[e].state = "promoted"
    <3>1. Len(head'[e]) = Len(s) + 1
      BY <1>2, <1>7, <2>2 DEF Steady, SteadyTurn
    <3> QED
      BY <1>3, <1>5, <2>2, <3>1
  <2> QED
    BY <2>1, <2>2
<1>8. \A e \in Execution : run[e].state = "promoted" => run'[e] = run[e]
  BY DEF Steady, SteadyTurn
<1> QED
  BY <1>2, <1>4, <1>6, <1>7, <1>8 DEF Backed, Called, Records

(***************************************************************************)
(* The actions on turns and chains.                                        *)
(***************************************************************************)
LEMMA RoleStages == Len(Stage) = 4 /\ \A k \in 1..4 : StageRole[k] \in Role
BY DEF StageRole, Role, Stage

\* The chain after a record.
LEMMA Appended ==
  ASSUME EvidenceTypes, NEW c \in Chain, ChainSound(c), NEW record \in Record,
         NEW count, Appends(c, count, record)
  PROVE  /\ chain' \in [Chain -> ChainType]
         /\ \A o \in Chain \ {c} : chain'[o] = chain[o]
         /\ chain[c].required /\ chain'[c].required
         /\ chain'[c].by = chain[c].by /\ chain'[c].pins = chain[c].pins
         /\ count = Len(Records(c)) /\ count \in 0..3
         /\ Records(c)' \in Seq(Record) /\ Len(Records(c)') = count + 1
         /\ \A k \in 1..count : Records(c)'[k] = Records(c)[k]
         /\ Records(c)'[count + 1] = record
         /\ Follows(Records(c), record) /\ Pinned(c, StageRole[count + 1])
<1>1. PICK old \in ChainType : old = chain[c]
  BY DEF EvidenceTypes
<1>2. PICK s \in Seq(Record) : s = old.records
  BY <1>1 DEF ChainType
<1>3. PICK t \in Seq(Record) : t = Append(s, record)
  BY AppendProperties
<1>4. PICK new \in ChainType : /\ new = [old EXCEPT !.records = t]
                               /\ new.records = t /\ new.required = old.required
                               /\ new.by = old.by /\ new.pins = old.pins
  <2>1. [old EXCEPT !.records = t] \in ChainType
    BY DEF ChainType
  <2> QED
    BY <2>1 DEF ChainType
<1>5. chain' = [chain EXCEPT ![c] = new]
  BY <1>1, <1>2, <1>3, <1>4 DEF Appends, EvidenceTypes
<1>6. /\ chain' \in [Chain -> ChainType] /\ chain'[c] = new
      /\ \A o \in Chain \ {c} : chain'[o] = chain[o]
  BY <1>5 DEF EvidenceTypes
<1>7. /\ Len(t) = Len(s) + 1 /\ Len(s) \in Nat /\ t[Len(s) + 1] = record
      /\ \A k \in 1..Len(s) : t[k] = s[k]
  BY <1>3, AppendProperties
<1>8. count = Len(s) /\ count < 4 /\ old.required
  <2>1. chain[c].required /\ count = Len(chain[c].records) /\ count < Len(Stage)
    BY DEF Appends
  <2> QED
    BY <1>1, <1>2, <2>1, RoleStages
<1>9. Records(c) = s /\ Records(c)' = t
  BY <1>1, <1>2, <1>4, <1>6 DEF Records
<1>10. Follows(Records(c), record) /\ Pinned(c, StageRole[count + 1])
  BY DEF Appends, Records
<1>11. count \in 0..3
  BY <1>7, <1>8
<1>12. /\ chain[c].required /\ chain'[c].required
       /\ chain'[c].by = chain[c].by /\ chain'[c].pins = chain[c].pins
  BY <1>1, <1>4, <1>6, <1>8
<1> QED
  BY <1>3, <1>6, <1>7, <1>8, <1>9, <1>10, <1>11, <1>12

\* The row of a turn after its steps.
LEMMA TurnOpens ==
  ASSUME EInv, EvidenceTypes, NEW e \in Execution, Opens(e)
  PROVE  /\ run' \in [Execution -> RunType] /\ \A o \in Execution \ {e} : run'[o] = run[o]
         /\ run[e].state = "none" /\ run'[e].state = "open"
<1>1. task[ActorOf[e]] \in TaskType
  BY LifeAssumption DEF EInv, DependenciesTypeOK, TaskTypeOK, LifeAssumption
<1>2. PICK new \in RunType : /\ new.state = "open"
                             /\ new = [state |-> "open", ref |-> task[ActorOf[e]].ref,
                                       rev |-> task[ActorOf[e]].rev, tools |-> <<>>]
  <2>1. <<>> \in Seq(Tool)
    BY EmptySeq
  <2>2. task[ActorOf[e]].ref \in TurnRef /\ task[ActorOf[e]].rev \in Nat
    BY <1>1 DEF Opens, TaskType
  <2> QED
    BY <2>1, <2>2 DEF RunType
<1>3. run' = [run EXCEPT ![e] = new]
  BY <1>2 DEF Opens
<1> QED
  BY <1>2, <1>3 DEF Opens, EvidenceTypes

LEMMA TurnCompletes ==
  ASSUME EvidenceTypes, NEW e \in Execution, NEW tools \in ToolLists, Completes(e, tools)
  PROVE  /\ run' \in [Execution -> RunType] /\ \A o \in Execution \ {e} : run'[o] = run[o]
         /\ run[e].state = "open" /\ run'[e].state = "completed"
<1>1. tools \in Seq(Tool)
  BY LifeAssumption DEF ToolLists, LifeAssumption
<1>2. PICK old \in RunType : old = run[e]
  BY DEF EvidenceTypes
<1>3. PICK new \in RunType : /\ new = [old EXCEPT !.state = "completed", !.tools = tools]
                             /\ new.state = "completed"
  <2>1. [old EXCEPT !.state = "completed", !.tools = tools] \in RunType
    BY <1>1 DEF RunType
  <2> QED
    BY <2>1 DEF RunType
<1>4. run' = [run EXCEPT ![e] = new]
  BY <1>2, <1>3 DEF Completes, EvidenceTypes
<1> QED
  BY <1>3, <1>4 DEF Completes, EvidenceTypes

LEMMA TurnPromotes ==
  ASSUME EvidenceTypes, NEW e \in Execution, Promotes(e)
  PROVE  /\ run' \in [Execution -> RunType] /\ \A o \in Execution \ {e} : run'[o] = run[o]
         /\ run[e].state = "completed" /\ run'[e].state = "promoted"
         /\ run'[e].tools = run[e].tools
<1>1. PICK old \in RunType : old = run[e]
  BY DEF EvidenceTypes
<1>2. PICK new \in RunType : /\ new = [old EXCEPT !.state = "promoted"]
                             /\ new.state = "promoted" /\ new.tools = old.tools
  <2>1. [old EXCEPT !.state = "promoted"] \in RunType
    BY DEF RunType
  <2> QED
    BY <2>1 DEF RunType
<1>3. run' = [run EXCEPT ![e] = new]
  BY <1>1, <1>2 DEF Promotes, EvidenceTypes
<1> QED
  BY <1>1, <1>2, <1>3 DEF Promotes, EvidenceTypes

LEMMA HolderType ==
  ASSUME EInv, NEW c \in Chain, NEW r \in Role
  PROVE  RolesOf[c][r] \in Incarnation /\ Holder(c, r) \in TaskType
BY ChainAssumption DEF ChainAssumption, Holder, EInv, DependenciesTypeOK, TaskTypeOK

LEMMA RecordsLength ==
  ASSUME EvidenceTypes, NEW c \in Chain
  PROVE  Records(c) \in Seq(Record) /\ Len(Records(c)) \in Nat
BY DEF EvidenceTypes, ChainType, Records

\* Steps of others.
LEMMA SteadyElsewhere ==
  ASSUME EvidenceTypes, UNCHANGED <<run, chain, head, named, final>>,
         bound' \in [Chain -> Dependency \cup {NoDependency}],
         \A c \in Chain : bound[c] # NoDependency => bound'[c] = bound[c]
  PROVE  EvidenceTypes' /\ Steady
<1>1. EvidenceTypes'
  BY DEF EvidenceTypes
<1>2. ASSUME NEW c \in Chain PROVE SteadyChain(c)
  <2>1. Records(c)' = Records(c) /\ Len(Records(c)) \in Nat
    BY RecordsLength DEF Records
  <2> QED
    BY <2>1 DEF SteadyChain
<1> QED
  BY <1>1, <1>2 DEF Steady, SteadyTurn

LEMMA SteadyTurnRuns ==
  ASSUME EInv, EvidenceTypes, \A c \in Chain : Len(Records(c)) <= 4, TurnRuns
  PROVE  EvidenceTypes' /\ Steady /\ \A e \in Execution : run'[e].state = "promoted" => run[e].state = "promoted"
<1>1. UNCHANGED <<chain, head, bound, final>>
  BY DEF TurnRuns
<1>2. PICK e \in Execution :
        \/ Opens(e) /\ UNCHANGED named
        \/ \E tools \in ToolLists, k \in 0..Len(chain[ChainOf[e]].records) :
             Completes(e, tools) /\ named' = [named EXCEPT ![e] = k]
  BY DEF TurnRuns
<1>3. /\ run' \in [Execution -> RunType] /\ \A o \in Execution \ {e} : run'[o] = run[o]
      /\ run[e].state \in {"none", "open"} /\ run'[e].state \in {"open", "completed"}
      /\ named' \in [Execution -> 0..4] /\ \A o \in Execution \ {e} : named'[o] = named[o]
  <2>1. CASE Opens(e) /\ UNCHANGED named
    BY <2>1, TurnOpens DEF EvidenceTypes
  <2>2. CASE \E tools \in ToolLists, k \in 0..Len(chain[ChainOf[e]].records) :
               Completes(e, tools) /\ named' = [named EXCEPT ![e] = k]
    <3>1. PICK tools \in ToolLists, k \in 0..Len(chain[ChainOf[e]].records) :
            Completes(e, tools) /\ named' = [named EXCEPT ![e] = k]
      BY <2>2
    <3>2. k \in 0..4
      <4>1. ChainOf[e] \in Chain
        BY ChainAssumption DEF ChainAssumption
      <4>2. Len(chain[ChainOf[e]].records) \in Nat /\ Len(chain[ChainOf[e]].records) <= 4
        BY <4>1, RecordsLength DEF Records
      <4> QED
        BY <4>2
    <3> QED
      BY <3>1, <3>2, TurnCompletes DEF EvidenceTypes
  <2> QED
    BY <1>2, <2>1, <2>2
<1>4. EvidenceTypes'
  BY <1>1, <1>3 DEF EvidenceTypes
<1>5. ASSUME NEW c \in Chain PROVE SteadyChain(c)
  <2>1. Records(c)' = Records(c) /\ Len(Records(c)) \in Nat
    BY <1>1, RecordsLength DEF Records
  <2> QED
    BY <1>1, <2>1 DEF SteadyChain
<1>6. \A o \in Execution : SteadyTurn(o) /\ (run'[o].state = "promoted" => run[o].state = "promoted")
  BY <1>1, <1>3 DEF SteadyTurn
<1> QED
  BY <1>4, <1>5, <1>6 DEF Steady

LEMMA SteadyRequire ==
  ASSUME EInv, EvidenceTypes, NEW c \in Chain, ChainSound(c), NEW p \in Principal, RequireChain(c, p)
  PROVE  /\ EvidenceTypes' /\ Steady
         /\ UNCHANGED <<now, task, life, edge, satisfied, tied, run, head, named, bound, final>>
         /\ ~chain[c].required /\ Records(c)' = <<>>
         /\ \A o \in Chain \ {c} : chain'[o] = chain[o]
         /\ \A r \in Role : Holder(c, r).status = "active" /\ chain'[c].pins[r].rev = Holder(c, r).rev
<1>1. /\ ~chain[c].required /\ \A r \in Role : Holder(c, r).status = "active" /\ Holder(c, r).ref \in TurnRef
      /\ UNCHANGED <<now, task, life, edge, satisfied, tied, run, head, named, bound, final>>
  BY DEF RequireChain, dep_vars, registry_vars, edge_vars
<1>2. PICK pins \in [Role -> PinType] :
        pins = [r \in Role |-> [ref |-> Holder(c, r).ref, rev |-> Holder(c, r).rev]]
  <2>1. \A r \in Role : [ref |-> Holder(c, r).ref, rev |-> Holder(c, r).rev] \in PinType
    BY <1>1, HolderType DEF TaskType, PinType
  <2> QED
    BY <2>1
<1>3. PICK none \in Seq(Record) : none = <<>>
  BY EmptySeq
<1>4. PICK new \in ChainType : /\ new = [required |-> TRUE, by |-> p, records |-> none, pins |-> pins]
                               /\ new.records = none /\ new.pins = pins /\ new.required
  <2>1. [required |-> TRUE, by |-> p, records |-> none, pins |-> pins] \in ChainType
    BY DEF ChainType
  <2> QED
    BY <2>1, Zenon
<1>5. chain' = [chain EXCEPT ![c] = new]
  BY <1>2, <1>3, <1>4 DEF RequireChain
<1>6. /\ chain' \in [Chain -> ChainType] /\ chain'[c] = new
      /\ \A o \in Chain \ {c} : chain'[o] = chain[o]
  BY <1>5 DEF EvidenceTypes
<1>7. EvidenceTypes'
  BY <1>1, <1>6 DEF EvidenceTypes
<1>8. ASSUME NEW o \in Chain PROVE SteadyChain(o)
  <2>1. CASE o = c
    <3>1. Records(o) = <<>> /\ Records(o)' = <<>> /\ bound[o] = NoDependency
      BY <1>1, <1>3, <1>4, <1>6, <2>1 DEF ChainSound, Records
    <3>2. Len(Records(o)) = 0 /\ Len(Records(o)') = 0
      BY <3>1
    <3> QED
      BY <1>1, <2>1, <3>1, <3>2 DEF SteadyChain
  <2>2. CASE o # c
    <3>1. chain'[o] = chain[o] /\ Records(o)' = Records(o) /\ Len(Records(o)) \in Nat
      BY <1>6, <2>2, RecordsLength DEF Records
    <3> QED
      BY <1>1, <3>1 DEF SteadyChain
  <2> QED
    BY <2>1, <2>2
<1>9. \A e \in Execution : SteadyTurn(e)
  BY <1>1 DEF SteadyTurn
<1>10. \A r \in Role : chain'[c].pins[r].rev = Holder(c, r).rev
  BY <1>2, <1>4, <1>6
<1> QED
  BY <1>1, <1>3, <1>4, <1>6, <1>7, <1>8, <1>9, <1>10 DEF Steady, Records

\* A record appended by whichever operation; the turn and the dependency come with it.
LEMMA SteadyAppends ==
  ASSUME EvidenceTypes, NEW c \in Chain, ChainSound(c), NEW record \in Record,
         NEW count, Appends(c, count, record),
         UNCHANGED bound, \A o \in Chain : Len(Records(o)) = 4 => final'[o] = final[o]
  PROVE  \A o \in Chain : SteadyChain(o)
<1>1. /\ \A o \in Chain \ {c} : chain'[o] = chain[o]
      /\ chain'[c].required /\ chain'[c].pins = chain[c].pins
      /\ count = Len(Records(c)) /\ count \in 0..3
      /\ Len(Records(c)') = count + 1
      /\ \A k \in 1..count : Records(c)'[k] = Records(c)[k]
  BY Appended
<1>2. ASSUME NEW o \in Chain PROVE SteadyChain(o)
  <2>1. CASE o = c
    BY <1>1, <2>1 DEF SteadyChain
  <2>2. CASE o # c
    <3>1. chain'[o] = chain[o] /\ Records(o)' = Records(o) /\ Len(Records(o)) \in Nat
      BY <1>1, <2>2, RecordsLength DEF Records
    <3> QED
      BY <3>1 DEF SteadyChain
  <2> QED
    BY <2>1, <2>2
<1> QED
  BY <1>2

LEMMA SteadyRecord ==
  ASSUME EvidenceTypes, NEW c \in Chain, ChainSound(c), NEW record \in Record,
         NEW count, AppendRecord(c, count, record)
  PROVE  /\ EvidenceTypes' /\ Steady /\ Appends(c, count, record)
         /\ UNCHANGED <<now, task, life, edge, satisfied, tied, run, head, named, bound, final>>
<1>1. /\ Appends(c, count, record)
      /\ UNCHANGED <<now, task, life, edge, satisfied, tied, run, head, named, bound, final>>
  BY DEF AppendRecord, dep_vars, registry_vars, edge_vars
<1>2. chain' \in [Chain -> ChainType]
  BY <1>1, Appended
<1>3. EvidenceTypes'
  BY <1>1, <1>2 DEF EvidenceTypes
<1>4. \A o \in Chain : SteadyChain(o)
  BY <1>1, SteadyAppends
<1>5. \A e \in Execution : SteadyTurn(e)
  BY <1>1 DEF SteadyTurn
<1> QED
  BY <1>1, <1>3, <1>4, <1>5 DEF Steady

\* A turn is promoted with the record of one of its calls.
PromotedWith(e, n, count, record) ==
  LET c == ChainOf[e] IN
  /\ ActorOf[e] = RolesOf[c][StageRole[count + 1]]
  /\ Called(e, n, StageTool[count + 1])
  /\ record.call = <<e, n>> /\ record.call # Foreign
  /\ Appends(c, count, record)
  /\ Promotes(e)
  /\ head' = [head EXCEPT ![e] = chain'[c].records]
  /\ UNCHANGED <<named, bound>>

LEMMA SteadyPromotion ==
  ASSUME EvidenceTypes, NEW e \in Execution, ChainSound(ChainOf[e]), NEW n, NEW count,
         NEW record \in Record, PromotedWith(e, n, count, record),
         final' \in [Chain -> SUBSET FinalType],
         \A o \in Chain : Len(Records(o)) = 4 => final'[o] = final[o]
  PROVE  /\ EvidenceTypes' /\ Steady
         /\ count = Len(Records(ChainOf[e])) /\ count \in 0..3
         /\ run[e].state = "completed" /\ run'[e].state = "promoted"
         /\ \A o \in Execution \ {e} : run'[o] = run[o]
         /\ head'[e] = Records(ChainOf[e])' /\ Records(ChainOf[e])'[count + 1] = record
         /\ Len(Records(ChainOf[e])') = count + 1
         /\ Backed(ChainOf[e], count + 1)'
<1>1. PICK c \in Chain : c = ChainOf[e]
  BY ChainAssumption DEF ChainAssumption
<1>2. /\ Appends(c, count, record) /\ Promotes(e) /\ UNCHANGED <<named, bound>>
      /\ ActorOf[e] = RolesOf[c][StageRole[count + 1]]
      /\ Called(e, n, StageTool[count + 1])
      /\ record.call = <<e, n>> /\ record.call # Foreign
      /\ head' = [head EXCEPT ![e] = chain'[c].records]
  BY <1>1 DEF PromotedWith
<1>3. /\ chain' \in [Chain -> ChainType]
      /\ count = Len(Records(c)) /\ count \in 0..3
      /\ Records(c)' \in Seq(Record) /\ Len(Records(c)') = count + 1
      /\ Records(c)'[count + 1] = record
  BY <1>1, <1>2, Appended
<1>4. /\ run' \in [Execution -> RunType] /\ \A o \in Execution \ {e} : run'[o] = run[o]
      /\ run[e].state = "completed" /\ run'[e].state = "promoted"
      /\ run'[e].tools = run[e].tools
  BY <1>2, TurnPromotes
<1>5. PICK t \in Seq(Record) : t = Records(c)'
  BY <1>3
<1>6. /\ head' \in [Execution -> Seq(Record)] /\ head'[e] = t
      /\ \A o \in Execution \ {e} : head'[o] = head[o]
  <2>1. head' = [head EXCEPT ![e] = t]
    BY <1>2, <1>5 DEF Records
  <2> QED
    BY <2>1 DEF EvidenceTypes
<1>7. EvidenceTypes'
  BY <1>2, <1>3, <1>4, <1>6 DEF EvidenceTypes
<1>8. \A o \in Chain : SteadyChain(o)
  BY <1>1, <1>2, SteadyAppends
<1>9. ASSUME NEW o \in Execution PROVE SteadyTurn(o)
  <2>1. CASE o = e
    BY <1>1, <1>3, <1>4, <1>5, <1>6, <2>1 DEF SteadyTurn
  <2>2. CASE o # e
    BY <1>2, <1>4, <1>6, <2>2 DEF SteadyTurn
  <2> QED
    BY <2>1, <2>2
<1>10. Backed(c, count + 1)'
  <2>1. SubSeq(t, 1, count + 1) = t
    BY <1>3, <1>5
  <2>2. /\ chain'[c].records = t /\ t[count + 1].call = <<e, n>> /\ t[count + 1].call # Foreign
    BY <1>2, <1>3, <1>5 DEF Records
  <2>3. Called(e, n, StageTool[count + 1])'
    BY <1>2, <1>4 DEF Called
  <2> QED
    BY <1>1, <1>2, <1>4, <1>6, <2>1, <2>2, <2>3 DEF Backed
<1> QED
  BY <1>1, <1>3, <1>4, <1>5, <1>6, <1>7, <1>8, <1>9, <1>10 DEF Steady

(***************************************************************************)
(* What every step keeps.                                                  *)
(***************************************************************************)
LEMMA ChainKept ==
  ASSUME EvidenceTypes, EvidenceTypes', Steady, NEW c \in Chain, ChainSound(c),
         chain'[c] = chain[c], final'[c] = final[c],
         chain[c].required \/ bound'[c] = bound[c]
  PROVE  ChainSound(c)'
<1>1. Records(c)' = Records(c) /\ Len(Records(c)) \in Nat
  BY RecordsLength DEF Records
<1>2. final[c] # {} => \A k \in 1..4 : Backed(c, k)'
  BY BackedStays DEF ChainSound
<1> QED
  BY <1>1, <1>2 DEF ChainSound

LEMMA ChainGrows ==
  ASSUME EvidenceTypes, EvidenceTypes', Steady, NEW c \in Chain, ChainSound(c),
         NEW record \in Record, NEW count, Appends(c, count, record),
         final'[c] # {} => count = 3 /\ \A k \in 1..4 : Backed(c, k)'
  PROVE  ChainSound(c)'
<1>1. /\ chain'[c].required
      /\ count = Len(Records(c)) /\ count \in 0..3
      /\ Len(Records(c)') = count + 1
      /\ \A k \in 1..count : Records(c)'[k] = Records(c)[k]
      /\ Records(c)'[count + 1] = record
      /\ Follows(Records(c), record)
  BY Appended
<1>2. Len(Records(c)') <= 4 /\ (final'[c] # {} => Len(Records(c)') = 4)
  <2>1. final'[c] # {} => count = 3
    OBVIOUS
  <2>2. \A k \in 0..3 : k + 1 <= 4 /\ (k = 3 => k + 1 = 4)
    OBVIOUS
  <2> QED
    BY <1>1, <2>1, <2>2, Zenon
<1>3. Len(Records(c)') >= 2 => Records(c)'[2].on = Records(c)'[1].commit
  <2>1. CASE count = 0
    BY <1>1, <2>1
  <2>2. CASE count = 1
    BY <1>1, <2>2 DEF Follows
  <2>3. CASE count \in 2..3
    BY <1>1, <2>3 DEF ChainSound
  <2> QED
    BY <1>1, <2>1, <2>2, <2>3
<1>4. Len(Records(c)') >= 3 => /\ Records(c)'[3].on = Records(c)'[1].commit
                               /\ Records(c)'[3].finding = Records(c)'[2].finding
  <2>1. CASE count \in 0..1
    BY <1>1, <2>1
  <2>2. CASE count = 2
    BY <1>1, <2>2 DEF Follows
  <2>3. CASE count = 3
    BY <1>1, <2>3 DEF ChainSound
  <2> QED
    BY <1>1, <2>1, <2>2, <2>3
<1> QED
  BY <1>1, <1>2, <1>3, <1>4 DEF ChainSound

LEMMA PinsKept ==
  ASSUME EInv, EInv', Steady, \A i \in Incarnation : Fenced(i), NEW c \in Chain, PinsSound(c),
         EvidenceTypes, chain'[c].required => chain[c].required
  PROVE  PinsSound(c)'
<1>1. SUFFICES ASSUME chain'[c].required, NEW r \in Role
               PROVE  /\ Holder(c, r)'.status # "unregistered"
                      /\ chain'[c].pins[r].rev <= Holder(c, r)'.rev
  BY DEF PinsSound
<1>2. /\ Holder(c, r).status # "unregistered" /\ chain[c].pins[r].rev <= Holder(c, r).rev
      /\ chain'[c].pins = chain[c].pins
  BY <1>1 DEF PinsSound, Steady, SteadyChain
<1>3. PICK i \in Incarnation : i = RolesOf[c][r] /\ Fenced(i) /\ task[i] \in TaskType /\ task'[i] \in TaskType
  BY ChainAssumption DEF ChainAssumption, EInv, DependenciesTypeOK, TaskTypeOK
<1>4. task[i].status # "unregistered" => task'[i].status # "unregistered" /\ task[i].rev <= task'[i].rev
  BY <1>3 DEF Fenced, TaskType
<1>5. chain[c].pins[r].rev \in Nat /\ task[i].rev \in Nat /\ task'[i].rev \in Nat
  BY <1>3 DEF EvidenceTypes, ChainType, PinType, TaskType
<1>6. Holder(c, r) = task[i] /\ Holder(c, r)' = task'[i]
  BY <1>3 DEF Holder
<1> QED
  BY <1>2, <1>4, <1>5, <1>6

LEMMA PromotedKept ==
  ASSUME EvidenceTypes, EvidenceTypes', Steady, PromotedForRecord,
         NEW e \in Execution, run[e].state = "promoted"
  PROVE  /\ head'[e] # <<>> /\ Len(head'[e]) <= Len(Records(ChainOf[e])')
         /\ head'[e] = SubSeq(Records(ChainOf[e])', 1, Len(head'[e]))
         /\ Backed(ChainOf[e], Len(head[e]))'
         /\ Records(ChainOf[e])'[Len(head'[e])].call[1] = e
<1>1. PICK c \in Chain : c = ChainOf[e]
  BY ChainAssumption DEF ChainAssumption
<1>2. PICK h \in Seq(Record) : h = head[e] /\ h = head'[e]
  BY DEF Steady, SteadyTurn, EvidenceTypes
<1>3. PICK s \in Seq(Record), t \in Seq(Record) : s = Records(c) /\ t = Records(c)'
  BY RecordsLength DEF EvidenceTypes, Records, ChainType
<1>4. /\ h # <<>> /\ Len(h) <= Len(s) /\ h = SubSeq(s, 1, Len(h))
      /\ Backed(c, Len(h)) /\ s[Len(h)].call[1] = e
  BY <1>1, <1>2, <1>3 DEF PromotedForRecord, Records
<1>5. Len(s) <= Len(t) /\ \A k \in 1..Len(s) : t[k] = s[k]
  BY <1>3 DEF Steady, SteadyChain
<1>6. Len(h) \in 1..Len(s) /\ Len(h) \in 0..Len(s) /\ Len(t) \in Nat /\ Len(s) \in Nat
  BY <1>4
<1>7. SubSeq(t, 1, Len(h)) = SubSeq(s, 1, Len(h))
  BY <1>5, <1>6, PrefixKept
<1>8. Backed(c, Len(h))'
  <2>1. PICK k \in 1..Len(s) : k = Len(h)
    BY <1>6
  <2>2. Backed(c, k)'
    BY <1>3, <1>4, <2>1, BackedStays
  <2> QED
    BY <2>1, <2>2
<1>9. Backed(ChainOf[e], Len(head[e]))'
  BY <1>1, <1>2, <1>8 DEF Backed
<1>10. h = SubSeq(t, 1, Len(h)) /\ Len(h) <= Len(t) /\ t[Len(h)].call[1] = e
  BY <1>4, <1>5, <1>6, <1>7
<1> QED
  BY <1>1, <1>2, <1>3, <1>4, <1>9, <1>10

\* The two properties, of one dependency and of one turn.
ClosedByChain(d) ==
  \E c \in Chain : \E row \in final[c] :
    /\ bound[c] = d /\ row.dependency = d /\ row.message = satisfied[d].message
    /\ Len(Records(c)) = 4 /\ \A k \in 1..4 : Backed(c, k)
    /\ Records(c)[2].on = Records(c)[1].commit /\ Records(c)[3].on = Records(c)[1].commit
    /\ Records(c)[3].finding = Records(c)[2].finding
    /\ Records(c)[4].call[1] = row.execution
    /\ MessageOf[row.execution] = row.message /\ named[row.execution] = 3

LEMMA SatisfiedOne ==
  SatisfiedByChain <=> \A d \in Dependency : ~Unsatisfied(d) /\ tied[d] # 0 => ClosedByChain(d)
BY DEF SatisfiedByChain, ClosedByChain, Records

StandsBehind(e) ==
  /\ head[e] # <<>> /\ Len(head[e]) <= Len(Records(ChainOf[e]))
  /\ head[e] = SubSeq(Records(ChainOf[e]), 1, Len(head[e]))
  /\ Backed(ChainOf[e], Len(head[e])) /\ Records(ChainOf[e])[Len(head[e])].call[1] = e

LEMMA PromotedOne ==
  PromotedForRecord <=> \A e \in Execution : run[e].state = "promoted" => StandsBehind(e)
BY DEF PromotedForRecord, StandsBehind, Records

LEMMA ClosedKept ==
  ASSUME EvidenceTypes, EvidenceTypes', Steady, \A c \in Chain : ChainSound(c)',
         NEW d \in Dependency, ClosedByChain(d), satisfied'[d] = satisfied[d]
  PROVE  ClosedByChain(d)'
<1>chain. PICK c \in Chain : \E row \in final[c] :
        /\ bound[c] = d /\ row.dependency = d /\ row.message = satisfied[d].message
        /\ Len(Records(c)) = 4 /\ \A k \in 1..4 : Backed(c, k)
        /\ Records(c)[2].on = Records(c)[1].commit /\ Records(c)[3].on = Records(c)[1].commit
        /\ Records(c)[3].finding = Records(c)[2].finding
        /\ Records(c)[4].call[1] = row.execution
        /\ MessageOf[row.execution] = row.message /\ named[row.execution] = 3
  BY DEF ClosedByChain
<1>1. PICK row \in final[c] :
        /\ bound[c] = d /\ row.dependency = d /\ row.message = satisfied[d].message
        /\ Len(Records(c)) = 4 /\ \A k \in 1..4 : Backed(c, k)
        /\ Records(c)[2].on = Records(c)[1].commit /\ Records(c)[3].on = Records(c)[1].commit
        /\ Records(c)[3].finding = Records(c)[2].finding
        /\ Records(c)[4].call[1] = row.execution
        /\ MessageOf[row.execution] = row.message /\ named[row.execution] = 3
  BY <1>chain
<1>2. bound'[c] = d /\ row \in final'[c] /\ \A k \in 1..4 : Records(c)'[k] = Records(c)[k]
  <2>1. d # NoDependency
    BY ChainAssumption DEF ChainAssumption
  <2> QED
    BY <1>1, <2>1 DEF Steady, SteadyChain
<1>3. Len(Records(c)') = 4
  <2>0. Records(c)' \in Seq(Record)
    <3>1. chain'[c] \in ChainType
      BY DEF EvidenceTypes
    <3>2. chain'[c].records \in Seq(Record)
      BY <3>1 DEF ChainType
    <3> QED
      BY <3>2 DEF Records
  <2>1. PICK n \in Nat : n = Len(Records(c)')
    <3>1. Len(Records(c)') \in Nat
      BY <2>0
    <3> QED
      BY <3>1
  <2>2. 4 <= n /\ n <= 4
    BY <1>1, <2>1 DEF Steady, SteadyChain, ChainSound
  <2>3. n = 4
    BY <2>2
  <2> QED
    BY <2>1, <2>3
<1>4. \A k \in 1..4 : Backed(c, k)'
  BY <1>1, BackedStays
<1>5. named'[row.execution] = 3
  <2>1. PICK e \in Execution : Records(c)[4].call[1] = e /\ run[e].state = "promoted"
    BY <1>1 DEF Backed, Records
  <2> QED
    BY <1>1, <2>1 DEF Steady, SteadyTurn
<1>6. /\ Records(c)'[1] = Records(c)[1] /\ Records(c)'[2] = Records(c)[2]
      /\ Records(c)'[3] = Records(c)[3] /\ Records(c)'[4] = Records(c)[4]
  BY <1>2
<1> QED
  BY <1>1, <1>2, <1>3, <1>4, <1>5, <1>6 DEF ClosedByChain

\* The invariant after a step, from what the step does of its own.
LEMMA EvidenceAfter ==
  ASSUME EvidenceInv, EInv', EvidenceTypes', Steady, \A c \in Chain : ChainSound(c)' /\ PinsSound(c)',
         TiesDrawn', BoundOneToOne',
         \A d \in Dependency : ~Unsatisfied(d)' /\ tied'[d] # 0 =>
           \/ satisfied'[d] = satisfied[d] /\ tied'[d] = tied[d]
           \/ ClosedByChain(d)',
         \A e \in Execution : run'[e].state = "promoted" =>
           run[e].state = "promoted" \/ StandsBehind(e)'
  PROVE  EvidenceInv'
<1>1. ASSUME NEW d \in Dependency, ~Unsatisfied(d)', tied'[d] # 0 PROVE ClosedByChain(d)'
  <2>1. CASE satisfied'[d] = satisfied[d] /\ tied'[d] = tied[d]
    <3>1. ~Unsatisfied(d) /\ tied[d] # 0
      BY <1>1, <2>1 DEF Unsatisfied
    <3>2. ClosedByChain(d)
      BY <3>1, SatisfiedOne DEF EvidenceInv
    <3> QED
      BY <2>1, <3>2, ClosedKept DEF EvidenceInv
  <2> QED
    BY <1>1, <2>1
<1>2. SatisfiedByChain'
  BY <1>1 DEF SatisfiedByChain, ClosedByChain, Records
<1>3. ASSUME NEW e \in Execution, run'[e].state = "promoted" PROVE StandsBehind(e)'
  <2>1. CASE run[e].state = "promoted"
    <3>1. head'[e] = head[e]
      BY <2>1 DEF Steady, SteadyTurn
    <3> QED
      BY <2>1, <3>1, PromotedKept DEF StandsBehind, EvidenceInv
  <2> QED
    BY <1>3, <2>1
<1>4. PromotedForRecord'
  BY <1>3 DEF PromotedForRecord, StandsBehind, Records
<1> QED
  BY <1>2, <1>4 DEF EvidenceInv

\* Edges that move on leave the ties behind.
LEMMA TiesKept ==
  ASSUME EInv, EInv', TiesDrawn, BoundOneToOne, UNCHANGED <<bound, tied>>,
         EvidenceTypes,
         \A d \in Dependency : edge'[d] = edge[d] \/ edge'[d].version = edge[d].version + 1
  PROVE  TiesDrawn' /\ BoundOneToOne'
<1>1. \A d \in Dependency : /\ tied[d] \in Nat /\ edge[d].version \in Nat
                            /\ tied[d] # 0 => tied[d] <= edge[d].version
  BY DEF EInv, DependenciesTypeOK, EdgeType, TiesDrawn
<1>2. \A d \in Dependency : tied[d] # 0 =>
        tied[d] <= edge'[d].version /\ (edge'[d].version = tied[d] => edge'[d] = edge[d])
  <2> SUFFICES ASSUME NEW d \in Dependency, tied[d] # 0
               PROVE  tied[d] <= edge'[d].version /\ (edge'[d].version = tied[d] => edge'[d] = edge[d])
    OBVIOUS
  <2> QED
    BY <1>1
<1>3. TiesDrawn'
  BY <1>2 DEF TiesDrawn
<1>4. ASSUME NEW c \in Chain, bound[c] # NoDependency
      PROVE  /\ tied[bound[c]] # 0 /\ \A o \in Chain \ {c} : bound[o] # bound[c]
             /\ edge'[bound[c]].version = tied[bound[c]] =>
                  edge'[bound[c]].terms.prerequisite = RolesOf[c]["verifier"]
  <2>1. PICK d \in Dependency : d = bound[c]
    BY <1>4 DEF EvidenceTypes
  <2>2. /\ tied[d] # 0 /\ \A o \in Chain \ {c} : bound[o] # bound[c]
        /\ edge[d].version = tied[d] => edge[d].terms.prerequisite = RolesOf[c]["verifier"]
    BY <1>4, <2>1 DEF BoundOneToOne
  <2> QED
    BY <1>2, <2>1, <2>2
<1>5. BoundOneToOne'
  BY <1>4 DEF BoundOneToOne
<1> QED
  BY <1>3, <1>5

(***************************************************************************)
(* Every step keeps the invariant.                                         *)
(***************************************************************************)
TasksFenced == \A i \in Incarnation : Fenced(i)

LEMMA SameTasks ==
  ASSUME UNCHANGED task
  PROVE  TasksFenced
BY DEF TasksFenced, Fenced

LEMMA SatisfyFences ==
  ASSUME EInv, NEW d \in Dependency, NEW version \in 1..MaxVersion, NEW m \in Message,
         SatisfyDependencyEdge(d, version, m) \/ FinalizeGitEvidenceDependency(d, version, m)
  PROVE  TasksFenced
<1>1. Satisfies(d, version, m) /\ edge[d].terms.dependent \in Incarnation
  BY SatisfyStep
<1>2. PICK i \in Incarnation : i = edge[d].terms.dependent
  BY <1>1
<1>3. task[i].status = "active" /\ (Unlocks(i) \/ UNCHANGED task)
  BY <1>1, <1>2 DEF Satisfies, Ready, Active
<1> QED
  BY <1>3, UnlockKeeps DEF EInv, DependenciesTypeOK, TasksFenced

\* What the rest of the coordinator does.
LEMMA ElsewhereSteps ==
  ASSUME EInv, EvidenceElsewhere
  PROVE  /\ EInv' /\ TasksFenced /\ UNCHANGED <<tied, run, chain_vars>>
         /\ \A d \in Dependency : edge'[d] = edge[d] \/ edge'[d].version = edge[d].version + 1
         /\ \A d \in Dependency : satisfied'[d] = satisfied[d] \/ tied[d] = 0
<1>1. UNCHANGED <<run, chain_vars>>
  BY DEF EvidenceElsewhere
<1>2. CASE TaskNext /\ UNCHANGED <<life, edge_vars>>
  BY <1>1, <1>2, TaskSteps, TaskStep DEF EInv, DependenciesTypeOK, TasksFenced, edge_vars
<1>3. CASE StandingNext
  BY <1>1, <1>3, StandingSteps, SameTasks DEF StandingNext, edge_vars, registry_vars
<1>4. ASSUME NEW d \in Dependency, NEW version \in 1..MaxVersion, NEW p \in Principal,
             \/ \E terms \in Terms : CreateDependencyEdge(d, version, p, terms)
             \/ RevokeDependencyEdge(d, version, p)
      PROVE  /\ EInv' /\ TasksFenced /\ UNCHANGED <<tied, satisfied>>
             /\ \A e \in Dependency : edge'[e] = edge[e] \/ edge'[e].version = edge[e].version + 1
  BY <1>4, EdgeSteps, SameTasks
<1>5. ASSUME NEW d \in Dependency, NEW version \in 1..MaxVersion, NEW m \in Message,
             SatisfyDependencyEdge(d, version, m)
      PROVE  /\ EInv' /\ TasksFenced /\ UNCHANGED <<tied, edge>>
             /\ \A e \in Dependency : satisfied'[e] = satisfied[e] \/ tied[e] = 0
  <2>1. /\ EInv' /\ Satisfies(d, version, m)
        /\ \A e \in Dependency \ {d} : satisfied'[e] = satisfied[e]
    BY <1>5, SatisfyStep
  <2>2. TasksFenced
    BY <1>5, SatisfyFences
  <2> QED
    BY <1>5, <2>1, <2>2 DEF Satisfies, SatisfyDependencyEdge
<1> QED
  BY <1>1, <1>2, <1>3, <1>4, <1>5 DEF EvidenceElsewhere

LEMMA ElsewhereKeeps ==
  ASSUME EvidenceInv, EvidenceElsewhere
  PROVE  EvidenceInv' /\ Steady /\ TasksFenced
<1>1. /\ EInv' /\ TasksFenced /\ UNCHANGED <<tied, run, chain_vars>>
      /\ \A d \in Dependency : edge'[d] = edge[d] \/ edge'[d].version = edge[d].version + 1
      /\ \A d \in Dependency : satisfied'[d] = satisfied[d] \/ tied[d] = 0
  BY ElsewhereSteps DEF EvidenceInv
<1>2. UNCHANGED <<run, chain, head, named, bound, final>>
  BY <1>1 DEF chain_vars
<1>3. EvidenceTypes' /\ Steady
  BY <1>2, SteadyElsewhere DEF EvidenceInv, EvidenceTypes
<1>4. \A c \in Chain : ChainSound(c)' /\ PinsSound(c)'
  BY <1>1, <1>2, <1>3, ChainKept, PinsKept DEF EvidenceInv, TasksFenced
<1>5. TiesDrawn' /\ BoundOneToOne'
  BY <1>1, <1>2, TiesKept DEF EvidenceInv
<1> QED
  BY <1>1, <1>2, <1>3, <1>4, <1>5, EvidenceAfter

\* Steps of turns and chains that leave the edges alone.
LEMMA EdgesStill ==
  ASSUME EvidenceInv, UNCHANGED <<now, task, life, edge, satisfied, tied>>
  PROVE  /\ EInv' /\ TasksFenced
         /\ bound' = bound => TiesDrawn' /\ BoundOneToOne'
<1>1. UNCHANGED dep_vars
  BY DEF dep_vars, registry_vars, edge_vars
<1>2. EInv'
  BY <1>1, EInvStep DEF EvidenceInv
<1> QED
  BY <1>2, SameTasks, TiesKept DEF EvidenceInv

LEMMA TurnRunsKeeps ==
  ASSUME EvidenceInv, TurnRuns
  PROVE  EvidenceInv' /\ Steady /\ TasksFenced
<1>1. UNCHANGED <<now, task, life, edge, satisfied, tied, chain, bound, final>>
  BY DEF TurnRuns, dep_vars, registry_vars, edge_vars
<1>2. EInv' /\ TasksFenced /\ TiesDrawn' /\ BoundOneToOne'
  BY <1>1, EdgesStill
<1>3. /\ EvidenceTypes' /\ Steady
      /\ \A e \in Execution : run'[e].state = "promoted" => run[e].state = "promoted"
  BY SteadyTurnRuns DEF EvidenceInv, ChainSound
<1>4. \A c \in Chain : ChainSound(c)' /\ PinsSound(c)'
  BY <1>1, <1>2, <1>3, ChainKept, PinsKept DEF EvidenceInv, TasksFenced
<1> QED
  BY <1>1, <1>2, <1>3, <1>4, EvidenceAfter

LEMMA RequireKeeps ==
  ASSUME EvidenceInv, NEW c \in Chain, NEW p \in Principal, RequireChain(c, p)
  PROVE  EvidenceInv' /\ Steady /\ TasksFenced
<1>1. /\ EvidenceTypes' /\ Steady
      /\ UNCHANGED <<now, task, life, edge, satisfied, tied, run, head, named, bound, final>>
      /\ ~chain[c].required /\ Records(c)' = <<>>
      /\ \A o \in Chain \ {c} : chain'[o] = chain[o]
      /\ \A r \in Role : Holder(c, r).status = "active" /\ chain'[c].pins[r].rev = Holder(c, r).rev
  BY SteadyRequire DEF EvidenceInv
<1>2. EInv' /\ TasksFenced /\ TiesDrawn' /\ BoundOneToOne'
  BY <1>1, EdgesStill
<1>3. ChainSound(c)'
  <2>1. bound[c] = NoDependency /\ Records(c) = <<>>
    BY <1>1 DEF EvidenceInv, ChainSound
  <2>2. final[c] = {}
    <3>1. Len(Records(c)) = 0
      BY <2>1
    <3> QED
      BY <3>1 DEF EvidenceInv, ChainSound
  <2>3. Len(Records(c)') = 0
    BY <1>1
  <2> QED
    BY <1>1, <2>1, <2>2, <2>3 DEF ChainSound
<1>4. PinsSound(c)'
  <2>1. \A r \in Role : Holder(c, r)' = Holder(c, r) /\ Holder(c, r).rev \in Nat
    BY <1>1, HolderType DEF Holder, EvidenceInv, TaskType
  <2> QED
    BY <1>1, <2>1 DEF PinsSound
<1>5. \A o \in Chain \ {c} : ChainSound(o)' /\ PinsSound(o)'
  BY <1>1, <1>2, ChainKept, PinsKept DEF EvidenceInv, TasksFenced
<1> QED
  BY <1>1, <1>2, <1>3, <1>4, <1>5, EvidenceAfter

LEMMA RecordKeeps ==
  ASSUME EvidenceInv, NEW c \in Chain, NEW record \in Record, NEW count,
         AppendRecord(c, count, record)
  PROVE  EvidenceInv' /\ Steady /\ TasksFenced
<1>1. /\ EvidenceTypes' /\ Steady /\ Appends(c, count, record)
      /\ UNCHANGED <<now, task, life, edge, satisfied, tied, run, head, named, bound, final>>
  BY SteadyRecord DEF EvidenceInv
<1>2. EInv' /\ TasksFenced /\ TiesDrawn' /\ BoundOneToOne'
  BY <1>1, EdgesStill
<1>3. /\ \A o \in Chain \ {c} : chain'[o] = chain[o]
      /\ chain[c].required /\ count = Len(Records(c)) /\ count \in 0..3
  BY <1>1, Appended DEF EvidenceInv
<1>4. final[c] = {}
  <2>1. Len(Records(c)) # 4
    <3>1. count \in 0..3 /\ count = Len(Records(c))
      BY <1>3, Zenon
    <3>2. \A n \in 0..3 : n # 4
      OBVIOUS
    <3> QED
      BY <3>1, <3>2, Zenon
  <2>2. final[c] # {} => Len(Records(c)) = 4
    BY DEF EvidenceInv, ChainSound
  <2> QED
    BY <2>1, <2>2
<1>5. ChainSound(c)'
  BY <1>1, <1>4, ChainGrows DEF EvidenceInv
<1>6. \A o \in Chain : PinsSound(o)'
  BY <1>2, <1>1, <1>3, PinsKept DEF EvidenceInv, TasksFenced
<1>7. \A o \in Chain \ {c} : ChainSound(o)'
  BY <1>1, <1>3, ChainKept DEF EvidenceInv
<1> QED
  BY <1>1, <1>2, <1>5, <1>6, <1>7, EvidenceAfter

LEMMA BindKeeps ==
  ASSUME EvidenceInv, NEW c \in Chain, NEW d \in Dependency, NEW version \in 1..MaxVersion,
         NEW p \in Principal, BindDependency(c, d, version, p)
  PROVE  EvidenceInv' /\ Steady /\ TasksFenced
<1>1. /\ chain[c].required /\ bound[c] = NoDependency /\ BindGitEvidenceDependency(d, version, p)
      /\ edge[d].terms.prerequisite = RolesOf[c]["verifier"]
      /\ bound' = [bound EXCEPT ![c] = d]
      /\ UNCHANGED <<run, chain, head, named, final>>
  BY DEF BindDependency
<1>2. /\ EInv' /\ tied[d] = 0 /\ UNCHANGED <<now, task, life, edge, satisfied>>
      /\ \A e \in Dependency \ {d} : tied'[e] = tied[e]
  BY <1>1, BindStep DEF EvidenceInv
<1>3. /\ tied'[d] = version /\ edge[d].version = version /\ version # 0 /\ version \in Nat
      /\ Unsatisfied(d)
  BY <1>1, DependencyAssumption
     DEF DependencyAssumption, BindGitEvidenceDependency, CurrentWaiting, EvidenceInv, EInv, DependenciesTypeOK
<1>4. /\ bound' \in [Chain -> Dependency \cup {NoDependency}] /\ bound'[c] = d
      /\ \A o \in Chain \ {c} : bound'[o] = bound[o]
  BY <1>1 DEF EvidenceInv, EvidenceTypes
<1>5. EvidenceTypes' /\ Steady
  BY <1>1, <1>4, SteadyElsewhere DEF EvidenceInv
<1>6. TasksFenced
  BY <1>2, SameTasks
<1>7. \A o \in Chain : ChainSound(o)' /\ PinsSound(o)'
  BY <1>1, <1>2, <1>4, <1>5, <1>6, ChainKept, PinsKept DEF EvidenceInv, TasksFenced
<1>8. TiesDrawn'
  <2>1. ASSUME NEW e \in Dependency, tied'[e] # 0 PROVE tied'[e] <= edge'[e].version
    <3>1. CASE e = d
      BY <1>2, <1>3, <3>1
    <3>2. CASE e # d
      BY <1>2, <2>1, <3>2 DEF EvidenceInv, TiesDrawn
    <3> QED
      BY <3>1, <3>2
  <2> QED
    BY <2>1 DEF TiesDrawn
<1>9. \A o \in Chain \ {c} : bound[o] # d
  BY <1>2, ChainAssumption DEF EvidenceInv, BoundOneToOne, ChainAssumption
<1>10. BoundOneToOne'
  <2>1. ASSUME NEW o \in Chain, bound'[o] # NoDependency
        PROVE  /\ tied'[bound'[o]] # 0
               /\ \A q \in Chain \ {o} : bound'[q] # bound'[o]
               /\ edge'[bound'[o]].version = tied'[bound'[o]] =>
                    edge'[bound'[o]].terms.prerequisite = RolesOf[o]["verifier"]
    <3>1. CASE o = c
      BY <1>1, <1>2, <1>3, <1>4, <1>9, <3>1
    <3>2. CASE o # c
      <4>1. PICK e \in Dependency : e = bound[o] /\ e = bound'[o] /\ e # d
        BY <1>4, <1>9, <2>1, <3>2
      <4>2. /\ tied[e] # 0 /\ \A q \in Chain \ {o} : bound[q] # e
            /\ edge[e].version = tied[e] => edge[e].terms.prerequisite = RolesOf[o]["verifier"]
        BY <2>1, <4>1 DEF EvidenceInv, BoundOneToOne
      <4> QED
        BY <1>2, <1>4, <3>2, <4>1, <4>2
    <3> QED
      BY <3>1, <3>2
  <2> QED
    BY <2>1 DEF BoundOneToOne
<1>11. \A e \in Dependency : ~Unsatisfied(e)' /\ tied'[e] # 0 =>
         satisfied'[e] = satisfied[e] /\ tied'[e] = tied[e]
  BY <1>2, <1>3 DEF Unsatisfied
<1> QED
  BY <1>1, <1>2, <1>5, <1>6, <1>7, <1>8, <1>10, <1>11, EvidenceAfter

\* The turn that was promoted stands behind its record.
LEMMA PromotionStands ==
  ASSUME EvidenceTypes, EvidenceTypes', NEW e \in Execution, NEW count \in 0..3, NEW record \in Record,
         NEW n, record.call = <<e, n>>,
         head'[e] = Records(ChainOf[e])', Records(ChainOf[e])'[count + 1] = record,
         Len(Records(ChainOf[e])') = count + 1, Backed(ChainOf[e], count + 1)'
  PROVE  StandsBehind(e)'
<1>1. PICK t \in Seq(Record) : t = Records(ChainOf[e])'
  BY DEF EvidenceTypes
<1>2. /\ Len(t) = count + 1 /\ t # <<>> /\ SubSeq(t, 1, Len(t)) = t /\ Len(t) <= Len(t)
      /\ t[Len(t)].call[1] = e
  BY <1>1
<1>3. PICK k \in Nat : k = count + 1
  OBVIOUS
<1>4. Backed(ChainOf[e], k)'
  BY <1>3
<1> QED
  BY <1>1, <1>2, <1>3, <1>4 DEF StandsBehind

LEMMA PromoteKeeps ==
  ASSUME EvidenceInv, NEW e \in Execution, NEW record \in Record, NEW count, NEW n,
         record.call # Foreign, PromoteWithRecord(e, n, count, record)
  PROVE  EvidenceInv' /\ Steady /\ TasksFenced
<1>1. /\ PromotedWith(e, n, count, record) /\ record.call = <<e, n>> /\ count < 3
      /\ UNCHANGED <<now, task, life, edge, satisfied, tied, bound, final>>
  BY DEF PromoteWithRecord, PromotedWith, dep_vars, registry_vars, edge_vars
<1>2. PICK c \in Chain : c = ChainOf[e] /\ ChainSound(ChainOf[e])
  BY ChainAssumption DEF ChainAssumption, EvidenceInv
<1>3. /\ EvidenceTypes' /\ Steady
      /\ count = Len(Records(c)) /\ count \in 0..3
      /\ \A o \in Execution \ {e} : run'[o] = run[o]
      /\ head'[e] = Records(c)' /\ Records(c)'[count + 1] = record
      /\ Len(Records(c)') = count + 1
      /\ Backed(ChainOf[e], count + 1)'
  <2>1. final' \in [Chain -> SUBSET FinalType] /\ \A o \in Chain : final'[o] = final[o]
    BY <1>1 DEF EvidenceInv, EvidenceTypes
  <2> QED
    BY <1>1, <1>2, <2>1, SteadyPromotion DEF EvidenceInv
<1>4. EInv' /\ TasksFenced /\ TiesDrawn' /\ BoundOneToOne'
  BY <1>1, EdgesStill
<1>5. /\ Appends(c, count, record) /\ \A o \in Chain \ {c} : chain'[o] = chain[o]
      /\ chain[c].required
  BY <1>1, <1>2, Appended DEF PromotedWith, EvidenceInv
<1>6. final[c] = {}
  <2>1. \A k \in 0..3 : k # 4
    OBVIOUS
  <2>2. Len(Records(c)) # 4
    BY <1>3, <2>1, Zenon
  <2> QED
    BY <1>2, <2>2 DEF ChainSound
<1>7. ChainSound(c)'
  BY <1>1, <1>3, <1>5, <1>6, ChainGrows DEF EvidenceInv
<1>8. \A o \in Chain \ {c} : ChainSound(o)'
  BY <1>1, <1>3, <1>5, ChainKept DEF EvidenceInv
<1>9. \A o \in Chain : PinsSound(o)'
  BY <1>3, <1>4, <1>5, PinsKept DEF EvidenceInv, TasksFenced
<1>10. StandsBehind(e)'
  BY <1>1, <1>2, <1>3, PromotionStands DEF EvidenceInv
<1>11. \A o \in Execution : run'[o].state = "promoted" => run[o].state = "promoted" \/ StandsBehind(o)'
  BY <1>3, <1>10
<1> QED
  BY <1>1, <1>3, <1>4, <1>7, <1>8, <1>9, <1>11, EvidenceAfter

LEMMA FinalizeKeeps ==
  ASSUME EvidenceInv, NEW e \in Execution, NEW record \in Record, NEW n,
         NEW d \in Dependency, NEW version \in 1..MaxVersion, NEW m \in Message,
         record.call # Foreign, Finalize(ChainOf[e], e, n, d, version, m, record)
  PROVE  EvidenceInv' /\ Steady /\ TasksFenced
<1>1. PICK c \in Chain : c = ChainOf[e]
  BY ChainAssumption DEF ChainAssumption
<1>2. /\ ActorOf[e] = RolesOf[c]["verifier"] /\ Called(e, n, StageTool[4])
      /\ record.call = <<e, n>> /\ Appends(c, 3, record) /\ Promotes(e)
      /\ head' = [head EXCEPT ![e] = chain'[c].records]
      /\ UNCHANGED <<named, bound>>
  BY <1>1 DEF Finalize
<1>3. /\ MessageOf[e] = m /\ bound[c] = d /\ named[e] = 3 /\ Len(Records(c)) = 3
      /\ \A k \in 1..3 : Backed(c, k)
      /\ FinalizeGitEvidenceDependency(d, version, m)
  BY <1>1 DEF Finalize, Records
<1>4. PICK row \in FinalType : /\ final' = [final EXCEPT ![c] = {row}]
                               /\ row.execution = e /\ row.dependency = d /\ row.message = m
  <2>1. PICK row : row = [execution |-> e, dependency |-> d, message |-> m]
    OBVIOUS
  <2>2. row \in FinalType /\ row.execution = e /\ row.dependency = d /\ row.message = m
    BY <2>1 DEF FinalType
  <2>3. final' = [final EXCEPT ![c] = {row}]
    BY <1>1, <2>1 DEF Finalize
  <2> QED
    BY <2>2, <2>3
<1>5. PromotedWith(e, n, 3, record)
  BY <1>1, <1>2 DEF PromotedWith, StageRole
<1>6. /\ final' \in [Chain -> SUBSET FinalType] /\ final'[c] = {row}
      /\ \A o \in Chain \ {c} : final'[o] = final[o]
  BY <1>4 DEF EvidenceInv, EvidenceTypes
<1>7. /\ EvidenceTypes' /\ Steady
      /\ \A o \in Execution \ {e} : run'[o] = run[o]
      /\ head'[e] = Records(c)' /\ Records(c)'[3 + 1] = record
      /\ Len(Records(c)') = 3 + 1
      /\ Backed(c, 4)'
  <2>1. \A o \in Chain : Len(Records(o)) = 4 => final'[o] = final[o]
    BY <1>3, <1>6
  <2>2. ChainSound(c)
    BY DEF EvidenceInv
  <2>3. PICK k \in 0..3 : k = 3
    OBVIOUS
  <2>4. PromotedWith(e, n, k, record)
    BY <1>5, <2>3
  <2>5. EvidenceTypes /\ ChainSound(ChainOf[e])
    BY <1>1, <2>2 DEF EvidenceInv
  <2>6. final' \in [Chain -> SUBSET FinalType]
    BY <1>6
  <2>7. /\ EvidenceTypes' /\ Steady
        /\ \A o \in Execution \ {e} : run'[o] = run[o]
        /\ head'[e] = Records(ChainOf[e])' /\ Records(ChainOf[e])'[k + 1] = record
        /\ Len(Records(ChainOf[e])') = k + 1
        /\ Backed(ChainOf[e], k + 1)'
    BY <2>1, <2>4, <2>5, <2>6, SteadyPromotion, ZenonT(60)
  <2>8. k + 1 = 4
    BY <2>3
  <2>9. Backed(c, 4)'
    BY <1>1, <2>7, <2>8, Zenon
  <2> QED
    BY <1>1, <2>3, <2>7, <2>9, Zenon
<1>8. /\ EInv' /\ satisfied'[d].message = m /\ Satisfies(d, version, m)
      /\ \A o \in Dependency \ {d} : satisfied'[o] = satisfied[o]
  BY <1>3, SatisfyStep DEF EvidenceInv
<1>9. TasksFenced
  BY <1>3, SatisfyFences DEF EvidenceInv
<1>10. UNCHANGED <<edge, tied>>
  BY <1>8 DEF Satisfies
<1>11. TiesDrawn' /\ BoundOneToOne'
  BY <1>2, <1>8, <1>10, TiesKept DEF EvidenceInv
<1>12. \A k \in 1..4 : Backed(c, k)'
  <2>1. \A k \in 1..3 : Backed(c, k)'
    BY <1>3, <1>7, BackedStays DEF EvidenceInv
  <2>2. \A k \in 1..4 : k \in 1..3 \/ k = 4
    OBVIOUS
  <2> QED
    BY <1>7, <2>1, <2>2
<1>13. ChainSound(c)'
  BY <1>2, <1>7, <1>12, ChainGrows DEF EvidenceInv
<1>14. /\ \A o \in Chain \ {c} : chain'[o] = chain[o]
       /\ chain[c].required
  BY <1>2, Appended DEF EvidenceInv
<1>15. \A o \in Chain \ {c} : ChainSound(o)'
  BY <1>2, <1>6, <1>7, <1>14, ChainKept DEF EvidenceInv
<1>16. \A o \in Chain : PinsSound(o)'
  BY <1>7, <1>8, <1>9, <1>14, PinsKept DEF EvidenceInv, TasksFenced
<1>17. StandsBehind(e)'
  <2>1. PICK k \in 0..3 : k = 3
    OBVIOUS
  <2>2. /\ head'[e] = Records(ChainOf[e])' /\ Records(ChainOf[e])'[k + 1] = record
        /\ Len(Records(ChainOf[e])') = k + 1
    BY <1>1, <1>7, <2>1
  <2>3. Backed(ChainOf[e], k + 1)'
    <3>1. k + 1 = 4
      BY <2>1
    <3> QED
      BY <1>1, <1>7, <3>1
  <2> QED
    BY <1>2, <1>7, <2>2, <2>3, PromotionStands DEF EvidenceInv
<1>18. ClosedByChain(d)'
  <2>1. Len(Records(c)') = 4 /\ Records(c)'[4] = record /\ record.call[1] = e
    BY <1>2, <1>7
  <2>2. /\ Records(c)'[2].on = Records(c)'[1].commit /\ Records(c)'[3].on = Records(c)'[1].commit
        /\ Records(c)'[3].finding = Records(c)'[2].finding
    BY <1>13, <2>1 DEF ChainSound
  <2>3. row \in final'[c] /\ bound'[c] = d /\ named'[e] = 3
    BY <1>2, <1>3, <1>6
  <2> QED
    BY <1>3, <1>4, <1>8, <1>12, <2>1, <2>2, <2>3 DEF ClosedByChain
<1>19. \A o \in Execution : run'[o].state = "promoted" => run[o].state = "promoted" \/ StandsBehind(o)'
  BY <1>7, <1>17
<1>20. \A o \in Dependency : ~Unsatisfied(o)' /\ tied'[o] # 0 =>
         (satisfied'[o] = satisfied[o] /\ tied'[o] = tied[o]) \/ ClosedByChain(o)'
  BY <1>8, <1>10, <1>18
<1> QED
  BY <1>7, <1>8, <1>9, <1>11, <1>13, <1>15, <1>16, <1>19, <1>20, EvidenceAfter

LEMMA EvidenceIdles ==
  ASSUME EvidenceInv, UNCHANGED evidence_vars
  PROVE  EvidenceInv' /\ Steady /\ TasksFenced
<1>1. UNCHANGED <<now, task, life, edge, satisfied, tied, run, chain, head, named, bound, final>>
  BY DEF evidence_vars, dep_vars, registry_vars, edge_vars, chain_vars
<1>2. EInv' /\ TasksFenced /\ TiesDrawn' /\ BoundOneToOne'
  BY <1>1, EdgesStill
<1>3. EvidenceTypes' /\ Steady
  BY <1>1, SteadyElsewhere DEF EvidenceInv, EvidenceTypes
<1>4. \A c \in Chain : ChainSound(c)' /\ PinsSound(c)'
  BY <1>1, <1>2, <1>3, ChainKept, PinsKept DEF EvidenceInv, TasksFenced
<1> QED
  BY <1>1, <1>2, <1>3, <1>4, EvidenceAfter

LEMMA EvidenceMoves ==
  ASSUME EvidenceInv, [EvidenceNext]_evidence_vars
  PROVE  EvidenceInv' /\ Steady /\ TasksFenced
<1>1. CASE ChainNext
  BY <1>1, RequireKeeps, RecordKeeps, BindKeeps DEF ChainNext
<1>2. CASE PromotionNext
  <2>1. PICK e \in Execution, record \in Record :
          /\ record.call # Foreign
          /\ \/ \E count : PromoteWithRecord(e, record.call[2], count, record)
             \/ \E d \in Dependency, version \in 1..MaxVersion, m \in Message :
                  Finalize(ChainOf[e], e, record.call[2], d, version, m, record)
    BY <1>2 DEF PromotionNext, Completed
  <2> QED
    BY <2>1, PromoteKeeps, FinalizeKeeps
<1> QED
  BY <1>1, <1>2, ElsewhereKeeps, TurnRunsKeeps, EvidenceIdles DEF EvidenceNext
LEMMA EvidenceStarts == EvidenceInit => EvidenceInv
<1> SUFFICES ASSUME EvidenceInit PROVE EvidenceInv
  OBVIOUS
<1>1. DependenciesInit /\ EInv
  BY EInvInit DEF EvidenceInit
<1>2. PICK p \in Principal : chain = [c \in Chain |->
        [required |-> FALSE, by |-> p, pins |-> [r \in Role |-> [ref |-> NoRef, rev |-> 0]],
         records |-> <<>>]]
  BY DEF EvidenceInit
<1>3. <<>> \in Seq(Record) /\ <<>> \in Seq(Tool)
  BY EmptySeq
<1>4. NoTurnYet \in RunType
  BY <1>3 DEF NoTurnYet, RunType
<1>5. [r \in Role |-> [ref |-> NoRef, rev |-> 0]] \in [Role -> PinType]
  BY DEF PinType
<1>6. chain \in [Chain -> ChainType]
  BY <1>2, <1>3, <1>5 DEF ChainType
<1>7. EvidenceTypes
  <2>1. run \in [Execution -> RunType] /\ head \in [Execution -> Seq(Record)]
    BY <1>3, <1>4, Zenon DEF EvidenceInit, RunInit
  <2>2. /\ named \in [Execution -> 0..4] /\ final \in [Chain -> SUBSET FinalType]
        /\ bound \in [Chain -> Dependency \cup {NoDependency}]
    BY DEF EvidenceInit
  <2> QED
    BY <1>6, <2>1, <2>2 DEF EvidenceTypes
<1>8. \A c \in Chain : /\ ~chain[c].required /\ Records(c) = <<>>
                       /\ bound[c] = NoDependency /\ final[c] = {}
  BY <1>2 DEF EvidenceInit, Records
<1>9. Len(<<>>) = 0
  OBVIOUS
<1>10. \A c \in Chain : Len(Records(c)) = 0
  BY <1>8, <1>9, Zenon
<1>11. \A c \in Chain : ChainSound(c) /\ PinsSound(c)
  BY <1>8, <1>10 DEF ChainSound, PinsSound
<1>12. \A d \in Dependency : tied[d] = 0
  BY <1>1 DEF DependenciesInit
<1>13. \A e \in Execution : run[e].state = "none"
  BY DEF EvidenceInit, RunInit, NoTurnYet
<1> QED
  BY <1>1, <1>7, <1>8, <1>11, <1>12, <1>13
     DEF EvidenceInv, TiesDrawn, BoundOneToOne, SatisfiedByChain, PromotedForRecord

\* The tables of the evidence chains keep their shape, and every satisfaction, promotion
\* and binding keeps standing on its chain: the invariant the next two theorems rest on.
THEOREM EvidenceInductive == EvidenceSpec => []EvidenceInv
<1>1. EvidenceInv /\ [EvidenceNext]_evidence_vars => EvidenceInv'
  BY EvidenceMoves
<1> QED
  BY <1>1, EvidenceStarts, PTL DEF EvidenceSpec

\* An edge that a chain is bound to is satisfied by the chain or not at all, a promoted
\* turn stands behind one record of its chain, and chains and edges are bound one to one
\* (finalizeGitEvidenceDependency, promoteTurnExecutionWithGitEvidenceRecord and
\* bindGitEvidenceDependency).
THEOREM ChainsBackEverything == EvidenceSpec => []ChainsBack
<1>1. EvidenceInv => ChainsBack
  BY RoleStages DEF EvidenceInv, EInv, EvidenceTypes, ChainsBack, EvidenceTypeOK
<1> QED
  BY <1>1, EvidenceInductive, PTL

(***************************************************************************)
(* What a chain lost.                                                      *)
(***************************************************************************)
\* A chain grows by the appending of a record and in no other way.
LEMMA GrowthAppends ==
  ASSUME EvidenceInv, [EvidenceNext]_evidence_vars, NEW c \in Chain, chain[c].required,
         chain'[c] # chain[c]
  PROVE  \E count : \E record \in Record : Appends(c, count, record)
<1>1. CASE ChainNext
  <2>1. ASSUME NEW o \in Chain, NEW p \in Principal, RequireChain(o, p) PROVE FALSE
    BY <2>1 DEF RequireChain, EvidenceInv, EvidenceTypes
  <2>2. ASSUME NEW o \in Chain, NEW count, NEW record \in Record, AppendRecord(o, count, record)
        PROVE  Appends(c, count, record)
    <3>1. Appends(o, count, record)
      BY <2>2 DEF AppendRecord
    <3>2. \A other \in Chain \ {o} : chain'[other] = chain[other]
      BY <3>1, Appended DEF EvidenceInv
    <3> QED
      BY <3>1, <3>2
  <2>3. ASSUME NEW o \in Chain, NEW p \in Principal, NEW d \in Dependency,
               NEW version \in 1..MaxVersion, BindDependency(o, d, version, p)
        PROVE  FALSE
    BY <2>3 DEF BindDependency
  <2> QED
    BY <1>1, <2>1, <2>2, <2>3 DEF ChainNext
<1>2. CASE PromotionNext
  <2>1. PICK e \in Execution, record \in Record :
          \E count : Appends(ChainOf[e], count, record)
    <3>1. PICK e \in Execution, record \in Record :
            \/ \E count : PromoteWithRecord(e, record.call[2], count, record)
            \/ \E d \in Dependency, version \in 1..MaxVersion, m \in Message :
                 Finalize(ChainOf[e], e, record.call[2], d, version, m, record)
      BY <1>2 DEF PromotionNext, Completed
    <3>2. ASSUME NEW count, PromoteWithRecord(e, record.call[2], count, record)
          PROVE  Appends(ChainOf[e], count, record)
      BY <3>2, Zenon DEF PromoteWithRecord
    <3>3. ASSUME NEW d, NEW version, NEW m,
                 Finalize(ChainOf[e], e, record.call[2], d, version, m, record)
          PROVE  Appends(ChainOf[e], 3, record)
      BY <3>3, Zenon DEF Finalize
    <3> QED
      BY <3>1, <3>2, <3>3, Zenon
  <2>2. PICK count : Appends(ChainOf[e], count, record)
    BY <2>1
  <2>3. PICK o \in Chain : o = ChainOf[e]
    BY ChainAssumption DEF ChainAssumption
  <2>4. \A other \in Chain \ {o} : chain'[other] = chain[other]
    BY <2>2, <2>3, Appended DEF EvidenceInv
  <2> QED
    BY <2>2, <2>3, <2>4
<1>3. CASE TurnRuns \/ EvidenceElsewhere \/ UNCHANGED evidence_vars
  BY <1>3 DEF TurnRuns, EvidenceElsewhere, evidence_vars, chain_vars
<1> QED
  BY <1>1, <1>2, <1>3 DEF EvidenceNext

\* An edge is satisfied when it is tied to no chain, or together with its chain.
LEMMA SatisfactionFinalizes ==
  ASSUME EvidenceInv, [EvidenceNext]_evidence_vars, NEW d \in Dependency,
         satisfied'[d] # satisfied[d]
  PROVE  tied[d] = 0 \/ \E c \in Chain : bound[c] = d /\ final'[c] # {}
<1>1. CASE EvidenceElsewhere
  BY <1>1, ElsewhereSteps DEF EvidenceInv
<1>2. CASE ChainNext
  <2>1. UNCHANGED satisfied
    BY <1>2 DEF ChainNext, RequireChain, AppendRecord, BindDependency,
                BindGitEvidenceDependency, dep_vars, edge_vars
  <2> QED
    BY <2>1
<1>3. CASE TurnRuns \/ UNCHANGED evidence_vars
  BY <1>3 DEF TurnRuns, evidence_vars, dep_vars, edge_vars
<1>4. CASE PromotionNext
  <2>1. PICK e \in Execution, record \in Record :
          \/ \E count : PromoteWithRecord(e, record.call[2], count, record)
          \/ \E o \in Dependency, version \in 1..MaxVersion, m \in Message :
               Finalize(ChainOf[e], e, record.call[2], o, version, m, record)
    BY <1>4 DEF PromotionNext, Completed
  <2>2. PICK o \in Dependency, version \in 1..MaxVersion, m \in Message :
          Finalize(ChainOf[e], e, record.call[2], o, version, m, record)
    BY <2>1 DEF PromoteWithRecord, dep_vars, edge_vars
  <2>3. PICK c \in Chain : c = ChainOf[e]
    BY ChainAssumption DEF ChainAssumption
  <2>4. /\ bound[c] = o /\ FinalizeGitEvidenceDependency(o, version, m)
        /\ \E row : final' = [final EXCEPT ![c] = {row}]
    BY <2>2, <2>3 DEF Finalize
  <2>5. o = d
    BY <2>4, SatisfyStep DEF EvidenceInv
  <2>6. final'[c] # {}
    BY <2>4 DEF EvidenceInv, EvidenceTypes
  <2> QED
    BY <2>4, <2>5, <2>6
<1> QED
  BY <1>1, <1>2, <1>3, <1>4 DEF EvidenceNext

LEMMA RoleStaysGone ==
  ASSUME EvidenceInv, EvidenceInv', Steady, TasksFenced, NEW c \in Chain, NEW r \in Role,
         RoleGone(c, r)
  PROVE  RoleGone(c, r)'
<1>1. PICK i \in Incarnation : i = RolesOf[c][r]
  BY ChainAssumption DEF ChainAssumption
<1>2. /\ task[i] \in TaskType /\ task'[i] \in TaskType /\ Fenced(i)
      /\ Holder(c, r) = task[i] /\ Holder(c, r)' = task'[i]
  BY <1>1 DEF EvidenceInv, EInv, DependenciesTypeOK, TaskTypeOK, TasksFenced, Holder
<1>3. /\ chain[c].required /\ chain'[c].required /\ chain'[c].pins = chain[c].pins
  BY DEF RoleGone, Steady, SteadyChain
<1>4. PICK pin \in Nat : pin = chain[c].pins[r].rev
  BY DEF EvidenceInv, EvidenceTypes, ChainType, PinType
<1>5. task[i].status # "unregistered" /\ pin <= task[i].rev
  BY <1>2, <1>3, <1>4 DEF EvidenceInv, PinsSound
<1>6. task[i].status = "retired" \/ task[i].rev # pin
  BY <1>2, <1>4 DEF RoleGone
<1>7. task'[i].status = "retired" \/ task'[i].rev # pin
  <2>1. CASE task'[i] = task[i]
    BY <1>6, <2>1
  <2>2. CASE task[i].status = "active" /\ task'[i].rev = task[i].rev + 1
    <3>1. task[i].rev \in Nat
      BY <1>2 DEF TaskType
    <3> QED
      BY <1>5, <2>2, <3>1
  <2>3. CASE task[i].status = "retired" /\ task'[i] = [task[i] EXCEPT !.ref = NoRef]
    <3>1. task'[i].status = "retired"
      BY <1>2, <2>3 DEF TaskType
    <3> QED
      BY <3>1
  <2> QED
    BY <1>2, <1>5, <2>1, <2>2, <2>3 DEF Fenced
<1> QED
  BY <1>2, <1>3, <1>4, <1>7 DEF RoleGone

LEMMA RecordsFreeze ==
  ASSUME EvidenceInv, [EvidenceNext]_evidence_vars, NEW c \in Chain, chain[c].required
  PROVE  /\ \A k \in 1..Len(chain[c].records) : chain'[c].records[k] = chain[c].records[k]
         /\ Len(chain'[c].records) <= Len(chain[c].records) + 1
         /\ \A r \in Role : RoleGone(c, r) =>
              /\ RoleGone(c, r)'
              /\ Len(chain'[c].records) > Len(chain[c].records)
                   => StageRole[Len(chain'[c].records)] # r
<1>1. EvidenceInv' /\ Steady /\ TasksFenced
  BY EvidenceMoves
<1>2. ASSUME NEW r \in Role, RoleGone(c, r), Len(Records(c)') > Len(Records(c)),
             StageRole[Len(Records(c)')] = r
      PROVE  FALSE
  <2>1. chain'[c] # chain[c]
    <3>1. PICK n \in Nat : n = Len(Records(c))
      BY RecordsLength DEF EvidenceInv
    <3>2. ~(n > n)
      BY <3>1
    <3> QED
      BY <1>2, <3>1, <3>2 DEF Records
  <2>count. PICK count : \E record \in Record : Appends(c, count, record)
    BY <2>1, GrowthAppends
  <2>2. PICK record \in Record : Appends(c, count, record)
    BY <2>count
  <2>3. Len(Records(c)') = count + 1 /\ Pinned(c, StageRole[count + 1])
    BY <2>2, Appended DEF EvidenceInv
  <2>4. Pinned(c, r)
    BY <1>2, <2>3
  <2> QED
    BY <1>2, <2>4 DEF Pinned, RoleGone
<1>3. /\ \A k \in 1..Len(Records(c)) : Records(c)'[k] = Records(c)[k]
      /\ Len(Records(c)') <= Len(Records(c)) + 1
  BY <1>1 DEF Steady, SteadyChain
<1> QED
  BY <1>1, <1>2, <1>3, RoleStaysGone DEF Records

LEMMA SpoiledStays ==
  ASSUME EvidenceInv, [EvidenceNext]_evidence_vars, NEW c \in Chain, Spoiled(c)
  PROVE  /\ Spoiled(c)' /\ final'[c] = {}
         /\ bound[c] # NoDependency => satisfied'[bound[c]] = satisfied[bound[c]]
<1>1. EvidenceInv' /\ Steady
  BY EvidenceMoves
<1>2. PICK n \in Nat, later \in Nat : n = Len(Records(c)) /\ later = Len(Records(c)')
  BY <1>1, RecordsLength DEF EvidenceInv, EvidenceTypes, ChainType, Records
<1>3. n <= later /\ later <= 4
  BY <1>1, <1>2 DEF Steady, SteadyChain, EvidenceInv, ChainSound
<1>4. Spoiled(c)' /\ final'[c] = {}
  <2>1. ASSUME NEW k \in 1..n, ~Backed(c, k)
        PROVE  Spoiled(c)' /\ final'[c] = {}
    <3>1. ~Backed(c, k)'
      BY <1>1, <1>2, <2>1, BackedStays DEF EvidenceInv
    <3>2. k \in 1..later /\ k \in 1..4
      BY <1>3
    <3>3. final'[c] = {}
      BY <1>1, <3>1, <3>2 DEF EvidenceInv, ChainSound
    <3> QED
      BY <1>2, <3>1, <3>2, <3>3 DEF Spoiled, Records
  <2>2. ASSUME n = 4, final[c] = {}
        PROVE  Spoiled(c)' /\ final'[c] = {}
    <3>1. final'[c] = {}
      BY <1>1, <1>2, <2>2 DEF Steady, SteadyChain
    <3>2. later = 4
      BY <1>3, <2>2
    <3> QED
      BY <1>2, <3>1, <3>2 DEF Spoiled, Records
  <2> QED
    BY <1>2, <2>1, <2>2 DEF Spoiled, Records
<1>5. ASSUME bound[c] # NoDependency, satisfied'[bound[c]] # satisfied[bound[c]] PROVE FALSE
  <2>1. PICK d \in Dependency : d = bound[c]
    BY <1>5 DEF EvidenceInv, EvidenceTypes
  <2>2. tied[d] # 0 /\ \A o \in Chain \ {c} : bound[o] # d
    BY <1>5, <2>1 DEF EvidenceInv, BoundOneToOne
  <2>3. PICK o \in Chain : bound[o] = d /\ final'[o] # {}
    BY <1>5, <2>1, <2>2, SatisfactionFinalizes
  <2> QED
    BY <1>4, <2>2, <2>3
<1> QED
  BY <1>4, <1>5

\* A role whose task has moved adds no record any more, and a chain with a record that no
\* promoted turn stands behind never finalizes, nor does its edge: the code has no
\* operation that takes a record back.
THEOREM LossesAreFinal == EvidenceSpec => LossIsFinal
<1>1. EvidenceInv /\ [EvidenceNext]_evidence_vars =>
        [\A c \in Chain : chain[c].required =>
           /\ \A k \in 1..Len(chain[c].records) : chain'[c].records[k] = chain[c].records[k]
           /\ Len(chain'[c].records) <= Len(chain[c].records) + 1
           /\ \A r \in Role : RoleGone(c, r) =>
                /\ RoleGone(c, r)'
                /\ Len(chain'[c].records) > Len(chain[c].records)
                     => StageRole[Len(chain'[c].records)] # r]_evidence_vars
  BY RecordsFreeze
<1>2. EvidenceInv /\ [EvidenceNext]_evidence_vars =>
        [\A c \in Chain : Spoiled(c) =>
           /\ Spoiled(c)' /\ final'[c] = {}
           /\ bound[c] # NoDependency => satisfied'[bound[c]] = satisfied[bound[c]]]_evidence_vars
  BY SpoiledStays
<1>3. EvidenceSpec => RecordsFrozenWithRole
  BY <1>1, EvidenceInductive, PTL DEF EvidenceSpec, RecordsFrozenWithRole
<1>4. EvidenceSpec => SpoiledForGood
  BY <1>2, EvidenceInductive, PTL DEF EvidenceSpec, SpoiledForGood
<1> QED
  BY <1>3, <1>4 DEF LossIsFinal
=============================================================================
