# ThreadMesh: models, checks and proofs

ThreadMesh lets independent coding-agent tasks send each other messages through a local
coordinator. A message is only a request: a directional grant must authorise it, the
receiving task must accept it, and only then may its text enter the receiver's context or be
submitted to the receiver's native runtime. This directory models that machinery in TLA+.
TLC checks it on small instances; TLAPS proves every checked property but the two that need
fairness, for every instance.

## 1. Inventory

All durable state lives in one SQLite database owned by
`src/coordinator/sqlite-coordinator.mjs` (9,500 lines). Every mutating method runs in one
immediate transaction, so calls are atomic; nothing is atomic *across* calls, and several
processes may use the database at once. What makes the system hard is therefore not the single
call but the order of calls by people, tasks, workers and maintenance, each holding values
(revisions, claim tokens, submission ids, prepared attempts) read some calls ago.

| component | state | operations | hard behaviour | correct when |
|---|---|---|---|---|
| disposition machines (`state/disposition-transitions.mjs`) | three state words per message: delivery, decision, outcome | pure transition tables | every operation has its own SQL guard beside the tables | all changes follow the tables, one revision each; the three never contradict each other |
| relationship policy (`policy/relationship-policy.mjs`) | none | pure decision function | evaluated again at each protected operation | no work starts under lost authority |
| delivery core (coordinator) | tasks and metadata, grants, messages, dispositions, mailbox claims, admission claims, adapter submissions | register, attach, rotate, update; install and revoke grants; submit, claim, acknowledge, respond, fail; prepare and confirm admission; prepare, begin, receipt, reconcile submission; expire, purge | stale holders, revocation and expiry between any two calls, retention against recovery | see the properties below |
| durable dispatcher (`dispatcher/durable-dispatcher.mjs`) | none but its stack | `dispatch()`: prepare, begin, native call, receipt | crash or loss at any point, concurrent dispatches, replays, reconciliation while a call is under way | at most one native effect; no receipt without one; no denial of one |
| dependency edges (coordinator) | versioned edges, satisfactions, task state | create, revoke, satisfy and unlock | stale edge versions, last dependency, expired or revoked edges | a dependent is unlocked exactly when nothing remains |
| git evidence and turn executions (coordinator, `state/durable-turn-intent.mjs`, `state/git-evidence-chain.mjs`, `state/codex-turn-reconciliation.mjs`) | turn intents, receipts, evidence chains | start, mark unknown, bind, promote, abandon, finalize | crash between start and result | one turn per intent; evidence only from bound turns |
| attention (coordinator, `routing/*`) | one cursor and at most one active claim per receiver | publish, claim, bind, decide, promote, abandon, reopen, advance | next-event rule over all audit events | each event handled once, in order; the cursor gets on |
| event pump (coordinator, `activation/*`) | dispatch records, leases with epochs | select, complete, publish, settle, take over | a lease running out during publication | one owner per epoch; everything completed is published |
| operation replays (coordinator) | idempotency records | execute idempotently, purge | a record purged before the retry | a key executes once |
| relationships and summaries (coordinator) | proposals, grants by version, one summary per target | propose, grant, revoke, publish, read, sweep | two principals at one proposal; grants installed late or revoked already; a sweep with an older cutoff | one grant per proposal; a superseded grant never returns; a reader sees whole summaries |
| binding, client, SDK (`bindings`, `client`, `sdk`) | request sequence; a turn's budgets and discoveries | dispatch, map errors, derive keys, replay | requests that come late or never, lost answers, lapsed claims, tool calls at once | an answer is true of what happened; the SDK's keys meet only when it is late; a turn keeps its budget |
| activation and live turns (`activation/*`, `validation/live-agent-scenario.mjs`, `validation/m5-2-live-turn-journal.mjs`) | executions, journals, decision files | decide, admit, run tools, bind, retire | a crash between any two steps; two owners of one activation | the receiver decides once, each tool runs once, a journal stands for every unfinished turn |
| schema (coordinator constructor) | schema version, recorded steps, columns | open, migrate, verify, refuse | processes of two releases at one store; a step that fails half way | a sound store comes up to date, another is refused and left alone |
| local workspace (`workspace/*`) | members, routes, sends, connections | join, mute, discover, send, decide | several processes, crashes, reused pids | sends within budget under ids never used before; fresh goals; one session per name |
| adapters (`adapters/*`) | child processes, pending requests, waiters, tool calls | start or resume a thread, run a turn, serve its tools | a timer racing the operation; notifications nobody waits for yet; a child that dies in a callback | the caller is told once, nothing is started afterwards, calls are accounted for |
| inspector, rendering, demo, validation, scripts | none durable | read, render, drive, judge | - | - |

The parts interact as follows. A client calls the binding, which authenticates it and calls the
coordinator. The event pump and the activation driver read attention events from the
coordinator, run the receiver's turn through an adapter, and record each step back. The
dispatcher takes one accepted message, asks the coordinator for a durable attempt, calls the
adapter and hands the receipt back. Policy and disposition tables are called by the coordinator
inside its transactions.

## 2. Modules

| module | models | uses |
|---|---|---|
| `Dispositions` | the three transition tables as relations | |
| `RelationshipPolicy` | the policy decision as one predicate | |
| `TaskRegistry` | the clock and the tasks, which every other part reads and two others write | |
| `Coordinator` | the delivery core: one action per operation | the three above; implements `MessageLife` |
| `MessageLife` | abstract: the standing of a message, as other components may rely on it | |
| `AtMostOnceEffect` | abstract: at most one effect per message, receipts only after effects | |
| `Dispatcher` | `dispatch()` by several workers, composed with `Coordinator` and an external harness | `Coordinator`; implements `AtMostOnceEffect` |
| `TurnLife` | abstract: one model turn and its calls, as other components may rely on it | `TaskRegistry` |
| `TurnExecution` | the durable record of one model turn, from proposal to promotion or abandonment | `TaskRegistry`; implements `TurnLife` |
| `Dependencies` | versioned dependency edges, their satisfaction and the unlocking of dependents | `TaskRegistry`, `MessageLife` |
| `EvidenceChain` | git evidence: requirement, records, binding to a dependency, finalization | `Dependencies`, `TurnLife` |
| `Attention` | cursor, handler claims, decisions, admissions and publications, with the checks made of them at the next start | `TurnLife`, `Dispositions` |
| `InOrder` | abstract: a receiver's messages are dealt with in order, each once | |
| `EventPump` | pumps over dispatch records, leases, cursor and claims, with crashes | implements `InOrder` |
| `Activation` | abstract: one decision, tools in order, a handler bound to a turn that did it all | |
| `LiveTurn` | the processes that run one activation, and what survives them | implements `Activation` |
| `AppServer` | one operation of the Codex adapter over its child | |
| `SchemaMigration` | processes that open one store | |
| `Relationships` | proposals, grants, summaries and their sweep | |
| `RpcMailbox` | the mailbox over JSON-RPC: SDK client, pull harness, binding, replay records | `Dispositions` |
| `Workspace` | members, routes, discoveries, sends and connections of the local workspace | |
| `ProactiveBridge` | the tool calls of one proactive turn | |
| `TaskRegistryProofs` | theorems about `TaskRegistry` | |
| `CoordinatorProofs` | about `Coordinator`, with its refinement of `MessageLife` | `TaskRegistryProofs` |
| `DispatcherProofs` | about `Dispatcher`, with its refinement of `AtMostOnceEffect` | `CoordinatorProofs` |
| `DependenciesProofs` | about `Dependencies` and `EvidenceChain` | `TaskRegistryProofs` |
| `TurnsProofs` | about `TurnExecution` and `LiveTurn`, with their refinements of `TurnLife` and `Activation` | `TaskRegistryProofs` |
| `ReceivingProofs` | about `Attention` and `Relationships` | `TaskRegistryProofs` |
| `ProgressProofs` | about `EventPump`, with its refinement of `InOrder`, `AppServer` and `SchemaMigration` | |
| `ClientsProofs` | about `RpcMailbox`, `Workspace` and `ProactiveBridge` | |
| `MCCoordinator`, `MCDependencies`, `MCTurns`, `MCEvidenceChain`, `MCReceiving`, `MCWorkers`, `MCClients`, `MCProgress` | the instances TLC checks | |

Five of the MC modules put components side by side that share no state. Their variable `part` is
chosen initially among `Parts` and says which component moves; the others rest in their initial
state. The behaviours are those of each component alone, so a run explores the sum of the state
spaces and not their product, and a property holds of it exactly if it holds of its component.
`MCCoordinator` does the same with two views of the delivery core: mailbox claims, and the rest.
Components that do interact are composed properly: `Dispatcher` with `Coordinator`,
`EvidenceChain` with `Dependencies` and the turns, `Attention` with the turns.

### How state and actions correspond to the code

*Rows are records, tables are functions.* `task`, `grant`, `disp`, `mailbox`, `admission` and
`submission` are the tables of those names, indexed by their primary keys; a missing row has
state `"none"` (`"unregistered"`, `"absent"`). `bound` is the grant a message was accepted
under. `finalized` is the set of messages in `git_evidence_dependency_finalizations`, and
`purged` those with `content_purged_at`. The immutable documents, envelopes and grants, are
constants (`Envelope`, `GrantOf`). `now` is the injected clock; it ticks at any time.

*An action is a call that succeeds and writes.* Guards are the method's checks, in the same
transaction. A call that throws is rolled back and a replay writes nothing, so both are
stuttering steps, with one exception: the replayed answer of `prepareAdapterSubmission` makes a
dispatcher go on, so `Dispatcher!ReplayPrepared` models it. What a caller may hold too long
(expected revision, claim token, attempt) is a parameter ranging over every value the caller
can have seen.

*An attempt is `<<message, number>>`.* The code replaces the single submission row by a new one
with a new submission id after `confirmed-not-submitted`; the model numbers them, and calls that
name an older one are not enabled. `attempt` therefore never decreases.

*One row per call of the code.* `RecordAdapterReceipt` is also the `confirmed-submitted` branch of
`reconcileAdapterSubmission`, which does the same update. `ConfirmContextAdmission` is also the
core of `confirmContextAdmissionFromTurn`, including its pre-verified path. `SatisfyDependency`
is what `#satisfyDependencyEdge` does to the disposition (`Verifies`) and to the dependent
(`Unlocks`, of `TaskRegistry`); the edge itself is in `Dependencies`, so here it is allowed
whenever an edge might allow it.

*Two halves of one transaction.* A satisfaction touches a message and an edge. `Coordinator` has
every detail of the message and nothing of the edge; `Dependencies` has every detail of the edge
and of the message only its standing: open, submitted, verified or lost. `MessageLife` is the
contract between them. `Coordinator` implements it (`ImplementsMessageLife`, where `LifeOf`
computes the standing from the rows), `Dependencies` extends it. In `Dependencies` the check
`#assertCurrentAuthorization` is therefore the demand that the message is still submitted: its
standing is lost with its grant, its time, its tasks or its acceptance, and `MessageLife` says
for good. In the same way `TurnLife` is the contract between `TurnExecution`, which keeps a turn's
row with its receipt, and the two modules that build on turns.

*Evidence.* In `Dependencies` alone, `BindGitEvidenceDependency` and `FinalizeGitEvidenceDependency`
are the edge's half of those operations, allowed whenever the edge allows them. `EvidenceChain`
conjoins the chain's half: the pinned roles, the stages in order, the digest chain as the sequence
of records, the promotion of the turn that made a record in the transaction of the record.
`EvidenceElsewhere` stands for the operations of `Dependencies` on edges no chain is bound to.

*Attention.* `log` is the audit table as the cursor walks it: one entry per event, with the message
and the type of event. A claim epoch, an execution and an entry are model values; digests are
equal exactly if what they are taken of is. `ClaimOpens`, `DecisionOpens`, `PublicationOpens` and
`PreverifiedOpens` are the validators of the constructor, kept as predicates on the state: a
validator that throws means that the coordinator cannot be opened again.

*The pump.* `pump[o]` is the position and the locals of one `drainOnce`; a call that throws sends the
pump to `idle`, a crash does so too and is counted. `turn` and `handler` abstract the activation to
what recovery reads of it; `LiveTurn` has the activation in detail, with its three files, and nothing of
the leases. The route of a message is evaluated (`Evaluates`) from the clock and the receiver's
runtime, which move: `expired` says whose time ran out, and `moves` counts the revisions of a
receiver's task metadata, each of which swaps one runtime for the other. A round keeps what it read
(`route`, and in `seen` what the digest of the authority covers), and a dispatch keeps the route it was
claimed under: `ClaimDispatch` refuses another one, `SameAuthority` is the comparison before the
activation, and the recovery of a publication (`Reread`, `Replay`) demands the recorded route and an
offer. An activation is two turns taken as one, so a receiver that moved or a message that expired
in its course may stop it (`Spoilt`) or not.

*The adapter.* Everything JavaScript runs between two events is one action: the action that reads
the event. `peer` is the `JsonLinePeer`, `gate` the turn operation gate, `op` the operation's own
position, `caller` the promise its caller holds, `server` the child, `inbox` the lines read but not
handled. An operation that lost the race with its timer goes on, as in the code.

*Clients.* A request is a record in a set: it may be handled at any later time, once, or never, and
the client may give up at any time. Keys are what the code derives them from, so two keys are equal
exactly if the code's strings are. A workspace session is a process with the locals of its
`tools()` closure; the rows of `workspace.sqlite` survive it.

*The schema.* A part of the schema is a table with the columns one version gave it; a store is the
version it says, the parts it has, the steps it recorded with sound checksums or not, and whether
its rows are back-filled.

*The dispatcher.* A worker is one invocation of `dispatch()`; `pc` and `job` are its position
and locals. `Abandon` lets it stop anywhere: a crash, a coordinator call that threw, an adapter
that threw, timed out or answered nonsense. The harness is outside the source: a call that was
made is performed or lost at any later time, even after its worker is gone. Reconciliation
evidence is assumed true (`NoTrace`, `Happened`): the code trusts a signed or operator-provided
statement, and no property could hold if it lied.

### Abstractions

The task's own `state` word is in `TaskRegistry`; no delivery operation reads it, so the
coordinator's instances have a single word. Proposals, summaries and their sweep are in
`Relationships`, replay records in `RpcMailbox`, audit rows in `Attention`, and none of them in
`Coordinator`: no guard of a delivery operation reads them. Receipt contents and reason codes are
left out. `registerTask` may leave two active incarnations of one task, as in the code. The limits
of `expireDueMessages` and `purgeSensitiveContent` become "any subset" for expiry and "all that
qualify" for purge. `Relationships` treats the intents and modes of a grant as one model value;
what they allow is the matter of `RelationshipPolicy`, which `Coordinator` evaluates in full.
`Attention` leaves the policy open: an operation it denies is one that does not happen.
`Workspace` decides a message in one step, acceptances and rejections alike; the claim and
acknowledgement behind it are in `RpcMailbox`.

## 3. Runs

Every run sets `CHECK_DEADLOCK FALSE`: when every message has ended, every budget is used and the
clock stands at its bound, the system is at rest.

| run | instance | question |
|---|---|---|
| `steer` | one steer; sender, receiver and the receiver's next incarnation; two grants of the edge, the newer short-lived; two runtime snapshots, two adapter references; two attempts; time 0-2 | do revocation, supersession, rotation, expiry, staleness and reconciliation leave the machines and the record consistent, and is lost authority final? |
| `suggest` | one suggest, admission possible, one adapter reference, one attempt; or its mailbox, claims as long as the message, two tokens | do admission, submission, verification, expiry and purge agree in any order; is a live claim exclusive; is the standing of a message what other components are promised? |
| `dependencies` | a dependent, a prerequisite and its next incarnation; two dependencies of three versions, two kinds of terms (bound to a run; short-lived), two principals of which one is a policy, one message of each prerequisite, time 0-1; symmetric in the dependencies | is a dependent unlocked only when every current edge is satisfied, and is what was satisfied never undone? |
| `stale_unlock` (violation) | as `dependencies` | documentation: a stale run must remain locked |
| `turns` | coordinator: a task and its successor, three references of which one is of another kind, two executions that want one idempotency key, two native turns, three selections (two of one call id, one not allowed), two results, two calls; activation: two owners, three native turns, two tools | is the record of a turn exact and frozen with its actor; does the activation keep its promise with both owners failing anywhere? |
| `chain` | three roles, four stages, four turns, one dependency of two versions, role holders that move | is a dependency bound to a chain satisfied through the chain only, by records whose turns were promoted; does a spoiled chain never complete? |
| `receiving_decision` | one message, published in a turn, decided in a second, acted on in a third; accepted or deferred | does the cursor account for every event; does the binding of a decision read at the next start as it was left? |
| `receiving_commit` | one message whose dependency is finalized, a receiver that may move, a turn that may be given up; separately two grant versions, a proposal, two approvers, one summary of two versions | the same for promoted claims; is a held receiver held for good; one grant per proposal, none that returns? |
| `workers` | two dispatch workers, two adapter references of which one worker supports one, two attempts; separately two pumps, two epochs of each lease, a crash at any place, one message ignored and one offered whose grant may be revoked and which is stale after the one move of its receiver | at most one effect, receipts and denials true; one publisher, stale owners fenced, messages in order |
| `clients_sdk` | two SDK receivers with two calls each and a pull harness with one; a claim lapses one unit before its message; separately two sessions in two processes (one an MCP server, one under Pi), budget one per window | does a key of the SDK meet another request only late; sends within budget under fresh ids; fresh goals, one session per name? |
| `clients_pull` | two pull harnesses that ask for different decisions, a sender with keys of its own, a grant that may be revoked; separately four tool calls, two discoveries, one send, two targets | is what receivers are told true; does a turn keep its budgets? |
| `progress` | one pump, two receivers, three messages, a crash outside turns, two messages that may expire or go stale, a receiver that moves twice, away and back; nine operations of the adapter, two tool calls and a budget of one, every fault; two processes of this release and one of the next at every kind of store, one row to back-fill | everything received is dealt with; every operation ends; nothing starts afterwards; stores are kept |

Bounds: `MaxTime`, `MaxClock` (clocks), `MaxTaskRev` (metadata updates per incarnation),
`MaxAttempt`, `MaxClaim` (tokens issued), `MaxAction` (calls per turn), `MaxVersion`, `MaxAtOnce`
(turns under way), `MaxLog` (audit entries), `MaxEpoch` (leases), `MaxCrash`, `MaxMove` (metadata
updates of a pump's receiver), `MaxSend`, `MaxCall`, `MaxPull` (requests per client), `MaxId`,
`MaxGoal`, `MaxSummary` (versions of a summary). One message is enough for most questions
because operations touch one message's rows; where several matter (order in the pump, two edges of
a dependent) there are two or three. Two attempts suffice for "the first call is still under way
when the second starts", two grant versions for supersession, two incarnations for retirement, two
lease epochs for a takeover, two owners for a race, and two time units for before, at and after an
expiry. Page and member limits are two instead of a hundred: what happens at a limit is in reach. Two
summary versions allow a second publisher at the same version, under the same grant or another. In
`clients_sdk` an SDK is told of a conflict: `SdkNeverConflicts` is violated there, so the premise of
`SdkConflictsAreLate` is met. The grants of a workspace outlive that run too (their life must exceed
the margin of renewal, and a third time unit is out of reach); no property of it reads their
expiry.
Symmetry is declared only for values that no assumption, and no temporal property that needs
fairness, tells apart; in `MCClients` one permutation swaps two receivers and two sessions at once,
which is enough because only one part moves. For the safety properties the bounds carry no weight: the theorems of
section 4 hold for every value of every constant the assumptions allow. Two numbers are fixed there
too, that of releases (`Latest`, 10) and that of stages (four): they are the code's own.

Every property has a mutant: a small change of one definition, of the kind a plausible bug would
be, under which the property fails. Mutants stand beside the definition they change
(`CallAdapter_Prepared` before `CallAdapter`), and PROJECT.json pairs them with the properties.

### Fairness

The delivery core, the dispatcher, turns, dependencies, evidence, attention, relationships, clients
and the workspace assume none: each call is made by a client that may never come, so no liveness
of them would be justified. Three things in the code are driven by a scheduler, and only for those
is fairness assumed, always weak:

* `PumpFairSpec`: `runUntilIdle` is called again and again, so each pump's `Drain` is fair; a lease
  runs out (`Time`); the host promotes and drains what it deferred (`PromoteLater`, `DrainProcessed`),
  the former as long as the coordinator lets it, that is, for a receiver that has not moved. Crashes
  are bounded and fall outside a native turn: a turn whose outcome is unknown is never started again
  and needs an operator. `EveryMessageDealt` then holds: each received message is published, or
  skipped and passed by the cursor, unless messages are obstructed (`Obstructed`) for good. A message
  is obstructed while its dispatch is on record under another route than it has now, because it
  expired or its receiver's runtime changed after the dispatch was claimed: the coordinator refuses
  every further claim of it, and being the first it holds up what comes after it. It is so too when
  it asks a decision of a receiver whose task has moved, which the driver asks at revision zero. A
  runtime that moves and comes back obstructs only meanwhile. A message that expired or went stale
  *before* it was first claimed is skipped like an ignored one. The property does not hold for a
  dependent whose finalizing callback committed just before a crash (below).
* `AppFairSpec`: Node runs whatever is ready (`Adapter`), the timer runs out (`Timer`), and a killed
  child is reaped (`Reaps`). `OperationSettles` then holds for all operations, whatever the child
  does. Nothing is assumed of the child.
* `AppAnsweredSpec` adds, for the operations in `Calm` only, a child that answers. For those no
  fault happens, and `CompletedIsReturned` says that the operation returns what completed.

`MCFairSpec` of `MCProgress` is the conjunction of the three.

### What the repository says, and the code does not do

One disagreement is a run of its own:

* `stale_unlock`: the dependent's run is compared with an edge when that edge is satisfied. If the
  dependent then changes its run and another edge is satisfied, the first one still counts, and the
  dependent becomes ready although one of its current edges expects a run it has left.
  `docs/10-planning/m5-2-implementation-contract.md:107` says stale cases must remain locked.

The others are stated at the end of the module concerned, under this heading, and were found
violated by TLC; an instance needs one line in a configuration to show it again. Line numbers
without a file are of `coordinator/sqlite-coordinator.mjs`.

| definition | what happens | what is said |
|---|---|---|
| `Coordinator!ManualQuarantined` | `failDelivery` and `expireDueMessages` (:5598, :6700) do not treat `manual-reconciliation` as quarantined and relabel it | `docs/02-architecture/durable-dispatcher.md:37` |
| `Coordinator!ReceiptRecordable` | a revision taken while an attempt is outcome-unknown (`respond`, :5541) leaves its receipt and reconciliation in conflict for good | `docs/02-architecture/relationship-policy-engine.md:58` |
| `TurnExecution!TurnNeverRebound` | reconciling an unknown outcome takes the turn id of the receipt (`state/durable-turn-intent.mjs:269`); without a tool call another turn completes the execution | a comment on bound turns |
| `EvidenceChain!FinalizeReplayable` | the present pins and the edge are checked (:3063, :3112) before the persisted finalization is looked up (:3216) | `docs/10-planning/m5-2-real-codex-scenario.md:159` |
| `Attention!PurgeSurvivesRestart` | a purge rewrites audit details (:6490) of which claims hold a digest; the validators refuse the store | `docs/02-architecture/sqlite-storage-contract.md:191` |
| `Attention!DecisionSurvivesRestart` | the driver decides in the turn the claim is bound to; the validator of decisions (:8715) refuses that | `docs/10-planning/m5-2-implementation-contract.md:79` |
| `Attention!PromotionSurvivesRestart` | a claim promoted over a finalization leaves its turn merely bound, which :8485 refuses | the same, :113 |
| `Attention!AdmissionSurvivesRestart` | an admission in flight whose message an ordinary satisfaction verified looks pre-verified and is refused (:8501) | the same, :113 |
| `EventPump!OrphanCompleted` | recovery demands a promoted execution (:7406); the finalizing callback leaves it bound (:3888), so a crash after it blocks the pump | `docs/09-reviews/2026-09-01-m5-2-durable-pump-recovery.md:27` |
| `EventPump!SoleEntrant` | the publication lease is looked at when claimed and not when the callback is entered (`activation/autonomous-event-pump.mjs:575`) | the same, :25 |
| `EventPump!SelectedTakenOver` | a dispatch is bound to the digest of its route (:7020): once the message expired, or the receiver's runtime changed, nobody can claim it again | the same, :21 |
| `LiveTurn!OneNativeTurn` | `acquired: false` is not looked at (`activation/coordinator-activation-driver.mjs:235`): two owners ask for the turn; only the bound one acts | `docs/10-planning/m5-2-implementation-contract.md:115` |
| `LiveTurn!PreStartFailureRetires` | an admitted turn that failed before its start keeps its journal (`validation/live-agent-scenario.mjs:1734`) | `docs/10-planning/m5-2-real-codex-scenario.md:265` |
| `AppServer!RunnerSurvives` | a callback that returns to a closed connection ends in an unhandled rejection (`adapters/codex-app-server.mjs:575`) | `docs/10-planning/m5-2-implementation-contract.md:118` |
| `AppServer!RefKept` | the timer's error carries no reference when `createDynamicToolThread` made a thread (:656 there) | the same, :122 |
| `AppServer!WithinBudget` | the budget counts completed calls (:746 there) | the assertion itself |
| `RpcMailbox!ClaimAnsweredIsLive` | a lapsed claim is answered from its replay record (:4643) | `bindings/jsonrpc.mjs:5` |
| `RpcMailbox!SdkNeverConflicts` | the key of an acknowledgement names no revision (`sdk/index.mjs:324`): when a message was deferred without a claim, two acknowledgements meet under one key and the later is refused | the keys of the other two calls, which do name it (:303, :315) |
| `RpcMailbox!SenderMayRetry` | a retried send carries a new time (`sdk/index.mjs:245`) and conflicts | `docs/03-protocol/delivery-semantics.md:10` |
| `RpcMailbox!PurgedContentStaysGone` | a replay record written after expiry outlives the purge (:6655) | `docs/02-architecture/sqlite-storage-contract.md:158` |
| `Relationships!SweepIsComplete` | a summary published again keeps its purge mark (:4938) and is not swept again | the same, :143 |
| `Workspace!RenewalKeepsMail` | renewing a route (`workspace/local-workspace.mjs:127`) hides what was queued under the old grant | `docs/06-guides/first-workspace.md:332` |
| `Workspace!InboxReachesMail` | one page of undecided rows, expired ones included (:168 there) | the same |
| `Workspace!NameIsFreed` | a dead session's pid that lives again keeps its name (:109 there) | the same |
| `ProactiveBridge!ReturnedFirst` | what a discovery saw before it failed licenses a send (`sdk/index.mjs:407`) | `sdk/index.mjs:120` |

`SdkNeverConflicts` was met when its proof failed: TLC finds it violated in the instance of
`clients_sdk`, with two SDKs and one harness that answers without a claim. The run checks
`SdkConflictsAreLate`, what is true of the keys, which `SdkConflicts` proves for all.

Two more are not stated as definitions. `#migrate` reads `user_version` before its transaction
(:1356), so a process that read it before a later release migrated sets it back
(`sqlite-storage-contract.md:107`); `StoresKept` shows that the store stays sound. Under a host that
overlaps calls, as the Pi extension may, a send between two discoveries books the id of the later
one (`workspace/local-workspace.mjs:241`); `FreshId` is therefore claimed of MCP servers only, which
queue their calls.

## 4. Proofs

Assumptions, each named in the module that declares the constants: envelopes, grants, executions,
selections, events and edge documents are well-formed and name known incarnations
(`EnvelopeAssumption`, `GrantAssumption`, `ExecutionAssumption`, `SelectionAssumption`,
`DependencyAssumption`), the "absent" values are not real ones (`AbsentAssumption`,
`NoGrantAssumption`, parts of the others), context and turn references and registrations are among
the adapter references (`ContextRefAssumption`, `TurnAssumption`, `RegistrationAssumption`), and
the bounds are naturals (`BoundAssumption`, `RegistryBoundAssumption`). `LifeAssumption` and
`AttentionAssumption` say that an execution acts for one task on one message and an event is of one
message; `ChainAssumption` that a chain has a task for each role and an execution its stage;
`PumpAssumption` that a message has one receiver and its callback one way to end, and that a
receiver's moves are bounded;
`LiveTurnAssumption` that acceptance is a decision and there is a tool to run;
`AppServerAssumption` that the calls are finitely many and the operations known;
`RelationshipAssumption`, `MailboxAssumption`, `WorkspaceAssumption` and `BridgeAssumption` that
clocks, budgets and times to live are naturals, positive where the code refuses zero, and that the
markers of an absent row are no row. TLC evaluates them in every run of the module.

*Coordinator.* `TypeCorrect` proves `TypeOK` invariant. The safety properties are not inductive:
`UnknownNotRelabelled`, for instance, needs that an unknown attempt excludes a receipt, that
`begin` found an accepted non-terminal message, and that none of the other operations moves it
on. The invariant `IInv` is `TypeOK` and, for each message, `MessageInv`: an unsent message has
no rows (`Unsent`); delivery, decision, outcome, admission and attempt agree (`RowsAgree`); a
revocation of the message's grant was acted on (`Invalidated`); a purged message is at rest
(`Quiescent`), which needs that `Due` never becomes false again; the receiver of unresolved work
keeps an adapter reference and attempts are numbered within bounds (`RefKept`); a mailbox claim
runs out no later than its message (`ClaimBounded`), which is why a purge cannot delete a live
one. `Inductive` proves it, one lemma per group of actions and one step per action; each
invariant the runs check follows from it.

The action properties use the same invariant. `LegalSteps` checks every update of a disposition
against the tables. `ClaimsExclusive` needs `ClaimBounded`. `AuthorityLossFinal` has two halves:
what was lost stays lost (`RegistryMonotone`, `BoundStays`, `LossPersists`: the clock, the
retirements and the revocations only grow, and a message keeps its grant), and lost authority
fails `CurrentlyAuthorized` (`LostNotAuthorized`), which every operation that starts work checks
in the same transaction (`WorkNeedsAuthority`).

*Dispatcher.* `ComposesCoordinator` shows that each step of the composition is a step of the
coordinator or leaves it alone, so the coordinator's theorems hold of it. The invariant `DInv` adds
for each message: whatever started or may still start belongs to the latest attempt and has a
durable record (`Covered`); at most one of a worker about to call, a pending call and an effect
exists for it (`OneToken`); and a worker past `begin` that received an answer holds one for an
effect that happened (`Answered`). From it follow `EffectsCovered`, `DenialsTrue` and
`ImplementsAtMostOnce`, the refinement of `AtMostOnceEffect` under `receipted <- {m :
submission[m].state = "receipt-recorded"}`.

*Standing of messages.* `LifeImplemented` is a refinement: `StandingStaysLost` combines
`LossPersists` with the decision table, `OthersNeitherSubmitNorVerify` shows that only a receipt
and a satisfaction move a message forward, and `LifeStep` maps every step of the coordinator to one
of `MessageLife` or a stutter. Verification needs `LostNotAuthorized` again.

*Task registry.* `TaskStep`, `UnlockKeeps` and `ForgetKeeps` say what a step of each owner does to
one task: `Fenced` (a revision names one snapshot) and `Persists` (registration, retirement and the
possession of a reference stay). The other proofs use these facts instead of the actions.
`RevisionsAreFences` follows directly.

*Turn executions.* Each operation rewrites one row under its revision, so the first part of the
proof is about single rows: `StateRow`, `CallsRow` and `CompletedRow` say that the row an operation
writes is `Exact` (its receipt agrees with its turn and calls, and exists in the states that have
one) and `Follows` the row before. The invariant `TInv` adds what ties an execution to its task:
its task is registered and the revision it was created for is at most the current one (`Held`),
which is why an execution whose actor is gone stays frozen (`ExecutionsFreeze`).

*Dependencies.* The invariant `EInv` is the conjunction of the checked ones with `EdgesDrawn` (an
edge has terms some document gave it); it is inductive as a whole but not in parts: that no edge is
replaced once satisfied needs that a satisfied edge exists (`SatisfactionBacked`). One lemma per
group of operations also says what the group leaves alone; from these follow `EdgesAreFences` and
`UnlocksAreSound`. `KeepsRegistryAndStanding` shows that the composition respects the modules it
extends, so `RevisionsAreFences` holds of it too.

*Evidence chains.* `EvidenceInv` is `EInv` with the chain's half: the records of a chain build on
each other and one that was finalized is complete and backed (`ChainSound`); the pinned tasks are
those that were pinned, or later ones (`PinsSound`); a tie is of a version that was drawn; and the
three parts of `ChainsBack`, of which `SatisfiedByChain` needs all of these. That a record keeps
its backing needs that records are appended only, so the lemmas about prefixes come first.
`LossIsFinal` uses that a revision of a task never falls (`TaskStep`): a role that is gone stays
gone.

*TurnLife.* `RInv` adds to `TInv` that an execution calls only tools it allows and not too many
(`Allowed`). `View` is the mapping of one row; for each operation one lemma says which step of
`TurnLife` the change of its view is, and `TurnLifeRefines` combines them.

*Live turns.* `LiveInv` says where each process stands: the turn it is in is the one its execution
is bound to, with its locals those of the last change (`TurnSound`); past its journal it has it or
finds the outcome committed (`WaySound`); no two processes are in one native turn (`OwnTurns`),
although two may have asked for one; and decision, execution and effects agree (`TablesSound`), of
which "the first n tools ran, in the bound turn" is the part that makes `ActivationRefines` go
through.

*Attention.* Three layers. `WalkInv`: cursor, commits and claims, where what holds the cursor is on
the next event and each promoted claim has its commit; `CursorKept` and `HeldForGood` follow from
it. `BoundInv`: what the binding of a claim to its turn found is still so. `DecidedInv`: the last
decision audited stands or expired, and what a decision found in the mailbox is there until a
purge. `ClaimsOpen` and `DecisionsOpen` then enumerate how a validator can come to refuse, by cases
over these; that `ClaimSpoiled` and `DecisionSpoiled` name all ways there are is the theorem.

*Relationships.* `RelInv`: a granted proposal is closed and granted once (`ProposalSpent`,
`SpentOnce`), and a tombstone stands only where its grant has ended (`TombstoneDead`), which is why
none resurfaces. A grant may be installed revoked already; it then supersedes like any other.

*The pump.* `PumpInv` relates what the rows of a dispatch do not say: a handler ahead of the cursor
is alone for its receiver, one behind it promoted (`HandlerMatchesCursor`, `OneActive`), a settled
dispatch has a completed handler (`RowMatchesHandler`), a pump is at a point of its round for a
reason (`RoundSound`), a lapsed lease can be taken over. `PublishesAlone` and `StaleOwnerFenced`
follow. Order needs more (`OrderInv`): a claim is on the next event, what the cursor passed was
promoted or skipped, and whether a message is skipped is decided once. The last is not a matter of
the route, which changes, but of the route on record (`Way`): a dispatch keeps the one it was claimed
under, a round goes on only with that one, and a message whose dispatch says that it was not offered
has no handler.
`PumpsKeepOrder` is the refinement of `InOrder`. Its sequences are the received messages ranked by
their events, so a step of the cursor appends at most one to those dealt with (`Ranked`, `Behind`).

*The adapter.* `AdapterInv` relates the lines on the wire, the gate's queue, the numbers of the
calls and the turn: a call is in one line or once at the gate; numbers are given once each, so
every call before a listed one was decided; a turn completes only when its calls are answered; and
an operation that returned a turn lists its calls (`CallerSound`), which is `CallsAccounted`.

*The schema.* `SchemaInv` says what a process may rely on that goes by an overtaken version: the
store has all parts by then, or its version is the one that was read (`OpenerSound`). A refusal is
therefore about the store, never about the race. `UpgradeAdds` and `ManifestsAre` compute what the
ten steps make of a store.

*Clients.* `BridgeInv`: the counters of a turn count its calls, whatever became of each. `WsInv`:
ids are drawn once and held by one process, a send under way is in the book and not sent yet, what
a discovery has read or has yet to read is no older than it is, and a live process is in the row of
its name; windows are counted over all times up to now, because a later send counts in none that
ended. `MailboxInv`: what a request asks is in its key, what a record says was carried out and
stands, and an SDK that claims has seen no acknowledgement up to the revision it saw, the fact on
which `SdkConflictsAreLate` rests.

*Several facts at once.* Many checked properties are conjunctions, and a theorem proves each whole,
as `RowsOfAMessageAgree` does `SubmissionsAgree`. In `CoordinatorProofs`, `DependenciesProofs` and
`DispatcherProofs` the parts have theorems of their own too.

*Only model-checked.* `EveryMessageDealt` and `OperationEnds`: both are liveness under fairness,
which is beyond the prover. The disagreements of section 3 are violated and not to be proved. What
recursive definitions compute was nowhere needed: the proved modules have none, and `Upgraded` is
written out step by step, as the code is.

## 5. Plan

Done: every module is model-checked, and each safety property, action property and refinement
that a run checks is proved. Left, in order of importance:

1. The read side of the coordinator (conversations and receipts), which decides what a person sees.
2. The ACP and Gemini adapters, whose one prompt per child is simpler than `AppServer`.
3. The clean-up of live roles, and `observePersistedTurns`.
4. Of the proofs: what `EvidenceChain` and `Attention` conjoin of `TurnLife` as refinements of it, so
   that the theorems of `TurnsProofs` carry over as those of `CoordinatorProofs` do to the dispatcher.

## 6. Not modelled, and why

* `acp-stdio.mjs`, `gemini-headless.mjs`: one prompt over a child process each, without tools,
  binding or recovery; `Dispatcher` has what the rest sees of an adapter. `observePersistedTurns` of
  the Codex adapter reads only.
* JSON-schema validation, canonical JSON, digests and signatures: data checks taken as predicates
  that hold, or as equality.
* Rendering and inspector projections: pure functions and reads nothing depends on.
* Command line, MCP framing, terminal and preview files of the workspace: process and text I/O
  around the operations `Workspace` models.
* Demos, scripts, plugins, examples, experiments, schemas: no state another part relies on.
* The acceptance scenarios under `validation/`: test infrastructure that drives real products and
  judges evidence. The parts that carry state across crashes (the journals, the protected turns, the
  loop around the pump) are in `LiveTurn` and `EventPump`.
