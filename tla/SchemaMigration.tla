--------------------------- MODULE SchemaMigration ---------------------------
(***************************************************************************)
(* How a coordinator opens the store it finds: the constructor of           *)
(* SqliteCoordinator, #migrate and #assertSchemaCompatible of               *)
(* src/coordinator/sqlite-coordinator.mjs.                                 *)
(*                                                                         *)
(* The version is read first; then one immediate transaction compares the   *)
(* recorded checksums, runs the steps from that version on, looks at the    *)
(* schema that results, records the steps and sets the version, or leaves   *)
(* everything as it was.  Between the read and the transaction any other    *)
(* process may open the store, also one of a later release, so a step may   *)
(* run over what it already did.                                           *)
(*                                                                         *)
(* A part of the schema is a table with the columns it got in one version.  *)
(***************************************************************************)
EXTENDS Naturals, FiniteSets, Sequences, Functions

CONSTANTS
  Opener,     \* processes that open the store
  Row,        \* dispatches an earlier release published
  NextOpens   \* a release after this one may open the store too

ASSUME SchemaAssumption == NextOpens \in BOOLEAN

VARIABLES
  store,    \* the file
  opener    \* what each process is at, and the version it read

schema_vars == <<store, opener>>

Latest == 10

(***************************************************************************)
(* What each version brought: tables (1, 4 to 9), or columns of tables that *)
(* were there (2, 3, 10).                                                  *)
(***************************************************************************)
Core == {"tasks", "task_metadata", "relationship_proposals", "task_summaries", "grants",
         "messages", "dispositions", "admission_claims", "adapter_submissions",
         "mailbox_claims", "operation_replays", "audit_events"}
FreshnessColumns == {"task_metadata", "dispositions"}
RetentionColumns == {"tasks", "relationship_proposals", "task_summaries", "messages",
                     "admission_claims", "audit_events"}
DependencyTables == {"dependency_edges", "dependency_satisfactions"}
GitEvidenceTables == {"git_evidence_requirements", "git_evidence_records"}
ExecutionTables == {"turn_execution_intents", "turn_tool_actions"}
AttentionTables == {"attention_receiver_cursors", "attention_cursor_commits",
                    "attention_handler_claims"}
TurnTables == ExecutionTables \cup AttentionTables
UnlockTables == {"git_evidence_dependency_bindings", "git_evidence_dependency_finalizations"}
BindingTables == {"lifecycle_action_publications", "attention_route_decision_bindings",
                  "context_admission_turn_bindings"}
PumpTables == {"event_pump_dispatches", "event_pump_checkpoints"}
LeaseColumns == PumpTables

Brought ==
  <<Core, FreshnessColumns, RetentionColumns, DependencyTables, GitEvidenceTables,
    TurnTables, UnlockTables, BindingTables, PumpTables, LeaseColumns>>

OnlyColumns == {2, 3, 10}

Part == UNION {{<<t, v>> : t \in Brought[v]} : v \in 1..Latest}

Manifest(v) == {p \in Part : p[2] <= v}

\* A table of a name the schema uses that is not the schema's has no part but this.
ForeignPart(t) == <<t, 0>>

StoreType ==
  [version : 0..(Latest + 1),
   parts : SUBSET (Part \cup {ForeignPart(t) : t \in UNION Range(Brought)}),
   recorded : SUBSET (1..(Latest + 1)), altered : SUBSET (1..Latest),
   epoch : [Row -> 0..2], checkpoints : [Row -> 1..3]]

SchemaTypeOK ==
  /\ store \in StoreType
  /\ opener \in [Opener -> [at : {"idle", "read", "open", "refused"}, seen : 0..(Latest + 1)]]

(***************************************************************************)
(* Stores a release before this one, or this one, left; and stores that     *)
(* somebody else changed.                                                  *)
(***************************************************************************)
Left(v, parts) ==
  [version |-> v, parts |-> parts, recorded |-> 1..v, altered |-> {},
   epoch |-> [r \in Row |-> IF v >= 10 THEN 1 ELSE 0], checkpoints |-> [r \in Row |-> 1]]

Released == {Left(v, Manifest(v)) : v \in 0..Latest}

\* A prototype has tables and no version.
Prototypes == {Left(0, Manifest(1)), Left(0, {<<t, 1>> : t \in {"tasks", "messages"}})}

Without(v, p) ==
  LET rest == Manifest(v) \ {p}
  IN Left(v, IF \E q \in rest : q[1] = p[1] THEN rest ELSE rest \cup {ForeignPart(p[1])})

Drifted == {Left(0, {ForeignPart("tasks")})}
           \cup {Without(v, p) : v \in {3, 9, 10},
                                 p \in Manifest(3) \cup {<<"event_pump_dispatches", 9>>}}
           \cup {[Left(Latest, Manifest(Latest)) EXCEPT !.altered = {v}] : v \in {1, Latest}}

SchemaInit ==
  /\ store \in Released \cup Prototypes \cup Drifted
  /\ opener = [o \in Opener |-> [at |-> "idle", seen |-> 0]]

(***************************************************************************)
(* The steps.                                                              *)
(***************************************************************************)
Exists(t, parts) == \E p \in parts : p[1] = t

\* CREATE TABLE IF NOT EXISTS: a table that is made has the columns of every version.
Creates(ts, parts) == parts \cup {p \in Part : p[1] \in ts /\ ~ Exists(p[1], parts)}

\* Mutant: ALTER TABLE ADD COLUMN, which throws where the column is.
AddsColumns_Anyway(ts, v, parts) ==
  IF \E t \in ts : <<t, v>> \in parts THEN {} ELSE parts \cup {<<t, v>> : t \in ts}

\* #addColumnIfMissing
AddsColumns(ts, v, parts) == parts \cup {<<t, v>> : t \in ts}

Step(v, parts) == IF v \in OnlyColumns THEN AddsColumns(Brought[v], v, parts)
                                       ELSE Creates(Brought[v], parts)

\* A step runs if the version that was read is before it.
Runs(v, seen, parts) == IF seen < v THEN Step(v, parts) ELSE parts

\* The steps in their order.
Upgraded(parts, seen) ==
  LET core == Runs(3, seen, Runs(2, seen, Runs(1, seen, parts)))
      work == Runs(6, seen, Runs(5, seen, Runs(4, seen, core)))
  IN Runs(10, seen, Runs(9, seen, Runs(8, seen, Runs(7, seen, work))))

\* A dispatch that was published before publications had leases gets one, and a
\* checkpoint of it.
Backfilled(s, seen) ==
  IF seen < 10
  THEN [s EXCEPT !.epoch = [r \in Row |-> IF store.epoch[r] = 0 THEN 1 ELSE store.epoch[r]],
                 !.checkpoints = [r \in Row |->
                    store.checkpoints[r] + (IF store.epoch[r] = 0 THEN 1 ELSE 0)]]
  ELSE s

\* #assertSchemaCompatible
Compatible(parts) == Manifest(Latest) \subseteq parts

(***************************************************************************)
(* The constructor.                                                        *)
(***************************************************************************)
ReadVersion(o) ==
  /\ opener[o].at = "idle"
  /\ opener' = [opener EXCEPT ![o] =
       [at |-> IF store.version > Latest THEN "refused" ELSE "read", seen |-> store.version]]
  /\ UNCHANGED store

Migrated(seen) ==
  Backfilled([store EXCEPT !.parts = Upgraded(store.parts, seen),
                           !.recorded = @ \cup 1..Latest,
                           !.version = Latest], seen)

Accepts(seen) == store.altered = {} /\ Compatible(Upgraded(store.parts, seen))

\* The immediate transaction, with what was read before it.
Migrate(o) ==
  /\ opener[o].at = "read"
  /\ IF Accepts(opener[o].seen)
     THEN store' = Migrated(opener[o].seen) /\ opener' = [opener EXCEPT ![o].at = "open"]
     ELSE opener' = [opener EXCEPT ![o].at = "refused"] /\ UNCHANGED store

\* It closes, or is killed: a transaction that did not commit leaves nothing.
Close(o) ==
  /\ opener[o].at # "idle"
  /\ opener' = [opener EXCEPT ![o] = [at |-> "idle", seen |-> 0]]
  /\ UNCHANGED store

\* The release after this one brings its version.
NextRelease ==
  /\ NextOpens
  /\ store.version = Latest
  /\ store' = [store EXCEPT !.version = Latest + 1, !.recorded = @ \cup {Latest + 1}]
  /\ UNCHANGED opener

SchemaNext ==
  \/ \E o \in Opener : ReadVersion(o) \/ Migrate(o) \/ Close(o)
  \/ NextRelease

SchemaSpec == SchemaInit /\ [][SchemaNext]_schema_vars

(***************************************************************************)
(* Properties.                                                             *)
(***************************************************************************)
\* Whoever has the store open finds every table and column it is written for, and
\* the steps that made them on record.
OpenHasSchema ==
  \A o \in Opener : opener[o].at = "open" =>
    Manifest(Latest) \subseteq store.parts /\ 1..Latest \subseteq store.recorded

\* A store that is what its version says is never refused, from whatever release it
\* is and whoever else is opening it.
Sound == /\ Manifest(store.version) \subseteq store.parts /\ store.parts \subseteq Part
         /\ store.altered = {}

SoundStoresOpen ==
  \A o \in Opener : opener[o].at = "refused" => ~ Sound \/ store.version > Latest
                                                \/ opener[o].seen > Latest

\* An old publication is completed once, however many processes run the step.
BackfilledOnce ==
  \A r \in Row :
    /\ store.epoch[r] <= 1
    /\ store.checkpoints[r] <= 2
    /\ (\E o \in Opener : opener[o].at = "open") => store.epoch[r] = 1

\* All three, whatever processes of this release and of the next do at the same time.
StoresKept == SchemaTypeOK /\ OpenHasSchema /\ SoundStoresOpen /\ BackfilledOnce
=============================================================================
