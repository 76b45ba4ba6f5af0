----------------------------- MODULE TaskRegistry -----------------------------
(***************************************************************************)
(* The clock and the tasks of src/coordinator/sqlite-coordinator.mjs:       *)
(* tables tasks and task_metadata.  A task is known by its incarnations; an *)
(* update names the metadata revision it expects.                          *)
(*                                                                         *)
(* Every other component of the coordinator reads this state, and two write *)
(* it: a satisfied dependency makes the dependent ready, and retention      *)
(* forgets the adapter references of retired incarnations.                  *)
(***************************************************************************)
EXTENDS Naturals

CONSTANTS
  Incarnation,   \* task incarnations, across all tasks
  TaskOf,        \* the task an incarnation belongs to
  Runtime,       \* runtime snapshots (run id, objective version, checkpoint)
  NoRun,         \* a task that registered no runtime snapshot
  AdapterRef,    \* adapter references a task may be attached to
  NoRef,         \* no adapter reference, or a purged one
  TaskWord,      \* state words that callers give a task
  Registration,  \* snapshots <<run, ref, word>> each incarnation may register with
  MaxTime,       \* bound on the clock
  MaxTaskRev     \* bound on the metadata updates of each incarnation

ASSUME AbsentAssumption == NoRef \notin AdapterRef /\ NoRun \notin Runtime

ASSUME RegistrationAssumption ==
  \A i \in Incarnation :
    Registration[i] \subseteq
      (Runtime \cup {NoRun}) \X (AdapterRef \cup {NoRef}) \X TaskWord

ASSUME RegistryBoundAssumption ==
  MaxTime \in Nat /\ \A i \in Incarnation : MaxTaskRev[i] \in Nat

VARIABLES
  now,   \* this.clock()
  task   \* tables tasks and task_metadata

registry_vars == <<now, task>>

TaskType ==
  [status : {"unregistered", "active", "retired"}, rev : Nat,
   run : Runtime \cup {NoRun}, ref : AdapterRef \cup {NoRef},
   word : TaskWord \cup {"idle", "ready", "archived"}, retiredAt : Nat]

RegistryInit ==
  /\ now = 0
  /\ task = [i \in Incarnation |->
       [status |-> "unregistered", rev |-> 0, run |-> NoRun, ref |-> NoRef,
        word |-> "idle", retiredAt |-> 0]]

(***************************************************************************)
(* The operations.                                                         *)
(***************************************************************************)
Tick ==
  /\ now < MaxTime
  /\ now' = now + 1
  /\ UNCHANGED task

\* registerTask and the insertion half of rotateTaskIncarnation.
NewTask(snapshot) ==
  [status |-> "active", rev |-> 0, run |-> snapshot[1], ref |-> snapshot[2],
   word |-> snapshot[3], retiredAt |-> 0]

RegisterTask(i) ==
  /\ task[i].status = "unregistered"
  /\ \E snapshot \in Registration[i] : task' = [task EXCEPT ![i] = NewTask(snapshot)]
  /\ UNCHANGED now

\* Updates of a live task under its metadata revision.
TaskCas(i, rev) ==
  /\ task[i].status = "active"
  /\ task[i].rev = rev
  /\ rev < MaxTaskRev[i]

UpdateTaskState(i, rev, word) ==
  /\ TaskCas(i, rev)
  /\ task' = [task EXCEPT ![i].word = word, ![i].rev = rev + 1]
  /\ UNCHANGED now

UpdateTaskRuntime(i, rev, run) ==
  /\ TaskCas(i, rev)
  /\ task' = [task EXCEPT ![i].run = run, ![i].rev = rev + 1]
  /\ UNCHANGED now

AttachTask(i, rev, ref) ==
  /\ TaskCas(i, rev)
  /\ task' = [task EXCEPT ![i].ref = ref, ![i].rev = rev + 1]
  /\ UNCHANGED now

\* The previous incarnation is retired for good and keeps its adapter
\* reference; the next one starts at revision 0.
RotateTaskIncarnation(i, rev, next) ==
  /\ task[i].status = "active"
  /\ task[i].rev = rev
  /\ TaskOf[next] = TaskOf[i]
  /\ task[next].status = "unregistered"
  /\ \E snapshot \in Registration[next] :
       task' = [task EXCEPT ![i].status = "retired", ![i].retiredAt = now,
                            ![i].word = "archived", ![i].rev = rev + 1,
                            ![next] = NewTask(snapshot)]
  /\ UNCHANGED now

\* What the satisfaction of the last dependency does to the dependent.  A task
\* in another state than these is not unlocked, then or later.
Unlockable(i) == task[i].word \in {"waiting", "idle"}

Unlocks(i) ==
  /\ Unlockable(i)
  /\ task[i].rev < MaxTaskRev[i]
  /\ task' = [task EXCEPT ![i].word = "ready", ![i].rev = @ + 1]

\* What retention does to incarnations that were retired.
ForgetRefs(gone) ==
  task' = [i \in Incarnation |->
    IF i \in gone THEN [task[i] EXCEPT !.ref = NoRef] ELSE task[i]]

(***************************************************************************)
(* Specification.  Expected revisions are observed ones, never ahead.      *)
(***************************************************************************)
TaskNext ==
  \/ Tick
  \/ \E i \in Incarnation :
       \/ RegisterTask(i)
       \/ \E rev \in 0..task[i].rev :
            \/ \E word \in TaskWord : UpdateTaskState(i, rev, word)
            \/ \E run \in Runtime : UpdateTaskRuntime(i, rev, run)
            \/ \E ref \in AdapterRef : AttachTask(i, rev, ref)
            \/ \E next \in Incarnation : RotateTaskIncarnation(i, rev, next)

\* What the other components do to a task.
UnlockTask ==
  \E i \in Incarnation : task[i].status = "active" /\ Unlocks(i) /\ UNCHANGED now

TaskElsewhere ==
  \/ UnlockTask
  \/ \E gone \in SUBSET {i \in Incarnation : task[i].status = "retired"} :
       ForgetRefs(gone) /\ UNCHANGED now

RegistrySpec == RegistryInit /\ [][TaskNext \/ TaskElsewhere]_registry_vars

(***************************************************************************)
(* Properties.                                                             *)
(***************************************************************************)

\* Every row has the shape its table allows.
TaskTypeOK == now \in Nat /\ task \in [Incarnation -> TaskType]

\* Two readings of a live incarnation at one revision are equal: whoever
\* compares the revision compares everything, and nothing about a retired
\* incarnation changes but that its reference is forgotten.
RevisionFences ==
  [][\A i \in Incarnation : task'[i] # task[i] =>
       \/ task[i].status = "unregistered" /\ task'[i].status = "active"
       \/ task[i].status = "active" /\ task'[i].rev = task[i].rev + 1
                                    /\ task'[i].status # "unregistered"
       \/ task[i].status = "retired" /\ task'[i] = [task[i] EXCEPT !.ref = NoRef]]_registry_vars
=============================================================================
