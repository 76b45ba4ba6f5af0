-------------------------- MODULE TaskRegistryProofs --------------------------
(***************************************************************************)
(* What the steps of the registry keep, for any tasks and bounds.  The      *)
(* proofs about the other components use these facts instead of the        *)
(* definitions of the registry's actions.                                  *)
(***************************************************************************)
EXTENDS TaskRegistry, TLAPS

LEMMA TaskTypeInit == RegistryInit => TaskTypeOK
BY AbsentAssumption DEF RegistryInit, TaskTypeOK, TaskType

LEMMA NewTaskType ==
  ASSUME NEW i \in Incarnation, NEW snapshot \in Registration[i]
  PROVE  NewTask(snapshot) \in TaskType
BY RegistrationAssumption DEF NewTask, TaskType

\* What a step of a task may do to it: a revision names one snapshot.
Fenced(i) ==
  \/ task'[i] = task[i]
  \/ task[i].status = "unregistered" /\ task'[i].status = "active"
  \/ task[i].status = "active" /\ task'[i].rev = task[i].rev + 1
                               /\ task'[i].status # "unregistered"
  \/ task[i].status = "retired" /\ task'[i] = [task[i] EXCEPT !.ref = NoRef]

\* A task that was registered stays so, and one with a reference keeps having one.
Persists(i) == task[i].status # "unregistered" =>
  /\ task'[i].status # "unregistered"
  /\ task[i].status = "retired" => task'[i].status = "retired"
  /\ task[i].ref # NoRef => task'[i].ref # NoRef

LEMMA TaskStep ==
  ASSUME TaskTypeOK, TaskNext
  PROVE  TaskTypeOK' /\ now' >= now /\ \A i \in Incarnation : Fenced(i) /\ Persists(i)
<1> USE DEF TaskTypeOK
<1> DEFINE Goal == TaskTypeOK' /\ now' >= now /\ \A i \in Incarnation : Fenced(i) /\ Persists(i)
<1>1. CASE Tick
  BY <1>1 DEF Tick, Fenced, Persists
<1>2. ASSUME NEW i \in Incarnation, RegisterTask(i) PROVE Goal
  <2> PICK snapshot \in Registration[i] : task' = [task EXCEPT ![i] = NewTask(snapshot)]
    BY <1>2 DEF RegisterTask
  <2>1. TaskTypeOK'
    BY <1>2, NewTaskType DEF RegisterTask
  <2> QED
    BY <1>2, <2>1 DEF RegisterTask, NewTask, Fenced, Persists
<1>3. ASSUME NEW i \in Incarnation, NEW rev \in 0..task[i].rev, NEW word \in TaskWord,
             UpdateTaskState(i, rev, word)
      PROVE  Goal
  BY <1>3 DEF UpdateTaskState, TaskCas, TaskType, Fenced, Persists
<1>4. ASSUME NEW i \in Incarnation, NEW rev \in 0..task[i].rev, NEW run \in Runtime,
             UpdateTaskRuntime(i, rev, run)
      PROVE  Goal
  BY <1>4 DEF UpdateTaskRuntime, TaskCas, TaskType, Fenced, Persists
<1>5. ASSUME NEW i \in Incarnation, NEW rev \in 0..task[i].rev, NEW ref \in AdapterRef,
             AttachTask(i, rev, ref)
      PROVE  Goal
  BY <1>5, AbsentAssumption DEF AttachTask, TaskCas, TaskType, Fenced, Persists
<1>6. ASSUME NEW i \in Incarnation, NEW rev \in 0..task[i].rev, NEW next \in Incarnation,
             RotateTaskIncarnation(i, rev, next)
      PROVE  Goal
  <2> PICK snapshot \in Registration[next] :
         task' = [task EXCEPT ![i].status = "retired", ![i].retiredAt = now,
                              ![i].word = "archived", ![i].rev = rev + 1,
                              ![next] = NewTask(snapshot)]
    BY <1>6 DEF RotateTaskIncarnation
  <2>1. i # next
    BY <1>6 DEF RotateTaskIncarnation
  <2>2. TaskTypeOK'
    BY <1>6, <2>1, NewTaskType DEF RotateTaskIncarnation, TaskType
  <2> QED
    BY <1>6, <2>1, <2>2 DEF RotateTaskIncarnation, NewTask, TaskType, Fenced, Persists
<1> QED
  BY <1>1, <1>2, <1>3, <1>4, <1>5, <1>6 DEF TaskNext

\* Making a task ready only takes a metadata revision.
LEMMA UnlockKeeps ==
  ASSUME TaskTypeOK, NEW i \in Incarnation, Unlocks(i) \/ UNCHANGED task
  PROVE  /\ task' \in [Incarnation -> TaskType]
         /\ \A j \in Incarnation : task'[j].status = task[j].status /\ task'[j].ref = task[j].ref
         /\ task[i].status = "active" => \A j \in Incarnation : Fenced(j)
<1>1. task \in [Incarnation -> TaskType]
  BY DEF TaskTypeOK
<1>2. CASE UNCHANGED task
  BY <1>1, <1>2 DEF Fenced
<1>3. CASE Unlocks(i)
  <2>1. task' \in [Incarnation -> TaskType]
    BY <1>1, <1>3 DEF Unlocks, TaskType
  <2>2. ASSUME NEW j \in Incarnation
        PROVE  /\ task'[j].status = task[j].status
               /\ task'[j].ref = task[j].ref
               /\ task[i].status = "active" => Fenced(j)
    BY <1>1, <1>3 DEF Unlocks, TaskType, Fenced
  <2> QED
    BY <2>1, <2>2
<1> QED
  BY <1>2, <1>3

\* Forgetting references changes nothing else, and nothing of the other tasks.
LEMMA ForgetKeeps ==
  ASSUME TaskTypeOK, NEW gone, ForgetRefs(gone)
  PROVE  /\ task' \in [Incarnation -> TaskType]
         /\ \A j \in Incarnation :
              /\ task'[j].status = task[j].status
              /\ task'[j].rev = task[j].rev
              /\ j \notin gone => task'[j] = task[j]
              /\ task'[j].ref \in {task[j].ref, NoRef}
              /\ j \in gone => task'[j] = [task[j] EXCEPT !.ref = NoRef]
<1>1. ASSUME NEW j \in Incarnation PROVE [task[j] EXCEPT !.ref = NoRef] \in TaskType
  BY DEF TaskTypeOK, TaskType
<1> QED
  BY <1>1 DEF ForgetRefs, TaskTypeOK, TaskType

LEMMA RegistryStep ==
  ASSUME TaskTypeOK, TaskNext \/ TaskElsewhere
  PROVE  TaskTypeOK' /\ \A i \in Incarnation : Fenced(i)
<1>1. CASE TaskNext
  BY <1>1, TaskStep
<1>2. CASE UnlockTask
  BY <1>2, UnlockKeeps DEF UnlockTask, TaskTypeOK
<1>3. ASSUME NEW gone \in SUBSET {i \in Incarnation : task[i].status = "retired"},
             ForgetRefs(gone), UNCHANGED now
      PROVE  TaskTypeOK' /\ \A i \in Incarnation : Fenced(i)
  BY <1>3, ForgetKeeps DEF TaskTypeOK, Fenced
<1> QED
  BY <1>1, <1>2, <1>3 DEF TaskElsewhere

\* Every row of the registry has the shape its table allows.
THEOREM RegistryTypeCorrect == RegistrySpec => []TaskTypeOK
<1>1. TaskTypeOK /\ UNCHANGED registry_vars => TaskTypeOK'
  BY DEF TaskTypeOK, registry_vars
<1> QED
  BY <1>1, TaskTypeInit, RegistryStep, PTL DEF RegistrySpec

\* A metadata revision names one snapshot of a live task, and a retired task
\* only ever loses its adapter reference.
THEOREM RevisionsAreFences == RegistrySpec => RevisionFences
<1>1. TaskTypeOK /\ [TaskNext \/ TaskElsewhere]_registry_vars =>
        [\A i \in Incarnation : task'[i] # task[i] =>
           \/ task[i].status = "unregistered" /\ task'[i].status = "active"
           \/ task[i].status = "active" /\ task'[i].rev = task[i].rev + 1
                                        /\ task'[i].status # "unregistered"
           \/ task[i].status = "retired" /\ task'[i] = [task[i] EXCEPT !.ref = NoRef]]_registry_vars
  BY RegistryStep DEF Fenced
<1> QED
  BY <1>1, RegistryTypeCorrect, PTL DEF RegistrySpec, RevisionFences
=============================================================================
