--------------------------- MODULE SchedulerProofs ---------------------------
(* The inductive invariant of Scheduler, and its consequences for every      *)
(* number of ticks, tasks and fibers, every set of delays and every          *)
(* compaction limit.                                                         *)
EXTENDS Scheduler, TLAPS

\* Where tick() can be when a callback is on the stack.
PhaseInv ==
    /\ phase = "idle" => running = Nobody
    /\ running.kind = "none" => running = Nobody
    /\ running.kind = "task" => phase = "tasks" /\ running.id \in TaskIds
    /\ running.kind = "fiber" => phase \in {"start", "wake"} /\ running.id \in FiberIds
    /\ phase = "tasks" => ~aborted
    /\ phase \in {"start", "wake"} => ~aborted

\* After runDueTasks, and between ticks that end normally, every task is due
\* later.
TasksLater ==
    (phase \in {"start", "wake"} \/ (phase = "idle" /\ ~aborted)) =>
        \A id \in DOMAIN tasks : tasks[id].due > tick

SleepersLater ==
    phase = "idle" /\ ~aborted =>
        \A id \in DOMAIN sleeping : sleeping[id] > tick

\* A queue entry never promises a task later than the task list does, and the
\* task on the stack is due now or overdue.
TaskEntries ==
    /\ \A e \in taskQueue :
          /\ e.id < nextTaskId
          /\ e.id \in DOMAIN tasks => e.due <= tasks[e.id].due
    /\ \A id \in DOMAIN tasks : id < nextTaskId
    /\ running.kind = "task" =>
          /\ running.id < nextTaskId
          /\ running.id \in DOMAIN tasks => tasks[running.id].due <= tick

\* The sleepers and the sleep queue agree about the fibers that are alive.
SleepEntries ==
    /\ \A id \in DOMAIN sleeping : Entry(sleeping[id], id) \in sleepQueue
    /\ \A e \in sleepQueue :
          /\ e.id < nextFiberId
          /\ e.id \in fibers => e.id \in DOMAIN sleeping /\ sleeping[e.id] = e.due
    /\ \A id \in fibers : id < nextFiberId
    /\ \A id \in pending \cup todo : id < nextFiberId /\ id \notin DOMAIN sleeping
    /\ running.kind = "fiber" =>
          /\ running.id < nextFiberId
          /\ running.id \notin DOMAIN sleeping \cup pending \cup todo

IInv ==
    /\ TypeOK
    /\ PhaseInv
    /\ EveryTaskQueued
    /\ NoFiberStranded
    /\ OnlyLiveFibersWait
    /\ TasksLater
    /\ SleepersLater
    /\ TaskEntries
    /\ SleepEntries

-----------------------------------------------------------------------------
\* A queue entry is its due tick and its identity.
LEMMA EntryFacts ==
    ASSUME NEW due \in Nat, NEW id \in Nat, NEW ids, id \in ids
    PROVE  /\ Entry(due, id) \in Entries(ids)
           /\ Entry(due, id).due = due /\ Entry(due, id).id = id
           /\ \A e \in Entries(ids) : e = Entry(e.due, e.id)
BY DEF Entry, Entries

\* A new scheduler satisfies the invariant.
LEMMA InitIInv == Init => IInv
<1> SUFFICES ASSUME Init PROVE IInv  BY Zenon
<1> USE SchedulerAssumption DEF Init
<1>1. TypeOK
  <2>1. ran \in [TaskIds -> SUBSET Nat] /\ running \in [kind: {"none", "task", "fiber"}, id: Nat, interval: Nat]
    BY Zenon DEF Nobody
  <2>2. nextTaskId \in 1 .. MaxTasks + 1 /\ nextFiberId \in 1 .. MaxFibers + 1
    OBVIOUS
  <2>3. DOMAIN tasks = {} /\ DOMAIN sleeping = {}
    BY Zenon
  <2> QED  BY <2>1, <2>2, <2>3, Zenon DEF TypeOK
<1>2. PhaseInv /\ EveryTaskQueued /\ NoFiberStranded /\ OnlyLiveFibersWait
  BY Zenon DEF PhaseInv, EveryTaskQueued, NoFiberStranded, OnlyLiveFibersWait, Nobody
<1>3. TasksLater /\ SleepersLater /\ TaskEntries /\ SleepEntries
  BY Zenon DEF TasksLater, SleepersLater, TaskEntries, SleepEntries, Nobody
<1> QED  BY Zenon, <1>1, <1>2, <1>3 DEF IInv

\* schedule() and repeat() queue a new task for a later tick.
LEMMA AddTaskKeeps ==
    ASSUME IInv, NEW due \in Nat, NEW interval \in Nat, due > tick,
           AddTask(due, interval)
    PROVE  IInv'
<1> USE SchedulerAssumption DEF AddTask
<1>1. /\ DOMAIN tasks' = DOMAIN tasks \cup {nextTaskId}
      /\ tasks'[nextTaskId] = [due |-> due, interval |-> interval]
      /\ \A i \in DOMAIN tasks : i # nextTaskId => tasks'[i] = tasks[i]
  BY Zenon DEF With
<1>2. nextTaskId \in TaskIds /\ nextTaskId \in Nat
  BY DEF IInv, TypeOK, TaskIds
<1>3. Entry(due, nextTaskId) \in Entries(TaskIds)
  BY Zenon, <1>2, EntryFacts
<1>e. Entry(due, nextTaskId).due = due /\ Entry(due, nextTaskId).id = nextTaskId
  BY Zenon DEF Entry
<1>4. TypeOK'
  BY <1>1, <1>2, <1>3 DEF IInv, TypeOK, TaskIds
<1>5. PhaseInv' /\ NoFiberStranded' /\ OnlyLiveFibersWait' /\ SleepersLater' /\ SleepEntries'
  BY Zenon DEF IInv, PhaseInv, NoFiberStranded, OnlyLiveFibersWait, SleepersLater,
         SleepEntries, IsRunning, InUserCode
<1>6. EveryTaskQueued'
  BY <1>1 DEF IInv, EveryTaskQueued, IsRunning
<1>7. TasksLater'
  BY <1>1 DEF IInv, TasksLater
<1>8. TaskEntries'
  <2>1. \A e \in taskQueue' : /\ e.id < nextTaskId'
                              /\ e.id \in DOMAIN tasks' => e.due <= tasks'[e.id].due
    BY <1>1, <1>2, <1>e DEF IInv, TaskEntries, TypeOK, Entries, TaskIds
  <2>2. \A id \in DOMAIN tasks' : id < nextTaskId'
    BY <1>1, <1>2 DEF IInv, TaskEntries, TypeOK, TaskIds
  <2>3. running.kind = "task" => running.id # nextTaskId /\ running.id < nextTaskId'
    BY <1>2 DEF IInv, TaskEntries, TypeOK
  <2> QED  BY Zenon, <1>1, <2>1, <2>2, <2>3 DEF IInv, TaskEntries
<1> QED  BY Zenon, <1>4, <1>5, <1>6, <1>7, <1>8 DEF IInv

\* spawn() lists a new fiber as pending.
LEMMA SpawnKeeps == IInv /\ Spawn => IInv'
<1> SUFFICES ASSUME IInv, Spawn PROVE IInv'  BY Zenon
<1> USE SchedulerAssumption DEF Spawn
<1>1. nextFiberId \in FiberIds /\ nextFiberId \in Nat /\ nextFiberId' \in 1 .. MaxFibers + 1
  BY DEF IInv, TypeOK, FiberIds
<1>2. TypeOK'
  BY Zenon, <1>1 DEF IInv, TypeOK
<1>3. PhaseInv' /\ EveryTaskQueued' /\ TasksLater' /\ SleepersLater' /\ TaskEntries'
  BY Zenon DEF IInv, PhaseInv, EveryTaskQueued, TasksLater, SleepersLater, TaskEntries, IsRunning
<1>4. NoFiberStranded' /\ OnlyLiveFibersWait'
  BY Zenon DEF IInv, NoFiberStranded, OnlyLiveFibersWait, IsRunning
<1>5. SleepEntries'
  <2>1. \A e \in sleepQueue : e.id \in Nat /\ e.id # nextFiberId /\ e.id < nextFiberId'
    BY <1>1 DEF IInv, SleepEntries, TypeOK, Entries, FiberIds
  <2>2. \A id \in fibers' : id < nextFiberId'
    BY <1>1 DEF IInv, SleepEntries, TypeOK, FiberIds
  <2>3. running.kind = "fiber" => running.id # nextFiberId /\ running.id < nextFiberId'
    BY <1>1 DEF IInv, SleepEntries, TypeOK, PhaseInv, FiberIds
  <2>4. \A id \in DOMAIN sleeping : id # nextFiberId
    BY <1>1 DEF IInv, SleepEntries, OnlyLiveFibersWait, TypeOK
  <2>5. \A id \in pending' \cup todo : id < nextFiberId' /\ id \notin DOMAIN sleeping
    BY <1>1, <2>4 DEF IInv, SleepEntries, TypeOK, FiberIds
  <2> QED  BY Zenon, <2>1, <2>2, <2>3, <2>5 DEF IInv, SleepEntries
<1> QED  BY Zenon, <1>2, <1>3, <1>4, <1>5 DEF IInv

\* Cancelling a task, compaction included, keeps an entry for every other one.
LEMMA CancelTaskKeeps ==
    ASSUME IInv, NEW id \in TaskIds, CancelTask(id)
    PROVE  IInv'
<1> USE SchedulerAssumption DEF CancelTask
<1>1. /\ DOMAIN tasks' = DOMAIN tasks \ {id}
      /\ \A i \in DOMAIN tasks' : tasks'[i] = tasks[i]
  BY Zenon DEF Without, Restrict
<1>2. stale' \in Nat
  BY DEF CompactedCount, IInv, TypeOK
<1>3. \/ taskQueue' = taskQueue
      \/ taskQueue' = {} /\ DOMAIN tasks' = {}
      \/ taskQueue' = {Entry(tasks'[i].due, i) : i \in DOMAIN tasks'}
  BY Zenon DEF CompactedQueue
<1>4. \A e \in taskQueue' :
         e \in taskQueue \/ \E i \in DOMAIN tasks' : e.due = tasks[i].due /\ e.id = i
  BY <1>1, <1>3 DEF Entry
<1>5. TypeOK'
  <2>1. \A i \in DOMAIN tasks' : Entry(tasks'[i].due, i) \in Entries(TaskIds)
    BY Zenon, <1>1 DEF IInv, TypeOK, Entry, Entries
  <2>2. taskQueue' \subseteq Entries(TaskIds)
    BY Zenon, <1>3, <2>1 DEF IInv, TypeOK
  <2> QED  BY Zenon, <1>1, <1>2, <2>2 DEF IInv, TypeOK
<1>6. PhaseInv' /\ NoFiberStranded' /\ OnlyLiveFibersWait' /\ SleepersLater' /\ SleepEntries'
  BY Zenon DEF IInv, PhaseInv, NoFiberStranded, OnlyLiveFibersWait, SleepersLater,
         SleepEntries, IsRunning
<1>7. EveryTaskQueued'
  BY Zenon, <1>1, <1>3 DEF IInv, EveryTaskQueued, IsRunning
<1>8. TasksLater'
  BY Zenon, <1>1 DEF IInv, TasksLater
<1>9. TaskEntries'
  <2>1. \A e \in taskQueue' : e.id < nextTaskId
    BY Zenon, <1>1, <1>4 DEF IInv, TaskEntries
  <2>2. \A e \in taskQueue' : e.id \in DOMAIN tasks' => e.due <= tasks'[e.id].due
    BY <1>1, <1>4 DEF IInv, TaskEntries, TypeOK
  <2> QED  BY Zenon, <1>1, <2>1, <2>2 DEF IInv, TaskEntries
<1> QED  BY Zenon, <1>5, <1>6, <1>7, <1>8, <1>9 DEF IInv

\* forgetFiber() takes a fiber off every list but the sleep queue.
LEMMA ForgetFiberKeeps ==
    ASSUME IInv, NEW id, ForgetFiber(id),
           UNCHANGED <<tick, nextTaskId, nextFiberId, stale, taskQueue,
                       sleepQueue, tasks, phase, running, todo, aborted, ran>>
    PROVE  IInv'
<1> USE SchedulerAssumption DEF ForgetFiber
<1>1. /\ DOMAIN sleeping' = DOMAIN sleeping \ {id}
      /\ \A i \in DOMAIN sleeping' : sleeping'[i] = sleeping[i]
  BY Zenon DEF Without, Restrict
<1>2. TypeOK'
  BY Zenon, <1>1 DEF IInv, TypeOK
<1>3. PhaseInv' /\ EveryTaskQueued' /\ TasksLater' /\ TaskEntries'
  BY Zenon DEF IInv, PhaseInv, EveryTaskQueued, TasksLater, TaskEntries, IsRunning
<1>4. NoFiberStranded' /\ OnlyLiveFibersWait' /\ SleepersLater'
  BY Zenon, <1>1 DEF IInv, NoFiberStranded, OnlyLiveFibersWait, SleepersLater, IsRunning
<1>5. SleepEntries'
  BY Zenon, <1>1 DEF IInv, SleepEntries
<1> QED  BY Zenon, <1>2, <1>3, <1>4, <1>5 DEF IInv

\* shutdown() empties every list at once.
LEMMA ShutdownKeeps == IInv /\ Shutdown => IInv'
<1> SUFFICES ASSUME IInv, Shutdown PROVE IInv'  BY Zenon
<1> USE DEF Shutdown
<1>1. DOMAIN tasks' = {} /\ DOMAIN sleeping' = {}
  BY Zenon
<1>2. TypeOK'
  BY Zenon, <1>1 DEF IInv, TypeOK
<1>3. PhaseInv' /\ EveryTaskQueued' /\ NoFiberStranded' /\ OnlyLiveFibersWait'
  BY Zenon, <1>1 DEF IInv, PhaseInv, EveryTaskQueued, NoFiberStranded, OnlyLiveFibersWait
<1>4. TasksLater' /\ SleepersLater' /\ TaskEntries' /\ SleepEntries'
  BY Zenon, <1>1 DEF IInv, TasksLater, SleepersLater, TaskEntries, SleepEntries, PhaseInv, Nobody
<1> QED  BY Zenon, <1>2, <1>3, <1>4 DEF IInv

\* The previous tick left nothing due, so a new one meets only what is due now.
LEMMA StartTickKeeps == IInv /\ StartTick => IInv'
<1> SUFFICES ASSUME IInv, StartTick PROVE IInv'  BY Zenon
<1> USE DEF StartTick, lists
<1>1. TypeOK'
  <2>1. tick' \in Nat
    BY DEF IInv, TypeOK
  <2> QED  BY <2>1, Zenon DEF IInv, TypeOK
<1>2. PhaseInv'
  BY Zenon DEF IInv, PhaseInv, Nobody
<1>q. EveryTaskQueued' /\ NoFiberStranded' /\ OnlyLiveFibersWait'
  BY Zenon DEF IInv, EveryTaskQueued, NoFiberStranded, OnlyLiveFibersWait, IsRunning
<1>3. TasksLater' /\ SleepersLater' /\ TaskEntries' /\ SleepEntries'
  BY Zenon DEF IInv, TasksLater, SleepersLater, TaskEntries, SleepEntries, PhaseInv, Nobody
<1> QED  BY Zenon, <1>1, <1>2, <1>q, <1>3 DEF IInv

\* runDueTasks drops an entry, or runs the task the entry was queued for.
LEMMA PopTaskKeeps ==
    ASSUME IInv, NEW e \in taskQueue, PopTask(e)
    PROVE  IInv'
<1> USE DEF PopTask
<1>1. e \in Entries(TaskIds) /\ e.id \in TaskIds /\ e.id \in Nat /\ e.due \in Nat
  BY DEF IInv, TypeOK, Entries, TaskIds
<1>2. stale' \in Nat
  BY DEF IInv, TypeOK, DropStale
<1>3. \/ running' = running
      \/ /\ running' = Task(e.id)
         /\ e.id \in DOMAIN tasks /\ tasks[e.id].due = e.due /\ e.due <= tick
  <2>1. CASE e.id \notin DOMAIN tasks
    BY Zenon, <2>1
  <2>2. CASE e.id \in DOMAIN tasks /\ IsCurrent(e)
    BY Zenon, <2>2 DEF IsCurrent, IsDue
  <2>3. CASE e.id \in DOMAIN tasks /\ ~IsCurrent(e)
    BY Zenon, <2>3
  <2> QED  BY Zenon, <2>1, <2>2, <2>3
<1>4. running' # running => running'.kind = "task" /\ running'.id = e.id
  BY <1>3 DEF Task
<1>5. ran' \in [TaskIds -> SUBSET Nat]
  BY <1>1 DEF IInv, TypeOK
<1>6. running' \in [kind: {"none", "task", "fiber"}, id: Nat, interval: Nat]
  BY <1>1, <1>3 DEF IInv, TypeOK, Task
<1>7. TypeOK'
  BY Zenon, <1>2, <1>5, <1>6 DEF IInv, TypeOK
<1>8. PhaseInv'
  BY Zenon, <1>1, <1>4 DEF IInv, PhaseInv, Nobody
<1>9. EveryTaskQueued'
  <2> SUFFICES ASSUME NEW id \in DOMAIN tasks
               PROVE  IsRunning("task", id)' \/ Entry(tasks[id].due, id) \in taskQueue'
    BY Zenon DEF EveryTaskQueued
  <2>1. Entry(tasks[id].due, id) \in taskQueue
    BY Zenon DEF IInv, EveryTaskQueued, IsRunning, Nobody
  <2>2. CASE Entry(tasks[id].due, id) = e
    <3>1. e.id = id /\ e.due = tasks[id].due
      BY Zenon, <2>2 DEF Entry
    <3>2. running' = Task(id)
      BY Zenon, <3>1 DEF IsCurrent
    <3> QED  BY Zenon, <3>2 DEF IsRunning, Task
  <2> QED  BY Zenon, <2>1, <2>2
<1>10. NoFiberStranded' /\ OnlyLiveFibersWait' /\ SleepEntries'
  BY Zenon, <1>4 DEF IInv, NoFiberStranded, OnlyLiveFibersWait, SleepEntries, IsRunning, Nobody
<1>11. TasksLater' /\ SleepersLater'
  BY Zenon DEF IInv, TasksLater, SleepersLater
<1>12. TaskEntries'
  BY Zenon, <1>1, <1>3, <1>4 DEF IInv, TaskEntries, Nobody
<1> QED  BY Zenon, <1>7, <1>8, <1>9, <1>10, <1>11, <1>12 DEF IInv

\* A returning callback leaves its task queued for a later tick, or gone.
LEMMA ReturnTaskKeeps == IInv /\ ReturnTask => IInv'
<1> SUFFICES ASSUME IInv, ReturnTask PROVE IInv'  BY Zenon
<1> DEFINE id == running.id
           due == tick + running.interval
           requeued == id \in DOMAIN tasks /\ running.interval # 0
<1> USE DEF ReturnTask
<1>1. /\ id \in TaskIds /\ id \in Nat /\ due \in Nat
      /\ running.interval # 0 => due > tick
  BY DEF IInv, TypeOK, PhaseInv, TaskIds
<1>2. \/ /\ requeued
         /\ DOMAIN tasks' = DOMAIN tasks
         /\ \A i \in DOMAIN tasks : i # id => tasks'[i] = tasks[i]
         /\ tasks'[id] = [tasks[id] EXCEPT !.due = due]
         /\ taskQueue' = taskQueue \cup {Entry(due, id)}
      \/ /\ ~requeued
         /\ DOMAIN tasks' = DOMAIN tasks \ {id}
         /\ \A i \in DOMAIN tasks' : tasks'[i] = tasks[i]
         /\ taskQueue' = taskQueue
  <2>1. CASE requeued
    BY Zenon, <2>1
  <2>2. CASE ~requeued
    BY Zenon, <2>2 DEF Without, Restrict
  <2> QED  BY Zenon, <2>1, <2>2
<1>3. Entry(due, id) \in Entries(TaskIds) /\ Entry(due, id).due = due /\ Entry(due, id).id = id
  BY Zenon, <1>1 DEF Entry, Entries
<1>4. requeued => tasks'[id].due = due /\ tasks'[id] \in [due: Nat, interval: Nat]
  BY Zenon, <1>1, <1>2 DEF IInv, TypeOK
<1>5. running' = Nobody /\ running'.kind = "none"
  BY Zenon DEF Nobody
<1> HIDE DEF due, requeued
<1>6. TypeOK'
  <2>1. \A i \in DOMAIN tasks' : tasks'[i] \in [due: Nat, interval: Nat]
    BY Zenon, <1>2, <1>4 DEF IInv, TypeOK
  <2>2. DOMAIN tasks' \subseteq TaskIds /\ taskQueue' \subseteq Entries(TaskIds)
    BY Zenon, <1>2, <1>3 DEF IInv, TypeOK
  <2>3. running' \in [kind: {"none", "task", "fiber"}, id: Nat, interval: Nat]
    BY Zenon DEF Nobody
  <2> QED  BY Zenon, <2>1, <2>2, <2>3 DEF IInv, TypeOK
<1>7. PhaseInv' /\ NoFiberStranded' /\ OnlyLiveFibersWait' /\ SleepEntries' /\ SleepersLater'
  BY Zenon, <1>5 DEF IInv, PhaseInv, NoFiberStranded, OnlyLiveFibersWait, SleepEntries,
              SleepersLater, IsRunning
<1>8. EveryTaskQueued'
  BY Zenon, <1>2, <1>4 DEF IInv, EveryTaskQueued, IsRunning
<1>9. TasksLater'
  BY Zenon DEF IInv, TasksLater, PhaseInv
<1>10. TaskEntries'
  <2>1. \A e \in taskQueue' : e.id < nextTaskId
    BY Zenon, <1>2, <1>3 DEF IInv, TaskEntries
  <2>2. \A e \in taskQueue' : e.id \in DOMAIN tasks' => e.due <= tasks'[e.id].due
    <3> SUFFICES ASSUME NEW e \in taskQueue', e.id \in DOMAIN tasks'
                 PROVE  e.due <= tasks'[e.id].due
      BY Zenon
    <3>1. e.due \in Nat
      BY <1>2, <1>3 DEF IInv, TypeOK, Entries
    <3>2. CASE e.id # id
      BY Zenon, <1>2, <1>3, <3>2 DEF IInv, TaskEntries
    <3>3. CASE e.id = id /\ requeued
      <4>1. tasks[id].due <= tick /\ tasks[id].due \in Nat /\ tick \in Nat
        BY Zenon, <1>2, <3>3 DEF IInv, TaskEntries, TypeOK
      <4>2. due > tick
        BY Zenon, <1>1, <3>3 DEF requeued
      <4>3. e.due <= due
        BY <1>1, <1>2, <1>3, <3>1, <3>3, <4>1, <4>2 DEF IInv, TaskEntries
      <4> QED  BY Zenon, <1>4, <3>3, <4>3
    <3> QED  BY Zenon, <1>2, <3>2, <3>3
  <2>3. \A i \in DOMAIN tasks' : i < nextTaskId
    BY Zenon, <1>2 DEF IInv, TaskEntries
  <2> QED  BY Zenon, <1>5, <2>1, <2>2, <2>3 DEF TaskEntries
<1> QED  BY Zenon, <1>6, <1>7, <1>8, <1>9, <1>10 DEF IInv

\* A failing callback takes its task with it and ends the tick.
LEMMA ThrowTaskKeeps == IInv /\ ThrowTask => IInv'
<1> SUFFICES ASSUME IInv, ThrowTask PROVE IInv'  BY Zenon
<1> USE DEF ThrowTask
<1>1. /\ DOMAIN tasks' = DOMAIN tasks \ {running.id}
      /\ \A i \in DOMAIN tasks' : tasks'[i] = tasks[i]
  BY Zenon DEF Without, Restrict
<1>2. running' = Nobody /\ running'.kind = "none"
  BY Zenon DEF Nobody
<1>3. TypeOK'
  <2>1. running' \in [kind: {"none", "task", "fiber"}, id: Nat, interval: Nat]
    BY Zenon DEF Nobody
  <2> QED  BY Zenon, <1>1, <2>1 DEF IInv, TypeOK
<1>4. PhaseInv' /\ NoFiberStranded' /\ OnlyLiveFibersWait' /\ SleepEntries'
  BY Zenon, <1>2 DEF IInv, PhaseInv, NoFiberStranded, OnlyLiveFibersWait, SleepEntries, IsRunning
<1>5. EveryTaskQueued' /\ TasksLater' /\ SleepersLater' /\ TaskEntries'
  BY Zenon, <1>1, <1>2 DEF IInv, EveryTaskQueued, TasksLater, SleepersLater, TaskEntries, IsRunning
<1> QED  BY Zenon, <1>3, <1>4, <1>5 DEF IInv

\* runDueTasks ends when no entry is due, hence when no task is.
LEMMA EndTasksKeeps == IInv /\ EndTasks => IInv'
<1> SUFFICES ASSUME IInv, EndTasks PROVE IInv'  BY Zenon
<1> USE DEF EndTasks, lists
<1>1. \A id \in DOMAIN tasks : tasks[id].due > tick
  <2> SUFFICES ASSUME NEW id \in DOMAIN tasks PROVE tasks[id].due > tick  BY Zenon
  <2>1. Entry(tasks[id].due, id) \in taskQueue
    BY Zenon DEF IInv, EveryTaskQueued, IsRunning, Nobody
  <2>2. ~(Entry(tasks[id].due, id).due <= tick)
    BY Zenon, <2>1 DEF IsDue
  <2> QED  BY <2>2 DEF Entry, IInv, TypeOK
<1>2. TypeOK'
  BY Zenon DEF IInv, TypeOK
<1>3. PhaseInv' /\ EveryTaskQueued' /\ NoFiberStranded' /\ OnlyLiveFibersWait'
  BY Zenon DEF IInv, PhaseInv, EveryTaskQueued, NoFiberStranded, OnlyLiveFibersWait, IsRunning, Nobody
<1>4. TasksLater' /\ SleepersLater' /\ TaskEntries' /\ SleepEntries'
  BY Zenon, <1>1 DEF IInv, TasksLater, SleepersLater, TaskEntries, SleepEntries
<1> QED  BY Zenon, <1>2, <1>3, <1>4 DEF IInv

\* startPendingFibers starts a fiber of its snapshot, or skips a cancelled one.
LEMMA StartFiberKeeps ==
    ASSUME IInv, NEW id \in todo, StartFiber(id)
    PROVE  IInv'
<1> USE SchedulerAssumption DEF StartFiber
<1>1. id \in FiberIds /\ id \in Nat
  <2>1. id \in FiberIds
    BY Zenon DEF IInv, TypeOK
  <2> QED  BY <2>1 DEF FiberIds
<1>2. running' = IF id \in fibers THEN Fiber(id) ELSE Nobody
  BY Zenon
<1>3. /\ id \in fibers => running'.kind = "fiber" /\ running'.id = id
      /\ id \notin fibers => running' = Nobody /\ running'.kind = "none"
  BY <1>2 DEF Fiber, Nobody
<1>4. TypeOK'
  <2>1. running' \in [kind: {"none", "task", "fiber"}, id: Nat, interval: Nat]
    BY <1>1, <1>2 DEF Fiber, Nobody
  <2> QED  BY Zenon, <2>1 DEF IInv, TypeOK
<1>5. PhaseInv' /\ TasksLater' /\ SleepersLater'
  BY Zenon, <1>1, <1>3 DEF IInv, PhaseInv, TasksLater, SleepersLater
<1>6. EveryTaskQueued' /\ TaskEntries'
  BY Zenon, <1>3 DEF IInv, EveryTaskQueued, TaskEntries, IsRunning, Nobody
<1>7. NoFiberStranded' /\ OnlyLiveFibersWait'
  BY Zenon, <1>3 DEF IInv, NoFiberStranded, OnlyLiveFibersWait, IsRunning, Nobody
<1>8. SleepEntries'
  BY Zenon, <1>3 DEF IInv, SleepEntries
<1> QED  BY Zenon, <1>4, <1>5, <1>6, <1>7, <1>8 DEF IInv

\* startPendingFibers ends when its snapshot is used up.
LEMMA EndStartKeeps == IInv /\ EndStart => IInv'
<1> SUFFICES ASSUME IInv, EndStart PROVE IInv'  BY Zenon
<1> USE DEF EndStart, lists
<1>1. TypeOK'
  BY Zenon DEF IInv, TypeOK
<1>2. PhaseInv'
  BY Zenon DEF IInv, PhaseInv, Nobody
<1>q. EveryTaskQueued' /\ NoFiberStranded' /\ OnlyLiveFibersWait'
  BY Zenon DEF IInv, EveryTaskQueued, NoFiberStranded, OnlyLiveFibersWait, IsRunning
<1>3. TasksLater' /\ TaskEntries'
  BY Zenon DEF IInv, TasksLater, TaskEntries
<1>4. SleepersLater' /\ SleepEntries'
  BY Zenon DEF IInv, SleepersLater, SleepEntries
<1> QED  BY Zenon, <1>1, <1>2, <1>q, <1>3, <1>4 DEF IInv

\* wakeSleepingFibers drops an entry, or resumes the sleeper it belongs to.
LEMMA PopSleeperKeeps ==
    ASSUME IInv, NEW e \in sleepQueue, PopSleeper(e)
    PROVE  IInv'
<1> USE SchedulerAssumption DEF PopSleeper
<1>1. e \in Entries(FiberIds) /\ e.id \in FiberIds /\ e.id \in Nat /\ e = Entry(e.due, e.id)
  BY DEF IInv, TypeOK, Entries, FiberIds, Entry
<1> DEFINE wakes == e.id \in DOMAIN sleeping /\ sleeping[e.id] = e.due
<1>2. \/ /\ wakes /\ e.id \in fibers
         /\ DOMAIN sleeping' = DOMAIN sleeping \ {e.id}
         /\ \A i \in DOMAIN sleeping' : sleeping'[i] = sleeping[i]
         /\ running' = Fiber(e.id)
      \/ ~wakes /\ sleeping' = sleeping /\ running' = running
  <2>1. CASE wakes
    <3>1. e.id \in fibers
      BY Zenon, <2>1 DEF IInv, OnlyLiveFibersWait
    <3> QED  BY Zenon, <2>1, <3>1 DEF Without, Restrict
  <2>2. CASE ~wakes
    BY Zenon, <2>2
  <2> QED  BY Zenon, <2>1, <2>2
<1>3. \A i \in DOMAIN sleeping' : i \in DOMAIN sleeping /\ sleeping'[i] = sleeping[i]
  BY Zenon, <1>2
<1>4. ~wakes => e.id \notin fibers
  BY Zenon DEF IInv, SleepEntries
<1>5. /\ wakes => running'.kind = "fiber" /\ running'.id = e.id
      /\ ~wakes => running' = Nobody /\ running'.kind = "none"
  BY SMTT(30), <1>2 DEF Fiber, Nobody
<1>6. \A i \in DOMAIN sleeping' : i # e.id
  BY Zenon, <1>2, <1>4 DEF IInv, OnlyLiveFibersWait
<1> HIDE DEF wakes
<1>7. TypeOK'
  <2>1. running' \in [kind: {"none", "task", "fiber"}, id: Nat, interval: Nat]
    BY <1>1, <1>2 DEF IInv, TypeOK, Fiber
  <2>2. DOMAIN sleeping' \subseteq FiberIds /\ \A i \in DOMAIN sleeping' : sleeping'[i] \in Nat
    BY Zenon, <1>3 DEF IInv, TypeOK
  <2> QED  BY Zenon, <2>1, <2>2 DEF IInv, TypeOK
<1>8. PhaseInv' /\ TasksLater' /\ SleepersLater'
  BY Zenon, <1>1, <1>5 DEF IInv, PhaseInv, TasksLater, SleepersLater
<1>9. EveryTaskQueued' /\ TaskEntries'
  BY Zenon, <1>5 DEF IInv, EveryTaskQueued, TaskEntries, IsRunning, Nobody
<1>10. OnlyLiveFibersWait'
  BY Zenon, <1>3 DEF IInv, OnlyLiveFibersWait
<1>11. \A i \in DOMAIN sleeping' : Entry(sleeping'[i], i) \in sleepQueue'
  <2> SUFFICES ASSUME NEW i \in DOMAIN sleeping' PROVE Entry(sleeping'[i], i) \in sleepQueue'
    BY Zenon
  <2>1. Entry(sleeping'[i], i) \in sleepQueue
    BY Zenon, <1>3 DEF IInv, SleepEntries
  <2>2. Entry(sleeping'[i], i).id = i
    BY Zenon DEF Entry
  <2> QED  BY Zenon, <1>6, <2>1, <2>2
<1>12. NoFiberStranded'
  <2> SUFFICES ASSUME NEW i \in fibers
               PROVE  \/ IsRunning("fiber", i)'
                      \/ i \in pending
                      \/ i \in DOMAIN sleeping' /\ Entry(sleeping'[i], i) \in sleepQueue'
    BY Zenon DEF NoFiberStranded
  <2>1. i \in pending \/ i \in DOMAIN sleeping
    BY Zenon DEF IInv, NoFiberStranded, IsRunning, Nobody
  <2>2. i \in DOMAIN sleeping => i \in DOMAIN sleeping' \/ (wakes /\ i = e.id)
    BY Zenon, <1>2
  <2> QED  BY Zenon, <1>5, <1>11, <2>1, <2>2 DEF IsRunning
<1>13. SleepEntries'
  <2>1. \A f \in sleepQueue' : f.id \in fibers => f.id \in DOMAIN sleeping' /\ sleeping'[f.id] = f.due
    <3> SUFFICES ASSUME NEW f \in sleepQueue', f.id \in fibers
                 PROVE  f.id \in DOMAIN sleeping' /\ sleeping'[f.id] = f.due
      BY Zenon
    <3>1. f.id \in DOMAIN sleeping /\ sleeping[f.id] = f.due /\ f # e
      BY Zenon DEF IInv, SleepEntries
    <3>2. f = Entry(f.due, f.id)
      BY Zenon DEF IInv, TypeOK, Entries, Entry
    <3>3. f.id # e.id
      BY Zenon, <1>1, <1>2, <1>4, <3>1, <3>2 DEF wakes
    <3> QED  BY Zenon, <1>2, <3>1, <3>3
  <2>2. running'.kind = "fiber" =>
           /\ running'.id < nextFiberId
           /\ running'.id \notin DOMAIN sleeping' \cup pending \cup todo
    BY Zenon, <1>2, <1>5, <1>6 DEF IInv, SleepEntries, Nobody, wakes
  <2> QED  BY Zenon, <1>3, <1>11, <2>1, <2>2 DEF IInv, SleepEntries
<1> QED  BY Zenon, <1>7, <1>8, <1>9, <1>10, <1>12, <1>13 DEF IInv

\* A fiber that sleeps is queued for a later tick, unless it was cancelled.
LEMMA SleepKeeps ==
    ASSUME IInv, NEW ticks \in Nat, Sleep(ticks)
    PROVE  IInv'
<1> USE SchedulerAssumption DEF Sleep
<1> DEFINE id == running.id
           live == id \in fibers
           wake == tick + ticks
<1>1. id \in FiberIds /\ id \in Nat /\ wake \in Nat /\ wake > tick /\ tick \in Nat
  BY DEF IInv, TypeOK, PhaseInv, FiberIds
<1>2. \/ /\ live
         /\ DOMAIN sleeping' = DOMAIN sleeping \cup {id}
         /\ sleeping'[id] = wake
         /\ \A i \in DOMAIN sleeping : i # id => sleeping'[i] = sleeping[i]
         /\ sleepQueue' = sleepQueue \cup {Entry(wake, id)}
      \/ ~live /\ sleeping' = sleeping /\ sleepQueue' = sleepQueue
  <2>1. CASE live
    BY Zenon, <2>1 DEF With
  <2>2. CASE ~live
    BY Zenon, <2>2
  <2> QED  BY Zenon, <2>1, <2>2
<1>3. Entry(wake, id) \in Entries(FiberIds) /\ Entry(wake, id).due = wake /\ Entry(wake, id).id = id
  BY Zenon, <1>1 DEF Entry, Entries
<1>4. running' = Nobody /\ running'.kind = "none"
  BY Zenon DEF Nobody
<1>5. /\ id \notin DOMAIN sleeping \cup pending \cup todo
      /\ id < nextFiberId
      /\ live => \A e \in sleepQueue : e.id # id
      /\ phase \in {"start", "wake"}
  BY Zenon DEF IInv, SleepEntries, PhaseInv
<1> HIDE DEF live, wake
<1>6. TypeOK'
  <2>1. running' \in [kind: {"none", "task", "fiber"}, id: Nat, interval: Nat]
    BY Zenon DEF Nobody
  <2>2. DOMAIN sleeping' \subseteq FiberIds /\ \A i \in DOMAIN sleeping' : sleeping'[i] \in Nat
    BY Zenon, <1>1, <1>2 DEF IInv, TypeOK
  <2>3. sleepQueue' \subseteq Entries(FiberIds)
    BY Zenon, <1>2, <1>3 DEF IInv, TypeOK
  <2> QED  BY Zenon, <2>1, <2>2, <2>3 DEF IInv, TypeOK
<1>7. PhaseInv' /\ TasksLater' /\ SleepersLater'
  BY Zenon, <1>4, <1>5 DEF IInv, PhaseInv, TasksLater, SleepersLater
<1>8. EveryTaskQueued' /\ TaskEntries'
  BY Zenon, <1>4 DEF IInv, EveryTaskQueued, TaskEntries, IsRunning
<1>9. NoFiberStranded' /\ OnlyLiveFibersWait'
  BY Zenon, <1>2, <1>4, <1>5 DEF IInv, NoFiberStranded, OnlyLiveFibersWait, IsRunning, live
<1>10. SleepEntries'
  BY Zenon, <1>2, <1>3, <1>4, <1>5 DEF IInv, SleepEntries, live
<1> QED  BY Zenon, <1>6, <1>7, <1>8, <1>9, <1>10 DEF IInv

\* A fiber that ends, normally or not, leaves no trace but stale entries.
LEMMA EndFiberKeeps == IInv /\ (ReturnFiber \/ ThrowFiber) => IInv'
<1> SUFFICES ASSUME IInv, ReturnFiber \/ ThrowFiber PROVE IInv'  BY Zenon
<1>1. /\ running.kind = "fiber" /\ running' = Nobody /\ running'.kind = "none"
      /\ phase \in {"start", "wake"}
      /\ (phase' = phase /\ aborted' = aborted) \/ (phase' = "idle" /\ aborted' = TRUE)
      /\ todo' \subseteq todo
      /\ UNCHANGED <<tick, nextTaskId, nextFiberId, stale, taskQueue, sleepQueue, tasks, ran>>
  <2>1. running.kind = "fiber" /\ running' = Nobody
    BY Zenon DEF ReturnFiber, ThrowFiber
  <2>2. (phase' = phase /\ aborted' = aborted) \/ (phase' = "idle" /\ aborted' = TRUE)
    BY Zenon DEF ReturnFiber, ThrowFiber
  <2>3. todo' \subseteq todo
    BY Zenon DEF ReturnFiber, ThrowFiber
  <2>4. UNCHANGED <<tick, nextTaskId, nextFiberId, stale, taskQueue, sleepQueue, tasks, ran>>
    BY Zenon DEF ReturnFiber, ThrowFiber
  <2>5. phase \in {"start", "wake"} /\ Nobody.kind = "none"
    BY Zenon, <2>1 DEF IInv, PhaseInv, Nobody
  <2> QED  BY <2>1, <2>2, <2>3, <2>4, <2>5, Zenon
<1>2. /\ fibers' = fibers \ {running.id} /\ pending' = pending \ {running.id}
      /\ DOMAIN sleeping' = DOMAIN sleeping \ {running.id}
      /\ \A i \in DOMAIN sleeping' : sleeping'[i] = sleeping[i]
  BY Zenon DEF ReturnFiber, ThrowFiber, ForgetFiber, Without, Restrict
<1>3. TypeOK'
  <2>1. running' \in [kind: {"none", "task", "fiber"}, id: Nat, interval: Nat]
    BY Zenon, <1>1 DEF Nobody
  <2>2. aborted' \in BOOLEAN /\ phase' \in {"idle", "tasks", "start", "wake"}
    BY <1>1, Zenon DEF IInv, TypeOK
  <2>3. DOMAIN sleeping' \subseteq FiberIds /\ \A i \in DOMAIN sleeping' : sleeping'[i] \in Nat
    BY Zenon, <1>2 DEF IInv, TypeOK
  <2>4. fibers' \subseteq FiberIds /\ pending' \subseteq FiberIds /\ todo' \subseteq FiberIds
    BY Zenon, <1>1, <1>2 DEF IInv, TypeOK
  <2> QED  BY <1>1, <2>1, <2>2, <2>3, <2>4, Zenon DEF IInv, TypeOK
<1>4. PhaseInv'
  BY <1>1 DEF IInv, PhaseInv
<1>5. TasksLater' /\ SleepersLater'
  BY Zenon, <1>1 DEF IInv, TasksLater, SleepersLater
<1>6. EveryTaskQueued' /\ TaskEntries'
  BY Zenon, <1>1 DEF IInv, EveryTaskQueued, TaskEntries, IsRunning
<1>7. NoFiberStranded' /\ OnlyLiveFibersWait'
  BY Zenon, <1>1, <1>2 DEF IInv, NoFiberStranded, OnlyLiveFibersWait, IsRunning
<1>8. SleepEntries'
  BY Zenon, <1>1, <1>2 DEF IInv, SleepEntries
<1> QED  BY Zenon, <1>3, <1>4, <1>5, <1>6, <1>7, <1>8 DEF IInv

\* wakeSleepingFibers ends when no entry is due, hence when no sleeper is.
LEMMA EndTickKeeps == IInv /\ EndTick => IInv'
<1> SUFFICES ASSUME IInv, EndTick PROVE IInv'  BY Zenon
<1> USE DEF EndTick, lists
<1>1. \A id \in DOMAIN sleeping : sleeping[id] > tick
  <2> SUFFICES ASSUME NEW id \in DOMAIN sleeping PROVE sleeping[id] > tick  BY Zenon
  <2>1. ~(Entry(sleeping[id], id).due <= tick)
    BY Zenon DEF IInv, SleepEntries, IsDue
  <2> QED  BY <2>1 DEF Entry, IInv, TypeOK
<1>2. TypeOK'
  BY Zenon DEF IInv, TypeOK
<1>3. PhaseInv'
  BY Zenon DEF IInv, PhaseInv, Nobody
<1>4. EveryTaskQueued' /\ NoFiberStranded' /\ OnlyLiveFibersWait'
  BY Zenon DEF IInv, EveryTaskQueued, NoFiberStranded, OnlyLiveFibersWait, IsRunning
<1>5. TasksLater' /\ SleepersLater' /\ TaskEntries' /\ SleepEntries'
  BY Zenon, <1>1 DEF IInv, TasksLater, SleepersLater, TaskEntries, SleepEntries
<1> QED  BY Zenon, <1>2, <1>3, <1>4, <1>5 DEF IInv

-----------------------------------------------------------------------------
\* Every step of the scheduler and of its callers keeps the invariant.
LEMMA NextKeeps == IInv /\ [Next]_vars => IInv'
<1> SUFFICES ASSUME IInv, [Next]_vars PROVE IInv'  BY Zenon
<1>1. ASSUME NEW d \in Delays, Schedule(d) PROVE IInv'
  <2>1. Delay(d) \in Nat /\ Delay(d) > 0 /\ tick \in Nat
    BY SchedulerAssumption DEF Delay, IInv, TypeOK
  <2>2. tick + Delay(d) \in Nat /\ tick + Delay(d) > tick
    BY <2>1
  <2> QED  BY Zenon, <1>1, <2>2, AddTaskKeeps DEF Schedule
<1>2. ASSUME NEW d \in Delays, Repeat(d) PROVE IInv'
  <2>1. d \in Nat /\ tick + d \in Nat /\ tick + d > tick
    BY <1>2, SchedulerAssumption DEF Repeat, IInv, TypeOK
  <2> QED  BY Zenon, <1>2, <2>1, AddTaskKeeps DEF Repeat
<1>3. ASSUME NEW id \in FiberIds, CancelFiber(id) PROVE IInv'
  BY Zenon, <1>3, ForgetFiberKeeps DEF CancelFiber
<1>4. CASE Calls
  BY Zenon, <1>1, <1>2, <1>3, <1>4, SpawnKeeps, CancelTaskKeeps, ShutdownKeeps DEF Calls
<1>5. ASSUME NEW d \in Delays, Sleep(d) PROVE IInv'
  BY Zenon, <1>5, SleepKeeps, SchedulerAssumption
<1>6. CASE UNCHANGED vars
  BY Zenon, <1>6 DEF vars, lists, IInv, TypeOK, PhaseInv, EveryTaskQueued, NoFiberStranded,
              OnlyLiveFibersWait, TasksLater, SleepersLater, TaskEntries,
              SleepEntries, IsRunning
<1> QED
  BY Zenon, <1>4, <1>5, <1>6, StartTickKeeps, PopTaskKeeps, ReturnTaskKeeps, ThrowTaskKeeps,
     EndTasksKeeps, StartFiberKeeps, EndStartKeeps, PopSleeperKeeps, EndFiberKeeps,
     EndTickKeeps
  DEF Next

\* IInv holds in every state of the scheduler, whatever its callbacks do
\* (Scheduler::tick, the handles' cancel(), shutdown()).
THEOREM Invariance == Spec => []IInv
<1>1. Init => IInv
  BY Zenon, InitIInv
<1>2. IInv /\ [Next]_vars => IInv'
  BY Zenon, NextKeeps
<1> QED  BY <1>1, <1>2, PTL DEF Spec

\* Whatever callbacks do, every active task keeps the queue entry that will
\* run it (Scheduler::runDueTasks, compactTaskQueueIfNeeded).
THEOREM NoTaskIsForgotten == Spec => []EveryTaskQueued
<1>1. IInv => EveryTaskQueued
  BY Zenon DEF IInv
<1> QED  BY <1>1, Invariance, PTL

\* No fiber is stranded, also after an exception, and a cancelled fiber is on
\* no list that could resume it (Scheduler::startPendingFibers,
\* wakeSleepingFibers, captureFiberState, forgetFiber).
THEOREM FibersStayInPlace == Spec => []FibersInPlace
<1>1. IInv => FibersInPlace
  BY Zenon DEF IInv, FibersInPlace
<1> QED  BY <1>1, Invariance, PTL

\* A tick that ends normally has run every task and woken every sleeper that
\* was due (Scheduler::tick).
THEOREM TicksAreComplete == Spec => []NothingOverdue
<1>1. IInv => NothingOverdue
  BY Zenon DEF IInv, NothingOverdue, TasksLater, SleepersLater
<1> QED  BY <1>1, Invariance, PTL

\* A handle that is inactive stays inactive: no step brings a task back
\* (Scheduler::runDueTasks after a callback that cancelled its own task).
THEOREM NoTaskComesBack == Spec => HandlesStayInactive
<1> DEFINE Stays == \A id \in TaskIds :
                       id < nextTaskId /\ id \notin DOMAIN tasks => id \notin DOMAIN tasks'
<1>1. IInv /\ [Next]_vars => Stays \/ UNCHANGED vars
  <2> SUFFICES ASSUME IInv, Next, NEW id \in TaskIds, id < nextTaskId, id \notin DOMAIN tasks
               PROVE  id \notin DOMAIN tasks'
    BY Zenon
  <2>1. id # nextTaskId
    BY SMTT(30) DEF IInv, TypeOK
  <2>2. ASSUME NEW due, NEW interval, AddTask(due, interval) PROVE id \notin DOMAIN tasks'
    BY Zenon, <2>1, <2>2 DEF AddTask, With
  <2>3. ASSUME NEW i, CancelTask(i) PROVE id \notin DOMAIN tasks'
    BY Zenon, <2>3 DEF CancelTask, Without, Restrict
  <2>4. CASE Calls
    BY Zenon, <2>2, <2>3, <2>4 DEF Calls, Schedule, Repeat, Spawn, CancelFiber, Shutdown
  <2>5. CASE ReturnTask
    BY Zenon, <2>5 DEF ReturnTask, Without, Restrict
  <2>6. CASE ThrowTask
    BY Zenon, <2>6 DEF ThrowTask, Without, Restrict
  <2> QED
    BY Zenon, <2>4, <2>5, <2>6 DEF Next, StartTick, PopTask, EndTasks, StartFiber, EndStart,
       PopSleeper, Sleep, ReturnFiber, ThrowFiber, EndTick, lists
<1> QED  BY <1>1, Invariance, PTL DEF Spec, HandlesStayInactive

\* The runs a task has behind it are older than the tick it is due at.
RanInv ==
    /\ \A id \in TaskIds : \A t \in ran[id] : t <= tick /\ id < nextTaskId
    /\ \A id \in DOMAIN tasks :
          IsRunning("task", id) \/ \A t \in ran[id] : t < tasks[id].due

\* Starting a callback records the tick; returning from it moves the due tick on.
LEMMA RanKeeps == IInv /\ RanInv /\ [Next]_vars => RanInv'
<1> SUFFICES ASSUME IInv, RanInv, [Next]_vars PROVE RanInv'  BY Zenon
<1> USE SchedulerAssumption
<1>t. /\ DOMAIN tasks \subseteq TaskIds /\ ran \in [TaskIds -> SUBSET Nat]
      /\ tick \in Nat /\ nextTaskId \in Nat /\ TaskIds \subseteq Nat
      /\ \A id \in DOMAIN tasks : tasks[id].due \in Nat
  BY SMTT(30) DEF IInv, TypeOK, TaskIds
<1>1. ASSUME NEW due \in Nat, NEW interval, AddTask(due, interval) PROVE RanInv'
  <2>1. /\ DOMAIN tasks' = DOMAIN tasks \cup {nextTaskId}
        /\ \A i \in DOMAIN tasks : i # nextTaskId => tasks'[i] = tasks[i]
    BY Zenon, <1>1 DEF AddTask, With
  <2>0. nextTaskId' = nextTaskId + 1 /\ nextTaskId <= MaxTasks
    BY Zenon, <1>1 DEF AddTask
  <2>i. nextTaskId \in TaskIds
    BY <2>0 DEF IInv, TypeOK, TaskIds
  <2>2. nextTaskId \in TaskIds /\ ran[nextTaskId] = {}
    <3>1. \A t \in ran[nextTaskId] : nextTaskId < nextTaskId
      BY Zenon, <2>i DEF RanInv
    <3>2. ~(nextTaskId < nextTaskId)
      BY <1>t
    <3> QED  BY Zenon, <2>i, <3>1, <3>2
  <2>3. \A id \in TaskIds : id < nextTaskId => id < nextTaskId'
    <3> SUFFICES ASSUME NEW id \in TaskIds, id < nextTaskId PROVE id < nextTaskId'
      BY Zenon
    <3>1. id \in Nat /\ nextTaskId \in Nat
      BY Zenon, <1>t
    <3> QED  BY <2>0, <3>1
  <2> QED  BY Zenon, <1>1, <2>1, <2>2, <2>3 DEF AddTask, RanInv, IsRunning
<1>2. ASSUME NEW i, CancelTask(i) PROVE RanInv'
  BY Zenon, <1>2 DEF CancelTask, Without, Restrict, RanInv, IsRunning
<1>3. ASSUME NEW d \in Delays, Schedule(d) \/ Repeat(d) PROVE RanInv'
  BY <1>1, <1>3, <1>t DEF Schedule, Repeat, Delay
<1>4. CASE Calls
  <2>1. CASE Shutdown
    BY Zenon, <2>1 DEF Shutdown, RanInv
  <2> QED  BY Zenon, <1>2, <1>3, <1>4, <2>1 DEF Calls, Spawn, CancelFiber, RanInv, IsRunning
<1>5. CASE StartTick
  <2>1. tick' = tick + 1 /\ UNCHANGED <<tasks, nextTaskId, ran, running>>
    BY Zenon, <1>5 DEF StartTick, lists
  <2>2. \A id \in TaskIds : \A t \in ran[id] : t \in Nat
    BY Zenon, <1>t
  <2>3. \A id \in TaskIds : \A t \in ran[id] : t <= tick'
    BY <1>t, <2>1, <2>2 DEF RanInv
  <2> QED  BY Zenon, <2>1, <2>3 DEF RanInv, IsRunning
<1>6. ASSUME NEW e \in taskQueue, PopTask(e) PROVE RanInv'
  <2>1. CASE running' = running /\ ran' = ran
    BY Zenon, <1>6, <2>1 DEF PopTask, RanInv, IsRunning
  <2>2. CASE running' = Task(e.id) /\ ran' = [ran EXCEPT ![e.id] = @ \cup {tick}] /\ e.id \in DOMAIN tasks
    <3>1. IsRunning("task", e.id)' /\ e.id < nextTaskId
      BY Zenon, <2>2 DEF IsRunning, Task, IInv, TaskEntries
    <3>2. \A id \in TaskIds : id # e.id => ran'[id] = ran[id]
      BY Zenon, <1>t, <2>2
    <3>3. ran'[e.id] = ran[e.id] \cup {tick}
      BY Zenon, <1>t, <2>2
    <3>4. running.kind = "none"
      BY Zenon, <1>6 DEF PopTask, Nobody
    <3>5. UNCHANGED <<tick, tasks, nextTaskId>>
      BY Zenon, <1>6 DEF PopTask
    <3>6. \A id \in TaskIds : \A t \in ran'[id] : t <= tick /\ id < nextTaskId
      <4> SUFFICES ASSUME NEW id \in TaskIds, NEW t \in ran'[id]
                   PROVE  t <= tick /\ id < nextTaskId
        BY Zenon
      <4>1. CASE id # e.id
        BY Zenon, <3>2, <4>1 DEF RanInv
      <4>2. CASE id = e.id /\ t = tick
        <5>1. tick <= tick
          BY <1>t
        <5> QED  BY Zenon, <3>1, <4>2, <5>1
      <4>3. CASE id = e.id /\ t # tick
        BY Zenon, <3>3, <4>3 DEF RanInv
      <4> QED  BY Zenon, <4>1, <4>2, <4>3
    <3>7. \A id \in DOMAIN tasks :
             IsRunning("task", id)' \/ \A t \in ran'[id] : t < tasks[id].due
      BY Zenon, <1>t, <3>1, <3>2, <3>4 DEF RanInv, IsRunning
    <3> QED  BY Zenon, <3>5, <3>6, <3>7 DEF RanInv
  <2>3. CASE e.id \in DOMAIN tasks /\ IsCurrent(e)
    BY Zenon, <1>6, <2>2, <2>3 DEF PopTask
  <2>4. CASE ~(e.id \in DOMAIN tasks /\ IsCurrent(e))
    <3>1. running' = running /\ ran' = ran
      BY <1>6, <2>4, Zenon DEF PopTask
    <3> QED  BY Zenon, <2>1, <3>1
  <2> QED  BY Zenon, <2>3, <2>4
<1>7. CASE ReturnTask
  <2> DEFINE id == running.id
  <2>1. CASE id \in DOMAIN tasks /\ running.interval # 0
    <3>1. /\ DOMAIN tasks' = DOMAIN tasks
          /\ \A i \in DOMAIN tasks : i # id => tasks'[i] = tasks[i]
          /\ tasks'[id].due = tick + running.interval
      BY Zenon, <1>7, <2>1 DEF ReturnTask, IInv, TypeOK
    <3>2. \A t \in ran[id] : t < tick + running.interval
      BY <1>t, <2>1 DEF RanInv, IInv, TypeOK
    <3> QED  BY Zenon, <1>7, <3>1, <3>2 DEF ReturnTask, RanInv, IsRunning
  <2>2. CASE ~(id \in DOMAIN tasks /\ running.interval # 0)
    BY Zenon, <1>7, <2>2 DEF ReturnTask, Without, Restrict, RanInv, IsRunning
  <2> QED  BY Zenon, <2>1, <2>2
<1>8. CASE ThrowTask
  BY Zenon, <1>8 DEF ThrowTask, Without, Restrict, RanInv, IsRunning
<1>9. ASSUME UNCHANGED <<tick, tasks, nextTaskId, ran>>, running.kind # "task" PROVE RanInv'
  BY Zenon, <1>9 DEF RanInv, IsRunning
<1>10. CASE UNCHANGED vars
  BY Zenon, <1>10 DEF RanInv, IsRunning, vars, lists
<1>11. CASE EndTasks \/ EndStart \/ EndTick
  BY <1>9, <1>11 DEF EndTasks, EndStart, EndTick, lists, Nobody
<1>12. CASE \/ \E id \in todo : StartFiber(id)
            \/ \E e \in sleepQueue : PopSleeper(e)
  BY <1>9, <1>12 DEF StartFiber, PopSleeper, lists, Nobody
<1>13. CASE ReturnFiber \/ ThrowFiber \/ \E d \in Delays : Sleep(d)
  BY Zenon, <1>9, <1>13 DEF ReturnFiber, ThrowFiber, Sleep, lists
<1> QED
  BY Zenon, <1>4, <1>5, <1>6, <1>7, <1>8, <1>10, <1>11, <1>12, <1>13 DEF Next

\* A callback is started only while its task is listed, when it is due, and
\* at most once in a tick, even when a compaction from inside a callback
\* queues the running task again (Scheduler::runDueTasks).
THEOREM CallbacksStartWhenDue == Spec => StartsWhenDue
<1> DEFINE Start == running' # running /\ running'.kind = "task" =>
                      /\ running'.id \in DOMAIN tasks
                      /\ tasks[running'.id].due <= tick
                      /\ tick \notin ran[running'.id]
<1>1. Init => RanInv
  BY Zenon DEF Init, RanInv
<1>2. IInv /\ RanInv /\ [Next]_vars => Start \/ UNCHANGED vars
  <2> SUFFICES ASSUME IInv, RanInv, Next, running' # running, running'.kind = "task"
               PROVE  Start
    BY Zenon
  <2>a. ~Calls
    BY Zenon DEF Calls, Schedule, Repeat, AddTask, Spawn, CancelTask, CancelFiber, Shutdown
  <2>b. ~(StartTick \/ EndTasks \/ EndStart \/ EndTick)
    BY Zenon DEF StartTick, EndTasks, EndStart, EndTick
  <2>c. ~(ReturnTask \/ ThrowTask \/ ReturnFiber \/ ThrowFiber \/ \E d \in Delays : Sleep(d))
    BY DEF ReturnTask, ThrowTask, ReturnFiber, ThrowFiber, Sleep, Nobody
  <2>d. ~\E id \in todo : StartFiber(id)
    BY DEF StartFiber, Fiber, Nobody
  <2>e. ~\E f \in sleepQueue : PopSleeper(f)
    <3> SUFFICES ASSUME NEW f \in sleepQueue, PopSleeper(f) PROVE FALSE  BY Zenon
    <3>1. running' = Fiber(f.id) \/ running' = Nobody \/ running' = running
      BY Zenon DEF PopSleeper
    <3> QED  BY <3>1 DEF Fiber, Nobody
  <2>1. PICK e \in taskQueue : PopTask(e)
    BY Zenon, <2>a, <2>b, <2>c, <2>d, <2>e DEF Next
  <2>2. running' = Task(e.id) /\ e.id \in DOMAIN tasks /\ tasks[e.id].due = e.due /\ e.due <= tick
    BY Zenon, <2>1 DEF PopTask, IsCurrent, IsDue
  <2>3. running'.id = e.id /\ running.kind = "none"
    BY Zenon, <2>1, <2>2 DEF Task, PopTask, Nobody
  <2>4. \A t \in ran[e.id] : t \in Nat /\ t < tasks[e.id].due
    BY Zenon, <2>2, <2>3 DEF RanInv, IsRunning, IInv, TypeOK
  <2>5. tick \notin ran[e.id]
    <3>1. tick \in Nat /\ tasks[e.id].due \in Nat /\ tasks[e.id].due <= tick
      BY Zenon, <2>2 DEF IInv, TypeOK
    <3> QED  BY <2>4, <3>1
  <2> QED  BY Zenon, <2>2, <2>3, <2>5
<1> QED  BY <1>1, <1>2, RanKeeps, Invariance, PTL DEF Spec, StartsWhenDue
====
