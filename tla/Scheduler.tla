----------------------------- MODULE Scheduler -----------------------------
(* The owner thread's tick scheduler (Cobblestone\Task\Scheduler): delayed   *)
(* and repeating callbacks, fibers that sleep, cancellation through a        *)
(* TaskHandle, and the lazily compacted due queues.  A callback is user      *)
(* code: while it runs it may schedule, spawn and cancel, and it ends by     *)
(* returning, by throwing or, in a fiber, by suspending.  The due queues are *)
(* the ordered sets DueQueue is shown to implement.                          *)
EXTENDS Integers, FiniteSets, Functions

CONSTANTS MaxTick,      \* bound: ticks taken
          MaxTasks,     \* bound: schedule() and repeat() calls
          MaxFibers,    \* bound: spawn() calls
          Delays,       \* delays, intervals and sleeps callers ask for
          StaleLimit    \* 1_024 in compactTaskQueueIfNeeded

ASSUME SchedulerAssumption ==
    /\ MaxTick \in Nat /\ MaxTasks \in Nat /\ MaxFibers \in Nat
    /\ Delays \subseteq Nat
    /\ StaleLimit \in Nat

VARIABLES
    tick, nextTaskId, nextFiberId,
    stale,        \* $staleTaskEntries
    taskQueue,    \* $taskQueue: a set of [due, id]
    sleepQueue,   \* $sleepQueue: a set of [due, id]
    tasks,        \* $tasks: id |-> [due, interval], interval 0 for null
    fibers,       \* $fibers: ids of the live fibers
    pending,      \* $pendingFibers: ids
    sleeping,     \* $sleeping: id |-> wake tick
    phase,        \* where tick() is: idle, tasks, start or wake
    running,      \* the callback on the stack, or Nobody
    todo,         \* startPendingFibers: array_keys still to visit
    aborted,      \* history: the last tick() ended with an exception
    ran           \* history: task id |-> the ticks it ran at

lists == <<nextTaskId, nextFiberId, stale, taskQueue, sleepQueue, tasks,
           fibers, pending, sleeping>>
vars == <<tick, lists, phase, running, todo, aborted, ran>>

Nobody == [kind |-> "none", id |-> 0, interval |-> 0]
Task(id) == [kind |-> "task", id |-> id, interval |-> tasks[id].interval]
Fiber(id) == [kind |-> "fiber", id |-> id, interval |-> 0]

TaskIds == 1 .. MaxTasks
FiberIds == 1 .. MaxFibers

Entry(due, id) == [due |-> due, id |-> id]

\* DueQueue::before and the entry peekDue() and pop() see.
Before(left, right) ==
    \/ left.due < right.due
    \/ left.due = right.due /\ left.id < right.id
IsFirst(queue, e) == e \in queue /\ \A f \in queue \ {e} : Before(e, f)

IsDue(e) == e.due <= tick

Without(f, id) == Restrict(f, DOMAIN f \ {id})
With(f, id, value) == [i \in DOMAIN f \cup {id} |-> IF i = id THEN value ELSE f[i]]

Init ==
    /\ tick = 0 /\ nextTaskId = 1 /\ nextFiberId = 1 /\ stale = 0
    /\ taskQueue = {} /\ sleepQueue = {}
    /\ tasks = [id \in {} |-> 0] /\ sleeping = [id \in {} |-> 0]
    /\ fibers = {} /\ pending = {} /\ todo = {}
    /\ phase = "idle" /\ running = Nobody
    /\ aborted = FALSE /\ ran = [id \in TaskIds |-> {}]

-----------------------------------------------------------------------------
(* Calls user code makes: between ticks, or from the callback on the stack.  *)

InUserCode == phase = "idle" \/ running # Nobody

\* A one-shot task is due in a later tick even when no delay is asked for.
\* Mutant: a zero delay is due in the tick that is running.
DelayAsAsked(delay) == delay
Delay(delay) == IF delay = 0 THEN 1 ELSE delay

AddTask(due, interval) ==
    /\ InUserCode
    /\ nextTaskId <= MaxTasks
    /\ tasks' = With(tasks, nextTaskId, [due |-> due, interval |-> interval])
    /\ taskQueue' = taskQueue \cup {Entry(due, nextTaskId)}
    /\ nextTaskId' = nextTaskId + 1
    /\ UNCHANGED <<tick, nextFiberId, stale, sleepQueue, fibers, pending,
                   sleeping, phase, running, todo, aborted, ran>>

Schedule(delay) == AddTask(tick + Delay(delay), 0)

Repeat(interval) == interval > 0 /\ AddTask(tick + interval, interval)

\* The fiber is only queued: it starts from tick().
Spawn ==
    /\ InUserCode
    /\ nextFiberId <= MaxFibers
    /\ fibers' = fibers \cup {nextFiberId}
    /\ pending' = pending \cup {nextFiberId}
    /\ nextFiberId' = nextFiberId + 1
    /\ UNCHANGED <<tick, nextTaskId, stale, taskQueue, sleepQueue, tasks,
                   sleeping, phase, running, todo, aborted, ran>>

\* compactTaskQueueIfNeeded: the queue and the stale count that a cancellation
\* leaving the tasks `live` and `count` stale entries ends with.
\* Mutant: only tasks that are due later are put back.
CompactLater(live, count) ==
    IF count < StaleLimit \/ count < Cardinality(DOMAIN live) THEN taskQueue
    ELSE {Entry(live[id].due, id) : id \in {i \in DOMAIN live : live[i].due > tick + 1}}

Compacts(live, count) ==
    count >= StaleLimit /\ count >= Cardinality(DOMAIN live)

CompactedQueue(live, count) ==
    IF DOMAIN live = {} THEN {}
    ELSE IF Compacts(live, count)
    THEN {Entry(live[id].due, id) : id \in DOMAIN live}
    ELSE taskQueue

CompactedCount(live, count) ==
    IF DOMAIN live = {} \/ Compacts(live, count) THEN 0 ELSE count

\* TaskHandle::cancel of a scheduled task; it changes nothing once the task
\* is gone.  The task may be the one on the stack.
CancelTask(id) ==
    /\ InUserCode
    /\ id \in DOMAIN tasks
    /\ tasks' = Without(tasks, id)
    /\ taskQueue' = CompactedQueue(tasks', stale + 1)
    /\ stale' = CompactedCount(tasks', stale + 1)
    /\ UNCHANGED <<tick, nextTaskId, nextFiberId, sleepQueue, fibers, pending,
                   sleeping, phase, running, todo, aborted, ran>>

ForgetFiber(id) ==
    /\ fibers' = fibers \ {id}
    /\ pending' = pending \ {id}
    /\ sleeping' = Without(sleeping, id)

\* The entry of a sleeping fiber stays in the sleep queue.
CancelFiber(id) ==
    /\ InUserCode
    /\ id \in fibers
    /\ ForgetFiber(id)
    /\ UNCHANGED <<tick, nextTaskId, nextFiberId, stale, taskQueue, sleepQueue,
                   tasks, phase, running, todo, aborted, ran>>

\* Server::shutdown runs it after the last tick.
Shutdown ==
    /\ phase = "idle"
    /\ tasks' = [id \in {} |-> 0] /\ sleeping' = [id \in {} |-> 0]
    /\ fibers' = {} /\ pending' = {} /\ stale' = 0
    /\ taskQueue' = {} /\ sleepQueue' = {}
    /\ UNCHANGED <<tick, nextTaskId, nextFiberId, phase, running, todo,
                   aborted, ran>>

-----------------------------------------------------------------------------
(* tick()                                                                    *)

StartTick ==
    /\ phase = "idle"
    /\ tick < MaxTick
    /\ tick' = tick + 1
    /\ phase' = "tasks"
    /\ aborted' = FALSE
    /\ UNCHANGED <<lists, running, todo, ran>>

\* Mutant: the entry runs its task whatever tick the task is due at.
IsCurrentAlways(e) == TRUE
IsCurrent(e) == tasks[e.id].due = e.due

DropStale(count) == IF count > 0 THEN count - 1 ELSE 0

\* One turn of the loop of runDueTasks, up to the callback: an entry whose
\* task is gone, or is due at another tick, is dropped.
PopTask(e) ==
    /\ phase = "tasks" /\ running = Nobody
    /\ IsFirst(taskQueue, e) /\ IsDue(e)
    /\ taskQueue' = taskQueue \ {e}
    /\ IF e.id \notin DOMAIN tasks
       THEN /\ stale' = DropStale(stale)
            /\ UNCHANGED <<running, ran>>
       ELSE /\ IF IsCurrent(e)
               THEN /\ running' = Task(e.id)
                    /\ ran' = [ran EXCEPT ![e.id] = @ \cup {tick}]
               ELSE UNCHANGED <<running, ran>>
            /\ UNCHANGED stale
    /\ UNCHANGED <<tick, nextTaskId, nextFiberId, sleepQueue, tasks, fibers,
                   pending, sleeping, phase, todo, aborted>>

\* The callback returns: a one-shot task is removed, a repeating one is queued
\* for its next tick, and one that was cancelled meanwhile is left alone.
\* Mutant: a task cancelled from its own callback is queued again.
ReturnTaskBlindly ==
    LET id == running.id
        due == tick + running.interval
    IN  /\ running.kind = "task"
        /\ running' = Nobody
        /\ IF running.interval = 0
           THEN tasks' = Without(tasks, id) /\ UNCHANGED taskQueue
           ELSE /\ tasks' = With(tasks, id, [due |-> due, interval |-> running.interval])
                /\ taskQueue' = taskQueue \cup {Entry(due, id)}
        /\ UNCHANGED <<tick, nextTaskId, nextFiberId, stale, sleepQueue,
                       fibers, pending, sleeping, phase, todo, aborted, ran>>

ReturnTask ==
    LET id == running.id
        due == tick + running.interval
    IN  /\ running.kind = "task"
        /\ running' = Nobody
        /\ IF id \in DOMAIN tasks /\ running.interval # 0
           THEN /\ tasks' = [tasks EXCEPT ![id].due = due]
                /\ taskQueue' = taskQueue \cup {Entry(due, id)}
           ELSE tasks' = Without(tasks, id) /\ UNCHANGED taskQueue
        /\ UNCHANGED <<tick, nextTaskId, nextFiberId, stale, sleepQueue,
                       fibers, pending, sleeping, phase, todo, aborted, ran>>

\* The callback throws: its task is removed and tick() ends there.
ThrowTask ==
    /\ running.kind = "task"
    /\ tasks' = Without(tasks, running.id)
    /\ running' = Nobody
    /\ phase' = "idle" /\ aborted' = TRUE
    /\ UNCHANGED <<tick, nextTaskId, nextFiberId, stale, taskQueue, sleepQueue,
                   fibers, pending, sleeping, todo, ran>>

\* Nothing is due any more: startPendingFibers takes its snapshot.
\* Mutant: it takes all the pending fibers off the list at once.
TakeAllPending ==
    /\ phase = "tasks" /\ running = Nobody
    /\ \A e \in taskQueue : ~IsDue(e)
    /\ phase' = "start"
    /\ todo' = pending /\ pending' = {}
    /\ UNCHANGED <<tick, nextTaskId, nextFiberId, stale, taskQueue, sleepQueue,
                   tasks, fibers, sleeping, running, aborted, ran>>

EndTasks ==
    /\ phase = "tasks" /\ running = Nobody
    /\ \A e \in taskQueue : ~IsDue(e)
    /\ phase' = "start"
    /\ todo' = pending
    /\ UNCHANGED <<tick, lists, running, aborted, ran>>

\* The snapshot is visited in spawn order; a fiber cancelled meanwhile is
\* skipped.
StartFiber(id) ==
    /\ phase = "start" /\ running = Nobody
    /\ \A other \in todo : id <= other
    /\ todo' = todo \ {id}
    /\ pending' = pending \ {id}
    /\ running' = IF id \in fibers THEN Fiber(id) ELSE Nobody
    /\ UNCHANGED <<tick, nextTaskId, nextFiberId, stale, taskQueue, sleepQueue,
                   tasks, fibers, sleeping, phase, aborted, ran>>

EndStart ==
    /\ phase = "start" /\ running = Nobody
    /\ todo = {}
    /\ phase' = "wake"
    /\ UNCHANGED <<tick, lists, running, todo, aborted, ran>>

\* One turn of the loop of wakeSleepingFibers, up to resume(): the entry of a
\* fiber that was cancelled, or sleeps until another tick, is dropped.
PopSleeper(e) ==
    /\ phase = "wake" /\ running = Nobody
    /\ IsFirst(sleepQueue, e) /\ IsDue(e)
    /\ sleepQueue' = sleepQueue \ {e}
    /\ IF e.id \in DOMAIN sleeping /\ sleeping[e.id] = e.due
       THEN /\ sleeping' = Without(sleeping, e.id)
            /\ running' = IF e.id \in fibers THEN Fiber(e.id) ELSE Nobody
       ELSE UNCHANGED <<sleeping, running>>
    /\ UNCHANGED <<tick, nextTaskId, nextFiberId, stale, taskQueue, tasks,
                   fibers, pending, phase, todo, aborted, ran>>

\* captureFiberState when the fiber suspends in Scheduler::sleep; a fiber that
\* was cancelled while it ran is not looked at again.
Sleep(ticks) ==
    /\ running.kind = "fiber" /\ ticks > 0
    /\ IF running.id \in fibers
       THEN /\ sleeping' = With(sleeping, running.id, tick + ticks)
            /\ sleepQueue' = sleepQueue \cup {Entry(tick + ticks, running.id)}
       ELSE UNCHANGED <<sleeping, sleepQueue>>
    /\ running' = Nobody
    /\ UNCHANGED <<tick, nextTaskId, nextFiberId, stale, taskQueue, tasks,
                   fibers, pending, phase, todo, aborted, ran>>

\* The fiber terminates.
ReturnFiber ==
    /\ running.kind = "fiber"
    /\ ForgetFiber(running.id)
    /\ running' = Nobody
    /\ UNCHANGED <<tick, nextTaskId, nextFiberId, stale, taskQueue, sleepQueue,
                   tasks, phase, todo, aborted, ran>>

\* The fiber throws, or suspends without Scheduler::sleep: it is forgotten and
\* tick() ends there.
ThrowFiber ==
    /\ running.kind = "fiber"
    /\ ForgetFiber(running.id)
    /\ running' = Nobody
    /\ phase' = "idle" /\ aborted' = TRUE
    /\ todo' = {}
    /\ UNCHANGED <<tick, nextTaskId, nextFiberId, stale, taskQueue, sleepQueue,
                   tasks, ran>>

EndTick ==
    /\ phase = "wake" /\ running = Nobody
    /\ \A e \in sleepQueue : ~IsDue(e)
    /\ phase' = "idle"
    /\ UNCHANGED <<tick, lists, running, todo, aborted, ran>>

Calls ==
    \/ \E d \in Delays : Schedule(d) \/ Repeat(d)
    \/ Spawn
    \/ \E id \in TaskIds : CancelTask(id)
    \/ \E id \in FiberIds : CancelFiber(id)
    \/ Shutdown

Next ==
    \/ Calls
    \/ StartTick
    \/ \E e \in taskQueue : PopTask(e)
    \/ ReturnTask \/ ThrowTask \/ EndTasks
    \/ \E id \in todo : StartFiber(id)
    \/ EndStart
    \/ \E e \in sleepQueue : PopSleeper(e)
    \/ \E d \in Delays : Sleep(d)
    \/ ReturnFiber \/ ThrowFiber
    \/ EndTick

Spec == Init /\ [][Next]_vars

-----------------------------------------------------------------------------
Entries(ids) == [due: Nat, id: ids]

TypeOK ==
    /\ tick \in Nat /\ stale \in Nat
    /\ nextTaskId \in 1 .. MaxTasks + 1 /\ nextFiberId \in 1 .. MaxFibers + 1
    /\ taskQueue \subseteq Entries(TaskIds)
    /\ sleepQueue \subseteq Entries(FiberIds)
    /\ DOMAIN tasks \subseteq TaskIds
    /\ \A id \in DOMAIN tasks : tasks[id] \in [due: Nat, interval: Nat]
    /\ DOMAIN sleeping \subseteq FiberIds
    /\ \A id \in DOMAIN sleeping : sleeping[id] \in Nat
    /\ fibers \subseteq FiberIds /\ pending \subseteq FiberIds
    /\ todo \subseteq FiberIds
    /\ phase \in {"idle", "tasks", "start", "wake"}
    /\ running \in [kind: {"none", "task", "fiber"}, id: Nat, interval: Nat]
    /\ aborted \in BOOLEAN
    /\ ran \in [TaskIds -> SUBSET Nat]

IsRunning(kind, id) == running.kind = kind /\ running.id = id

\* No task is forgotten: every task the scheduler still lists as active has
\* the queue entry that will run it, unless it is the callback on the stack.
\* A compaction in the middle of a callback, a cancellation of the running
\* task or an exception must not lose it.
EveryTaskQueued ==
    \A id \in DOMAIN tasks :
        IsRunning("task", id) \/ Entry(tasks[id].due, id) \in taskQueue

\* No fiber is stranded: every fiber that reports itself active waits to be
\* started, sleeps with an entry that will wake it, or is on the stack, also
\* after a tick that an exception cut short.
NoFiberStranded ==
    \A id \in fibers :
        \/ IsRunning("fiber", id)
        \/ id \in pending
        \/ id \in DOMAIN sleeping /\ Entry(sleeping[id], id) \in sleepQueue

\* A tick that ends normally leaves nothing behind: every task that is still
\* listed is due in a later tick, and so is every sleeper.
NothingOverdue ==
    phase = "idle" /\ ~aborted =>
        /\ \A id \in DOMAIN tasks : tasks[id].due > tick
        /\ \A id \in DOMAIN sleeping : sleeping[id] > tick

\* What a handle cancels is gone for good: only live fibers sleep or wait to
\* be started, so that a cancelled fiber is never resumed.
OnlyLiveFibersWait == DOMAIN sleeping \cup pending \subseteq fibers

\* Both: the live fibers that are not running are exactly the waiting ones.
FibersInPlace == NoFiberStranded /\ OnlyLiveFibersWait

\* A handle that was inactive once never becomes active again: a cancelled,
\* finished or failed task does not come back.
HandlesStayInactive ==
    [][ \A id \in TaskIds :
          id < nextTaskId /\ id \notin DOMAIN tasks => id \notin DOMAIN tasks' ]_vars

\* A callback starts at most once in a tick and never before it is due, and
\* one that is not running is started only while its handle is active.
StartsWhenDue ==
    [][ running' # running /\ running'.kind = "task" =>
            /\ running'.id \in DOMAIN tasks
            /\ tasks[running'.id].due <= tick
            /\ tick \notin ran[running'.id] ]_vars
=============================================================================
