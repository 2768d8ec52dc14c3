--------------------------- MODULE ServerLifecycle ---------------------------
(* The owner thread from Server::run() to the end of the process: the runner *)
(* and its signal and shutdown hooks, start, ticks, the phases of shutdown,  *)
(* plugins with their scopes, and the event dispatcher.  User code (plugins, *)
(* listeners, tasks, commands, cleanups, the packet handler) is called from  *)
(* many places and calls back into the server, so the state is the PHP call  *)
(* stack: the last frame runs, the others wait for it to return or to throw. *)
(* A fiber is taken not to sleep inside a call it makes into the server.     *)
EXTENDS Integers, FiniteSets, SequencesExt

CONSTANTS Classes,      \* plugin classes
          Whats,        \* what user code registers: a listener of an event,
                        \* a task, a command or a cleanup
          MaxScopes,    \* bound: loadPlugin() calls
          MaxRegs,      \* bound: registrations
          MaxDepth      \* bound: frames on the stack

VARIABLES
    state,      \* Server::$state; Starting lasts for one native call
    reason,     \* whether Server::$stopReason is set
    sessions,   \* the native session host runs
    plugins,    \* Plugins::$plugins in insertion order: [class, scope]
    scopes,     \* every PluginScope: [closed, cleanup], cleanup a sequence of ids
    regs,       \* every registration: [what, scope], scope 0 for none
    live,       \* ids held by the dispatcher, the scheduler or the command tree
    resolved,   \* Dispatcher::$resolved: event |-> ids
    stack,      \* the call stack, a sequence of frames
    raised,     \* an exception is on its way to the last frame
    process,    \* script, hook (PHP shutdown functions) or ended
    abandoned,  \* history: scopes nothing will close any more
    phases,     \* history: the shutdown phases begun
    cutShort    \* history: exit() was called inside shutdown()

registry == <<plugins, scopes, regs, live, resolved>>
server == <<state, reason, sessions>>
history == <<abandoned, phases, cutShort>>
vars == <<server, registry, stack, raised, process, history>>

-----------------------------------------------------------------------------
(* Frames.                                                                   *)

Main == [at |-> "main"]
Run(pc) == [at |-> "run", pc |-> pc]
Hook == [at |-> "hook"]
Tick(pc) == [at |-> "tick", pc |-> pc]
Dispatch(ids) == [at |-> "dispatch", todo |-> ids]
Call(id) == [at |-> "call", reg |-> id]         \* 0 for the packet handler
Enable(class, s) == [at |-> "enable", class |-> class, scope |-> s]
Disable(class, s) == [at |-> "disable", class |-> class, scope |-> s]
Close(s, ids, failed) ==
    [at |-> "close", scope |-> s, todo |-> ids, failed |-> failed]
UnloadAll(classes, failed) ==
    [at |-> "unloadAll", todo |-> classes, failed |-> failed]
Shutdown(todo, failed) ==
    [at |-> "shutdown", todo |-> todo, failed |-> failed]

Top == Last(stack)
Below == Front(stack)
Runs(at) == stack # <<>> /\ ~raised /\ Top.at = at
Catches(at) == stack # <<>> /\ raised /\ Top.at = at
Push(frame) == stack' = Append(stack, frame)
Become(frame) == stack' = Append(Below, frame)

IsUserCode(frame) == frame.at \in {"main", "enable", "disable", "call"}
InUserCode == stack # <<>> /\ ~raised /\ IsUserCode(Top)
HasRoom == Len(stack) < MaxDepth

ScopesOnStack ==
    {stack[i].scope : i \in {j \in DOMAIN stack :
                                stack[j].at \in {"enable", "disable", "close"}}}

-----------------------------------------------------------------------------
(* Registrations: Server::on, after, every, task, command and the same calls *)
(* of a PluginScope, which also own what they register.                      *)

Events == {"started", "stopping", "session"}

IsListener(id) == regs[id].what \in Events
IsTask(id) == id # 0 /\ regs[id].what = "task"

\* The listeners of an event class, in the order they were registered.
Chain(event) ==
    SetToSortSeq({id \in live : regs[id].what = event}, <)

\* Dispatcher::remove, Scheduler::cancel*, CommandTree::remove.
Release(ids) ==
    /\ live' = live \ ids
    /\ resolved' = IF \E id \in ids \cap live : IsListener(id)
                   THEN <<>> ELSE resolved

\* Mutant: a scope accepts registrations after it was closed.
AcceptsAlways(s) == s \in DOMAIN scopes
\* PluginScope::assertOpen.
Accepts(s) == s \in DOMAIN scopes /\ ~scopes[s].closed

Register(what, s) ==
    LET id == Len(regs) + 1
    IN  /\ InUserCode
        /\ id <= MaxRegs
        /\ IF s = 0 THEN what # "cleanup" ELSE Accepts(s)
        /\ regs' = Append(regs, [what |-> what, scope |-> s])
        /\ live' = IF what = "cleanup" THEN live ELSE live \cup {id}
        /\ resolved' = IF what \in Events THEN <<>> ELSE resolved
        /\ scopes' = IF s = 0 THEN scopes
                     ELSE [scopes EXCEPT ![s].cleanup = Append(@, id)]
        /\ UNCHANGED <<server, plugins, stack, raised, process, history>>

\* Subscription, TaskHandle and CommandBinding::cancel; the scope keeps its
\* cleanup entry, which will find nothing to remove.
Cancel(id) ==
    /\ InUserCode
    /\ id \in live
    /\ Release({id})
    /\ UNCHANGED <<server, plugins, scopes, regs, stack, raised, process, history>>

\* Server::executeCommand.
Execute(id) ==
    /\ InUserCode /\ HasRoom
    /\ id \in live /\ regs[id].what = "command"
    /\ Push(Call(id))
    /\ UNCHANGED <<server, registry, raised, process, history>>

\* Server::stop, from user code or from a signal handler.
StopRequest ==
    /\ InUserCode \/ \E i \in DOMAIN stack : stack[i].at = "run"
    /\ state \notin {"Stopping", "Stopped"} /\ ~reason
    /\ reason' = TRUE
    /\ UNCHANGED <<state, sessions, registry, stack, raised, process, history>>

-----------------------------------------------------------------------------
(* Plugins.                                                                  *)

EntryOf(class) == SelectSeq(plugins, LAMBDA p : p.class = class)
IsLoaded(class) == EntryOf(class) # <<>>

\* Plugins::load up to enable(): the class is listed only once that returns.
Load(class) ==
    /\ InUserCode /\ HasRoom
    /\ ~IsLoaded(class)
    /\ Len(scopes) < MaxScopes
    /\ scopes' = Append(scopes, [closed |-> FALSE, cleanup |-> <<>>])
    /\ Push(Enable(class, Len(scopes) + 1))
    /\ UNCHANGED <<server, plugins, regs, live, resolved, raised, process, history>>

\* enable() returns.  A load of the same class from inside it may have listed
\* the class already: that entry is replaced and its scope is lost.
EnableReturns ==
    LET entry == [class |-> Top.class, scope |-> Top.scope]
        old == EntryOf(Top.class)
    IN  /\ Runs("enable")
        /\ plugins' = IF old = <<>> THEN Append(plugins, entry)
                      ELSE [plugins EXCEPT ![SelectInSeq(plugins, LAMBDA p : p.class = Top.class)] = entry]
        /\ abandoned' = abandoned \cup {p.scope : p \in ToSet(old)}
        /\ stack' = Below
        /\ UNCHANGED <<server, scopes, regs, live, resolved, raised, process,
                       phases, cutShort>>

\* PluginScope::close: marked closed first, then the cleanups, last in first out.
BeginClose(s, failed) ==
    /\ scopes' = [scopes EXCEPT ![s].closed = TRUE]
    /\ Become(Close(s, Reverse(scopes[s].cleanup), failed))

EnableThrows ==
    /\ Runs("enable")
    /\ BeginClose(Top.scope, TRUE)
    /\ UNCHANGED <<server, plugins, regs, live, resolved, raised, process, history>>

\* Plugins::unload: not listed any more when disable() begins.
Unload(class) ==
    /\ InUserCode /\ HasRoom
    /\ IsLoaded(class)
    /\ plugins' = SelectSeq(plugins, LAMBDA p : p.class # class)
    /\ Push(Disable(class, Head(EntryOf(class)).scope))
    /\ UNCHANGED <<server, scopes, regs, live, resolved, raised, process, history>>

DisableEnds(throws) ==
    /\ Runs("disable")
    /\ BeginClose(Top.scope, throws)
    /\ UNCHANGED <<server, plugins, regs, live, resolved, raised, process, history>>

CloseStep ==
    /\ Runs("close")
    /\ Top.todo # <<>>
    /\ LET id == Head(Top.todo)
           rest == [Top EXCEPT !.todo = Tail(@)]
       IN  IF regs[id].what = "cleanup"
           THEN /\ stack' = Append(Append(Below, rest), Call(id))
                /\ UNCHANGED <<live, resolved>>
           ELSE Become(rest) /\ Release({id})
    /\ UNCHANGED <<server, plugins, scopes, regs, raised, process, history>>

CloseCatches ==
    /\ Catches("close")
    /\ Become([Top EXCEPT !.failed = TRUE])
    /\ raised' = FALSE
    /\ UNCHANGED <<server, registry, process, history>>

\* The first failure, of enable(), disable() or a cleanup, is thrown at the end.
CloseEnds ==
    /\ Runs("close")
    /\ Top.todo = <<>>
    /\ scopes' = [scopes EXCEPT ![Top.scope].cleanup = <<>>]
    /\ stack' = Below
    /\ raised' = Top.failed
    /\ UNCHANGED <<server, plugins, regs, live, resolved, process, history>>

-----------------------------------------------------------------------------
(* Callbacks, dispatch and ticks.                                            *)

\* A listener, command, cleanup or repeating task returns.
CallReturns ==
    /\ Runs("call")
    /\ stack' = Below
    /\ UNCHANGED <<server, registry, raised, process, history>>

\* A one-shot task or a fiber returns and leaves the scheduler.
TaskEnds ==
    /\ Runs("call") /\ IsTask(Top.reg)
    /\ Release({Top.reg})
    /\ stack' = Below
    /\ UNCHANGED <<server, plugins, scopes, regs, raised, process, history>>

\* The scheduler also forgets a task that throws.
CallThrows ==
    /\ Runs("call")
    /\ Release({id \in {Top.reg} : IsTask(id)})
    /\ stack' = Below /\ raised' = TRUE
    /\ UNCHANGED <<server, plugins, scopes, regs, process, history>>

\* User code that called loadPlugin, unloadPlugin or executeCommand catches
\* what these threw; it may go on to throw itself.
UserCatches ==
    /\ stack # <<>> /\ raised /\ IsUserCode(Top)
    /\ raised' = FALSE
    /\ UNCHANGED <<server, registry, stack, process, history>>

\* The chain dispatch() iterates, and the cache it leaves.
Resolve(event) ==
    IF event \in DOMAIN resolved THEN resolved[event] ELSE Chain(event)
Resolved(event) ==
    [e \in DOMAIN resolved \cup {event} |-> Resolve(e)]

DispatchStep ==
    /\ Runs("dispatch")
    /\ stack' = IF Top.todo = <<>> THEN Below
                ELSE Append(Append(Below, Dispatch(Tail(Top.todo))), Call(Head(Top.todo)))
    /\ UNCHANGED <<server, registry, raised, process, history>>

\* An exception of a listener skips the rest of the chain; one out of a tick
\* skips the rest of the tick.
Unwind ==
    /\ Catches("dispatch") \/ Catches("tick")
    /\ stack' = Below
    /\ UNCHANGED <<server, registry, raised, process, history>>

TickTask(id) ==
    /\ Runs("tick") /\ Top.pc = "tasks"
    /\ id \in live /\ IsTask(id)
    /\ Push(Call(id))
    /\ UNCHANGED <<server, registry, raised, process, history>>

TickEvents ==
    /\ Runs("tick") /\ Top.pc = "tasks"
    /\ Become(Tick("events"))
    /\ UNCHANGED <<server, registry, raised, process, history>>

\* pollSessions and dispatchSpawned: an event, or a packet for the handler.
TickEvent ==
    /\ Runs("tick") /\ Top.pc = "events"
    /\ \/ /\ Push(Dispatch(Resolve("session")))
          /\ resolved' = Resolved("session")
       \/ Push(Call(0)) /\ UNCHANGED resolved
    /\ UNCHANGED <<server, plugins, scopes, regs, live, raised, process, history>>

\* The tick ends, or its native part (storage, sessions, chunk work) throws.
TickEnds ==
    /\ Runs("tick") /\ Top.pc = "events"
    /\ stack' = Below
    /\ raised' \in BOOLEAN
    /\ UNCHANGED <<server, registry, process, history>>

-----------------------------------------------------------------------------
(* Server::shutdown.                                                         *)

AllPhases ==
    <<"stopping-event", "sessions", "plugins", "scheduler", "world-storage">>

\* A server that is not running has neither listeners to tell nor sessions.
PhasesOwed ==
    IF state = "Running" THEN AllPhases ELSE SubSeq(AllPhases, 3, 5)

\* The call of shutdown() from a frame that becomes `caller`: it returns at
\* once when a shutdown is under way or done.
BeginShutdown(caller) ==
    IF state \in {"Stopping", "Stopped"}
    THEN Become(caller) /\ UNCHANGED state
    ELSE /\ state' = "Stopping"
         /\ stack' = Append(Append(Below, caller), Shutdown(PhasesOwed, FALSE))

PhaseStep ==
    LET phase == Head(Top.todo)
        rest == [Top EXCEPT !.todo = Tail(@)]
    IN  /\ Runs("shutdown")
        /\ Top.todo # <<>>
        /\ phases' = Append(phases, phase)
        /\ \/ /\ phase = "stopping-event"
              /\ stack' = Append(Append(Below, rest), Dispatch(Resolve("stopping")))
              /\ resolved' = Resolved("stopping")
              /\ UNCHANGED <<sessions, live, raised>>
           \/ /\ phase = "sessions"
              /\ Become(rest)
              /\ sessions' = FALSE /\ raised' \in BOOLEAN
              /\ UNCHANGED <<live, resolved>>
           \/ /\ phase = "plugins"
              /\ stack' = Append(Append(Below, rest),
                             UnloadAll(Reverse([i \in DOMAIN plugins |-> plugins[i].class]), FALSE))
              /\ UNCHANGED <<sessions, live, resolved, raised>>
           \/ /\ phase = "scheduler"
              /\ Become(rest)
              /\ Release({id \in live : IsTask(id)})
              /\ UNCHANGED <<sessions, raised>>
           \/ /\ phase = "world-storage"
              /\ Become(rest)
              /\ raised' \in BOOLEAN
              /\ UNCHANGED <<sessions, live, resolved>>
        /\ UNCHANGED <<state, reason, plugins, scopes, regs, process, abandoned, cutShort>>

\* Mutant: the first failing phase ends the shutdown.
PhaseFailsFast ==
    /\ Catches("shutdown")
    /\ Become(Shutdown(<<>>, TRUE))
    /\ raised' = FALSE
    /\ UNCHANGED <<server, registry, process, history>>

PhaseFails ==
    /\ Catches("shutdown")
    /\ Become([Top EXCEPT !.failed = TRUE])
    /\ raised' = FALSE
    /\ UNCHANGED <<server, registry, process, history>>

ShutdownEnds ==
    /\ Runs("shutdown")
    /\ Top.todo = <<>>
    /\ state' = "Stopped"
    /\ stack' = Below
    /\ raised' = Top.failed
    /\ UNCHANGED <<reason, sessions, registry, process, history>>

\* Plugins::shutdown: the classes loaded when it began, the last one first.
UnloadNext ==
    LET class == Head(Top.todo)
        rest == [Top EXCEPT !.todo = Tail(@)]
    IN  /\ Runs("unloadAll")
        /\ Top.todo # <<>>
        /\ IF IsLoaded(class)
           THEN /\ plugins' = SelectSeq(plugins, LAMBDA p : p.class # class)
                /\ stack' = Append(Append(Below, rest),
                                   Disable(class, Head(EntryOf(class)).scope))
           ELSE Become(rest) /\ UNCHANGED plugins
        /\ UNCHANGED <<server, scopes, regs, live, resolved, raised, process, history>>

UnloadFails ==
    /\ Catches("unloadAll")
    /\ Become([Top EXCEPT !.failed = TRUE])
    /\ raised' = FALSE
    /\ UNCHANGED <<server, registry, process, history>>

UnloadAllEnds ==
    /\ Runs("unloadAll")
    /\ Top.todo = <<>>
    /\ stack' = Below
    /\ raised' = Top.failed
    /\ UNCHANGED <<server, registry, process, history>>

-----------------------------------------------------------------------------
(* Runner::run, the shutdown hook and the end of the process.                *)

\* The script has set the server up and calls run(): the handlers are installed.
CallRun ==
    /\ Runs("main")
    /\ Become(Run("start"))
    /\ UNCHANGED <<server, registry, raised, process, history>>

\* Server::start: refused after a stop request; the native start may fail.
Start ==
    /\ Runs("run") /\ Top.pc = "start"
    /\ \/ raised' = TRUE /\ UNCHANGED <<state, sessions, stack, resolved>>
       \/ /\ ~reason
          /\ state' = "Running" /\ sessions' = TRUE
          /\ stack' = Append(Append(Below, Run("started")), Dispatch(Resolve("started")))
          /\ resolved' = Resolved("started")
          /\ UNCHANGED raised
    /\ UNCHANGED <<reason, plugins, scopes, regs, live, process, history>>

Started ==
    /\ Runs("run") /\ Top.pc = "started"
    /\ Become(Run("loop"))
    /\ UNCHANGED <<server, registry, raised, process, history>>

\* A listener of ServerStarted threw: the sessions are stopped again.
AbortStart ==
    /\ Catches("run") /\ Top.pc = "started"
    /\ state' = "Created" /\ sessions' = FALSE
    /\ Become(Run("loop"))
    /\ UNCHANGED <<reason, registry, raised, process, history>>

\* TickLoop::run asks before every tick, then Server::tick.
NextTick ==
    /\ Runs("run") /\ Top.pc = "loop"
    /\ ~reason
    /\ Push(Tick("tasks"))
    /\ UNCHANGED <<server, registry, raised, process, history>>

LeaveLoop ==
    /\ Runs("run") /\ Top.pc = "loop"
    /\ reason
    /\ BeginShutdown(Run("done"))
    /\ UNCHANGED <<reason, sessions, registry, raised, process, history>>

RunFails ==
    /\ Catches("run") /\ Top.pc \in {"start", "loop"}
    /\ reason' = TRUE
    /\ raised' = FALSE
    /\ BeginShutdown(Run("done"))
    /\ UNCHANGED <<sessions, registry, process, history>>

\* run() returns or throws and the script ends: PHP calls the shutdown hook.
RunEnds ==
    /\ stack # <<>> /\ Top = Run("done")
    /\ stack' = <<Hook>>
    /\ raised' = FALSE /\ process' = "hook"
    /\ UNCHANGED <<server, registry, history>>

\* exit() or a fatal error in user code unwinds the whole stack; no catch or
\* finally block runs.  Inside the hook it ends the process.
Exit ==
    /\ InUserCode /\ Top # Main
    /\ stack' = IF process = "script" THEN <<Hook>> ELSE <<>>
    /\ process' = IF process = "script" THEN "hook" ELSE "ended"
    /\ abandoned' = abandoned \cup ScopesOnStack
    /\ sessions' = (sessions /\ process = "script")
    /\ cutShort' = (cutShort \/ state = "Stopping")
    /\ UNCHANGED <<state, reason, registry, raised, phases>>

HookStops ==
    /\ Runs("hook")
    /\ state \notin {"Stopping", "Stopped"}
    /\ reason' = TRUE
    /\ BeginShutdown(Hook)
    /\ UNCHANGED <<sessions, registry, raised, process, history>>

\* The native module shutdown stops the sessions and flushes the worlds again.
HookEnds ==
    /\ stack # <<>> /\ Top = Hook
    /\ raised \/ state \in {"Stopping", "Stopped"}
    /\ stack' = <<>> /\ process' = "ended"
    /\ raised' = FALSE /\ sessions' = FALSE
    /\ UNCHANGED <<state, reason, registry, history>>

-----------------------------------------------------------------------------
Init ==
    /\ state = "Created" /\ reason = FALSE /\ sessions = FALSE
    /\ plugins = <<>> /\ scopes = <<>> /\ regs = <<>> /\ live = {}
    /\ resolved = <<>>
    /\ stack = <<Main>> /\ raised = FALSE /\ process = "script"
    /\ abandoned = {} /\ phases = <<>> /\ cutShort = FALSE

UserCode ==
    \/ \E what \in Whats, s \in 0 .. MaxScopes : Register(what, s)
    \/ \E id \in 1 .. MaxRegs : Cancel(id) \/ Execute(id)
    \/ \E class \in Classes : Load(class) \/ Unload(class)
    \/ StopRequest
    \/ EnableReturns \/ EnableThrows
    \/ \E throws \in BOOLEAN : DisableEnds(throws)
    \/ CallReturns \/ TaskEnds \/ CallThrows \/ UserCatches
    \/ Exit

Host ==
    \/ CloseStep \/ CloseCatches \/ CloseEnds
    \/ DispatchStep \/ Unwind
    \/ \E id \in 1 .. MaxRegs : TickTask(id)
    \/ TickEvents \/ TickEvent \/ TickEnds
    \/ PhaseStep \/ PhaseFails \/ ShutdownEnds
    \/ UnloadNext \/ UnloadFails \/ UnloadAllEnds
    \/ CallRun \/ Start \/ Started \/ AbortStart
    \/ NextTick \/ LeaveLoop \/ RunFails \/ RunEnds
    \/ HookStops \/ HookEnds

Next == UserCode \/ Host

Spec == Init /\ [][Next]_vars

-----------------------------------------------------------------------------
TypeOK ==
    /\ state \in {"Created", "Running", "Stopping", "Stopped"}
    /\ reason \in BOOLEAN /\ sessions \in BOOLEAN
    /\ \A i, j \in DOMAIN plugins : plugins[i].class = plugins[j].class => i = j
    /\ \A i \in DOMAIN plugins : plugins[i].scope \in DOMAIN scopes
    /\ live \subseteq DOMAIN regs
    /\ Len(regs) <= MaxRegs /\ Len(scopes) <= MaxScopes
    /\ process \in {"script", "hook", "ended"}
    /\ process = "ended" <=> stack = <<>>
    /\ abandoned \subseteq DOMAIN scopes

\* What a plugin registered through its scope does not outlive it: a listener,
\* task or command is held only while the scope is open, or while close() has
\* its cleanup still to call.  This is the rollback of a failed enable() and
\* the release at unload, whatever throws and whoever calls back into the
\* server in between.  And a scope that is open can be closed: its plugin is
\* listed, or its enable() or disable() is on the stack.  The exceptions are
\* the scopes abandoned by exit() and by a plugin loaded again from inside its
\* own enable().  (The state has its types throughout.)
NothingOutlivesItsScope ==
    /\ TypeOK
    /\ \A id \in live :
           LET s == regs[id].scope
           IN  \/ s \in {0} \cup abandoned
               \/ ~scopes[s].closed
               \/ \E i \in DOMAIN stack :
                      /\ stack[i].at = "close" /\ stack[i].scope = s
                      /\ id \in ToSet(stack[i].todo)
    /\ \A s \in DOMAIN scopes \ abandoned :
           \/ scopes[s].closed
           \/ \E i \in DOMAIN plugins : plugins[i].scope = s
           \/ s \in ScopesOnStack

\* When the process ends the server has gone through every shutdown phase it
\* owes, once and in order, whatever the phases, the ticks or start() threw and
\* whoever asked for the stop; only exit() inside shutdown() cuts this short.
\* The world is flushed last: once the flush has begun no user code runs again,
\* and no task is left that could.
ShutdownComplete ==
    /\ process = "ended" /\ ~cutShort =>
           /\ state = "Stopped"
           /\ phases \in {AllPhases, SubSeq(AllPhases, 3, 5)}
    /\ "world-storage" \in ToSet(phases) =>
           /\ \A i \in DOMAIN stack : ~IsUserCode(stack[i])
           /\ \A id \in live : ~IsTask(id)

\* A listener, task or command that a plugin registered through its scope is
\* not called once the scope has been closed.
ClosedIsNotCalled ==
    [][\A id \in DOMAIN regs :
           /\ Len(stack') = Len(stack) + 1 /\ Last(stack') = Call(id)
           /\ regs[id].what # "cleanup" /\ regs[id].scope # 0
           => ~scopes[regs[id].scope].closed]_vars
=============================================================================
