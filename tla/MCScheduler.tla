----------------------------- MODULE MCScheduler -----------------------------
(* Small instances of the owner thread's machinery: a behaviour is one of    *)
(* the scheduler, one of the heap behind its queues, or one of the server's  *)
(* life around them.                                                         *)
EXTENDS Scheduler, Sequences, TLC

CONSTANTS None, HeapDues, HeapIds, MaxLen,
          Classes, Whats, MaxScopes, MaxRegs, MaxDepth

VARIABLES machine,
          heap, popped,
          state, reason, sessions, plugins, scopes, regs, live, resolved,
          stack, raised, process, abandoned, phases, cutShort

Heap   == INSTANCE DueQueue WITH Dues <- HeapDues, Ids <- HeapIds
Server == INSTANCE ServerLifecycle

serverVars == <<state, reason, sessions, plugins, scopes, regs, live, resolved,
                stack, raised, process, abandoned, phases, cutShort>>

MCInit == machine \in {"scheduler", "heap", "server"} /\ Init /\ Heap!Init /\ Server!Init

SchedulerStep == machine = "scheduler" /\ Next /\ UNCHANGED <<machine, heap, popped, serverVars>>
HeapStep      == machine = "heap" /\ Heap!Next /\ UNCHANGED <<machine, vars, serverVars>>
ServerStep    == machine = "server" /\ Server!Next /\ UNCHANGED <<machine, vars, heap, popped>>

MCNext == SchedulerStep \/ HeapStep \/ ServerStep

MCSpec == MCInit /\ [][MCNext]_<<machine, vars, heap, popped, serverVars>>

(* Bound: four tasks and no fiber, or one task and three fibers; three of      *)
(* registrations and plugin loads together, no more than two of each.          *)
Explored ==
    /\ nextFiberId = 1 \/ nextTaskId <= 2
    /\ Len(regs) + Len(scopes) <= 3

ClassSymmetry == Permutations(Classes)

\* The binary heap of DueQueue gives back what an ordered set of entries would:
\* pop() removes the entry with the least due tick, the lowest identity among
\* equals, and the swaps of push() and pop() lose and duplicate nothing.
PopsInOrder == Heap!PopsInOrder

\* What a plugin registered through its scope does not outlive the scope, and a
\* scope that is open can be closed.
NothingOutlivesItsScope == Server!NothingOutlivesItsScope

\* A process that ends has shut the server down, every phase once and in order,
\* and no user code runs once the world is being flushed.
ShutdownComplete == Server!ShutdownComplete
=============================================================================
