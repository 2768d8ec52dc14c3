------------------------------ MODULE DueOrder ------------------------------
(* What the scheduler expects of its due queues: a set of entries that gives *)
(* back the one that is due first, the lower identity first among equals.    *)
EXTENDS Integers, FiniteSets

CONSTANTS Dues,     \* the ticks an entry may be due at
          Ids,      \* task or fiber identities
          None      \* the null that pop() returns on an empty queue

VARIABLES entries,  \* what the queue holds
          popped    \* what the last pop() returned

vars == <<entries, popped>>

Entry == [due: Dues, id: Ids]

\* DueQueue::before: the order of the entries, total on distinct ones.
Before(left, right) ==
    \/ left.due < right.due
    \/ left.due = right.due /\ left.id < right.id

First(queue) == CHOOSE e \in queue : \A f \in queue \ {e} : Before(e, f)

Init == entries = {} /\ popped = None

\* The scheduler never pushes an entry the queue still holds.
Push(e) ==
    /\ e \notin entries
    /\ entries' = entries \cup {e}
    /\ UNCHANGED popped

Pop ==
    IF entries = {}
    THEN popped' = None /\ UNCHANGED entries
    ELSE /\ popped' = First(entries)
         /\ entries' = entries \ {First(entries)}

Clear == entries' = {} /\ UNCHANGED popped

Next == Pop \/ Clear \/ \E e \in Entry : Push(e)

Spec == Init /\ [][Next]_vars
=============================================================================
