------------------------------ MODULE DueQueue ------------------------------
(* The binary heap behind the scheduler's due queues                         *)
(* (Cobblestone\Task\Internal\DueQueue).  The heap is a sequence, so the     *)
(* code's index i is i + 1 here and the parent of i is i \div 2.             *)
EXTENDS Integers, Sequences

CONSTANTS Dues, Ids, None, MaxLen

VARIABLES heap,     \* DueQueue::$heap
          popped    \* what the last pop() returned

vars == <<heap, popped>>

Promise == INSTANCE DueOrder
               WITH entries <- {heap[i] : i \in DOMAIN heap}

Entry == Promise!Entry

RECURSIVE SiftUp(_, _), SiftDown(_, _)

Before(left, right) ==
    \/ left.due < right.due
    \/ left.due = right.due /\ left.id < right.id

Swap(h, i, j) == [h EXCEPT ![i] = h[j], ![j] = h[i]]

\* The loop of push(): an entry rises while it is before its parent.
SiftUp(h, i) ==
    IF i > 1 /\ Before(h[i], h[i \div 2])
    THEN SiftUp(Swap(h, i, i \div 2), i \div 2)
    ELSE h

\* Mutant: the right child is never looked at.
LeftChild(h, i) == 2 * i

\* The child pop() compares with: the left one unless the right is before it.
Smallest(h, i) ==
    IF 2 * i + 1 <= Len(h) /\ Before(h[2 * i + 1], h[2 * i])
    THEN 2 * i + 1
    ELSE 2 * i

\* The loop of pop(): an entry sinks while a child is before it.
SiftDown(h, i) ==
    IF 2 * i <= Len(h) /\ Before(h[Smallest(h, i)], h[i])
    THEN SiftDown(Swap(h, i, Smallest(h, i)), Smallest(h, i))
    ELSE h

Init == heap = <<>> /\ popped = None

Push(e) ==
    /\ Len(heap) < MaxLen
    /\ \A i \in DOMAIN heap : heap[i] # e
    /\ heap' = SiftUp(Append(heap, e), Len(heap) + 1)
    /\ UNCHANGED popped

\* The last entry replaces the root and sinks; a heap of one is just emptied.
Pop ==
    IF heap = <<>>
    THEN popped' = None /\ UNCHANGED heap
    ELSE LET last == heap[Len(heap)]
             rest == SubSeq(heap, 1, Len(heap) - 1)
         IN  /\ popped' = heap[1]
             /\ heap' = IF rest = <<>> THEN <<>>
                        ELSE SiftDown([rest EXCEPT ![1] = last], 1)

Clear == heap' = <<>> /\ UNCHANGED popped

Next == Pop \/ Clear \/ \E e \in Entry : Push(e)

Spec == Init /\ [][Next]_vars

-----------------------------------------------------------------------------
\* The heap gives back what an ordered set of entries would: pop() removes the
\* entry with the least due tick, the lowest identity among equals, and
\* nothing is lost or duplicated by the swaps of push() and pop().
PopsInOrder == Promise!Spec
=============================================================================
