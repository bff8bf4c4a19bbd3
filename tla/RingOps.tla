------------------------------- MODULE RingOps -------------------------------
(***************************************************************************)
(* The ring buffer that lib/kernel/queue.c and filesys/pipe.c both use, as *)
(* pure operators.  One slot is always empty and head points at it: the    *)
(* ring is empty when head = tail and full when the slot after tail is     *)
(* head, so a ring of N slots holds N - 1 elements.  Both files wait for   *)
(* elements and for slots in the lists of two condition variables.         *)
(***************************************************************************)
EXTENDS Integers, Sequences

CONSTANT Capacity  \* how many elements the ring is asked to hold

\* "Since one spot in the queue must be empty, add one more spot."
NumSlots == Capacity + 1
Slots == 0 .. Capacity

RingState(T) == [head : Slots, tail : Slots, buffer : [Slots -> T]]

\* A fresh ring; malloc leaves junk in the buffer.
RingInit(junk) == [head |-> 0, tail |-> 0, buffer |-> [i \in Slots |-> junk]]

\* Definitions named Mutant... are faulty variants of the definition that
\* follows; no specification uses them.
Empty(r) == r.head = r.tail

Full(r) == r.head = (r.tail + 1) % NumSlots

\* The element at the front, just after head.
Oldest(r) == r.buffer[(r.head + 1) % NumSlots]

MutantTakesNothing(r) == IF r.head = Capacity THEN r ELSE [r EXCEPT !.head = @ + 1]

\* What a dequeue leaves.
Take(r) == [r EXCEPT !.head = (@ + 1) % NumSlots]

MutantPutsAtOldTail(r, x) ==
  [r EXCEPT !.buffer[r.tail] = x, !.tail = (@ + 1) % NumSlots]

\* What an enqueue leaves.
Put(r, x) ==
  [r EXCEPT !.tail = (@ + 1) % NumSlots, !.buffer[(r.tail + 1) % NumSlots] = x]

\* The elements in the ring, oldest first.
Count(r) == (NumSlots + r.tail - r.head) % NumSlots
Elements(r) == [i \in 1 .. Count(r) |-> r.buffer[(r.head + i) % NumSlots]]

\* The threads on a waiter list, and cond_signal: the first leaves it, if any.
Queued(w) == {w[i] : i \in DOMAIN w}
SignalFirst(w) == IF w = << >> THEN w ELSE Tail(w)
=============================================================================
