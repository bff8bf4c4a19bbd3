----------------------------- MODULE RingProofs -----------------------------
(***************************************************************************)
(* Proofs about the ring buffer (module RingOps) and its two users, the    *)
(* array queue (module ArrayQueue) and the pipe (module Pipe), for every   *)
(* capacity and any numbers of threads.                                    *)
(*                                                                         *)
(* The ring: putting appends to what it holds and taking removes the       *)
(* oldest, at every position where it wraps around.  From this both users  *)
(* are bounded FIFO queues.                                                *)
(*                                                                         *)
(* The queue: a sleeper is not overlooked, because the threads signalled   *)
(* and not yet run are at least as many as the elements, or slots, that    *)
(* were made available while others slept (WakeInv).                       *)
(*                                                                         *)
(* The pipe: writers have bytes left whenever they are at the ring         *)
(* (Transfers); each reference count is the number of processes that still *)
(* have that end open, an end is cleared only by a process that saw its    *)
(* count reach 0, and somebody is on the way to clear an end that no       *)
(* process has open (Ends).                                                *)
(***************************************************************************)
EXTENDS Pipe, ArrayQueue, FiniteSetTheorems, TLAPS

(* The ring. *)
\* The remainder that the code takes of positions.
Wrap(a) == a % NumSlots

\* A sum of two positions wraps around at most once.
LEMMA WrapOnce ==
  ASSUME NEW n \in Nat \ {0}, NEW a \in 0 .. 2 * n - 1
  PROVE  a % n = IF a < n THEN a ELSE a - n
<1>1. CASE a < n
  BY <1>1
<1>2. CASE a >= n
  BY <1>2
<1>3. QED  BY <1>1, <1>2

LEMMA WrapValue ==
  ASSUME Capacity \in Nat, NEW a \in 0 .. 2 * Capacity + 1
  PROVE  Wrap(a) = IF a <= Capacity THEN a ELSE a - Capacity - 1
<1>1. NumSlots = Capacity + 1 /\ NumSlots \in Nat \ {0} /\ a \in 0 .. 2 * NumSlots - 1
  BY DEF NumSlots
<1>2. Wrap(a) = IF a < NumSlots THEN a ELSE a - NumSlots
  BY <1>1, WrapOnce, Zenon DEF Wrap
<1>3. QED  BY <1>1, <1>2

\* The place i steps after h, without the remainder.
Place(h, i) == IF h + i <= Capacity THEN h + i ELSE h + i - Capacity - 1

LEMMA WrapPlace ==
  ASSUME Capacity \in Nat, NEW h \in 0 .. Capacity, NEW i \in 0 .. Capacity + 1
  PROVE  Wrap(h + i) = Place(h, i) /\ Place(h, i) \in 0 .. Capacity
<1>1. h + i \in 0 .. 2 * Capacity + 1
  OBVIOUS
<1>2. QED  BY <1>1, WrapValue DEF Place

\* How many places from after h up to t.
Between(h, t) == IF t >= h THEN t - h ELSE Capacity + 1 + t - h

\* The arithmetic of moving tail, and of moving head, by one.
LEMMA MoveTail ==
  ASSUME Capacity \in Nat, NEW h \in 0 .. Capacity, NEW t \in 0 .. Capacity
  PROVE  /\ Between(h, t) \in 0 .. Capacity
         /\ h = t <=> Between(h, t) = 0
         /\ h = Place(t, 1) <=> Between(h, t) = Capacity
         /\ h # Place(t, 1) =>
              /\ Between(h, Place(t, 1)) = Between(h, t) + 1
              /\ Place(h, Between(h, t) + 1) = Place(t, 1)
              /\ \A i \in 1 .. Between(h, t) : Place(h, i) # Place(t, 1)
BY DEF Place, Between

LEMMA MoveHead ==
  ASSUME Capacity \in Nat, NEW h \in 0 .. Capacity, NEW t \in 0 .. Capacity, h # t
  PROVE  /\ Between(Place(h, 1), t) = Between(h, t) - 1
         /\ \A i \in 1 .. Between(h, t) - 1 : Place(Place(h, 1), i) = Place(h, i + 1)
BY DEF Place, Between

\* The operators of the ring, without the remainder.
LEMMA RingValues ==
  ASSUME Capacity \in Nat, NEW T, NEW r \in RingState(T)
  PROVE  /\ r.head \in 0 .. Capacity /\ r.tail \in 0 .. Capacity
         /\ r.buffer \in [0 .. Capacity -> T]
         /\ Count(r) = Between(r.head, r.tail)
         /\ Elements(r) \in [1 .. Between(r.head, r.tail) -> T]
         /\ \A i \in 1 .. Between(r.head, r.tail) : Elements(r)[i] = r.buffer[Place(r.head, i)]
         /\ Full(r) <=> r.head = Place(r.tail, 1)
         /\ Oldest(r) = r.buffer[Place(r.head, 1)]
         /\ Take(r) = [r EXCEPT !.head = Place(r.head, 1)]
         /\ \A x : Put(r, x) = [r EXCEPT !.tail = Place(r.tail, 1), !.buffer[Place(r.tail, 1)] = x]
<1> DEFINE h == r.head
           t == r.tail
<1>1. h \in 0 .. Capacity /\ t \in 0 .. Capacity /\ r.buffer \in [0 .. Capacity -> T]
  BY DEF RingState, Slots
<1>2. /\ Full(r) <=> h = Wrap(t + 1)
      /\ Oldest(r) = r.buffer[Wrap(h + 1)]
      /\ Count(r) = Wrap(NumSlots + t - h)
      /\ Elements(r) = [i \in 1 .. Count(r) |-> r.buffer[Wrap(h + i)]]
      /\ Take(r) = [r EXCEPT !.head = Wrap(h + 1)]
      /\ \A x : Put(r, x) = [r EXCEPT !.tail = Wrap(t + 1), !.buffer[Wrap(t + 1)] = x]
  BY Zenon DEF Full, Oldest, Count, Elements, Take, Put, Wrap
<1> HIDE DEF h, t
<1>3. Wrap(h + 1) = Place(h, 1) /\ Wrap(t + 1) = Place(t, 1)
  <2>1. 1 \in 0 .. Capacity + 1
    OBVIOUS
  <2>2. QED  BY <1>1, <2>1, WrapPlace, Zenon
<1>4. Count(r) = Between(h, t)
  <2> DEFINE a == NumSlots + t - h
  <2>1. a \in 0 .. 2 * Capacity + 1 /\ a = Capacity + 1 + t - h
    BY <1>1 DEF NumSlots
  <2>2. Count(r) = Wrap(a)
    BY <1>2, Zenon
  <2> HIDE DEF a
  <2>3. Wrap(a) = IF a <= Capacity THEN a ELSE a - Capacity - 1
    BY <2>1, WrapValue
  <2>4. QED  BY <1>1, <2>1, <2>2, <2>3 DEF Between
<1>5. \A i \in 1 .. Between(h, t) : Wrap(h + i) = Place(h, i) /\ Place(h, i) \in 0 .. Capacity
  <2>1. Between(h, t) \in 0 .. Capacity
    BY <1>1, MoveTail, Zenon
  <2>2. \A i \in 1 .. Between(h, t) : i \in 0 .. Capacity + 1
    BY <2>1
  <2>3. QED  BY <1>1, <2>2, WrapPlace
<1>6. /\ Elements(r) \in [1 .. Between(h, t) -> T]
      /\ \A i \in 1 .. Between(h, t) : Elements(r)[i] = r.buffer[Place(h, i)]
  <2>1. Elements(r) = [i \in 1 .. Between(h, t) |-> r.buffer[Place(h, i)]]
    BY <1>2, <1>4, <1>5, Zenon
  <2>2. QED  BY <1>1, <1>5, <2>1
<1>7. /\ Oldest(r) = r.buffer[Place(h, 1)]
      /\ Full(r) <=> h = Place(t, 1)
      /\ Take(r) = [r EXCEPT !.head = Place(h, 1)]
      /\ \A x : Put(r, x) = [r EXCEPT !.tail = Place(t, 1), !.buffer[Place(t, 1)] = x]
  BY <1>2, <1>3, Zenon
<1>8. QED  BY <1>1, <1>4, <1>6, <1>7, Zenon DEF h, t

\* "empty" and "full" as the code tests them are what they mean.
LEMMA RingCount ==
  ASSUME Capacity \in Nat, NEW T, NEW r \in RingState(T)
  PROVE  /\ Elements(r) \in Seq(T) /\ Len(Elements(r)) \in 0 .. Capacity
         /\ Len(Elements(r)) = Between(r.head, r.tail)
         /\ \A i \in 1 .. Between(r.head, r.tail) : Elements(r)[i] = r.buffer[Place(r.head, i)]
         /\ Empty(r) <=> Len(Elements(r)) = 0
         /\ Full(r) <=> Len(Elements(r)) = Capacity
<1> DEFINE h == r.head
           t == r.tail
           n == Between(h, t)
<1>1. /\ h \in 0 .. Capacity /\ t \in 0 .. Capacity /\ r.buffer \in [0 .. Capacity -> T]
      /\ Elements(r) \in [1 .. n -> T]
      /\ \A i \in 1 .. n : Elements(r)[i] = r.buffer[Place(h, i)]
      /\ Full(r) <=> h = Place(t, 1)
  BY RingValues, Zenon
<1>2. Empty(r) <=> h = t
  BY DEF Empty
<1> HIDE DEF h, t
<1>3. n \in 0 .. Capacity /\ (h = t <=> n = 0) /\ (h = Place(t, 1) <=> n = Capacity)
  BY <1>1, MoveTail, Zenon
<1> HIDE DEF n
<1>4. Elements(r) \in Seq(T) /\ Len(Elements(r)) = n
  BY <1>1, <1>3
<1>5. QED  BY <1>1, <1>2, <1>3, <1>4 DEF h, t, n

\* What is put into a ring that is not full comes after all that it holds.
LEMMA PutAppends ==
  ASSUME Capacity \in Nat, NEW T, NEW r \in RingState(T), NEW x \in T, ~Full(r)
  PROVE  /\ Put(r, x) \in RingState(T)
         /\ Len(Elements(r)) < Capacity
         /\ Elements(Put(r, x)) = Append(Elements(r), x)
<1> DEFINE s == Put(r, x)
           h == r.head
           t == r.tail
           at == Place(t, 1)
           n == Between(h, t)
<1>1. /\ h \in 0 .. Capacity /\ t \in 0 .. Capacity /\ r.buffer \in [0 .. Capacity -> T]
      /\ s = [r EXCEPT !.tail = at, !.buffer[at] = x]
      /\ h # at
  BY RingValues, Zenon
<1>2. /\ Elements(r) \in Seq(T) /\ Len(Elements(r)) = n
      /\ \A i \in 1 .. n : Elements(r)[i] = r.buffer[Place(h, i)]
  BY RingCount
<1> HIDE DEF h, t
<1>3. at \in 0 .. Capacity
  BY <1>1, 1 \in 0 .. Capacity + 1, WrapPlace
<1>4. /\ n \in 0 .. Capacity - 1
      /\ Between(h, at) = n + 1
      /\ Place(h, n + 1) = at
      /\ \A i \in 1 .. n : Place(h, i) # at
  BY <1>1, MoveTail
<1>5. \A i \in 1 .. n : Place(h, i) \in 0 .. Capacity
  <2>1. \A i \in 1 .. n : i \in 0 .. Capacity + 1
    BY <1>4
  <2>2. QED  BY <1>1, <2>1, WrapPlace
<1> HIDE DEF s, at, n
<1>6. /\ s \in RingState(T)
      /\ s.head = h /\ s.tail = at /\ s.buffer = [r.buffer EXCEPT ![at] = x]
  BY <1>1, <1>3, Zenon DEF RingState, Slots, h
<1>7. s.buffer[at] = x /\ \A j \in 0 .. Capacity : j # at => s.buffer[j] = r.buffer[j]
  BY <1>1, <1>3, <1>6
<1>8. /\ Elements(s) \in Seq(T) /\ Len(Elements(s)) = Between(s.head, s.tail)
      /\ \A i \in 1 .. Between(s.head, s.tail) : Elements(s)[i] = s.buffer[Place(s.head, i)]
  BY <1>6, RingCount, Zenon
<1>9. /\ Len(Elements(s)) = n + 1
      /\ \A i \in 1 .. n + 1 : Elements(s)[i] = s.buffer[Place(h, i)]
  BY <1>4, <1>6, <1>8
<1>10. Elements(s)[n + 1] = x
  <2>1. n + 1 \in 1 .. n + 1
    BY <1>4
  <2>2. QED  BY <1>4, <1>7, <1>9, <2>1
<1>11. ASSUME NEW i \in 1 .. n  PROVE Elements(s)[i] = Elements(r)[i]
  <2>1. i \in 1 .. n + 1
    BY <1>4
  <2>2. QED  BY <1>2, <1>4, <1>5, <1>7, <1>9, <2>1
<1>12. Elements(s) = Append(Elements(r), x)
  BY <1>2, <1>4, <1>8, <1>9, <1>10, <1>11
<1>13. Len(Elements(r)) < Capacity
  BY <1>2, <1>4
<1>14. QED  BY <1>6, <1>12, <1>13 DEF s

\* What is taken from a ring that is not empty is the oldest it holds.
LEMMA TakeRemoves ==
  ASSUME Capacity \in Nat, NEW T, NEW r \in RingState(T), ~Empty(r)
  PROVE  /\ Take(r) \in RingState(T)
         /\ Elements(r) # << >>
         /\ Oldest(r) = Head(Elements(r)) /\ Oldest(r) \in T
         /\ Elements(Take(r)) = Tail(Elements(r))
<1> DEFINE s == Take(r)
           h == r.head
           t == r.tail
           at == Place(h, 1)
           n == Between(h, t)
<1>1. /\ h \in 0 .. Capacity /\ t \in 0 .. Capacity /\ r.buffer \in [0 .. Capacity -> T]
      /\ s = [r EXCEPT !.head = at]
      /\ Oldest(r) = r.buffer[at]
      /\ h # t
  BY RingValues, Zenon DEF Empty
<1>2. /\ Elements(r) \in Seq(T) /\ Len(Elements(r)) = n
      /\ \A i \in 1 .. n : Elements(r)[i] = r.buffer[Place(h, i)]
  BY RingCount
<1> HIDE DEF h, t
<1>3. at \in 0 .. Capacity
  BY <1>1, 1 \in 0 .. Capacity + 1, WrapPlace
<1>4. /\ n \in 1 .. Capacity
      /\ Between(at, t) = n - 1
      /\ \A i \in 1 .. n - 1 : Place(at, i) = Place(h, i + 1)
  <2>1. n \in 0 .. Capacity /\ n # 0
    BY <1>1, MoveTail
  <2>2. /\ Between(at, t) = n - 1
        /\ \A i \in 1 .. n - 1 : Place(at, i) = Place(h, i + 1)
    BY <1>1, MoveHead
  <2>3. QED  BY <2>1, <2>2
<1> HIDE DEF s, n
<1>5. s \in RingState(T) /\ s.head = at /\ s.tail = t /\ s.buffer = r.buffer
  BY <1>1, <1>3 DEF RingState, Slots, t
<1>6. Oldest(r) \in T
  BY <1>1, <1>3
<1>7. Elements(r) # << >> /\ Head(Elements(r)) = Oldest(r)
  <2>1. Elements(r)[1] = Oldest(r)
    BY <1>1, <1>2, <1>4
  <2>2. QED  BY <1>2, <1>4, <2>1
<1> HIDE DEF at
<1>8. /\ Elements(s) \in Seq(T) /\ Len(Elements(s)) = Between(s.head, s.tail)
      /\ \A i \in 1 .. Between(s.head, s.tail) : Elements(s)[i] = s.buffer[Place(s.head, i)]
  BY <1>5, RingCount
<1>9. /\ Len(Elements(s)) = n - 1
      /\ \A i \in 1 .. n - 1 : Elements(s)[i] = r.buffer[Place(at, i)]
  BY <1>4, <1>5, <1>8
<1>10. ASSUME NEW i \in 1 .. n - 1  PROVE Elements(s)[i] = Elements(r)[i + 1]
  <2>1. i + 1 \in 1 .. n
    BY <1>4
  <2>2. QED  BY <1>2, <1>4, <1>9, <2>1
<1>11. /\ Tail(Elements(r)) \in Seq(T) /\ Len(Tail(Elements(r))) = n - 1
       /\ \A i \in 1 .. n - 1 : Tail(Elements(r))[i] = Elements(r)[i + 1]
  BY <1>2, <1>4, <1>7
<1>12. Elements(s) = Tail(Elements(r))
  BY <1>8, <1>9, <1>10, <1>11
<1>13. QED  BY <1>5, <1>6, <1>7, <1>12 DEF s
-----------------------------------------------------------------------------
(* The array queue. *)

\* A producer that waits for a slot keeps the element it came with.
WaitersHaveItems == \A p \in Producers : q_pc[p] = "wait" => q_item[p] \in Items

QueueInv == QueueTypeOK /\ WaitersHaveItems

LEMMA SignalTyped ==
  ASSUME NEW S, NEW w \in Seq(S)
  PROVE  SignalFirst(w) \in Seq(S)
BY DEF SignalFirst

\* The two ways a call of a producer p with the element x goes on.
LEMMA InsertStep ==
  ASSUME Capacity \in Nat, QueueInv, NEW p \in Producers, NEW x \in Items,
         Producers \cap Consumers = {}, ~Full(q_ring), Insert(p, x)
  PROVE  QueueInv' /\ Queue!Insert(x)
<1>1. q_ring \in RingState(Items \cup {NoItem})
  BY DEF QueueInv, QueueTypeOK
<1>2. /\ Put(q_ring, x) \in RingState(Items \cup {NoItem})
      /\ Len(Elements(q_ring)) < Capacity
      /\ Elements(Put(q_ring, x)) = Append(Elements(q_ring), x)
  BY <1>1, PutAppends
<1>3. /\ q_ring' = Put(q_ring, x) /\ q_items_avail' = SignalFirst(q_items_avail)
      /\ q_pc' = [q_pc EXCEPT ![p] = "out"] /\ q_item' = [q_item EXCEPT ![p] = NoItem]
      /\ UNCHANGED <<discard_mode, q_slots_avail, q_got>>
  BY DEF Insert
<1>4. QueueTypeOK'
  BY <1>2, <1>3, SignalTyped DEF QueueInv, QueueTypeOK, Callers
<1>5. WaitersHaveItems'
  BY <1>3 DEF QueueInv, WaitersHaveItems, QueueTypeOK, Callers
<1>6. Queue!Insert(x)
  BY <1>2, <1>3 DEF Queue!Insert
<1>7. QED  BY <1>4, <1>5, <1>6 DEF QueueInv

LEMMA WaitForSlotStep ==
  ASSUME QueueInv, NEW p \in Producers, NEW x \in Items, WaitForSlot(p, x)
  PROVE  QueueInv' /\ UNCHANGED <<q_ring, q_got>>
BY DEF WaitForSlot, QueueInv, QueueTypeOK, WaitersHaveItems, Callers

\* The two ways a call of a consumer c goes on.
LEMMA RemoveStep ==
  ASSUME Capacity \in Nat, QueueInv, NEW c \in Consumers, Producers \cap Consumers = {},
         ~Empty(q_ring), Extract(c)
  PROVE  QueueInv' /\ Queue!Remove(c)
<1>1. q_ring \in RingState(Items \cup {NoItem})
  BY DEF QueueInv, QueueTypeOK
<1>2. /\ Take(q_ring) \in RingState(Items \cup {NoItem})
      /\ Elements(q_ring) # << >>
      /\ Oldest(q_ring) = Head(Elements(q_ring)) /\ Oldest(q_ring) \in Items \cup {NoItem}
      /\ Elements(Take(q_ring)) = Tail(Elements(q_ring))
  BY <1>1, TakeRemoves
<1>3. /\ q_ring' = Take(q_ring) /\ q_got' = [q_got EXCEPT ![c] = Oldest(q_ring)]
      /\ q_slots_avail' = SignalFirst(q_slots_avail) /\ q_pc' = [q_pc EXCEPT ![c] = "out"]
      /\ UNCHANGED <<discard_mode, q_items_avail, q_item>>
  BY DEF Extract
<1>4. QueueTypeOK'
  BY <1>2, <1>3, SignalTyped DEF QueueInv, QueueTypeOK, Callers
<1>5. WaitersHaveItems'
  BY <1>3 DEF QueueInv, WaitersHaveItems, QueueTypeOK, Callers
<1>6. Queue!Remove(c)
  BY <1>2, <1>3 DEF Queue!Remove
<1>7. QED  BY <1>4, <1>5, <1>6 DEF QueueInv

LEMMA WaitForItemStep ==
  ASSUME QueueInv, NEW c \in Consumers, Producers \cap Consumers = {}, WaitForItem(c)
  PROVE  QueueInv' /\ UNCHANGED <<q_ring, q_got>>
BY DEF WaitForItem, QueueInv, QueueTypeOK, WaitersHaveItems, Callers

\* An empty ring stands for the empty queue.
LEMMA InitQueue ==
  ASSUME Capacity \in Nat, QueueInit
  PROVE  QueueInv /\ Queue!Init
<1>1. q_ring \in RingState(Items \cup {NoItem}) /\ Empty(q_ring)
  BY DEF QueueInit, RingInit, RingState, Slots, Empty
<1>2. Elements(q_ring) \in Seq(Items \cup {NoItem}) /\ Len(Elements(q_ring)) = 0
  BY <1>1, RingCount
<1>3. Elements(q_ring) = << >>
  BY <1>2
<1>4. QueueInv
  BY <1>1 DEF QueueInit, QueueInv, QueueTypeOK, WaitersHaveItems, Callers
<1>5. QED  BY <1>3, <1>4 DEF QueueInit, Queue!Init

\* A step of the array queue is one of the FIFO queue, or none.
LEMMA NextQueue ==
  ASSUME Capacity \in Nat, Producers \cap Consumers = {}, QueueInv, [QueueNext]_q_vars
  PROVE  QueueInv' /\ [Queue!Next]_<<Elements(q_ring), q_got>>
<1>1. CASE UNCHANGED q_vars
  BY <1>1 DEF q_vars, QueueInv, QueueTypeOK, WaitersHaveItems
<1>2. ASSUME NEW p \in Producers, NEW x \in Items, Enqueue(p, x)
      PROVE  QueueInv' /\ [Queue!Next]_<<Elements(q_ring), q_got>>
  <2>1. CASE ~Full(q_ring) /\ Insert(p, x)
    BY <2>1, InsertStep DEF Queue!Next
  <2>2. CASE WaitForSlot(p, x)
    BY <2>2, WaitForSlotStep
  <2>3. QED  BY <1>2, <2>1, <2>2 DEF Enqueue
<1>3. ASSUME NEW p \in Producers, Discard(p)
      PROVE  QueueInv' /\ [Queue!Next]_<<Elements(q_ring), q_got>>
  BY <1>1, <1>3 DEF Discard
<1>4. ASSUME NEW p \in Producers, EnqueueWake(p)
      PROVE  QueueInv' /\ [Queue!Next]_<<Elements(q_ring), q_got>>
  <2>1. q_item[p] \in Items
    BY <1>4 DEF EnqueueWake, QueueInv, WaitersHaveItems
  <2>2. CASE ~Full(q_ring) /\ Insert(p, q_item[p])
    BY <2>1, <2>2, InsertStep DEF Queue!Next
  <2>3. CASE WaitForSlot(p, q_item[p])
    BY <2>1, <2>3, WaitForSlotStep
  <2>4. QED  BY <1>4, <2>2, <2>3 DEF EnqueueWake
<1>5. ASSUME NEW c \in Consumers, Dequeue(c) \/ DequeueWake(c)
      PROVE  QueueInv' /\ [Queue!Next]_<<Elements(q_ring), q_got>>
  <2>1. CASE ~Empty(q_ring) /\ Extract(c)
    BY <2>1, RemoveStep DEF Queue!Next
  <2>2. CASE WaitForItem(c)
    BY <2>2, WaitForItemStep
  <2>3. QED  BY <1>5, <2>1, <2>2 DEF Dequeue, DequeueWake
<1>6. QED  BY <1>1, <1>2, <1>3, <1>4, <1>5 DEF QueueNext

\* The array queue implements the FIFO queue: nothing is lost, doubled or
\* reordered, through every wrap-around, for every capacity.
THEOREM QueueRefinesFifo ==
  ASSUME Capacity \in Nat, Producers \cap Consumers = {}
  PROVE  QueueSpec => QueueIsFifo
<1>1. QueueInit => QueueInv /\ Queue!Init
  BY InitQueue
<1>2. QueueInv /\ [QueueNext]_q_vars => QueueInv' /\ [Queue!Next]_<<Elements(q_ring), q_got>>
  BY NextQueue
<1>3. QED  BY <1>1, <1>2, PTL DEF QueueSpec, QueueIsFifo, Queue!Spec
-----------------------------------------------------------------------------
(***************************************************************************)
(* Wake-ups.  Every element put in while consumers sleep wakes one of      *)
(* them, so as long as one sleeps there are as many woken consumers as     *)
(* elements, and likewise for producers and free slots.                    *)
(***************************************************************************)
Once(w) == \A i, j \in DOMAIN w : w[i] = w[j] => i = j

\* With the callers where f says: those on the list w sleep, and if there are
\* any, at least n others were woken and have not gone on yet.
Sleepers(S, w, f) ==
  /\ w \in Seq(S) /\ Once(w)
  /\ \A t \in Queued(w) : f[t] = "wait"

Others(S, w, f) == {t \in S : f[t] = "wait"} \ Queued(w)

Served(S, w, f, n) == w # << >> => Cardinality(Others(S, w, f)) >= n

WakeInv ==
  /\ Sleepers(Consumers, q_items_avail, q_pc) /\ Sleepers(Producers, q_slots_avail, q_pc)
  /\ Served(Consumers, q_items_avail, q_pc, Len(Elements(q_ring)))
  /\ Served(Producers, q_slots_avail, q_pc, Capacity - Len(Elements(q_ring)))

\* A waiter joins the list.
LEMMA ListAppend ==
  ASSUME NEW S, NEW w \in Seq(S), Once(w), NEW t \in S, t \notin Queued(w)
  PROVE  /\ Append(w, t) \in Seq(S) /\ Once(Append(w, t))
         /\ Queued(Append(w, t)) = Queued(w) \cup {t}
<1>1. /\ Append(w, t) \in Seq(S) /\ Len(Append(w, t)) = Len(w) + 1
      /\ \A i \in 1 .. Len(w) : Append(w, t)[i] = w[i]
      /\ Append(w, t)[Len(w) + 1] = t
      /\ DOMAIN w = 1 .. Len(w) /\ Len(w) \in Nat
  OBVIOUS
<1>2. DOMAIN Append(w, t) = 1 .. Len(w) + 1
  BY <1>1
<1>3. Once(Append(w, t))
  BY <1>1, <1>2 DEF Once, Queued
<1>4. Queued(Append(w, t)) \subseteq Queued(w) \cup {t}
  BY <1>1, <1>2 DEF Queued
<1>5. Queued(w) \subseteq Queued(Append(w, t))
  BY <1>1, <1>2 DEF Queued
<1>6. t \in Queued(Append(w, t))
  <2>1. Len(w) + 1 \in DOMAIN Append(w, t)
    BY <1>1, <1>2
  <2>2. QED  BY <1>1, <2>1 DEF Queued
<1>7. QED  BY <1>1, <1>3, <1>4, <1>5, <1>6

\* cond_signal takes the first waiter off the list.
LEMMA ListSignal ==
  ASSUME NEW S, NEW w \in Seq(S), Once(w), w # << >>
  PROVE  /\ SignalFirst(w) \in Seq(S) /\ Once(SignalFirst(w))
         /\ w[1] \in S /\ w[1] \in Queued(w)
         /\ Queued(SignalFirst(w)) = Queued(w) \ {w[1]}
<1>1. /\ SignalFirst(w) = Tail(w) /\ Tail(w) \in Seq(S) /\ Len(w) \in Nat /\ Len(w) >= 1
      /\ Len(Tail(w)) = Len(w) - 1 /\ DOMAIN w = 1 .. Len(w)
      /\ \A i \in 1 .. Len(w) - 1 : Tail(w)[i] = w[i + 1]
  BY DEF SignalFirst
<1>2. DOMAIN Tail(w) = 1 .. Len(w) - 1
  BY <1>1
<1>3. Once(Tail(w))
  BY <1>1, <1>2 DEF Once
<1>4. 1 \in DOMAIN w /\ w[1] \in S /\ w[1] \in Queued(w)
  BY <1>1 DEF Queued
<1>5. ASSUME NEW t \in Queued(Tail(w))  PROVE t \in Queued(w) \ {w[1]}
  <2>1. PICK i \in 1 .. Len(w) - 1 : t = Tail(w)[i]
    BY <1>2 DEF Queued
  <2>2. i + 1 \in DOMAIN w /\ w[i + 1] = t /\ i + 1 # 1
    BY <1>1, <2>1
  <2>3. QED  BY <1>4, <2>2 DEF Queued, Once
<1>6. ASSUME NEW t \in Queued(w) \ {w[1]}  PROVE t \in Queued(Tail(w))
  <2>1. PICK i \in 1 .. Len(w) : t = w[i]
    BY <1>1 DEF Queued
  <2>2. i # 1
    BY <2>1
  <2>3. i - 1 \in 1 .. Len(w) - 1 /\ Tail(w)[i - 1] = t
    <3>1. i - 1 \in 1 .. Len(w) - 1 /\ (i - 1) + 1 = i
      BY <1>1, <2>2
    <3>2. QED  BY <1>1, <2>1, <3>1
  <2>4. QED  BY <1>2, <2>3, Zenon DEF Queued
<1>7. QED  BY <1>1, <1>3, <1>4, <1>5, <1>6

\* The side that is signalled: one more was woken.
LEMMA Signalled ==
  ASSUME NEW S, IsFiniteSet(S), NEW w, NEW f, NEW g, NEW n \in Int,
         Sleepers(S, w, f), Served(S, w, f, n), \A t \in S : g[t] = f[t]
  PROVE  Sleepers(S, SignalFirst(w), g) /\ Served(S, SignalFirst(w), g, n + 1)
<1>1. CASE w = << >>
  BY <1>1 DEF SignalFirst, Sleepers, Served, Queued
<1>2. CASE w # << >>
  <2> DEFINE v == SignalFirst(w)
  <2>1. /\ v \in Seq(S) /\ Once(v) /\ w[1] \in S /\ w[1] \in Queued(w)
        /\ Queued(v) = Queued(w) \ {w[1]}
    BY <1>2, ListSignal DEF Sleepers
  <2> HIDE DEF v
  <2>2. \A t \in Queued(w) : t \in S /\ f[t] = "wait"
    BY DEF Sleepers, Queued
  <2>3. Sleepers(S, v, g)
    BY <2>1, <2>2 DEF Sleepers
  <2>4. Others(S, v, g) = Others(S, w, f) \cup {w[1]} /\ w[1] \notin Others(S, w, f)
    BY <2>1, <2>2 DEF Others
  <2>5. IsFiniteSet(Others(S, w, f))
    BY FS_Subset DEF Others
  <2>6. Cardinality(Others(S, v, g)) = Cardinality(Others(S, w, f)) + 1
    BY <2>4, <2>5, FS_AddElement, Zenon
  <2>7. Cardinality(Others(S, w, f)) \in Nat /\ Cardinality(Others(S, w, f)) >= n
    BY <1>2, <2>5, FS_CardinalityType DEF Served
  <2>8. Served(S, v, g, n + 1)
    BY <2>6, <2>7 DEF Served
  <2>9. QED  BY <2>3, <2>8 DEF v
<1>3. QED  BY <1>1, <1>2

\* The side of the caller that goes on: if it was woken, one fewer is.
LEMMA GoesOn ==
  ASSUME NEW S, IsFiniteSet(S), NEW w, NEW f, NEW g, NEW n \in Int, NEW u \in S,
         Sleepers(S, w, f), Served(S, w, f, n), u \notin Queued(w),
         g[u] = "out", \A t \in S \ {u} : g[t] = f[t]
  PROVE  Sleepers(S, w, g) /\ Served(S, w, g, n - 1)
<1>1. \A t \in Queued(w) : t \in S \ {u}
  BY DEF Sleepers, Queued
<1>2. Sleepers(S, w, g)
  BY <1>1 DEF Sleepers
<1>3. Others(S, w, g) = Others(S, w, f) \ {u}
  BY DEF Others
<1>4. IsFiniteSet(Others(S, w, f))
  BY FS_Subset DEF Others
<1>5. /\ Cardinality(Others(S, w, f)) \in Nat
      /\ Cardinality(Others(S, w, g)) = IF u \in Others(S, w, f)
                                         THEN Cardinality(Others(S, w, f)) - 1
                                         ELSE Cardinality(Others(S, w, f))
  BY <1>3, <1>4, FS_RemoveElement, FS_CardinalityType
<1>6. Served(S, w, g, n - 1)
  BY <1>5 DEF Served
<1>7. QED  BY <1>2, <1>6

\* The side of the caller that goes to sleep, which finds nothing to do.
LEMMA FallsAsleep ==
  ASSUME NEW S, IsFiniteSet(S), NEW w, NEW f, NEW g, NEW u \in S,
         Sleepers(S, w, f), u \notin Queued(w),
         g[u] = "wait", \A t \in S \ {u} : g[t] = f[t]
  PROVE  Sleepers(S, Append(w, u), g) /\ Served(S, Append(w, u), g, 0)
<1>1. /\ Append(w, u) \in Seq(S) /\ Once(Append(w, u))
      /\ Queued(Append(w, u)) = Queued(w) \cup {u}
  BY ListAppend DEF Sleepers
<1>2. \A t \in Queued(w) : t \in S /\ f[t] = "wait"
  BY DEF Sleepers, Queued
<1>3. Sleepers(S, Append(w, u), g)
  BY <1>1, <1>2 DEF Sleepers
<1>4. Cardinality(Others(S, Append(w, u), g)) \in Nat
  BY FS_Subset, FS_CardinalityType DEF Others
<1>5. QED  BY <1>3, <1>4 DEF Served

\* The side that a step leaves alone.
LEMMA StaysPut ==
  ASSUME NEW S, NEW w, NEW f, NEW g, NEW n,
         Sleepers(S, w, f), Served(S, w, f, n), \A t \in S : g[t] = f[t]
  PROVE  Sleepers(S, w, g) /\ Served(S, w, g, n)
<1>1. \A t \in Queued(w) : t \in S
  BY DEF Sleepers, Queued
<1>2. Others(S, w, g) = Others(S, w, f)
  BY DEF Others
<1>3. QED  BY <1>1, <1>2 DEF Sleepers, Served

\* What the lemmas on the single steps have in common.
QueueSetting ==
  /\ Capacity \in Nat /\ Producers \cap Consumers = {}
  /\ IsFiniteSet(Producers) /\ IsFiniteSet(Consumers)

LEMMA InsertWakes ==
  ASSUME QueueSetting, QueueInv, WakeInv, NEW p \in Producers, NEW x \in Items,
         p \notin Queued(q_slots_avail), ~Full(q_ring), Insert(p, x)
  PROVE  WakeInv'
<1> DEFINE n == Len(Elements(q_ring))
<1>1. /\ q_ring \in RingState(Items \cup {NoItem}) /\ q_pc \in [Callers -> {"out", "wait"}]
      /\ p \notin Consumers
  BY DEF QueueInv, QueueTypeOK, QueueSetting
<1>2. Elements(Put(q_ring, x)) = Append(Elements(q_ring), x) /\ Elements(q_ring) \in Seq(Items \cup {NoItem})
  BY <1>1, PutAppends, RingCount DEF QueueSetting
<1>3. n \in Nat /\ Len(Elements(q_ring')) = n + 1
  BY <1>2 DEF Insert
<1>4. /\ q_items_avail' = SignalFirst(q_items_avail) /\ q_slots_avail' = q_slots_avail
      /\ q_pc'[p] = "out" /\ \A t \in Callers \ {p} : q_pc'[t] = q_pc[t]
  BY <1>1 DEF Insert, Callers
<1> HIDE DEF n
<1>5. /\ Sleepers(Consumers, q_items_avail, q_pc) /\ Served(Consumers, q_items_avail, q_pc, n)
      /\ Sleepers(Producers, q_slots_avail, q_pc)
      /\ Served(Producers, q_slots_avail, q_pc, Capacity - n)
  BY DEF WakeInv, n
<1>6. Sleepers(Consumers, q_items_avail', q_pc') /\ Served(Consumers, q_items_avail', q_pc', n + 1)
  <2>1. \A t \in Consumers : q_pc'[t] = q_pc[t]
    BY <1>1, <1>4 DEF Callers
  <2>2. n \in Int /\ IsFiniteSet(Consumers)
    BY <1>3 DEF QueueSetting
  <2>3. QED  BY <1>4, <1>5, <2>1, <2>2, Signalled
<1>7. Sleepers(Producers, q_slots_avail', q_pc') /\ Served(Producers, q_slots_avail', q_pc', (Capacity - n) - 1)
  <2>1. \A t \in Producers \ {p} : q_pc'[t] = q_pc[t]
    BY <1>4 DEF Callers
  <2>2. Capacity - n \in Int
    BY <1>3 DEF QueueSetting
  <2>3. QED  BY <1>4, <1>5, <2>1, <2>2, GoesOn DEF QueueSetting
<1>8. Capacity - (n + 1) = (Capacity - n) - 1
  BY <1>3 DEF QueueSetting
<1>9. QED  BY <1>3, <1>6, <1>7, <1>8 DEF WakeInv

LEMMA RemoveWakes ==
  ASSUME QueueSetting, QueueInv, WakeInv, NEW c \in Consumers,
         c \notin Queued(q_items_avail), ~Empty(q_ring), Extract(c)
  PROVE  WakeInv'
<1> DEFINE n == Len(Elements(q_ring))
<1>1. /\ q_ring \in RingState(Items \cup {NoItem}) /\ q_pc \in [Callers -> {"out", "wait"}]
      /\ c \notin Producers
  BY DEF QueueInv, QueueTypeOK, QueueSetting
<1>2. /\ Elements(Take(q_ring)) = Tail(Elements(q_ring)) /\ Elements(q_ring) # << >>
      /\ Elements(q_ring) \in Seq(Items \cup {NoItem})
  BY <1>1, TakeRemoves, RingCount DEF QueueSetting
<1>3. n \in Nat /\ Len(Elements(q_ring')) = n - 1
  BY <1>2 DEF Extract
<1>4. /\ q_slots_avail' = SignalFirst(q_slots_avail) /\ q_items_avail' = q_items_avail
      /\ q_pc'[c] = "out" /\ \A t \in Callers \ {c} : q_pc'[t] = q_pc[t]
  BY <1>1 DEF Extract, Callers
<1> HIDE DEF n
<1>5. /\ Sleepers(Consumers, q_items_avail, q_pc) /\ Served(Consumers, q_items_avail, q_pc, n)
      /\ Sleepers(Producers, q_slots_avail, q_pc)
      /\ Served(Producers, q_slots_avail, q_pc, Capacity - n)
  BY DEF WakeInv, n
<1>6. Sleepers(Producers, q_slots_avail', q_pc') /\ Served(Producers, q_slots_avail', q_pc', (Capacity - n) + 1)
  <2>1. \A t \in Producers : q_pc'[t] = q_pc[t]
    BY <1>1, <1>4 DEF Callers
  <2>2. Capacity - n \in Int
    BY <1>3 DEF QueueSetting
  <2>3. QED  BY <1>4, <1>5, <2>1, <2>2, Signalled DEF QueueSetting
<1>7. Sleepers(Consumers, q_items_avail', q_pc') /\ Served(Consumers, q_items_avail', q_pc', n - 1)
  <2>1. \A t \in Consumers \ {c} : q_pc'[t] = q_pc[t]
    BY <1>4 DEF Callers
  <2>2. n \in Int /\ IsFiniteSet(Consumers)
    BY <1>3 DEF QueueSetting
  <2>3. QED  BY <1>4, <1>5, <2>1, <2>2, GoesOn
<1>8. Capacity - (n - 1) = (Capacity - n) + 1
  BY <1>3 DEF QueueSetting
<1>9. QED  BY <1>3, <1>6, <1>7, <1>8 DEF WakeInv

LEMMA WaitForSlotWakes ==
  ASSUME QueueSetting, QueueInv, WakeInv, NEW p \in Producers, NEW x,
         p \notin Queued(q_slots_avail), Full(q_ring), WaitForSlot(p, x)
  PROVE  WakeInv'
<1>1. /\ q_ring \in RingState(Items \cup {NoItem}) /\ q_pc \in [Callers -> {"out", "wait"}]
      /\ p \notin Consumers
  BY DEF QueueInv, QueueTypeOK, QueueSetting
<1>2. Capacity - Len(Elements(q_ring)) = 0
  BY <1>1, RingCount DEF QueueSetting
<1>3. /\ q_slots_avail' = Append(q_slots_avail, p) /\ q_items_avail' = q_items_avail /\ q_ring' = q_ring
      /\ q_pc'[p] = "wait" /\ \A t \in Callers \ {p} : q_pc'[t] = q_pc[t]
  BY <1>1 DEF WaitForSlot, Callers
<1>4. Sleepers(Producers, q_slots_avail', q_pc') /\ Served(Producers, q_slots_avail', q_pc', 0)
  <2>1. \A t \in Producers \ {p} : q_pc'[t] = q_pc[t]
    BY <1>3 DEF Callers
  <2>2. QED  BY <1>3, <2>1, FallsAsleep DEF QueueSetting, WakeInv
<1>5. /\ Sleepers(Consumers, q_items_avail', q_pc')
      /\ Served(Consumers, q_items_avail', q_pc', Len(Elements(q_ring)))
  <2>1. \A t \in Consumers : q_pc'[t] = q_pc[t]
    BY <1>1, <1>3 DEF Callers
  <2>2. QED  BY <1>3, <2>1, StaysPut DEF WakeInv
<1>6. QED  BY <1>2, <1>3, <1>4, <1>5 DEF WakeInv

LEMMA WaitForItemWakes ==
  ASSUME QueueSetting, QueueInv, WakeInv, NEW c \in Consumers,
         c \notin Queued(q_items_avail), Empty(q_ring), WaitForItem(c)
  PROVE  WakeInv'
<1>1. /\ q_ring \in RingState(Items \cup {NoItem}) /\ q_pc \in [Callers -> {"out", "wait"}]
      /\ c \notin Producers
  BY DEF QueueInv, QueueTypeOK, QueueSetting
<1>2. Len(Elements(q_ring)) = 0
  BY <1>1, RingCount DEF QueueSetting
<1>3. /\ q_items_avail' = Append(q_items_avail, c) /\ q_slots_avail' = q_slots_avail /\ q_ring' = q_ring
      /\ q_pc'[c] = "wait" /\ \A t \in Callers \ {c} : q_pc'[t] = q_pc[t]
  BY <1>1 DEF WaitForItem, Callers
<1>4. Sleepers(Consumers, q_items_avail', q_pc') /\ Served(Consumers, q_items_avail', q_pc', 0)
  <2>1. \A t \in Consumers \ {c} : q_pc'[t] = q_pc[t]
    BY <1>3 DEF Callers
  <2>2. QED  BY <1>3, <2>1, FallsAsleep DEF QueueSetting, WakeInv
<1>5. /\ Sleepers(Producers, q_slots_avail', q_pc')
      /\ Served(Producers, q_slots_avail', q_pc', Capacity - Len(Elements(q_ring)))
  <2>1. \A t \in Producers : q_pc'[t] = q_pc[t]
    BY <1>1, <1>3 DEF Callers
  <2>2. QED  BY <1>3, <2>1, StaysPut DEF WakeInv
<1>6. QED  BY <1>2, <1>3, <1>4, <1>5 DEF WakeInv

LEMMA StepWakes ==
  ASSUME QueueSetting, QueueInv, WakeInv, [QueueNext]_q_vars
  PROVE  WakeInv'
<1>1. /\ \A t \in Producers : q_pc[t] = "out" => t \notin Queued(q_slots_avail)
      /\ \A t \in Consumers : q_pc[t] = "out" => t \notin Queued(q_items_avail)
  BY DEF WakeInv, Sleepers
<1>2. CASE UNCHANGED q_vars
  BY <1>2 DEF q_vars, WakeInv
<1>3. ASSUME NEW p \in Producers, NEW x \in Items, Enqueue(p, x)  PROVE WakeInv'
  BY <1>1, <1>3, InsertWakes, WaitForSlotWakes DEF Enqueue
<1>4. ASSUME NEW p \in Producers, Discard(p)  PROVE WakeInv'
  BY <1>2, <1>4 DEF Discard
<1>5. ASSUME NEW p \in Producers, EnqueueWake(p)  PROVE WakeInv'
  <2>1. q_item[p] \in Items
    BY <1>5 DEF EnqueueWake, QueueInv, WaitersHaveItems
  <2>2. QED  BY <1>5, <2>1, InsertWakes, WaitForSlotWakes DEF EnqueueWake
<1>6. ASSUME NEW c \in Consumers, Dequeue(c) \/ DequeueWake(c)  PROVE WakeInv'
  BY <1>1, <1>6, RemoveWakes, WaitForItemWakes DEF Dequeue, DequeueWake
<1>7. QED  BY <1>2, <1>3, <1>4, <1>5, <1>6 DEF QueueNext

\* The queue is well typed and no wake-up is lost: a consumer does not sleep beside
\* elements, nor a producer beside free slots, unless another one of its kind was
\* signalled and is on its way, however many they are.
THEOREM QueueWakesSleepers ==
  ASSUME QueueSetting
  PROVE  QueueSpec => []QueueIsSafe
<1>1. QueueInit => QueueInv /\ WakeInv
  <2> SUFFICES ASSUME QueueInit PROVE QueueInv /\ WakeInv
    OBVIOUS
  <2>1. QueueInv
    BY InitQueue DEF QueueSetting
  <2>2. /\ Sleepers(Consumers, q_items_avail, q_pc) /\ Sleepers(Producers, q_slots_avail, q_pc)
        /\ q_items_avail = << >> /\ q_slots_avail = << >>
    BY DEF QueueInit, Sleepers, Once, Queued
  <2>3. QED  BY <2>1, <2>2 DEF WakeInv, Served
<1>2. QueueInv /\ WakeInv /\ [QueueNext]_q_vars => QueueInv' /\ WakeInv'
  BY NextQueue, StepWakes DEF QueueSetting
<1>3. QueueInv /\ WakeInv => QueueIsSafe
  <2> SUFFICES ASSUME QueueInv, WakeInv PROVE QueueNoLostWakeup
    BY DEF QueueIsSafe, QueueInv
  <2>1. /\ q_ring \in RingState(Items \cup {NoItem})
    BY DEF QueueInv, QueueTypeOK
  <2>2. /\ Len(Elements(q_ring)) \in 0 .. Capacity
        /\ ~Empty(q_ring) => Len(Elements(q_ring)) >= 1
        /\ ~Full(q_ring) => Capacity - Len(Elements(q_ring)) >= 1
    BY <2>1, RingCount DEF QueueSetting
  <2>3. /\ Woken(Consumers, q_items_avail) = Others(Consumers, q_items_avail, q_pc)
        /\ Woken(Producers, q_slots_avail) = Others(Producers, q_slots_avail, q_pc)
    BY DEF Woken, Others
  <2>4. ASSUME q_items_avail # << >>, ~Empty(q_ring)  PROVE Woken(Consumers, q_items_avail) # {}
    BY <2>2, <2>3, <2>4, FS_EmptySet DEF WakeInv, Served
  <2>5. ASSUME q_slots_avail # << >>, ~Full(q_ring)  PROVE Woken(Producers, q_slots_avail) # {}
    <3> DEFINE room == Capacity - Len(Elements(q_ring))
    <3>1. room \in Nat /\ room >= 1
      BY <2>2, <2>5 DEF QueueSetting
    <3> HIDE DEF room
    <3>2. Cardinality(Others(Producers, q_slots_avail, q_pc)) >= room
      BY <2>5 DEF WakeInv, Served, room
    <3>3. Others(Producers, q_slots_avail, q_pc) # {}
      BY <3>1, <3>2, FS_EmptySet
    <3>4. QED  BY <2>3, <3>3
  <2>6. QED  BY <2>4, <2>5 DEF QueueNoLostWakeup
<1>4. QED  BY <1>1, <1>2, <1>3, PTL DEF QueueSpec
-----------------------------------------------------------------------------
(* The pipe. *)

PipeSetting ==
  /\ Capacity \in Nat /\ MaxRead \in Nat
  /\ Messages \subseteq Seq(Nat) \ {<< >>}
  /\ Readers \cap Writers = {} /\ Readers # {} /\ Writers # {}
  /\ IsFiniteSet(Readers) /\ IsFiniteSet(Writers)

Transfers ==
  /\ ring \in RingState(Bytes)
  /\ pc \in [Procs -> Labels]
  /\ buf \in [Writers -> Seq(Bytes)]
  /\ \A w \in Writers : pc[w] \in {"put", "wait"} => buf[w] # << >>

LEMMA MessageBytes ==
  ASSUME PipeSetting, NEW m \in Messages
  PROVE  m \in Seq(Bytes) /\ m # << >>
<1>1. m \in Seq(Nat) /\ m # << >>
  BY DEF PipeSetting
<1>2. \A i \in 1 .. Len(m) : m[i] \in Bytes
  BY <1>1 DEF Bytes
<1>3. QED  BY <1>1, <1>2

LEMMA SeqParts ==
  ASSUME NEW S, NEW s \in Seq(S), s # << >>
  PROVE  /\ Head(s) \in S /\ Tail(s) \in Seq(S)
         /\ Len(s) # 1 => Tail(s) # << >>
<1>1. Len(s) \in Nat /\ Len(s) # 0 /\ Head(s) \in S /\ Tail(s) \in Seq(S)
  OBVIOUS
<1>2. Len(Tail(s)) = Len(s) - 1
  BY <1>1
<1>3. Len(s) # 1 => Len(Tail(s)) # 0
  BY <1>1, <1>2
<1>4. Len(<< >>) = 0
  OBVIOUS
<1>5. QED  BY <1>1, <1>3, <1>4, Zenon

LEMMA InitTransfers ==
  ASSUME PipeSetting, PipeInit
  PROVE  Transfers /\ Bytestream!Init
<1>1. ring \in RingState(Bytes) /\ ring.head = 0 /\ ring.tail = 0
  BY DEF PipeInit, RingInit, RingState, Slots, Bytes, PipeSetting
<1>2. Elements(ring) \in Seq(Bytes) /\ Len(Elements(ring)) = 0
  BY <1>1, RingCount DEF PipeSetting, Empty
<1>3. Elements(ring) = << >>
  BY <1>2
<1>4. /\ pc \in [Procs -> Labels] /\ buf \in [Writers -> Seq(Bytes)]
      /\ \A w \in Writers : pc[w] = "out"
  BY DEF PipeInit, Labels, Procs
<1>5. QED  BY <1>1, <1>3, <1>4 DEF PipeInit, Transfers, Bytestream!Init

\* The loop of pipe_write advances.
LEMMA NextByteStep ==
  ASSUME Transfers, NEW w \in Writers, buf[w] # << >>, NextByte(w),
         Readers \cap Writers = {}, ring' \in RingState(Bytes)
  PROVE  Transfers' /\ Head(buf[w]) \in Bytes
<1>1. buf \in [Writers -> Seq(Bytes)] /\ buf[w] \in Seq(Bytes) /\ w \in Procs
  BY DEF Transfers, Procs
<1>2. /\ Head(buf[w]) \in Bytes /\ Tail(buf[w]) \in Seq(Bytes)
      /\ Len(buf[w]) # 1 => Tail(buf[w]) # << >>
  BY <1>1, SeqParts
<1> DEFINE last == Head(buf[w]) = 0 \/ Len(buf[w]) = 1
           rest == IF last THEN << >> ELSE Tail(buf[w])
<1>3. /\ buf' = [buf EXCEPT ![w] = rest]
      /\ pc' = [pc EXCEPT ![w] = IF last THEN "out" ELSE "put"]
  BY DEF NextByte, Goto
<1>4. rest \in Seq(Bytes) /\ (~last => rest # << >>)
  <2>1. CASE last
    <3>1. << >> \in Seq(Bytes)
      OBVIOUS
    <3>2. QED  BY <2>1, <3>1, Zenon
  <2>2. CASE ~last
    BY <1>2, <2>2, Zenon
  <2>3. QED  BY <2>1, <2>2, Zenon
<1> HIDE DEF last, rest
<1>5. buf' \in [Writers -> Seq(Bytes)]
  BY <1>1, <1>3, <1>4
<1>6. pc' \in [Procs -> Labels]
  BY <1>3, Zenon DEF Transfers, Labels
<1>7. \A v \in Writers : pc'[v] \in {"put", "wait"} => buf'[v] # << >>
  <2> TAKE v \in Writers
  <2>1. CASE v = w
    BY <1>1, <1>3, <1>4, <2>1 DEF Transfers
  <2>2. CASE v # w
    BY <1>1, <1>3, <2>2 DEF Transfers, Procs
  <2>3. QED  BY <2>1, <2>2
<1>8. QED  BY <1>2, <1>5, <1>6, <1>7 DEF Transfers

LEMMA EnqueueStep ==
  ASSUME PipeSetting, Transfers, NEW w \in Writers, buf[w] # << >>, pipe_enqueue(w), UNCHANGED got
  PROVE  Transfers' /\ [Bytestream!Next]_<<Elements(ring), got>>
<1>1. ring \in RingState(Bytes) /\ buf[w] \in Seq(Bytes) /\ Head(buf[w]) \in Bytes
  BY SeqParts DEF Transfers
<1>2. CASE ~Full(ring) /\ ring' = Put(ring, Head(buf[w])) /\ NextByte(w)
  <2>1. /\ ring' \in RingState(Bytes) /\ Len(Elements(ring)) < Capacity
        /\ Elements(ring') = Append(Elements(ring), Head(buf[w]))
    BY <1>1, <1>2, PutAppends DEF PipeSetting
  <2>2. Transfers'
    BY <1>2, <2>1, NextByteStep DEF PipeSetting
  <2>3. Bytestream!Insert(Head(buf[w]))
    BY <2>1 DEF Bytestream!Insert
  <2>4. QED  BY <1>1, <2>2, <2>3 DEF Bytestream!Next
<1>3. CASE NextByte(w) /\ UNCHANGED ring
  BY <1>1, <1>3, NextByteStep DEF PipeSetting
<1>4. CASE Goto(w, "wait") /\ UNCHANGED <<ring, buf>>
  <2>1. Transfers'
    BY <1>4 DEF Transfers, Goto, Procs, Labels
  <2>2. QED  BY <1>4, <2>1
<1>5. QED  BY <1>2, <1>3, <1>4, Zenon DEF pipe_enqueue

\* A step that moves a process and leaves the bytes alone.
LEMMA MoveStep ==
  ASSUME Transfers, NEW p \in Procs, NEW l \in Labels, Goto(p, l), l \notin {"put", "wait"} \/ p \notin Writers,
         UNCHANGED <<ring, buf>>
  PROVE  Transfers'
BY DEF Transfers, Goto, Procs

LEMMA DequeueStep ==
  ASSUME PipeSetting, Transfers, NEW r \in Readers, pipe_dequeue(r), UNCHANGED buf
  PROVE  Transfers' /\ [Bytestream!Next]_<<Elements(ring), got>>
<1>1. ring \in RingState(Bytes) /\ r \in Procs /\ r \notin Writers
  BY DEF Transfers, Procs, PipeSetting
<1>2. ASSUME ring' \in RingState(Bytes), NEW l \in Labels, Goto(r, l)  PROVE Transfers'
  BY <1>1, <1>2 DEF Transfers, Goto, Procs
<1>3. ASSUME NEW b, StoreByte(r, b)  PROVE \E l \in Labels : Goto(r, l)
  BY <1>3 DEF StoreByte, Labels
<1>4. CASE /\ ~Empty(ring) /\ ring' = Take(ring) /\ got' = [got EXCEPT ![r] = Oldest(ring)]
           /\ StoreByte(r, Oldest(ring))
  <2>1. /\ ring' \in RingState(Bytes) /\ Elements(ring) # << >>
        /\ Oldest(ring) = Head(Elements(ring)) /\ Elements(ring') = Tail(Elements(ring))
    BY <1>1, <1>4, TakeRemoves DEF PipeSetting
  <2>2. Bytestream!Remove(r)
    BY <1>4, <2>1 DEF Bytestream!Remove
  <2>3. QED  BY <1>2, <1>3, <1>4, <2>1, <2>2 DEF Bytestream!Next
<1>5. CASE UNCHANGED <<ring, got>> /\ StoreByte(r, 0)
  BY <1>1, <1>2, <1>3, <1>5
<1>6. CASE UNCHANGED <<ring, got>> /\ Goto(r, "wait")
  BY <1>1, <1>2, <1>6 DEF Labels
<1>7. QED  BY <1>4, <1>5, <1>6, Zenon DEF pipe_dequeue

LEMMA CloseMoves ==
  ASSUME Transfers, NEW p \in Procs, Close(p) \/ CloseStep(p)
  PROVE  Transfers' /\ UNCHANGED <<ring, got>>
<1>1. \E l \in Labels \ {"put", "wait"} : Goto(p, l)
  BY DEF Close, CloseStep, CloseStore, CloseTest, CloseClear, CloseSignal, CloseFree, Labels
<1>2. UNCHANGED <<ring, buf, got>>
  BY DEF Close, CloseStep, CloseStore, CloseTest, CloseClear, CloseSignal, CloseFree, locals, ends
<1>3. QED  BY <1>1, <1>2, MoveStep

LEMMA StartMoves ==
  ASSUME PipeSetting, Transfers,
         NEW p \in Procs, (p \in Writers /\ Write(p)) \/ (p \in Readers /\ Read(p))
  PROVE  Transfers' /\ UNCHANGED <<ring, got>>
<1>1. CASE p \in Writers /\ Write(p)
  <2>1. PICK m \in Messages : buf' = [buf EXCEPT ![p] = m]
    BY <1>1, Zenon DEF Write
  <2>2. m \in Seq(Bytes) /\ m # << >>
    BY <2>1, MessageBytes
  <2>3. buf' \in [Writers -> Seq(Bytes)] /\ buf'[p] = m /\ \A w \in Writers \ {p} : buf'[w] = buf[w]
    BY <1>1, <2>1, <2>2 DEF Transfers
  <2>4. pc' \in [Procs -> Labels] /\ \A w \in Writers \ {p} : pc'[w] = pc[w]
    BY <1>1 DEF Write, Goto, Transfers, Labels, Procs
  <2>5. UNCHANGED <<ring, got>>
    BY <1>1 DEF Write
  <2>6. QED  BY <2>2, <2>3, <2>4, <2>5 DEF Transfers
<1>2. CASE p \in Readers /\ Read(p)
  <2>1. Goto(p, "get") /\ "get" \in Labels /\ UNCHANGED <<ring, buf, got>>
    BY <1>2 DEF Read, Labels
  <2>2. QED  BY <2>1, MoveStep
<1>3. QED  BY <1>1, <1>2

LEMMA NextTransfers ==
  ASSUME PipeSetting, Transfers, [PipeNext]_pipe_vars
  PROVE  Transfers' /\ [Bytestream!Next]_<<Elements(ring), got>>
<1>1. CASE UNCHANGED pipe_vars
  BY <1>1 DEF pipe_vars, locals, Transfers
<1>2. ASSUME NEW w \in Writers, Write(w)  PROVE Transfers' /\ UNCHANGED <<ring, got>>
  BY <1>2, StartMoves DEF Procs
<1>3. ASSUME NEW w \in Writers, WriterStep(w)
      PROVE  Transfers' /\ [Bytestream!Next]_<<Elements(ring), got>>
  <2>1. pipe_enqueue(w) /\ pc[w] \in {"put", "wait"} /\ UNCHANGED got
    BY <1>3 DEF WriterStep, WriteByte, WriteWake
  <2>2. buf[w] # << >>
    BY <2>1 DEF Transfers
  <2>3. QED  BY <2>1, <2>2, EnqueueStep
<1>4. ASSUME NEW r \in Readers, Read(r)  PROVE Transfers' /\ UNCHANGED <<ring, got>>
  BY <1>4, StartMoves DEF Procs
<1>5. ASSUME NEW r \in Readers, ReaderStep(r)
      PROVE  Transfers' /\ [Bytestream!Next]_<<Elements(ring), got>>
  BY <1>5, DequeueStep DEF ReaderStep, ReadByte, ReadWake
<1>6. ASSUME NEW p \in Procs, Close(p) \/ CloseStep(p)  PROVE Transfers' /\ UNCHANGED <<ring, got>>
  BY <1>6, CloseMoves
<1>7. QED  BY <1>1, <1>2, <1>3, <1>4, <1>5, <1>6 DEF PipeNext, Done

\* pipe_write and pipe_read move the bytes of any number of writers to any number
\* of readers as a bounded FIFO queue does: none lost, doubled, reordered or read
\* from a slot that holds none, while ends are closed and sleepers woken.
THEOREM PipeRefinesFifo ==
  ASSUME PipeSetting
  PROVE  PipeSpec => PipeIsFifo
<1>1. PipeInit => Transfers /\ Bytestream!Init
  BY InitTransfers
<1>2. Transfers /\ [PipeNext]_pipe_vars => Transfers' /\ [Bytestream!Next]_<<Elements(ring), got>>
  BY NextTransfers
<1>3. QED  BY <1>1, <1>2, PTL DEF PipeSpec, PipeIsFifo, Bytestream!Spec

-----------------------------------------------------------------------------
(* The ends.  S is the set of processes that got an end, f where they are, n   *)
(* the reference count of the end, live whether the pipe still has it, and s   *)
(* the counts that processes inside file_close have loaded.                    *)
Inside == {"out", "get", "put", "wait"}
Using == Inside \cup {"store"}
Past == {"signal", "check", "released"}
Open(S, f) == {p \in S : f[p] \in Using}

\* The count, and every stale copy of it that is still to be stored, is at least
\* the number of processes that have not stored theirs; so nobody finds 0 and
\* clears the end while one of them has it.
Enough(S, f, n) == n \in Nat /\ n >= Cardinality(Open(S, f))

End1(S, f, n, live, s) ==
  /\ Enough(S, f, n)
  /\ \A p \in S : f[p] = "store" => Enough(S, f, s[p])
  /\ ~live \/ (\E p \in S : f[p] = "clear") => Open(S, f) = {}
  /\ n = 0 /\ live => \E p \in S : f[p] \in {"test", "clear"}
  /\ (\E p \in S : f[p] \in Past) => ~live

\* Nobody loads, stores, tests or clears in the step.
LEMMA EndSame ==
  ASSUME NEW S, NEW f, NEW g, NEW n, NEW live, NEW s, NEW t, End1(S, f, n, live, s),
         \A p \in S : /\ g[p] \in Using <=> f[p] \in Using
                      /\ g[p] = "store" => f[p] = "store" /\ t[p] = s[p]
                      /\ g[p] = "clear" => f[p] = "clear"
                      /\ f[p] \in {"test", "clear"} => g[p] = f[p]
                      /\ g[p] \in Past => f[p] \in Past
  PROVE  End1(S, g, n, live, t)
<1>1. Open(S, g) = Open(S, f)
  BY DEF Open
<1>2. \A m : Enough(S, g, m) <=> Enough(S, f, m)
  BY <1>1 DEF Enough
<1>3. \A p \in S : g[p] = "store" => Enough(S, f, t[p])
  BY Zenon DEF End1
<1>4. QED  BY <1>1, <1>2, <1>3, Zenon DEF End1

\* A process loads the count.
LEMMA EndLoad ==
  ASSUME NEW S, NEW f, NEW g, NEW n, NEW live, NEW s, NEW t, End1(S, f, n, live, s),
         NEW p \in S, f[p] = "out", g[p] = "store", t[p] = n,
         \A q \in S \ {p} : g[q] = f[q] /\ t[q] = s[q]
  PROVE  End1(S, g, n, live, t)
<1>1. Open(S, g) = Open(S, f)
  BY DEF Open, Using, Inside
<1>2. \A m : Enough(S, g, m) <=> Enough(S, f, m)
  BY <1>1 DEF Enough
<1>3. \A q \in S : g[q] = "store" => Enough(S, f, t[q])
  BY Zenon DEF End1
<1>4. \A q \in S : /\ g[q] = "clear" => f[q] = "clear"
                   /\ f[q] \in {"test", "clear"} => g[q] = f[q]
                   /\ g[q] \in Past => f[q] \in Past
  BY DEF Past
<1>5. QED  BY <1>1, <1>2, <1>3, <1>4, Zenon DEF End1

\* A process stores what it loaded, less one, and is not counted any more.
LEMMA EndStore ==
  ASSUME NEW S, IsFiniteSet(S), NEW f, NEW g, NEW n, NEW live, NEW s, NEW t, End1(S, f, n, live, s),
         NEW p \in S, f[p] = "store", g[p] = "test",
         \A q \in S \ {p} : g[q] = f[q] /\ t[q] = s[q]
  PROVE  End1(S, g, s[p] - 1, live, t)
<1>1. IsFiniteSet(Open(S, f)) /\ p \in Open(S, f) /\ Enough(S, f, s[p])
  BY FS_Subset DEF Open, Using, End1
<1>2. Open(S, g) = Open(S, f) \ {p}
  BY DEF Open, Using, Inside
<1>3. Cardinality(Open(S, f)) \in Nat
  BY <1>1, FS_CardinalityType, Zenon
<1>4. LET R == Open(S, f) \ {p} IN
      IsFiniteSet(R) /\ Cardinality(R) = Cardinality(Open(S, f)) - 1
  BY <1>1, FS_RemoveElement, Zenon
<1>5. /\ Cardinality(Open(S, g)) = Cardinality(Open(S, f)) - 1
      /\ Cardinality(Open(S, g)) \in Nat
  <2>1. IsFiniteSet(Open(S, g)) /\ Cardinality(Open(S, g)) = Cardinality(Open(S, f)) - 1
    BY <1>2, <1>4, Zenon
  <2>2. QED  BY <2>1, FS_CardinalityType, Zenon
<1>6. Enough(S, g, s[p] - 1) /\ \A m : Enough(S, f, m) => Enough(S, g, m)
  <2>1. Enough(S, g, s[p] - 1)
    BY <1>1, <1>3, <1>5 DEF Enough
  <2>2. ASSUME NEW m, Enough(S, f, m)  PROVE Enough(S, g, m)
    BY <1>3, <1>5, <2>2 DEF Enough
  <2>3. QED  BY <2>1, <2>2
<1>7. live /\ \A q \in S : g[q] # "clear" /\ g[q] \notin Past
  <2>1. live /\ \A q \in S : f[q] # "clear"
    BY <1>1 DEF End1
  <2>2. \A q \in S : f[q] \notin Past
    BY <2>1, Zenon DEF End1
  <2>3. "test" \notin Past /\ "test" # "clear"
    BY DEF Past
  <2>4. QED  BY <2>1, <2>2, <2>3, Zenon
<1>8. \A q \in S : g[q] = "store" => Enough(S, g, t[q])
  BY <1>6, Zenon DEF End1
<1>9. QED  BY <1>6, <1>7, <1>8, Zenon DEF End1

\* A process reads the count back, or reads a struct file that was freed.
LEMMA EndTest ==
  ASSUME NEW S, IsFiniteSet(S), NEW f, NEW g, NEW n, NEW live, NEW s, End1(S, f, n, live, s),
         NEW p \in S, f[p] = "test", \A q \in S \ {p} : g[q] = f[q],
         \/ n = 0 /\ g[p] = "clear"
         \/ n # 0 /\ g[p] = "closed"
         \/ (\E q \in S : f[q] = "released") /\ g[p] \in {"closed", "wild"}
  PROVE  End1(S, g, n, live, s)
<1>1. Open(S, g) = Open(S, f)
  BY DEF Open, Using, Inside
<1>2. \A m : Enough(S, g, m) <=> Enough(S, f, m)
  BY <1>1 DEF Enough
<1>3. \A q \in S : g[q] = "store" => Enough(S, f, s[q])
  BY Zenon DEF End1
<1>4. n = 0 => Open(S, f) = {}
  <2>1. IsFiniteSet(Open(S, f))
    BY FS_Subset DEF Open
  <2>2. Cardinality(Open(S, f)) \in Nat /\ (Cardinality(Open(S, f)) = 0 <=> Open(S, f) = {})
    BY <2>1, FS_CardinalityType, FS_EmptySet, Zenon
  <2>3. QED  BY <2>2 DEF End1, Enough
<1>5. ~live \/ (\E q \in S : g[q] = "clear") => Open(S, f) = {}
  BY <1>4, Zenon DEF End1
<1>6. (\E q \in S : g[q] \in Past) => ~live
  <2>1. \A q \in S : g[q] \in Past => f[q] \in Past
    BY DEF Past
  <2>2. QED  BY <2>1, Zenon DEF End1
<1>7. n = 0 /\ live => g[p] = "clear"
  BY DEF End1, Past
<1>8. QED  BY <1>1, <1>2, <1>3, <1>5, <1>6, <1>7, Zenon DEF End1

\* A process that found 0 clears the end, or finds it cleared.
LEMMA EndClear ==
  ASSUME NEW S, NEW f, NEW g, NEW n, NEW live, NEW s, End1(S, f, n, live, s),
         NEW p \in S, f[p] = "clear", g[p] \in {"signal", "check", "wild"},
         \A q \in S \ {p} : g[q] = f[q]
  PROVE  End1(S, g, n, FALSE, s)
<1>1. Open(S, g) = Open(S, f) /\ Open(S, f) = {}
  BY DEF Open, Using, Inside, End1
<1>2. \A m : Enough(S, g, m) <=> Enough(S, f, m)
  BY <1>1 DEF Enough
<1>3. \A q \in S : g[q] = "store" => Enough(S, f, s[q])
  BY Zenon DEF End1
<1>4. QED  BY <1>1, <1>2, <1>3, Zenon DEF End1

Ends ==
  /\ ref_count \in [{"read", "write"} -> Nat] /\ freed \in Nat
  /\ read_end \in BOOLEAN /\ write_end \in BOOLEAN /\ seen \in [Procs -> Nat]
  /\ End1(Readers, pc, ref_count["read"], read_end, seen)
  /\ End1(Writers, pc, ref_count["write"], write_end, seen)
  /\ freed > 0 => ~read_end /\ ~write_end
  /\ ~read_end /\ ~write_end => freed > 0 \/ \E p \in Procs : pc[p] \in {"signal", "check"}
  /\ eof # {} => ~write_end /\ Empty(ring)

LEMMA InitEnds ==
  ASSUME PipeSetting, PipeInit
  PROVE  Ends
<1>1. /\ ref_count["read"] = Cardinality(Readers) /\ ref_count["write"] = Cardinality(Writers)
      /\ \A p \in Procs : pc[p] = "out"
  BY DEF PipeInit
<1>2. Open(Readers, pc) = Readers /\ Open(Writers, pc) = Writers
  BY <1>1 DEF Open, Using, Inside, Procs
<1>3. /\ Cardinality(Readers) \in Nat /\ Cardinality(Readers) # 0
      /\ Cardinality(Writers) \in Nat /\ Cardinality(Writers) # 0
  BY FS_CardinalityType, FS_EmptySet, Zenon DEF PipeSetting
<1>4. /\ \A p \in Readers : pc[p] = "out"
      /\ \A p \in Writers : pc[p] = "out"
  BY <1>1 DEF Procs
<1>5. Enough(Readers, pc, ref_count["read"]) /\ Enough(Writers, pc, ref_count["write"])
  BY <1>1, <1>2, <1>3 DEF Enough
<1>6. /\ End1(Readers, pc, ref_count["read"], TRUE, seen)
      /\ End1(Writers, pc, ref_count["write"], TRUE, seen)
  BY <1>1, <1>3, <1>4, <1>5 DEF End1, Past
<1>7. read_end = TRUE /\ write_end = TRUE /\ eof = {} /\ freed = 0
  BY DEF PipeInit
<1>8. /\ End1(Readers, pc, ref_count["read"], read_end, seen)
      /\ End1(Writers, pc, ref_count["write"], write_end, seen)
  BY <1>6, <1>7, Zenon
<1>9. freed \in Nat /\ ~(freed > 0)
  BY <1>7
<1>10. ref_count \in [{"read", "write"} -> Nat] /\ seen \in [Procs -> Nat]
  BY <1>3 DEF PipeInit
<1>11. QED  BY <1>7, <1>8, <1>9, <1>10, Zenon DEF Ends

\* A process that is still counted has its end open, so the pipe has it too and has
\* not been freed; for a writer, nobody has been told of the end of file.
LEMMA UserEnd ==
  ASSUME Ends, NEW p \in Procs, pc[p] \in Using
  PROVE  /\ freed = 0
         /\ p \in Readers => read_end
         /\ p \in Writers => write_end /\ eof = {}
<1>1. p \in Readers => Open(Readers, pc) # {}
  BY DEF Open
<1>2. p \in Writers => Open(Writers, pc) # {}
  BY DEF Open
<1>3. (p \in Readers => read_end) /\ (p \in Writers => write_end)
  BY <1>1, <1>2 DEF Ends, End1
<1>4. QED  BY <1>3 DEF Ends, Procs

\* A process that stays inside the pipe.
LEMMA InsideStep ==
  ASSUME Ends, NEW p \in Procs, pc[p] \in Inside, NEW l \in Inside, pc \in [Procs -> Labels],
         Goto(p, l), UNCHANGED ends, eof' # {} => ~write_end /\ Empty(ring')
  PROVE  Ends'
<1>1. pc'[p] = l /\ \A q \in Procs \ {p} : pc'[q] = pc[q]
  BY DEF Goto
<1>2. \A q \in Procs : /\ pc'[q] \in Using <=> pc[q] \in Using
                       /\ pc'[q] = "store" => pc[q] = "store" /\ seen[q] = seen[q]
                       /\ pc'[q] = "clear" => pc[q] = "clear"
                       /\ pc[q] \in {"test", "clear"} => pc'[q] = pc[q]
                       /\ pc'[q] \in Past => pc[q] \in Past
                       /\ pc[q] \in {"signal", "check"} => pc'[q] = pc[q]
  BY <1>1 DEF Using, Inside, Past
<1>3. UNCHANGED <<ref_count, freed, read_end, write_end, seen>>
  BY DEF ends
<1>4. /\ End1(Readers, pc', ref_count["read"], read_end, seen)
      /\ End1(Writers, pc', ref_count["write"], write_end, seen)
  <2>1. /\ End1(Readers, pc, ref_count["read"], read_end, seen)
        /\ End1(Writers, pc, ref_count["write"], write_end, seen)
    BY DEF Ends
  <2>2. Readers \subseteq Procs /\ Writers \subseteq Procs
    BY DEF Procs
  <2>3. QED  BY <1>2, <2>1, <2>2, EndSame
<1>5. QED  BY <1>2, <1>3, <1>4, Zenon DEF Ends

LEMMA EnqueueEnds ==
  ASSUME Ends, Transfers, NEW w \in Writers, pc[w] \in Inside, pipe_enqueue(w), UNCHANGED <<ends, eof>>
  PROVE  Ends'
<1>1. \E l \in Inside : Goto(w, l)
  BY DEF pipe_enqueue, NextByte, Inside
<1>2. eof = {} /\ w \in Procs
  BY UserEnd DEF Procs, Using
<1>3. QED  BY <1>1, <1>2, InsideStep DEF Transfers

LEMMA DequeueEnds ==
  ASSUME Ends, Transfers, NEW r \in Readers, pc[r] \in Inside, pipe_dequeue(r), UNCHANGED ends
  PROVE  Ends'
<1>1. \E l \in Inside : Goto(r, l)
  BY Zenon DEF pipe_dequeue, StoreByte, Inside
<1>2. eof # {} => ~write_end /\ Empty(ring)
  BY Zenon DEF Ends
<1>3. eof' # {} => ~write_end /\ Empty(ring')
  BY <1>2, Zenon DEF pipe_dequeue, Empty
<1>4. QED  BY <1>1, <1>3, InsideStep DEF Transfers, Procs

\* The process p moves at its own end; at the other end nothing changes.
LEMMA OtherEnd ==
  ASSUME NEW S, NEW p, NEW f, NEW g, NEW n, NEW live, NEW s, NEW t, End1(S, f, n, live, s),
         p \notin S, \A q \in S : q # p => g[q] = f[q] /\ t[q] = s[q]
  PROVE  End1(S, g, n, live, t)
<1>1. \A q \in S : g[q] = f[q] /\ t[q] = s[q]
  OBVIOUS
<1>2. QED  BY <1>1, EndSame

\* The end of p, and the end that is not.
LEMMA TwoEnds ==
  ASSUME PipeSetting, Ends, NEW p \in Procs
  PROVE  /\ \/ p \in Readers /\ p \notin Writers /\ End(p) = "read"
            \/ p \in Writers /\ p \notin Readers /\ End(p) = "write"
         /\ End1(Readers, pc, ref_count["read"], read_end, seen)
         /\ End1(Writers, pc, ref_count["write"], write_end, seen)
         /\ IsFiniteSet(Readers) /\ IsFiniteSet(Writers)
         /\ Readers \subseteq Procs /\ Writers \subseteq Procs
BY DEF PipeSetting, Ends, Procs, End

LEMMA CloseEnds ==
  ASSUME PipeSetting, Ends, Transfers, NEW p \in Procs, Close(p)
  PROVE  Ends'
<1>0. /\ End1(Readers, pc, ref_count["read"], read_end, seen) /\ IsFiniteSet(Readers)
      /\ End1(Writers, pc, ref_count["write"], write_end, seen) /\ IsFiniteSet(Writers)
  BY TwoEnds
<1>1. pc[p] = "out" /\ pc \in [Procs -> Labels] /\ seen \in [Procs -> Nat]
      /\ UNCHANGED <<ring, read_end, write_end, ref_count, freed, eof>>
  BY DEF Close, Transfers, Ends
<1>2. /\ pc'[p] = "store" /\ seen'[p] = ref_count[End(p)]
      /\ \A q \in Procs \ {p} : pc'[q] = pc[q] /\ seen'[q] = seen[q]
  BY <1>1 DEF Close, Goto
<1>3. seen' \in [Procs -> Nat]
  BY DEF Close, Ends, End
<1>4. \A q \in Procs : pc[q] \in {"signal", "check"} => pc'[q] = pc[q]
  BY <1>1, <1>2
<1>5. /\ End1(Readers, pc', ref_count["read"], read_end, seen')
      /\ End1(Writers, pc', ref_count["write"], write_end, seen')
  <2>1. CASE p \in Readers
    <3>1. p \notin Writers /\ seen'[p] = ref_count["read"]
      BY <1>2, <2>1, TwoEnds, Zenon
    <3>2. /\ \A q \in Readers \ {p} : pc'[q] = pc[q] /\ seen'[q] = seen[q]
          /\ \A q \in Writers : q # p => pc'[q] = pc[q] /\ seen'[q] = seen[q]
      BY <1>2, TwoEnds, Zenon
    <3>3. End1(Readers, pc', ref_count["read"], read_end, seen')
      BY <1>0, <1>1, <1>2, <2>1, <3>1, <3>2, EndLoad
    <3>4. End1(Writers, pc', ref_count["write"], write_end, seen')
      BY <1>0, <3>1, <3>2, OtherEnd, Zenon
    <3>5. QED  BY <3>3, <3>4
  <2>2. CASE p \in Writers
    <3>1. p \notin Readers /\ seen'[p] = ref_count["write"]
      BY <1>2, <2>2, TwoEnds, Zenon
    <3>2. /\ \A q \in Writers \ {p} : pc'[q] = pc[q] /\ seen'[q] = seen[q]
          /\ \A q \in Readers : q # p => pc'[q] = pc[q] /\ seen'[q] = seen[q]
      BY <1>2, TwoEnds, Zenon
    <3>3. End1(Writers, pc', ref_count["write"], write_end, seen')
      BY <1>0, <1>1, <1>2, <2>2, <3>1, <3>2, EndLoad
    <3>4. End1(Readers, pc', ref_count["read"], read_end, seen')
      BY <1>0, <3>1, <3>2, OtherEnd, Zenon
    <3>5. QED  BY <3>3, <3>4
  <2>3. QED  BY <2>1, <2>2 DEF Procs
<1>6. QED  BY <1>1, <1>3, <1>4, <1>5, Zenon DEF Ends, Empty

LEMMA StoreEnds ==
  ASSUME PipeSetting, Ends, Transfers, NEW p \in Procs, CloseStore(p)
  PROVE  Ends'
<1>0. /\ End1(Readers, pc, ref_count["read"], read_end, seen) /\ IsFiniteSet(Readers)
      /\ End1(Writers, pc, ref_count["write"], write_end, seen) /\ IsFiniteSet(Writers)
  BY TwoEnds
<1>1. pc[p] = "store" /\ pc \in [Procs -> Labels] /\ seen \in [Procs -> Nat]
      /\ UNCHANGED <<ring, read_end, write_end, freed, eof>>
  BY DEF CloseStore, Transfers, Ends
<1>2. pc'[p] = "test" /\ \A q \in Procs \ {p} : pc'[q] = pc[q] /\ seen'[q] = seen[q]
  BY <1>1 DEF CloseStore, Goto
<1>3. seen' \in [Procs -> Nat]
  BY DEF CloseStore, Ends
<1>4. \A q \in Procs : pc[q] \in {"signal", "check"} => pc'[q] = pc[q]
  BY <1>1, <1>2
<1>5. /\ End1(Readers, pc', ref_count'["read"], read_end, seen')
      /\ End1(Writers, pc', ref_count'["write"], write_end, seen')
  <2>1. CASE p \in Readers
    <3>1. p \notin Writers /\ End(p) = "read"
      BY <2>1, TwoEnds
    <3>2. ref_count'["read"] = seen[p] - 1 /\ ref_count'["write"] = ref_count["write"]
      BY <3>1 DEF CloseStore, Ends
    <3>3. /\ \A q \in Readers \ {p} : pc'[q] = pc[q] /\ seen'[q] = seen[q]
          /\ \A q \in Writers : q # p => pc'[q] = pc[q] /\ seen'[q] = seen[q]
      BY <1>2, TwoEnds, Zenon
    <3>4. End1(Readers, pc', seen[p] - 1, read_end, seen')
      BY <1>0, <1>1, <1>2, <2>1, <3>3, EndStore, Zenon
    <3>5. End1(Writers, pc', ref_count["write"], write_end, seen')
      BY <1>0, <3>1, <3>3, OtherEnd, Zenon
    <3>6. QED  BY <3>2, <3>4, <3>5
  <2>2. CASE p \in Writers
    <3>1. p \notin Readers /\ End(p) = "write"
      BY <2>2, TwoEnds
    <3>2. ref_count'["write"] = seen[p] - 1 /\ ref_count'["read"] = ref_count["read"]
      BY <3>1 DEF CloseStore, Ends
    <3>3. /\ \A q \in Writers \ {p} : pc'[q] = pc[q] /\ seen'[q] = seen[q]
          /\ \A q \in Readers : q # p => pc'[q] = pc[q] /\ seen'[q] = seen[q]
      BY <1>2, TwoEnds, Zenon
    <3>4. End1(Writers, pc', seen[p] - 1, write_end, seen')
      BY <1>0, <1>1, <1>2, <2>2, <3>3, EndStore
    <3>5. End1(Readers, pc', ref_count["read"], read_end, seen')
      BY <1>0, <3>1, <3>3, OtherEnd, Zenon
    <3>6. QED  BY <3>2, <3>4, <3>5
  <2>3. QED  BY <2>1, <2>2 DEF Procs
<1>6. ref_count' \in [{"read", "write"} -> Nat]
  <2>1. ref_count'["read"] \in Nat /\ ref_count'["write"] \in Nat
    BY <1>5, Zenon DEF End1, Enough
  <2>2. ref_count' \in [{"read", "write"} -> {ref_count'["read"], ref_count'["write"]}]
    BY Zenon DEF CloseStore, Ends
  <2>3. QED  BY <2>1, <2>2
<1>7. QED  BY <1>1, <1>3, <1>4, <1>5, <1>6, Zenon DEF Ends, Empty

LEMMA TestEnds ==
  ASSUME PipeSetting, Ends, Transfers, NEW p \in Procs, CloseTest(p)
  PROVE  Ends'
<1>0. /\ End1(Readers, pc, ref_count["read"], read_end, seen) /\ IsFiniteSet(Readers)
      /\ End1(Writers, pc, ref_count["write"], write_end, seen) /\ IsFiniteSet(Writers)
  BY TwoEnds
<1>1. pc[p] = "test" /\ pc \in [Procs -> Labels]
      /\ UNCHANGED <<ring, read_end, write_end, ref_count, freed, seen, eof>>
  BY DEF CloseTest, Transfers, ends
<1>2. \A q \in Procs \ {p} : pc'[q] = pc[q]
  BY <1>1 DEF CloseTest, Goto
<1>3. \/ ref_count[End(p)] = 0 /\ pc'[p] = "clear"
      \/ ref_count[End(p)] # 0 /\ pc'[p] = "closed"
      \/ FileFreed(p) /\ pc'[p] \in {"closed", "wild"}
  BY <1>1 DEF CloseTest, Goto
<1>4. \A q \in Procs : pc[q] \in {"signal", "check"} => pc'[q] = pc[q]
  BY <1>1, <1>2
<1>5. /\ End1(Readers, pc', ref_count["read"], read_end, seen)
      /\ End1(Writers, pc', ref_count["write"], write_end, seen)
  <2>1. CASE p \in Readers
    <3>1. p \notin Writers /\ End(p) = "read"
      BY <2>1, TwoEnds
    <3>2. FileFreed(p) => \E q \in Readers : pc[q] = "released"
      BY <3>1 DEF FileFreed, End
    <3>3. /\ \A q \in Readers \ {p} : pc'[q] = pc[q]
          /\ \A q \in Writers : q # p => pc'[q] = pc[q] /\ seen[q] = seen[q]
      BY <1>2, TwoEnds, Zenon
    <3>4. End1(Readers, pc', ref_count["read"], read_end, seen)
      BY <1>0, <1>1, <1>3, <2>1, <3>1, <3>2, <3>3, EndTest, Zenon
    <3>5. End1(Writers, pc', ref_count["write"], write_end, seen)
      BY <1>0, <3>1, <3>3, OtherEnd, Zenon
    <3>6. QED  BY <3>4, <3>5
  <2>2. CASE p \in Writers
    <3>1. p \notin Readers /\ End(p) = "write"
      BY <2>2, TwoEnds
    <3>2. FileFreed(p) => \E q \in Writers : pc[q] = "released"
      BY <3>1 DEF FileFreed, End, Procs
    <3>3. /\ \A q \in Writers \ {p} : pc'[q] = pc[q]
          /\ \A q \in Readers : q # p => pc'[q] = pc[q] /\ seen[q] = seen[q]
      BY <1>2, TwoEnds, Zenon
    <3>4. End1(Writers, pc', ref_count["write"], write_end, seen)
      BY <1>0, <1>1, <1>3, <2>2, <3>1, <3>2, <3>3, EndTest, Zenon
    <3>5. End1(Readers, pc', ref_count["read"], read_end, seen)
      BY <1>0, <3>1, <3>3, OtherEnd, Zenon
    <3>6. QED  BY <3>4, <3>5
  <2>3. QED  BY <2>1, <2>2 DEF Procs
<1>6. QED  BY <1>1, <1>4, <1>5, Zenon DEF Ends, Empty

LEMMA ClearEnds ==
  ASSUME PipeSetting, Ends, Transfers, NEW p \in Procs, CloseClear(p)
  PROVE  Ends'
<1>0. /\ End1(Readers, pc, ref_count["read"], read_end, seen) /\ IsFiniteSet(Readers)
      /\ End1(Writers, pc, ref_count["write"], write_end, seen) /\ IsFiniteSet(Writers)
  BY TwoEnds
<1>1. pc[p] = "clear" /\ pc \in [Procs -> Labels] /\ UNCHANGED <<ring, ref_count, freed, seen, eof>>
  BY DEF CloseClear, Transfers
<1>2. pc'[p] \in {"signal", "check", "wild"} /\ \A q \in Procs \ {p} : pc'[q] = pc[q]
  BY <1>1 DEF CloseClear, Goto
<1>3. read_end' = (read_end /\ p \notin Readers) /\ write_end' = (write_end /\ p \notin Writers)
  BY DEF CloseClear
<1>4. pc'[p] = "wild" => freed > 0 \/ FileFreed(p)
  BY <1>1 DEF CloseClear, Goto
<1>5. \A q \in Procs : pc[q] \in {"signal", "check"} => pc'[q] = pc[q]
  BY <1>1, <1>2
<1>6. (~read_end /\ ~write_end => freed > 0 \/ \E q \in Procs : pc[q] \in {"signal", "check"})
  BY DEF Ends
<1>7. CASE p \in Readers
  <2>1. p \notin Writers /\ End(p) = "read" /\ read_end' = FALSE /\ write_end' = write_end
    BY <1>3, <1>7, TwoEnds, Zenon DEF Ends
  <2>2. End1(Readers, pc', ref_count["read"], FALSE, seen)
    <3>1. \A q \in Readers \ {p} : pc'[q] = pc[q]
      BY <1>2, TwoEnds, Zenon
    <3>2. QED  BY <1>0, <1>1, <1>2, <1>7, <3>1, EndClear, Zenon
  <2>3. \A q \in Writers : q # p => pc'[q] = pc[q] /\ seen[q] = seen[q]
    BY <1>2, TwoEnds, Zenon
  <2>4. End1(Writers, pc', ref_count["write"], write_end, seen)
    BY <1>0, <2>1, <2>3, OtherEnd, Zenon
  <2>5. FileFreed(p) => ~read_end
    <3>1. FileFreed(p) => \E q \in Readers : pc[q] \in Past
      BY <2>1 DEF FileFreed, End, Past
    <3>2. QED  BY <3>1, TwoEnds, Zenon DEF End1
  <2>6. ~write_end => freed > 0 \/ \E q \in Procs : pc'[q] \in {"signal", "check"}
    BY <1>2, <1>4, <1>5, <1>6, <2>5, Zenon
  <2>7. QED  BY <1>1, <2>1, <2>2, <2>4, <2>6, Zenon DEF Ends, Empty
<1>8. CASE p \in Writers
  <2>1. p \notin Readers /\ End(p) = "write" /\ write_end' = FALSE /\ read_end' = read_end
    BY <1>3, <1>8, TwoEnds, Zenon DEF Ends
  <2>2. End1(Writers, pc', ref_count["write"], FALSE, seen)
    <3>1. \A q \in Writers \ {p} : pc'[q] = pc[q]
      BY <1>2, TwoEnds, Zenon
    <3>2. QED  BY <1>0, <1>1, <1>2, <1>8, <3>1, EndClear, Zenon
  <2>3. \A q \in Readers : q # p => pc'[q] = pc[q] /\ seen[q] = seen[q]
    BY <1>2, TwoEnds, Zenon
  <2>4. End1(Readers, pc', ref_count["read"], read_end, seen)
    BY <1>0, <2>1, <2>3, OtherEnd, Zenon
  <2>5. FileFreed(p) => ~write_end
    <3>1. FileFreed(p) => \E q \in Writers : pc[q] \in Past
      BY <2>1 DEF FileFreed, End, Past, Procs
    <3>2. QED  BY <3>1, TwoEnds, Zenon DEF End1
  <2>6. ~read_end => freed > 0 \/ \E q \in Procs : pc'[q] \in {"signal", "check"}
    BY <1>2, <1>4, <1>5, <1>6, <2>5, Zenon
  <2>7. QED  BY <1>1, <2>1, <2>2, <2>4, <2>6, Zenon DEF Ends, Empty
<1>9. QED  BY <1>7, <1>8 DEF Procs

\* The signal, and the last look at the two ends.
LEMMA LookEnds ==
  ASSUME Ends, Transfers, NEW p \in Procs, CloseSignal(p) \/ CloseFree(p)
  PROVE  Ends'
<1>1. pc[p] \in {"signal", "check"} /\ pc \in [Procs -> Labels]
      /\ UNCHANGED <<ring, ref_count, read_end, write_end, seen, eof>>
  BY DEF CloseSignal, CloseFree, Transfers, ends
<1>2. pc'[p] \in {"check", "released", "wild"} /\ \A q \in Procs \ {p} : pc'[q] = pc[q]
  BY <1>1 DEF CloseSignal, CloseFree, Goto
<1>3. \A q \in Procs : /\ pc'[q] \in Using <=> pc[q] \in Using
                       /\ pc'[q] = "store" => pc[q] = "store" /\ seen[q] = seen[q]
                       /\ pc'[q] = "clear" => pc[q] = "clear"
                       /\ pc[q] \in {"test", "clear"} => pc'[q] = pc[q]
                       /\ pc'[q] \in Past => pc[q] \in Past
  BY <1>1, <1>2 DEF Using, Inside, Past
<1>4. /\ End1(Readers, pc', ref_count["read"], read_end, seen)
      /\ End1(Writers, pc', ref_count["write"], write_end, seen)
  <2>1. /\ End1(Readers, pc, ref_count["read"], read_end, seen)
        /\ End1(Writers, pc, ref_count["write"], write_end, seen)
    BY DEF Ends
  <2>2. Readers \subseteq Procs /\ Writers \subseteq Procs
    BY DEF Procs
  <2>3. QED  BY <1>3, <2>1, <2>2, EndSame, Zenon
<1>5. /\ freed' \in Nat /\ (freed' > 0 => ~read_end /\ ~write_end)
      /\ ~read_end /\ ~write_end => freed' > 0 \/ \E q \in Procs : pc'[q] \in {"signal", "check"}
  <2>1. CASE CloseSignal(p)
    <3>1. freed' = freed /\ (pc'[p] = "check" \/ freed > 0)
      BY <1>1, <2>1 DEF CloseSignal, Goto, ends
    <3>2. QED  BY <3>1, Zenon DEF Ends
  <2>2. CASE CloseFree(p)
    <3>1. freed \in Nat /\ (freed > 0 => ~read_end /\ ~write_end)
      BY DEF Ends
    <3>2. \/ freed = 0 /\ freed' = (IF ~read_end /\ ~write_end THEN 1 ELSE 0)
          \/ freed > 0 /\ freed' \in {freed, freed + 1}
      BY <2>2 DEF CloseFree
    <3>3. QED  BY <3>1, <3>2
  <2>3. QED  BY <2>1, <2>2
<1>6. QED  BY <1>1, <1>4, <1>5, Zenon DEF Ends, Empty

LEMMA NextEnds ==
  ASSUME PipeSetting, Ends, Transfers, [PipeNext]_pipe_vars
  PROVE  Ends'
<1>1. CASE UNCHANGED pipe_vars
  BY <1>1 DEF pipe_vars, ends, Ends, Empty
<1>2. ASSUME NEW p \in Procs, (p \in Writers /\ Write(p)) \/ (p \in Readers /\ Read(p))  PROVE Ends'
  <2>1. pc[p] \in Inside /\ (\E l \in Inside : Goto(p, l)) /\ UNCHANGED <<ring, ends, eof>>
    BY <1>2 DEF Write, Read, Inside
  <2>2. eof' # {} => ~write_end /\ Empty(ring')
    BY <2>1 DEF Ends, Empty
  <2>3. QED  BY <2>1, <2>2, InsideStep DEF Transfers
<1>3. ASSUME NEW w \in Writers, WriterStep(w)  PROVE Ends'
  BY <1>3, EnqueueEnds DEF WriterStep, WriteByte, WriteWake, Inside
<1>4. ASSUME NEW r \in Readers, ReaderStep(r)  PROVE Ends'
  BY <1>4, DequeueEnds DEF ReaderStep, ReadByte, ReadWake, Inside
<1>5. ASSUME NEW p \in Procs, Close(p) \/ CloseStep(p)  PROVE Ends'
  BY <1>5, CloseEnds, StoreEnds, TestEnds, ClearEnds, LookEnds DEF CloseStep
<1>6. QED  BY <1>1, <1>2, <1>3, <1>4, <1>5 DEF PipeNext, Done, Procs

-----------------------------------------------------------------------------
(* What readers and sleepers keep: a reader inside pipe_read still wants bytes. *)
Sleeping ==
  /\ items_avail \in Seq(Readers) /\ slots_avail \in Seq(Writers)
  /\ size \in [Readers -> Nat] /\ \A r \in Readers : pc[r] \in {"get", "wait"} => size[r] > 0
  /\ got \in [Readers -> Bytes] /\ eof \subseteq Readers

LEMMA InitSleeping ==
  ASSUME PipeInit
  PROVE  Sleeping
<1>1. size \in [Readers -> Nat] /\ got \in [Readers -> Bytes] /\ eof \subseteq Readers
  BY DEF PipeInit, Bytes
<1>2. \A r \in Readers : pc[r] = "out"
  BY DEF PipeInit, Procs
<1>3. items_avail \in Seq(Readers) /\ slots_avail \in Seq(Writers)
  BY DEF PipeInit
<1>4. QED  BY <1>1, <1>2, <1>3 DEF Sleeping

\* A step that leaves what readers want, or takes a process out of its call.
LEMMA KeepsSleeping ==
  ASSUME Sleeping, Transfers, NEW p \in Procs, NEW l, Goto(p, l),
         l \notin {"get", "wait"} \/ p \notin Readers,
         UNCHANGED <<size, got, eof>>,
         items_avail' \in Seq(Readers), slots_avail' \in Seq(Writers)
  PROVE  Sleeping'
<1>1. \A r \in Readers : pc'[r] \in {"get", "wait"} => pc'[r] = pc[r]
  BY DEF Goto, Transfers, Procs
<1>2. QED  BY <1>1, Zenon DEF Sleeping

LEMMA EnqueueSleeping ==
  ASSUME PipeSetting, Sleeping, Transfers, NEW w \in Writers, pipe_enqueue(w),
         UNCHANGED <<size, got, eof>>
  PROVE  Sleeping'
<1>1. items_avail \in Seq(Readers) /\ slots_avail \in Seq(Writers)
  BY DEF Sleeping
<1>2. items_avail' \in Seq(Readers) /\ slots_avail' \in Seq(Writers)
  <2>1. SignalFirst(items_avail) \in Seq(Readers) /\ Append(slots_avail, w) \in Seq(Writers)
    BY <1>1, SignalTyped
  <2>2. QED  BY <1>1, <2>1, Zenon DEF pipe_enqueue
<1>3. \E l : Goto(w, l)
  BY DEF pipe_enqueue, NextByte
<1>4. w \in Procs /\ w \notin Readers
  BY DEF Procs, PipeSetting
<1>5. QED  BY <1>2, <1>3, <1>4, KeepsSleeping

LEMMA StoreSleeping ==
  ASSUME Sleeping, Transfers, NEW r \in Readers, pc[r] \in {"get", "wait"}, NEW b,
         StoreByte(r, b), got' \in [Readers -> Bytes], eof' \subseteq Readers,
         items_avail' \in Seq(Readers), slots_avail' \in Seq(Writers)
  PROVE  Sleeping'
<1> DEFINE last == b = 0 \/ size[r] = 1
<1>1. size \in [Readers -> Nat] /\ size[r] \in Nat /\ size[r] > 0
  BY DEF Sleeping
<1>2. /\ size' = [size EXCEPT ![r] = IF last THEN 0 ELSE size[r] - 1]
      /\ pc' = [pc EXCEPT ![r] = IF last THEN "out" ELSE "get"]
  BY DEF StoreByte, Goto
<1>3. ~last => size[r] - 1 \in Nat /\ size[r] - 1 > 0
  BY <1>1
<1> HIDE DEF last
<1>4. size' \in [Readers -> Nat]
  BY <1>1, <1>2, <1>3
<1>5. \A q \in Readers : pc'[q] \in {"get", "wait"} => size'[q] > 0
  <2> SUFFICES ASSUME NEW q \in Readers, pc'[q] \in {"get", "wait"}  PROVE size'[q] > 0
    OBVIOUS
  <2>1. CASE q = r
    BY <1>1, <1>2, <1>3, <2>1 DEF Transfers, Procs
  <2>2. CASE q # r
    BY <1>1, <1>2, <2>2 DEF Transfers, Procs, Sleeping
  <2>3. QED  BY <2>1, <2>2
<1>6. QED  BY <1>4, <1>5, Zenon DEF Sleeping

LEMMA DequeueSleeping ==
  ASSUME PipeSetting, Sleeping, Transfers, NEW r \in Readers, pc[r] \in {"get", "wait"},
         pipe_dequeue(r)
  PROVE  Sleeping'
<1>1. /\ items_avail \in Seq(Readers) /\ slots_avail \in Seq(Writers)
      /\ got \in [Readers -> Bytes] /\ eof \subseteq Readers
  BY DEF Sleeping
<1>2. CASE /\ ~Empty(ring) /\ got' = [got EXCEPT ![r] = Oldest(ring)] /\ StoreByte(r, Oldest(ring))
           /\ slots_avail' = SignalFirst(slots_avail) /\ UNCHANGED <<items_avail, eof>>
  <2>1. Oldest(ring) \in Bytes
    BY <1>2, TakeRemoves DEF Transfers, PipeSetting
  <2>2. got' \in [Readers -> Bytes] /\ slots_avail' \in Seq(Writers)
    BY <1>1, <1>2, <2>1, SignalTyped
  <2>3. QED  BY <1>1, <1>2, <2>2, StoreSleeping
<1>3. CASE eof' = eof \cup {r} /\ StoreByte(r, 0) /\ UNCHANGED <<items_avail, slots_avail, got>>
  BY <1>1, <1>3, StoreSleeping
<1>4. CASE /\ items_avail' = Append(items_avail, r) /\ Goto(r, "wait")
           /\ UNCHANGED <<slots_avail, size, got, eof>>
  <2>1. items_avail' \in Seq(Readers)
    BY <1>1, <1>4
  <2>2. \A q \in Readers : pc'[q] \in {"get", "wait"} => size[q] > 0
    BY <1>4 DEF Goto, Sleeping, Transfers, Procs
  <2>3. QED  BY <1>4, <2>1, <2>2 DEF Sleeping
<1>5. QED  BY <1>2, <1>3, <1>4, Zenon DEF pipe_dequeue

LEMMA CloseSleeping ==
  ASSUME Sleeping, Transfers, NEW p \in Procs, Close(p) \/ CloseStep(p)
  PROVE  Sleeping'
<1>1. \E l \in Labels \ {"get", "wait"} : Goto(p, l)
  BY Zenon DEF Close, CloseStep, CloseStore, CloseTest, CloseClear, CloseSignal, CloseFree, Labels
<1>2. UNCHANGED <<size, got, eof>>
  BY Zenon DEF Close, CloseStep, CloseStore, CloseTest, CloseClear, CloseSignal, CloseFree, locals, ends
<1>3. items_avail \in Seq(Readers) /\ slots_avail \in Seq(Writers)
  BY DEF Sleeping
<1>4. items_avail' \in Seq(Readers) /\ slots_avail' \in Seq(Writers)
  BY <1>3, SignalTyped, Zenon DEF Close, CloseStep, CloseStore, CloseTest, CloseClear, CloseSignal, CloseFree
<1>5. QED  BY <1>1, <1>2, <1>4, KeepsSleeping

LEMMA NextSleeping ==
  ASSUME PipeSetting, Sleeping, Transfers, [PipeNext]_pipe_vars
  PROVE  Sleeping'
<1>1. CASE UNCHANGED pipe_vars
  BY <1>1 DEF pipe_vars, locals, Sleeping
<1>2. ASSUME NEW w \in Writers, Write(w)  PROVE Sleeping'
  <2>1. /\ Goto(w, "put") /\ UNCHANGED <<size, got, eof>> /\ w \in Procs
        /\ items_avail' \in Seq(Readers) /\ slots_avail' \in Seq(Writers)
    BY <1>2 DEF Write, Procs, Sleeping
  <2>2. QED  BY <2>1, KeepsSleeping
<1>3. ASSUME NEW w \in Writers, WriterStep(w)  PROVE Sleeping'
  BY <1>3, EnqueueSleeping DEF WriterStep, WriteByte, WriteWake
<1>4. ASSUME NEW r \in Readers, Read(r)  PROVE Sleeping'
  <2>1. PICK n \in 1 .. MaxRead : size' = [size EXCEPT ![r] = n]
    BY <1>4, Zenon DEF Read
  <2>2. n \in Nat /\ n > 0
    BY <2>1 DEF PipeSetting
  <2>3. size' \in [Readers -> Nat] /\ size'[r] = n /\ \A q \in Readers \ {r} : size'[q] = size[q]
    BY <2>1, <2>2 DEF Sleeping
  <2>4. \A q \in Readers \ {r} : pc'[q] = pc[q]
    BY <1>4 DEF Read, Goto, Transfers, Procs
  <2>5. UNCHANGED <<items_avail, slots_avail, got, eof>>
    BY <1>4 DEF Read
  <2>6. QED  BY <2>2, <2>3, <2>4, <2>5, Zenon DEF Sleeping
<1>5. ASSUME NEW r \in Readers, ReaderStep(r)  PROVE Sleeping'
  BY <1>5, DequeueSleeping DEF ReaderStep, ReadByte, ReadWake
<1>6. ASSUME NEW p \in Procs, Close(p) \/ CloseStep(p)  PROVE Sleeping'
  BY <1>6, CloseSleeping
<1>7. QED  BY <1>1, <1>2, <1>3, <1>4, <1>5, <1>6 DEF PipeNext, Done

\* The pipe is well typed, end of file is final, an end is not closed while a
\* process has it, and the pipe is freed neither under a process inside it nor, once
\* both counts are 0, never, however the closes of any number of processes overlap:
\* file_close counts down without a lock, and a decrement may be lost.
THEOREM PipeEndsAreSound ==
  ASSUME PipeSetting
  PROVE  PipeSpec => []PipeIsSafe
<1>1. PipeInit => Transfers /\ Ends /\ Sleeping
  BY InitTransfers, InitEnds, InitSleeping
<1>2. Transfers /\ Ends /\ Sleeping /\ [PipeNext]_pipe_vars => Transfers' /\ Ends' /\ Sleeping'
  BY NextTransfers, NextEnds, NextSleeping
<1>3. Transfers /\ Ends /\ Sleeping => PipeIsSafe
  <2> SUFFICES ASSUME Transfers, Ends, Sleeping
               PROVE  PipeTypeOK /\ EofIsFinal /\ EndsOutliveTheirUsers /\ FreedWhenUnused
    BY DEF PipeIsSafe
  <2>1. EofIsFinal
    BY DEF Ends, EofIsFinal
  <2>2. freed > 0 => \A p \in Procs : pc[p] \notin {"get", "put", "wait"}
    BY UserEnd DEF Using, Inside
  <2>3. ASSUME \A p \in Procs : pc[p] \in {"closed", "released"}, \A e \in {"read", "write"} : ref_count[e] = 0
        PROVE  freed > 0
    <3>1. ref_count["read"] = 0 /\ ref_count["write"] = 0
      BY <2>3
    <3>2. \A p \in Procs : pc[p] \notin {"test", "clear"} /\ pc[p] \notin {"signal", "check"}
      BY <2>3
    <3>3. ~read_end /\ ~write_end
      BY <3>1, <3>2, Zenon DEF Ends, End1, Procs
    <3>4. QED  BY <3>2, <3>3 DEF Ends
  <2>4. EndsOutliveTheirUsers
    <3>1. \A p \in Procs : /\ pc[p] \in Using /\ p \in Readers => read_end
                           /\ pc[p] \in Using /\ p \in Writers => write_end
      BY UserEnd
    <3>2. QED  BY <3>1 DEF EndsOutliveTheirUsers, Using, Inside, Procs
  <2>5. PipeTypeOK
    BY DEF PipeTypeOK, Transfers, Ends, Sleeping
  <2>6. QED  BY <2>1, <2>2, <2>3, <2>4, <2>5 DEF FreedWhenUnused
<1>4. QED  BY <1>1, <1>2, <1>3, PTL DEF PipeSpec
=============================================================================
