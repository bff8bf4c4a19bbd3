----------------------------- MODULE ArrayQueue -----------------------------
(***************************************************************************)
(* The array queue of lib/kernel/queue.c: a ring buffer with a monitor     *)
(* lock and the conditions items_avail and slots_avail.  queue_enqueue and *)
(* queue_dequeue hold the monitor lock from first to last line except      *)
(* inside cond_wait, so a call is one step, plus one for every wake-up.    *)
(*                                                                         *)
(* The kernel's instance is the read-ahead queue of filesys/cache.c: file  *)
(* readers enqueue sectors in discard mode (cache_read_ahead), the         *)
(* read-ahead daemon dequeues them.                                        *)
(***************************************************************************)
EXTENDS RingOps, FiniteSets

CONSTANTS Producers, Consumers,
          Items,  \* what is enqueued (sector numbers)
          NoItem  \* not one of them

VARIABLES discard_mode, \* a full queue drops the new element
          q_ring,         \* head, tail and buffer
          q_items_avail,  \* waiter list: consumers asleep
          q_slots_avail,  \* waiter list: producers asleep
          q_pc,           \* "out" or "wait" (inside cond_wait)
          q_item,         \* the element a producer is enqueueing
          q_got           \* the element a consumer dequeued last

q_vars == <<discard_mode, q_ring, q_items_avail, q_slots_avail, q_pc, q_item, q_got>>

Callers == Producers \cup Consumers

QueueInit ==
  /\ discard_mode \in BOOLEAN
  /\ q_ring = RingInit(NoItem)
  /\ q_items_avail = << >>
  /\ q_slots_avail = << >>
  /\ q_pc = [c \in Callers |-> "out"]
  /\ q_item = [p \in Producers |-> NoItem]
  /\ q_got = [c \in Consumers |-> NoItem]

-----------------------------------------------------------------------------
\* The end of queue_enqueue: the element goes in and a consumer is signalled.
MutantNoSignal(p, x) ==
  /\ q_ring' = Put(q_ring, x)
  /\ q_pc' = [q_pc EXCEPT ![p] = "out"]
  /\ q_item' = [q_item EXCEPT ![p] = NoItem]
  /\ UNCHANGED <<discard_mode, q_items_avail, q_slots_avail, q_got>>

Insert(p, x) ==
  /\ q_ring' = Put(q_ring, x)
  /\ q_items_avail' = SignalFirst(q_items_avail)
  /\ q_pc' = [q_pc EXCEPT ![p] = "out"]
  /\ q_item' = [q_item EXCEPT ![p] = NoItem]
  /\ UNCHANGED <<discard_mode, q_slots_avail, q_got>>

WaitForSlot(p, x) ==
  /\ q_slots_avail' = Append(q_slots_avail, p)
  /\ q_pc' = [q_pc EXCEPT ![p] = "wait"]
  /\ q_item' = [q_item EXCEPT ![p] = x]
  /\ UNCHANGED <<discard_mode, q_ring, q_items_avail, q_got>>

\* queue_enqueue.  A full queue in discard mode drops the element: no change.
Enqueue(p, x) ==
  /\ q_pc[p] = "out"
  /\ \/ ~Full(q_ring) /\ Insert(p, x)
     \/ Full(q_ring) /\ ~discard_mode /\ WaitForSlot(p, x)

Discard(p) ==
  /\ q_pc[p] = "out"
  /\ discard_mode /\ Full(q_ring)
  /\ UNCHANGED q_vars

\* queue_enqueue after cond_wait: the condition is tested again.
EnqueueWake(p) ==
  /\ q_pc[p] = "wait" /\ p \notin Queued(q_slots_avail)
  /\ \/ ~Full(q_ring) /\ Insert(p, q_item[p])
     \/ Full(q_ring) /\ WaitForSlot(p, q_item[p])

-----------------------------------------------------------------------------
\* The end of queue_dequeue: the front goes out and a producer is signalled.
Extract(c) ==
  /\ q_ring' = Take(q_ring)
  /\ q_got' = [q_got EXCEPT ![c] = Oldest(q_ring)]
  /\ q_slots_avail' = SignalFirst(q_slots_avail)
  /\ q_pc' = [q_pc EXCEPT ![c] = "out"]
  /\ UNCHANGED <<discard_mode, q_items_avail, q_item>>

WaitForItem(c) ==
  /\ q_items_avail' = Append(q_items_avail, c)
  /\ q_pc' = [q_pc EXCEPT ![c] = "wait"]
  /\ UNCHANGED <<discard_mode, q_ring, q_slots_avail, q_item, q_got>>

\* queue_dequeue.
Dequeue(c) ==
  /\ q_pc[c] = "out"
  /\ \/ ~Empty(q_ring) /\ Extract(c)
     \/ Empty(q_ring) /\ WaitForItem(c)

\* queue_dequeue after cond_wait: the condition is tested again.
DequeueWake(c) ==
  /\ q_pc[c] = "wait" /\ c \notin Queued(q_items_avail)
  /\ \/ ~Empty(q_ring) /\ Extract(c)
     \/ Empty(q_ring) /\ WaitForItem(c)

-----------------------------------------------------------------------------
QueueNext ==
  \/ \E p \in Producers, x \in Items : Enqueue(p, x)
  \/ \E p \in Producers : Discard(p) \/ EnqueueWake(p)
  \/ \E c \in Consumers : Dequeue(c) \/ DequeueWake(c)

QueueSpec == QueueInit /\ [][QueueNext]_q_vars

-----------------------------------------------------------------------------
(***************************************************************************)
(* Properties.                                                             *)
(***************************************************************************)
QueueTypeOK ==
  /\ discard_mode \in BOOLEAN
  /\ q_ring \in RingState(Items \cup {NoItem})
  /\ q_items_avail \in Seq(Consumers) /\ q_slots_avail \in Seq(Producers)
  /\ q_pc \in [Callers -> {"out", "wait"}]
  /\ q_item \in [Producers -> Items \cup {NoItem}]
  /\ q_got \in [Consumers -> Items \cup {NoItem}]

Woken(S, w) == {t \in S : q_pc[t] = "wait"} \ Queued(w)

\* No lost wake-up: as long as consumers sleep beside elements, or producers
\* beside free slots, a signalled one of the same kind is on its way.  A third
\* thread may take what the signal was for.
QueueNoLostWakeup ==
  /\ q_items_avail # << >> /\ ~Empty(q_ring) => Woken(Consumers, q_items_avail) # {}
  /\ q_slots_avail # << >> /\ ~Full(q_ring) => Woken(Producers, q_slots_avail) # {}

\* What queue.c keeps true of a queue with any number of callers, in both modes.
QueueIsSafe == QueueTypeOK /\ QueueNoLostWakeup

\* The ring is a bounded FIFO queue: nothing is lost, doubled, reordered or read
\* from a slot that holds no element, through every wrap-around.
Queue == INSTANCE Fifo WITH q <- Elements(q_ring), Takers <- Consumers, got <- q_got
QueueIsFifo == Queue!Spec
=============================================================================
