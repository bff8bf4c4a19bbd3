---------------------------- MODULE RWLockProofs ----------------------------
(***************************************************************************)
(* Proofs about filesys/rw-lock.c for any finite set of threads: IInv is   *)
(* inductive, and the safety properties of RWLock follow from it.          *)
(***************************************************************************)
EXTENDS RWLock, FiniteSetTheorems, TLAPS

\* Appending a waiter to a condition's list.
LEMMA QueuedAppend ==
  ASSUME NEW T, NEW q \in Seq(T), NEW t \in T
  PROVE  /\ Append(q, t) \in Seq(T)
         /\ Append(q, t) # << >>
         /\ Queued(Append(q, t)) = Queued(q) \cup {t}
         /\ NoDuplicates(q) /\ t \notin Queued(q) => NoDuplicates(Append(q, t))
<1>1. /\ Len(Append(q, t)) = Len(q) + 1
      /\ \A i \in 1..Len(q) : Append(q, t)[i] = q[i]
      /\ Append(q, t)[Len(q) + 1] = t
  OBVIOUS
<1>2. DOMAIN q = 1..Len(q) /\ DOMAIN Append(q, t) = 1..(Len(q) + 1)
  BY <1>1
<1>3. Queued(Append(q, t)) = Queued(q) \cup {t}
  <2>1. Queued(Append(q, t)) \subseteq Queued(q) \cup {t}
    BY <1>1, <1>2 DEF Queued
  <2>2. Queued(q) \subseteq Queued(Append(q, t))
    BY <1>1, <1>2 DEF Queued
  <2>3. t \in Queued(Append(q, t))
    <3>1. Len(q) + 1 \in DOMAIN Append(q, t)
      BY <1>2
    <3>2. QED  BY <3>1, <1>1 DEF Queued
  <2>4. QED  BY <2>1, <2>2, <2>3
<1>4. NoDuplicates(q) /\ t \notin Queued(q) => NoDuplicates(Append(q, t))
  BY <1>1, <1>2 DEF Queued, NoDuplicates
<1>5. Append(q, t) \in Seq(T)
  OBVIOUS
<1>5a. Append(q, t) # << >>
  BY <1>1, Len(<< >>) = 0, Len(q) \in Nat
<1>6. QED  BY <1>3, <1>4, <1>5, <1>5a

\* Signalling a condition's list.
LEMMA QueuedSignal ==
  ASSUME NEW T, NEW q \in Seq(T), NoDuplicates(q)
  PROVE  /\ SignalFirst(q) \in Seq(T)
         /\ Queued(SignalFirst(q)) \subseteq Queued(q)
         /\ NoDuplicates(SignalFirst(q))
         /\ q # << >> => \E h \in Queued(q) : h \notin Queued(SignalFirst(q))
<1>1. CASE q = << >>
  BY <1>1 DEF SignalFirst
<1>2. CASE q # << >>
  <2>1. /\ Len(q) >= 1
        /\ SignalFirst(q) = Tail(q)
        /\ Tail(q) \in Seq(T)
        /\ Len(Tail(q)) = Len(q) - 1
        /\ \A i \in 1..(Len(q) - 1) : Tail(q)[i] = q[i + 1]
    BY <1>2 DEF SignalFirst
  <2>2. DOMAIN q = 1..Len(q) /\ DOMAIN Tail(q) = 1..(Len(q) - 1) /\ Len(q) \in Nat
    BY <2>1
  <2>3. Queued(Tail(q)) \subseteq Queued(q)
    BY <2>1, <2>2 DEF Queued
  <2>4. NoDuplicates(Tail(q))
    BY <2>1, <2>2 DEF NoDuplicates
  <2>5. q[1] \in Queued(q)
    BY <2>1, <2>2 DEF Queued
  <2>6. q[1] \notin Queued(Tail(q))
    BY <2>1, <2>2 DEF NoDuplicates, Queued
  <2>7. QED  BY <2>1, <2>3, <2>4, <2>5, <2>6
<1>3. QED  BY <1>1, <1>2

LEMMA QueuedEmpty ==
  ASSUME NEW T
  PROVE  << >> \in Seq(T) /\ Queued(<< >>) = {} /\ NoDuplicates(<< >>)
BY DEF Queued, NoDuplicates

\* A thread that moves from one place to another leaves the first set of
\* threads, joins the second and leaves every other set alone.
LEMMA Move ==
  ASSUME pc \in [Threads -> PCs], NEW t \in Threads, NEW k \in PCs, NEW l \in PCs,
         k # l, pc[t] = k, pc' = [pc EXCEPT ![t] = l]
  PROVE  /\ pc' \in [Threads -> PCs]
         /\ At(k)' = At(k) \ {t}
         /\ At(l)' = At(l) \cup {t}
         /\ \A x \in PCs \ {k, l} : At(x)' = At(x)
         /\ \A x \in PCs : Cardinality(At(x)) \in Nat /\ Cardinality(At(x)') \in Nat
         /\ Cardinality(At(k)') = Cardinality(At(k)) - 1
         /\ Cardinality(At(l)') = Cardinality(At(l)) + 1
<1>1. /\ pc' \in [Threads -> PCs]
      /\ At(k)' = At(k) \ {t}
      /\ At(l)' = At(l) \cup {t}
      /\ \A x \in PCs \ {k, l} : At(x)' = At(x)
  BY DEF At
<1>2. \A x : IsFiniteSet(At(x)) /\ IsFiniteSet(At(x)')
  <2>1. \A x : At(x) \subseteq Threads /\ At(x)' \subseteq Threads
    BY DEF At
  <2>2. QED  BY <2>1, ThreadsAssumption, FS_Subset
<1>3. \A x \in PCs : Cardinality(At(x)) \in Nat /\ Cardinality(At(x)') \in Nat
  BY <1>2, FS_CardinalityType
<1>4. t \in At(k) /\ t \notin At(l)
  BY DEF At
<1>5. Cardinality(At(k) \ {t}) = Cardinality(At(k)) - 1
  BY <1>2, <1>4, FS_RemoveElement, Zenon
<1>6. Cardinality(At(l) \cup {t}) = Cardinality(At(l)) + 1
  BY <1>2, <1>4, FS_AddElement, Zenon
<1>7. QED  BY <1>1, <1>3, <1>5, <1>6

\* No thread is at x exactly when At(x) has cardinality 0, before and after a step.
LEMMA AtEmpty ==
  ASSUME NEW x
  PROVE  /\ Cardinality(At(x)) = 0 <=> At(x) = {}
         /\ Cardinality(At(x)') = 0 <=> At(x)' = {}
<1>1. At(x) \subseteq Threads /\ At(x)' \subseteq Threads
  BY DEF At
<1>2. IsFiniteSet(At(x)) /\ IsFiniteSet(At(x)')
  BY <1>1, ThreadsAssumption, FS_Subset
<1>3. QED  BY <1>2, FS_EmptySet

\* The initial lock satisfies the invariant.
LEMMA InitIInv == Init => IInv
<1> SUFFICES ASSUME Init PROVE IInv
  OBVIOUS
<1>1. /\ lock.num_readers = 0 /\ lock.num_writers = 0
      /\ lock.can_read = << >> /\ lock.can_write = << >>
      /\ lock.pending_readers = 0
      /\ ~lock.pending_writer /\ ~lock.reader_next
  BY DEF Init, rw_lock_init
<1>2. FieldsTyped
  BY QueuedEmpty DEF Init, rw_lock_init, FieldsTyped, RWLockState, PCs
<1>3. At("reading") = {} /\ At("writing") = {} /\ At("rwait") = {}
  BY DEF Init, At
<1>4. Cardinality({}) = 0
  BY FS_EmptySet
<1>5. QueuesHoldWaiters
  BY <1>1, QueuedEmpty DEF QueuesHoldWaiters
<1>6a. lock.num_writers <= 1
  BY <1>1
<1>6. CountsMatchHolders /\ PendingReadersCounted
  BY <1>1, <1>3, <1>4, Zenon DEF CountsMatchHolders, PendingReadersCounted
<1>7. WriterSleepsForAReason /\ ReaderSleepsForAReason
  BY <1>1, Zenon DEF WriterSleepsForAReason, ReaderSleepsForAReason
<1>8. PendingWriterIsReal /\ ReaderTurnIsTaken
  BY <1>1, Zenon DEF PendingWriterIsReal, ReaderTurnIsTaken
<1>9. TurnExcludesWriter
  BY <1>1, 0 = 0 DEF TurnExcludesWriter
<1>10. QED  BY <1>2, <1>5, <1>6, <1>6a, <1>7, <1>8, <1>9, Zenon DEF IInv

\* A non-empty condition list has a waiter in it.
LEMMA NonEmptyQueued ==
  ASSUME NEW T, NEW q \in Seq(T)
  PROVE  (q # << >>) <=> (Queued(q) # {})
<1>1. CASE q = << >>
  BY <1>1 DEF Queued
<1>2. CASE q # << >>
  <2>1. 1 \in DOMAIN q
    BY <1>2
  <2>2. QED  BY <1>2, <2>1 DEF Queued
<1>3. QED  BY <1>1, <1>2

-----------------------------------------------------------------------------
(***************************************************************************)
(* What each operation does to the fields of struct rw_lock.               *)
(***************************************************************************)
Fields(l, nr, nw, cr, cw, pr, pw, rn) ==
  /\ l \in RWLockState(Threads)
  /\ l.num_readers = nr
  /\ l.num_writers = nw
  /\ l.can_read = cr
  /\ l.can_write = cw
  /\ l.pending_readers = pr
  /\ l.pending_writer = pw
  /\ l.reader_next = rn

LEMMA FieldTypes ==
  ASSUME NEW l \in RWLockState(Threads)
  PROVE  /\ l.num_readers \in Int /\ l.num_writers \in Int
         /\ l.pending_readers \in Int
         /\ l.can_read \in Seq(Threads) /\ l.can_write \in Seq(Threads)
         /\ l.pending_writer \in BOOLEAN /\ l.reader_next \in BOOLEAN
BY DEF RWLockState

\* read_lock_acquire, when it returns without (further) waiting.
LEMMA ReadGrantedFields ==
  ASSUME NEW l \in RWLockState(Threads), NEW t \in Threads, ~MustWaitToRead(l)
  PROVE  /\ Fields(ReadAcquire(l, t), l.num_readers + 1, l.num_writers, l.can_read,
                   l.can_write, l.pending_readers, l.pending_writer, l.reader_next)
         /\ Fields(ReadResume(l, t), l.num_readers + 1, l.num_writers, l.can_read,
                   l.can_write, l.pending_readers - 1, l.pending_writer, l.reader_next)
<1> DEFINE m == [l EXCEPT !.pending_readers = @ - 1]
<1>1. l.num_readers + 1 \in Int /\ l.pending_readers - 1 \in Int
  BY DEF RWLockState
<1>2. m \in RWLockState(Threads)
  BY <1>1, Zenon DEF RWLockState
<1>3. ReadAcquire(l, t) \in RWLockState(Threads)
  BY <1>1, Zenon DEF ReadAcquire, RWLockState
<1>4. /\ m.num_readers = l.num_readers /\ m.num_writers = l.num_writers
      /\ m.can_read = l.can_read /\ m.can_write = l.can_write
      /\ m.pending_readers = l.pending_readers - 1
      /\ m.pending_writer = l.pending_writer /\ m.reader_next = l.reader_next
  BY DEF RWLockState
<1> HIDE DEF m
<1>5. ~MustWaitToRead(m)
  BY <1>4 DEF MustWaitToRead
<1>6. ReadAcquire(m, t) \in RWLockState(Threads)
  BY <1>1, <1>2, <1>4, <1>5, Zenon DEF ReadAcquire, RWLockState
<1>7. Fields(ReadAcquire(l, t), l.num_readers + 1, l.num_writers, l.can_read,
             l.can_write, l.pending_readers, l.pending_writer, l.reader_next)
  BY <1>3 DEF Fields, ReadAcquire, RWLockState
<1>8. Fields(ReadAcquire(m, t), l.num_readers + 1, l.num_writers, l.can_read,
             l.can_write, l.pending_readers - 1, l.pending_writer, l.reader_next)
  BY <1>2, <1>4, <1>5, <1>6 DEF Fields, ReadAcquire, RWLockState
<1>9. QED  BY <1>7, <1>8 DEF ReadResume, m

\* read_lock_acquire, when it calls cond_wait (again).
LEMMA ReadWaitsFields ==
  ASSUME NEW l \in RWLockState(Threads), NEW t \in Threads, MustWaitToRead(l)
  PROVE  /\ Fields(ReadAcquire(l, t), l.num_readers, l.num_writers,
                   Append(l.can_read, t), l.can_write, l.pending_readers + 1,
                   l.pending_writer, l.reader_next)
         /\ Fields(ReadResume(l, t), l.num_readers, l.num_writers,
                   Append(l.can_read, t), l.can_write, l.pending_readers,
                   l.pending_writer, l.reader_next)
<1> DEFINE m == [l EXCEPT !.pending_readers = @ - 1]
<1>1. /\ l.pending_readers + 1 \in Int /\ l.pending_readers - 1 \in Int
      /\ (l.pending_readers - 1) + 1 = l.pending_readers
      /\ Append(l.can_read, t) \in Seq(Threads)
  BY DEF RWLockState
<1>2. m \in RWLockState(Threads)
  BY <1>1, Zenon DEF RWLockState
<1>3. ReadAcquire(l, t) \in RWLockState(Threads)
  BY <1>1, Zenon DEF ReadAcquire, RWLockState
<1>4. /\ m.num_readers = l.num_readers /\ m.num_writers = l.num_writers
      /\ m.can_read = l.can_read /\ m.can_write = l.can_write
      /\ m.pending_readers = l.pending_readers - 1
      /\ m.pending_writer = l.pending_writer /\ m.reader_next = l.reader_next
  BY DEF RWLockState
<1> HIDE DEF m
<1>5. MustWaitToRead(m)
  BY <1>4 DEF MustWaitToRead
<1>5a. m.pending_readers + 1 \in Int /\ Append(m.can_read, t) \in Seq(Threads)
  BY <1>1, <1>4, <1>2 DEF RWLockState
<1>6. ReadAcquire(m, t) \in RWLockState(Threads)
  BY <1>2, <1>5, <1>5a, Zenon DEF ReadAcquire, RWLockState
<1>7. Fields(ReadAcquire(l, t), l.num_readers, l.num_writers,
             Append(l.can_read, t), l.can_write, l.pending_readers + 1,
             l.pending_writer, l.reader_next)
  BY <1>3 DEF Fields, ReadAcquire, RWLockState
<1>8. Fields(ReadAcquire(m, t), m.num_readers, m.num_writers,
             Append(m.can_read, t), m.can_write, m.pending_readers + 1,
             m.pending_writer, m.reader_next)
  BY <1>2, <1>5, <1>6 DEF Fields, ReadAcquire, RWLockState
<1>9. QED  BY <1>1, <1>4, <1>7, <1>8 DEF ReadResume, m

\* read_lock_release: the first waiting writer is signalled.
LEMMA ReadReleaseFields ==
  ASSUME NEW l \in RWLockState(Threads), NoDuplicates(l.can_write)
  PROVE  Fields(read_lock_release(l), l.num_readers - 1, l.num_writers, l.can_read,
                SignalFirst(l.can_write), l.pending_readers, l.pending_writer, FALSE)
<1>1. l.num_readers - 1 \in Int
  BY DEF RWLockState
<1>2. SignalFirst(l.can_write) \in Seq(Threads)
  BY QueuedSignal DEF RWLockState
<1>3. read_lock_release(l) \in RWLockState(Threads)
  BY <1>1, <1>2, Zenon DEF read_lock_release, RWLockState
<1>4. QED  BY <1>3 DEF Fields, read_lock_release, RWLockState

\* write_lock_acquire, when it returns without (further) waiting.
LEMMA WriteGrantedFields ==
  ASSUME NEW l \in RWLockState(Threads), NEW t \in Threads, ~MustWaitToWrite(l)
  PROVE  /\ Fields(WriteAcquire(l, t), l.num_readers, l.num_writers + 1, l.can_read,
                   l.can_write, l.pending_readers, l.pending_writer, l.reader_next)
         /\ Fields(WriteResume(l, t), l.num_readers, l.num_writers + 1, l.can_read,
                   l.can_write, l.pending_readers, FALSE, l.reader_next)
<1> DEFINE m == [l EXCEPT !.pending_writer = FALSE]
<1>1. l.num_writers + 1 \in Int
  BY DEF RWLockState
<1>2. m \in RWLockState(Threads)
  BY Zenon DEF RWLockState
<1>3. WriteAcquire(l, t) \in RWLockState(Threads)
  BY <1>1, Zenon DEF WriteAcquire, RWLockState
<1>4. /\ m.num_readers = l.num_readers /\ m.num_writers = l.num_writers
      /\ m.can_read = l.can_read /\ m.can_write = l.can_write
      /\ m.pending_readers = l.pending_readers
      /\ m.pending_writer = FALSE /\ m.reader_next = l.reader_next
  BY DEF RWLockState
<1> HIDE DEF m
<1>5. ~MustWaitToWrite(m)
  BY <1>4 DEF MustWaitToWrite
<1>6. WriteAcquire(m, t) \in RWLockState(Threads)
  BY <1>1, <1>2, <1>4, <1>5, Zenon DEF WriteAcquire, RWLockState
<1>7. Fields(WriteAcquire(l, t), l.num_readers, l.num_writers + 1, l.can_read,
             l.can_write, l.pending_readers, l.pending_writer, l.reader_next)
  BY <1>3 DEF Fields, WriteAcquire, RWLockState
<1>8. Fields(WriteAcquire(m, t), l.num_readers, l.num_writers + 1, l.can_read,
             l.can_write, l.pending_readers, FALSE, l.reader_next)
  BY <1>2, <1>4, <1>5, <1>6 DEF Fields, WriteAcquire, RWLockState
<1>9. QED  BY <1>7, <1>8, Zenon DEF WriteResume, m

\* write_lock_acquire, when it calls cond_wait (again).
LEMMA WriteWaitsFields ==
  ASSUME NEW l \in RWLockState(Threads), NEW t \in Threads, MustWaitToWrite(l)
  PROVE  /\ Fields(WriteAcquire(l, t), l.num_readers, l.num_writers, l.can_read,
                   Append(l.can_write, t), l.pending_readers, TRUE, l.reader_next)
         /\ Fields(WriteResume(l, t), l.num_readers, l.num_writers, l.can_read,
                   Append(l.can_write, t), l.pending_readers, TRUE, l.reader_next)
<1> DEFINE m == [l EXCEPT !.pending_writer = FALSE]
<1>1. Append(l.can_write, t) \in Seq(Threads)
  BY DEF RWLockState
<1>2. m \in RWLockState(Threads)
  BY Zenon DEF RWLockState
<1>3. WriteAcquire(l, t) \in RWLockState(Threads)
  BY <1>1, Zenon DEF WriteAcquire, RWLockState
<1>4. /\ m.num_readers = l.num_readers /\ m.num_writers = l.num_writers
      /\ m.can_read = l.can_read /\ m.can_write = l.can_write
      /\ m.pending_readers = l.pending_readers /\ m.reader_next = l.reader_next
  BY DEF RWLockState
<1> HIDE DEF m
<1>5. MustWaitToWrite(m) /\ Append(m.can_write, t) \in Seq(Threads)
  BY <1>1, <1>4 DEF MustWaitToWrite
<1>6. WriteAcquire(m, t) \in RWLockState(Threads)
  BY <1>2, <1>5, Zenon DEF WriteAcquire, RWLockState
<1>7. Fields(WriteAcquire(l, t), l.num_readers, l.num_writers, l.can_read,
             Append(l.can_write, t), l.pending_readers, TRUE, l.reader_next)
  BY <1>3 DEF Fields, WriteAcquire, RWLockState
<1>8. Fields(WriteAcquire(m, t), m.num_readers, m.num_writers, m.can_read,
             Append(m.can_write, t), m.pending_readers, TRUE, m.reader_next)
  BY <1>2, <1>5, <1>6 DEF Fields, WriteAcquire, RWLockState
<1>9. QED  BY <1>4, <1>7, <1>8, Zenon DEF WriteResume, m

\* write_lock_try_acquire, when it returns true.
LEMMA WriteTryFields ==
  ASSUME NEW l \in RWLockState(Threads)
  PROVE  Fields(write_lock_try_acquire(l), l.num_readers, l.num_writers + 1,
                l.can_read, l.can_write, l.pending_readers, l.pending_writer,
                l.reader_next)
<1>1. l.num_writers + 1 \in Int
  BY DEF RWLockState
<1>2. write_lock_try_acquire(l) \in RWLockState(Threads)
  BY <1>1, Zenon DEF write_lock_try_acquire, RWLockState
<1>3. QED  BY <1>2 DEF Fields, write_lock_try_acquire, RWLockState

\* write_lock_release: the pending readers' turn, or the next writer's.
LEMMA WriteReleaseFields ==
  ASSUME NEW l \in RWLockState(Threads), NoDuplicates(l.can_write)
  PROVE  /\ l.pending_readers = 0 =>
              Fields(write_lock_release(l), l.num_readers, l.num_writers - 1,
                     l.can_read, SignalFirst(l.can_write), l.pending_readers,
                     l.pending_writer, l.reader_next)
         /\ l.pending_readers # 0 =>
              Fields(write_lock_release(l), l.num_readers, l.num_writers - 1,
                     << >>, l.can_write, l.pending_readers,
                     l.pending_writer, TRUE)
<1>1. l.num_writers - 1 \in Int
  BY DEF RWLockState
<1>2. SignalFirst(l.can_write) \in Seq(Threads) /\ << >> \in Seq(Threads)
  BY QueuedSignal, QueuedEmpty DEF RWLockState
<1>3. write_lock_release(l) \in RWLockState(Threads)
  BY <1>1, <1>2, Zenon DEF write_lock_release, RWLockState
<1>4. QED  BY <1>3, Zenon DEF Fields, write_lock_release, RWLockState
-----------------------------------------------------------------------------
(***************************************************************************)
(* Each step of a thread preserves the invariant.                          *)
(***************************************************************************)

\* A thread that takes the lock shared.
LEMMA ReadGranted ==
  ASSUME IInv, NEW t \in Threads,
         NEW k \in {"out", "rwait"}, pc[t] = k, ~MustWaitToRead(lock),
         t \notin Queued(lock.can_read),
         Fields(lock', lock.num_readers + 1, lock.num_writers, lock.can_read,
                lock.can_write,
                IF k = "rwait" THEN lock.pending_readers - 1
                               ELSE lock.pending_readers,
                lock.pending_writer, lock.reader_next),
         pc' = [pc EXCEPT ![t] = "reading"]
  PROVE  IInv'
<1> USE DEF IInv
<1>1. lock \in RWLockState(Threads) /\ pc \in [Threads -> PCs]
  BY DEF FieldsTyped
<1>2. /\ lock.num_readers \in Int /\ lock.num_writers \in Int
      /\ lock.pending_readers \in Int
      /\ lock.can_read \in Seq(Threads) /\ lock.can_write \in Seq(Threads)
  BY <1>1, FieldTypes
<1>3. k \in PCs /\ "reading" \in PCs /\ k # "reading"
  BY DEF PCs
<1>4. /\ pc' \in [Threads -> PCs]
      /\ At(k)' = At(k) \ {t}
      /\ At("reading")' = At("reading") \cup {t}
      /\ \A x \in PCs \ {k, "reading"} : At(x)' = At(x)
      /\ \A x \in PCs : Cardinality(At(x)) \in Nat /\ Cardinality(At(x)') \in Nat
      /\ Cardinality(At(k)') = Cardinality(At(k)) - 1
      /\ Cardinality(At("reading")') = Cardinality(At("reading")) + 1
  BY <1>1, <1>3, Move, Zenon
<1>5. FieldsTyped'
  BY <1>4 DEF FieldsTyped, Fields
<1>6. CountsMatchHolders' /\ (lock.num_writers <= 1)'
  BY <1>1, <1>2, <1>4 DEF CountsMatchHolders, PCs, Fields
<1>7. PendingReadersCounted'
  BY <1>2, <1>4, Zenon DEF PendingReadersCounted, PCs, Fields
<1>8. QueuesHoldWaiters'
  BY <1>4 DEF QueuesHoldWaiters, PCs, Fields
<1>9. WriterSleepsForAReason'
  BY <1>2, <1>4 DEF WriterSleepsForAReason, CountsMatchHolders, PCs, Fields
<1>10. ReaderSleepsForAReason'
  BY <1>4 DEF ReaderSleepsForAReason, PCs, Fields
<1>11. PendingWriterIsReal'
  BY <1>4 DEF PendingWriterIsReal, PCs, Fields
<1>12. ReaderTurnIsTaken'
  BY <1>4 DEF ReaderTurnIsTaken
<1>13. TurnExcludesWriter'
  <2>1. CASE At("writing") = {}
    BY <1>4, <2>1 DEF TurnExcludesWriter, PCs
  <2>2. CASE At("writing") # {}
    <3>1. lock.num_writers > 0
      BY <1>4, <2>2, AtEmpty DEF CountsMatchHolders, PCs
    <3>2. lock.reader_next
      BY <3>1, <1>1 DEF MustWaitToRead, RWLockState
    <3>3. QED  BY <1>4, <3>2 DEF TurnExcludesWriter, PCs
  <2>3. QED  BY <2>1, <2>2
<1>14. QED  BY <1>5, <1>6, <1>7, <1>8, <1>9, <1>10, <1>11, <1>12, <1>13

\* A reader that calls cond_wait for the first time.
LEMMA ReadSleeps ==
  ASSUME IInv, NEW t \in Threads,
         pc[t] = "out", MustWaitToRead(lock),
         Fields(lock', lock.num_readers, lock.num_writers,
                Append(lock.can_read, t), lock.can_write,
                lock.pending_readers + 1, lock.pending_writer, lock.reader_next),
         pc' = [pc EXCEPT ![t] = "rwait"]
  PROVE  IInv'
<1> USE DEF IInv
<1>1. lock \in RWLockState(Threads) /\ pc \in [Threads -> PCs]
  BY DEF FieldsTyped
<1>2. /\ lock.num_readers \in Int /\ lock.num_writers \in Int
      /\ lock.pending_readers \in Int
      /\ lock.can_read \in Seq(Threads) /\ lock.can_write \in Seq(Threads)
  BY <1>1, FieldTypes
<1>3. "out" \in PCs /\ "rwait" \in PCs /\ "out" # "rwait"
  BY DEF PCs
<1>4. /\ pc' \in [Threads -> PCs]
      /\ At("out")' = At("out") \ {t}
      /\ At("rwait")' = At("rwait") \cup {t}
      /\ \A x \in PCs \ {"out", "rwait"} : At(x)' = At(x)
      /\ \A x \in PCs : Cardinality(At(x)) \in Nat /\ Cardinality(At(x)') \in Nat
      /\ Cardinality(At("out")') = Cardinality(At("out")) - 1
      /\ Cardinality(At("rwait")') = Cardinality(At("rwait")) + 1
  BY <1>1, <1>3, Move, Zenon
<1>5. FieldsTyped'
  BY <1>4 DEF FieldsTyped, Fields
<1>6. CountsMatchHolders' /\ (lock.num_writers <= 1)'
  BY <1>1, <1>2, <1>4 DEF CountsMatchHolders, PCs, Fields
<1>7. PendingReadersCounted'
  BY <1>2, <1>4 DEF PendingReadersCounted, PCs, Fields
<1>8. QueuesHoldWaiters'
  <2>1. t \notin Queued(lock.can_read)
    BY DEF QueuesHoldWaiters, At
  <2>2. /\ Queued(Append(lock.can_read, t)) = Queued(lock.can_read) \cup {t}
        /\ NoDuplicates(Append(lock.can_read, t))
    BY <1>2, <2>1, QueuedAppend DEF QueuesHoldWaiters
  <2>3. QED  BY <1>4, <2>2 DEF QueuesHoldWaiters, PCs, Fields
<1>9. WriterSleepsForAReason'
  BY <1>4 DEF WriterSleepsForAReason, WokenWriters, PCs, Fields
<1>10. ReaderSleepsForAReason'
  BY <1>1, <1>4 DEF ReaderSleepsForAReason, PendingWriterIsReal, MustWaitToRead, PCs, Fields
<1>11. PendingWriterIsReal'
  BY <1>4 DEF PendingWriterIsReal, PCs, Fields
<1>12. ReaderTurnIsTaken'
  BY DEF ReaderTurnIsTaken, MustWaitToRead, Fields
<1>13. TurnExcludesWriter'
  BY <1>4 DEF TurnExcludesWriter, PCs, Fields
<1>14. QED  BY <1>5, <1>6, <1>7, <1>8, <1>9, <1>10, <1>11, <1>12, <1>13

\* read_lock_release.
LEMMA ReadReleased ==
  ASSUME IInv, NEW t \in Threads,
         pc[t] = "reading",
         Fields(lock', lock.num_readers - 1, lock.num_writers, lock.can_read,
                SignalFirst(lock.can_write), lock.pending_readers,
                lock.pending_writer, FALSE),
         pc' = [pc EXCEPT ![t] = "out"]
  PROVE  IInv'
<1> USE DEF IInv
<1>1. lock \in RWLockState(Threads) /\ pc \in [Threads -> PCs]
  BY DEF FieldsTyped
<1>2. /\ lock.num_readers \in Int /\ lock.num_writers \in Int
      /\ lock.pending_readers \in Int
      /\ lock.can_read \in Seq(Threads) /\ lock.can_write \in Seq(Threads)
  BY <1>1, FieldTypes
<1>3. "out" \in PCs /\ "reading" \in PCs /\ "out" # "reading"
  BY DEF PCs
<1>4. /\ pc' \in [Threads -> PCs]
      /\ At("reading")' = At("reading") \ {t}
      /\ At("out")' = At("out") \cup {t}
      /\ \A x \in PCs \ {"reading", "out"} : At(x)' = At(x)
      /\ \A x \in PCs : Cardinality(At(x)) \in Nat /\ Cardinality(At(x)') \in Nat
      /\ Cardinality(At("reading")') = Cardinality(At("reading")) - 1
      /\ Cardinality(At("out")') = Cardinality(At("out")) + 1
  BY <1>1, <1>3, Move, Zenon
<1>5. FieldsTyped'
  BY <1>4 DEF FieldsTyped, Fields
<1>6. CountsMatchHolders' /\ (lock.num_writers <= 1)'
  BY <1>1, <1>2, <1>4 DEF CountsMatchHolders, PCs, Fields
<1>7. PendingReadersCounted'
  BY <1>2, <1>4 DEF PendingReadersCounted, PCs, Fields
<1>7a. /\ Queued(SignalFirst(lock.can_write)) \subseteq Queued(lock.can_write)
       /\ NoDuplicates(SignalFirst(lock.can_write))
       /\ lock.can_write # << >> =>
            \E h \in Queued(lock.can_write) : h \notin Queued(SignalFirst(lock.can_write))
  BY <1>2, QueuedSignal DEF QueuesHoldWaiters
<1>8. QueuesHoldWaiters'
  BY <1>4, <1>7a DEF QueuesHoldWaiters, PCs, Fields
<1>9. WriterSleepsForAReason'
  <2>1. SignalFirst(lock.can_write) # << >> => lock.can_write # << >>
    BY DEF SignalFirst
  <2>2. QED
    BY <1>4, <1>7a, <2>1 DEF WriterSleepsForAReason, WokenWriters, QueuesHoldWaiters, PCs, Fields
<1>10. ReaderSleepsForAReason'
  BY <1>4 DEF ReaderSleepsForAReason, PCs, Fields
<1>11. PendingWriterIsReal'
  BY <1>4 DEF PendingWriterIsReal, PCs, Fields
<1>12. ReaderTurnIsTaken'
  BY DEF ReaderTurnIsTaken, Fields
<1>13. TurnExcludesWriter'
  <2>2. lock.num_readers # 0
    BY <1>4 DEF CountsMatchHolders, PCs
  <2>3. QED  BY <1>4, <2>2 DEF TurnExcludesWriter, PCs, Fields
<1>14. QED  BY <1>5, <1>6, <1>7, <1>8, <1>9, <1>10, <1>11, <1>12, <1>13

\* A thread that takes the lock exclusively, by waiting its turn or by a try.
LEMMA WriteGranted ==
  ASSUME IInv, NEW t \in Threads,
         NEW k \in {"out", "wwait"}, pc[t] = k, NEW pw \in BOOLEAN,
         lock.num_readers <= 0, lock.num_writers <= 0,
         t \notin TryThreads => ~lock.reader_next,
         k = "out" => pw = lock.pending_writer,
         k = "wwait" => pw = FALSE,
         t \notin Queued(lock.can_write),
         Fields(lock', lock.num_readers, lock.num_writers + 1, lock.can_read,
                lock.can_write, lock.pending_readers, pw, lock.reader_next),
         pc' = [pc EXCEPT ![t] = "writing"]
  PROVE  IInv'
<1> USE DEF IInv
<1>1. lock \in RWLockState(Threads) /\ pc \in [Threads -> PCs]
  BY DEF FieldsTyped
<1>2. /\ lock.num_readers \in Int /\ lock.num_writers \in Int
      /\ lock.pending_readers \in Int
      /\ lock.can_read \in Seq(Threads) /\ lock.can_write \in Seq(Threads)
  BY <1>1, FieldTypes
<1>3. k \in PCs /\ "writing" \in PCs /\ k # "writing"
  BY DEF PCs
<1>4. /\ pc' \in [Threads -> PCs]
      /\ At(k)' = At(k) \ {t}
      /\ At("writing")' = At("writing") \cup {t}
      /\ \A x \in PCs \ {k, "writing"} : At(x)' = At(x)
      /\ \A x \in PCs : Cardinality(At(x)) \in Nat /\ Cardinality(At(x)') \in Nat
      /\ Cardinality(At(k)') = Cardinality(At(k)) - 1
      /\ Cardinality(At("writing")') = Cardinality(At("writing")) + 1
  BY <1>1, <1>3, Move, Zenon
<1>5. FieldsTyped'
  BY <1>4 DEF FieldsTyped, Fields
<1>6. CountsMatchHolders' /\ (lock.num_writers <= 1)'
  BY <1>1, <1>2, <1>4 DEF CountsMatchHolders, PCs, Fields
<1>7. PendingReadersCounted'
  BY <1>2, <1>4 DEF PendingReadersCounted, PCs, Fields
<1>8. QueuesHoldWaiters'
  BY <1>4 DEF QueuesHoldWaiters, PCs, Fields
<1>8a. lock'.num_writers > 0
  BY <1>4 DEF CountsMatchHolders, PCs, Fields
<1>9. WriterSleepsForAReason'
  BY <1>8a DEF WriterSleepsForAReason
<1>10. ReaderSleepsForAReason'
  BY <1>8a DEF ReaderSleepsForAReason
<1>11. PendingWriterIsReal'
  BY <1>4, Zenon DEF PendingWriterIsReal, PCs, Fields
<1>12. ReaderTurnIsTaken'
  BY <1>4 DEF ReaderTurnIsTaken, WokenReaders, PCs, Fields
<1>13. TurnExcludesWriter'
  <2>1. At("writing") = {}
    BY <1>4, AtEmpty DEF CountsMatchHolders, PCs
  <2>2. At("writing")' = {t}
    BY <1>4, <2>1
  <2>3. lock'.num_readers = 0
    BY <1>4 DEF CountsMatchHolders, PCs, Fields
  <2>4. CASE t \in TryThreads
    BY <2>2, <2>4 DEF TurnExcludesWriter
  <2>5. CASE t \notin TryThreads
    BY <2>3, <2>5 DEF TurnExcludesWriter, Fields
  <2>6. QED  BY <2>4, <2>5
<1>14. QED  BY <1>5, <1>6, <1>7, <1>8, <1>9, <1>10, <1>11, <1>12, <1>13

\* A writer that calls cond_wait for the first time.
LEMMA WriteSleeps ==
  ASSUME IInv, NEW t \in Threads,
         pc[t] = "out", MustWaitToWrite(lock),
         Fields(lock', lock.num_readers, lock.num_writers, lock.can_read,
                Append(lock.can_write, t), lock.pending_readers, TRUE,
                lock.reader_next),
         pc' = [pc EXCEPT ![t] = "wwait"]
  PROVE  IInv'
<1> USE DEF IInv
<1>1. lock \in RWLockState(Threads) /\ pc \in [Threads -> PCs]
  BY DEF FieldsTyped
<1>2. /\ lock.num_readers \in Int /\ lock.num_writers \in Int
      /\ lock.pending_readers \in Int
      /\ lock.can_read \in Seq(Threads) /\ lock.can_write \in Seq(Threads)
  BY <1>1, FieldTypes
<1>3. "out" \in PCs /\ "wwait" \in PCs /\ "out" # "wwait"
  BY DEF PCs
<1>4. /\ pc' \in [Threads -> PCs]
      /\ At("out")' = At("out") \ {t}
      /\ At("wwait")' = At("wwait") \cup {t}
      /\ \A x \in PCs \ {"out", "wwait"} : At(x)' = At(x)
      /\ \A x \in PCs : Cardinality(At(x)) \in Nat /\ Cardinality(At(x)') \in Nat
      /\ Cardinality(At("out")') = Cardinality(At("out")) - 1
      /\ Cardinality(At("wwait")') = Cardinality(At("wwait")) + 1
  BY <1>1, <1>3, Move, Zenon
<1>5. FieldsTyped'
  BY <1>4 DEF FieldsTyped, Fields
<1>6. CountsMatchHolders' /\ (lock.num_writers <= 1)'
  BY <1>1, <1>2, <1>4 DEF CountsMatchHolders, PCs, Fields
<1>7. PendingReadersCounted'
  BY <1>2, <1>4 DEF PendingReadersCounted, PCs, Fields
<1>8. QueuesHoldWaiters'
  <2>1. t \notin Queued(lock.can_write)
    BY DEF QueuesHoldWaiters, At
  <2>2. /\ Queued(Append(lock.can_write, t)) = Queued(lock.can_write) \cup {t}
        /\ NoDuplicates(Append(lock.can_write, t))
    BY <1>2, <2>1, QueuedAppend DEF QueuesHoldWaiters
  <2>3. QED  BY <1>4, <2>2 DEF QueuesHoldWaiters, PCs, Fields
<1>9. WriterSleepsForAReason'
  BY DEF WriterSleepsForAReason, MustWaitToWrite, Fields
<1>10. ReaderSleepsForAReason'
  BY <1>4 DEF ReaderSleepsForAReason
<1>11. PendingWriterIsReal'
  BY <1>4 DEF PendingWriterIsReal
<1>12. ReaderTurnIsTaken'
  BY <1>4 DEF ReaderTurnIsTaken, WokenReaders, PCs, Fields
<1>13. TurnExcludesWriter'
  BY <1>4 DEF TurnExcludesWriter, PCs, Fields
<1>14. QED  BY <1>5, <1>6, <1>7, <1>8, <1>9, <1>10, <1>11, <1>12, <1>13

\* write_lock_release with no reader pending: the next writer is signalled.
LEMMA WriteReleasedToWriter ==
  ASSUME IInv, NEW t \in Threads,
         pc[t] = "writing", lock.pending_readers = 0,
         Fields(lock', lock.num_readers, lock.num_writers - 1, lock.can_read,
                SignalFirst(lock.can_write), lock.pending_readers,
                lock.pending_writer, lock.reader_next),
         pc' = [pc EXCEPT ![t] = "out"]
  PROVE  IInv'
<1> USE DEF IInv
<1>1. lock \in RWLockState(Threads) /\ pc \in [Threads -> PCs]
  BY DEF FieldsTyped
<1>2. /\ lock.num_readers \in Int /\ lock.num_writers \in Int
      /\ lock.pending_readers \in Int
      /\ lock.can_read \in Seq(Threads) /\ lock.can_write \in Seq(Threads)
  BY <1>1, FieldTypes
<1>3. "out" \in PCs /\ "writing" \in PCs /\ "out" # "writing"
  BY DEF PCs
<1>4. /\ pc' \in [Threads -> PCs]
      /\ At("writing")' = At("writing") \ {t}
      /\ At("out")' = At("out") \cup {t}
      /\ \A x \in PCs \ {"writing", "out"} : At(x)' = At(x)
      /\ \A x \in PCs : Cardinality(At(x)) \in Nat /\ Cardinality(At(x)') \in Nat
      /\ Cardinality(At("writing")') = Cardinality(At("writing")) - 1
      /\ Cardinality(At("out")') = Cardinality(At("out")) + 1
  BY <1>1, <1>3, Move, Zenon
<1>5. FieldsTyped'
  BY <1>4 DEF FieldsTyped, Fields
<1>6. CountsMatchHolders' /\ (lock.num_writers <= 1)'
  BY <1>1, <1>2, <1>4 DEF CountsMatchHolders, PCs, Fields
<1>7. PendingReadersCounted'
  BY <1>2, <1>4 DEF PendingReadersCounted, PCs, Fields
<1>7a. /\ Queued(SignalFirst(lock.can_write)) \subseteq Queued(lock.can_write)
       /\ NoDuplicates(SignalFirst(lock.can_write))
       /\ lock.can_write # << >> =>
            \E h \in Queued(lock.can_write) : h \notin Queued(SignalFirst(lock.can_write))
  BY <1>2, QueuedSignal DEF QueuesHoldWaiters
<1>8. QueuesHoldWaiters'
  BY <1>4, <1>7a DEF QueuesHoldWaiters, PCs, Fields
<1>9. WriterSleepsForAReason'
  <2>1. SignalFirst(lock.can_write) # << >> => lock.can_write # << >>
    BY DEF SignalFirst
  <2>2. QED
    BY <1>4, <1>7a, <2>1 DEF WriterSleepsForAReason, WokenWriters, QueuesHoldWaiters, PCs, Fields
<1>10. ReaderSleepsForAReason'
  <2>1. IsFiniteSet(At("rwait"))
    BY ThreadsAssumption, FS_Subset DEF At
  <2>2. At("rwait") = {}
    BY <2>1, FS_EmptySet DEF PendingReadersCounted
  <2>3. lock.can_read = << >>
    BY <1>2, <2>2, NonEmptyQueued DEF QueuesHoldWaiters
  <2>4. QED  BY <2>3 DEF ReaderSleepsForAReason, Fields
<1>11. PendingWriterIsReal'
  BY <1>4 DEF PendingWriterIsReal, PCs, Fields
<1>12. ReaderTurnIsTaken'
  BY <1>4 DEF ReaderTurnIsTaken, WokenReaders, PCs, Fields
<1>13. TurnExcludesWriter'
  BY <1>2, <1>4 DEF TurnExcludesWriter, CountsMatchHolders, PCs, Fields
<1>14. QED  BY <1>5, <1>6, <1>7, <1>8, <1>9, <1>10, <1>11, <1>12, <1>13

\* write_lock_release with readers pending: they are all woken for their turn.
LEMMA WriteReleasedToReaders ==
  ASSUME IInv, NEW t \in Threads,
         pc[t] = "writing", lock.pending_readers # 0,
         Fields(lock', lock.num_readers, lock.num_writers - 1, << >>,
                lock.can_write, lock.pending_readers, lock.pending_writer, TRUE),
         pc' = [pc EXCEPT ![t] = "out"]
  PROVE  IInv'
<1> USE DEF IInv
<1>1. lock \in RWLockState(Threads) /\ pc \in [Threads -> PCs]
  BY DEF FieldsTyped
<1>2. /\ lock.num_readers \in Int /\ lock.num_writers \in Int
      /\ lock.pending_readers \in Int
      /\ lock.can_read \in Seq(Threads) /\ lock.can_write \in Seq(Threads)
  BY <1>1, FieldTypes
<1>3. "out" \in PCs /\ "writing" \in PCs /\ "out" # "writing"
  BY DEF PCs
<1>4. /\ pc' \in [Threads -> PCs]
      /\ At("writing")' = At("writing") \ {t}
      /\ At("out")' = At("out") \cup {t}
      /\ \A x \in PCs \ {"writing", "out"} : At(x)' = At(x)
      /\ \A x \in PCs : Cardinality(At(x)) \in Nat /\ Cardinality(At(x)') \in Nat
      /\ Cardinality(At("writing")') = Cardinality(At("writing")) - 1
      /\ Cardinality(At("out")') = Cardinality(At("out")) + 1
  BY <1>1, <1>3, Move, Zenon
<1>5. FieldsTyped'
  BY <1>4 DEF FieldsTyped, Fields
<1>6. CountsMatchHolders' /\ (lock.num_writers <= 1)'
  BY <1>1, <1>2, <1>4 DEF CountsMatchHolders, PCs, Fields
<1>7. PendingReadersCounted'
  BY <1>2, <1>4 DEF PendingReadersCounted, PCs, Fields
<1>8. QueuesHoldWaiters'
  BY <1>4, QueuedEmpty DEF QueuesHoldWaiters, PCs, Fields
<1>9. WriterSleepsForAReason'
  BY DEF WriterSleepsForAReason, Fields
<1>10. ReaderSleepsForAReason'
  BY DEF ReaderSleepsForAReason, Fields
<1>11. PendingWriterIsReal'
  BY <1>4 DEF PendingWriterIsReal, PCs, Fields
<1>12. ReaderTurnIsTaken'
  <2>1. At("rwait") # {}
    BY FS_EmptySet, Zenon DEF PendingReadersCounted
  <2>2. WokenReaders' = At("rwait")
    BY <1>4, QueuedEmpty DEF WokenReaders, PCs, Fields
  <2>3. QED  BY <2>1, <2>2 DEF ReaderTurnIsTaken
<1>13. TurnExcludesWriter'
  <2>1. At("writing")' = {}
    BY <1>4, AtEmpty DEF CountsMatchHolders, PCs
  <2>2. QED  BY <2>1 DEF TurnExcludesWriter
<1>14. QED  BY <1>5, <1>6, <1>7, <1>8, <1>9, <1>10, <1>11, <1>12, <1>13

\* A signalled reader that has to wait again.
LEMMA ReadSleepsAgain ==
  ASSUME IInv, NEW t \in WokenReaders, MustWaitToRead(lock),
         Fields(lock', lock.num_readers, lock.num_writers,
                Append(lock.can_read, t), lock.can_write, lock.pending_readers,
                lock.pending_writer, lock.reader_next),
         pc' = pc
  PROVE  IInv'
<1> USE DEF IInv
<1>1. /\ t \in Threads /\ t \in At("rwait") /\ t \notin Queued(lock.can_read)
      /\ lock \in RWLockState(Threads)
  BY DEF WokenReaders, At, FieldsTyped
<1>2. lock.can_read \in Seq(Threads)
  BY <1>1, FieldTypes
<1>3. \A x : At(x)' = At(x)
  BY DEF At
<1>4. FieldsTyped' /\ CountsMatchHolders' /\ (lock.num_writers <= 1)' /\ PendingReadersCounted'
  BY <1>3 DEF FieldsTyped, CountsMatchHolders, PendingReadersCounted, Fields
<1>5. QueuesHoldWaiters'
  <2>1. /\ Queued(Append(lock.can_read, t)) = Queued(lock.can_read) \cup {t}
        /\ NoDuplicates(Append(lock.can_read, t))
    BY <1>1, <1>2, QueuedAppend DEF QueuesHoldWaiters
  <2>2. QED  BY <1>1, <1>3, <2>1 DEF QueuesHoldWaiters, Fields
<1>6. WriterSleepsForAReason'
  BY <1>3 DEF WriterSleepsForAReason, WokenWriters, Fields
<1>7. ReaderSleepsForAReason' /\ PendingWriterIsReal'
  BY <1>3 DEF ReaderSleepsForAReason, PendingWriterIsReal, MustWaitToRead, Fields
<1>8. ReaderTurnIsTaken' /\ TurnExcludesWriter'
  BY <1>1, <1>3 DEF ReaderTurnIsTaken, WokenReaders, TurnExcludesWriter, MustWaitToRead, Fields
<1>9. QED  BY <1>4, <1>5, <1>6, <1>7, <1>8

\* A signalled writer that has to wait again.
LEMMA WriteSleepsAgain ==
  ASSUME IInv, NEW t \in WokenWriters, MustWaitToWrite(lock),
         Fields(lock', lock.num_readers, lock.num_writers, lock.can_read,
                Append(lock.can_write, t), lock.pending_readers, TRUE,
                lock.reader_next),
         pc' = pc
  PROVE  IInv'
<1> USE DEF IInv
<1>1. /\ t \in Threads /\ t \in At("wwait") /\ t \notin Queued(lock.can_write)
      /\ lock \in RWLockState(Threads)
  BY DEF WokenWriters, At, FieldsTyped
<1>2. lock.can_write \in Seq(Threads)
  BY <1>1, FieldTypes
<1>3. \A x : At(x)' = At(x)
  BY DEF At
<1>4. FieldsTyped' /\ CountsMatchHolders' /\ (lock.num_writers <= 1)' /\ PendingReadersCounted'
  BY <1>3 DEF FieldsTyped, CountsMatchHolders, PendingReadersCounted, Fields
<1>5. QueuesHoldWaiters'
  <2>1. /\ Queued(Append(lock.can_write, t)) = Queued(lock.can_write) \cup {t}
        /\ NoDuplicates(Append(lock.can_write, t))
    BY <1>1, <1>2, QueuedAppend DEF QueuesHoldWaiters
  <2>2. QED  BY <1>1, <1>3, <2>1 DEF QueuesHoldWaiters, Fields
<1>6. WriterSleepsForAReason'
  BY DEF WriterSleepsForAReason, MustWaitToWrite, Fields
<1>7. ReaderSleepsForAReason' /\ PendingWriterIsReal'
  BY <1>1, <1>3 DEF ReaderSleepsForAReason, PendingWriterIsReal
<1>8. ReaderTurnIsTaken' /\ TurnExcludesWriter'
  BY <1>3 DEF ReaderTurnIsTaken, WokenReaders, TurnExcludesWriter, Fields
<1>9. QED  BY <1>4, <1>5, <1>6, <1>7, <1>8

-----------------------------------------------------------------------------
LEMMA NextIInv ==
  ASSUME IInv, [Next]_vars
  PROVE  IInv'
<1>1. lock \in RWLockState(Threads) /\ pc \in [Threads -> PCs]
  BY DEF IInv, FieldsTyped
<1>1a. NoDuplicates(lock.can_write)
  BY DEF IInv, QueuesHoldWaiters
<1>1b. \A u \in Threads : pc[u] = "out" =>
         u \notin Queued(lock.can_read) /\ u \notin Queued(lock.can_write)
  BY DEF IInv, QueuesHoldWaiters, At
<1>1c. lock.num_readers \in Int /\ lock.num_writers \in Int /\ lock.pending_writer \in BOOLEAN
  BY <1>1, FieldTypes
<1>2. CASE UNCHANGED vars
  BY <1>2 DEF vars, IInv, FieldsTyped, CountsMatchHolders, PendingReadersCounted, At,
     QueuesHoldWaiters, WriterSleepsForAReason, ReaderSleepsForAReason,
     PendingWriterIsReal, ReaderTurnIsTaken, TurnExcludesWriter, WokenReaders,
     WokenWriters
<1>3. ASSUME NEW t \in Threads, Step(t)
      PROVE  IInv'
  <2>1. CASE ReadLock(t)
    <3>1. CASE MustWaitToRead(lock)
      BY <1>1, <2>1, <3>1, ReadWaitsFields, ReadSleeps, Zenon DEF ReadLock, Goto
    <3>2. CASE ~MustWaitToRead(lock)
      <4>1. "out" \in {"out", "rwait"} /\ "out" # "rwait"
        OBVIOUS
      <4>2. QED
        BY <1>1, <1>1b, <2>1, <3>2, <4>1, ReadGrantedFields, ReadGranted, Zenon
        DEF ReadLock, Goto
    <3>3. QED  BY <3>1, <3>2
  <2>2. CASE ReadWake(t)
    <3>0. t \in WokenReaders /\ pc[t] = "rwait" /\ t \notin Queued(lock.can_read)
      BY <2>2 DEF ReadWake, WokenReaders, At
    <3>1. CASE MustWaitToRead(lock)
      <4>1. pc' = pc
        BY <1>1, <2>2, <3>0, <3>1 DEF ReadWake, Goto
      <4>2. QED
        BY <1>1, <2>2, <3>0, <3>1, <4>1, ReadWaitsFields, ReadSleepsAgain DEF ReadWake
    <3>2. CASE ~MustWaitToRead(lock)
      <4>1. "rwait" \in {"out", "rwait"}
        OBVIOUS
      <4>2. QED
        BY <1>1, <2>2, <3>0, <3>2, <4>1, ReadGrantedFields, ReadGranted, Zenon
        DEF ReadWake, Goto
    <3>3. QED  BY <3>1, <3>2
  <2>3. CASE ReadUnlock(t)
    BY <1>1, <1>1a, <2>3, ReadReleaseFields, ReadReleased, Zenon DEF ReadUnlock, Goto
  <2>4. CASE WriteLock(t)
    <3>1. CASE MustWaitToWrite(lock)
      BY <1>1, <2>4, <3>1, WriteWaitsFields, WriteSleeps, Zenon DEF WriteLock, Goto
    <3>2. CASE ~MustWaitToWrite(lock)
      <4>1. "out" \in {"out", "wwait"} /\ "out" # "wwait"
        OBVIOUS
      <4>2. lock.num_readers <= 0 /\ lock.num_writers <= 0 /\ ~lock.reader_next
        BY <1>1c, <3>2 DEF MustWaitToWrite
      <4>3. QED
        BY <1>1, <1>1b, <1>1c, <2>4, <3>2, <4>1, <4>2, WriteGrantedFields, WriteGranted, Zenon
        DEF WriteLock, Goto
    <3>3. QED  BY <3>1, <3>2
  <2>5. CASE WriteWake(t)
    <3>0. t \in WokenWriters /\ pc[t] = "wwait" /\ t \notin Queued(lock.can_write)
      BY <2>5 DEF WriteWake, WokenWriters, At
    <3>1. CASE MustWaitToWrite(lock)
      <4>1. pc' = pc
        BY <1>1, <2>5, <3>0, <3>1 DEF WriteWake, Goto
      <4>2. QED
        BY <1>1, <2>5, <3>0, <3>1, <4>1, WriteWaitsFields, WriteSleepsAgain, Zenon DEF WriteWake
    <3>2. CASE ~MustWaitToWrite(lock)
      <4>1. "wwait" \in {"out", "wwait"} /\ "wwait" # "out"
        OBVIOUS
      <4>2. lock.num_readers <= 0 /\ lock.num_writers <= 0 /\ ~lock.reader_next
        BY <1>1c, <3>2 DEF MustWaitToWrite
      <4>3. QED
        BY <1>1, <2>5, <3>0, <3>2, <4>1, <4>2, WriteGrantedFields, WriteGranted, Zenon
        DEF WriteWake, Goto
    <3>3. QED  BY <3>1, <3>2
  <2>6. CASE WriteTry(t)
    <3>1. "out" \in {"out", "wwait"} /\ "out" # "wwait"
      OBVIOUS
    <3>2. lock.num_readers <= 0 /\ lock.num_writers <= 0
      BY <1>1c, <2>6 DEF WriteTry, TrySucceeds
    <3>3. t \in TryThreads
      BY <2>6 DEF WriteTry
    <3>4. QED
      BY <1>1, <1>1b, <1>1c, <2>6, <3>1, <3>2, <3>3, WriteTryFields, WriteGranted, Zenon
      DEF WriteTry, Goto
  <2>7. CASE WriteUnlock(t)
    <3>1. CASE lock.pending_readers = 0
      BY <1>1, <1>1a, <2>7, <3>1, WriteReleaseFields, WriteReleasedToWriter, Zenon
      DEF WriteUnlock, Goto
    <3>2. CASE lock.pending_readers # 0
      BY <1>1, <1>1a, <2>7, <3>2, WriteReleaseFields, WriteReleasedToReaders, Zenon
      DEF WriteUnlock, Goto
    <3>3. QED  BY <3>1, <3>2
  <2>8. QED
    BY <1>3, <2>1, <2>2, <2>3, <2>4, <2>5, <2>6, <2>7 DEF Step
<1>4. QED  BY <1>2, <1>3 DEF Next

-----------------------------------------------------------------------------
(***************************************************************************)
(* The theorems.                                                           *)
(***************************************************************************)

\* IInv holds in every reachable state, whatever the set of threads.
THEOREM Invariance == Spec => []IInv
<1>1. Init => IInv
  BY InitIInv
<1>2. IInv /\ [Next]_vars => IInv'
  BY NextIInv
<1>3. QED  BY <1>1, <1>2, PTL DEF Spec

\* The fields of struct rw_lock and the threads' places keep their types.
THEOREM TypeCorrect == Spec => []TypeOK
<1>1. IInv => TypeOK
  <2>1. \A x : IsFiniteSet(At(x))
    BY ThreadsAssumption, FS_Subset DEF At
  <2>2. \A x : Cardinality(At(x)) \in Nat
    BY <2>1, FS_CardinalityType
  <2>3. QED  BY <2>2 DEF IInv, TypeOK, CountsMatchHolders, PendingReadersCounted
<1>2. QED  BY <1>1, Invariance, PTL

\* The two turn flags are never left set with nobody to take the turn: a set
\* pending_writer has a waiting writer, a set reader_next a reader on its way.
THEOREM TurnsAreTaken == Spec => []FlagsAreReal
<1>1. IInv => FlagsAreReal
  BY DEF IInv, FlagsAreReal
<1>2. QED  BY <1>1, Invariance, PTL

\* num_readers and num_writers always count the holders.
THEOREM CountsAreRight == Spec => []CountsMatchHolders
<1>1. IInv => CountsMatchHolders
  BY DEF IInv
<1>2. QED  BY <1>1, Invariance, PTL

\* At most one thread holds the lock exclusively, tries included.
THEOREM AtMostOneWriter == Spec => []OneWriter
<1>1. IInv => OneWriter
  BY DEF IInv, CountsMatchHolders, OneWriter
<1>2. QED  BY <1>1, Invariance, PTL

\* A writer that came in through write_lock_acquire excludes readers, for any set
\* of threads that also call write_lock_try_acquire.
THEOREM BlockingWritersAreAlone == Spec => []BlockingExclusion
<1>1. IInv => BlockingExclusion
  <2>1. IsFiniteSet(At("reading"))
    BY ThreadsAssumption, FS_Subset DEF At
  <2>2. Cardinality(At("reading")) = 0 => At("reading") = {}
    BY <2>1, FS_EmptySet
  <2>3. QED
    BY <2>2 DEF IInv, CountsMatchHolders, TurnExcludesWriter, BlockingExclusion
<1>2. QED  BY <1>1, Invariance, PTL

\* Without threads that try, the lock is exclusive.
THEOREM ExclusionWithoutTries ==
  ASSUME TryThreads = {}
  PROVE  Spec => []Exclusion
<1>1. BlockingExclusion => Exclusion
  BY DEF BlockingExclusion, Exclusion
<1>2. QED  BY <1>1, BlockingWritersAreAlone, PTL

\* No thread sleeps on a lock that nobody holds and nobody is about to take.
THEOREM WakeupsAreNotLost == Spec => []NoLostWakeup
<1>1. IInv => NoLostWakeup
  <2> SUFFICES ASSUME IInv PROVE NoLostWakeup
    OBVIOUS
  <2> USE DEF IInv
  <2>1. /\ lock.num_readers \in Int /\ lock.num_writers \in Int
        /\ lock.can_read \in Seq(Threads) /\ lock.can_write \in Seq(Threads)
    BY FieldTypes DEF FieldsTyped
  <2>2. /\ lock.num_readers > 0 => At("reading") # {}
        /\ lock.num_writers > 0 => At("writing") # {}
    BY FS_EmptySet DEF CountsMatchHolders
  <2>3. lock.can_write # << >> =>
          At("reading") \cup At("writing") \cup WokenReaders \cup WokenWriters # {}
    BY <2>2 DEF WriterSleepsForAReason, ReaderTurnIsTaken
  <2>4. At("wwait") # {} => WokenWriters # {} \/ lock.can_write # << >>
    BY <2>1, NonEmptyQueued DEF WokenWriters
  <2>5. lock.can_read # << >> =>
          At("reading") \cup At("writing") \cup WokenReaders \cup WokenWriters # {}
    BY <2>2, <2>3, <2>4 DEF ReaderSleepsForAReason
  <2>6. QED
    BY <2>1, <2>3, <2>5, NonEmptyQueued DEF NoLostWakeup
<1>2. QED  BY <1>1, Invariance, PTL
=============================================================================
