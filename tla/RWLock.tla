------------------------------- MODULE RWLock -------------------------------
(***************************************************************************)
(* One lock of filesys/rw-lock.c and the threads that use it.  Each thread *)
(* is outside, holding the lock shared or exclusively, or inside           *)
(* cond_wait; all the interleavings of the calls are explored.             *)
(*                                                                         *)
(* TryThreads are the threads that also call write_lock_try_acquire; in    *)
(* the kernel these are the ones that evict or flush blocks (cache.c).     *)
(***************************************************************************)
EXTENDS RWLockOps, FiniteSets

CONSTANTS Threads,    \* the threads that use the lock
          TryThreads  \* those that call write_lock_try_acquire

ASSUME ThreadsAssumption ==
  /\ IsFiniteSet(Threads)
  /\ TryThreads \subseteq Threads

VARIABLES lock,  \* struct rw_lock
          pc     \* where each thread is

vars == <<lock, pc>>

PCs == {"out", "rwait", "reading", "wwait", "writing"}

FieldsTyped ==
  /\ lock \in RWLockState(Threads)
  /\ pc \in [Threads -> PCs]

\* The counters of struct rw_lock are ints; none of them goes negative.
TypeOK ==
  /\ FieldsTyped
  /\ lock.num_readers \in Nat
  /\ lock.num_writers \in Nat
  /\ lock.pending_readers \in Nat

At(l) == {t \in Threads : pc[t] = l}

\* Signalled waiters: they have left the condition's list and wait for
\* monitor_lock only.
WokenReaders == At("rwait") \ Queued(lock.can_read)
WokenWriters == At("wwait") \ Queued(lock.can_write)

Init ==
  /\ lock = rw_lock_init
  /\ pc = [t \in Threads |-> "out"]

Goto(t, l) == pc' = [pc EXCEPT ![t] = l]

-----------------------------------------------------------------------------
ReadLock(t) ==
  /\ pc[t] = "out"
  /\ lock' = ReadAcquire(lock, t)
  /\ Goto(t, IF MustWaitToRead(lock) THEN "rwait" ELSE "reading")

\* pending_readers is decremented before the loop condition is tested, and the
\* condition does not read it.
ReadWake(t) ==
  /\ t \in WokenReaders
  /\ lock' = ReadResume(lock, t)
  /\ Goto(t, IF MustWaitToRead(lock) THEN "rwait" ELSE "reading")

ReadUnlock(t) ==
  /\ pc[t] = "reading"
  /\ lock' = read_lock_release(lock)
  /\ Goto(t, "out")

WriteLock(t) ==
  /\ pc[t] = "out"
  /\ lock' = WriteAcquire(lock, t)
  /\ Goto(t, IF MustWaitToWrite(lock) THEN "wwait" ELSE "writing")

WriteWake(t) ==
  /\ t \in WokenWriters
  /\ lock' = WriteResume(lock, t)
  /\ Goto(t, IF MustWaitToWrite(lock) THEN "wwait" ELSE "writing")

WriteTry(t) ==
  /\ t \in TryThreads
  /\ pc[t] = "out"
  /\ TrySucceeds(lock)
  /\ lock' = write_lock_try_acquire(lock)
  /\ Goto(t, "writing")

WriteUnlock(t) ==
  /\ pc[t] = "writing"
  /\ lock' = write_lock_release(lock)
  /\ Goto(t, "out")

Step(t) ==
  \/ ReadLock(t)
  \/ ReadWake(t)
  \/ ReadUnlock(t)
  \/ WriteLock(t)
  \/ WriteWake(t)
  \/ WriteTry(t)
  \/ WriteUnlock(t)

Next == \E t \in Threads : Step(t)

Spec == Init /\ [][Next]_vars

\* A signalled thread is runnable and the scheduler picks every runnable thread
\* eventually; a holder works on its block for a bounded time and puts it back.
\* Nobody is obliged to ask for the lock.
Fairness ==
  \A t \in Threads : /\ WF_vars(ReadWake(t) \/ WriteWake(t))
                     /\ WF_vars(ReadUnlock(t) \/ WriteUnlock(t))

FairSpec == Spec /\ Fairness

-----------------------------------------------------------------------------
(***************************************************************************)
(* Properties.                                                             *)
(***************************************************************************)

\* num_readers and num_writers count the threads that hold the lock, over every
\* interleaving of acquires, wake-ups, tries and releases (the counters are
\* moved by the threads themselves, some of them after sleeping in cond_wait).
CountsMatchHolders ==
  /\ lock.num_readers = Cardinality(At("reading"))
  /\ lock.num_writers = Cardinality(At("writing"))

\* At most one thread is a writer: the ASSERTs of write_lock_acquire and
\* write_lock_release never fail, for blocking and for trying writers.
OneWriter == Cardinality(At("writing")) <= 1

\* Exclusive access (comments of read_lock_acquire and write_lock_acquire): no
\* reader holds the lock beside a writer.
Exclusion == At("writing") = {} \/ At("reading") = {}

\* A writer that came in through write_lock_acquire is never joined by a reader,
\* whatever the threads that try do before and after.
BlockingExclusion ==
  At("writing") \ TryThreads # {} => At("reading") = {}

\* No lost wake-up: a thread can only be asleep in a condition's list while some
\* thread holds the lock or has been signalled and will run.
NoLostWakeup ==
  Queued(lock.can_read) \cup Queued(lock.can_write) # {} =>
    At("reading") \cup At("writing") \cup WokenReaders \cup WokenWriters # {}

\* pending_writer is one flag for all writers, cleared by each that wakes up: it
\* is never left set with no writer waiting, which would shut readers out of a
\* lock nobody wants.
PendingWriterIsReal == lock.pending_writer => At("wwait") # {}

\* reader_next is the readers' turn: while it is set there is a reader to take
\* it, so writers that wait because of it are not shut out for good.
ReaderTurnIsTaken == lock.reader_next => At("reading") \cup WokenReaders # {}

\* Neither of the two flags of struct rw_lock that keep threads out is stale.
FlagsAreReal == PendingWriterIsReal /\ ReaderTurnIsTaken

\* Turn taking: writers that keep coming do not shut readers out, nor readers
\* writers (reports/proj4_file_sys.md: "To avoid monopolizing the lock to one
\* group (and starving out the other)").
NoGroupStarves ==
  /\ At("rwait") # {} ~> At("reading") # {}
  /\ At("wwait") # {} ~> At("writing") # {}

-----------------------------------------------------------------------------
(***************************************************************************)
(* The inductive invariant behind the safety properties.                   *)
(***************************************************************************)

\* pending_readers counts the readers inside cond_wait, signalled or not.
PendingReadersCounted == lock.pending_readers = Cardinality(At("rwait"))

NoDuplicates(q) == \A i, j \in DOMAIN q : q[i] = q[j] => i = j

\* A condition's list holds threads that called cond_wait on it, each once.
QueuesHoldWaiters ==
  /\ Queued(lock.can_read) \subseteq At("rwait")
  /\ Queued(lock.can_write) \subseteq At("wwait")
  /\ NoDuplicates(lock.can_read)
  /\ NoDuplicates(lock.can_write)

\* Why a sleeping writer will be signalled: a holder's release does it, a
\* signalled writer becomes a holder, or it is the readers' turn.
WriterSleepsForAReason ==
  lock.can_write # << >> =>
    \/ lock.num_readers > 0
    \/ lock.num_writers > 0
    \/ lock.reader_next
    \/ WokenWriters # {}

\* Why a sleeping reader will be signalled: a writer's release does it.
ReaderSleepsForAReason ==
  lock.can_read # << >> => lock.num_writers > 0 \/ At("wwait") # {}

\* The readers' turn and a writer that does not try exclude each other.
TurnExcludesWriter ==
  At("writing") \ TryThreads # {} => ~lock.reader_next /\ lock.num_readers = 0

IInv ==
  /\ FieldsTyped
  /\ CountsMatchHolders
  /\ lock.num_writers <= 1
  /\ PendingReadersCounted
  /\ QueuesHoldWaiters
  /\ WriterSleepsForAReason
  /\ ReaderSleepsForAReason
  /\ PendingWriterIsReal
  /\ ReaderTurnIsTaken
  /\ TurnExcludesWriter
=============================================================================
