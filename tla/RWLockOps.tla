----------------------------- MODULE RWLockOps -----------------------------
(***************************************************************************)
(* The shared/exclusive lock of filesys/rw-lock.c as pure operators on the *)
(* fields of struct rw_lock.  Every operation of the file runs with the    *)
(* lock's monitor_lock held from its first to its last line, except inside *)
(* cond_wait, so an operation is one function from lock states to lock     *)
(* states and a call that waits is two: the part up to cond_wait and the   *)
(* part after it, which tests the loop condition again.                    *)
(*                                                                         *)
(* can_read and can_write are the FIFO waiter lists of the two condition   *)
(* variables.  A thread that called cond_wait and is no longer in the list *)
(* has been signalled and competes for monitor_lock to resume.             *)
(***************************************************************************)
EXTENDS Integers, Sequences

rw_lock_init ==
  [num_readers     |-> 0,
   num_writers     |-> 0,
   can_read        |-> << >>,
   can_write       |-> << >>,
   pending_readers |-> 0,
   pending_writer  |-> FALSE,
   reader_next     |-> FALSE]

\* The state space of struct rw_lock when the callers are the threads of T.
RWLockState(T) ==
  [num_readers     : Int,
   num_writers     : Int,
   can_read        : Seq(T),
   can_write       : Seq(T),
   pending_readers : Int,
   pending_writer  : BOOLEAN,
   reader_next     : BOOLEAN]

Queued(q) == {q[i] : i \in DOMAIN q}

\* cond_signal on a waiter list: the first waiter leaves it, if there is one.
SignalFirst(q) == IF q = << >> THEN q ELSE Tail(q)

-----------------------------------------------------------------------------
(* Definitions named Mutant... are faulty variants of the definition that  *)
(* follows; no specification uses them.                                    *)

\* The loop condition of read_lock_acquire.
MustWaitToRead(l) ==
  (l.num_writers > 0 \/ l.pending_writer) /\ ~l.reader_next

\* The loop condition of write_lock_acquire.
MustWaitToWrite(l) ==
  l.num_readers > 0 \/ l.num_writers > 0 \/ l.reader_next

\* read_lock_acquire by t, up to its return or its cond_wait.
MutantUncountedWaiter(l, t) ==
  IF MustWaitToRead(l)
  THEN [l EXCEPT !.can_read = Append(@, t)]
  ELSE [l EXCEPT !.num_readers = @ + 1]

ReadAcquire(l, t) ==
  IF MustWaitToRead(l)
  THEN [l EXCEPT !.pending_readers = @ + 1, !.can_read = Append(@, t)]
  ELSE [l EXCEPT !.num_readers = @ + 1]

\* read_lock_acquire by t, from the return of cond_wait on.
ReadResume(l, t) == ReadAcquire([l EXCEPT !.pending_readers = @ - 1], t)

read_lock_release(l) ==
  [l EXCEPT !.num_readers = @ - 1,
            !.reader_next = FALSE,
            !.can_write   = SignalFirst(@)]

\* write_lock_acquire by t, up to its return or its cond_wait.
WriteAcquire(l, t) ==
  IF MustWaitToWrite(l)
  THEN [l EXCEPT !.pending_writer = TRUE, !.can_write = Append(@, t)]
  ELSE [l EXCEPT !.num_writers = @ + 1]

\* write_lock_acquire by t, from the return of cond_wait on.
WriteResume(l, t) == WriteAcquire([l EXCEPT !.pending_writer = FALSE], t)

\* write_lock_try_acquire returns TRUE; when it returns FALSE it changes nothing.
TrySucceeds(l) == ~(l.num_readers > 0 \/ l.num_writers > 0)

write_lock_try_acquire(l) == [l EXCEPT !.num_writers = @ + 1]

MutantSilentRelease(l) ==
  IF l.pending_readers = 0
  THEN [l EXCEPT !.num_writers = @ - 1]
  ELSE [l EXCEPT !.num_writers = @ - 1, !.reader_next = TRUE, !.can_read = << >>]

MutantWritersFirst(l) ==
  IF l.pending_readers = 0 \/ l.can_write # << >>
  THEN [l EXCEPT !.num_writers = @ - 1, !.can_write = SignalFirst(@)]
  ELSE [l EXCEPT !.num_writers = @ - 1, !.reader_next = TRUE, !.can_read = << >>]

write_lock_release(l) ==
  IF l.pending_readers = 0
  THEN [l EXCEPT !.num_writers = @ - 1, !.can_write = SignalFirst(@)]
  ELSE [l EXCEPT !.num_writers = @ - 1,
                 !.reader_next = TRUE,
                 !.can_read    = << >>]
=============================================================================
