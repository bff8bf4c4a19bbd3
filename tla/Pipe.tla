-------------------------------- MODULE Pipe --------------------------------
(***************************************************************************)
(* One pipe of filesys/pipe.c between processes that inherited its ends:   *)
(* Readers have the read end open, Writers the write end, and each end is  *)
(* one struct file that counts the processes that have it open.            *)
(*                                                                         *)
(* pipe_read and pipe_write move one byte per call of pipe_dequeue and     *)
(* pipe_enqueue, and the monitor lock is free between two bytes: a byte is *)
(* one step, plus one for every wake-up.  The byte 0 ends a transfer.      *)
(* file_close counts down without a lock: the kernel is built without      *)
(* optimisation, and --ref_count == 0 loads the count, stores it and loads *)
(* it again.  pipe_close clears its end before it takes the lock, and      *)
(* looks at both ends after it released it: three steps more.  Nobody      *)
(* forks or dups an end while ends are being closed; the increment of      *)
(* file_dup could be lost to a close in the same way (FileIO has it).      *)
(*                                                                         *)
(* Definitions named Mutant... are faulty variants of the definition that  *)
(* follows; no specification uses them.                                    *)
(***************************************************************************)
EXTENDS RingOps, FiniteSets

CONSTANTS Readers, Writers,
          Messages,  \* the buffers writers pass to write: sequences of bytes
          MaxRead    \* the largest size readers pass to read

Bytes == {0} \cup UNION {{m[i] : i \in DOMAIN m} : m \in Messages}

VARIABLES ring,                      \* head, tail and buffer
          items_avail, slots_avail,  \* the waiter lists of the two conditions
          read_end, write_end,       \* FALSE when the pointer is NULL
          ref_count,                 \* of the two struct files
          freed,                     \* how often the pipe has been freed
          pc,                        \* where each process is
          seen,    \* the count a process in file_close has loaded
          buf,     \* bytes a writer still has to write
          size,    \* bytes a reader still wants
          got,     \* the byte a reader dequeued last
          eof      \* the readers that were told there is no more data

locals == <<buf, size>>
ends   == <<read_end, write_end, ref_count, freed, seen>>
pipe_vars == <<ring, items_avail, slots_avail, ends, pc, locals, got, eof>>

Procs == Readers \cup Writers
Goto(p, l) == pc' = [pc EXCEPT ![p] = l]

\* pipe_open, after the ends were inherited by the processes.
PipeInit ==
  /\ ring = RingInit(0)
  /\ items_avail = << >> /\ slots_avail = << >>
  /\ read_end = TRUE /\ write_end = TRUE
  /\ ref_count = [read |-> Cardinality(Readers), write |-> Cardinality(Writers)]
  /\ freed = 0
  /\ pc = [p \in Procs |-> "out"]
  /\ seen = [p \in Procs |-> 0]
  /\ buf = [w \in Writers |-> << >>]
  /\ size = [r \in Readers |-> 0]
  /\ got = [r \in Readers |-> 0]
  /\ eof = {}

-----------------------------------------------------------------------------
\* pipe_write starts.
Write(w) ==
  /\ pc[w] = "out"
  /\ \E m \in Messages : buf' = [buf EXCEPT ![w] = m]
  /\ Goto(w, "put")
  /\ UNCHANGED <<ring, items_avail, slots_avail, ends, size, got, eof>>

\* The loop of pipe_write goes on to the next byte, or ends after a 0.
NextByte(w) ==
  LET b == Head(buf[w])
      last == b = 0 \/ Len(buf[w]) = 1
  IN /\ buf' = [buf EXCEPT ![w] = IF last THEN << >> ELSE Tail(@)]
     /\ Goto(w, IF last THEN "out" ELSE "put")

\* pipe_enqueue, from the test of its loop condition on.
pipe_enqueue(w) ==
  \/ /\ ~Full(ring)
     /\ ring' = Put(ring, Head(buf[w]))
     /\ items_avail' = SignalFirst(items_avail)
     /\ NextByte(w)
     /\ UNCHANGED slots_avail
  \/ /\ Full(ring) /\ ~read_end
     /\ NextByte(w)
     /\ UNCHANGED <<ring, items_avail, slots_avail>>
  \/ /\ Full(ring) /\ read_end
     /\ slots_avail' = Append(slots_avail, w)
     /\ Goto(w, "wait")
     /\ UNCHANGED <<ring, items_avail, buf>>

WriteByte(w) ==
  /\ pc[w] = "put"
  /\ pipe_enqueue(w)
  /\ UNCHANGED <<ends, size, got, eof>>

WriteWake(w) ==
  /\ pc[w] = "wait" /\ w \notin Queued(slots_avail)
  /\ pipe_enqueue(w)
  /\ UNCHANGED <<ends, size, got, eof>>

-----------------------------------------------------------------------------
\* pipe_read starts.
Read(r) ==
  /\ pc[r] = "out"
  /\ \E n \in 1 .. MaxRead : size' = [size EXCEPT ![r] = n]
  /\ Goto(r, "get")
  /\ UNCHANGED <<ring, items_avail, slots_avail, ends, buf, got, eof>>

\* The loop of pipe_read stores the byte and goes on, or ends after a 0.
StoreByte(r, b) ==
  LET last == b = 0 \/ size[r] = 1
  IN /\ size' = [size EXCEPT ![r] = IF last THEN 0 ELSE @ - 1]
     /\ Goto(r, IF last THEN "out" ELSE "get")

\* pipe_dequeue, from the test of its loop condition on.
pipe_dequeue(r) ==
  \/ /\ ~Empty(ring)
     /\ ring' = Take(ring)
     /\ got' = [got EXCEPT ![r] = Oldest(ring)]
     /\ slots_avail' = SignalFirst(slots_avail)
     /\ StoreByte(r, Oldest(ring))
     /\ UNCHANGED <<items_avail, eof>>
  \/ /\ Empty(ring) /\ ~write_end
     /\ eof' = eof \cup {r}
     /\ StoreByte(r, 0)
     /\ UNCHANGED <<ring, items_avail, slots_avail, got>>
  \/ /\ Empty(ring) /\ write_end
     /\ items_avail' = Append(items_avail, r)
     /\ Goto(r, "wait")
     /\ UNCHANGED <<ring, slots_avail, size, got, eof>>

ReadByte(r) ==
  /\ pc[r] = "get"
  /\ pipe_dequeue(r)
  /\ UNCHANGED <<ends, buf>>

ReadWake(r) ==
  /\ pc[r] = "wait" /\ r \notin Queued(items_avail)
  /\ pipe_dequeue(r)
  /\ UNCHANGED <<ends, buf>>

-----------------------------------------------------------------------------
\* file_close: the process gives up its reference, and the process that reads a
\* count of 0 back calls pipe_close.
End(p) == IF p \in Readers THEN "read" ELSE "write"

Close(p) ==
  /\ pc[p] = "out"
  /\ seen' = [seen EXCEPT ![p] = ref_count[End(p)]]
  /\ Goto(p, "store")
  /\ UNCHANGED <<ring, items_avail, slots_avail, read_end, write_end, ref_count, freed, locals, got, eof>>

CloseStore(p) ==
  /\ pc[p] = "store"
  /\ ref_count' = [ref_count EXCEPT ![End(p)] = seen[p] - 1]
  /\ seen' = [seen EXCEPT ![p] = 0]
  /\ Goto(p, "test")
  /\ UNCHANGED <<ring, items_avail, slots_avail, read_end, write_end, freed, locals, got, eof>>

\* Another process has freed the struct file p is still using, so that its fields
\* may read as anything.
FileFreed(p) == \E q \in Procs : End(q) = End(p) /\ pc[q] = "released"

CloseTest(p) ==
  /\ pc[p] = "test"
  /\ \/ Goto(p, IF ref_count[End(p)] = 0 THEN "clear" ELSE "closed")
     \/ FileFreed(p) /\ \E l \in {"closed", "wild"} : Goto(p, l)
  /\ UNCHANGED <<ring, items_avail, slots_avail, ends, locals, got, eof>>

\* pipe_close: the end becomes NULL, outside the lock; a second caller finds that it
\* is NULL already.
CloseClear(p) ==
  /\ pc[p] = "clear"
  /\ read_end' = (read_end /\ p \notin Readers)
  /\ write_end' = (write_end /\ p \notin Writers)
  /\ \/ Goto(p, IF read_end' = read_end /\ write_end' = write_end THEN "check" ELSE "signal")
     \/ (freed > 0 \/ FileFreed(p)) /\ Goto(p, "wild")
  /\ UNCHANGED <<ring, items_avail, slots_avail, ref_count, freed, seen, locals, got, eof>>

\* Then one process that sleeps at the other end is signalled, under the lock.
\* In a pipe that is freed already the lock may read as held for ever.
MutantSignalsOwnEnd(p) ==
  /\ pc[p] = "signal"
  /\ items_avail' = IF p \in Readers THEN SignalFirst(items_avail) ELSE items_avail
  /\ slots_avail' = IF p \in Writers THEN SignalFirst(slots_avail) ELSE slots_avail
  /\ Goto(p, "check")
  /\ UNCHANGED <<ring, ends, locals, got, eof>>

CloseSignal(p) ==
  /\ pc[p] = "signal"
  /\ slots_avail' = IF p \in Readers THEN SignalFirst(slots_avail) ELSE slots_avail
  /\ items_avail' = IF p \in Writers THEN SignalFirst(items_avail) ELSE items_avail
  /\ Goto(p, "check") \/ (freed > 0 /\ Goto(p, "wild"))
  /\ UNCHANGED <<ring, ends, locals, got, eof>>

\* Mutant: the pipe is freed when one end is NULL.
MutantFreesEarly(p) ==
  /\ pc[p] = "check"
  /\ freed' = freed + 1
  /\ Goto(p, "released")
  /\ UNCHANGED <<ring, items_avail, slots_avail, read_end, write_end, ref_count, seen, locals, got, eof>>

\* Then the pipe is freed if both ends are NULL, and so is the struct file.  The ends
\* of a pipe that is freed already may read as anything.
CloseFree(p) ==
  /\ pc[p] = "check"
  /\ \/ freed = 0 /\ freed' = IF ~read_end /\ ~write_end THEN 1 ELSE 0
     \/ freed > 0 /\ freed' \in {freed, freed + 1}
  /\ Goto(p, "released")
  /\ UNCHANGED <<ring, items_avail, slots_avail, read_end, write_end, ref_count, seen, locals, got, eof>>

-----------------------------------------------------------------------------
WriterStep(w) == WriteByte(w) \/ WriteWake(w)
ReaderStep(r) == ReadByte(r) \/ ReadWake(r)
CloseStep(p)  == CloseStore(p) \/ CloseTest(p) \/ CloseClear(p) \/ CloseSignal(p) \/ CloseFree(p)

Done == (\A p \in Procs : pc[p] \in {"closed", "released", "wild"}) /\ UNCHANGED pipe_vars

PipeNext ==
  \/ \E w \in Writers : Write(w) \/ WriterStep(w)
  \/ \E r \in Readers : Read(r) \/ ReaderStep(r)
  \/ \E p \in Procs : Close(p) \/ CloseStep(p)
  \/ Done

PipeSpec == PipeInit /\ [][PipeNext]_pipe_vars

\* A system call under way goes on whenever it can; nobody is obliged to make one.
PipeFairness ==
  /\ \A w \in Writers : WF_pipe_vars(WriterStep(w))
  /\ \A r \in Readers : WF_pipe_vars(ReaderStep(r))
  /\ \A p \in Procs : WF_pipe_vars(CloseStep(p))

PipeFairSpec == PipeSpec /\ PipeFairness

-----------------------------------------------------------------------------
(***************************************************************************)
(* Properties.                                                             *)
(***************************************************************************)
Labels == {"out", "get", "put", "wait", "store", "test", "clear", "signal", "check",
           "closed", "released", "wild"}

PipeTypeOK ==
  /\ ring \in RingState(Bytes)
  /\ items_avail \in Seq(Readers) /\ slots_avail \in Seq(Writers)
  /\ read_end \in BOOLEAN /\ write_end \in BOOLEAN
  /\ ref_count \in [{"read", "write"} -> Nat] /\ freed \in Nat
  /\ pc \in [Procs -> Labels] /\ seen \in [Procs -> Nat]
  /\ buf \in [Writers -> Seq(Bytes)] /\ size \in [Readers -> Nat]
  /\ got \in [Readers -> Bytes] /\ eof \subseteq Readers

\* The bytes that pipe_enqueue stores come out of pipe_dequeue once each and in
\* order, while ends are closed, sleepers woken and the ring wraps around.
Bytestream ==
  INSTANCE Fifo WITH q <- Elements(ring), Takers <- Readers, Items <- Bytes, NoItem <- 0
PipeIsFifo == Bytestream!Spec

\* End of file is final: when a reader has been told that there is no more data,
\* no byte is in the pipe and none comes any more, though several processes have
\* the write end open and close it one by one.
EofIsFinal == eof # {} => Empty(ring)

\* An end is NULL only when every process that had it has counted itself out: of
\* two decrements of ref_count that overlap one is lost, which leaves the count
\* too high, never too low, and a stale store that puts it back up does so before
\* the last process has stored.
EndsOutliveTheirUsers ==
  /\ ~read_end => \A r \in Readers : pc[r] \notin {"out", "get", "wait", "store"}
  /\ ~write_end => \A w \in Writers : pc[w] \notin {"out", "put", "wait", "store"}

\* pipe_close frees the pipe not too early, however the decrements and the closes
\* overlap: a process inside pipe_read or pipe_write works on a live pipe.  When
\* all the processes have closed their end and both counts have come down to 0,
\* one of them has freed it; when a decrement was lost, nobody does.
FreedWhenUnused ==
  /\ freed > 0 => \A p \in Procs : pc[p] \notin {"get", "put", "wait"}
  /\ (\A p \in Procs : pc[p] \in {"closed", "released"}) /\ (\A e \in {"read", "write"} : ref_count[e] = 0)
       => freed > 0

\* What pipe.c keeps true of the pipe however its calls and closes interleave.
PipeIsSafe == PipeTypeOK /\ EofIsFinal /\ EndsOutliveTheirUsers /\ FreedWhenUnused

\* "Release resources for pipe if both read end and write end are closed"
\* (pipe.c:148): they are released once, and pipe_close does not touch them after.
ReleasedOnce ==
  /\ freed <= 1
  /\ freed > 0 => \A p \in Procs : pc[p] \notin {"clear", "signal", "check"}

\* The process that has slept longest at one end learns that the other end was
\* closed, though the end is cleared outside the lock: it tests the end and goes to
\* sleep in one step, and the signal comes after the clearing.  A process that was
\* signalled goes on.  pipe_close signals one sleeper, and those behind it, readers
\* or writers, are not promised anything.
WokenByClose(p, w) ==
  \/ p \notin Queued(w)
  \/ Head(w) = p /\ \E q \in Procs : End(q) # End(p) /\ pc[q] = "signal"
SleepersNoticeClose ==
  /\ \A r \in Readers : pc[r] = "wait" /\ ~write_end /\ WokenByClose(r, items_avail) ~> pc[r] # "wait"
  /\ \A w \in Writers : pc[w] = "wait" /\ ~read_end /\ WokenByClose(w, slots_avail) ~> pc[w] # "wait"
=============================================================================
