----------------------------- MODULE CacheProofs -----------------------------
(***************************************************************************)
(* Proofs that the buffer cache is safe under contention (BufferCache):    *)
(* ContentionIsSafe, for any clients, calls, blocks and sectors.           *)
(* CachePlaces and CacheLocks build the invariant; CachePlaces shows that  *)
(* steps keep the places, this module that they keep the locks.            *)
(***************************************************************************)
EXTENDS CacheLocks

-----------------------------------------------------------------------------
(* A step keeps the locks.                                                     *)
\* Steps that take and release nothing: inside the block, or outside all locks.
LEMMA QuietSteps ==
  ASSUME CacheAssumption, IInv, NEW c \in Clients,
         \/ Call(c) \/ GetHit(c) \/ GetFree(c) \/ GetEvict(c) \/ EvictSkip(c) \/ EvictRelist(c)
         \/ EvictWriteBack(c) \/ EvictRetag(c)
         \/ CheckGood(c) \/ ReadValid(c) \/ ReadMiss(c) \/ Load(c) \/ Loaded(c)
         \/ Look(c) \/ Change(c) \/ MarkDirty(c) \/ ZeroBlock(c)
  PROVE  Locks'
<1>0. Typed /\ Threaded /\ Locks /\ c \in Threads
  BY DEF IInv, Placed, Threads
<1>1. CASE Call(c) \/ GetHit(c) \/ GetFree(c) \/ GetEvict(c) \/ EvictSkip(c) \/ EvictRelist(c)
  <2>1. /\ pc[c] \in Outside /\ \E l \in Outside : pc' = [pc EXCEPT ![c] = l]
        /\ rw_lock' = rw_lock /\ mode' = mode
        /\ \A d \in Clients \ {c} : op'[d] = op[d]
        /\ \A u \in Threads \ {c} : blk'[u] = blk[u]
    <3>1. CASE Call(c)
      BY <1>0, <3>1 DEF Call, Goto, Outside, Typed
    <3>2. CASE GetHit(c) \/ GetFree(c) \/ GetEvict(c)
      BY <1>0, <3>2 DEF GetHit, GetFree, GetEvict, Goto, Outside, call, Threaded
    <3>3. CASE EvictSkip(c)
      <4>1. pc[c] = "scan" /\ pc' = pc
        BY <3>3 DEF EvictSkip
      <4>2. pc' = [pc EXCEPT ![c] = "scan"]
        BY <1>0, <4>1 DEF Threaded
      <4>3. QED  BY <1>0, <3>3, <4>1, <4>2 DEF EvictSkip, Outside, call, Threaded
    <3>4. CASE EvictRelist(c)
      BY <1>0, <3>4 DEF EvictRelist, Goto, Outside, call
    <3>5. QED  BY <1>1, <3>1, <3>2, <3>3, <3>4
  <2>2. PICK l \in Outside : pc' = [pc EXCEPT ![c] = l]
    BY <2>1, Zenon
  <2>3. RoleOf(l, op'[c]) = "none" /\ RoleOf(pc[c], op[c]) = "none"
    BY <2>1, Roles, Zenon
  <2>4. QED  BY <1>0, <2>1, <2>2, <2>3, ClientStays, Zenon
<1>2. CASE EvictWriteBack(c) \/ EvictRetag(c)
  <2>1. /\ pc[c] \in Evicting /\ \E l \in Evicting : pc' = [pc EXCEPT ![c] = l]
        /\ rw_lock' = rw_lock /\ mode' = mode /\ op' = op /\ blk' = blk
    BY <1>2 DEF EvictWriteBack, EvictRetag, Goto, Evicting, call
  <2>2. PICK l \in Evicting : pc' = [pc EXCEPT ![c] = l]
    BY <2>1, Zenon
  <2>3. RoleOf(l, op'[c]) = "try" /\ RoleOf(pc[c], op[c]) = "try"
    BY <2>1, Roles
  <2>4. QED  BY <1>0, <2>1, <2>2, <2>3, ClientStays, Zenon
<1>3. CASE \/ CheckGood(c) \/ ReadValid(c) \/ ReadMiss(c) \/ Load(c) \/ Loaded(c)
           \/ Look(c) \/ Change(c) \/ MarkDirty(c) \/ ZeroBlock(c)
  <2>1. /\ pc[c] \in InUse \cup {"check"} /\ \E l \in InUse : pc' = [pc EXCEPT ![c] = l]
        /\ rw_lock' = rw_lock /\ mode' = mode /\ op' = op /\ blk' = blk
    <3>1. CASE CheckGood(c) \/ ReadValid(c) \/ ReadMiss(c) \/ Load(c) \/ Loaded(c)
      BY <3>1, Zenon DEF CheckGood, ReadValid, ReadMiss, Load, Loaded, Goto, InUse, call
    <3>2. CASE Look(c) \/ Change(c) \/ MarkDirty(c) \/ ZeroBlock(c)
      BY <3>2, Zenon DEF Look, Change, MarkDirty, ZeroBlock, Goto, InUse, call
    <3>3. QED  BY <1>3, <3>1, <3>2
  <2>2. PICK l \in InUse : pc' = [pc EXCEPT ![c] = l]
    BY <2>1, Zenon
  <2>3. RoleOf(l, op'[c]) = RoleOf(pc[c], op[c])
    BY <2>1, Roles
  <2>4. QED  BY <1>0, <2>1, <2>2, <2>3, ClientStays, Zenon
<1>4. QED  BY <1>1, <1>2, <1>3

LEMMA EvictorLocks ==
  ASSUME CacheAssumption, IInv, NEW c \in Clients, EvictTake(c) \/ EvictUnpin(c)
  PROVE  Locks'
<1>0. Typed /\ Threaded /\ Lists /\ Places /\ Locks
  BY DEF IInv, Placed
<1>1. pc[c] \in Busy /\ op' = op /\ blk' = blk /\ mode' = mode
  BY DEF EvictTake, EvictUnpin, call, Busy, ClientLabels, Evicting
<1> DEFINE b == blk[c]
           k == rw_lock[b]
<1>2. b \in Blocks /\ c \in Threads /\ k \in RWLockState(Threads) /\ blk[c] = b
  BY <1>0, <1>1, ClientBlock
<1>3. CASE EvictTake(c)
  <2>1. /\ pc[c] = "scan" /\ pc' = [pc EXCEPT ![c] = "writeback"] /\ TrySucceeds(k)
        /\ rw_lock' = [rw_lock EXCEPT ![b] = write_lock_try_acquire(k)]
    BY <1>3 DEF EvictTake, Goto
  <2>2. RoleOf("scan", op[c]) = "none" /\ RoleOf("writeback", op[c]) = "try"
    BY Roles DEF Outside, Evicting
  <2> HIDE DEF b, k
  <2>3. /\ rw_lock'[b] = write_lock_try_acquire(k) /\ mode'[b] = mode[b]
        /\ \A d \in Blocks \ {b} : rw_lock'[d] = rw_lock[d] /\ mode'[d] = mode[d]
    BY <1>0, <1>1, <1>2, <2>1 DEF Typed
  <2>4. Moves(c, b, "none", "try")
    <3>1. Moves(c, b, RoleOf(pc[c], op[c]), RoleOf("writeback", op[c]))
      BY <1>0, <1>1, <1>2, <2>1, <2>3, ClientMoves, Zenon
    <3>2. QED  BY <2>1, <2>2, <3>1
  <2>5. QED  BY <1>0, <1>2, <2>1, <2>3, <2>4, ReleasesAre, TakesTrying DEF k
<1>4. CASE EvictUnpin(c)
  <2>1. /\ pc[c] = "unpin" /\ pc' = [pc EXCEPT ![c] = "relist"]
        /\ rw_lock' = [rw_lock EXCEPT ![b] = write_lock_release(k)]
    BY <1>4 DEF EvictUnpin, Goto
  <2>2. RoleOf("unpin", op[c]) = "try" /\ RoleOf("relist", op[c]) = "none"
    BY Roles DEF Outside, Evicting
  <2> HIDE DEF b, k
  <2>3. /\ rw_lock'[b] = write_lock_release(k) /\ mode'[b] = mode[b]
        /\ \A d \in Blocks \ {b} : rw_lock'[d] = rw_lock[d] /\ mode'[d] = mode[d]
    BY <1>0, <1>1, <1>2, <2>1 DEF Typed
  <2>4. Moves(c, b, "try", "none")
    <3>1. Moves(c, b, RoleOf(pc[c], op[c]), RoleOf("relist", op[c]))
      BY <1>0, <1>1, <1>2, <2>1, <2>3, ClientMoves, Zenon
    <3>2. QED  BY <2>1, <2>2, <3>1
  <2>5. QED  BY <1>0, <1>2, <2>3, <2>4, ReleasesAre, LeavesTrying DEF k
<1>5. QED  BY <1>3, <1>4

LEMMA FlusherLocks ==
  ASSUME CacheAssumption, IInv, Flush
  PROVE  Locks'
<1>0. Typed /\ Threaded /\ Lists /\ Places /\ Locks /\ Flusher \in Threads
  BY DEF IInv, Placed, Threads
<1>1. CASE FlushStart \/ FlushCheck \/ FlushNext
  <2>1. /\ pc[Flusher] \in Outside /\ \E l \in Outside : pc' = [pc EXCEPT ![Flusher] = l]
        /\ rw_lock' = rw_lock /\ mode' = mode /\ op' = op
        /\ \A u \in Threads \ {Flusher} : blk'[u] = blk[u]
    BY <1>0, <1>1 DEF FlushStart, FlushCheck, FlushNext, Goto, Outside, call, Threaded
  <2>2. PICK l \in Outside : pc' = [pc EXCEPT ![Flusher] = l]
    BY <2>1, Zenon
  <2>3. RoleOf(l, "read") = "none" /\ RoleOf(pc[Flusher], "read") = "none"
    BY <2>1, Roles
  <2>4. QED  BY <1>0, <2>1, <2>2, <2>3, FlusherStays, Zenon
<1>2. CASE FlushWrite
  <2>1. /\ pc[Flusher] = "fwrite" /\ pc' = [pc EXCEPT ![Flusher] = "funpin"]
        /\ rw_lock' = rw_lock /\ mode' = mode /\ op' = op /\ blk' = blk
    BY <1>2 DEF FlushWrite, Goto, call
  <2>2. RoleOf("fwrite", "read") = "try" /\ RoleOf("funpin", "read") = "try"
    BY Roles
  <2>3. QED  BY <1>0, <2>1, <2>2, FlusherStays, Zenon
<1> DEFINE b == blk[Flusher]
           k == rw_lock[b]
<1>3. CASE FlushTry
  <2>1. /\ pc[Flusher] = "ftry" /\ mode' = mode /\ op' = op /\ blk' = blk
        /\ rw_lock' = [rw_lock EXCEPT ![b] = IF TrySucceeds(k) THEN write_lock_try_acquire(k) ELSE k]
        /\ pc' = [pc EXCEPT ![Flusher] = IF TrySucceeds(k) THEN "fwrite" ELSE "fnext"]
    BY <1>3 DEF FlushTry, Goto, call
  <2>2. b \in Blocks /\ k \in RWLockState(Threads) /\ blk[Flusher] = b
    BY <1>0, <2>1, FlusherBlock
  <2>3. RoleOf("ftry", "read") = "none" /\ RoleOf("fwrite", "read") = "try" /\ RoleOf("fnext", "read") = "none"
    BY Roles, Zenon DEF Outside
  <2> HIDE DEF b, k
  <2>4. CASE TrySucceeds(k)
    <3>1. /\ rw_lock'[b] = write_lock_try_acquire(k) /\ mode'[b] = mode[b]
          /\ \A d \in Blocks \ {b} : rw_lock'[d] = rw_lock[d] /\ mode'[d] = mode[d]
      BY <1>0, <2>1, <2>2, <2>4 DEF Typed
    <3>2. Moves(Flusher, b, "none", "try")
      <4>1. pc' = [pc EXCEPT ![Flusher] = "fwrite"]
        BY <2>1, <2>4
      <4>2. Moves(Flusher, b, RoleOf(pc[Flusher], "read"), RoleOf("fwrite", "read"))
        BY <1>0, <2>1, <2>2, <3>1, <4>1, FlusherMoves, Zenon
      <4>3. QED  BY <2>1, <2>3, <4>2
    <3>3. QED  BY <1>0, <2>2, <2>4, <3>1, <3>2, ReleasesAre, TakesTrying DEF k
  <2>5. CASE ~TrySucceeds(k)
    <3>1. rw_lock' = rw_lock /\ pc' = [pc EXCEPT ![Flusher] = "fnext"]
      BY <1>0, <2>1, <2>2, <2>5 DEF k, Typed
    <3>2. QED  BY <1>0, <2>1, <2>3, <3>1, FlusherStays, Zenon
  <2>6. QED  BY <2>4, <2>5
<1>4. CASE FlushUnpin
  <2>1. /\ pc[Flusher] = "funpin" /\ mode' = mode /\ op' = op /\ blk' = blk
        /\ rw_lock' = [rw_lock EXCEPT ![b] = write_lock_release(k)]
        /\ pc' = [pc EXCEPT ![Flusher] = "fnext"]
    BY <1>4 DEF FlushUnpin, Goto, call
  <2>2. b \in Blocks /\ k \in RWLockState(Threads) /\ blk[Flusher] = b
    BY <1>0, <2>1, FlusherBlock
  <2>3. RoleOf("funpin", "read") = "try" /\ RoleOf("fnext", "read") = "none"
    BY Roles, Zenon DEF Outside
  <2> HIDE DEF b, k
  <2>4. /\ rw_lock'[b] = write_lock_release(k) /\ mode'[b] = mode[b]
        /\ \A d \in Blocks \ {b} : rw_lock'[d] = rw_lock[d] /\ mode'[d] = mode[d]
    BY <1>0, <2>1, <2>2 DEF Typed
  <2>5. Moves(Flusher, b, "try", "none")
    <3>1. Moves(Flusher, b, RoleOf(pc[Flusher], "read"), RoleOf("fnext", "read"))
      BY <1>0, <2>1, <2>2, <2>4, FlusherMoves, Zenon
    <3>2. QED  BY <2>1, <2>3, <3>1
  <2>6. QED  BY <1>0, <2>2, <2>4, <2>5, ReleasesAre, LeavesTrying DEF k
<1>5. QED  BY <1>1, <1>2, <1>3, <1>4 DEF Flush
\* read_lock_acquire and write_lock_acquire in cache_get_block, and their waits.
LEMMA AcquirerLocks ==
  ASSUME Counting, CacheAssumption, IInv, NEW c \in Clients, Acquire(c) \/ Resume(c)
  PROVE  Locks'
<1>0. Typed /\ Threaded /\ Lists /\ Places /\ Locks
  BY DEF IInv, Placed
<1>1. pc[c] \in Busy /\ op' = op /\ blk' = blk /\ mode' = mode
  BY DEF Acquire, Resume, call, Busy, ClientLabels
<1> DEFINE b == blk[c]
           k == rw_lock[b]
           o == op[c]
           X == {"write", "zero"}
<1>2. b \in Blocks /\ c \in Threads /\ k \in RWLockState(Threads) /\ blk[c] = b /\ rw_lock[b] = k
  BY <1>0, <1>1, ClientBlock
<1>3. /\ Acquire(c) => /\ pc[c] = "acquire"
                       /\ o \in X => rw_lock' = [rw_lock EXCEPT ![b] = WriteAcquire(k, c)]
                       /\ o \notin X => rw_lock' = [rw_lock EXCEPT ![b] = ReadAcquire(k, c)]
      /\ Resume(c) => /\ pc[c] = "wait"
                      /\ o \in X => rw_lock' = [rw_lock EXCEPT ![b] = WriteResume(k, c)]
                      /\ o \notin X => rw_lock' = [rw_lock EXCEPT ![b] = ReadResume(k, c)]
      /\ o \in X /\ MustWaitToWrite(k) => pc' = [pc EXCEPT ![c] = "wait"]
      /\ o \in X /\ ~MustWaitToWrite(k) => pc' = [pc EXCEPT ![c] = "setmode"]
      /\ o \notin X /\ MustWaitToRead(k) => pc' = [pc EXCEPT ![c] = "wait"]
      /\ o \notin X /\ ~MustWaitToRead(k) => pc' = [pc EXCEPT ![c] = "setmode"]
  BY Zenon DEF Acquire, Resume, Goto, Exclusive, MustWait
<1>4. /\ RoleOf("acquire", o) = "none"
      /\ o \in X => RoleOf("wait", o) = "none" /\ RoleOf("setmode", o) = "excl0"
      /\ o \notin X => RoleOf("wait", o) = "queue" /\ RoleOf("setmode", o) = "setr"
  BY Roles DEF Outside
<1> HIDE DEF b, k
<1>c. LET n == WriteAcquire(k, c) IN
      /\ MustWaitToWrite(k) => Same(n, k)
      /\ ~MustWaitToWrite(k) => /\ n.num_writers = k.num_writers + 1 /\ n.num_readers = k.num_readers
                                /\ n.pending_readers = k.pending_readers /\ n.reader_next = k.reader_next
  BY <1>2, WriteAcquireIs
<1>d. LET n == ReadAcquire(k, c) IN
      /\ n.num_writers = k.num_writers /\ n.reader_next = k.reader_next
      /\ MustWaitToRead(k) => n.num_readers = k.num_readers /\ n.pending_readers = k.pending_readers + 1
      /\ ~MustWaitToRead(k) => n.num_readers = k.num_readers + 1 /\ n.pending_readers = k.pending_readers
  BY <1>2, ReadAcquireIs
<1>e. LET n == WriteResume(k, c) IN
      /\ MustWaitToWrite(k) => Same(n, k)
      /\ ~MustWaitToWrite(k) => /\ n.num_writers = k.num_writers + 1 /\ n.num_readers = k.num_readers
                                /\ n.pending_readers = k.pending_readers /\ n.reader_next = k.reader_next
  BY <1>2, WriteResumeIs
<1>f. LET n == ReadResume(k, c) IN
      /\ n.num_writers = k.num_writers /\ n.reader_next = k.reader_next
      /\ MustWaitToRead(k) => Same(n, k)
      /\ ~MustWaitToRead(k) => n.num_readers = k.num_readers + 1 /\ n.pending_readers = k.pending_readers - 1
  BY <1>2, ReadResumeIs
<1>a. ASSUME NEW x, rw_lock' = [rw_lock EXCEPT ![b] = x]
      PROVE  /\ rw_lock'[b] = x /\ mode'[b] = mode[b]
             /\ \A d \in Blocks \ {b} : rw_lock'[d] = rw_lock[d] /\ mode'[d] = mode[d]
  BY <1>0, <1>1, <1>2, <1>a DEF Typed
<1>b. ASSUME NEW l, pc' = [pc EXCEPT ![c] = l],
             \A d \in Blocks \ {b} : rw_lock'[d] = rw_lock[d] /\ mode'[d] = mode[d]
      PROVE  Moves(c, b, RoleOf(pc[c], o), RoleOf(l, o))
  BY <1>0, <1>1, <1>2, <1>b, ClientMoves, Zenon
<1> HIDE DEF o, X
<1>5. CASE Acquire(c) /\ o \in X
  <2>1. /\ rw_lock'[b] = WriteAcquire(k, c) /\ mode'[b] = mode[b]
        /\ \A d \in Blocks \ {b} : rw_lock'[d] = rw_lock[d] /\ mode'[d] = mode[d]
    BY <1>3, <1>5, <1>a
  <2>2. CASE MustWaitToWrite(k)
    <3>0. pc[c] = "acquire" /\ pc' = [pc EXCEPT ![c] = "wait"]
      BY <1>3, <1>5, <2>2, Zenon
    <3>a. Moves(c, b, RoleOf("acquire", o), RoleOf("wait", o))
      BY <1>b, <2>1, <3>0, Zenon
    <3>1. Moves(c, b, "none", "none")
      BY <1>4, <1>5, <3>a
    <3>2. Same(rw_lock'[b], rw_lock[b])
      BY <1>2, <1>c, <2>1, <2>2
    <3>3. QED  BY <1>0, <1>2, <2>1, <3>1, <3>2, StaysAlike
  <2>3. CASE ~MustWaitToWrite(k)
    <3>0. pc[c] = "acquire" /\ pc' = [pc EXCEPT ![c] = "setmode"]
      BY <1>3, <1>5, <2>3, Zenon
    <3>a. Moves(c, b, RoleOf("acquire", o), RoleOf("setmode", o))
      BY <1>b, <2>1, <3>0, Zenon
    <3>1. Moves(c, b, "none", "excl0")
      BY <1>4, <1>5, <3>a
    <3>2. /\ rw_lock'[b].num_writers = rw_lock[b].num_writers + 1 /\ rw_lock'[b].num_readers = rw_lock[b].num_readers
          /\ rw_lock'[b].pending_readers = rw_lock[b].pending_readers /\ rw_lock'[b].reader_next = rw_lock[b].reader_next
      BY <1>2, <1>c, <2>1, <2>3
    <3>3. ~MustWaitToWrite(rw_lock[b]) /\ rw_lock[b] \in RWLockState(Threads)
      BY <1>2, <2>3
    <3>4. QED  BY <1>0, <1>2, <2>1, <3>1, <3>2, <3>3, TakesExclusive
  <2>4. QED  BY <2>2, <2>3
<1>6. CASE Acquire(c) /\ o \notin X
  <2>1. /\ rw_lock'[b] = ReadAcquire(k, c) /\ mode'[b] = mode[b]
        /\ \A d \in Blocks \ {b} : rw_lock'[d] = rw_lock[d] /\ mode'[d] = mode[d]
    BY <1>3, <1>6, <1>a
  <2>2. CASE MustWaitToRead(k)
    <3>0. pc[c] = "acquire" /\ pc' = [pc EXCEPT ![c] = "wait"]
      BY <1>3, <1>6, <2>2, Zenon
    <3>a. Moves(c, b, RoleOf("acquire", o), RoleOf("wait", o))
      BY <1>b, <2>1, <3>0, Zenon
    <3>1. Moves(c, b, "none", "queue")
      BY <1>4, <1>6, <3>a
    <3>2. /\ rw_lock'[b].num_writers = rw_lock[b].num_writers /\ rw_lock'[b].num_readers = rw_lock[b].num_readers
          /\ rw_lock'[b].pending_readers = rw_lock[b].pending_readers + 1 /\ rw_lock'[b].reader_next = rw_lock[b].reader_next
      BY <1>2, <1>d, <2>1, <2>2
    <3>3. QED  BY <1>0, <1>2, <2>1, <3>1, <3>2, Queues
  <2>3. CASE ~MustWaitToRead(k)
    <3>0. pc[c] = "acquire" /\ pc' = [pc EXCEPT ![c] = "setmode"]
      BY <1>3, <1>6, <2>3, Zenon
    <3>a. Moves(c, b, RoleOf("acquire", o), RoleOf("setmode", o))
      BY <1>b, <2>1, <3>0, Zenon
    <3>1. Moves(c, b, "none", "setr")
      BY <1>4, <1>6, <3>a
    <3>2. /\ rw_lock'[b].num_writers = rw_lock[b].num_writers /\ rw_lock'[b].num_readers = rw_lock[b].num_readers + 1
          /\ rw_lock'[b].pending_readers = rw_lock[b].pending_readers /\ rw_lock'[b].reader_next = rw_lock[b].reader_next
      BY <1>2, <1>d, <2>1, <2>3
    <3>3. ~MustWaitToRead(rw_lock[b]) /\ rw_lock[b] \in RWLockState(Threads)
      BY <1>2, <2>3
    <3>4. QED  BY <1>0, <1>2, <2>1, <3>1, <3>2, <3>3, TakesShared
  <2>4. QED  BY <2>2, <2>3
<1>7. CASE Resume(c) /\ o \in X
  <2>1. /\ rw_lock'[b] = WriteResume(k, c) /\ mode'[b] = mode[b]
        /\ \A d \in Blocks \ {b} : rw_lock'[d] = rw_lock[d] /\ mode'[d] = mode[d]
    BY <1>3, <1>7, <1>a
  <2>2. CASE MustWaitToWrite(k)
    <3>0. pc[c] = "wait" /\ pc' = [pc EXCEPT ![c] = "wait"]
      BY <1>3, <1>7, <2>2, Zenon
    <3>a. Moves(c, b, RoleOf("wait", o), RoleOf("wait", o))
      BY <1>b, <2>1, <3>0, Zenon
    <3>1. Moves(c, b, "none", "none")
      BY <1>4, <1>7, <3>a
    <3>2. Same(rw_lock'[b], rw_lock[b])
      BY <1>2, <1>e, <2>1, <2>2
    <3>3. QED  BY <1>0, <1>2, <2>1, <3>1, <3>2, StaysAlike
  <2>3. CASE ~MustWaitToWrite(k)
    <3>0. pc[c] = "wait" /\ pc' = [pc EXCEPT ![c] = "setmode"]
      BY <1>3, <1>7, <2>3, Zenon
    <3>a. Moves(c, b, RoleOf("wait", o), RoleOf("setmode", o))
      BY <1>b, <2>1, <3>0, Zenon
    <3>1. Moves(c, b, "none", "excl0")
      BY <1>4, <1>7, <3>a
    <3>2. /\ rw_lock'[b].num_writers = rw_lock[b].num_writers + 1 /\ rw_lock'[b].num_readers = rw_lock[b].num_readers
          /\ rw_lock'[b].pending_readers = rw_lock[b].pending_readers /\ rw_lock'[b].reader_next = rw_lock[b].reader_next
      BY <1>2, <1>e, <2>1, <2>3
    <3>3. ~MustWaitToWrite(rw_lock[b]) /\ rw_lock[b] \in RWLockState(Threads)
      BY <1>2, <2>3
    <3>4. QED  BY <1>0, <1>2, <2>1, <3>1, <3>2, <3>3, TakesExclusive
  <2>4. QED  BY <2>2, <2>3
<1>8. CASE Resume(c) /\ o \notin X
  <2>1. /\ rw_lock'[b] = ReadResume(k, c) /\ mode'[b] = mode[b]
        /\ \A d \in Blocks \ {b} : rw_lock'[d] = rw_lock[d] /\ mode'[d] = mode[d]
    BY <1>3, <1>8, <1>a
  <2>2. CASE MustWaitToRead(k)
    <3>0. pc[c] = "wait" /\ pc' = [pc EXCEPT ![c] = "wait"]
      BY <1>3, <1>8, <2>2, Zenon
    <3>a. Moves(c, b, RoleOf("wait", o), RoleOf("wait", o))
      BY <1>b, <2>1, <3>0, Zenon
    <3>1. Moves(c, b, "queue", "queue")
      BY <1>4, <1>8, <3>a
    <3>2. Same(rw_lock'[b], rw_lock[b])
      BY <1>2, <1>f, <2>1, <2>2
    <3>3. QED  BY <1>0, <1>2, <2>1, <3>1, <3>2, StaysAlike
  <2>3. CASE ~MustWaitToRead(k)
    <3>0. pc[c] = "wait" /\ pc' = [pc EXCEPT ![c] = "setmode"]
      BY <1>3, <1>8, <2>3, Zenon
    <3>a. Moves(c, b, RoleOf("wait", o), RoleOf("setmode", o))
      BY <1>b, <2>1, <3>0, Zenon
    <3>1. Moves(c, b, "queue", "setr")
      BY <1>4, <1>8, <3>a
    <3>2. /\ rw_lock'[b].num_writers = rw_lock[b].num_writers /\ rw_lock'[b].num_readers = rw_lock[b].num_readers + 1
          /\ rw_lock'[b].pending_readers = rw_lock[b].pending_readers - 1 /\ rw_lock'[b].reader_next = rw_lock[b].reader_next
      BY <1>2, <1>f, <2>1, <2>3
    <3>3. ~MustWaitToRead(rw_lock[b]) /\ rw_lock[b] \in RWLockState(Threads)
      BY <1>2, <2>3
    <3>4. QED  BY <1>0, <1>2, <2>1, <3>1, <3>2, <3>3, ResumesShared, Zenon
  <2>4. QED  BY <2>2, <2>3
<1>9. QED  BY <1>5, <1>6, <1>7, <1>8
\* cache_get_block sets mode, or finds another sector and backs off.
LEMMA ModeLocks ==
  ASSUME Counting, CacheAssumption, IInv, NEW c \in Clients, SetMode(c) \/ CheckEvicted(c)
  PROVE  Locks'
<1>0. Typed /\ Threaded /\ Lists /\ Places /\ Locks
  BY DEF IInv, Placed
<1>1. pc[c] \in Busy /\ op' = op /\ blk' = blk /\ rw_lock' = rw_lock
  BY Zenon DEF SetMode, CheckEvicted, call, Busy, ClientLabels, Holding
<1> DEFINE b == blk[c]
           o == op[c]
           X == {"write", "zero"}
<1>2. b \in Blocks /\ c \in Threads /\ blk[c] = b
  BY <1>0, <1>1, ClientBlock
<1>3. /\ SetMode(c) => /\ pc[c] = "setmode" /\ pc' = [pc EXCEPT ![c] = "check"]
                       /\ o \in X => mode' = [mode EXCEPT ![b] = "WRITE_LOCKED"]
                       /\ o \notin X => mode' = [mode EXCEPT ![b] = "READ_LOCKED"]
      /\ CheckEvicted(c) => /\ pc[c] = "check" /\ pc' = [pc EXCEPT ![c] = "backoff"]
                            /\ mode' = [mode EXCEPT ![b] = "UNLOCKED"]
  BY Zenon DEF SetMode, CheckEvicted, Goto, Exclusive
<1>4. /\ o \in X => /\ RoleOf("setmode", o) = "excl0" /\ RoleOf("check", o) = "excl1"
                    /\ RoleOf("backoff", o) = "excl0"
      /\ o \notin X => /\ RoleOf("setmode", o) = "setr" /\ RoleOf("check", o) = "reads"
                       /\ RoleOf("backoff", o) = "reads"
  BY Roles
<1> HIDE DEF b
<1>a. ASSUME NEW x, mode' = [mode EXCEPT ![b] = x]
      PROVE  /\ mode'[b] = x /\ rw_lock'[b] = rw_lock[b]
             /\ \A d \in Blocks \ {b} : rw_lock'[d] = rw_lock[d] /\ mode'[d] = mode[d]
  BY <1>0, <1>1, <1>2, <1>a DEF Typed
<1>b. ASSUME NEW l, pc' = [pc EXCEPT ![c] = l],
             \A d \in Blocks \ {b} : rw_lock'[d] = rw_lock[d] /\ mode'[d] = mode[d]
      PROVE  Moves(c, b, RoleOf(pc[c], o), RoleOf(l, o))
  BY <1>0, <1>1, <1>2, <1>b, ClientMoves, Zenon
<1> HIDE DEF o, X
<1>5. CASE SetMode(c) /\ o \in X
  <2>1. /\ mode'[b] = "WRITE_LOCKED" /\ rw_lock'[b] = rw_lock[b]
        /\ \A d \in Blocks \ {b} : rw_lock'[d] = rw_lock[d] /\ mode'[d] = mode[d]
    BY <1>3, <1>5, <1>a
  <2>a. pc[c] = "setmode" /\ pc' = [pc EXCEPT ![c] = "check"]
    BY <1>3, <1>5, Zenon
  <2>b. Moves(c, b, RoleOf("setmode", o), RoleOf("check", o))
    BY <1>b, <2>1, <2>a, Zenon
  <2>2. Moves(c, b, "excl0", "excl1")
    BY <1>4, <1>5, <2>b
  <2>3. QED  BY <1>0, <1>2, <2>1, <2>2, SetsExclusive, Zenon
<1>6. CASE SetMode(c) /\ o \notin X
  <2>1. /\ mode'[b] = "READ_LOCKED" /\ rw_lock'[b] = rw_lock[b]
        /\ \A d \in Blocks \ {b} : rw_lock'[d] = rw_lock[d] /\ mode'[d] = mode[d]
    BY <1>3, <1>6, <1>a
  <2>a. pc[c] = "setmode" /\ pc' = [pc EXCEPT ![c] = "check"]
    BY <1>3, <1>6, Zenon
  <2>b. Moves(c, b, RoleOf("setmode", o), RoleOf("check", o))
    BY <1>b, <2>1, <2>a, Zenon
  <2>2. Moves(c, b, "setr", "reads")
    BY <1>4, <1>6, <2>b
  <2>3. QED  BY <1>0, <1>2, <2>1, <2>2, SetsShared
<1>7. CASE CheckEvicted(c)
  <2>1. /\ mode'[b] = "UNLOCKED" /\ rw_lock'[b] = rw_lock[b]
        /\ \A d \in Blocks \ {b} : rw_lock'[d] = rw_lock[d] /\ mode'[d] = mode[d]
    BY <1>3, <1>7, <1>a
  <2>2. CASE o \in X
    <3>0. pc[c] = "check" /\ pc' = [pc EXCEPT ![c] = "backoff"]
      BY <1>3, <1>7, Zenon
    <3>a. Moves(c, b, RoleOf("check", o), RoleOf("backoff", o))
      BY <1>b, <2>1, <3>0, Zenon
    <3>1. Moves(c, b, "excl1", "excl0")
      BY <1>4, <2>2, <3>a
    <3>2. QED  BY <1>0, <1>2, <2>1, <3>1, ClearsExclusive
  <2>3. CASE o \notin X
    <3>0. pc[c] = "check" /\ pc' = [pc EXCEPT ![c] = "backoff"]
      BY <1>3, <1>7, Zenon
    <3>a. Moves(c, b, RoleOf("check", o), RoleOf("backoff", o))
      BY <1>b, <2>1, <3>0, Zenon
    <3>1. Moves(c, b, "reads", "reads")
      BY <1>4, <2>3, <3>a
    <3>2. QED  BY <1>0, <1>2, <2>1, <3>1, ClearsShared
  <2>4. QED  BY <2>2, <2>3
<1>8. QED  BY <1>5, <1>6, <1>7

\* The releases of cache_get_block and cache_put_block.  By Locks the latter
\* finds in mode what its thread took, or UNLOCKED if it took it shared.
LEMMA ReleaserLocks ==
  ASSUME Counting, CacheAssumption, IInv, NEW c \in Clients, BackOff(c) \/ Put(c)
  PROVE  Locks'
<1>0. Typed /\ Threaded /\ Lists /\ Places /\ Locks
  BY DEF IInv, Placed
<1>1. pc[c] \in Busy /\ mode' = mode
  BY DEF BackOff, Put, Busy, ClientLabels, Holding, InUse
<1> DEFINE b == blk[c]
           k == rw_lock[b]
           o == op[c]
           X == {"write", "zero"}
<1>2. b \in Blocks /\ c \in Threads /\ k \in RWLockState(Threads) /\ blk[c] = b /\ rw_lock[b] = k
  BY <1>0, <1>1, ClientBlock
<1>3. /\ BackOff(c) => /\ pc[c] = "backoff" /\ pc' = [pc EXCEPT ![c] = "get"]
                       /\ o \in X => rw_lock' = [rw_lock EXCEPT ![b] = write_lock_release(k)]
                       /\ o \notin X => rw_lock' = [rw_lock EXCEPT ![b] = read_lock_release(k)]
      /\ Put(c) =>
           /\ pc[c] = "put" /\ pc' = [pc EXCEPT ![c] = "idle"]
           /\ mode[b] = "WRITE_LOCKED" => rw_lock' = [rw_lock EXCEPT ![b] = write_lock_release(k)]
           /\ mode[b] = "READ_LOCKED" => rw_lock' = [rw_lock EXCEPT ![b] = read_lock_release(k)]
           /\ mode[b] = "UNLOCKED" => rw_lock' = [rw_lock EXCEPT ![b] = k]
  BY DEF BackOff, Put, Goto, Exclusive
<1>4. /\ \A d \in Clients \ {c} : op'[d] = op[d]
      /\ \A u \in Threads \ {c} : blk'[u] = blk[u]
  BY <1>0 DEF BackOff, Put, call, Typed, Threaded
<1>5. /\ \A p : RoleOf("get", p) = "none" /\ RoleOf("idle", p) = "none"
      /\ o \in X => RoleOf("backoff", o) = "excl0" /\ RoleOf("put", o) = "excl1"
      /\ o \notin X => RoleOf("backoff", o) = "reads" /\ RoleOf("put", o) = "reads"
  BY Roles DEF Outside, InUse
<1> HIDE DEF b, k
<1>a. ASSUME NEW x, rw_lock' = [rw_lock EXCEPT ![b] = x]
      PROVE  /\ rw_lock'[b] = x /\ mode'[b] = mode[b]
             /\ \A d \in Blocks \ {b} : rw_lock'[d] = rw_lock[d] /\ mode'[d] = mode[d]
  BY <1>0, <1>1, <1>2, <1>a DEF Typed
<1>b. ASSUME NEW l \in {"get", "idle"}, pc' = [pc EXCEPT ![c] = l],
             \A d \in Blocks \ {b} : rw_lock'[d] = rw_lock[d] /\ mode'[d] = mode[d]
      PROVE  Moves(c, b, RoleOf(pc[c], o), "none")
  <2>1. /\ role[c] = RoleOf(pc[c], o) /\ role'[c] = RoleOf(l, op'[c])
        /\ \A u \in Threads \ {c} : role'[u] = role[u]
    BY <1>0, <1>4, <1>b, ClientRole, Zenon
  <2>2. role'[c] = "none"
    BY <1>5, <2>1
  <2>3. QED  BY <1>2, <1>4, <1>b, <2>1, <2>2, Zenon DEF Moves
<1> HIDE DEF o, X
<1>6. CASE BackOff(c) /\ o \in X
  <2>1. /\ rw_lock'[b] = write_lock_release(k) /\ mode'[b] = mode[b]
        /\ \A d \in Blocks \ {b} : rw_lock'[d] = rw_lock[d] /\ mode'[d] = mode[d]
    BY <1>3, <1>6, <1>a
  <2>2. Moves(c, b, "excl0", "none")
    BY <1>3, <1>5, <1>6, <1>b, <2>1
  <2>3. /\ rw_lock'[b].num_writers = rw_lock[b].num_writers - 1 /\ rw_lock'[b].num_readers = rw_lock[b].num_readers
        /\ rw_lock'[b].pending_readers = rw_lock[b].pending_readers
    BY <1>2, <2>1, ReleasesAre
  <2>4. QED  BY <1>0, <1>2, <2>1, <2>2, <2>3, LeavesExclusive
<1>7. CASE BackOff(c) /\ o \notin X
  <2>1. /\ rw_lock'[b] = read_lock_release(k) /\ mode'[b] = mode[b]
        /\ \A d \in Blocks \ {b} : rw_lock'[d] = rw_lock[d] /\ mode'[d] = mode[d]
    BY <1>3, <1>7, <1>a
  <2>2. Moves(c, b, "reads", "none")
    BY <1>3, <1>5, <1>7, <1>b, <2>1, Zenon
  <2>3. /\ rw_lock'[b].num_writers = rw_lock[b].num_writers /\ rw_lock'[b].num_readers \in {rw_lock[b].num_readers, rw_lock[b].num_readers - 1}
        /\ rw_lock'[b].pending_readers = rw_lock[b].pending_readers
    BY <1>2, <2>1, ReleasesAre
  <2>4. QED  BY <1>0, <1>2, <2>1, <2>2, <2>3, LeavesShared
<1>c. /\ role[c] = "excl1" => mode[b] = "WRITE_LOCKED"
      /\ role[c] = "reads" => mode[b] # "WRITE_LOCKED"
  <2>1. FitsOf(b, rw_lock[b], mode[b], role, blk)
    BY <1>0, <1>2, Zenon DEF Locks
  <2>2. /\ role[c] = "excl1" => c \in InOf(role, blk, b, {"excl1"})
        /\ role[c] = "reads" => c \in InOf(role, blk, b, {"reads"})
    BY <1>2 DEF InOf
  <2>3. /\ InOf(role, blk, b, {"excl1"}) # {} => mode[b] = "WRITE_LOCKED"
        /\ InOf(role, blk, b, {"reads"}) # {} => mode[b] # "WRITE_LOCKED"
    BY <2>1, Zenon DEF FitsOf, LockFits
  <2>4. QED  BY <2>2, <2>3
<1>d. Put(c) => role[c] = RoleOf("put", o)
  BY <1>2, <1>3, Zenon DEF role, o
<1>8. CASE Put(c) /\ o \in X
  <2>1. mode[b] = "WRITE_LOCKED"
    BY <1>5, <1>8, <1>c, <1>d
  <2>2. /\ rw_lock'[b] = write_lock_release(k) /\ mode'[b] = mode[b]
        /\ \A d \in Blocks \ {b} : rw_lock'[d] = rw_lock[d] /\ mode'[d] = mode[d]
    BY <1>3, <1>8, <1>a, <2>1, Zenon
  <2>3. Moves(c, b, "excl1", "none")
    BY <1>3, <1>5, <1>8, <1>b, <2>2
  <2>4. /\ rw_lock'[b].num_writers = rw_lock[b].num_writers - 1 /\ rw_lock'[b].num_readers = rw_lock[b].num_readers
        /\ rw_lock'[b].pending_readers = rw_lock[b].pending_readers
    BY <1>2, <2>2, ReleasesAre
  <2>5. QED  BY <1>0, <1>2, <2>2, <2>3, <2>4, PutsExclusive, Zenon
<1>9. CASE Put(c) /\ o \notin X
  <2>1. mode[b] = "READ_LOCKED" \/ mode[b] = "UNLOCKED"
    BY <1>0, <1>2, <1>5, <1>9, <1>c, <1>d DEF Typed
  <2>2. /\ rw_lock'[b] \in {read_lock_release(k), k} /\ mode'[b] = mode[b]
        /\ \A d \in Blocks \ {b} : rw_lock'[d] = rw_lock[d] /\ mode'[d] = mode[d]
    BY <1>3, <1>9, <1>a, <2>1, Zenon
  <2>3. Moves(c, b, "reads", "none")
    BY <1>3, <1>5, <1>9, <1>b, <2>2, Zenon
  <2>4. /\ rw_lock'[b].num_writers = rw_lock[b].num_writers /\ rw_lock'[b].num_readers \in {rw_lock[b].num_readers, rw_lock[b].num_readers - 1}
        /\ rw_lock'[b].pending_readers = rw_lock[b].pending_readers
    BY <1>2, <2>2, ReleasesAre
  <2>5. QED  BY <1>0, <1>2, <2>2, <2>3, <2>4, LeavesShared
<1>10. QED  BY <1>6, <1>7, <1>8, <1>9

-----------------------------------------------------------------------------
LEMMA StepHolds ==
  ASSUME Counting, CacheAssumption, IInv, Next
  PROVE  IInv'
<1>1. Typed' /\ Lists' /\ Threaded' /\ Places'
  BY TypedStep, PlacesStep DEF IInv
<1>2. Locks'
  BY QuietSteps, EvictorLocks, FlusherLocks, AcquirerLocks, ModeLocks, ReleaserLocks, Zenon
  DEF Next, Get, Use
<1>3. QED  BY <1>1, <1>2 DEF IInv, Placed

LEMMA StutterHolds ==
  ASSUME IInv, UNCHANGED vars
  PROVE  IInv'
<1>1. Typed' /\ Threaded'
  BY DEF IInv, Placed, Typed, Threaded, vars, call
<1>2. Lists' /\ cached' = cached
  BY ListsStay DEF IInv, Placed, vars
<1>3. Places'
  BY <1>2, Zenon DEF IInv, Placed, Places, vars, call
<1>4. role' = role
  BY DEF role, vars, call
<1>5. Locks'
  BY <1>4 DEF IInv, Placed, Locks, vars
<1>6. QED  BY <1>1, <1>2, <1>3, <1>5 DEF IInv, Placed


-----------------------------------------------------------------------------
(* Finite sets and numbers.                                                    *)
INSTANCE FiniteSetTheorems

LEMMA Least ==
  ASSUME NEW S, S \subseteq Nat, S # {}
  PROVE  \E i \in S : \A j \in S : i <= j
<1>1. PICK i \in S : \A j \in S : <<j, i>> \notin OpToRel(<, Nat)
  BY NatLessThanWellFounded, WFMin, Zenon
<1>2. \A j \in S : ~(j < i)
  BY <1>1, Zenon DEF OpToRel
<1>3. QED  BY <1>2

LEMMA CountingHolds == Counting
<1>1. \A S, x : IsFiniteSet(S) /\ x \notin S =>
        IsFiniteSet(S \cup {x}) /\ Cardinality(S \cup {x}) = Cardinality(S) + 1
  BY FS_AddElement
<1>2. \A S, x : IsFiniteSet(S) /\ x \in S =>
        IsFiniteSet(S \ {x}) /\ Cardinality(S \ {x}) = Cardinality(S) - 1
  BY FS_RemoveElement
<1>3. \A S : IsFiniteSet(S) => Cardinality(S) \in Nat /\ (Cardinality(S) = 0 => S = {})
  BY FS_CardinalityType, FS_EmptySet
<1>4. \A S : S \subseteq Nat /\ S # {} => \E i \in S : \A j \in S : i <= j
  BY Least, Zenon
<1>5. QED  BY <1>1, <1>2, <1>3, <1>4 DEF Counting

(* The initial states.                                                         *)
\* cache_init puts every block on the free list, once.
LEMMA FreshBlocks ==
  ASSUME NEW S, IsFiniteSet(S), NEW f,
         f = CHOOSE g \in [1 .. Cardinality(S) -> S] : \A i, j \in DOMAIN g : g[i] = g[j] => i = j
  PROVE  f \in Seq(S) /\ Once(f) /\ Queued(f) = S /\ Len(f) = Cardinality(S)
<1> DEFINE n == Cardinality(S)
           P(g) == \A i, j \in DOMAIN g : g[i] = g[j] => i = j
<1>1. n \in Nat /\ ExistsBijection(1 .. n, S)
  BY FS_CardinalityType
<1>2. PICK g \in [1 .. n -> S] : P(g)
  BY <1>1 DEF ExistsBijection, Bijection, Injection, IsInjective
<1>3. f \in [1 .. n -> S] /\ P(f)
  <2>1. f = CHOOSE h \in [1 .. n -> S] : P(h)
    OBVIOUS
  <2> HIDE DEF n, P
  <2>2. QED  BY <1>2, <2>1, Zenon
<1> HIDE DEF n
<1>4. f \in Seq(S) /\ Len(f) = n /\ DOMAIN f = 1 .. n
  BY <1>1, <1>3
<1>5. f \in Injection(1 .. n, S)
  BY <1>3, Zenon DEF Injection, IsInjective
<1>6. Cardinality(1 .. n) = n
  BY <1>1, FS_Interval
<1>7. f \in Surjection(1 .. n, S)
  BY <1>5, <1>6, FS_Injection DEF n
<1>8. Queued(f) = S
  <2>1. \A x \in S : \E i \in 1 .. n : f[i] = x
    BY <1>7, Zenon DEF Surjection
  <2>2. \A i \in 1 .. n : f[i] \in S
    BY <1>3, Zenon
  <2>3. Queued(f) = {f[i] : i \in 1 .. n}
    BY <1>4, Zenon DEF Queued
  <2>4. QED  BY ONLY <2>1, <2>2, <2>3, Zenon
<1>9. QED  BY <1>3, <1>4, <1>8 DEF Once, n

LEMMA InitHolds ==
  ASSUME CacheAssumption, Init
  PROVE  IInv
<1>1. rw_lock_init \in RWLockState(Threads)
  BY DEF rw_lock_init, RWLockState
<1>2. Typed
  BY <1>1, Arithmetic DEF Init, Typed
<1>3. Threaded
  BY DEF Init, Threaded, Threads, ClientLabels, Walking
<1>4. /\ free_cache \in Seq(Blocks) /\ Once(free_cache) /\ Queued(free_cache) = Blocks
      /\ Len(free_cache) = Cardinality(Blocks)
  BY FreshBlocks, Zenon DEF Init, CacheAssumption
<1>5. /\ buffer_cache \in Seq(Blocks) /\ Once(buffer_cache) /\ Queued(buffer_cache) = {}
      /\ Len(buffer_cache) = 0
  BY DEF Init, Once, Queued
<1>6. Cardinality(Blocks) \in Nat
  BY FS_CardinalityType DEF CacheAssumption
<1>7. Lists
  BY <1>4, <1>5, <1>6 DEF Lists, CacheSizeConstant, cached
<1>8. Places
  BY <1>5 DEF Init, Places, cached, Busy, Threads
<1>9. Locks
  <2>1. \A t \in Threads : role[t] = "none"
    BY Roles DEF Init, role, Outside
  <2>2. \A b, K : "none" \notin K => InOf(role, blk, b, K) = {}
    BY <2>1 DEF InOf
  <2>3. SUFFICES ASSUME NEW b \in Blocks
                 PROVE  LockFits(rw_lock_init, "UNLOCKED", {}, {}, {}, {}, {}, {})
    BY <2>2, Zenon DEF Locks, FitsOf, Init
  <2>4. QED  BY FS_EmptySet DEF LockFits, rw_lock_init
<1>10. QED  BY <1>2, <1>3, <1>7, <1>8, <1>9 DEF IInv, Placed

\* Who holds a block exclusively is alone in it.
LEMMA HoldersAlone ==
  ASSUME CacheAssumption, IInv
  PROVE  WriterAlone
<1> SUFFICES ASSUME NEW c \in Clients, pc[c] \in Holding, Exclusive(c)
             PROVE  Readers(blk[c]) = {} /\ Writers(blk[c]) = {c}
  BY DEF WriterAlone
<1> DEFINE b == blk[c]
           W == InOf(role, blk, b, {"excl0", "excl1", "try"})
           X == InOf(role, blk, b, {"excl0", "excl1"})
           R == InOf(role, blk, b, {"setr", "reads"})
<1>0. Typed /\ Threaded /\ Lists /\ Places /\ Locks
  BY DEF IInv, Placed
<1>1. b \in Blocks /\ c \in Threads
  BY <1>0, ClientBlock DEF Busy, ClientLabels, Holding, InUse
<1>2. \A d \in Clients : d \in Threads /\ role[d] = RoleOf(pc[d], op[d])
  BY DEF role, Threads
<1>3. \A d \in Clients : pc[d] \in Holding /\ Exclusive(d) => role[d] \in {"excl0", "excl1"}
  BY <1>2, Roles DEF Exclusive, Holding
<1>4. \A d \in Clients : pc[d] \in Holding /\ ~Exclusive(d) => role[d] \in {"setr", "reads"}
  BY <1>2, Roles DEF Exclusive, Holding
<1>5. \A d \in Clients : pc[d] \in Evicting => role[d] = "try"
  BY <1>2, Roles
<1>6. pc[Flusher] \in {"fwrite", "funpin"} => role[Flusher] = "try" /\ Flusher \in Threads
  BY Roles DEF role, Threads
<1>7. Readers(b) \subseteq R
  BY <1>2, <1>4 DEF Readers, InOf
<1>8. Writers(b) \subseteq W
  BY <1>2, <1>3, <1>5, <1>6 DEF Writers, InOf
<1>9. c \in X /\ c \in W
  BY <1>1, <1>3 DEF InOf
<1>10. c \in Writers(b)
  BY DEF Writers
<1>11. LockFits(rw_lock[b], mode[b], InOf(role, blk, b, {"queue"}), R, InOf(role, blk, b, {"reads"}),
                X, InOf(role, blk, b, {"excl1"}), W)
  BY <1>0, <1>1, Zenon DEF Locks, FitsOf
<1> HIDE DEF b, W, X, R
<1>12. W = {c}
  BY <1>9, <1>11, Zenon DEF LockFits
<1>13. Cardinality(R) <= 0 /\ IsFiniteSet(R)
  BY <1>9, <1>11, Zenon DEF LockFits
<1>14. R = {}
  BY <1>13, FS_CardinalityType, FS_EmptySet
<1>15. Readers(b) = {} /\ Writers(b) = {c}
  BY <1>7, <1>8, <1>10, <1>12, <1>14
<1>16. QED  BY <1>15 DEF b

LEMMA TypesHold ==
  ASSUME CacheAssumption, IInv
  PROVE  TypeOK
<1>1. \A b \in Blocks : {rw_lock[b].num_readers, rw_lock[b].num_writers,
                         rw_lock[b].pending_readers} \subseteq Nat
  <2> SUFFICES ASSUME NEW b \in Blocks
               PROVE  /\ rw_lock[b].num_readers \in Nat /\ rw_lock[b].num_writers \in Nat
                      /\ rw_lock[b].pending_readers \in Nat
    OBVIOUS
  <2>1. FitsOf(b, rw_lock[b], mode[b], role, blk)
    BY DEF IInv, Placed, Locks
  <2>2. /\ rw_lock[b].num_readers \in Nat /\ rw_lock[b].num_writers \in {0, 1}
        /\ rw_lock[b].pending_readers = Cardinality(InOf(role, blk, b, {"queue"}))
        /\ IsFiniteSet(InOf(role, blk, b, {"queue"}))
    BY <2>1, Zenon DEF FitsOf, LockFits
  <2>3. QED  BY <2>2, FS_CardinalityType
<1>2. Typed /\ Threaded /\ Lists
  BY DEF IInv, Placed
<1>3. QED  BY <1>1, <1>2, Zenon DEF TypeOK, Typed, Threaded, Lists, ClientLabels

\* However many clients, blocks and sectors there are and whatever the clients
\* ask for: cache_get_block, eviction and the write-behind daemon never lose a
\* block or list it twice, and never let anyone into a block beside the caller
\* that holds it exclusively.
THEOREM CacheIsSafe == Spec => []ContentionIsSafe
<1>1. Init => IInv
  BY CacheAssumption, InitHolds
<1>2. IInv /\ [Next]_vars => IInv'
  BY CacheAssumption, CountingHolds, StepHolds, StutterHolds
<1>3. IInv => ContentionIsSafe
  BY CacheAssumption, TypesHold, HoldersAlone DEF ContentionIsSafe, IInv, Placed, Lists
<1>4. QED  BY <1>1, <1>2, <1>3, PTL DEF Spec
=============================================================================
