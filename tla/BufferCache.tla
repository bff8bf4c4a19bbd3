---------------------------- MODULE BufferCache ----------------------------
(***************************************************************************)
(* The buffer cache of filesys/cache.c: its clients (the file system's     *)
(* threads, among them the read-ahead daemon), and the write-behind daemon *)
(* that walks the cache and writes dirty blocks back.                      *)
(*                                                                         *)
(* A client's call is the sequence the callers in inode.c use: get a block *)
(* for a sector (shared to read, exclusive to write or to zero it), read   *)
(* or zero it, change it and mark it dirty, put it.  One action is one     *)
(* stretch of the code between two points where another thread can see the *)
(* difference: cache_lock and the block's rw_lock are taken and released   *)
(* where the code does it, and sector, dirty, valid and mode are read and  *)
(* written outside them where the code does that.                          *)
(*                                                                         *)
(* A thread that holds cache_lock scans the list in one step (lookup) or   *)
(* tries one block per step (eviction).                                    *)
(*                                                                         *)
(* Definitions named Mutant... are faulty variants of the definition that  *)
(* follows; no specification uses them.                                    *)
(***************************************************************************)
EXTENDS RWLockOps, FiniteSets

CONSTANTS Clients,   \* threads that call cache_get_block
          Flusher,   \* the write-behind daemon
          Blocks,    \* the cache blocks: MAX_CACHE_SIZE of them
          Sectors,   \* sectors of the file system's disk
          M,         \* number of contents a sector can have
          Errands,   \* the scenarios: which calls the clients may make
          None       \* no block, no thread, no sector (SIZE_MAX)

ASSUME CacheAssumption ==
  /\ IsFiniteSet(Blocks) /\ Blocks # {}
  /\ IsFiniteSet(Clients) /\ Flusher \notin Clients
  /\ None \notin Blocks \cup Clients \cup {Flusher} \cup Sectors
  /\ M \in Nat \ {0}
  /\ \A e \in Errands, c \in Clients :
       e[c] \subseteq {"read", "index", "write", "zero"} \X Sectors

VARIABLES buffer_cache,  \* list of cached blocks, most recently used first
          free_cache,    \* list of blocks never used so far
          cache_lock,    \* the thread that holds it, or None
          sector, dirty, valid, data,  \* struct cache_block
          rw_lock, mode,               \* its rw_lock, with the mode field apart
          disk,          \* the sectors of fs_device
          errands,       \* the calls a client may make: an operation and a sector
          pc,            \* where each thread is
          op, want,      \* a client's call: what it does, on which sector
          blk,           \* the block a thread works on
          got            \* what a client's last read returned

lists == <<buffer_cache, free_cache>>
call  == <<errands, op, want>>
vars  == <<lists, cache_lock, sector, dirty, valid, data, rw_lock, mode, disk,
           pc, call, blk, got>>

Threads == Clients \cup {Flusher}
Contents == 0 .. M - 1
Modify(v) == (v + 1) % M

Exclusive(c) == op[c] \in {"write", "zero"}

Goto(t, l) == pc' = [pc EXCEPT ![t] = l]

\* The list functions the cache uses (lib/kernel/list.c).
\* list_remove finds the list through the element's own links: a list that does
\* not have b stays as it is.
Position(l, b) == CHOOSE i \in DOMAIN l : l[i] = b
list_remove(l, b) ==
  IF b \in Queued(l)
  THEN LET k == Position(l, b)
       IN  [i \in 1 .. Len(l) - 1 |-> l[IF i < k THEN i ELSE i + 1]]
  ELSE l
list_push_front(l, b) == <<b>> \o l

\* list_prev on the buffer cache; None stands for list_rend.
list_prev(b) ==
  IF Position(buffer_cache, b) = 1 THEN None ELSE buffer_cache[Position(buffer_cache, b) - 1]

list_rbegin == IF buffer_cache = << >> THEN None
               ELSE buffer_cache[Len(buffer_cache)]

\* cache_lookup: the first block of the list that carries the sector.
Carriers(s) == {i \in DOMAIN buffer_cache : sector[buffer_cache[i]] = s}
cache_lookup(s) ==
  IF Carriers(s) = {} THEN None
  ELSE buffer_cache[CHOOSE i \in Carriers(s) : \A j \in Carriers(s) : i <= j]

\* cache_init pushes the fresh blocks to the free list one by one; which block
\* is which makes no difference.
Init ==
  /\ buffer_cache = << >>
  /\ free_cache = CHOOSE f \in [1 .. Cardinality(Blocks) -> Blocks] :
                    \A i, j \in DOMAIN f : f[i] = f[j] => i = j
  /\ cache_lock = None
  /\ sector = [b \in Blocks |-> None]
  /\ dirty = [b \in Blocks |-> FALSE]
  /\ valid = [b \in Blocks |-> FALSE]
  /\ data = [b \in Blocks |-> 0]
  /\ rw_lock = [b \in Blocks |-> rw_lock_init]
  /\ mode = [b \in Blocks |-> "UNLOCKED"]
  /\ disk = [s \in Sectors |-> 0]
  /\ errands \in Errands
  /\ pc = [t \in Threads |-> "idle"]
  /\ op = [c \in Clients |-> "read"]
  /\ want = [c \in Clients |-> None]
  /\ blk = [t \in Threads |-> None]
  /\ got = [c \in Clients |-> 0]
-----------------------------------------------------------------------------
(***************************************************************************)
(* cache_get_block.                                                        *)
(***************************************************************************)
\* A client starts a call on some sector.
Call(c) ==
  /\ pc[c] = "idle"
  /\ \E e \in errands[c] :
       /\ op' = [op EXCEPT ![c] = e[1]]
       /\ want' = [want EXCEPT ![c] = e[2]]
  /\ Goto(c, "get")
  /\ UNCHANGED <<errands, lists, cache_lock, sector, dirty, valid, data, rw_lock, mode, disk, blk, got>>

\* Mark b as most recently accessed (the lock is held).
Touch(b) ==
  /\ buffer_cache' = list_push_front(list_remove(buffer_cache, b), b)
  /\ free_cache' = list_remove(free_cache, b)

\* The sector is cached: its block moves to the front.
GetHit(c) ==
  /\ pc[c] = "get" /\ cache_lock = None
  /\ LET b == cache_lookup(want[c]) IN
       /\ b # None
       /\ Touch(b)
       /\ blk' = [blk EXCEPT ![c] = b]
  /\ Goto(c, "acquire")
  /\ UNCHANGED <<cache_lock, sector, dirty, valid, data, rw_lock, mode, disk, call, got>>

\* It is not cached and a free block is left: the block gets the sector number.
GetFree(c) ==
  /\ pc[c] = "get" /\ cache_lock = None
  /\ cache_lookup(want[c]) = None
  /\ free_cache # << >>
  /\ LET b == Head(free_cache) IN
       /\ sector' = [sector EXCEPT ![b] = want[c]]
       /\ Touch(b)
       /\ blk' = [blk EXCEPT ![c] = b]
  /\ Goto(c, "acquire")
  /\ UNCHANGED <<cache_lock, dirty, valid, data, rw_lock, mode, disk, call, got>>

\* It is not cached and the cache is full: evict_LRU_block starts at the back of
\* the list, with cache_lock held.
GetEvict(c) ==
  /\ pc[c] = "get" /\ cache_lock = None
  /\ cache_lookup(want[c]) = None
  /\ free_cache = << >>
  /\ cache_lock' = c
  /\ blk' = [blk EXCEPT ![c] = list_rbegin]
  /\ Goto(c, "scan")
  /\ UNCHANGED <<lists, sector, dirty, valid, data, rw_lock, mode, disk, call, got>>

\* The block under the cursor is not pinned: it is the victim, and cache_lock is
\* released before its contents are written back.
MutantEvictPinned(c) ==
  /\ pc[c] = "scan"
  /\ rw_lock' = [rw_lock EXCEPT ![blk[c]] = write_lock_try_acquire(@)]
  /\ cache_lock' = None
  /\ Goto(c, "writeback")
  /\ UNCHANGED <<lists, sector, dirty, valid, data, mode, disk, call, blk, got>>

EvictTake(c) ==
  /\ pc[c] = "scan"
  /\ TrySucceeds(rw_lock[blk[c]])
  /\ rw_lock' = [rw_lock EXCEPT ![blk[c]] = write_lock_try_acquire(@)]
  /\ cache_lock' = None
  /\ Goto(c, "writeback")
  /\ UNCHANGED <<lists, sector, dirty, valid, data, mode, disk, call, blk, got>>

\* It is pinned: on to the previous block, and from the front to the back again.
EvictSkip(c) ==
  /\ pc[c] = "scan"
  /\ ~TrySucceeds(rw_lock[blk[c]])
  /\ blk' = [blk EXCEPT ![c] = IF list_prev(@) = None THEN list_rbegin ELSE list_prev(@)]
  /\ UNCHANGED <<lists, cache_lock, sector, dirty, valid, data, rw_lock, mode, disk, pc, call, got>>

MutantNoWriteBack(c) ==
  /\ pc[c] = "writeback"
  /\ Goto(c, "retag")
  /\ UNCHANGED <<lists, cache_lock, sector, dirty, valid, data, rw_lock, mode, disk, call, blk, got>>

EvictWriteBack(c) ==
  /\ pc[c] = "writeback"
  /\ disk' = IF dirty[blk[c]] THEN [disk EXCEPT ![sector[blk[c]]] = data[blk[c]]] ELSE disk
  /\ Goto(c, "retag")
  /\ UNCHANGED <<lists, cache_lock, sector, dirty, valid, data, rw_lock, mode, call, blk, got>>

EvictRetag(c) ==
  /\ pc[c] = "retag"
  /\ sector' = [sector EXCEPT ![blk[c]] = want[c]]
  /\ valid' = [valid EXCEPT ![blk[c]] = FALSE]
  /\ dirty' = [dirty EXCEPT ![blk[c]] = FALSE]
  /\ Goto(c, "unpin")
  /\ UNCHANGED <<lists, cache_lock, data, rw_lock, mode, disk, call, blk, got>>

EvictUnpin(c) ==
  /\ pc[c] = "unpin"
  /\ rw_lock' = [rw_lock EXCEPT ![blk[c]] = write_lock_release(@)]
  /\ Goto(c, "relist")
  /\ UNCHANGED <<lists, cache_lock, sector, dirty, valid, data, mode, disk, call, blk, got>>

\* Back in cache_get_block, with cache_lock taken again: the former victim moves
\* to the front of the list.
EvictRelist(c) ==
  /\ pc[c] = "relist" /\ cache_lock = None
  /\ Touch(blk[c])
  /\ Goto(c, "acquire")
  /\ UNCHANGED <<cache_lock, sector, dirty, valid, data, rw_lock, mode, disk, call, blk, got>>

\* Acquire the block's rw_lock, shared or exclusively; cond_wait if need be.
MustWait(c, l) == IF Exclusive(c) THEN MustWaitToWrite(l) ELSE MustWaitToRead(l)

Acquire(c) ==
  /\ pc[c] = "acquire"
  /\ LET l == rw_lock[blk[c]] IN
       /\ rw_lock' = [rw_lock EXCEPT ![blk[c]] =
                        IF Exclusive(c) THEN WriteAcquire(l, c) ELSE ReadAcquire(l, c)]
       /\ Goto(c, IF MustWait(c, l) THEN "wait" ELSE "setmode")
  /\ UNCHANGED <<lists, cache_lock, sector, dirty, valid, data, mode, disk, call, blk, got>>

Resume(c) ==
  /\ pc[c] = "wait"
  /\ LET l == rw_lock[blk[c]] IN
       /\ c \notin Queued(l.can_read) \cup Queued(l.can_write)
       /\ rw_lock' = [rw_lock EXCEPT ![blk[c]] =
                        IF Exclusive(c) THEN WriteResume(l, c) ELSE ReadResume(l, c)]
       /\ Goto(c, IF MustWait(c, l) THEN "wait" ELSE "setmode")
  /\ UNCHANGED <<lists, cache_lock, sector, dirty, valid, data, mode, disk, call, blk, got>>

SetMode(c) ==
  /\ pc[c] = "setmode"
  /\ mode' = [mode EXCEPT ![blk[c]] = IF Exclusive(c) THEN "WRITE_LOCKED" ELSE "READ_LOCKED"]
  /\ Goto(c, "check")
  /\ UNCHANGED <<lists, cache_lock, sector, dirty, valid, data, rw_lock, disk, call, blk, got>>

\* The block still carries the sector: cache_get_block returns it.
CheckGood(c) ==
  /\ pc[c] = "check"
  /\ sector[blk[c]] = want[c]
  /\ Goto(c, IF op[c] = "zero" THEN "zero" ELSE "read")
  /\ UNCHANGED <<lists, cache_lock, sector, dirty, valid, data, rw_lock, mode, disk, call, blk, got>>

\* The block was evicted while its lock was being acquired.
CheckEvicted(c) ==
  /\ pc[c] = "check"
  /\ sector[blk[c]] # want[c]
  /\ mode' = [mode EXCEPT ![blk[c]] = "UNLOCKED"]
  /\ Goto(c, "backoff")
  /\ UNCHANGED <<lists, cache_lock, sector, dirty, valid, data, rw_lock, disk, call, blk, got>>

BackOff(c) ==
  /\ pc[c] = "backoff"
  /\ rw_lock' = [rw_lock EXCEPT ![blk[c]] =
                   IF Exclusive(c) THEN write_lock_release(@) ELSE read_lock_release(@)]
  /\ Goto(c, "get")
  /\ UNCHANGED <<lists, cache_lock, sector, dirty, valid, data, mode, disk, call, blk, got>>

-----------------------------------------------------------------------------
(***************************************************************************)
(* Using the block, and cache_put_block.                                   *)
(***************************************************************************)
\* cache_read_block: the contents come from the disk unless they are valid.
ReadValid(c) ==
  /\ pc[c] = "read"
  /\ valid[blk[c]]
  /\ Goto(c, "use")
  /\ UNCHANGED <<lists, cache_lock, sector, dirty, valid, data, rw_lock, mode, disk, call, blk, got>>

ReadMiss(c) ==
  /\ pc[c] = "read"
  /\ ~valid[blk[c]]
  /\ Goto(c, "load")
  /\ UNCHANGED <<lists, cache_lock, sector, dirty, valid, data, rw_lock, mode, disk, call, blk, got>>

Load(c) ==
  /\ pc[c] = "load"
  /\ data' = [data EXCEPT ![blk[c]] = disk[sector[blk[c]]]]
  /\ Goto(c, "loaded")
  /\ UNCHANGED <<lists, cache_lock, sector, dirty, valid, rw_lock, mode, disk, call, blk, got>>

Loaded(c) ==
  /\ pc[c] = "loaded"
  /\ valid' = [valid EXCEPT ![blk[c]] = TRUE]
  /\ Goto(c, "use")
  /\ UNCHANGED <<lists, cache_lock, sector, dirty, data, rw_lock, mode, disk, call, blk, got>>

\* The caller looks at the contents; byte_to_sector marks the block dirty even
\* when it only looked.
Look(c) ==
  /\ pc[c] = "use" /\ op[c] \in {"read", "index"}
  /\ got' = [got EXCEPT ![c] = data[blk[c]]]
  /\ Goto(c, IF op[c] = "index" THEN "mark" ELSE "put")
  /\ UNCHANGED <<lists, cache_lock, sector, dirty, valid, data, rw_lock, mode, disk, call, blk>>

\* The caller changes the contents, then calls cache_mark_block_dirty.
Change(c) ==
  /\ pc[c] = "use" /\ op[c] = "write"
  /\ data' = [data EXCEPT ![blk[c]] = Modify(@)]
  /\ Goto(c, "mark")
  /\ UNCHANGED <<lists, cache_lock, sector, dirty, valid, rw_lock, mode, disk, call, blk, got>>

MutantNotMarked(c) ==
  /\ pc[c] = "mark"
  /\ Goto(c, "put")
  /\ UNCHANGED <<lists, cache_lock, sector, dirty, valid, data, rw_lock, mode, disk, call, blk, got>>

MarkDirty(c) ==
  /\ pc[c] = "mark"
  /\ dirty' = [dirty EXCEPT ![blk[c]] = TRUE]
  /\ Goto(c, "put")
  /\ UNCHANGED <<lists, cache_lock, sector, valid, data, rw_lock, mode, disk, call, blk, got>>

ZeroBlock(c) ==
  /\ pc[c] = "zero"
  /\ data' = [data EXCEPT ![blk[c]] = 0]
  /\ dirty' = [dirty EXCEPT ![blk[c]] = TRUE]
  /\ valid' = [valid EXCEPT ![blk[c]] = TRUE]
  /\ Goto(c, "put")
  /\ UNCHANGED <<lists, cache_lock, sector, rw_lock, mode, disk, call, blk, got>>

\* cache_put_block releases what the mode field says; the call's locals die.
MutantPutShared(c) ==
  /\ pc[c] = "put"
  /\ rw_lock' = [rw_lock EXCEPT ![blk[c]] = read_lock_release(@)]
  /\ op' = [op EXCEPT ![c] = "read"]
  /\ want' = [want EXCEPT ![c] = None]
  /\ blk' = [blk EXCEPT ![c] = None]
  /\ Goto(c, "idle")
  /\ UNCHANGED <<errands, lists, cache_lock, sector, dirty, valid, data, mode, disk, got>>

Put(c) ==
  /\ pc[c] = "put"
  /\ rw_lock' = [rw_lock EXCEPT ![blk[c]] =
                   CASE mode[blk[c]] = "WRITE_LOCKED" -> write_lock_release(@)
                     [] mode[blk[c]] = "READ_LOCKED"  -> read_lock_release(@)
                     [] OTHER                         -> @]
  /\ op' = [op EXCEPT ![c] = "read"]
  /\ want' = [want EXCEPT ![c] = None]
  /\ blk' = [blk EXCEPT ![c] = None]
  /\ Goto(c, "idle")
  /\ UNCHANGED <<errands, lists, cache_lock, sector, dirty, valid, data, mode, disk, got>>

-----------------------------------------------------------------------------
(***************************************************************************)
(* cache_flush, called by the write-behind daemon again and again.         *)
(***************************************************************************)
FlushStart ==
  /\ pc[Flusher] = "idle"
  /\ buffer_cache # << >>
  /\ blk' = [blk EXCEPT ![Flusher] = list_rbegin]
  /\ Goto(Flusher, "fcheck")
  /\ UNCHANGED <<lists, cache_lock, sector, dirty, valid, data, rw_lock, mode, disk, call, got>>

FlushCheck ==
  /\ pc[Flusher] = "fcheck"
  /\ Goto(Flusher, IF dirty[blk[Flusher]] THEN "ftry" ELSE "fnext")
  /\ UNCHANGED <<lists, cache_lock, sector, dirty, valid, data, rw_lock, mode, disk, call, blk, got>>

FlushTry ==
  /\ pc[Flusher] = "ftry"
  /\ LET l == rw_lock[blk[Flusher]] IN
       /\ rw_lock' = [rw_lock EXCEPT ![blk[Flusher]] =
                        IF TrySucceeds(l) THEN write_lock_try_acquire(l) ELSE l]
       /\ Goto(Flusher, IF TrySucceeds(l) THEN "fwrite" ELSE "fnext")
  /\ UNCHANGED <<lists, cache_lock, sector, dirty, valid, data, mode, disk, call, blk, got>>

FlushWrite ==
  /\ pc[Flusher] = "fwrite"
  /\ LET b == blk[Flusher] IN
       IF valid[b] /\ dirty[b]
       THEN /\ disk' = [disk EXCEPT ![sector[b]] = data[b]]
            /\ dirty' = [dirty EXCEPT ![b] = FALSE]
       ELSE UNCHANGED <<disk, dirty>>
  /\ Goto(Flusher, "funpin")
  /\ UNCHANGED <<lists, cache_lock, sector, valid, data, rw_lock, mode, call, blk, got>>

FlushUnpin ==
  /\ pc[Flusher] = "funpin"
  /\ rw_lock' = [rw_lock EXCEPT ![blk[Flusher]] = write_lock_release(@)]
  /\ Goto(Flusher, "fnext")
  /\ UNCHANGED <<lists, cache_lock, sector, dirty, valid, data, mode, disk, call, blk, got>>

FlushNext ==
  /\ pc[Flusher] = "fnext" /\ cache_lock = None
  /\ blk' = [blk EXCEPT ![Flusher] = list_prev(@)]
  /\ Goto(Flusher, IF list_prev(blk[Flusher]) = None THEN "idle" ELSE "fcheck")
  /\ UNCHANGED <<lists, cache_lock, sector, dirty, valid, data, rw_lock, mode, disk, call, got>>

-----------------------------------------------------------------------------
Get(c) ==
  \/ GetHit(c) \/ GetFree(c) \/ GetEvict(c)
  \/ EvictTake(c) \/ EvictSkip(c) \/ EvictWriteBack(c) \/ EvictRetag(c)
  \/ EvictUnpin(c) \/ EvictRelist(c)
  \/ Acquire(c) \/ Resume(c) \/ SetMode(c)
  \/ CheckGood(c) \/ CheckEvicted(c) \/ BackOff(c)

Use(c) ==
  \/ ReadValid(c) \/ ReadMiss(c) \/ Load(c) \/ Loaded(c)
  \/ Look(c) \/ Change(c) \/ MarkDirty(c) \/ ZeroBlock(c) \/ Put(c)

Flush ==
  \/ FlushStart \/ FlushCheck \/ FlushTry \/ FlushWrite \/ FlushUnpin \/ FlushNext

Next == Flush \/ \E c \in Clients : Call(c) \/ Get(c) \/ Use(c)

Spec == Init /\ [][Next]_vars
\* Every thread that can take a step of its own takes it eventually: threads are
\* preempted by the timer, and the scheduler picks each runnable one in turn.
\* Clients are not obliged to make calls.
Fairness ==
  /\ WF_vars(Flush)
  /\ \A c \in Clients : WF_vars(Get(c) \/ Use(c))

FairSpec == Spec /\ Fairness

-----------------------------------------------------------------------------
(***************************************************************************)
(* Properties.                                                             *)
(***************************************************************************)
InUse    == {"read", "load", "loaded", "use", "mark", "zero", "put"}
Holding  == {"setmode", "check", "backoff"} \cup InUse
Evicting == {"writeback", "retag", "unpin"}
Walking  == {"idle", "fcheck", "ftry", "fwrite", "funpin", "fnext"}

TypeOK ==
  /\ buffer_cache \in Seq(Blocks) /\ free_cache \in Seq(Blocks)
  /\ cache_lock \in Clients \cup {None}
  /\ sector \in [Blocks -> Sectors \cup {None}]
  /\ dirty \in [Blocks -> BOOLEAN] /\ valid \in [Blocks -> BOOLEAN]
  /\ data \in [Blocks -> Contents] /\ disk \in [Sectors -> Contents]
  /\ rw_lock \in [Blocks -> RWLockState(Threads)]
  /\ \A b \in Blocks : {rw_lock[b].num_readers, rw_lock[b].num_writers,
                        rw_lock[b].pending_readers} \subseteq Nat
  /\ mode \in [Blocks -> {"UNLOCKED", "READ_LOCKED", "WRITE_LOCKED"}]
  /\ \A c \in Clients : pc[c] \in Holding \cup Evicting \cup
                          {"idle", "get", "scan", "relist", "acquire", "wait"}
  /\ pc[Flusher] \in Walking
  /\ errands \in Errands
  /\ op \in [Clients -> {"read", "index", "write", "zero"}] /\ want \in [Clients -> Sectors \cup {None}]
  /\ blk \in [Threads -> Blocks \cup {None}]
  /\ got \in [Clients -> Contents]

\* The threads that hold b's rw_lock, shared and exclusively.
Readers(b) == {c \in Clients : blk[c] = b /\ pc[c] \in Holding /\ ~Exclusive(c)}
Writers(b) ==
  {c \in Clients : blk[c] = b /\ (pc[c] \in Evicting \/ (pc[c] \in Holding /\ Exclusive(c)))}
    \cup {t \in {Flusher} : blk[t] = b /\ pc[t] \in {"fwrite", "funpin"}}

\* The cache never gains or loses a block, whatever the evictions do to the
\* lists: each is in one of them, once ("size of buffer_cache + free_cache is
\* always 64", cache.c:26).
CacheSizeConstant ==
  /\ Len(buffer_cache) + Len(free_cache) = Cardinality(Blocks)
  /\ Queued(buffer_cache) \cup Queued(free_cache) = Blocks

\* One block is dedicated to a sector (cache_get_block, cache.c:80): two blocks
\* for one sector would be two copies that diverge.
OneBlockPerSector ==
  \A a, b \in Blocks : sector[a] = sector[b] /\ sector[a] # None => a = b

\* A caller that holds a block exclusively is alone with it.
WriterAlone ==
  \A c \in Clients : pc[c] \in Holding /\ Exclusive(c) =>
    Readers(blk[c]) = {} /\ Writers(blk[c]) = {c}

\* However the clients contend for blocks, none is lost or made twice and who
\* writes to one is alone in it.
ContentionIsSafe == TypeOK /\ CacheSizeConstant /\ WriterAlone

\* Every lock taken by cache_get_block is given back by cache_put_block, and no
\* other: the lock's counters are those of the threads inside a call.
LocksMatchHolders ==
  \A b \in Blocks : /\ rw_lock[b].num_readers = Cardinality(Readers(b))
                    /\ rw_lock[b].num_writers = Cardinality(Writers(b))

\* A clean block may be dropped: unless its writer is about to mark it, the disk
\* has what the block has.
CleanMeansSaved ==
  \A b \in Blocks :
    \/ ~valid[b] \/ dirty[b]
    \/ disk[sector[b]] = data[b]
    \/ \E c \in Clients : blk[c] = b /\ pc[c] = "mark"

\* Two blocks hold different sectors and the newest contents of a sector are in
\* its valid block, or else on the disk: the clients cannot tell the cache from
\* an array of sectors.
CurrentContents ==
  [s \in Sectors |->
     IF \E b \in Blocks : sector[b] = s /\ valid[b]
     THEN data[CHOOSE b \in Blocks : sector[b] = s /\ valid[b]]
     ELSE disk[s]]

\* A call takes effect when its client looks at, changes or zeroes the block.
CallsUnderWay ==
  [c \in Clients |->
     IF pc[c] = "idle" THEN [op |-> "none"]
     ELSE [op |-> op[c], on |-> want[c], done |-> pc[c] \in {"mark", "put"}]]

Store ==
  INSTANCE BlockStore
    WITH store <- CurrentContents, calls <- CallsUnderWay,
         Ops <- {"read", "index", "write", "zero"}

\* Each read returns what the last write left, no write is lost and none is
\* applied twice, through any number of evictions and write-behinds: every call
\* takes effect at once, and nothing else changes what the sectors hold.
ImplementsStore == Store!Spec

\* Clients that keep asking for one block never all get stuck: the lock's turns
\* and tries always let somebody finish.  (A particular writer may be overtaken
\* for ever: a thread that arrives takes the lock before one that was signalled.)
SomeCallFinishes == []<>(\E c \in Clients : pc[c] = "idle")
=============================================================================
