----------------------------- MODULE CacheLocks -----------------------------
(***************************************************************************)
(* The buffer cache (BufferCache): the invariant of CacheProofs, with the  *)
(* part that is about the blocks' locks, and what the ways a thread takes, *)
(* leaves or passes on a lock do to it.                                    *)
(*                                                                         *)
(* WriterAlone is not inductive.  A block's lock has counters, and the     *)
(* mode field beside it says what cache_put_block has to release; one      *)
(* reader may overwrite it under another, which then releases nothing.     *)
(* The invariant therefore bounds num_readers from below only, by the      *)
(* readers there are, and says when mode can be trusted: always by a       *)
(* writer, and by a reader as far as it never releases a writer's lock.    *)
(***************************************************************************)
EXTENDS CachePlaces

-----------------------------------------------------------------------------
(* The locks: an operation of rw-lock.c and the threads at the lock.  Q are    *)
(* the readers inside cond_wait, R those that hold the lock and P those among  *)
(* them that have set mode; X the writers of write_lock_acquire and Y those    *)
(* among them that mode serves; W all the writers, those that tried included.  *)
LockFits(l, m, Q, R, P, X, Y, W) ==
  /\ l.num_readers \in Nat /\ Cardinality(R) <= l.num_readers
  /\ l.num_writers \in {0, 1}
  /\ l.num_writers = 0 => W = {}
  /\ l.num_writers = 1 => \E w : W = {w}
  /\ l.pending_readers = Cardinality(Q)
  /\ X # {} => l.num_readers = 0 /\ ~l.reader_next
  /\ P # {} => m # "WRITE_LOCKED"
  /\ Y # {} => m = "WRITE_LOCKED"
  /\ P \subseteq R /\ Y \subseteq X /\ X \subseteq W
  /\ IsFiniteSet(Q) /\ IsFiniteSet(R)

\* Only the counters and reader_next matter.
LEMMA FitsAlike ==
  ASSUME NEW l, NEW m, NEW Q, NEW R, NEW P, NEW X, NEW Y, NEW W, LockFits(l, m, Q, R, P, X, Y, W),
         NEW n, n.num_readers = l.num_readers, n.num_writers = l.num_writers,
         n.pending_readers = l.pending_readers, n.reader_next = l.reader_next
  PROVE  LockFits(n, m, Q, R, P, X, Y, W)
BY Zenon DEF LockFits

\* A reader starts to wait, ...
LEMMA ReaderQueues ==
  ASSUME Counting, NEW l, NEW m, NEW Q, NEW R, NEW P, NEW X, NEW Y, NEW W, LockFits(l, m, Q, R, P, X, Y, W),
         NEW t, t \notin Q,
         NEW n, n.num_readers = l.num_readers, n.num_writers = l.num_writers,
         n.pending_readers = l.pending_readers + 1, n.reader_next = l.reader_next
  PROVE  LockFits(n, m, Q \cup {t}, R, P, X, Y, W)
<1>1. IsFiniteSet(Q \cup {t}) /\ Cardinality(Q \cup {t}) = Cardinality(Q) + 1
  BY DEF LockFits, Counting
<1>2. QED  BY <1>1, Zenon DEF LockFits

\* ... stops, ...
LEMMA ReaderLeavesQueue ==
  ASSUME Counting, NEW l, NEW m, NEW Q, NEW R, NEW P, NEW X, NEW Y, NEW W, LockFits(l, m, Q, R, P, X, Y, W),
         NEW t \in Q,
         NEW n, n.num_readers = l.num_readers, n.num_writers = l.num_writers,
         n.pending_readers = l.pending_readers - 1, n.reader_next = l.reader_next
  PROVE  LockFits(n, m, Q \ {t}, R, P, X, Y, W)
<1>1. IsFiniteSet(Q \ {t}) /\ Cardinality(Q \ {t}) = Cardinality(Q) - 1
  BY DEF LockFits, Counting
<1>2. QED  BY <1>1, Zenon DEF LockFits

\* ... takes the lock, which no writer of write_lock_acquire holds then, ...
LEMMA ReaderTakes ==
  ASSUME Counting, NEW l, NEW m, NEW Q, NEW R, NEW P, NEW X, NEW Y, NEW W, LockFits(l, m, Q, R, P, X, Y, W),
         NEW t, t \notin R, ~MustWaitToRead(l),
         NEW n, n.num_readers = l.num_readers + 1, n.num_writers = l.num_writers,
         n.pending_readers = l.pending_readers, n.reader_next = l.reader_next
  PROVE  LockFits(n, m, Q, R \cup {t}, P, X, Y, W)
<1>1. IsFiniteSet(R \cup {t}) /\ Cardinality(R \cup {t}) = Cardinality(R) + 1
  BY DEF LockFits, Counting
<1>2. X = {}
  BY DEF LockFits, MustWaitToRead
<1>3. Cardinality(R) \in Nat
  BY DEF LockFits, Counting
<1>4. n.num_readers \in Nat /\ Cardinality(R \cup {t}) <= n.num_readers
  BY <1>1, <1>3 DEF LockFits
<1>5. P \subseteq R \cup {t}
  BY DEF LockFits
<1>6. QED  BY <1>1, <1>2, <1>4, <1>5 DEF LockFits

\* ... and gives it back, or leaves without (cache_put_block finds mode UNLOCKED).
LEMMA ReaderLeaves ==
  ASSUME Counting, NEW l, NEW m, NEW Q, NEW R, NEW P, NEW X, NEW Y, NEW W, LockFits(l, m, Q, R, P, X, Y, W),
         NEW t \in R,
         NEW n, n.num_readers \in {l.num_readers, l.num_readers - 1}, n.num_writers = l.num_writers,
         n.pending_readers = l.pending_readers
  PROVE  LockFits(n, m, Q, R \ {t}, P \ {t}, X, Y, W)
<1>1. IsFiniteSet(R \ {t}) /\ Cardinality(R \ {t}) = Cardinality(R) - 1
  BY DEF LockFits, Counting
<1>2. Cardinality(R) \in Nat /\ Cardinality(R \ {t}) \in Nat
  BY <1>1 DEF LockFits, Counting
<1>3. n.num_readers \in Nat /\ Cardinality(R \ {t}) <= n.num_readers
  BY <1>1, <1>2 DEF LockFits
<1>4. l.num_readers # 0
  BY <1>1, <1>2 DEF LockFits
<1>5. X = {}
  BY <1>4 DEF LockFits
<1>6. /\ P \ {t} \subseteq R \ {t} /\ (P \ {t} # {} => m # "WRITE_LOCKED")
      /\ IsFiniteSet(R \ {t})
  BY <1>1 DEF LockFits
<1>7. /\ n.num_writers \in {0, 1} /\ (n.num_writers = 0 => W = {})
      /\ n.num_writers = 1 => \E w : W = {w}
      /\ n.pending_readers = Cardinality(Q) /\ IsFiniteSet(Q) /\ Y = {} /\ X \subseteq W
  BY <1>5 DEF LockFits
<1>8. QED  BY <1>3, <1>5, <1>6, <1>7, Zenon DEF LockFits

\* A writer takes a lock that has no holder, and unless it only tried it is not
\* the readers' turn.
LEMMA WriterTakes ==
  ASSUME NEW l, NEW m, NEW Q, NEW R, NEW P, NEW X, NEW Y, NEW W, LockFits(l, m, Q, R, P, X, Y, W),
         NEW t, TrySucceeds(l), NEW Z, Z = {} \/ (Z = {t} /\ ~l.reader_next),
         NEW n, n.num_readers = l.num_readers, n.num_writers = l.num_writers + 1,
         n.pending_readers = l.pending_readers, n.reader_next = l.reader_next
  PROVE  LockFits(n, m, Q, R, P, X \cup Z, Y, W \cup {t})
<1>1. l.num_readers = 0 /\ l.num_writers = 0
  BY DEF LockFits, TrySucceeds
<1>2. W = {} /\ X = {} /\ Y = {}
  BY <1>1 DEF LockFits
<1>3. /\ W \cup {t} = {t} /\ X \cup Z \subseteq W \cup {t} /\ Y \subseteq X \cup Z
      /\ X \cup Z # {} => ~l.reader_next
  BY <1>2
<1>4. n.num_writers = 1 /\ n.num_readers = 0
  BY <1>1
<1>5. /\ n.num_readers \in Nat /\ Cardinality(R) <= n.num_readers
      /\ n.pending_readers = Cardinality(Q) /\ (P # {} => m # "WRITE_LOCKED")
      /\ P \subseteq R /\ IsFiniteSet(Q) /\ IsFiniteSet(R)
  BY DEF LockFits
<1>6. QED  BY <1>2, <1>3, <1>4, <1>5 DEF LockFits

\* A writer gives the lock back; it was the only one.
LEMMA WriterLeaves ==
  ASSUME NEW l, NEW m, NEW Q, NEW R, NEW P, NEW X, NEW Y, NEW W, LockFits(l, m, Q, R, P, X, Y, W),
         NEW t \in W,
         NEW n, n.num_readers = l.num_readers, n.num_writers = l.num_writers - 1,
         n.pending_readers = l.pending_readers
  PROVE  LockFits(n, m, Q, R, P, X \ {t}, Y \ {t}, W \ {t})
<1>1. l.num_writers = 1 /\ W = {t}
  BY DEF LockFits
<1>2. W \ {t} = {} /\ X \ {t} = {} /\ Y \ {t} = {}
  BY <1>1 DEF LockFits
<1>3. QED  BY <1>1, <1>2 DEF LockFits

\* A reader sets mode: no writer relies on it.
LEMMA ReaderSetsMode ==
  ASSUME Counting, NEW l, NEW m, NEW Q, NEW R, NEW P, NEW X, NEW Y, NEW W, LockFits(l, m, Q, R, P, X, Y, W),
         NEW t \in R, NEW v \in {"READ_LOCKED", "UNLOCKED"}
  PROVE  LockFits(l, v, Q, R, P \cup {t}, X, Y, W)
<1>1. Cardinality(R) \in Nat /\ Cardinality(R) # 0
  BY DEF LockFits, Counting
<1>2. X = {}
  BY <1>1 DEF LockFits
<1>3. QED  BY <1>2 DEF LockFits

\* A writer sets it: no reader does, and no other writer.
LEMMA WriterSetsMode ==
  ASSUME Counting, NEW l, NEW m, NEW Q, NEW R, NEW P, NEW X, NEW Y, NEW W, LockFits(l, m, Q, R, P, X, Y, W),
         NEW t \in X, NEW v, NEW Z, Z = {} \/ (Z = {t} /\ v = "WRITE_LOCKED")
  PROVE  LockFits(l, v, Q, R, P, X, (Y \ {t}) \cup Z, W)
<1>1. Cardinality(R) \in Nat /\ l.num_readers = 0
  BY DEF LockFits, Counting
<1>2. Cardinality(R) = 0
  BY <1>1 DEF LockFits
<1>3. R = {} /\ P = {}
  BY <1>2 DEF LockFits, Counting
<1>4. X = {t} /\ Y \ {t} = {}
  BY DEF LockFits
<1>5. QED  BY <1>3, <1>4 DEF LockFits

-----------------------------------------------------------------------------
(* The invariant.  The role of a thread at the lock of its block: excl1 is a   *)
(* writer that mode serves, excl0 one before it set mode or after it cleared   *)
(* it, setr and reads are the same for readers, try is an evictor or flusher.  *)
RoleOf(l, o) ==
  CASE l = "wait" /\ o \notin {"write", "zero"} -> "queue"
    [] l = "setmode" /\ o \notin {"write", "zero"} -> "setr"
    [] l \in Holding \ {"setmode"} /\ o \notin {"write", "zero"} -> "reads"
    [] l \in {"setmode", "backoff"} /\ o \in {"write", "zero"} -> "excl0"
    [] l \in InUse \cup {"check"} /\ o \in {"write", "zero"} -> "excl1"
    [] l \in Evicting \cup {"fwrite", "funpin"} -> "try"
    [] OTHER -> "none"

role == [t \in Threads |-> RoleOf(pc[t], IF t \in Clients THEN op[t] ELSE "read")]

InOf(r, k, b, K) == {t \in Threads : r[t] \in K /\ k[t] = b}

FitsOf(b, l, m, r, k) ==
  LockFits(l, m, InOf(r, k, b, {"queue"}), InOf(r, k, b, {"setr", "reads"}),
           InOf(r, k, b, {"reads"}), InOf(r, k, b, {"excl0", "excl1"}),
           InOf(r, k, b, {"excl1"}), InOf(r, k, b, {"excl0", "excl1", "try"}))

Locks == \A b \in Blocks : FitsOf(b, rw_lock[b], mode[b], role, blk)

IInv == Placed /\ Locks

-----------------------------------------------------------------------------
(* t goes from role i to role j at the lock of b; no other lock moves.         *)
Moves(t, b, i, j) ==
  /\ role[t] = i /\ role'[t] = j
  /\ i # "none" => blk[t] = b
  /\ j # "none" => blk'[t] = b
  /\ \A u \in Threads \ {t} : role'[u] = role[u] /\ blk'[u] = blk[u]
  /\ \A d \in Blocks \ {b} : rw_lock'[d] = rw_lock[d] /\ mode'[d] = mode[d]

\* What that does to the threads in the roles K.
LEMMA InMoves ==
  ASSUME NEW t \in Threads, NEW b \in Blocks, NEW i, NEW j, Moves(t, b, i, j),
         NEW K, "none" \notin K
  PROVE  /\ \A d \in Blocks \ {b} : InOf(role', blk', d, K) = InOf(role, blk, d, K)
         /\ i \in K /\ j \in K => InOf(role', blk', b, K) = InOf(role, blk, b, K)
         /\ i \notin K /\ j \notin K => InOf(role', blk', b, K) = InOf(role, blk, b, K)
         /\ i \in K /\ j \notin K => InOf(role', blk', b, K) = InOf(role, blk, b, K) \ {t}
         /\ i \notin K /\ j \in K => InOf(role', blk', b, K) = InOf(role, blk, b, K) \cup {t}
         /\ t \in InOf(role, blk, b, K) <=> i \in K
<1>1. t \in InOf(role, blk, b, K) <=> i \in K
  BY DEF InOf, Moves
<1>2. \A u \in Threads \ {t}, d \in Blocks : u \in InOf(role', blk', d, K) <=> u \in InOf(role, blk, d, K)
  BY DEF InOf, Moves
<1>3. \A d \in Blocks \ {b} : t \notin InOf(role', blk', d, K) /\ t \notin InOf(role, blk, d, K)
  BY DEF InOf, Moves
<1>4. t \in InOf(role', blk', b, K) <=> j \in K
  BY DEF InOf, Moves
<1>5. \A r, k, d : InOf(r, k, d, K) \subseteq Threads
  BY DEF InOf
<1>6. \A d \in Blocks \ {b} : InOf(role', blk', d, K) = InOf(role, blk, d, K)
  BY <1>2, <1>3, <1>5
<1>7. QED  BY <1>1, <1>2, <1>4, <1>5, <1>6

LEMMA LocksMove ==
  ASSUME Locks, NEW t \in Threads, NEW b \in Blocks, NEW i, NEW j, Moves(t, b, i, j),
         FitsOf(b, rw_lock'[b], mode'[b], role', blk')
  PROVE  Locks'
<1> SUFFICES ASSUME NEW d \in Blocks \ {b}
             PROVE  FitsOf(d, rw_lock'[d], mode'[d], role', blk')
  BY DEF Locks
<1>1. FitsOf(d, rw_lock[d], mode[d], role, blk) /\ rw_lock'[d] = rw_lock[d] /\ mode'[d] = mode[d]
  BY DEF Locks, Moves
<1>2. \A K \in SUBSET {"queue", "setr", "reads", "excl0", "excl1", "try"} :
         InOf(role', blk', d, K) = InOf(role, blk, d, K)
  BY InMoves
<1>3. QED  BY <1>1, <1>2 DEF FitsOf

\* Nobody comes, goes or touches a lock.
LEMMA LocksStay ==
  ASSUME Locks, rw_lock' = rw_lock, mode' = mode,
         \A t \in Threads : role'[t] = role[t] /\ (role[t] # "none" => blk'[t] = blk[t])
  PROVE  Locks'
<1>1. \A b, K : "none" \notin K => InOf(role', blk', b, K) = InOf(role, blk, b, K)
  BY DEF InOf
<1>2. QED  BY <1>1 DEF Locks, FitsOf

-----------------------------------------------------------------------------
(* The moves.                                                                  *)

\* A reader starts to wait.
LEMMA Queues ==
  ASSUME Counting, Locks, NEW t \in Threads, NEW b \in Blocks, Moves(t, b, "none", "queue"),
         mode'[b] = mode[b],
         rw_lock'[b].num_readers = rw_lock[b].num_readers,
         rw_lock'[b].num_writers = rw_lock[b].num_writers,
         rw_lock'[b].pending_readers = rw_lock[b].pending_readers + 1,
         rw_lock'[b].reader_next = rw_lock[b].reader_next
  PROVE  Locks'
<1> DEFINE In(K) == InOf(role, blk, b, K)
           New(K) == InOf(role', blk', b, K)
<1>1. /\ New({"queue"}) = In({"queue"}) \cup {t} /\ t \notin In({"queue"})
      /\ New({"setr", "reads"}) = In({"setr", "reads"}) /\ t \notin In({"setr", "reads"})
      /\ New({"reads"}) = In({"reads"}) /\ t \notin In({"reads"})
      /\ New({"excl0", "excl1"}) = In({"excl0", "excl1"}) /\ t \notin In({"excl0", "excl1"})
      /\ New({"excl1"}) = In({"excl1"}) /\ t \notin In({"excl1"})
      /\ New({"excl0", "excl1", "try"}) = In({"excl0", "excl1", "try"}) /\ t \notin In({"excl0", "excl1", "try"})
  BY InMoves
<1>2. LockFits(rw_lock[b], mode[b], In({"queue"}), In({"setr", "reads"}), In({"reads"}),
               In({"excl0", "excl1"}), In({"excl1"}), In({"excl0", "excl1", "try"}))
  BY DEF Locks, FitsOf
<1> HIDE DEF In, New
<1>3. LockFits(rw_lock'[b], mode'[b], New({"queue"}), New({"setr", "reads"}), New({"reads"}),
               New({"excl0", "excl1"}), New({"excl1"}), New({"excl0", "excl1", "try"}))
  BY <1>1, <1>2, ReaderQueues
<1>4. QED  BY <1>3, LocksMove DEF FitsOf, New

\* A reader takes the lock at once, ...
LEMMA TakesShared ==
  ASSUME Counting, Locks, NEW t \in Threads, NEW b \in Blocks, Moves(t, b, "none", "setr"),
         mode'[b] = mode[b], ~MustWaitToRead(rw_lock[b]),
         rw_lock'[b].num_readers = rw_lock[b].num_readers + 1,
         rw_lock'[b].num_writers = rw_lock[b].num_writers,
         rw_lock'[b].pending_readers = rw_lock[b].pending_readers,
         rw_lock'[b].reader_next = rw_lock[b].reader_next
  PROVE  Locks'
<1> DEFINE In(K) == InOf(role, blk, b, K)
           New(K) == InOf(role', blk', b, K)
<1>1. /\ New({"queue"}) = In({"queue"}) /\ t \notin In({"queue"})
      /\ New({"setr", "reads"}) = In({"setr", "reads"}) \cup {t} /\ t \notin In({"setr", "reads"})
      /\ New({"reads"}) = In({"reads"}) /\ t \notin In({"reads"})
      /\ New({"excl0", "excl1"}) = In({"excl0", "excl1"}) /\ t \notin In({"excl0", "excl1"})
      /\ New({"excl1"}) = In({"excl1"}) /\ t \notin In({"excl1"})
      /\ New({"excl0", "excl1", "try"}) = In({"excl0", "excl1", "try"}) /\ t \notin In({"excl0", "excl1", "try"})
  BY InMoves
<1>2. LockFits(rw_lock[b], mode[b], In({"queue"}), In({"setr", "reads"}), In({"reads"}),
               In({"excl0", "excl1"}), In({"excl1"}), In({"excl0", "excl1", "try"}))
  BY DEF Locks, FitsOf
<1> HIDE DEF In, New
<1>3. LockFits(rw_lock'[b], mode'[b], New({"queue"}), New({"setr", "reads"}), New({"reads"}),
               New({"excl0", "excl1"}), New({"excl1"}), New({"excl0", "excl1", "try"}))
  BY <1>1, <1>2, ReaderTakes
<1>4. QED  BY <1>3, LocksMove DEF FitsOf, New

\* ... or after waiting.
LEMMA ResumesShared ==
  ASSUME Counting, Locks, NEW t \in Threads, NEW b \in Blocks, Moves(t, b, "queue", "setr"),
         mode'[b] = mode[b], ~MustWaitToRead(rw_lock[b]),
         rw_lock[b] \in RWLockState(Threads),
         rw_lock'[b].num_readers = rw_lock[b].num_readers + 1,
         rw_lock'[b].num_writers = rw_lock[b].num_writers,
         rw_lock'[b].pending_readers = rw_lock[b].pending_readers - 1,
         rw_lock'[b].reader_next = rw_lock[b].reader_next
  PROVE  Locks'
<1> DEFINE In(K) == InOf(role, blk, b, K)
           New(K) == InOf(role', blk', b, K)
<1>1. /\ New({"queue"}) = In({"queue"}) \ {t} /\ t \in In({"queue"})
      /\ New({"setr", "reads"}) = In({"setr", "reads"}) \cup {t} /\ t \notin In({"setr", "reads"})
      /\ New({"reads"}) = In({"reads"}) /\ t \notin In({"reads"})
      /\ New({"excl0", "excl1"}) = In({"excl0", "excl1"}) /\ t \notin In({"excl0", "excl1"})
      /\ New({"excl1"}) = In({"excl1"}) /\ t \notin In({"excl1"})
      /\ New({"excl0", "excl1", "try"}) = In({"excl0", "excl1", "try"}) /\ t \notin In({"excl0", "excl1", "try"})
  BY InMoves
<1>2. LockFits(rw_lock[b], mode[b], In({"queue"}), In({"setr", "reads"}), In({"reads"}),
               In({"excl0", "excl1"}), In({"excl1"}), In({"excl0", "excl1", "try"}))
  BY DEF Locks, FitsOf
<1> HIDE DEF In, New
<1> DEFINE k == [rw_lock[b] EXCEPT !.pending_readers = rw_lock[b].pending_readers - 1]
<1>a. /\ k.num_readers = rw_lock[b].num_readers /\ k.num_writers = rw_lock[b].num_writers
      /\ k.pending_readers = rw_lock[b].pending_readers - 1 /\ k.reader_next = rw_lock[b].reader_next
      /\ ~MustWaitToRead(k)
  BY DEF MustWaitToRead, RWLockState
<1> HIDE DEF k
<1>b. LockFits(k, mode[b], In({"queue"}) \ {t}, In({"setr", "reads"}), In({"reads"}),
               In({"excl0", "excl1"}), In({"excl1"}), In({"excl0", "excl1", "try"}))
  BY <1>1, <1>2, <1>a, ReaderLeavesQueue
<1>c. /\ rw_lock'[b].num_readers = k.num_readers + 1 /\ rw_lock'[b].num_writers = k.num_writers
      /\ rw_lock'[b].pending_readers = k.pending_readers /\ rw_lock'[b].reader_next = k.reader_next
  BY <1>a
<1>3. LockFits(rw_lock'[b], mode'[b], New({"queue"}), New({"setr", "reads"}), New({"reads"}),
               New({"excl0", "excl1"}), New({"excl1"}), New({"excl0", "excl1", "try"}))
  <2>1. t \notin In({"setr", "reads"})
    BY <1>1
  <2>2. LockFits(rw_lock'[b], mode[b], In({"queue"}) \ {t}, In({"setr", "reads"}) \cup {t},
                 In({"reads"}), In({"excl0", "excl1"}), In({"excl1"}), In({"excl0", "excl1", "try"}))
    BY <1>a, <1>b, <1>c, <2>1, ReaderTakes
  <2>3. QED  BY <1>1, <2>2, Zenon
<1>4. QED  BY <1>3, LocksMove DEF FitsOf, New

\* It sets mode, ...
LEMMA SetsShared ==
  ASSUME Counting, Locks, NEW t \in Threads, NEW b \in Blocks, Moves(t, b, "setr", "reads"),
         rw_lock'[b] = rw_lock[b], mode'[b] = "READ_LOCKED"
  PROVE  Locks'
<1> DEFINE In(K) == InOf(role, blk, b, K)
           New(K) == InOf(role', blk', b, K)
<1>1. /\ New({"queue"}) = In({"queue"}) /\ t \notin In({"queue"})
      /\ New({"setr", "reads"}) = In({"setr", "reads"}) /\ t \in In({"setr", "reads"})
      /\ New({"reads"}) = In({"reads"}) \cup {t} /\ t \notin In({"reads"})
      /\ New({"excl0", "excl1"}) = In({"excl0", "excl1"}) /\ t \notin In({"excl0", "excl1"})
      /\ New({"excl1"}) = In({"excl1"}) /\ t \notin In({"excl1"})
      /\ New({"excl0", "excl1", "try"}) = In({"excl0", "excl1", "try"}) /\ t \notin In({"excl0", "excl1", "try"})
  BY InMoves
<1>2. LockFits(rw_lock[b], mode[b], In({"queue"}), In({"setr", "reads"}), In({"reads"}),
               In({"excl0", "excl1"}), In({"excl1"}), In({"excl0", "excl1", "try"}))
  BY DEF Locks, FitsOf
<1> HIDE DEF In, New
<1>3. LockFits(rw_lock'[b], mode'[b], New({"queue"}), New({"setr", "reads"}), New({"reads"}),
               New({"excl0", "excl1"}), New({"excl1"}), New({"excl0", "excl1", "try"}))
  BY <1>1, <1>2, ReaderSetsMode
<1>4. QED  BY <1>3, LocksMove DEF FitsOf, New

\* ... clears it (cache_get_block found another sector), ...
LEMMA ClearsShared ==
  ASSUME Counting, Locks, NEW t \in Threads, NEW b \in Blocks, Moves(t, b, "reads", "reads"),
         rw_lock'[b] = rw_lock[b], mode'[b] = "UNLOCKED"
  PROVE  Locks'
<1> DEFINE In(K) == InOf(role, blk, b, K)
           New(K) == InOf(role', blk', b, K)
<1>1. /\ New({"queue"}) = In({"queue"}) /\ t \notin In({"queue"})
      /\ New({"setr", "reads"}) = In({"setr", "reads"}) /\ t \in In({"setr", "reads"})
      /\ New({"reads"}) = In({"reads"}) /\ t \in In({"reads"})
      /\ New({"excl0", "excl1"}) = In({"excl0", "excl1"}) /\ t \notin In({"excl0", "excl1"})
      /\ New({"excl1"}) = In({"excl1"}) /\ t \notin In({"excl1"})
      /\ New({"excl0", "excl1", "try"}) = In({"excl0", "excl1", "try"}) /\ t \notin In({"excl0", "excl1", "try"})
  BY InMoves
<1>2. LockFits(rw_lock[b], mode[b], In({"queue"}), In({"setr", "reads"}), In({"reads"}),
               In({"excl0", "excl1"}), In({"excl1"}), In({"excl0", "excl1", "try"}))
  BY DEF Locks, FitsOf
<1> HIDE DEF In, New
<1>3. LockFits(rw_lock'[b], mode'[b], New({"queue"}), New({"setr", "reads"}), New({"reads"}),
               New({"excl0", "excl1"}), New({"excl1"}), New({"excl0", "excl1", "try"}))
  <2>1. In({"reads"}) \cup {t} = In({"reads"})
    BY <1>1
  <2>2. QED  BY <1>1, <1>2, <2>1, ReaderSetsMode
<1>4. QED  BY <1>3, LocksMove DEF FitsOf, New

\* ... and leaves.
LEMMA LeavesShared ==
  ASSUME Counting, Locks, NEW t \in Threads, NEW b \in Blocks, Moves(t, b, "reads", "none"),
         mode'[b] = mode[b],
         rw_lock'[b].num_readers \in {rw_lock[b].num_readers, rw_lock[b].num_readers - 1},
         rw_lock'[b].num_writers = rw_lock[b].num_writers,
         rw_lock'[b].pending_readers = rw_lock[b].pending_readers
  PROVE  Locks'
<1> DEFINE In(K) == InOf(role, blk, b, K)
           New(K) == InOf(role', blk', b, K)
<1>1. /\ New({"queue"}) = In({"queue"}) /\ t \notin In({"queue"})
      /\ New({"setr", "reads"}) = In({"setr", "reads"}) \ {t} /\ t \in In({"setr", "reads"})
      /\ New({"reads"}) = In({"reads"}) \ {t} /\ t \in In({"reads"})
      /\ New({"excl0", "excl1"}) = In({"excl0", "excl1"}) /\ t \notin In({"excl0", "excl1"})
      /\ New({"excl1"}) = In({"excl1"}) /\ t \notin In({"excl1"})
      /\ New({"excl0", "excl1", "try"}) = In({"excl0", "excl1", "try"}) /\ t \notin In({"excl0", "excl1", "try"})
  BY InMoves
<1>2. LockFits(rw_lock[b], mode[b], In({"queue"}), In({"setr", "reads"}), In({"reads"}),
               In({"excl0", "excl1"}), In({"excl1"}), In({"excl0", "excl1", "try"}))
  BY DEF Locks, FitsOf
<1> HIDE DEF In, New
<1>3. LockFits(rw_lock'[b], mode'[b], New({"queue"}), New({"setr", "reads"}), New({"reads"}),
               New({"excl0", "excl1"}), New({"excl1"}), New({"excl0", "excl1", "try"}))
  <2>1. t \in In({"setr", "reads"})
    BY <1>1
  <2>2. LockFits(rw_lock'[b], mode[b], In({"queue"}), In({"setr", "reads"}) \ {t}, In({"reads"}) \ {t},
                 In({"excl0", "excl1"}), In({"excl1"}), In({"excl0", "excl1", "try"}))
    BY <1>2, <2>1, ReaderLeaves
  <2>3. QED  BY <1>1, <2>2, Zenon
<1>4. QED  BY <1>3, LocksMove DEF FitsOf, New

\* A writer takes the lock, ...
LEMMA TakesExclusive ==
  ASSUME Locks, NEW t \in Threads, NEW b \in Blocks, Moves(t, b, "none", "excl0"),
         mode'[b] = mode[b], ~MustWaitToWrite(rw_lock[b]), rw_lock[b] \in RWLockState(Threads),
         rw_lock'[b].num_readers = rw_lock[b].num_readers,
         rw_lock'[b].num_writers = rw_lock[b].num_writers + 1,
         rw_lock'[b].pending_readers = rw_lock[b].pending_readers,
         rw_lock'[b].reader_next = rw_lock[b].reader_next
  PROVE  Locks'
<1> DEFINE In(K) == InOf(role, blk, b, K)
           New(K) == InOf(role', blk', b, K)
<1>1. /\ New({"queue"}) = In({"queue"}) /\ t \notin In({"queue"})
      /\ New({"setr", "reads"}) = In({"setr", "reads"}) /\ t \notin In({"setr", "reads"})
      /\ New({"reads"}) = In({"reads"}) /\ t \notin In({"reads"})
      /\ New({"excl0", "excl1"}) = In({"excl0", "excl1"}) \cup {t} /\ t \notin In({"excl0", "excl1"})
      /\ New({"excl1"}) = In({"excl1"}) /\ t \notin In({"excl1"})
      /\ New({"excl0", "excl1", "try"}) = In({"excl0", "excl1", "try"}) \cup {t} /\ t \notin In({"excl0", "excl1", "try"})
  BY InMoves
<1>2. LockFits(rw_lock[b], mode[b], In({"queue"}), In({"setr", "reads"}), In({"reads"}),
               In({"excl0", "excl1"}), In({"excl1"}), In({"excl0", "excl1", "try"}))
  BY DEF Locks, FitsOf
<1> HIDE DEF In, New
<1>3. LockFits(rw_lock'[b], mode'[b], New({"queue"}), New({"setr", "reads"}), New({"reads"}),
               New({"excl0", "excl1"}), New({"excl1"}), New({"excl0", "excl1", "try"}))
  <2>1. TrySucceeds(rw_lock[b]) /\ ~rw_lock[b].reader_next
    BY DEF MustWaitToWrite, TrySucceeds
  <2>2. \A Z : Z = {} \/ (Z = {t} /\ ~rw_lock[b].reader_next) =>
           LockFits(rw_lock'[b], mode[b], In({"queue"}), In({"setr", "reads"}), In({"reads"}),
                    In({"excl0", "excl1"}) \cup Z, In({"excl1"}), In({"excl0", "excl1", "try"}) \cup {t})
    BY <1>2, <2>1, WriterTakes, Zenon
  <2>3. QED  BY <1>1, <2>1, <2>2, Zenon
<1>4. QED  BY <1>3, LocksMove DEF FitsOf, New

\* ... sets mode, ...
LEMMA SetsExclusive ==
  ASSUME Counting, Locks, NEW t \in Threads, NEW b \in Blocks, Moves(t, b, "excl0", "excl1"),
         rw_lock'[b] = rw_lock[b], mode'[b] = "WRITE_LOCKED"
  PROVE  Locks'
<1> DEFINE In(K) == InOf(role, blk, b, K)
           New(K) == InOf(role', blk', b, K)
<1>1. /\ New({"queue"}) = In({"queue"}) /\ t \notin In({"queue"})
      /\ New({"setr", "reads"}) = In({"setr", "reads"}) /\ t \notin In({"setr", "reads"})
      /\ New({"reads"}) = In({"reads"}) /\ t \notin In({"reads"})
      /\ New({"excl0", "excl1"}) = In({"excl0", "excl1"}) /\ t \in In({"excl0", "excl1"})
      /\ New({"excl1"}) = In({"excl1"}) \cup {t} /\ t \notin In({"excl1"})
      /\ New({"excl0", "excl1", "try"}) = In({"excl0", "excl1", "try"}) /\ t \in In({"excl0", "excl1", "try"})
  BY InMoves
<1>2. LockFits(rw_lock[b], mode[b], In({"queue"}), In({"setr", "reads"}), In({"reads"}),
               In({"excl0", "excl1"}), In({"excl1"}), In({"excl0", "excl1", "try"}))
  BY DEF Locks, FitsOf
<1> HIDE DEF In, New
<1>3. LockFits(rw_lock'[b], mode'[b], New({"queue"}), New({"setr", "reads"}), New({"reads"}),
               New({"excl0", "excl1"}), New({"excl1"}), New({"excl0", "excl1", "try"}))
  <2>1. In({"excl1"}) \cup {t} = (In({"excl1"}) \ {t}) \cup {t} /\ t \in In({"excl0", "excl1"})
    BY <1>1
  <2>2. \A v, Z : Z = {} \/ (Z = {t} /\ v = "WRITE_LOCKED") =>
           LockFits(rw_lock[b], v, In({"queue"}), In({"setr", "reads"}), In({"reads"}),
                    In({"excl0", "excl1"}), (In({"excl1"}) \ {t}) \cup Z, In({"excl0", "excl1", "try"}))
    BY <1>2, <2>1, WriterSetsMode, Zenon
  <2>3. LockFits(rw_lock[b], "WRITE_LOCKED", In({"queue"}), In({"setr", "reads"}), In({"reads"}),
                 In({"excl0", "excl1"}), (In({"excl1"}) \ {t}) \cup {t}, In({"excl0", "excl1", "try"}))
    BY <2>2, Zenon
  <2>4. QED  BY <1>1, <2>1, <2>3
<1>4. QED  BY <1>3, LocksMove DEF FitsOf, New

\* ... clears it, ...
LEMMA ClearsExclusive ==
  ASSUME Counting, Locks, NEW t \in Threads, NEW b \in Blocks, Moves(t, b, "excl1", "excl0"),
         rw_lock'[b] = rw_lock[b], mode'[b] = "UNLOCKED"
  PROVE  Locks'
<1> DEFINE In(K) == InOf(role, blk, b, K)
           New(K) == InOf(role', blk', b, K)
<1>1. /\ New({"queue"}) = In({"queue"}) /\ t \notin In({"queue"})
      /\ New({"setr", "reads"}) = In({"setr", "reads"}) /\ t \notin In({"setr", "reads"})
      /\ New({"reads"}) = In({"reads"}) /\ t \notin In({"reads"})
      /\ New({"excl0", "excl1"}) = In({"excl0", "excl1"}) /\ t \in In({"excl0", "excl1"})
      /\ New({"excl1"}) = In({"excl1"}) \ {t} /\ t \in In({"excl1"})
      /\ New({"excl0", "excl1", "try"}) = In({"excl0", "excl1", "try"}) /\ t \in In({"excl0", "excl1", "try"})
  BY InMoves
<1>2. LockFits(rw_lock[b], mode[b], In({"queue"}), In({"setr", "reads"}), In({"reads"}),
               In({"excl0", "excl1"}), In({"excl1"}), In({"excl0", "excl1", "try"}))
  BY DEF Locks, FitsOf
<1> HIDE DEF In, New
<1>3. LockFits(rw_lock'[b], mode'[b], New({"queue"}), New({"setr", "reads"}), New({"reads"}),
               New({"excl0", "excl1"}), New({"excl1"}), New({"excl0", "excl1", "try"}))
  <2>1. In({"excl1"}) \ {t} = (In({"excl1"}) \ {t}) \cup {} /\ t \in In({"excl0", "excl1"})
    BY <1>1
  <2>2. \A v, Z : Z = {} \/ (Z = {t} /\ v = "WRITE_LOCKED") =>
           LockFits(rw_lock[b], v, In({"queue"}), In({"setr", "reads"}), In({"reads"}),
                    In({"excl0", "excl1"}), (In({"excl1"}) \ {t}) \cup Z, In({"excl0", "excl1", "try"}))
    BY <1>2, <2>1, WriterSetsMode, Zenon
  <2>3. LockFits(rw_lock[b], "UNLOCKED", In({"queue"}), In({"setr", "reads"}), In({"reads"}),
                 In({"excl0", "excl1"}), (In({"excl1"}) \ {t}) \cup {}, In({"excl0", "excl1", "try"}))
    BY <2>2, Zenon
  <2>4. QED  BY <1>1, <2>1, <2>3
<1>4. QED  BY <1>3, LocksMove DEF FitsOf, New

\* ... and leaves, mode cleared ...
LEMMA LeavesExclusive ==
  ASSUME Locks, NEW t \in Threads, NEW b \in Blocks, Moves(t, b, "excl0", "none"),
         mode'[b] = mode[b],
         rw_lock'[b].num_readers = rw_lock[b].num_readers,
         rw_lock'[b].num_writers = rw_lock[b].num_writers - 1,
         rw_lock'[b].pending_readers = rw_lock[b].pending_readers
  PROVE  Locks'
<1> DEFINE In(K) == InOf(role, blk, b, K)
           New(K) == InOf(role', blk', b, K)
<1>1. /\ New({"queue"}) = In({"queue"}) /\ t \notin In({"queue"})
      /\ New({"setr", "reads"}) = In({"setr", "reads"}) /\ t \notin In({"setr", "reads"})
      /\ New({"reads"}) = In({"reads"}) /\ t \notin In({"reads"})
      /\ New({"excl0", "excl1"}) = In({"excl0", "excl1"}) \ {t} /\ t \in In({"excl0", "excl1"})
      /\ New({"excl1"}) = In({"excl1"}) /\ t \notin In({"excl1"})
      /\ New({"excl0", "excl1", "try"}) = In({"excl0", "excl1", "try"}) \ {t} /\ t \in In({"excl0", "excl1", "try"})
  BY InMoves
<1>2. LockFits(rw_lock[b], mode[b], In({"queue"}), In({"setr", "reads"}), In({"reads"}),
               In({"excl0", "excl1"}), In({"excl1"}), In({"excl0", "excl1", "try"}))
  BY DEF Locks, FitsOf
<1> HIDE DEF In, New
<1>3. LockFits(rw_lock'[b], mode'[b], New({"queue"}), New({"setr", "reads"}), New({"reads"}),
               New({"excl0", "excl1"}), New({"excl1"}), New({"excl0", "excl1", "try"}))
  <2>1. In({"excl1"}) \ {t} = In({"excl1"})
    BY <1>1
  <2>2. t \in In({"excl0", "excl1", "try"})
    BY <1>1
  <2>3. LockFits(rw_lock'[b], mode[b], In({"queue"}), In({"setr", "reads"}), In({"reads"}),
                 In({"excl0", "excl1"}) \ {t}, In({"excl1"}) \ {t}, In({"excl0", "excl1", "try"}) \ {t})
    BY <1>2, <2>2, WriterLeaves
  <2>4. QED  BY <1>1, <2>1, <2>3, Zenon
<1>4. QED  BY <1>3, LocksMove DEF FitsOf, New

\* ... or not.
LEMMA PutsExclusive ==
  ASSUME Locks, NEW t \in Threads, NEW b \in Blocks, Moves(t, b, "excl1", "none"),
         mode'[b] = mode[b],
         rw_lock'[b].num_readers = rw_lock[b].num_readers,
         rw_lock'[b].num_writers = rw_lock[b].num_writers - 1,
         rw_lock'[b].pending_readers = rw_lock[b].pending_readers
  PROVE  Locks'
<1> DEFINE In(K) == InOf(role, blk, b, K)
           New(K) == InOf(role', blk', b, K)
<1>1. /\ New({"queue"}) = In({"queue"}) /\ t \notin In({"queue"})
      /\ New({"setr", "reads"}) = In({"setr", "reads"}) /\ t \notin In({"setr", "reads"})
      /\ New({"reads"}) = In({"reads"}) /\ t \notin In({"reads"})
      /\ New({"excl0", "excl1"}) = In({"excl0", "excl1"}) \ {t} /\ t \in In({"excl0", "excl1"})
      /\ New({"excl1"}) = In({"excl1"}) \ {t} /\ t \in In({"excl1"})
      /\ New({"excl0", "excl1", "try"}) = In({"excl0", "excl1", "try"}) \ {t} /\ t \in In({"excl0", "excl1", "try"})
  BY InMoves
<1>2. LockFits(rw_lock[b], mode[b], In({"queue"}), In({"setr", "reads"}), In({"reads"}),
               In({"excl0", "excl1"}), In({"excl1"}), In({"excl0", "excl1", "try"}))
  BY DEF Locks, FitsOf
<1> HIDE DEF In, New
<1>3. LockFits(rw_lock'[b], mode'[b], New({"queue"}), New({"setr", "reads"}), New({"reads"}),
               New({"excl0", "excl1"}), New({"excl1"}), New({"excl0", "excl1", "try"}))
  <2>1. t \in In({"excl0", "excl1", "try"})
    BY <1>1
  <2>2. LockFits(rw_lock'[b], mode[b], In({"queue"}), In({"setr", "reads"}), In({"reads"}),
                 In({"excl0", "excl1"}) \ {t}, In({"excl1"}) \ {t}, In({"excl0", "excl1", "try"}) \ {t})
    BY <1>2, <2>1, WriterLeaves
  <2>3. QED  BY <1>1, <2>2, Zenon
<1>4. QED  BY <1>3, LocksMove DEF FitsOf, New

\* An evictor or the flusher takes the lock by trying, ...
LEMMA TakesTrying ==
  ASSUME Locks, NEW t \in Threads, NEW b \in Blocks, Moves(t, b, "none", "try"),
         mode'[b] = mode[b], TrySucceeds(rw_lock[b]),
         rw_lock'[b].num_readers = rw_lock[b].num_readers,
         rw_lock'[b].num_writers = rw_lock[b].num_writers + 1,
         rw_lock'[b].pending_readers = rw_lock[b].pending_readers,
         rw_lock'[b].reader_next = rw_lock[b].reader_next
  PROVE  Locks'
<1> DEFINE In(K) == InOf(role, blk, b, K)
           New(K) == InOf(role', blk', b, K)
<1>1. /\ New({"queue"}) = In({"queue"}) /\ t \notin In({"queue"})
      /\ New({"setr", "reads"}) = In({"setr", "reads"}) /\ t \notin In({"setr", "reads"})
      /\ New({"reads"}) = In({"reads"}) /\ t \notin In({"reads"})
      /\ New({"excl0", "excl1"}) = In({"excl0", "excl1"}) /\ t \notin In({"excl0", "excl1"})
      /\ New({"excl1"}) = In({"excl1"}) /\ t \notin In({"excl1"})
      /\ New({"excl0", "excl1", "try"}) = In({"excl0", "excl1", "try"}) \cup {t} /\ t \notin In({"excl0", "excl1", "try"})
  BY InMoves
<1>2. LockFits(rw_lock[b], mode[b], In({"queue"}), In({"setr", "reads"}), In({"reads"}),
               In({"excl0", "excl1"}), In({"excl1"}), In({"excl0", "excl1", "try"}))
  BY DEF Locks, FitsOf
<1> HIDE DEF In, New
<1>3. LockFits(rw_lock'[b], mode'[b], New({"queue"}), New({"setr", "reads"}), New({"reads"}),
               New({"excl0", "excl1"}), New({"excl1"}), New({"excl0", "excl1", "try"}))
  <2>1. In({"excl0", "excl1"}) \cup {} = In({"excl0", "excl1"})
    OBVIOUS
  <2>2. \A Z : Z = {} \/ (Z = {t} /\ ~rw_lock[b].reader_next) =>
           LockFits(rw_lock'[b], mode[b], In({"queue"}), In({"setr", "reads"}), In({"reads"}),
                    In({"excl0", "excl1"}) \cup Z, In({"excl1"}), In({"excl0", "excl1", "try"}) \cup {t})
    BY <1>2, WriterTakes, Zenon
  <2>3. QED  BY <1>1, <2>1, <2>2, Zenon
<1>4. QED  BY <1>3, LocksMove DEF FitsOf, New

\* ... and leaves.
LEMMA LeavesTrying ==
  ASSUME Locks, NEW t \in Threads, NEW b \in Blocks, Moves(t, b, "try", "none"),
         mode'[b] = mode[b],
         rw_lock'[b].num_readers = rw_lock[b].num_readers,
         rw_lock'[b].num_writers = rw_lock[b].num_writers - 1,
         rw_lock'[b].pending_readers = rw_lock[b].pending_readers
  PROVE  Locks'
<1> DEFINE In(K) == InOf(role, blk, b, K)
           New(K) == InOf(role', blk', b, K)
<1>1. /\ New({"queue"}) = In({"queue"}) /\ t \notin In({"queue"})
      /\ New({"setr", "reads"}) = In({"setr", "reads"}) /\ t \notin In({"setr", "reads"})
      /\ New({"reads"}) = In({"reads"}) /\ t \notin In({"reads"})
      /\ New({"excl0", "excl1"}) = In({"excl0", "excl1"}) /\ t \notin In({"excl0", "excl1"})
      /\ New({"excl1"}) = In({"excl1"}) /\ t \notin In({"excl1"})
      /\ New({"excl0", "excl1", "try"}) = In({"excl0", "excl1", "try"}) \ {t} /\ t \in In({"excl0", "excl1", "try"})
  BY InMoves
<1>2. LockFits(rw_lock[b], mode[b], In({"queue"}), In({"setr", "reads"}), In({"reads"}),
               In({"excl0", "excl1"}), In({"excl1"}), In({"excl0", "excl1", "try"}))
  BY DEF Locks, FitsOf
<1> HIDE DEF In, New
<1>3. LockFits(rw_lock'[b], mode'[b], New({"queue"}), New({"setr", "reads"}), New({"reads"}),
               New({"excl0", "excl1"}), New({"excl1"}), New({"excl0", "excl1", "try"}))
  <2>1. /\ In({"excl1"}) \ {t} = In({"excl1"})
        /\ In({"excl0", "excl1"}) \ {t} = In({"excl0", "excl1"})
    BY <1>1
  <2>2. t \in In({"excl0", "excl1", "try"})
    BY <1>1
  <2>3. LockFits(rw_lock'[b], mode[b], In({"queue"}), In({"setr", "reads"}), In({"reads"}),
                 In({"excl0", "excl1"}) \ {t}, In({"excl1"}) \ {t}, In({"excl0", "excl1", "try"}) \ {t})
    BY <1>2, <2>2, WriterLeaves
  <2>4. QED  BY <1>1, <2>1, <2>3, Zenon
<1>4. QED  BY <1>3, LocksMove DEF FitsOf, New


\* A thread stays in its role, or out of the lock: the counters stay.
LEMMA StaysAlike ==
  ASSUME Locks, NEW t \in Threads, NEW b \in Blocks, NEW i, Moves(t, b, i, i),
         Same(rw_lock'[b], rw_lock[b]), mode'[b] = mode[b]
  PROVE  Locks'
<1>1. \A K \in SUBSET {"queue", "setr", "reads", "excl0", "excl1", "try"} :
         InOf(role', blk', b, K) = InOf(role, blk, b, K)
  BY InMoves
<1>2. FitsOf(b, rw_lock[b], mode[b], role, blk)
  BY DEF Locks
<1>3. FitsOf(b, rw_lock[b], mode[b], role', blk')
  BY <1>1, <1>2 DEF FitsOf
<1>4. FitsOf(b, rw_lock'[b], mode'[b], role', blk')
  BY <1>3, FitsAlike, Zenon DEF FitsOf, Same
<1>5. QED  BY <1>4, LocksMove, Zenon

-----------------------------------------------------------------------------
(* Labels and roles.                                                           *)
Outside == {"idle", "get", "scan", "relist", "acquire", "fcheck", "ftry", "fnext"}

LEMMA Roles ==
  ASSUME NEW o
  PROVE  /\ o \notin {"write", "zero"} =>
              /\ RoleOf("wait", o) = "queue" /\ RoleOf("setmode", o) = "setr"
              /\ \A l \in InUse \cup {"check", "backoff"} : RoleOf(l, o) = "reads"
         /\ o \in {"write", "zero"} =>
              /\ RoleOf("wait", o) = "none"
              /\ RoleOf("setmode", o) = "excl0" /\ RoleOf("backoff", o) = "excl0"
              /\ \A l \in InUse \cup {"check"} : RoleOf(l, o) = "excl1"
         /\ \A l \in Evicting \cup {"fwrite", "funpin"} : RoleOf(l, o) = "try"
         /\ \A l \in Outside : RoleOf(l, o) = "none"
<1>1. ASSUME o \notin {"write", "zero"}
      PROVE  /\ RoleOf("wait", o) = "queue" /\ RoleOf("setmode", o) = "setr"
             /\ \A l \in InUse \cup {"check", "backoff"} : RoleOf(l, o) = "reads"
  BY <1>1 DEF RoleOf, Holding, InUse, Evicting
<1>2. ASSUME o \in {"write", "zero"}
      PROVE  /\ RoleOf("wait", o) = "none"
             /\ RoleOf("setmode", o) = "excl0" /\ RoleOf("backoff", o) = "excl0"
             /\ \A l \in InUse \cup {"check"} : RoleOf(l, o) = "excl1"
  BY <1>2 DEF RoleOf, Holding, InUse, Evicting
<1>3. \A l \in Evicting \cup {"fwrite", "funpin"} : RoleOf(l, o) = "try"
  BY DEF RoleOf, Holding, InUse, Evicting
<1>4. \A l \in Outside : RoleOf(l, o) = "none"
  BY DEF RoleOf, Holding, InUse, Evicting, Outside
<1>5. QED  BY <1>1, <1>2, <1>3, <1>4

\* A client goes on to the label l.
LEMMA ClientRole ==
  ASSUME Typed, Threaded, NEW c \in Clients, NEW l, pc' = [pc EXCEPT ![c] = l],
         \A d \in Clients \ {c} : op'[d] = op[d]
  PROVE  /\ role[c] = RoleOf(pc[c], op[c]) /\ role'[c] = RoleOf(l, op'[c])
         /\ \A u \in Threads \ {c} : role'[u] = role[u]
<1>1. c \in Threads
  BY DEF Threads
<1>2. role'[c] = RoleOf(pc'[c], op'[c]) /\ role[c] = RoleOf(pc[c], op[c])
  BY <1>1 DEF role
<1>3. pc'[c] = l /\ \A u \in Threads \ {c} : pc'[u] = pc[u]
  BY <1>1 DEF Threaded
<1>4. \A u \in Threads \ {c} : role'[u] = role[u]
  BY <1>3 DEF role
<1>5. QED  BY <1>2, <1>3, <1>4

LEMMA ClientMoves ==
  ASSUME Typed, Threaded, NEW c \in Clients, NEW l, pc' = [pc EXCEPT ![c] = l], op' = op, blk' = blk,
         NEW b \in Blocks, blk[c] = b,
         \A d \in Blocks \ {b} : rw_lock'[d] = rw_lock[d] /\ mode'[d] = mode[d]
  PROVE  Moves(c, b, RoleOf(pc[c], op[c]), RoleOf(l, op[c]))
<1>1. c \in Threads
  BY DEF Threads
<1>2. QED  BY <1>1, ClientRole, Zenon DEF Moves

LEMMA FlusherRole ==
  ASSUME CacheAssumption, Typed, Threaded, NEW l, pc' = [pc EXCEPT ![Flusher] = l], op' = op
  PROVE  /\ role[Flusher] = RoleOf(pc[Flusher], "read") /\ role'[Flusher] = RoleOf(l, "read")
         /\ \A u \in Threads \ {Flusher} : role'[u] = role[u]
<1>1. Flusher \in Threads /\ Flusher \notin Clients
  BY DEF Threads, CacheAssumption
<1>2. role'[Flusher] = RoleOf(pc'[Flusher], "read") /\ role[Flusher] = RoleOf(pc[Flusher], "read")
  BY <1>1 DEF role
<1>3. pc'[Flusher] = l /\ \A u \in Threads \ {Flusher} : pc'[u] = pc[u]
  BY <1>1 DEF Threaded
<1>4. \A u \in Threads \ {Flusher} : role'[u] = role[u]
  BY <1>3 DEF role
<1>5. QED  BY <1>2, <1>3, <1>4

LEMMA FlusherMoves ==
  ASSUME CacheAssumption, Typed, Threaded, NEW l, pc' = [pc EXCEPT ![Flusher] = l], op' = op, blk' = blk,
         NEW b \in Blocks, blk[Flusher] = b,
         \A d \in Blocks \ {b} : rw_lock'[d] = rw_lock[d] /\ mode'[d] = mode[d]
  PROVE  Moves(Flusher, b, RoleOf(pc[Flusher], "read"), RoleOf(l, "read"))
<1>1. Flusher \in Threads
  BY DEF Threads
<1>2. QED  BY <1>1, FlusherRole, Zenon DEF Moves

\* Nobody comes or goes: a client moves between labels of one role.
LEMMA ClientStays ==
  ASSUME Typed, Threaded, Locks, NEW c \in Clients, NEW l, pc' = [pc EXCEPT ![c] = l],
         \A d \in Clients \ {c} : op'[d] = op[d],
         RoleOf(l, op'[c]) = RoleOf(pc[c], op[c]), rw_lock' = rw_lock, mode' = mode,
         \A u \in Threads \ {c} : blk'[u] = blk[u],
         RoleOf(pc[c], op[c]) # "none" => blk'[c] = blk[c]
  PROVE  Locks'
<1>1. /\ role[c] = RoleOf(pc[c], op[c]) /\ role'[c] = RoleOf(l, op'[c])
      /\ \A u \in Threads \ {c} : role'[u] = role[u]
  BY ClientRole, Zenon
<1>2. \A u \in Threads : role'[u] = role[u] /\ (role[u] # "none" => blk'[u] = blk[u])
  BY <1>1
<1>3. QED  BY <1>2, LocksStay

LEMMA FlusherStays ==
  ASSUME CacheAssumption, Typed, Threaded, Locks, NEW l, pc' = [pc EXCEPT ![Flusher] = l], op' = op,
         RoleOf(l, "read") = RoleOf(pc[Flusher], "read"), rw_lock' = rw_lock, mode' = mode,
         \A u \in Threads \ {Flusher} : blk'[u] = blk[u],
         RoleOf(pc[Flusher], "read") # "none" => blk'[Flusher] = blk[Flusher]
  PROVE  Locks'
BY FlusherRole, LocksStay, Zenon
=============================================================================
