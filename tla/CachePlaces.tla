----------------------------- MODULE CachePlaces -----------------------------
(***************************************************************************)
(* The buffer cache (BufferCache): the part of the invariant of            *)
(* CacheProofs that is about the lists and about where the threads are.    *)
(* Every block is on exactly one of the two lists, once; a thread that     *)
(* works on a block works on one of the cache; and such a block carries a  *)
(* sector.  Each step keeps that, whatever the locks of the blocks say.    *)
(***************************************************************************)
EXTENDS BufferCache, TLAPS

-----------------------------------------------------------------------------
(* What the proofs use of finite sets and numbers.  FiniteSetTheorems states   *)
(* it, and is taken in where the steps are done (CountingHolds): the provers'  *)
(* work on each step grows with all that is in scope.                          *)
Counting ==
  /\ \A S, x : IsFiniteSet(S) /\ x \notin S =>
       IsFiniteSet(S \cup {x}) /\ Cardinality(S \cup {x}) = Cardinality(S) + 1
  /\ \A S, x : IsFiniteSet(S) /\ x \in S =>
       IsFiniteSet(S \ {x}) /\ Cardinality(S \ {x}) = Cardinality(S) - 1
  /\ \A S : IsFiniteSet(S) => Cardinality(S) \in Nat /\ (Cardinality(S) = 0 => S = {})
  /\ \A S : S \subseteq Nat /\ S # {} => \E i \in S : \A j \in S : i <= j


-----------------------------------------------------------------------------
(* The lists. *)
Once(s) == \A i, j \in DOMAIN s : s[i] = s[j] => i = j

\* list_push_front of a block that the list does not have.
LEMMA PushFront ==
  ASSUME NEW S, NEW s \in Seq(S), Once(s), NEW b \in S, b \notin Queued(s)
  PROVE  /\ list_push_front(s, b) \in Seq(S) /\ Once(list_push_front(s, b))
         /\ Queued(list_push_front(s, b)) = Queued(s) \cup {b}
         /\ Len(list_push_front(s, b)) = Len(s) + 1
<1> DEFINE r == list_push_front(s, b)
<1>1. /\ r \in Seq(S) /\ Len(r) = Len(s) + 1 /\ r[1] = b
      /\ \A i \in 2 .. Len(s) + 1 : r[i] = s[i - 1]
      /\ Len(s) \in Nat /\ DOMAIN s = 1 .. Len(s) /\ DOMAIN r = 1 .. Len(s) + 1
  BY DEF list_push_front
<1> HIDE DEF r
<1>a. \A i \in DOMAIN r : i # 1 => i - 1 \in DOMAIN s /\ r[i] = s[i - 1] /\ i \in Nat
  BY <1>1
<1>b. \A i \in DOMAIN s : i + 1 \in DOMAIN r /\ r[i + 1] = s[i]
  BY <1>1
<1>c. 1 \in DOMAIN r
  BY <1>1
<1>d. \A i \in DOMAIN s : s[i] \in Queued(s) /\ s[i] # b
  BY DEF Queued
<1>2. Once(r)
  <2> SUFFICES ASSUME NEW i \in DOMAIN r, NEW j \in DOMAIN r, r[i] = r[j]  PROVE i = j
    BY DEF Once
  <2>1. CASE i = 1 \/ j = 1
    BY <1>1, <1>a, <1>d, <2>1
  <2>2. CASE i # 1 /\ j # 1
    <3>1. i - 1 = j - 1 /\ i \in Nat /\ j \in Nat
      BY <1>a, <2>2 DEF Once
    <3>2. QED  BY <3>1
  <2>3. QED  BY <2>1, <2>2
<1>3. Queued(r) \subseteq Queued(s) \cup {b}
  <2> SUFFICES ASSUME NEW i \in DOMAIN r  PROVE r[i] \in Queued(s) \cup {b}
    BY DEF Queued
  <2>1. QED  BY <1>1, <1>a, <1>d
<1>4. Queued(s) \cup {b} \subseteq Queued(r)
  BY <1>1, <1>b, <1>c DEF Queued
<1>5. QED  BY <1>1, <1>2, <1>3, <1>4 DEF r

\* list_remove.
LEMMA ListRemove ==
  ASSUME NEW S, NEW s \in Seq(S), Once(s), NEW b
  PROVE  /\ list_remove(s, b) \in Seq(S) /\ Once(list_remove(s, b))
         /\ Queued(list_remove(s, b)) = Queued(s) \ {b}
         /\ Len(list_remove(s, b)) = IF b \in Queued(s) THEN Len(s) - 1 ELSE Len(s)
<1>1. CASE b \notin Queued(s)
  BY <1>1 DEF list_remove
<1>2. CASE b \in Queued(s)
  <2> DEFINE k == Position(s, b)
             r == [i \in 1 .. Len(s) - 1 |-> s[IF i < k THEN i ELSE i + 1]]
  <2>1. k \in DOMAIN s /\ s[k] = b
    BY <1>2 DEF Queued, Position
  <2>2. list_remove(s, b) = r
    BY <1>2 DEF list_remove
  <2> HIDE DEF k
  <2>3. /\ Len(s) \in Nat /\ DOMAIN s = 1 .. Len(s) /\ k \in 1 .. Len(s)
        /\ DOMAIN r = 1 .. Len(s) - 1
    BY <2>1
  <2>4. \A i \in 1 .. Len(s) - 1 : /\ i < k => r[i] = s[i]
                                   /\ ~(i < k) => r[i] = s[i + 1]
                                   /\ i \in 1 .. Len(s) /\ i + 1 \in 1 .. Len(s)
    BY <2>3
  <2> HIDE DEF r
  <2>5. r \in Seq(S) /\ Len(r) = Len(s) - 1
    <3>1. \A i \in 1 .. Len(s) - 1 : r[i] \in S
      BY <2>3, <2>4
    <3>2. r = [i \in 1 .. Len(s) - 1 |-> r[i]]
      BY DEF r
    <3>3. Len(s) - 1 \in Nat
      BY <2>3
    <3>4. QED  BY <2>3, <3>1, <3>2, <3>3
  <2>6. Once(r)
    <3> SUFFICES ASSUME NEW i \in DOMAIN r, NEW j \in DOMAIN r, r[i] = r[j]  PROVE i = j
      BY DEF Once
    <3> DEFINE u == IF i < k THEN i ELSE i + 1
               v == IF j < k THEN j ELSE j + 1
    <3>1. i \in Nat /\ j \in Nat /\ u \in DOMAIN s /\ v \in DOMAIN s /\ s[u] = s[v]
      BY <2>3, <2>4
    <3>2. u = v
      BY <3>1 DEF Once
    <3>3. QED  BY <2>3, <3>1, <3>2
  <2>7. Queued(r) \subseteq Queued(s) \ {b}
    <3> SUFFICES ASSUME NEW i \in DOMAIN r  PROVE r[i] \in Queued(s) /\ r[i] # b
      BY DEF Queued
    <3> DEFINE u == IF i < k THEN i ELSE i + 1
    <3>1. u \in DOMAIN s /\ r[i] = s[u] /\ u # k
      BY <2>3, <2>4
    <3>2. QED  BY <2>1, <3>1 DEF Once, Queued
  <2>8. Queued(s) \ {b} \subseteq Queued(r)
    <3> SUFFICES ASSUME NEW i \in DOMAIN s, s[i] # b  PROVE s[i] \in Queued(r)
      BY DEF Queued
    <3> DEFINE u == IF i < k THEN i ELSE i - 1
    <3>1. u \in DOMAIN r /\ r[u] = s[i]
      BY <2>1, <2>3, <2>4
    <3>2. QED  BY <3>1 DEF Queued
  <2>9. QED  BY <1>2, <2>2, <2>5, <2>6, <2>7, <2>8
<1>3. QED  BY <1>1, <1>2

-----------------------------------------------------------------------------
(* The types, the threads, the lists and the places.                            *)
ClientLabels == Holding \cup Evicting \cup {"idle", "get", "scan", "relist", "acquire", "wait"}
Busy == ClientLabels \ {"idle", "get"}

Typed ==
  /\ cache_lock \in Clients \cup {None}
  /\ sector \in [Blocks -> Sectors \cup {None}]
  /\ dirty \in [Blocks -> BOOLEAN] /\ valid \in [Blocks -> BOOLEAN]
  /\ data \in [Blocks -> Contents] /\ disk \in [Sectors -> Contents]
  /\ rw_lock \in [Blocks -> RWLockState(Threads)]
  /\ mode \in [Blocks -> {"UNLOCKED", "READ_LOCKED", "WRITE_LOCKED"}]
  /\ errands \in Errands
  /\ op \in [Clients -> {"read", "index", "write", "zero"}]
  /\ want \in [Clients -> Sectors \cup {None}]
  /\ got \in [Clients -> Contents]

Threaded ==
  /\ pc \in [Threads -> ClientLabels \cup Walking] /\ blk \in [Threads -> Blocks \cup {None}]
  /\ \A c \in Clients : pc[c] \in ClientLabels
  /\ pc[Flusher] \in Walking

cached == Queued(buffer_cache)

Lists ==
  /\ buffer_cache \in Seq(Blocks) /\ free_cache \in Seq(Blocks)
  /\ Once(buffer_cache) /\ Once(free_cache)
  /\ cached \cap Queued(free_cache) = {}
  /\ CacheSizeConstant

\* Who works on a block works on one of the cache, and it carries a sector.
Places ==
  /\ \A c \in Clients : pc[c] \in Busy => blk[c] \in cached
  /\ pc[Flusher] # "idle" => blk[Flusher] \in cached
  /\ \A c \in Clients : pc[c] # "idle" => want[c] \in Sectors
  /\ \A b \in cached : sector[b] \in Sectors

Placed == Typed /\ Threaded /\ Lists /\ Places

-----------------------------------------------------------------------------
(* The operations of rw-lock.c: their types and the fields that matter.        *)
Same(n, l) ==
  /\ n.num_readers = l.num_readers /\ n.num_writers = l.num_writers
  /\ n.pending_readers = l.pending_readers /\ n.reader_next = l.reader_next

LEMMA ReadAcquireIs ==
  ASSUME NEW T, NEW l \in RWLockState(T), NEW t \in T
  PROVE  LET n == ReadAcquire(l, t) IN
         /\ n \in RWLockState(T)
         /\ n.num_writers = l.num_writers /\ n.reader_next = l.reader_next
         /\ MustWaitToRead(l) => /\ n.num_readers = l.num_readers
                                 /\ n.pending_readers = l.pending_readers + 1
         /\ ~MustWaitToRead(l) => /\ n.num_readers = l.num_readers + 1
                                  /\ n.pending_readers = l.pending_readers
<1>1. Append(l.can_read, t) \in Seq(T)
  BY DEF RWLockState
<1>2. CASE MustWaitToRead(l)
  <2> DEFINE p == l.pending_readers + 1
             q == Append(l.can_read, t)
  <2>1. p \in Int
    BY DEF RWLockState
  <2>2. ReadAcquire(l, t) = [l EXCEPT !.pending_readers = p, !.can_read = q]
    BY <1>2 DEF ReadAcquire, RWLockState
  <2> HIDE DEF p, q
  <2>3. /\ ReadAcquire(l, t) \in RWLockState(T)
        /\ ReadAcquire(l, t).pending_readers = p
        /\ ReadAcquire(l, t).num_readers = l.num_readers
        /\ ReadAcquire(l, t).num_writers = l.num_writers
        /\ ReadAcquire(l, t).reader_next = l.reader_next
    <3>1. q \in Seq(T)
      BY <1>1 DEF q
    <3>2. QED  BY <2>1, <2>2, <3>1, Zenon DEF RWLockState
  <2>4. QED  BY <1>2, <2>3 DEF p
<1>3. CASE ~MustWaitToRead(l)
  BY <1>3 DEF ReadAcquire, RWLockState
<1>4. QED  BY <1>2, <1>3

LEMMA ReadResumeIs ==
  ASSUME NEW T, NEW l \in RWLockState(T), NEW t \in T
  PROVE  LET n == ReadResume(l, t) IN
         /\ n \in RWLockState(T)
         /\ n.num_writers = l.num_writers /\ n.reader_next = l.reader_next
         /\ MustWaitToRead(l) => Same(n, l)
         /\ ~MustWaitToRead(l) => /\ n.num_readers = l.num_readers + 1
                                  /\ n.pending_readers = l.pending_readers - 1
<1> DEFINE k == [l EXCEPT !.pending_readers = l.pending_readers - 1]
<1>1. /\ k \in RWLockState(T) /\ k.pending_readers = l.pending_readers - 1
      /\ k.num_readers = l.num_readers /\ k.num_writers = l.num_writers
      /\ k.reader_next = l.reader_next /\ k.pending_writer = l.pending_writer
      /\ l.pending_readers \in Int
  BY DEF RWLockState
<1>2. ReadResume(l, t) = ReadAcquire(k, t)
  BY DEF ReadResume
<1> HIDE DEF k
<1>3. MustWaitToRead(k) <=> MustWaitToRead(l)
  BY <1>1 DEF MustWaitToRead
<1>4. QED  BY <1>1, <1>2, <1>3, ReadAcquireIs DEF Same

LEMMA WriteAcquireIs ==
  ASSUME NEW T, NEW l \in RWLockState(T), NEW t \in T
  PROVE  LET n == WriteAcquire(l, t) IN
         /\ n \in RWLockState(T)
         /\ MustWaitToWrite(l) => Same(n, l)
         /\ ~MustWaitToWrite(l) => /\ n.num_writers = l.num_writers + 1
                                   /\ n.num_readers = l.num_readers
                                   /\ n.pending_readers = l.pending_readers
                                   /\ n.reader_next = l.reader_next
<1>1. Append(l.can_write, t) \in Seq(T)
  BY DEF RWLockState
<1>2. CASE MustWaitToWrite(l)
  BY <1>1, <1>2, Zenon DEF WriteAcquire, RWLockState, Same
<1>3. CASE ~MustWaitToWrite(l)
  BY <1>3 DEF WriteAcquire, RWLockState
<1>4. QED  BY <1>2, <1>3

LEMMA WriteResumeIs ==
  ASSUME NEW T, NEW l \in RWLockState(T), NEW t \in T
  PROVE  LET n == WriteResume(l, t) IN
         /\ n \in RWLockState(T)
         /\ MustWaitToWrite(l) => Same(n, l)
         /\ ~MustWaitToWrite(l) => /\ n.num_writers = l.num_writers + 1
                                   /\ n.num_readers = l.num_readers
                                   /\ n.pending_readers = l.pending_readers
                                   /\ n.reader_next = l.reader_next
<1> DEFINE k == [l EXCEPT !.pending_writer = FALSE]
<1>1. k \in RWLockState(T) /\ Same(k, l)
  BY Zenon DEF RWLockState, Same
<1>2. WriteResume(l, t) = WriteAcquire(k, t)
  BY DEF WriteResume
<1> HIDE DEF k
<1>3. MustWaitToWrite(k) <=> MustWaitToWrite(l)
  BY <1>1 DEF MustWaitToWrite, Same
<1>4. QED  BY <1>1, <1>2, <1>3, WriteAcquireIs DEF Same

LEMMA SignalFirstIs ==
  ASSUME NEW T, NEW q \in Seq(T)
  PROVE  SignalFirst(q) \in Seq(T)
BY DEF SignalFirst

LEMMA ReleasesAre ==
  ASSUME NEW T, NEW l \in RWLockState(T)
  PROVE  /\ LET n == read_lock_release(l) IN
            /\ n \in RWLockState(T) /\ n.num_readers = l.num_readers - 1
            /\ n.num_writers = l.num_writers /\ n.pending_readers = l.pending_readers
         /\ LET n == write_lock_release(l) IN
            /\ n \in RWLockState(T) /\ n.num_readers = l.num_readers
            /\ n.num_writers = l.num_writers - 1 /\ n.pending_readers = l.pending_readers
         /\ LET n == write_lock_try_acquire(l) IN
            /\ n \in RWLockState(T) /\ n.num_readers = l.num_readers
            /\ n.num_writers = l.num_writers + 1 /\ n.pending_readers = l.pending_readers
            /\ n.reader_next = l.reader_next
<1>1. SignalFirst(l.can_write) \in Seq(T) /\ << >> \in Seq(T)
  BY SignalFirstIs DEF RWLockState
<1>2. l.num_readers \in Int /\ l.num_writers \in Int
  BY DEF RWLockState
<1>3. LET n == read_lock_release(l) IN
        /\ n \in RWLockState(T) /\ n.num_readers = l.num_readers - 1
        /\ n.num_writers = l.num_writers /\ n.pending_readers = l.pending_readers
  <2> DEFINE k == l.num_readers - 1
             q == SignalFirst(l.can_write)
  <2>1. k \in Int /\ q \in Seq(T)
    BY <1>1, <1>2
  <2>2. read_lock_release(l) = [l EXCEPT !.num_readers = k, !.reader_next = FALSE, !.can_write = q]
    BY DEF read_lock_release, RWLockState
  <2> HIDE DEF k, q
  <2>3. /\ read_lock_release(l) \in RWLockState(T)
        /\ read_lock_release(l).num_readers = k
        /\ read_lock_release(l).num_writers = l.num_writers
        /\ read_lock_release(l).pending_readers = l.pending_readers
    BY <2>1, <2>2, Zenon DEF RWLockState
  <2>4. QED  BY <2>3 DEF k
<1>4. LET n == write_lock_release(l) IN
        /\ n \in RWLockState(T) /\ n.num_readers = l.num_readers
        /\ n.num_writers = l.num_writers - 1 /\ n.pending_readers = l.pending_readers
  <2> DEFINE k == l.num_writers - 1
             q == SignalFirst(l.can_write)
  <2>1. k \in Int /\ q \in Seq(T)
    BY <1>1, <1>2
  <2>2. \/ write_lock_release(l) = [l EXCEPT !.num_writers = k, !.can_write = q]
        \/ write_lock_release(l) = [l EXCEPT !.num_writers = k, !.reader_next = TRUE,
                                             !.can_read = << >>]
    BY DEF write_lock_release, RWLockState
  <2> HIDE DEF k, q
  <2>3. /\ write_lock_release(l) \in RWLockState(T)
        /\ write_lock_release(l).num_writers = k
        /\ write_lock_release(l).num_readers = l.num_readers
        /\ write_lock_release(l).pending_readers = l.pending_readers
    <3>1. CASE write_lock_release(l) = [l EXCEPT !.num_writers = k, !.can_write = q]
      BY <2>1, <3>1, Zenon DEF RWLockState
    <3>2. CASE write_lock_release(l) = [l EXCEPT !.num_writers = k, !.reader_next = TRUE,
                                                 !.can_read = << >>]
      BY <1>1, <2>1, <3>2, Zenon DEF RWLockState
    <3>3. QED  BY <2>2, <3>1, <3>2
  <2>4. QED  BY <2>3 DEF k
<1>5. LET n == write_lock_try_acquire(l) IN
        /\ n \in RWLockState(T) /\ n.num_readers = l.num_readers
        /\ n.num_writers = l.num_writers + 1 /\ n.pending_readers = l.pending_readers
        /\ n.reader_next = l.reader_next
  BY <1>2 DEF RWLockState, write_lock_try_acquire
<1>6. QED  BY <1>3, <1>4, <1>5

-----------------------------------------------------------------------------
(* The blocks that the cache's operations pick.                                *)
LEMMA LookupFinds ==
  ASSUME Counting, Lists, NEW s, cache_lookup(s) # None
  PROVE  cache_lookup(s) \in cached
<1>1. Carriers(s) # {} /\ Carriers(s) \subseteq DOMAIN buffer_cache
  BY DEF cache_lookup, Carriers
<1>2. Carriers(s) \subseteq Nat
  BY <1>1 DEF Lists
<1>3. \E i \in Carriers(s) : \A j \in Carriers(s) : i <= j
  BY <1>1, <1>2 DEF Counting
<1> DEFINE k == CHOOSE i \in Carriers(s) : \A j \in Carriers(s) : i <= j
<1>4. k \in Carriers(s)
  BY <1>3
<1>5. cache_lookup(s) = buffer_cache[k]
  BY <1>1 DEF cache_lookup
<1> HIDE DEF k
<1>6. QED  BY <1>1, <1>4, <1>5 DEF cached, Queued

LEMMA CursorIsCached ==
  ASSUME CacheAssumption, Lists
  PROVE  /\ buffer_cache # << >> => list_rbegin \in cached
         /\ free_cache = << >> => buffer_cache # << >>
         /\ \A b \in cached : list_prev(b) # None => list_prev(b) \in cached
         /\ cached \subseteq Blocks
<1>1. buffer_cache # << >> => Len(buffer_cache) \in DOMAIN buffer_cache
  BY DEF Lists
<1>2. buffer_cache # << >> => list_rbegin \in cached
  BY <1>1 DEF list_rbegin, cached, Queued
<1>3. Queued(<< >>) = {}
  BY DEF Queued
<1>4. free_cache = << >> => buffer_cache # << >>
  BY <1>3 DEF Lists, CacheSizeConstant, CacheAssumption
<1>5. ASSUME NEW b \in cached, list_prev(b) # None
      PROVE  list_prev(b) \in cached
  <2> DEFINE k == Position(buffer_cache, b)
  <2>1. k \in DOMAIN buffer_cache
    BY DEF cached, Queued, Position
  <2>2. k # 1 /\ list_prev(b) = buffer_cache[k - 1]
    BY <1>5 DEF list_prev
  <2> HIDE DEF k
  <2>3. k - 1 \in DOMAIN buffer_cache
    BY <2>1, <2>2 DEF Lists
  <2>4. QED  BY <2>2, <2>3 DEF cached, Queued
<1>6. cached \subseteq Blocks
  BY DEF Lists, cached, Queued
<1>7. QED  BY <1>2, <1>4, <1>5, <1>6

LEMMA TouchLists ==
  ASSUME Lists, NEW b \in Blocks, Touch(b)
  PROVE  Lists' /\ cached' = cached \cup {b}
<1> DEFINE B == list_remove(buffer_cache, b)
           F == list_remove(free_cache, b)
           P == list_push_front(B, b)
<1>1. buffer_cache' = P /\ free_cache' = F
  BY DEF Touch
<1>2. /\ B \in Seq(Blocks) /\ Once(B) /\ Queued(B) = cached \ {b}
      /\ Len(B) = IF b \in cached THEN Len(buffer_cache) - 1 ELSE Len(buffer_cache)
  BY ListRemove DEF Lists, cached
<1>3. /\ F \in Seq(Blocks) /\ Once(F) /\ Queued(F) = Queued(free_cache) \ {b}
      /\ Len(F) = IF b \in Queued(free_cache) THEN Len(free_cache) - 1 ELSE Len(free_cache)
  BY ListRemove DEF Lists
<1> HIDE DEF B, F
<1>4. /\ P \in Seq(Blocks) /\ Once(P) /\ Queued(P) = Queued(B) \cup {b} /\ Len(P) = Len(B) + 1
  BY <1>2, PushFront
<1> HIDE DEF P
<1>5. (b \in cached /\ b \notin Queued(free_cache)) \/ (b \notin cached /\ b \in Queued(free_cache))
  BY DEF Lists, CacheSizeConstant, cached
<1>6. Len(buffer_cache) \in Nat /\ Len(free_cache) \in Nat
  BY DEF Lists
<1>7. Len(P) + Len(F) = Len(buffer_cache) + Len(free_cache)
  <2>1. CASE b \in cached /\ b \notin Queued(free_cache)
    <3>1. Len(B) = Len(buffer_cache) - 1 /\ Len(F) = Len(free_cache) /\ Len(P) = Len(B) + 1
      BY <1>2, <1>3, <1>4, <2>1
    <3>2. QED  BY ONLY <1>6, <3>1
  <2>2. CASE b \notin cached /\ b \in Queued(free_cache)
    <3>1. Len(B) = Len(buffer_cache) /\ Len(F) = Len(free_cache) - 1 /\ Len(P) = Len(B) + 1
      BY <1>2, <1>3, <1>4, <2>2
    <3>2. QED  BY ONLY <1>6, <3>1
  <2>3. QED  BY <1>5, <2>1, <2>2
<1>8. Queued(P) \cup Queued(F) = Blocks /\ Queued(P) \cap Queued(F) = {} /\ Queued(P) = cached \cup {b}
  BY <1>2, <1>3, <1>4 DEF Lists, CacheSizeConstant, cached
<1>9. Len(P) + Len(F) = Cardinality(Blocks)
  BY <1>7 DEF Lists, CacheSizeConstant
<1>10. QED  BY <1>1, <1>3, <1>4, <1>8, <1>9, Zenon DEF Lists, CacheSizeConstant, cached

LEMMA Arithmetic ==
  ASSUME CacheAssumption
  PROVE  0 \in Contents /\ \A v \in Contents : Modify(v) \in Contents
BY DEF CacheAssumption, Contents, Modify

-----------------------------------------------------------------------------
(* A step keeps the types.                                                     *)
LEMMA ClientBlock ==
  ASSUME CacheAssumption, Typed, Lists, Places, NEW c \in Clients, pc[c] \in Busy
  PROVE  /\ blk[c] \in Blocks /\ blk[c] \in cached /\ c \in Threads
         /\ sector[blk[c]] \in Sectors /\ want[c] \in Sectors
         /\ rw_lock[blk[c]] \in RWLockState(Threads)
<1>1. blk[c] \in cached /\ blk[c] \in Blocks
  BY CursorIsCached DEF Places
<1>2. sector[blk[c]] \in Sectors
  BY <1>1 DEF Places
<1>3. want[c] \in Sectors
  BY DEF Places, Busy
<1>4. QED  BY <1>1, <1>2, <1>3, Zenon DEF Typed, Threads

LEMMA FlusherBlock ==
  ASSUME CacheAssumption, Typed, Lists, Places, pc[Flusher] # "idle"
  PROVE  /\ blk[Flusher] \in Blocks /\ blk[Flusher] \in cached /\ Flusher \in Threads
         /\ sector[blk[Flusher]] \in Sectors
         /\ rw_lock[blk[Flusher]] \in RWLockState(Threads)
<1>1. blk[Flusher] \in cached /\ blk[Flusher] \in Blocks
  BY CursorIsCached DEF Places
<1>2. sector[blk[Flusher]] \in Sectors
  BY <1>1 DEF Places
<1>3. QED  BY <1>1, <1>2, Zenon DEF Typed, Threads

LEMMA TypedStep ==
  ASSUME CacheAssumption, Placed, Next
  PROVE  Typed'
<1>0. Typed /\ Threaded /\ Lists /\ Places
  BY DEF Placed
<1> USE <1>0
<1>1. ASSUME NEW c \in Clients, Call(c)  PROVE Typed'
  <2>1. PICK e \in errands[c] : op' = [op EXCEPT ![c] = e[1]] /\ want' = [want EXCEPT ![c] = e[2]]
    BY <1>1, Zenon DEF Call
  <2>2. e[1] \in {"read", "index", "write", "zero"} /\ e[2] \in Sectors
    BY DEF CacheAssumption, Typed
  <2>3. QED  BY <1>1, <2>1, <2>2 DEF Call, Typed, Goto, lists, call
<1>2. ASSUME NEW c \in Clients, GetHit(c)  PROVE Typed'
  BY <1>2 DEF GetHit, Typed, Goto, lists, call
<1>3. ASSUME NEW c \in Clients, GetFree(c)  PROVE Typed'
  <2>1. want[c] \in Sectors
    BY <1>3 DEF GetFree, Places
  <2>2. QED  BY <1>3, <2>1, Zenon DEF GetFree, Typed, Goto, lists, call
<1>4. ASSUME NEW c \in Clients, GetEvict(c)  PROVE Typed'
  BY <1>4 DEF GetEvict, Typed, Goto, lists, call
<1>5. ASSUME NEW c \in Clients, EvictTake(c)  PROVE Typed'
  <2>1. pc[c] \in Busy
    BY <1>5 DEF EvictTake, Busy, ClientLabels, Holding, InUse, Evicting
  <2>2. write_lock_try_acquire(rw_lock[blk[c]]) \in RWLockState(Threads)
    BY <2>1, ClientBlock, ReleasesAre
  <2>3. QED  BY <1>5, <2>2, Zenon DEF EvictTake, Typed, Goto, lists, call
<1>6. ASSUME NEW c \in Clients, EvictSkip(c)  PROVE Typed'
  BY <1>6 DEF EvictSkip, Typed, Goto, lists, call
<1>7. ASSUME NEW c \in Clients, EvictWriteBack(c)  PROVE Typed'
  <2>1. pc[c] \in Busy
    BY <1>7 DEF EvictWriteBack, Busy, ClientLabels, Holding, InUse, Evicting
  <2>2. QED  BY <1>7, <2>1, ClientBlock DEF EvictWriteBack, Typed, Goto, lists, call
<1>8. ASSUME NEW c \in Clients, EvictRetag(c)  PROVE Typed'
  <2>1. pc[c] \in Busy
    BY <1>8 DEF EvictRetag, Busy, ClientLabels, Holding, InUse, Evicting
  <2>2. QED  BY <1>8, <2>1, ClientBlock DEF EvictRetag, Typed, Goto, lists, call
<1>9. ASSUME NEW c \in Clients, EvictUnpin(c)  PROVE Typed'
  <2>1. pc[c] \in Busy
    BY <1>9 DEF EvictUnpin, Busy, ClientLabels, Holding, InUse, Evicting
  <2>2. write_lock_release(rw_lock[blk[c]]) \in RWLockState(Threads)
    BY <2>1, ClientBlock, ReleasesAre
  <2>3. QED  BY <1>9, <2>2, Zenon DEF EvictUnpin, Typed, Goto, lists, call
<1>10. ASSUME NEW c \in Clients, EvictRelist(c)  PROVE Typed'
  BY <1>10 DEF EvictRelist, Typed, Goto, lists, call
<1>11. ASSUME NEW c \in Clients, Acquire(c)  PROVE Typed'
  <2>1. pc[c] \in Busy
    BY <1>11 DEF Acquire, Busy, ClientLabels, Holding, InUse, Evicting
  <2>2. /\ WriteAcquire(rw_lock[blk[c]], c) \in RWLockState(Threads)
        /\ ReadAcquire(rw_lock[blk[c]], c) \in RWLockState(Threads)
    BY <2>1, ClientBlock, WriteAcquireIs, ReadAcquireIs
  <2>3. QED  BY <1>11, <2>2, Zenon DEF Acquire, Typed, Goto, lists, call
<1>12. ASSUME NEW c \in Clients, Resume(c)  PROVE Typed'
  <2>1. pc[c] \in Busy
    BY <1>12 DEF Resume, Busy, ClientLabels, Holding, InUse, Evicting
  <2>2. /\ WriteResume(rw_lock[blk[c]], c) \in RWLockState(Threads)
        /\ ReadResume(rw_lock[blk[c]], c) \in RWLockState(Threads)
    BY <2>1, ClientBlock, WriteResumeIs, ReadResumeIs
  <2>3. QED  BY <1>12, <2>2, Zenon DEF Resume, Typed, Goto, lists, call
<1>13. ASSUME NEW c \in Clients, SetMode(c)  PROVE Typed'
  BY <1>13, Zenon DEF SetMode, Typed, Goto, lists, call
<1>14. ASSUME NEW c \in Clients, CheckGood(c)  PROVE Typed'
  BY <1>14 DEF CheckGood, Typed, Goto, lists, call
<1>15. ASSUME NEW c \in Clients, CheckEvicted(c)  PROVE Typed'
  BY <1>15, Zenon DEF CheckEvicted, Typed, Goto, lists, call
<1>16. ASSUME NEW c \in Clients, BackOff(c)  PROVE Typed'
  <2>1. pc[c] \in Busy
    BY <1>16 DEF BackOff, Busy, ClientLabels, Holding, InUse, Evicting
  <2>2. /\ write_lock_release(rw_lock[blk[c]]) \in RWLockState(Threads)
        /\ read_lock_release(rw_lock[blk[c]]) \in RWLockState(Threads)
        /\ rw_lock[blk[c]] \in RWLockState(Threads)
    BY <2>1, ClientBlock, ReleasesAre
  <2>3. QED  BY <1>16, <2>2, Zenon DEF BackOff, Typed, Goto, lists, call
<1>17. ASSUME NEW c \in Clients, ReadValid(c)  PROVE Typed'
  BY <1>17 DEF ReadValid, Typed, Goto, lists, call
<1>18. ASSUME NEW c \in Clients, ReadMiss(c)  PROVE Typed'
  BY <1>18 DEF ReadMiss, Typed, Goto, lists, call
<1>19. ASSUME NEW c \in Clients, Load(c)  PROVE Typed'
  <2>1. pc[c] \in Busy
    BY <1>19 DEF Load, Busy, ClientLabels, Holding, InUse, Evicting
  <2>2. QED  BY <1>19, <2>1, ClientBlock DEF Load, Typed, Goto, lists, call
<1>20. ASSUME NEW c \in Clients, Loaded(c)  PROVE Typed'
  BY <1>20, Zenon DEF Loaded, Typed, Goto, lists, call
<1>21. ASSUME NEW c \in Clients, Look(c)  PROVE Typed'
  <2>1. pc[c] \in Busy
    BY <1>21 DEF Look, Busy, ClientLabels, Holding, InUse, Evicting
  <2>2. QED  BY <1>21, <2>1, ClientBlock DEF Look, Typed, Goto, lists, call
<1>22. ASSUME NEW c \in Clients, Change(c)  PROVE Typed'
  BY <1>22, Arithmetic, Zenon DEF Change, Typed, Goto, lists, call
<1>23. ASSUME NEW c \in Clients, MarkDirty(c)  PROVE Typed'
  BY <1>23, Zenon DEF MarkDirty, Typed, Goto, lists, call
<1>24. ASSUME NEW c \in Clients, ZeroBlock(c)  PROVE Typed'
  BY <1>24, Arithmetic, Zenon DEF ZeroBlock, Typed, Goto, lists, call
<1>25. ASSUME NEW c \in Clients, Put(c)  PROVE Typed'
  <2>1. pc[c] \in Busy
    BY <1>25 DEF Put, Busy, ClientLabels, Holding, InUse, Evicting
  <2>2. /\ write_lock_release(rw_lock[blk[c]]) \in RWLockState(Threads)
        /\ read_lock_release(rw_lock[blk[c]]) \in RWLockState(Threads)
        /\ rw_lock[blk[c]] \in RWLockState(Threads)
    BY <2>1, ClientBlock, ReleasesAre
  <2>3. QED  BY <1>25, <2>2, Zenon DEF Put, Typed, Goto, lists, call
<1>26. ASSUME FlushStart  PROVE Typed'
  BY <1>26 DEF FlushStart, Typed, Goto, lists, call
<1>27. ASSUME FlushCheck  PROVE Typed'
  BY <1>27 DEF FlushCheck, Typed, Goto, lists, call
<1>28. ASSUME FlushTry  PROVE Typed'
  <2>1. /\ write_lock_try_acquire(rw_lock[blk[Flusher]]) \in RWLockState(Threads)
        /\ rw_lock[blk[Flusher]] \in RWLockState(Threads)
    BY <1>28, FlusherBlock, ReleasesAre DEF FlushTry
  <2>2. QED  BY <1>28, <2>1, Zenon DEF FlushTry, Typed, Goto, lists, call
<1>29. ASSUME FlushWrite  PROVE Typed'
  <2>1. blk[Flusher] \in Blocks
    BY <1>29, FlusherBlock DEF FlushWrite
  <2>2. disk' \in [Sectors -> Contents] /\ dirty' \in [Blocks -> BOOLEAN]
    <3>1. CASE valid[blk[Flusher]] /\ dirty[blk[Flusher]]
      <4>1. /\ disk' = [disk EXCEPT ![sector[blk[Flusher]]] = data[blk[Flusher]]]
            /\ dirty' = [dirty EXCEPT ![blk[Flusher]] = FALSE]
        BY <1>29, <3>1, Zenon DEF FlushWrite
      <4>2. data[blk[Flusher]] \in Contents
        BY <2>1 DEF Typed
      <4>3. QED  BY <4>1, <4>2, Zenon DEF Typed
    <3>2. CASE ~(valid[blk[Flusher]] /\ dirty[blk[Flusher]])
      BY <1>29, <3>2 DEF FlushWrite, Typed
    <3>3. QED  BY <3>1, <3>2
  <2>3. QED  BY <1>29, <2>2 DEF FlushWrite, Typed, Goto, lists, call
<1>30. ASSUME FlushUnpin  PROVE Typed'
  <2>1. /\ write_lock_release(rw_lock[blk[Flusher]]) \in RWLockState(Threads)
        /\ rw_lock[blk[Flusher]] \in RWLockState(Threads)
    BY <1>30, FlusherBlock, ReleasesAre, Zenon DEF FlushUnpin
  <2>2. QED  BY <1>30, <2>1, Zenon DEF FlushUnpin, Typed, Goto, lists, call
<1>31. ASSUME FlushNext  PROVE Typed'
  BY <1>31 DEF FlushNext, Typed, Goto, lists, call
<1>32. QED
  BY <1>1, <1>2, <1>3, <1>4, <1>5, <1>6, <1>7, <1>8, <1>9, <1>10, <1>11,
          <1>12, <1>13, <1>14, <1>15, <1>16, <1>17, <1>18, <1>19, <1>20, <1>21,
          <1>22, <1>23, <1>24, <1>25, <1>26, <1>27, <1>28, <1>29, <1>30, <1>31, Zenon
  DEF Next, Get, Use, Flush

-----------------------------------------------------------------------------
(* A step keeps the lists, and the threads at blocks of the cache.             *)
Goes(c) ==
  /\ pc[c] \in Busy
  /\ \E l \in Busy \cup {"get"} : pc' = [pc EXCEPT ![c] = l]
  /\ lists' = lists /\ sector' = sector /\ op' = op /\ want' = want /\ blk' = blk

LEMMA MostStepsGo ==
  ASSUME NEW c \in Clients,
         \/ EvictTake(c) \/ EvictWriteBack(c) \/ EvictUnpin(c) \/ Acquire(c) \/ Resume(c)
         \/ SetMode(c) \/ CheckGood(c) \/ CheckEvicted(c) \/ BackOff(c)
         \/ ReadValid(c) \/ ReadMiss(c) \/ Load(c) \/ Loaded(c) \/ Look(c) \/ Change(c)
         \/ MarkDirty(c) \/ ZeroBlock(c)
  PROVE  Goes(c)
<1> USE DEF Goes, Goto, Busy, ClientLabels, Holding, InUse, Evicting, call
<1>1. CASE EvictTake(c) \/ EvictWriteBack(c) \/ EvictUnpin(c)
  BY <1>1, Zenon DEF EvictTake, EvictWriteBack, EvictUnpin
<1>2. CASE Acquire(c) \/ Resume(c)
  BY <1>2, Zenon DEF Acquire, Resume
<1>3. CASE SetMode(c) \/ CheckGood(c) \/ CheckEvicted(c) \/ BackOff(c)
  BY <1>3, Zenon DEF SetMode, CheckGood, CheckEvicted, BackOff
<1>4. CASE ReadValid(c) \/ ReadMiss(c) \/ Load(c) \/ Loaded(c)
  BY <1>4, Zenon DEF ReadValid, ReadMiss, Load, Loaded
<1>5. CASE Look(c) \/ Change(c) \/ MarkDirty(c) \/ ZeroBlock(c)
  BY <1>5, Zenon DEF Look, Change, MarkDirty, ZeroBlock
<1>6. QED  BY <1>1, <1>2, <1>3, <1>4, <1>5

LEMMA ListsStay ==
  ASSUME Lists, lists' = lists
  PROVE  Lists' /\ cached' = cached
BY DEF Lists, CacheSizeConstant, lists, cached

\* A client goes to the label l with the block b.
LEMMA ClientGoes ==
  ASSUME CacheAssumption, Threaded, Places, cached \subseteq cached',
         NEW c \in Clients, NEW l \in ClientLabels, pc' = [pc EXCEPT ![c] = l],
         NEW b \in Blocks \cup {None}, blk' = [blk EXCEPT ![c] = b], l \in Busy => b \in cached',
         \A d \in Clients \ {c} : want'[d] = want[d], l # "idle" => want'[c] \in Sectors,
         \A d \in cached' : sector'[d] \in Sectors
  PROVE  Threaded' /\ Places'
<1>1. c \in Threads /\ Flusher \in Threads /\ c # Flusher /\ \A d \in Clients : d \in Threads
  BY DEF Threads, CacheAssumption
<1>2. pc'[c] = l /\ blk'[c] = b /\ \A u \in Threads \ {c} : pc'[u] = pc[u] /\ blk'[u] = blk[u]
  BY <1>1 DEF Threaded
<1>3. /\ pc' \in [Threads -> ClientLabels \cup Walking] /\ blk' \in [Threads -> Blocks \cup {None}]
  BY Zenon DEF Threaded
<1>4. Threaded'
  BY <1>1, <1>2, <1>3 DEF Threaded
<1>5. \A d \in Clients : pc'[d] \in Busy => blk'[d] \in cached'
  BY <1>1, <1>2 DEF Places
<1>6. pc'[Flusher] # "idle" => blk'[Flusher] \in cached'
  BY <1>1, <1>2 DEF Places
<1>7. \A d \in Clients : pc'[d] # "idle" => want'[d] \in Sectors
  BY <1>1, <1>2 DEF Places
<1>8. QED  BY <1>4, <1>5, <1>6, <1>7 DEF Places

LEMMA FlusherGoes ==
  ASSUME CacheAssumption, Threaded, Places, cached' = cached,
         NEW l \in Walking, pc' = [pc EXCEPT ![Flusher] = l],
         NEW b \in Blocks \cup {None}, blk' = [blk EXCEPT ![Flusher] = b], l # "idle" => b \in cached,
         want' = want, sector' = sector
  PROVE  Threaded' /\ Places'
<1>1. Flusher \in Threads /\ Flusher \notin Clients /\ \A d \in Clients : d \in Threads
  BY DEF Threads, CacheAssumption
<1>2. pc'[Flusher] = l /\ blk'[Flusher] = b /\ \A u \in Clients : pc'[u] = pc[u] /\ blk'[u] = blk[u]
  BY <1>1 DEF Threaded
<1>3. /\ pc' \in [Threads -> ClientLabels \cup Walking] /\ blk' \in [Threads -> Blocks \cup {None}]
  BY Zenon DEF Threaded
<1>4. Threaded'
  BY <1>1, <1>2, <1>3 DEF Threaded
<1>5. QED  BY <1>1, <1>2, <1>4 DEF Places

LEMMA PlacesStep ==
  ASSUME Counting, CacheAssumption, Placed, Next
  PROVE  Lists' /\ Threaded' /\ Places'
<1>0. Typed /\ Threaded /\ Lists /\ Places
  BY DEF Placed
<1> USE <1>0
<1>a. \A c \in Clients : c \in Threads
  BY DEF Threads
<1>1. ASSUME NEW c \in Clients, Goes(c)  PROVE Lists' /\ Threaded' /\ Places'
  <2>1. PICK l \in Busy \cup {"get"} : pc' = [pc EXCEPT ![c] = l]
    BY <1>1, Zenon DEF Goes
  <2>2. l \in ClientLabels /\ l # "idle"
    BY DEF Busy, ClientLabels
  <2>3. Lists' /\ cached' = cached
    BY <1>1, ListsStay DEF Goes
  <2>4. blk[c] \in cached /\ blk[c] \in Blocks /\ want[c] \in Sectors
    BY <1>1, ClientBlock DEF Goes
  <2>5. blk' = [blk EXCEPT ![c] = blk[c]]
    BY <1>1, <1>a DEF Goes, Threaded
  <2>6. \A d \in cached' : sector'[d] \in Sectors
    BY <1>1, <2>3 DEF Goes, Places
  <2>7. QED  BY <1>1, <2>1, <2>2, <2>3, <2>4, <2>5, <2>6, ClientGoes, Zenon DEF Goes
<1>2. ASSUME NEW c \in Clients, Call(c)  PROVE Lists' /\ Threaded' /\ Places'
  <2>1. PICK e \in errands[c] : want' = [want EXCEPT ![c] = e[2]]
    BY <1>2, Zenon DEF Call
  <2>2. e[2] \in Sectors
    <3>1. errands[c] \subseteq {"read", "index", "write", "zero"} \X Sectors
      BY DEF CacheAssumption, Typed
    <3>2. e \in {"read", "index", "write", "zero"} \X Sectors
      BY <3>1
    <3>3. QED  BY <3>2
  <2>3. want'[c] \in Sectors /\ \A d \in Clients \ {c} : want'[d] = want[d]
    BY <2>1, <2>2 DEF Typed
  <2>4. Lists' /\ cached' = cached
    BY <1>2, ListsStay DEF Call, lists
  <2>5. blk' = [blk EXCEPT ![c] = blk[c]] /\ blk[c] \in Blocks \cup {None}
    BY <1>2, <1>a DEF Call, Threaded
  <2>6. pc' = [pc EXCEPT ![c] = "get"] /\ "get" \in ClientLabels /\ "get" \notin Busy
    BY <1>2 DEF Call, Goto, ClientLabels, Busy
  <2>7. \A d \in cached' : sector'[d] \in Sectors
    BY <1>2, <2>4 DEF Call, Places
  <2>8. QED  BY <2>3, <2>4, <2>5, <2>6, <2>7, ClientGoes, Zenon
<1>3. ASSUME NEW c \in Clients, GetHit(c)  PROVE Lists' /\ Threaded' /\ Places'
  <2> DEFINE b == cache_lookup(want[c])
  <2>1. b \in cached /\ b \in Blocks
    BY <1>3, LookupFinds, CursorIsCached DEF GetHit
  <2>2. Touch(b) /\ blk' = [blk EXCEPT ![c] = b]
    BY <1>3 DEF GetHit
  <2> HIDE DEF b
  <2>a. Lists' /\ cached' = cached \cup {b}
    BY <2>1, <2>2, TouchLists
  <2>3. Lists' /\ cached' = cached
    BY <2>1, <2>a
  <2>4. pc' = [pc EXCEPT ![c] = "acquire"] /\ "acquire" \in ClientLabels
    BY <1>3 DEF GetHit, Goto, ClientLabels
  <2>5. want' = want /\ want[c] \in Sectors
    BY <1>3 DEF GetHit, call, Places
  <2>6. \A d \in cached' : sector'[d] \in Sectors
    BY <1>3, <2>3, Zenon DEF GetHit, Places
  <2>7. QED  BY <2>1, <2>2, <2>3, <2>4, <2>5, <2>6, ClientGoes, Zenon
<1>4. ASSUME NEW c \in Clients, GetFree(c)  PROVE Lists' /\ Threaded' /\ Places'
  <2> DEFINE b == Head(free_cache)
  <2>1. b \in Blocks
    BY <1>4 DEF GetFree, Lists
  <2>2. Touch(b) /\ blk' = [blk EXCEPT ![c] = b] /\ sector' = [sector EXCEPT ![b] = want[c]]
    BY <1>4 DEF GetFree
  <2> HIDE DEF b
  <2>3. Lists' /\ cached' = cached \cup {b}
    BY <2>1, <2>2, TouchLists
  <2>4. pc' = [pc EXCEPT ![c] = "acquire"] /\ "acquire" \in ClientLabels
    BY <1>4 DEF GetFree, Goto, ClientLabels
  <2>5. want' = want /\ want[c] \in Sectors
    BY <1>4 DEF GetFree, call, Places
  <2>6. \A d \in cached' : sector'[d] \in Sectors
    <3>1. sector'[b] = want[c] /\ \A d \in Blocks \ {b} : sector'[d] = sector[d]
      BY <2>1, <2>2 DEF Typed
    <3>2. cached \subseteq Blocks /\ \A d \in cached : sector[d] \in Sectors
      BY CursorIsCached DEF Places
    <3>3. QED  BY <2>3, <2>5, <3>1, <3>2
  <2>7. QED  BY <2>1, <2>2, <2>3, <2>4, <2>5, <2>6, ClientGoes, Zenon
<1>5. ASSUME NEW c \in Clients, GetEvict(c)  PROVE Lists' /\ Threaded' /\ Places'
  <2>1. list_rbegin \in cached /\ list_rbegin \in Blocks
    BY <1>5, CursorIsCached, Zenon DEF GetEvict
  <2>2. blk' = [blk EXCEPT ![c] = list_rbegin]
    BY <1>5, Zenon DEF GetEvict
  <2>3. Lists' /\ cached' = cached
    BY <1>5, ListsStay, Zenon DEF GetEvict
  <2>4. pc' = [pc EXCEPT ![c] = "scan"] /\ "scan" \in ClientLabels
    BY <1>5, Zenon DEF GetEvict, Goto, ClientLabels
  <2>5. want' = want /\ want[c] \in Sectors
    BY <1>5 DEF GetEvict, call, Places
  <2>6. \A d \in cached' : sector'[d] \in Sectors
    BY <1>5, <2>3 DEF GetEvict, Places
  <2>7. QED  BY <2>1, <2>2, <2>3, <2>4, <2>5, <2>6, ClientGoes, Zenon
<1>6. ASSUME NEW c \in Clients, EvictSkip(c)  PROVE Lists' /\ Threaded' /\ Places'
  <2> DEFINE b == IF list_prev(blk[c]) = None THEN list_rbegin ELSE list_prev(blk[c])
  <2>1. pc[c] = "scan" /\ "scan" \in Busy /\ "scan" \in ClientLabels
    BY <1>6 DEF EvictSkip, Busy, ClientLabels
  <2>2. blk[c] \in cached /\ want[c] \in Sectors
    BY <2>1, ClientBlock
  <2>3. buffer_cache # << >>
    BY <2>2 DEF cached, Queued
  <2>4. b \in cached /\ b \in Blocks
    BY <2>2, <2>3, CursorIsCached
  <2>5. blk' = [blk EXCEPT ![c] = b]
    BY <1>6 DEF EvictSkip
  <2> HIDE DEF b
  <2>6. Lists' /\ cached' = cached
    BY <1>6, ListsStay DEF EvictSkip
  <2>7. pc' = [pc EXCEPT ![c] = "scan"]
    BY <1>6, <1>a, <2>1 DEF EvictSkip, Threaded
  <2>8. want' = want
    BY <1>6 DEF EvictSkip, call
  <2>9. \A d \in cached' : sector'[d] \in Sectors
    BY <1>6, <2>6 DEF EvictSkip, Places
  <2>10. QED  BY <2>1, <2>2, <2>4, <2>5, <2>6, <2>7, <2>8, <2>9, ClientGoes, Zenon
<1>7. ASSUME NEW c \in Clients, EvictRetag(c)  PROVE Lists' /\ Threaded' /\ Places'
  <2>1. pc[c] \in Busy
    BY <1>7 DEF EvictRetag, Busy, ClientLabels, Evicting
  <2>2. blk[c] \in cached /\ blk[c] \in Blocks /\ want[c] \in Sectors
    BY <2>1, ClientBlock
  <2>3. Lists' /\ cached' = cached
    BY <1>7, ListsStay DEF EvictRetag
  <2>4. pc' = [pc EXCEPT ![c] = "unpin"] /\ "unpin" \in ClientLabels
    BY <1>7 DEF EvictRetag, Goto, ClientLabels, Evicting
  <2>5. want' = want /\ blk' = [blk EXCEPT ![c] = blk[c]]
    BY <1>7, <1>a DEF EvictRetag, call, Threaded
  <2>6. \A d \in cached' : sector'[d] \in Sectors
    BY <1>7, <2>2, <2>3, CursorIsCached, Zenon DEF EvictRetag, Places, Typed
  <2>7. QED  BY <2>2, <2>3, <2>4, <2>5, <2>6, ClientGoes, Zenon
<1>8. ASSUME NEW c \in Clients, EvictRelist(c)  PROVE Lists' /\ Threaded' /\ Places'
  <2>1. pc[c] \in Busy
    BY <1>8, Zenon DEF EvictRelist, Busy, ClientLabels
  <2>2. blk[c] \in cached /\ blk[c] \in Blocks /\ want[c] \in Sectors
    BY <2>1, ClientBlock
  <2>3. Lists' /\ cached' = cached
    <3>1. Lists' /\ cached' = cached \cup {blk[c]}
      BY <1>8, <2>2, TouchLists DEF EvictRelist
    <3>2. QED  BY <2>2, <3>1
  <2>4. pc' = [pc EXCEPT ![c] = "acquire"] /\ "acquire" \in ClientLabels
    BY <1>8 DEF EvictRelist, Goto, ClientLabels
  <2>5. want' = want /\ blk' = [blk EXCEPT ![c] = blk[c]]
    BY <1>8, <1>a DEF EvictRelist, call, Threaded
  <2>6. \A d \in cached' : sector'[d] \in Sectors
    BY <1>8, <2>3 DEF EvictRelist, Places
  <2>7. QED  BY <2>2, <2>3, <2>4, <2>5, <2>6, ClientGoes, Zenon
<1>9. ASSUME NEW c \in Clients, Put(c)  PROVE Lists' /\ Threaded' /\ Places'
  <2>1. Lists' /\ cached' = cached
    BY <1>9, ListsStay DEF Put
  <2>2. pc' = [pc EXCEPT ![c] = "idle"] /\ "idle" \in ClientLabels /\ "idle" \notin Busy
    BY <1>9 DEF Put, Goto, ClientLabels, Busy
  <2>3. blk' = [blk EXCEPT ![c] = None] /\ \A d \in Clients \ {c} : want'[d] = want[d]
    BY <1>9 DEF Put, Typed
  <2>4. \A d \in cached' : sector'[d] \in Sectors
    BY <1>9, <2>1 DEF Put, Places
  <2>5. QED  BY <2>1, <2>2, <2>3, <2>4, ClientGoes, Zenon
<1>b. Flusher \in Threads /\ blk = [blk EXCEPT ![Flusher] = blk[Flusher]]
  BY DEF Threads, Threaded
<1>10. ASSUME FlushStart  PROVE Lists' /\ Threaded' /\ Places'
  <2>1. Lists' /\ cached' = cached
    BY <1>10, ListsStay, Zenon DEF FlushStart
  <2>2. list_rbegin \in cached /\ list_rbegin \in Blocks
    BY <1>10, CursorIsCached DEF FlushStart
  <2>3. /\ pc' = [pc EXCEPT ![Flusher] = "fcheck"] /\ "fcheck" \in Walking
        /\ blk' = [blk EXCEPT ![Flusher] = list_rbegin] /\ want' = want /\ sector' = sector
    BY <1>10 DEF FlushStart, Goto, Walking, call
  <2>4. QED  BY <2>1, <2>2, <2>3, FlusherGoes, Zenon
<1>11. ASSUME FlushCheck \/ FlushTry \/ FlushWrite \/ FlushUnpin
       PROVE  Lists' /\ Threaded' /\ Places'
  <2>1. /\ lists' = lists /\ blk' = blk /\ want' = want /\ sector' = sector
        /\ pc[Flusher] # "idle" /\ \E l \in Walking \ {"idle"} : pc' = [pc EXCEPT ![Flusher] = l]
    BY <1>11, Zenon DEF FlushCheck, FlushTry, FlushWrite, FlushUnpin, Goto, Walking, call
  <2>2. PICK l \in Walking \ {"idle"} : pc' = [pc EXCEPT ![Flusher] = l]
    BY <2>1, Zenon
  <2>3. blk[Flusher] \in cached /\ blk[Flusher] \in Blocks
    BY <2>1, FlusherBlock, Zenon
  <2>4. Lists' /\ cached' = cached
    BY <2>1, ListsStay, Zenon
  <2>5. QED  BY <1>b, <2>1, <2>2, <2>3, <2>4, FlusherGoes, Zenon
<1>12. ASSUME FlushNext  PROVE Lists' /\ Threaded' /\ Places'
  <2>1. Lists' /\ cached' = cached
    BY <1>12, ListsStay DEF FlushNext
  <2> DEFINE b == list_prev(blk[Flusher])
             l == IF b = None THEN "idle" ELSE "fcheck"
  <2>2. blk[Flusher] \in cached
    BY <1>12, FlusherBlock, Zenon DEF FlushNext
  <2>3. b # None => b \in cached /\ b \in Blocks
    BY <2>2, CursorIsCached
  <2>4. /\ pc' = [pc EXCEPT ![Flusher] = l] /\ blk' = [blk EXCEPT ![Flusher] = b]
        /\ want' = want /\ sector' = sector
    BY <1>12 DEF FlushNext, Goto, call
  <2>5. l \in Walking /\ (l # "idle" => b # None)
    BY DEF Walking
  <2> HIDE DEF b, l
  <2>6. b \in Blocks \cup {None}
    BY <2>3
  <2>7. QED  BY <2>1, <2>3, <2>4, <2>5, <2>6, FlusherGoes, Zenon
<1>13. QED
  BY <1>1, <1>2, <1>3, <1>4, <1>5, <1>6, <1>7, <1>8, <1>9, <1>10, <1>11, <1>12, MostStepsGo, Zenon
  DEF Next, Get, Use, Flush
=============================================================================
