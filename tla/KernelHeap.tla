----------------------------- MODULE KernelHeap -----------------------------
(***************************************************************************)
(* threads/palloc.c and threads/malloc.c: pages handed out from a bitmap,  *)
(* and blocks of powers of two cut from pages ("arenas") or whole runs of  *)
(* pages for what does not fit.  Threads allocate and free concurrently.   *)
(* A free list is only touched under its descriptor's lock; the bitmap is  *)
(* scanned and marked under the pool's lock but cleared under none, so a   *)
(* scan runs against bits that others are clearing, one by one.            *)
(***************************************************************************)
EXTENDS BitmapOps, SequencesExt

CONSTANTS Threads, Nobody, NumPages,
          PGSIZE, ArenaSize, MinBlock,   \* sizes, in bytes
          Requests                       \* sizes that threads ask for

Big == 0

\* malloc_init: the block sizes that descriptors serve.
Descs == {size \in MinBlock .. PGSIZE \div 2 - 1 :
            \E k \in 0 .. PGSIZE : size = MinBlock * 2 ^ k}
blocks_per_arena(d) == (PGSIZE - ArenaSize) \div d

\* The descriptor that malloc chooses for a size, or Big.
desc_for(size) ==
  LET fit == {d \in Descs : d >= size}
  IN IF fit = {} THEN Big ELSE CHOOSE d \in fit : \A e \in fit : d <= e

page_cnt_for(size) == (size + ArenaSize + PGSIZE - 1) \div PGSIZE

\* Blocks are addresses: the page and the offset in it.
arena_to_block(page, d, i) == <<page, ArenaSize + i * d>>
ArenaBlocks(page, d) == [i \in 1 .. blocks_per_arena(d) |-> arena_to_block(page, d, i - 1)]

VARIABLES used_map,   \* bitmap of the pool
          pool_lock,  \* its holder
          desc_lock,  \* descriptor -> holder of its lock
          free_list,  \* descriptor -> sequence of blocks
          arena,      \* page -> desc and free_cnt of the arena that starts there
          held,       \* thread -> blocks it has been given: address and size asked for
          op          \* thread -> the allocation or release it is in the middle of

vars == <<used_map, pool_lock, desc_lock, free_list, arena, held, op>>

Idle == [at |-> "idle"]
NoArena == [desc |-> Big, free_cnt |-> 0]

Init == /\ used_map = bitmap_create(NumPages)
        /\ pool_lock = Nobody
        /\ desc_lock = [d \in Descs |-> Nobody]
        /\ free_list = [d \in Descs |-> <<>>]
        /\ arena = [p \in 0 .. NumPages - 1 |-> NoArena]
        /\ held = [t \in Threads |-> {}]
        /\ op = [t \in Threads |-> Idle]

\* Take the first free block of d for t and let go of the lock.
Pop(t, d, list, arenas, size) ==
  LET b == Head(list)
  IN /\ free_list' = [free_list EXCEPT ![d] = Tail(list)]
     /\ arena' = [arenas EXCEPT ![b[1]].free_cnt = @ - 1]
     /\ held' = [held EXCEPT ![t] = @ \cup {[addr |-> b, size |-> size]}]
     /\ desc_lock' = [desc_lock EXCEPT ![d] = Nobody]
     /\ op' = [op EXCEPT ![t] = Idle]

\* malloc of a block that has a descriptor: from the free list, or by way of
\* a new page with the lock kept.
malloc(t, size) ==
  LET d == desc_for(size)
  IN /\ op[t] = Idle /\ d # Big /\ desc_lock[d] = Nobody
     /\ UNCHANGED <<used_map, pool_lock>>
     /\ IF free_list[d] # <<>> THEN Pop(t, d, free_list[d], arena, size)
        ELSE /\ desc_lock' = [desc_lock EXCEPT ![d] = t]
             /\ op' = [op EXCEPT ![t] = [at |-> "get", desc |-> d, size |-> size, cnt |-> 1]]
             /\ UNCHANGED <<free_list, arena, held>>

malloc_big(t, size) ==
  /\ op[t] = Idle /\ desc_for(size) = Big
  /\ op' = [op EXCEPT ![t] = [at |-> "get", desc |-> Big, size |-> size,
                              cnt |-> page_cnt_for(size)]]
  /\ UNCHANGED <<used_map, pool_lock, desc_lock, free_list, arena, held>>

\* Mutant: the scan does not take the pool's lock.
MutantUnlocked(t) ==
  LET idx == bitmap_scan(used_map, 0, op[t].cnt, FALSE)
      d == op[t].desc
  IN /\ op[t].at = "get"
     /\ UNCHANGED <<used_map, pool_lock, free_list, arena, held>>
     /\ IF idx # BITMAP_ERROR
        THEN /\ op' = [op EXCEPT ![t] = [at |-> "mark", desc |-> d, size |-> op[t].size,
                                         cnt |-> op[t].cnt, page |-> idx, done |-> 0]]
             /\ UNCHANGED desc_lock
        ELSE /\ op' = [op EXCEPT ![t] = Idle]
             /\ desc_lock' = [e \in Descs |-> IF e = d THEN Nobody ELSE desc_lock[e]]

\* palloc_get_multiple: the scan, and its failure.
palloc_scan(t) ==
  LET idx == bitmap_scan(used_map, 0, op[t].cnt, FALSE)
      d == op[t].desc
  IN /\ op[t].at = "get" /\ pool_lock = Nobody
     /\ UNCHANGED <<used_map, free_list, arena, held>>
     /\ IF idx # BITMAP_ERROR
        THEN /\ pool_lock' = t
             /\ op' = [op EXCEPT ![t] = [at |-> "mark", desc |-> d, size |-> op[t].size,
                                         cnt |-> op[t].cnt, page |-> idx, done |-> 0]]
             /\ UNCHANGED desc_lock
        ELSE /\ op' = [op EXCEPT ![t] = Idle]
             /\ desc_lock' = [e \in Descs |-> IF e = d THEN Nobody ELSE desc_lock[e]]
             /\ UNCHANGED pool_lock

\* The bits are set one at a time; the last one ends the allocation.
palloc_mark(t) ==
  LET o == op[t]
      d == o.desc
      fresh == [arena EXCEPT ![o.page] =
                  [desc |-> d, free_cnt |-> IF d = Big THEN o.cnt ELSE blocks_per_arena(d)]]
  IN /\ o.at = "mark"
     /\ used_map' = bitmap_set(used_map, o.page + o.done, TRUE)
     /\ IF o.done + 1 < o.cnt
        THEN /\ op' = [op EXCEPT ![t].done = @ + 1]
             /\ UNCHANGED <<pool_lock, desc_lock, free_list, arena, held>>
        ELSE /\ pool_lock' = Nobody
             /\ IF d # Big THEN Pop(t, d, ArenaBlocks(o.page, d), fresh, o.size)
                ELSE /\ arena' = fresh
                     /\ held' = [held EXCEPT ![t] = @ \cup
                                   {[addr |-> <<o.page, ArenaSize>>, size |-> o.size]}]
                     /\ op' = [op EXCEPT ![t] = Idle]
                     /\ UNCHANGED <<desc_lock, free_list>>

\* free: back on the front of the list, and the arena goes with its last block.
free(t, h) ==
  LET page == h.addr[1]
      d == arena[page].desc
      list == <<h.addr>> \o free_list[d]
      cnt == arena[page].free_cnt + 1
  IN /\ op[t] = Idle /\ d # Big /\ desc_lock[d] = Nobody
     /\ held' = [held EXCEPT ![t] = @ \ {h}]
     /\ UNCHANGED <<used_map, pool_lock>>
     /\ IF cnt < blocks_per_arena(d)
        THEN /\ free_list' = [free_list EXCEPT ![d] = list]
             /\ arena' = [arena EXCEPT ![page].free_cnt = cnt]
             /\ UNCHANGED <<desc_lock, op>>
        ELSE /\ free_list' = [free_list EXCEPT ![d] = SelectSeq(list, LAMBDA b : b[1] # page)]
             /\ arena' = [arena EXCEPT ![page] = NoArena]
             /\ desc_lock' = [desc_lock EXCEPT ![d] = t]
             /\ op' = [op EXCEPT ![t] = [at |-> "clear", desc |-> d, page |-> page, cnt |-> 1]]

free_big(t, h) ==
  LET page == h.addr[1]
  IN /\ op[t] = Idle /\ arena[page].desc = Big
     /\ held' = [held EXCEPT ![t] = @ \ {h}]
     /\ arena' = [arena EXCEPT ![page] = NoArena]
     /\ op' = [op EXCEPT ![t] = [at |-> "clear", desc |-> Big, page |-> page,
                                 cnt |-> arena[page].free_cnt]]
     /\ UNCHANGED <<used_map, pool_lock, desc_lock, free_list>>

\* palloc_free_multiple clears the lowest bit that is left, without the lock.
palloc_clear(t) ==
  LET o == op[t]
  IN /\ o.at = "clear"
     /\ used_map' = bitmap_set(used_map, o.page, FALSE)
     /\ op' = [op EXCEPT ![t] = IF o.cnt = 1 THEN Idle
                                ELSE [o EXCEPT !.page = @ + 1, !.cnt = @ - 1]]
     /\ desc_lock' = [d \in Descs |-> IF d = o.desc THEN Nobody ELSE desc_lock[d]]
     /\ UNCHANGED <<pool_lock, free_list, arena, held>>

Next == \E t \in Threads :
          \/ \E size \in Requests : malloc(t, size) \/ malloc_big(t, size)
          \/ palloc_scan(t) \/ palloc_mark(t) \/ palloc_clear(t)
          \/ \E h \in held[t] : free(t, h) \/ free_big(t, h)

Spec == Init /\ [][Next]_vars

Bytes(addr, size) == LET a == addr[1] * PGSIZE + addr[2] IN a .. a + size - 1
Given == UNION {held[t] : t \in Threads}
FreeBlocks(d) == {free_list[d][i] : i \in DOMAIN free_list[d]}
\* The pages behind what was given out, and the headers at their start.
Span(page) == page .. page + (IF arena[page].desc = Big THEN arena[page].free_cnt ELSE 1) - 1
Starts == {h.addr[1] : h \in Given} \cup {b[1] : b \in UNION {FreeBlocks(d) : d \in Descs}}

\* Memory is handed out once, although pages are freed without the lock that
\* allocation takes: the bytes of two blocks that threads hold never meet,
\* they meet no header and no free block, and they lie in pages the bitmap
\* has marked; pages of two arenas never overlap; and an arena counts its
\* free blocks exactly, so that it goes back when, and only when, none of
\* its blocks is in use.
BlocksAreDisjoint ==
  /\ \A g, h \in Given : g # h => Bytes(g.addr, g.size) \cap Bytes(h.addr, h.size) = {}
  /\ Cardinality(Given) = FoldSet(LAMBDA t, n : n + Cardinality(held[t]), 0, Threads)
  /\ \A h \in Given :
       /\ \A p \in Starts : Bytes(h.addr, h.size) \cap Bytes(<<p, 0>>, ArenaSize) = {}
       /\ \A d \in Descs : \A b \in FreeBlocks(d) :
            Bytes(h.addr, h.size) \cap Bytes(b, d) = {}
       /\ Bytes(h.addr, h.size) \subseteq
            UNION {Bytes(<<p, 0>>, PGSIZE) : p \in Span(h.addr[1])}
  /\ \A p \in Starts : /\ \A q \in Span(p) : used_map[q]
                       /\ \A q \in Starts \ {p} : Span(p) \cap Span(q) = {}
  /\ \A d \in Descs : \A p \in Starts : arena[p].desc = d =>
       arena[p].free_cnt = Cardinality({b \in FreeBlocks(d) : b[1] = p})

\* No page is lost: with nobody in the middle of a call, the pages that are
\* marked are those of the arenas and big blocks in use.
PagesAreReturned ==
  (\A t \in Threads : op[t] = Idle) =>
    {p \in DOMAIN used_map : used_map[p]} = UNION {Span(p) : p \in Starts}
=============================================================================
