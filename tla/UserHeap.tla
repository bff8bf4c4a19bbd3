------------------------------ MODULE UserHeap ------------------------------
(***************************************************************************)
(* lib/user/malloc.c, the allocator that programs are linked with: blocks  *)
(* tile a heap that only grows, every block has a header, a free one also  *)
(* a footer, and free blocks sit on lists by size.  A used block has no    *)
(* footer: whether the block before it is free is a bit of its own header. *)
(*                                                                         *)
(* Addresses are words.  Only the words that hold tags are kept; once a    *)
(* block is handed out its program may overwrite all of it but the header, *)
(* so the tags that lay there are forgotten and must not be read again.    *)
(* realloc is not modelled.                                                *)
(***************************************************************************)
EXTENDS Integers, FiniteSets, SequencesExt

CONSTANTS MIN_BLOCK_SIZE_WORDS, CHUNKSIZE,
          SearchLimit,   \* blocks that a search looks at: 50
          HeapLimit,     \* words that sbrk will grant in all
          Requests       \* sizes, in bytes, that the program asks for

WSIZE == 4
ALIGNMENT == 16
FENCE == [inuse |-> TRUE, pinuse |-> FALSE, size |-> 0]
First == 3                         \* mm_init: the word of the first header

VARIABLE h   \* tag : word -> tag; seg : list -> blocks; end : first word past the
             \* heap; given : block -> bytes asked for; missed : the last call found
             \* no block although one was large enough and fewer than SearchLimit
             \* free ones were too small

(* The segregated lists: which list a size belongs to, where a search starts. *)
Threshold == <<2, 4, 8, 16, 32, 64, 129, 256, 512, 1024, 2048, 4096, 8192, 16384, 32768>>
get_list(size) == Cardinality({i \in DOMAIN Threshold : size >= Threshold[i]})

sizes == <<8, 24, 48, 80, 160, 320, 640, 960, 512, 1024, 2048, 4096, 8192, 16384, 32768>>
get_non_empty_list(x, size) ==
  LET fit == {i \in DOMAIN sizes : size <= sizes[i] /\ x.seg[i - 1] # <<>>}
  IN IF fit = {} THEN 15 ELSE (CHOOSE i \in fit : \A j \in fit : i <= j) - 1

\* First fit over the lists in order.  The search looks at SearchLimit blocks,
\* and after that only at the first block of each list that is left.
find_fit(x, asize) ==
  LET from == get_non_empty_list(x, asize)
      places == UNION {{<<i, k>> : k \in DOMAIN x.seg[i]} : i \in from .. 15}
      Before(p, q) == p[1] < q[1] \/ (p[1] = q[1] /\ p[2] < q[2])
      fit == {q \in places :
                /\ asize <= x.tag[x.seg[q[1]][q[2]]].size
                /\ q[2] = 1 \/ Cardinality({p \in places : Before(p, q)}) < SearchLimit}
      first == CHOOSE q \in fit : \A p \in fit : p = q \/ Before(q, p)
  IN IF fit = {} THEN 0 ELSE x.seg[first[1]][first[2]]

(* Tags. *)
Put(x, a, t) == [x EXCEPT !.tag = (a :> t) @@ @]
blk_size(x, b) == x.tag[b].size
blk_free(x, b) == ~x.tag[b].inuse
next_blk(x, b) == b + blk_size(x, b)
prev_blk(x, b) == b - x.tag[b - 1].size
set_pinuse(x, b, v) == Put(x, b, [x.tag[b] EXCEPT !.pinuse = v])

\* Mutant: the block that follows is not told.
MutantNoPinuse(x, b, size) == Put(x, b, [x.tag[b] EXCEPT !.inuse = TRUE, !.size = size])

mark_block_used(x, b, size) ==
  set_pinuse(Put(x, b, [x.tag[b] EXCEPT !.inuse = TRUE, !.size = size]), b + size, TRUE)

\* Header and footer; what follows exists already, or is about to be a fence.
mark_block_free(x, b, size) ==
  LET t == [x.tag[b] EXCEPT !.inuse = FALSE, !.size = size]
      y == Put(Put(x, b, t), b + size - 1, t)
  IN IF b + size \in DOMAIN y.tag THEN set_pinuse(y, b + size, FALSE) ELSE y

list_push_back(x, b) == [x EXCEPT !.seg[get_list(blk_size(x, b))] = Append(@, b)]
list_remove(x, b) ==
  [x EXCEPT !.seg = [i \in DOMAIN @ |-> SelectSeq(@[i], LAMBDA c : c # b)]]

\* Merge b with its free neighbours: lo is the block that remains.
coalesce(x, b) ==
  LET prev == ~x.tag[b].pinuse
      next == blk_free(x, next_blk(x, b))
      lo == IF prev THEN prev_blk(x, b) ELSE b
      hi == next_blk(x, b)
      size == blk_size(x, b) + (IF prev THEN blk_size(x, lo) ELSE 0)
                             + (IF next THEN blk_size(x, hi) ELSE 0)
      y == list_remove(list_remove(list_remove(mark_block_free(x, lo, size), b), lo),
                       IF next THEN hi ELSE b)
  IN IF ~prev /\ ~next THEN [x |-> x, b |-> b] ELSE [x |-> list_push_back(y, lo), b |-> lo]

\* Returns block 0 when sbrk refuses.
extend_heap(x, words) ==
  LET b == x.end - 1
      y == mark_block_free([x EXCEPT !.end = @ + words], b, words)
  IN IF x.end + words > HeapLimit THEN [x |-> x, b |-> 0]
     ELSE coalesce(list_push_back(Put(y, b + words, FENCE), b), b)

place(x, b, asize) ==
  LET csize == blk_size(x, b)
      rest == b + asize
      y == Put(mark_block_used(Put(x, rest, FENCE), b, asize), rest,
               [FENCE EXCEPT !.pinuse = TRUE])
  IN IF csize - asize >= MIN_BLOCK_SIZE_WORDS
     THEN coalesce(list_push_back(mark_block_free(y, rest, csize - asize), rest), rest).x
     ELSE mark_block_used(x, b, csize)

\* The payload is the program's: its words hold no tags any more.
HandOut(x, b, size) ==
  [x EXCEPT !.given = (b :> size) @@ @,
            !.tag = [w \in DOMAIN @ \ (b + 1 .. b + blk_size(x, b) - 1) |-> @[w]]]

mm_init ==
  LET fences == [w \in {2, 3} |-> IF w = 2 THEN FENCE ELSE [FENCE EXCEPT !.pinuse = TRUE]]
  IN extend_heap([tag |-> fences, seg |-> [i \in 0 .. 15 |-> <<>>], end |-> 4,
                  given |-> [b \in {} |-> 0], missed |-> FALSE], CHUNKSIZE).x

\* The first call of malloc comes here; what follows is the program's life.
Init == h = mm_init

adjusted_words(size) ==
  LET aligned == ((size + WSIZE + ALIGNMENT - 1) \div ALIGNMENT) * ALIGNMENT
      words == aligned \div WSIZE
  IN IF words > MIN_BLOCK_SIZE_WORDS THEN words ELSE MIN_BLOCK_SIZE_WORDS

FreeBlocks(x) == UNION {{x.seg[i][k] : k \in DOMAIN x.seg[i]} : i \in 0 .. 15}

malloc(size) ==
  LET awords == adjusted_words(size)
      fit == find_fit(h, awords)
      more == IF awords > CHUNKSIZE THEN awords ELSE CHUNKSIZE
      got == IF fit # 0 THEN [x |-> h, b |-> fit] ELSE extend_heap(h, more)
      small == {b \in FreeBlocks(h) : blk_size(h, b) < awords}
      missed == fit = 0 /\ small # FreeBlocks(h) /\ Cardinality(small) < SearchLimit
  IN h' = IF got.b = 0 THEN [h EXCEPT !.missed = missed]
          ELSE [HandOut(place(list_remove(got.x, got.b), got.b, awords), got.b, size)
                  EXCEPT !.missed = missed]

free(b) ==
  LET x == [h EXCEPT !.given = [c \in DOMAIN @ \ {b} |-> @[c]], !.missed = FALSE]
  IN h' = coalesce(mark_block_free(list_push_back(x, b), b, blk_size(x, b)), b).x

Next == \/ \E size \in Requests : malloc(size)
        \/ \E b \in DOMAIN h.given : free(b)

Spec == Init /\ [][Next]_h

\* The blocks met when the heap is walked from its first header to the fence.
Chain ==
  LET step[k \in 0 .. HeapLimit] ==
        IF k = 0 THEN {First}
        ELSE LET met == step[k - 1]
             IN met \cup {b + h.tag[b].size : b \in met \cap DOMAIN h.tag}
  IN step[HeapLimit \div MIN_BLOCK_SIZE_WORDS]
\* Walking the headers tiles the heap up to the fence, so payloads never
\* overlap; every header knows whether its predecessor is in use and a free
\* block's footer agrees with its header; free neighbours are always merged;
\* the used blocks are exactly those handed out, each with room for what was
\* asked; and the free ones are each on the one list their size belongs to.
HeapIsTiled ==
  LET chain == Chain
      blocks == chain \ {h.end - 1}
  IN /\ h.end - 1 \in chain /\ chain \subseteq DOMAIN h.tag
     /\ \A b \in blocks :
          /\ next_blk(h, b) < h.end
          /\ h.tag[next_blk(h, b)].pinuse = h.tag[b].inuse
          /\ h.tag[b].inuse =>
               b \in DOMAIN h.given /\ (blk_size(h, b) - 1) * WSIZE >= h.given[b]
          /\ ~h.tag[b].inuse =>
               /\ h.tag[b + blk_size(h, b) - 1].size = blk_size(h, b)
               /\ h.tag[b].pinuse /\ h.tag[next_blk(h, b)].inuse
               /\ b \in ToSet(h.seg[get_list(blk_size(h, b))])
     /\ DOMAIN h.given = {b \in blocks : h.tag[b].inuse}
     /\ FreeBlocks(h) = {b \in blocks : blk_free(h, b)}
     /\ Cardinality(FreeBlocks(h)) = FoldFunction(LAMBDA l, n : n + Len(l), 0, h.seg)

\* The heap grows, or malloc fails, only when no free block is large enough or
\* the search met as many smaller ones as it looks at: the list where it starts
\* is never past one that holds a fit.
GrowsOnlyWhenFull == ~h.missed
=============================================================================
