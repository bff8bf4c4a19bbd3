----------------------------- MODULE Containers -----------------------------
(***************************************************************************)
(* lib/kernel/list.c as what it is, pointers: a heap of cells with next    *)
(* and prev links, HEAD and TAIL the two sentinels.  Every operation is    *)
(* its sequence of pointer assignments, checked against what the operation *)
(* means on sequences.                                                     *)
(*                                                                         *)
(* lib/kernel/hash.c: a table of buckets that grows and shrinks with its   *)
(* number of elements, the allocation of the new buckets failing at any    *)
(* time.  A bucket is the sequence of its list; `less' compares keys.      *)
(***************************************************************************)
EXTENDS Integers, Sequences, SequencesExt, FiniteSets, Bitwise

CONSTANTS Elems, key,   \* the elements; the value that `less' compares
          hash,         \* and the one it is hashed to
          MinBuckets, BEST_ELEMS_PER_BUCKET

VARIABLES l,        \* the cells: next and prev
          seq,      \* history: the sequence the list stands for
          table,    \* buckets (0 .. bucket_cnt - 1), bucket_cnt, elem_cnt
          members   \* history: what the callers put in and took out

HEAD == 0      \* the elements are positive
TAIL == -1
NULL == -2
Cells == Elems \cup {HEAD, TAIL}
less(a, b) == key[a] < key[b]

setNext(h, c, v) == [h EXCEPT !.next[c] = v]
setPrev(h, c, v) == [h EXCEPT !.prev[c] = v]

list_init == [next |-> [c \in Cells |-> IF c = HEAD THEN TAIL ELSE NULL],
              prev |-> [c \in Cells |-> IF c = TAIL THEN HEAD ELSE NULL]]

list_begin(h) == h.next[HEAD]
list_empty(h) == list_begin(h) = TAIL
is_interior(h, e) == e \in Cells /\ h.prev[e] # NULL /\ h.next[e] # NULL

list_insert(h, before, elem) ==
  LET h1 == setPrev(h, elem, h.prev[before])
      h2 == setNext(h1, elem, before)
      h3 == setNext(h2, h2.prev[before], elem)
  IN  setPrev(h3, before, elem)

list_splice(h, before, first, end) ==
  IF first = end THEN h
  ELSE LET last == h.prev[end]
           h1 == setNext(h, h.prev[first], h.next[last])
           h2 == setPrev(h1, h1.next[last], h1.prev[first])
           h3 == setPrev(h2, first, h2.prev[before])
           h4 == setNext(h3, last, before)
           h5 == setNext(h4, h4.prev[before], first)
       IN  setPrev(h5, before, last)

list_remove(h, elem) ==
  LET h1 == setNext(h, h.prev[elem], h.next[elem])
  IN  setPrev(h1, h1.next[elem], h1.prev[elem])

\* The loop of list_reverse swaps the links of each element, then follows prev.
RECURSIVE SwapFrom(_, _)
SwapFrom(h, e) ==
  IF e = TAIL THEN h
  ELSE LET h1 == [h EXCEPT !.next[e] = h.prev[e], !.prev[e] = h.next[e]]
       IN  SwapFrom(h1, h1.prev[e])

list_reverse(h) ==
  IF list_empty(h) THEN h
  ELSE LET h1 == SwapFrom(h, list_begin(h))
           h2 == setPrev(setNext(h1, HEAD, h1.prev[TAIL]), TAIL, h1.next[HEAD])
           a  == h2.next[HEAD]
           b  == h2.prev[TAIL]
       IN  setNext(setPrev(h2, a, h2.next[b]), b, h2.prev[a])

RECURSIVE find_end_of_run(_, _, _)
find_end_of_run(h, a, b) ==
  LET n == h.next[a] IN IF n # b /\ ~less(n, h.prev[n]) THEN find_end_of_run(h, n, b) ELSE n

RECURSIVE inplace_merge(_, _, _, _)
inplace_merge(h, a0, a1b0, b1) ==
  IF a0 = a1b0 \/ a1b0 = b1 THEN h
  ELSE IF ~less(a1b0, a0) THEN inplace_merge(h, h.next[a0], a1b0, b1)
  ELSE LET n == h.next[a1b0]
       IN  inplace_merge(list_splice(h, a0, h.prev[n], n), a0, n, b1)

\* One pass over the list; runs counts the runs it put out.
RECURSIVE MergePass(_, _, _)
MergePass(h, a0, runs) ==
  IF a0 = TAIL THEN [h |-> h, runs |-> runs]
  ELSE LET a1b0 == find_end_of_run(h, a0, TAIL)
           b1   == find_end_of_run(h, a1b0, TAIL)
       IN  IF a1b0 = TAIL THEN [h |-> h, runs |-> runs + 1]
           ELSE MergePass(inplace_merge(h, a0, a1b0, b1), b1, runs + 1)

RECURSIVE list_sort(_)
list_sort(h) ==
  LET pass == MergePass(h, list_begin(h), 0)
  IN  IF pass.runs > 1 THEN list_sort(pass.h) ELSE pass.h

RECURSIVE FirstAbove(_, _, _)
FirstAbove(h, e, elem) ==
  IF e = TAIL \/ less(elem, e) THEN e ELSE FirstAbove(h, h.next[e], elem)
list_insert_ordered(h, elem) == list_insert(h, FirstAbove(h, list_begin(h), elem), elem)

RECURSIVE Unique(_, _)
Unique(h, e) ==
  LET n == h.next[e]
  IN  IF n = TAIL THEN h
      ELSE IF ~less(e, n) /\ ~less(n, e) THEN Unique(list_remove(h, n), e)
      ELSE Unique(h, n)
list_unique(h) == IF list_empty(h) THEN h ELSE Unique(h, list_begin(h))

RECURSIVE Best(_, _, _, _)
Best(h, best, e, max) ==
  IF e = TAIL THEN best
  ELSE Best(h, IF (max /\ less(best, e)) \/ (~max /\ less(e, best)) THEN e ELSE best, h.next[e], max)
list_max(h) == IF list_empty(h) THEN TAIL ELSE Best(h, list_begin(h), h.next[list_begin(h)], TRUE)
list_min(h) == IF list_empty(h) THEN TAIL ELSE Best(h, list_begin(h), h.next[list_begin(h)], FALSE)
-----------------------------------------------------------------------------
\* What the operations mean on sequences.
IndexIn(s, e) == CHOOSE i \in DOMAIN s : s[i] = e
StableSort(s) ==
  CHOOSE t \in SetToSeqs(Range(s)) : \A i, j \in DOMAIN t :
     i < j => ~less(t[j], t[i]) /\ (key[t[i]] = key[t[j]] => IndexIn(s, t[i]) < IndexIn(s, t[j]))
FirstOfRuns(s) == SelectSeq(s, LAMBDA e : IndexIn(s, e) = 1 \/ key[s[IndexIn(s, e) - 1]] # key[e])
Sorted(s) == \A i, j \in DOMAIN s : i < j => ~less(s[j], s[i])

\* A removed element keeps its links in the code; nothing reads them again.
Forget(h, out) == [next |-> [c \in Cells |-> IF c \in out THEN NULL ELSE h.next[c]],
                   prev |-> [c \in Cells |-> IF c \in out THEN NULL ELSE h.prev[c]]]
Becomes(h, s) == l' = Forget(h, Elems \ Range(s)) /\ seq' = s

ListInit == l = list_init /\ seq = <<>>

Insert(e, i) ==
  /\ e \notin Range(seq)
  /\ Becomes(list_insert(l, IF i > Len(seq) THEN TAIL ELSE seq[i], e), InsertAt(seq, i, e))
InsertOrdered(e) ==
  /\ e \notin Range(seq) /\ Sorted(seq)
  /\ LET i == Cardinality({j \in DOMAIN seq : ~less(e, seq[j])}) + 1
     IN  Becomes(list_insert_ordered(l, e), InsertAt(seq, i, e))
RemoveElem(i) == Becomes(list_remove(l, seq[i]), RemoveAt(seq, i))
Splice(i, j, k) ==     \* move elements i .. j - 1 before element k
  /\ i <= j /\ (k < i \/ k >= j)   \* before is not one of them
  /\ LET cell(n) == IF n > Len(seq) THEN TAIL ELSE seq[n]
         rest    == SubSeq(seq, 1, i - 1) \o SubSeq(seq, j, Len(seq))
         at      == IF k < i THEN k ELSE k - (j - i)
     IN  Becomes(list_splice(l, cell(k), cell(i), cell(j)),
                 SubSeq(rest, 1, at - 1) \o SubSeq(seq, i, j - 1) \o SubSeq(rest, at, Len(rest)))
Reorder == \/ Becomes(list_reverse(l), Reverse(seq))
           \/ Becomes(list_sort(l), StableSort(seq))
           \/ Becomes(list_unique(l), FirstOfRuns(seq))

ListNext ==
  \/ \E e \in Elems : (\E i \in 1 .. Len(seq) + 1 : Insert(e, i)) \/ InsertOrdered(e)
  \/ \E i \in DOMAIN seq : RemoveElem(i)
  \/ \E i, j, k \in 1 .. Len(seq) + 1 : Splice(i, j, k)
  \/ Reorder
-----------------------------------------------------------------------------
EmptyBuckets(cnt) == [i \in 0 .. cnt - 1 |-> <<>>]
hash_init == [buckets |-> EmptyBuckets(MinBuckets), bucket_cnt |-> MinBuckets, elem_cnt |-> 0]

find_bucket(t, e) == hash[e] & (t.bucket_cnt - 1)

\* find_elem: the elements equal to e, at most the first of its bucket.
find_elem(t, e) ==
  LET b == t.buckets[find_bucket(t, e)]
      found == {i \in DOMAIN b : key[b[i]] = key[e]}
  IN  {b[i] : i \in {j \in found : \A k \in found : j <= k}}
hash_find(t, e) == find_elem(t, e)

insert_elem(t, b, e) == [t EXCEPT !.elem_cnt = @ + 1, !.buckets[b] = <<e>> \o @]
remove_elem(t, e) ==
  [t EXCEPT !.elem_cnt = @ - 1,
            !.buckets = [i \in DOMAIN @ |-> SelectSeq(@[i], LAMBDA x : x # e)]]

turn_off_least_1bit(x) == x & (x - 1)
is_power_of_2(x) == x # 0 /\ turn_off_least_1bit(x) = 0
RECURSIVE PowerBelow(_)
PowerBelow(x) == IF is_power_of_2(x) THEN x ELSE PowerBelow(turn_off_least_1bit(x))

MutantKeepsOldBucket(t, allocated) ==
  LET ideal == t.elem_cnt \div BEST_ELEMS_PER_BUCKET
      cnt   == PowerBelow(IF ideal < MinBuckets THEN MinBuckets ELSE ideal)
  IN  IF cnt = t.bucket_cnt \/ ~allocated THEN t
      ELSE [t EXCEPT !.bucket_cnt = cnt,
                     !.buckets = [i \in 0 .. cnt - 1 |-> IF i \in DOMAIN @ THEN @[i] ELSE <<>>]]

\* rehash: the number of buckets, then every element moved to its new bucket.
rehash(t, allocated) ==
  LET ideal == t.elem_cnt \div BEST_ELEMS_PER_BUCKET
      cnt   == PowerBelow(IF ideal < MinBuckets THEN MinBuckets ELSE ideal)
      new   == [t EXCEPT !.bucket_cnt = cnt, !.buckets = EmptyBuckets(cnt)]
      all   == FlattenSeq([i \in 1 .. t.bucket_cnt |-> t.buckets[i - 1]])
  IN  IF cnt = t.bucket_cnt \/ ~allocated THEN t
      ELSE FoldLeft(LAMBDA u, e : [u EXCEPT !.buckets[find_bucket(u, e)] = <<e>> \o @], new, all)

hash_insert(t, e, allocated) ==
  rehash(IF find_elem(t, e) = {} THEN insert_elem(t, find_bucket(t, e), e) ELSE t, allocated)

hash_replace(t, e, allocated) ==
  LET removed == IF find_elem(t, e) = {} THEN t ELSE remove_elem(t, CHOOSE o \in find_elem(t, e) : TRUE)
  IN  rehash(insert_elem(removed, find_bucket(t, e), e), allocated)

hash_delete(t, e, allocated) ==
  IF find_elem(t, e) = {} THEN t
  ELSE rehash(remove_elem(t, CHOOSE o \in find_elem(t, e) : TRUE), allocated)

hash_clear(t) == [t EXCEPT !.buckets = EmptyBuckets(t.bucket_cnt), !.elem_cnt = 0]

\* hash_first and hash_next, and hash_apply: the order they visit the elements in.
hash_iterate(t) == FlattenSeq([i \in 1 .. t.bucket_cnt |-> t.buckets[i - 1]])

equal(e) == {m \in members : key[m] = key[e]}
HashInit == table = hash_init /\ members = {}
HashInsert(e, a) ==
  /\ e \notin members
  /\ table' = hash_insert(table, e, a)
  /\ members' = IF equal(e) = {} THEN members \cup {e} ELSE members
HashReplace(e, a) ==
  /\ e \notin members
  /\ table' = hash_replace(table, e, a) /\ members' = (members \ equal(e)) \cup {e}
HashDelete(e, a) == table' = hash_delete(table, e, a) /\ members' = members \ equal(e)
HashClear == table' = hash_clear(table) /\ members' = {}

HashNext ==
  \/ \E e \in Elems, allocated \in BOOLEAN :
        HashInsert(e, allocated) \/ HashReplace(e, allocated) \/ HashDelete(e, allocated)
  \/ HashClear

Init == ListInit /\ HashInit
Next == \/ ListNext /\ UNCHANGED <<table, members>>
        \/ HashNext /\ UNCHANGED <<l, seq>>
Spec == Init /\ [][Next]_<<l, seq, table, members>>
-----------------------------------------------------------------------------
(* Through any sequence of operations the pointers hold exactly the sequence *)
(* the operations mean: followed by next from the head and by prev from the  *)
(* tail, every element passing the assertion of list_remove, list_sort being *)
(* stable, and list_max and list_min the earliest extreme.                   *)
LinksMatchSequence ==
  LET cells == <<HEAD>> \o seq \o <<TAIL>>
  IN  /\ \A i \in 1 .. Len(cells) - 1 : l.next[cells[i]] = cells[i + 1] /\ l.prev[cells[i + 1]] = cells[i]
      /\ \A i \in DOMAIN seq : is_interior(l, seq[i])
      /\ l.prev[HEAD] = NULL /\ l.next[TAIL] = NULL
      /\ seq # <<>> =>
           /\ list_max(l) = seq[CHOOSE i \in DOMAIN seq : \A j \in DOMAIN seq :
                                  ~less(seq[i], seq[j]) /\ (j < i => less(seq[j], seq[i]))]
           /\ list_min(l) = seq[CHOOSE i \in DOMAIN seq : \A j \in DOMAIN seq :
                                  ~less(seq[j], seq[i]) /\ (j < i => less(seq[i], seq[j]))]

(* Whatever resizes succeed or fail, the table holds exactly the elements put *)
(* in and not taken out: hash_find finds each one (in the bucket its hash     *)
(* names now), an iteration meets each one once, and elem_cnt counts them.    *)
HashHoldsItsElements ==
  /\ \A e \in Elems : hash_find(table, e) = equal(e)
  /\ LET visited == hash_iterate(table)
     IN  Range(visited) = members /\ Len(visited) = Cardinality(members)
  /\ table.elem_cnt = Cardinality(members)
=============================================================================
