----------------------------- MODULE BitmapOps -----------------------------
(***************************************************************************)
(* lib/kernel/bitmap.c.  A bitmap is the function from bit numbers to      *)
(* values that it represents; the words that hold the bits, and the masks  *)
(* that pick a bit out of a word, are left out.                            *)
(***************************************************************************)
EXTENDS Integers, FiniteSets

BITMAP_ERROR == -1

bitmap_create(bit_cnt) == [i \in 0 .. bit_cnt - 1 |-> FALSE]

bitmap_size(b) == Cardinality(DOMAIN b)

bitmap_set(b, idx, value) == [b EXCEPT ![idx] = value]

bitmap_set_multiple(b, start, cnt, value) ==
  [i \in DOMAIN b |-> IF i \in start .. start + cnt - 1 THEN value ELSE b[i]]

bitmap_count(b, start, cnt, value) ==
  Cardinality({i \in start .. start + cnt - 1 : b[i] = value})

bitmap_contains(b, start, cnt, value) ==
  \E i \in start .. start + cnt - 1 : b[i] = value

bitmap_all(b, start, cnt) == ~bitmap_contains(b, start, cnt, FALSE)

\* The first index at or after start of cnt bits that are all value.
bitmap_scan(b, start, cnt, value) ==
  LET hits == {i \in start .. bitmap_size(b) - cnt :
                 ~bitmap_contains(b, i, cnt, ~value)}
  IN IF hits = {} THEN BITMAP_ERROR
     ELSE CHOOSE i \in hits : \A j \in hits : i <= j

\* bitmap_scan_and_flip when nobody else changes the bitmap between its two halves.
bitmap_scan_and_flip(b, start, cnt, value) ==
  LET idx == bitmap_scan(b, start, cnt, value)
  IN [idx |-> idx,
      map |-> IF idx = BITMAP_ERROR THEN b
              ELSE bitmap_set_multiple(b, idx, cnt, ~value)]
=============================================================================
