-------------------------------- MODULE Fifo --------------------------------
(***************************************************************************)
(* What a bounded queue promises: at most Capacity elements, given out in  *)
(* the order they came in, each to one taker.                              *)
(***************************************************************************)
EXTENDS Naturals, Sequences

CONSTANTS Takers, Items, Capacity, NoItem

VARIABLES q,   \* the elements, oldest first
          got  \* the element each taker took last

Init ==
  /\ q = << >>
  /\ got = [t \in Takers |-> NoItem]

Insert(x) ==
  /\ Len(q) < Capacity
  /\ q' = Append(q, x)
  /\ UNCHANGED got

Remove(t) ==
  /\ q # << >>
  /\ got' = [got EXCEPT ![t] = Head(q)]
  /\ q' = Tail(q)

Next ==
  \/ \E x \in Items : Insert(x)
  \/ \E t \in Takers : Remove(t)

Spec == Init /\ [][Next]_<<q, got>>
=============================================================================
