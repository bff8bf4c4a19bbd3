--------------------------- MODULE MCBufferCache ---------------------------
(* Small instances of BufferCache for TLC. *)
EXTENDS BufferCache

CONSTANTS c1, c2, b1, b2, s1, s2, s3

TwoClients == {c1, c2}
TwoBlocks == {b1, b2}
ThreeSectors == {s1, s2, s3}

\* Both clients work on one sector, in every way: the block is shared and never
\* evicted.
Shared == [c \in Clients |-> {"read", "index", "write", "zero"} \X {s1}]

\* One client works on more sectors than there are blocks.
Alone ==
  [c \in Clients |->
     IF c = c1
     THEN {<<"write", s1>>, <<"read", s1>>, <<"read", s2>>, <<"zero", s2>>, <<"write", s3>>}
     ELSE {}]

SharedOrAlone == {Shared, Alone}

\* Both clients work on more sectors than there are blocks: evictions contend
\* with each other and with the lock of a block in use.
Contended(Ops) == [c \in Clients |-> Ops \X (IF c = c1 THEN Sectors ELSE {s1})]

ContendedWrites == {Contended({"write"})}
\* No sector is in two blocks of the cache, and the lock of a block has as many
\* holders as its counts say.
BlocksAreSound == OneBlockPerSector /\ LocksMatchHolders
=============================================================================
