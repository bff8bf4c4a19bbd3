----------------------------- MODULE Partition -----------------------------
(***************************************************************************)
(* devices/partition.c: scanning a disk for partitions, the block devices  *)
(* it registers and the sectors an access through one of them reaches.     *)
(* The disk is a function from sectors to partition tables; sector numbers *)
(* have the width of block_sector_t and wrap.                              *)
(***************************************************************************)
EXTENDS Integers, Sequences, SequencesExt

CONSTANTS Images,    \* the disks scanned: sector -> table (entries or NoTable)
          NoTable,   \* a sector without the signature 0xaa55
          Size,      \* block_size of the disk
          Width,     \* the number of values of block_sector_t
          Stack      \* bound on the depth of the scan: the kernel stack

VARIABLES image, scanned, scan, accessed
vars == <<image, scanned, scan, accessed>>

Empty == [nr |-> 0, parts |-> <<>>, overflow |-> FALSE]
Add(a, b) == (a + b) % Width

block_type(type) == IF type \in {"kernel", "filesys", "scratch", "swap"} THEN type ELSE "foreign"

MutantUncheckedEnd(st, type, start, size) ==
  IF start >= Size \/ Add(start, size) > Size THEN st
  ELSE [st EXCEPT !.parts = Append(@, [nr |-> st.nr, type |-> block_type(type),
                                       start |-> start, size |-> size])]

\* found_partition with its block_register.
found_partition(st, type, start, size) ==
  IF \/ start >= Size
     \/ Add(start, size) < start
     \/ Add(start, size) > Size THEN st
  ELSE [st EXCEPT !.parts = Append(@, [nr |-> st.nr, type |-> block_type(type),
                                       start |-> start, size |-> size])]

\* The sector block_read fetches for the table in the given sector.
table_read(sector) == 0

\* read_partition_table, fetching the table of a sector from at[sector].
RECURSIVE read_partition_table(_, _, _, _, _, _)
read_partition_table(disk, at, sector, primary, st, depth) ==
  IF sector >= Size \/ disk[at[sector]] = NoTable THEN st
  ELSE IF depth = Stack THEN [st EXCEPT !.overflow = TRUE]
  ELSE FoldLeft(LAMBDA s, e :
         CASE s.overflow \/ e.size = 0 \/ e.type = "none" -> s
           [] e.size > 0 /\ e.type = "extended" ->
                IF sector = 0
                THEN read_partition_table(disk, at, e.offset, e.offset, s, depth + 1)
                ELSE read_partition_table(disk, at, Add(e.offset, primary), primary, s, depth + 1)
           [] OTHER -> found_partition([s EXCEPT !.nr = @ + 1], e.type, Add(e.offset, sector), e.size),
         st, disk[at[sector]])

partition_scan(disk) ==
  read_partition_table(disk, [s \in 0 .. Size - 1 |-> table_read(s)], 0, 0, Empty, 0)

\* The sectors of the disk that a partition's own sectors stand for; block_read
\* and block_write panic past its size, and the latter on a foreign one.
partition_read(p) == {Add(p.start, s) : s \in 0 .. p.size - 1}
partition_write(p) == IF p.type = "foreign" THEN {} ELSE partition_read(p)

Init == image \in Images /\ scanned = FALSE /\ scan = Empty /\ accessed = {}

Scan ==
  /\ ~scanned /\ scanned' = TRUE
  /\ scan' = partition_scan(image)
  /\ UNCHANGED <<image, accessed>>

Access ==
  /\ scanned /\ accessed = {}
  /\ \E i \in DOMAIN scan.parts, write \in BOOLEAN :
        accessed' = {[part |-> scan.parts[i], write |-> write,
                      sectors |-> IF write THEN partition_write(scan.parts[i])
                                           ELSE partition_read(scan.parts[i])]}
  /\ UNCHANGED <<image, scanned, scan>>

Next == Scan \/ Access
Spec == Init /\ [][Next]_vars
-----------------------------------------------------------------------------
(* An access through a partition reaches only sectors of that partition and  *)
(* of the disk, whatever offsets and sizes the table holds (they may wrap),   *)
(* and never writes a foreign one; partitions are numbered in table order.    *)
PartitionsStayInside ==
  /\ \A a \in accessed : /\ a.sectors \subseteq 0 .. Size - 1
                         /\ a.sectors \subseteq a.part.start .. a.part.start + a.part.size - 1
                         /\ a.write => a.sectors = {} \/ a.part.type # "foreign"
  /\ \A i, j \in DOMAIN scan.parts : i < j => scan.parts[i].nr < scan.parts[j].nr
=============================================================================
