----------------------------- MODULE MCStorage -----------------------------
(***************************************************************************)
(* Small instances, for TLC, of the parts between the descriptors of a     *)
(* process and the disk.  A behaviour is one of one part, chosen at the    *)
(* start: the free map, the index blocks of inodes, the calls on names and *)
(* open files, the transfers through open files, the disk driver, the      *)
(* partition tables, or the archives on the scratch device.  The disk      *)
(* driver has this module's own variables.                                 *)
(***************************************************************************)
EXTENDS IdeDisk, Sequences

VARIABLES part,
  free_map, map_file, root, owned, found, phase,
  fs, saved, at, written, filled, panic,
  st,
  fd, live, pos, ref, deny, denied, data, call, calls, next, overlap, halted,
  image, scanned, scan, accessed,
  scratch, tree, ex, ap, ar_pc, members, boots

freemap == <<free_map, map_file, root, owned, found, phase>>
inode == <<fs, saved, at, written, filled, panic>>
io == <<fd, live, pos, ref, deny, denied, data, call, calls, next, overlap, halted>>
partition == <<image, scanned, scan, accessed>>
archive == <<scratch, tree, ex, ap, ar_pc, members, boots>>

FreeMap == INSTANCE FreeMap WITH Users <- {"u"}, NumSectors <- 9, BlockBits <- 3, file <- map_file
\* A sector holds two bytes, an inode one direct block, a table two.
Inode == INSTANCE InodeIndex
           WITH Files <- {1, 2}, Sectors <- 2 .. 6, BLOCK_SECTOR_SIZE <- 2, NUM_DIRECT <- 1,
                NUM_INDIRECT <- 2, Offsets <- {1, 7}, Sizes <- {2}, Lengths <- {0, 4}

Abs(names) == [abs |-> TRUE, names |-> names]
Rel(names) == [abs |-> FALSE, names |-> names]
FP == {Abs(<<"d", "b">>), Rel(<<"..", "b">>)}
DP == {Abs(<<"d">>)}
Tree == INSTANCE FileSystem
          WITH Procs <- {"p", "q"}, FDs <- {0, 1}, FD_MAX <- 2, FileIds <- {1, 2}, Sectors <- {2, 3},
               FilePaths <- FP, DirPaths <- DP, OpensDirs <- FALSE
IO == INSTANCE FileIO
        WITH Procs <- {"p", "q", "r"}, Opens <- {1, 2}, Sizes <- {2}, Places <- {1}, MaxLen <- 4,
             MaxCalls <- 4

\* Tables with offsets and sizes at and past the end of the disk, and one in
\* sector 3 that continues in itself.
Entry(type, offset, length) == [type |-> type, offset |-> offset, size |-> length]
Entries == {Entry("none", 0, 0)} \cup
  {Entry(t, o, s) : t \in {"extended", "filesys", "foreign"}, o \in {1, 3, 6, 7}, s \in {1, 2, 7}}
Logical == {NULL, <<Entry("filesys", 1, 1), Entry("extended", 3, 1)>>}
Disks == {[s \in 0 .. 5 |-> IF s = 0 THEN <<a, b>> ELSE IF s = 3 THEN l ELSE NULL] :
            a \in Entries, b \in Entries, l \in Logical}
Scan == INSTANCE Partition
          WITH Images <- Disks, NoTable <- NULL, Size <- 6, Width <- 8, Stack <- 4
File(path, n) == [path |-> path, data |-> [i \in 1 .. n |-> (i % 5) + 1]]
Trees == {<<File(<<"a">>, 9), File(<<"", "..", "b">>, 0)>>,
          <<File(<<"..", "c">>, 4), File(<<".", "d", "e">>, 3), File(<<"..">>, 1)>>}
Archive == INSTANCE Archive
             WITH BLOCK_SECTOR_SIZE <- 4, Sectors <- 9, Garbage <- {0, 7}, Files <- Trees,
                  disk <- scratch, fs <- tree, pc <- ar_pc

MCInit ==
  /\ part \in {"freemap", "inode", "tree", "io", "ide", "partition", "archive"}
  /\ image \in IF part = "partition" THEN Disks ELSE {CHOOSE d \in Disks : TRUE}
  /\ tree \in IF part = "archive" THEN Trees ELSE {CHOOSE t \in Trees : TRUE}
  /\ FreeMap!Init /\ Inode!Init /\ Tree!Init /\ IO!Init /\ Init
  /\ Scan!Init /\ Archive!Init

Others(p) ==
  /\ IF p = "freemap" THEN TRUE ELSE UNCHANGED freemap
  /\ IF p = "inode" THEN TRUE ELSE UNCHANGED inode
  /\ IF p = "tree" THEN TRUE ELSE UNCHANGED st
  /\ IF p = "io" THEN TRUE ELSE UNCHANGED io
  /\ IF p = "ide" THEN TRUE ELSE UNCHANGED vars
  /\ IF p = "partition" THEN TRUE ELSE UNCHANGED partition
  /\ IF p = "archive" THEN TRUE ELSE UNCHANGED archive

MCNext ==
  /\ \/ part = "freemap" /\ FreeMap!Next
     \/ part = "inode" /\ Inode!Next
     \/ part = "tree" /\ Tree!Next
     \/ part = "io" /\ IO!Next
     \/ part = "ide" /\ Next
     \/ part = "partition" /\ Scan!Next
     \/ part = "archive" /\ Archive!Next
  /\ Others(part) /\ UNCHANGED part

MCSpec == MCInit /\ [][MCNext]_<<part, freemap, inode, st, io, vars, partition, archive>>
-----------------------------------------------------------------------------
\* The free map, in memory and in its file, has the bits of the sectors in use.
MapMatchesOwners == part = "freemap" => FreeMap!MapMatchesOwners
\* No sector serves two purposes, and what was written is read back.
FilesKeepTheirData == part = "inode" => Inode!SectorsOwnedOnce /\ Inode!WritesAreReadBack
\* An open file stands where the transfers through it left it.
PositionsAdvance == part = "io" => IO!PositionsAdvance
\* Accesses through a partition stay inside it.
PartitionsStayInside == part = "partition" => Scan!PartitionsStayInside
\* What was appended to an archive is read back from it.
ArchiveHoldsItsFiles == part = "archive" => Archive!ArchiveHoldsItsFiles
=============================================================================
