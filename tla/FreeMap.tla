------------------------------ MODULE FreeMap ------------------------------
(***************************************************************************)
(* filesys/free-map.c: which sectors are in use, kept in memory as a       *)
(* bitmap and on disk as a file that itself takes sectors out of the map.  *)
(* The file is created sparse, so the blocks that hold the bitmap are      *)
(* allocated while the bitmap is being written; the map is written again   *)
(* when a sector is released and at shutdown, and read back at boot.       *)
(***************************************************************************)
EXTENDS BitmapOps, SequencesExt

CONSTANTS Users,       \* threads that allocate and release sectors
          NumSectors,  \* sectors of the device
          BlockBits    \* bits of the map that one block of its file holds

FREE_MAP_SECTOR == 0
ROOT_DIR_SECTOR == 1
Hole == [sector |-> BITMAP_ERROR, bits |-> {}]
MapBlocks == 0 .. (NumSectors - 1) \div BlockBits
BitsOf(k) == (k * BlockBits) .. ((k + 1) * BlockBits - 1)

VARIABLES free_map,   \* the bitmap in memory
          file,       \* block of the map's file -> its sector and the set bits it holds
          root,       \* data sectors of the root directory
          owned,      \* user -> sectors it was given
          found,      \* user -> sector its scan found and has not marked yet, or BITMAP_ERROR
          phase       \* "blank", "off", "running" or "panic"

vars == <<free_map, file, root, owned, found, phase>>

Marked(b) == {i \in DOMAIN b : b[i]}

free_map_init ==
  bitmap_set(bitmap_set(bitmap_create(NumSectors), FREE_MAP_SECTOR, TRUE),
             ROOT_DIR_SECTOR, TRUE)

\* Write block k of the file: a hole first takes a sector, which changes the
\* map that is being written.
WriteBlock(acc, k) ==
  LET got == bitmap_scan_and_flip(acc.map, 0, 1, FALSE)
      hole == acc.file[k].sector = BITMAP_ERROR
      map == IF hole THEN got.map ELSE acc.map
      sector == IF hole THEN got.idx ELSE acc.file[k].sector
  IN IF ~acc.ok \/ sector = BITMAP_ERROR THEN [acc EXCEPT !.ok = FALSE]
     ELSE [map |-> map, ok |-> TRUE,
           file |-> [acc.file EXCEPT ![k] = [sector |-> sector,
                                              bits |-> Marked(map) \cap BitsOf(k)]]]

bitmap_write(map, f) ==
  FoldLeft(WriteBlock, [map |-> map, file |-> f, ok |-> TRUE],
           [i \in 1 .. Cardinality(MapBlocks) |-> i - 1])

bitmap_read(f) ==
  [i \in 0 .. NumSectors - 1 |-> i \in UNION {f[k].bits : k \in MapBlocks}]

\* inode_create makes the file by writing one zero byte at its end.
free_map_create(map) ==
  LET last == (NumSectors - 1) \div BlockBits
      got == bitmap_scan_and_flip(map, 0, 1, FALSE)
      empty == [k \in MapBlocks |-> Hole]
  IN IF got.idx = BITMAP_ERROR THEN [map |-> map, file |-> empty, ok |-> FALSE]
     ELSE bitmap_write(got.map,
                       [empty EXCEPT ![last] = [sector |-> got.idx, bits |-> {}]])

Init == /\ free_map = bitmap_create(NumSectors)
        /\ file = [k \in MapBlocks |-> Hole]
        /\ root = {}
        /\ owned = [u \in Users |-> {}]
        /\ found = [u \in Users |-> BITMAP_ERROR]
        /\ phase = "blank"

\* filesys_init(true): the map's file, the first block of the root directory,
\* the map again, and then the map is read as at any boot.
do_format ==
  LET made == free_map_create(free_map_init)
      dir == bitmap_scan_and_flip(made.map, 0, 1, FALSE)
      closed == bitmap_write(dir.map, made.file)
  IN /\ phase = "blank"
     /\ UNCHANGED <<owned, found>>
     /\ IF made.ok /\ dir.idx # BITMAP_ERROR /\ closed.ok
        THEN /\ file' = closed.file
             /\ root' = {dir.idx}
             /\ free_map' = bitmap_read(closed.file)
             /\ phase' = "running"
        ELSE phase' = "panic" /\ UNCHANGED <<free_map, file, root>>

free_map_open == /\ phase = "off"
                 /\ free_map' = bitmap_read(file)
                 /\ phase' = "running"
                 /\ UNCHANGED <<file, root, owned, found>>

\* The two halves of free_map_allocate (1, ..): nothing locks the bitmap
\* between the scan and the marking.
ScanForFree(u) == /\ phase = "running" /\ found[u] = BITMAP_ERROR
                  /\ found' = [found EXCEPT ![u] = bitmap_scan(free_map, 0, 1, FALSE)]
                  /\ UNCHANGED <<free_map, file, root, owned, phase>>

MarkFound(u) == /\ phase = "running" /\ found[u] # BITMAP_ERROR
                /\ free_map' = bitmap_set_multiple(free_map, found[u], 1, TRUE)
                /\ owned' = [owned EXCEPT ![u] = @ \cup {found[u]}]
                /\ found' = [found EXCEPT ![u] = BITMAP_ERROR]
                /\ UNCHANGED <<file, root, phase>>

free_map_release(u, s) ==
  LET out == bitmap_write(bitmap_set_multiple(free_map, s, 1, FALSE), file)
  IN /\ phase = "running" /\ found[u] = BITMAP_ERROR /\ s \in owned[u]
     /\ owned' = [owned EXCEPT ![u] = @ \ {s}]
     /\ UNCHANGED <<root, found>>
     /\ IF bitmap_all(free_map, s, 1)
        THEN free_map' = out.map /\ file' = out.file /\ UNCHANGED phase
        ELSE phase' = "panic" /\ UNCHANGED <<free_map, file>>

\* Mutant: the map is not written when the machine goes off.
MutantNotWritten ==
  /\ phase = "running" /\ \A u \in Users : found[u] = BITMAP_ERROR
  /\ phase' = "off"
  /\ UNCHANGED <<free_map, file, root, owned, found>>

\* filesys_done: the machine goes off with the map and the cache written out.
free_map_close ==
  LET out == bitmap_write(free_map, file)
  IN /\ phase = "running" /\ \A u \in Users : found[u] = BITMAP_ERROR
     /\ free_map' = out.map /\ file' = out.file
     /\ phase' = IF out.ok THEN "off" ELSE "panic"
     /\ UNCHANGED <<root, owned, found>>

Next == \/ do_format \/ free_map_open \/ free_map_close
        \/ \E u \in Users : ScanForFree(u) \/ MarkFound(u)
        \/ \E u \in Users : \E s \in owned[u] : free_map_release(u, s)

Spec == Init /\ [][Next]_vars

MapSectors == {file[k].sector : k \in MapBlocks}

\* What free-map.c promises the rest of the file system, for callers that do
\* not allocate at the same time: at every boot and after every allocation
\* and release the bits that are set are the two fixed inodes, the blocks of
\* the map's own file, those of the root directory and what callers hold,
\* and each of these sectors has one holder.  So a format, a shutdown and a
\* boot neither leak a sector nor hand one out twice.
MapMatchesOwners ==
  /\ phase # "panic"
  /\ phase = "running" =>
       /\ Marked(free_map) = {FREE_MAP_SECTOR, ROOT_DIR_SECTOR} \cup MapSectors
                               \cup root \cup UNION {owned[u] : u \in Users}
       /\ bitmap_count(free_map, 0, NumSectors, TRUE)
            = 2 + Cardinality(MapBlocks) + Cardinality(root)
                + Cardinality({<<u, i>> \in Users \X DOMAIN free_map : i \in owned[u]})
=============================================================================
