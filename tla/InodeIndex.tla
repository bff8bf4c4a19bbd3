----------------------------- MODULE InodeIndex -----------------------------
(***************************************************************************)
(* filesys/inode.c, the on-disk part: how an inode's direct, indirect and  *)
(* doubly indirect tables map byte positions to sectors, how a write fills *)
(* holes and extends the file, how it stops when the disk is full, and     *)
(* what the last close of a removed inode gives back.                      *)
(*                                                                         *)
(* Each call is one action: the calls of this model do not overlap.  The   *)
(* block of an inode is a copy in the buffer cache that reaches the disk   *)
(* only if it was marked dirty; tables and data blocks are marked dirty    *)
(* wherever the code changes them, so one copy of those is enough.         *)
(***************************************************************************)
EXTENDS Integers, FiniteSets, SequencesExt

CONSTANTS Files,                    \* names under which inodes are created
          Sectors,                  \* the sectors the free map can hand out
          BLOCK_SECTOR_SIZE, NUM_DIRECT, NUM_INDIRECT,
          Offsets, Sizes, Lengths   \* positions and sizes of writes, lengths of new files

NoSector == -1                      \* a hole
DiskFull == -2                      \* no sector was left to fill it
MaxBlocks == NUM_DIRECT + NUM_INDIRECT + NUM_INDIRECT * NUM_INDIRECT
EmptyTable == [i \in 0 .. NUM_INDIRECT - 1 |-> NoSector]
\* The disk's bytes carry the name and the position they were written for.
\* A sector that was given back keeps whatever it held: Stale.
Zero == <<>>
Stale == <<NoSector>>

inode_disk == [length |-> 0, direct |-> [i \in 0 .. NUM_DIRECT - 1 |-> NoSector],
               indirect |-> NoSector, double_indirect |-> NoSector]

VARIABLES fs,      \* used sectors, inode blocks as cached, dirty ones, tables, data
          saved,   \* sector -> inode block as it is on disk
          at,      \* file -> the sector of its inode, or NoSector
          written, \* file -> positions written since it was created
          filled,  \* an allocation has failed
          panic    \* the kernel stopped

vars == <<fs, saved, at, written, filled, panic>>

free_map_allocate(d) ==
  LET free == Sectors \ d.used
      s == CHOOSE x \in free : \A y \in free : x <= y
  IN IF free = {} THEN [d |-> d, sector |-> DiskFull]
     ELSE [d |-> [d EXCEPT !.used = @ \cup {s}], sector |-> s]

\* What is done with a sector that was allocated, if it was: it becomes an empty
\* table, entry i of table t, or a direct block of inode n.
NewTable(got) ==
  IF got.sector = DiskFull THEN got ELSE [got EXCEPT !.d.table[got.sector] = EmptyTable]
IntoTable(got, t, i) ==
  IF got.sector = DiskFull THEN got ELSE [got EXCEPT !.d.table[t][i] = got.sector]
IntoInode(got, n, mapping) ==
  IF got.sector = DiskFull THEN got ELSE [got EXCEPT !.d.inode[n].direct[mapping] = got.sector]

access_indirect_block(d, indirect, write) ==
  IF indirect # NoSector \/ ~write THEN [d |-> d, sector |-> indirect]
  ELSE NewTable(free_map_allocate(d))

\* The common end of the two indirect lookups: entry i of table t.
TableEntry(d, t, i, write) ==
  IF d.table[t][i] # NoSector \/ ~write THEN [d |-> d, sector |-> d.table[t][i]]
  ELSE IntoTable(free_map_allocate(d), t, i)

lookup_direct_table(d, n, mapping, write) ==
  LET sector == d.inode[n].direct[mapping]
  IN IF sector # NoSector \/ ~write THEN [d |-> d, sector |-> sector]
     ELSE IntoInode(free_map_allocate(d), n, mapping)

\* Mutant: a new table is not recorded in the inode.
MutantForgetsTable(t, n, i, write) ==
  IF t.sector < 0 THEN t ELSE TableEntry(t.d, t.sector, i, write)

\* The table t of an inode is recorded there, then entry i is looked up in it.
InIndirect(t, n, i, write) ==
  IF t.sector < 0 THEN t
  ELSE TableEntry([t.d EXCEPT !.inode[n].indirect = t.sector], t.sector, i, write)
InInner(inner, outer, m, write) ==
  IF inner.sector < 0 THEN inner
  ELSE TableEntry([inner.d EXCEPT !.table[outer][m \div NUM_INDIRECT] = inner.sector],
                  inner.sector, m % NUM_INDIRECT, write)
ThroughOuter(d, outer, m, write) ==
  InInner(access_indirect_block(d, d.table[outer][m \div NUM_INDIRECT], write), outer, m, write)
InOuter(outer, n, m, write) ==
  IF outer.sector < 0 THEN outer
  ELSE ThroughOuter([outer.d EXCEPT !.inode[n].double_indirect = outer.sector],
                    outer.sector, m, write)

lookup_indirect_table(d, n, mapping, write) ==
  InIndirect(access_indirect_block(d, d.inode[n].indirect, write), n, mapping - NUM_DIRECT, write)

lookup_double_indirect_table(d, n, mapping, write) ==
  InOuter(access_indirect_block(d, d.inode[n].double_indirect, write), n,
          mapping - NUM_DIRECT - NUM_INDIRECT, write)

MarkDirty(r, n) == IF r.sector < 0 THEN r ELSE [r EXCEPT !.d.dirty = @ \cup {n}]
byte_to_sector(d, n, pos, write) ==
  LET mapping == pos \div BLOCK_SECTOR_SIZE
  IN MarkDirty(IF mapping < NUM_DIRECT THEN lookup_direct_table(d, n, mapping, write)
               ELSE IF mapping < NUM_DIRECT + NUM_INDIRECT
               THEN lookup_indirect_table(d, n, mapping, write)
               ELSE IF mapping < MaxBlocks
               THEN lookup_double_indirect_table(d, n, mapping, write)
               ELSE [d |-> d, sector |-> NoSector], n)

\* What a read of one byte below the length returns.
ByteAt(d, s, pos) == IF s = NoSector THEN Zero ELSE d.data[s][pos % BLOCK_SECTOR_SIZE]
ReadByte(d, n, pos) == ByteAt(d, byte_to_sector(d, n, pos, FALSE).sector, pos)

\* inode_write_at, byte by byte: acc.end is where the write has got to.  The
\* byte that inode_create writes at the end of a new file, for nobody, is zero.
StoreByte(acc, r, f, pos) ==
  IF r.sector = DiskFull THEN [acc EXCEPT !.d = r.d, !.why = "full"]
  ELSE IF r.sector = NoSector THEN [acc EXCEPT !.why = "no such sector"]
  ELSE [d |-> [r.d EXCEPT !.data[r.sector][pos % BLOCK_SECTOR_SIZE] =
                       IF f \in Files THEN <<f, pos>> ELSE Zero],
        end |-> pos + 1, why |-> "ok"]
WriteByte(acc, n, f, pos) ==
  IF acc.why # "ok" THEN acc
  ELSE StoreByte(acc, byte_to_sector(acc.d, n, pos, TRUE), f, pos)

Extend(out, n) ==
  IF out.end <= out.d.inode[n].length THEN out
  ELSE [out EXCEPT !.d.inode[n].length = out.end, !.d.dirty = @ \cup {n}]
inode_write_at(d, n, f, size, offset) ==
  Extend(FoldLeft(LAMBDA acc, pos : WriteByte(acc, n, f, pos),
                  [d |-> d, end |-> offset, why |-> "ok"],
                  [i \in 1 .. size |-> offset + i - 1]), n)

Tables(d, n) ==
  LET t == d.inode[n].double_indirect
  IN {d.inode[n].indirect, t} \cup
     (IF t = NoSector THEN {} ELSE {d.table[t][i] : i \in 0 .. NUM_INDIRECT - 1})

\* The sectors that the last close of removed inode n releases.
ReleasedByClose(d, n) ==
  {byte_to_sector(d, n, pos, FALSE).sector :
     pos \in {p \in 0 .. d.inode[n].length - 1 : p % BLOCK_SECTOR_SIZE = 0}}
    \cup Tables(d, n) \cup {n}

Init == /\ fs = [used |-> {}, dirty |-> {},
                 inode |-> [n \in Sectors |-> inode_disk],
                 table |-> [n \in Sectors |-> EmptyTable],
                 data |-> [n \in Sectors |-> [i \in 0 .. BLOCK_SECTOR_SIZE - 1 |-> Zero]]]
        /\ saved = [n \in Sectors |-> inode_disk]
        /\ at = [f \in Files |-> NoSector]
        /\ written = [f \in Files |-> {}]
        /\ filled = FALSE
        /\ panic = FALSE

\* filesys_create: a sector for the inode, then inode_create.  When the last
\* byte of a new file finds no sector, inode_create gives the inode's sector
\* back and so does its caller, whose release finds the bit clear and panics.
inode_create(f, length, n, blank) ==
  \E out \in {IF length > 0 THEN inode_write_at(blank, n, NoSector, 1, length - 1)
             ELSE [d |-> blank, end |-> 0, why |-> "ok"]} :
    \/ /\ out.why # "ok"
       /\ panic' = TRUE /\ filled' = TRUE
       /\ UNCHANGED <<fs, at, written>>
    \/ /\ out.why = "ok"
       /\ fs' = out.d
       /\ at' = [at EXCEPT ![f] = n]
       /\ written' = [written EXCEPT ![f] = {}]
       /\ UNCHANGED <<filled, panic>>
Create(f, length) ==
  /\ ~panic /\ at[f] = NoSector
  /\ UNCHANGED saved
  /\ \E got \in {free_map_allocate(fs)} :
       \/ /\ got.sector = DiskFull
          /\ filled' = TRUE
          /\ UNCHANGED <<fs, at, written, panic>>
       \/ /\ got.sector # DiskFull
          /\ inode_create(f, length, got.sector,
                          [got.d EXCEPT !.inode[got.sector] = [inode_disk EXCEPT !.length = length],
                                        !.dirty = @ \cup {got.sector}])

\* A write beyond the largest file the tables can map asks the buffer cache
\* for sector -1, which the block layer refuses with a panic.
Write(f, size, offset) ==
  /\ ~panic /\ at[f] # NoSector
  /\ \E out \in {inode_write_at(fs, at[f], f, size, offset)} :
       /\ fs' = out.d
       /\ written' = [written EXCEPT ![f] = @ \cup (offset .. out.end - 1)]
       /\ filled' = (filled \/ out.why = "full")
       /\ panic' = (out.why = "no such sector")
  /\ UNCHANGED <<saved, at>>

\* Reading changes nothing but the dirty mark of the inode's block.
Read(f, pos) == /\ ~panic /\ at[f] # NoSector /\ pos < fs.inode[at[f]].length
                /\ fs' = byte_to_sector(fs, at[f], pos, FALSE).d
                /\ UNCHANGED <<saved, at, written, filled, panic>>

\* inode_remove followed by the last inode_close.
Unlink(f) ==
  LET n == at[f]
  IN /\ ~panic /\ n # NoSector
     /\ \E gone \in {ReleasedByClose(fs, n) \ {NoSector}} :
          /\ panic' = ~(gone \subseteq fs.used)
          /\ fs' = [fs EXCEPT !.used = @ \ gone, !.dirty = @ \ {n},
                              !.inode[n] = inode_disk,
                              !.table = [s \in Sectors |-> IF s \in gone THEN EmptyTable ELSE @[s]],
                              !.data = [s \in Sectors |-> IF s \in gone
                                          THEN [i \in DOMAIN @[s] |-> Stale] ELSE @[s]]]
     /\ saved' = [saved EXCEPT ![n] = inode_disk]
     /\ at' = [at EXCEPT ![f] = NoSector]
     /\ written' = [written EXCEPT ![f] = {}]
     /\ UNCHANGED filled

\* The cache reuses the slot of an inode's block, or writes it behind.
Evict(f) ==
  LET n == at[f]
  IN /\ ~panic /\ n # NoSector
     /\ IF n \in fs.dirty
        THEN /\ saved' = [saved EXCEPT ![n] = fs.inode[n]]
             /\ fs' = [fs EXCEPT !.dirty = @ \ {n}]
        ELSE /\ fs' = [fs EXCEPT !.inode[n] = saved[n]]
             /\ UNCHANGED saved
     /\ UNCHANGED <<at, written, filled, panic>>

Next == \E f \in Files :
          \/ Unlink(f) \/ Evict(f)
          \/ \E length \in Lengths : Create(f, length)
          \/ \E pos \in Offsets : Read(f, pos) \/ \E size \in Sizes : Write(f, size, pos)

Spec == Init /\ [][Next]_vars

Live == {f \in Files : at[f] # NoSector}
DataSector(f, m) ==
  byte_to_sector(fs, at[f], m * BLOCK_SECTOR_SIZE, FALSE).sector
Holds(f) == (({DataSector(f, m) : m \in 0 .. MaxBlocks - 1} \cup Tables(fs, at[f])
              \cup {at[f]}) \ {NoSector})
\* Where a sector can be referred to from: the inode itself, a table, a block.
Places(f) ==
  LET n == fs.inode[at[f]]
      t == n.double_indirect
  IN 1 + Cardinality({m \in 0 .. MaxBlocks - 1 : DataSector(f, m) # NoSector})
       + (IF n.indirect = NoSector THEN 0 ELSE 1)
       + (IF t = NoSector THEN 0
          ELSE 1 + Cardinality({i \in DOMAIN fs.table[t] : fs.table[t][i] # NoSector}))

\* Every sector an inode, a table or a block of a live file refers to is
\* marked in the free map and is referred to from one place only, across
\* files, removals that free and writes that fail half way; and a sector
\* that is marked belongs to a file unless some allocation has failed (a
\* write that gets a table and then no block leaves the inode's block
\* unmarked, so the table is lost when the cache lets the block go).
SectorsOwnedOnce ==
  ~panic =>
    /\ \A f \in Live : /\ Holds(f) \subseteq fs.used
                      /\ Cardinality(Holds(f)) = Places(f)
                      /\ \A g \in Live \ {f} : Holds(f) \cap Holds(g) = {}
    /\ ~filled => fs.used = UNION {Holds(f) : f \in Live}

\* Every byte a write reported as written is below the file's length and is
\* what a read of that position returns, whatever else was written, removed,
\* recreated or evicted since.
WritesAreReadBack ==
  ~panic => \A f \in Live : \A pos \in written[f] :
              /\ pos < fs.inode[at[f]].length
              /\ ReadByte(fs, at[f], pos) = <<f, pos>>
=============================================================================
