----------------------------- MODULE OpenInodes -----------------------------
(***************************************************************************)
(* The list of open inodes of filesys/inode.c, when several processes call *)
(* inode_open and inode_close on one file at the same time.  Two opens of  *)
(* a directory meet when its name is looked up in its parent and as ".."   *)
(* in its child: each holds the lock of another directory.                 *)
(*                                                                         *)
(* open_inodes_lock is held over one step at a time, so it needs no        *)
(* variable.  The count of an inode is read and written in two steps: only *)
(* inode_open holds the lock while it changes it.  What inode_close does   *)
(* to the blocks of a removed file is in InodeIndex.                       *)
(***************************************************************************)
EXTENDS Integers, Sequences

CONSTANTS Procs,
          Nodes,    \* heap blocks that can hold a struct inode
          Sectors,
          None

VARIABLES node,         \* node[n]: the struct inode in heap block n
          heap,         \* the blocks that are allocated
          open_inodes,  \* the list of open inodes
          pc,           \* where each process is
          want,         \* the sector it opens
          inode,        \* the inode it holds or works on
          count         \* the open_cnt it has read

vars == <<node, heap, open_inodes, pc, want, inode, count>>

At(p, here, there) == pc[p] = here /\ pc' = [pc EXCEPT ![p] = there]
Locked(p) == \A q \in Procs \ {p} : pc[q] # "reopen"

\* A block of the heap holds what its last user left in it.
Init ==
  /\ node \in [Nodes -> [sector : Sectors, open_cnt : {0}]]
  /\ heap = {} /\ open_inodes = << >>
  /\ pc = [p \in Procs |-> "idle"]
  /\ want \in [Procs -> Sectors]
  /\ inode = [p \in Procs |-> None]
  /\ count = [p \in Procs |-> 0]

\* inode_open acquires the lock and searches the list.  Who finds the inode reads
\* its count and keeps the lock; else the lock is released.
Search(p) ==
  /\ pc[p] = "idle" /\ Locked(p)
  /\ \E s \in Sectors :
       LET found == SelectSeq(open_inodes, LAMBDA n : node[n].sector = s) IN
       /\ want' = [want EXCEPT ![p] = s]
       /\ \/ /\ found # << >>
             /\ pc' = [pc EXCEPT ![p] = "reopen"]
             /\ inode' = [inode EXCEPT ![p] = Head(found)]
             /\ count' = [count EXCEPT ![p] = node[Head(found)].open_cnt]
          \/ /\ found = << >>
             /\ pc' = [pc EXCEPT ![p] = "malloc"]
             /\ UNCHANGED <<inode, count>>
  /\ UNCHANGED <<node, heap, open_inodes>>

\* inode_reopen, and the release of the lock.
inode_reopen(p) ==
  /\ At(p, "reopen", "open")
  /\ node' = [node EXCEPT ![inode[p]].open_cnt = count[p] + 1]
  /\ UNCHANGED <<heap, open_inodes, want, inode, count>>

\* Memory for a new inode: none, or a free block.
Malloc(p) ==
  /\ \/ At(p, "malloc", "idle") /\ Nodes \subseteq heap /\ UNCHANGED <<heap, inode>>
     \/ /\ At(p, "malloc", "insert")
        /\ \E n \in Nodes \ heap :
             heap' = heap \cup {n} /\ inode' = [inode EXCEPT ![p] = n]
  /\ UNCHANGED <<node, open_inodes, want, count>>

\* The new inode joins the list, under the lock, before its fields are set.
Insert(p) ==
  /\ At(p, "insert", "sector") /\ Locked(p)
  /\ open_inodes' = <<inode[p]>> \o open_inodes
  /\ UNCHANGED <<node, heap, want, inode, count>>

SetSector(p) ==
  /\ At(p, "sector", "count")
  /\ node' = [node EXCEPT ![inode[p]].sector = want[p]]
  /\ UNCHANGED <<heap, open_inodes, want, inode, count>>

SetCount(p) ==
  /\ At(p, "count", "open")
  /\ node' = [node EXCEPT ![inode[p]].open_cnt = 1]
  /\ UNCHANGED <<heap, open_inodes, want, inode, count>>

\* inode_close decrements the count without the lock.
LoadCount(p) ==
  /\ At(p, "open", "close")
  /\ count' = [count EXCEPT ![p] = node[inode[p]].open_cnt]
  /\ UNCHANGED <<node, heap, open_inodes, want, inode>>

StoreCount(p) ==
  /\ At(p, "close", IF count[p] = 1 THEN "remove" ELSE "idle")
  /\ node' = [node EXCEPT ![inode[p]].open_cnt = count[p] - 1]
  /\ UNCHANGED <<heap, open_inodes, want, inode, count>>

\* The last opener takes the inode off the list, under the lock, and frees it.
Remove(p) ==
  /\ At(p, "remove", "free") /\ Locked(p)
  /\ open_inodes' = SelectSeq(open_inodes, LAMBDA n : n # inode[p])
  /\ UNCHANGED <<node, heap, want, inode, count>>

Free(p) ==
  /\ At(p, "free", "idle")
  /\ heap' = heap \ {inode[p]}
  /\ UNCHANGED <<node, open_inodes, want, inode, count>>

Next ==
  \E p \in Procs :
    \/ Search(p) \/ inode_reopen(p) \/ Malloc(p) \/ Insert(p) \/ SetSector(p) \/ SetCount(p)
    \/ LoadCount(p) \/ StoreCount(p) \/ Remove(p) \/ Free(p)

Spec == Init /\ [][Next]_vars
-----------------------------------------------------------------------------
\* Opening one inode twice returns the same struct inode, as the comment on the
\* list of open inodes says: who has a sector open at the same time has the same
\* struct.
OneInodePerSector ==
  \A p, q \in Procs :
    pc[p] = "open" /\ pc[q] = "open" /\ want[p] = want[q] => inode[p] = inode[q]
=============================================================================
