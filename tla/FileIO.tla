------------------------------- MODULE FileIO -------------------------------
(***************************************************************************)
(* Reading and writing through open files (filesys/file.c, the calls of    *)
(* userprog/syscall.c): an open file holds a position that every           *)
(* descriptor and every process sharing it moves, outside any lock, and    *)
(* the inode below it may be denied writes.  One regular file is modelled; *)
(* its bytes are the write that put them there.  The pieces of a call are  *)
(* those the code makes without a lock: the position, the reference count  *)
(* and the count of denials are loaded in one step and stored in another.  *)
(* A process whose open file was freed under it is not followed further.   *)
(***************************************************************************)
EXTENDS Integers, Sequences, FiniteSets

CONSTANTS Procs, Opens,     \* processes and open files (struct file)
          Sizes, Places,    \* transfer sizes, seek targets
          MaxLen, MaxCalls  \* bounds: length of the file, calls in a behaviour

VARIABLES fd,      \* process -> the open file its descriptor names, or 0
          live,    \* open files that are allocated
          pos, ref, deny,  \* open file -> position, reference count, deny_write
          denied,  \* inode->deny_write_cnt
          data,    \* contents of the file: offset -> number of the write
          call,    \* process -> its call
          calls,   \* calls made so far
          next,    \* open file -> where the last transfer or seek by its only
                   \* user ended, -1 once it has been shared
          overlap, \* open files, and 0 for the inode, whose count was ever loaded
                   \* while another process was updating it
          halted   \* an assertion on the count of denials has failed
counts == <<live, ref, deny, denied, overlap, halted>>
vars == <<fd, pos, counts, data, call, calls, next>>

NoCall == [op |-> "none", stage |-> "none", size |-> 0, at |-> 0, n |-> 0, seen |-> 0]
Init ==
  /\ fd = [p \in Procs |-> 0] /\ live = {} /\ overlap = {} /\ halted = FALSE
  /\ pos = [f \in Opens |-> 0] /\ ref = pos /\ deny = [f \in Opens |-> FALSE]
  /\ denied = 0 /\ data = <<0, 0>> /\ calls = 0
  /\ call = [p \in Procs |-> NoCall] /\ next = pos

Ready(p) == call[p].stage = "none" /\ calls < MaxCalls /\ calls' = calls + 1
Has(p) == fd[p] \in live
At(p, stage) == call[p].stage = stage /\ Has(p) /\ UNCHANGED calls
Go(p, stage) == call' = [call EXCEPT ![p].stage = stage]
GoSeen(p, stage, n) == call' = [call EXCEPT ![p].stage = stage, ![p].seen = n]

\* Who is in the middle of an update of an open file's reference count, and
\* of the inode's count of denials.
Counting(f) == {p \in Procs : fd[p] = f /\ call[p].stage \in {"ref_store", "ref_test", "dup_store"}}
Denying == {p \in Procs : call[p].stage \in {"deny_store", "allow_store"}}
Overlap(c, others) == overlap' = IF others = {} THEN overlap ELSE overlap \cup {c}

\* file_open: a new open file at position 0.  load opens the program and
\* denies writes to it at once.
file_open(p, program) ==
  /\ Ready(p) /\ fd[p] = 0
  /\ \E f \in Opens \ live :
       /\ fd' = [fd EXCEPT ![p] = f] /\ live' = live \cup {f} /\ ref' = [ref EXCEPT ![f] = 1]
       /\ pos' = [pos EXCEPT ![f] = 0] /\ next' = [next EXCEPT ![f] = 0]
  /\ call' = [call EXCEPT ![p].stage = IF program THEN "deny" ELSE "none"]
  /\ UNCHANGED <<deny, denied, data, overlap, halted>>

\* file_deny_write and inode_deny_write: deny_write_cnt++ is a load and a store.
file_deny_write(p) ==
  /\ At(p, "deny") /\ GoSeen(p, "deny_store", denied)
  /\ deny' = [deny EXCEPT ![fd[p]] = TRUE] /\ Overlap(0, Denying)
  /\ UNCHANGED <<fd, live, pos, ref, denied, data, next, halted>>
DenyStore(p) ==
  /\ At(p, "deny_store") /\ Go(p, "none")
  /\ denied' = call[p].seen + 1 /\ halted' = (denied' > Cardinality(live))
  /\ UNCHANGED <<fd, live, pos, ref, deny, data, next, overlap>>

\* file_dup for a forked child q: the open file, and its position, are shared.
\* open_files_lock keeps other increments away, not decrements.
file_dup(p, q) ==
  /\ Ready(p) /\ Has(p) /\ fd[q] = 0 /\ call[q].stage = "none" /\ p # q
  /\ \A r \in Procs : call[r].stage # "dup_store"
  /\ call' = [call EXCEPT ![p].stage = "dup_store", ![p].seen = ref[fd[p]], ![q].stage = "new"]
  /\ fd' = [fd EXCEPT ![q] = fd[p]] /\ next' = [next EXCEPT ![fd[p]] = -1]
  /\ Overlap(fd[p], Counting(fd[p]))
  /\ UNCHANGED <<live, pos, ref, deny, denied, data, halted>>
DupStore(p, q) ==
  /\ At(p, "dup_store") /\ call[q].stage = "new"
  /\ call' = [call EXCEPT ![p] = NoCall, ![q] = NoCall]
  /\ ref' = [ref EXCEPT ![fd[p]] = call[p].seen + 1]
  /\ UNCHANGED <<fd, live, pos, deny, denied, data, next, overlap, halted>>

\* file_close: --ref_count == 0 is a load, a store and a test of what is there.
file_close(p) ==
  /\ Ready(p) /\ Has(p) /\ GoSeen(p, "ref_store", ref[fd[p]])
  /\ Overlap(fd[p], Counting(fd[p]))
  /\ UNCHANGED <<fd, live, pos, ref, deny, denied, data, next, halted>>
CloseStore(p) ==
  /\ At(p, "ref_store") /\ Go(p, "ref_test")
  /\ ref' = [ref EXCEPT ![fd[p]] = call[p].seen - 1]
  /\ UNCHANGED <<fd, live, pos, deny, denied, data, next, overlap, halted>>
CloseTest(p) ==
  /\ At(p, "ref_test")
  /\ IF ref[fd[p]] # 0
     THEN call' = [call EXCEPT ![p] = NoCall] /\ fd' = [fd EXCEPT ![p] = 0]
     ELSE Go(p, IF deny[fd[p]] THEN "allow" ELSE "free") /\ UNCHANGED fd
  /\ UNCHANGED <<counts, pos, data, next>>

\* file_allow_write and inode_allow_write, with its two assertions.
file_allow_write(p) ==
  /\ At(p, "allow") /\ GoSeen(p, "allow_store", denied)
  /\ deny' = [deny EXCEPT ![fd[p]] = FALSE] /\ Overlap(0, Denying)
  /\ halted' = ~(denied > 0 /\ denied <= Cardinality(live))
  /\ UNCHANGED <<fd, live, pos, ref, denied, data, next>>
AllowStore(p) ==
  /\ At(p, "allow_store") /\ Go(p, "free") /\ denied' = call[p].seen - 1
  /\ UNCHANGED <<fd, live, pos, ref, deny, data, next, overlap, halted>>
CloseFree(p) ==
  /\ At(p, "free") /\ call' = [call EXCEPT ![p] = NoCall]
  /\ fd' = [fd EXCEPT ![p] = 0] /\ live' = live \ {fd[p]}
  /\ UNCHANGED <<pos, ref, deny, denied, data, next, overlap, halted>>

file_seek(p, k) ==
  /\ Ready(p) /\ Has(p)
  /\ pos' = [pos EXCEPT ![fd[p]] = k] /\ next' = [next EXCEPT ![fd[p]] = IF @ = -1 THEN -1 ELSE k]
  /\ UNCHANGED <<fd, counts, data, call>>

\* sys_read and sys_write as far as the inode: file->pos is read and, for a
\* write, deny_write_cnt tested.
Begin(p, op, size) ==
  /\ Ready(p) /\ Has(p)
  /\ IF op = "write" /\ denied > 0
     THEN UNCHANGED call                     \* 0 bytes
     ELSE call' = [call EXCEPT ![p] = [NoCall EXCEPT !.op = op, !.stage = "move", !.size = size,
                                                     !.at = pos[fd[p]]]]
  /\ UNCHANGED <<fd, pos, counts, data, next>>

\* inode_read_at and inode_write_at.
inode_read_at(p) ==
  /\ At(p, "move") /\ call[p].op = "read"
  /\ LET left == Len(data) - call[p].at
         n    == IF left <= 0 THEN 0 ELSE IF left < call[p].size THEN left ELSE call[p].size
     IN  call' = [call EXCEPT ![p].stage = "load", ![p].n = n]
  /\ UNCHANGED <<fd, pos, counts, data, next>>
inode_write_at(p) ==
  /\ At(p, "move") /\ call[p].op = "write"
  /\ LET c    == call[p]
         end  == c.at + c.size
         byte(i) == IF i > c.at /\ i <= end THEN calls
                    ELSE IF i <= Len(data) THEN data[i] ELSE 0
     IN  /\ end <= MaxLen
         /\ data' = [i \in 1 .. (IF end > Len(data) THEN end ELSE Len(data)) |-> byte(i)]
         /\ call' = [call EXCEPT ![p].stage = "load", ![p].n = c.size]
  /\ UNCHANGED <<fd, pos, counts, next>>

\* file->pos += n: a load and a store.
LoadPos(p) ==
  /\ At(p, "load")
  /\ call' = [call EXCEPT ![p].stage = "store", ![p].seen = pos[fd[p]]]
  /\ UNCHANGED <<fd, pos, counts, data, next>>
MutantAdvancesBySize(p) ==
  /\ At(p, "store")
  /\ pos' = [pos EXCEPT ![fd[p]] = call[p].seen + call[p].size]
  /\ call' = [call EXCEPT ![p] = NoCall]
  /\ next' = [next EXCEPT ![fd[p]] = IF @ = -1 THEN -1 ELSE @ + call[p].n]
  /\ UNCHANGED <<fd, counts, data>>
StorePos(p) ==
  /\ At(p, "store")
  /\ pos' = [pos EXCEPT ![fd[p]] = call[p].seen + call[p].n]
  /\ call' = [call EXCEPT ![p] = NoCall]
  /\ next' = [next EXCEPT ![fd[p]] = IF @ = -1 THEN -1 ELSE @ + call[p].n]
  /\ UNCHANGED <<fd, counts, data>>

Next == ~halted /\ \E p \in Procs :
          \/ \E program \in BOOLEAN : file_open(p, program)
          \/ file_deny_write(p) \/ DenyStore(p)
          \/ \E q \in Procs : file_dup(p, q) \/ DupStore(p, q)
          \/ file_close(p) \/ CloseStore(p) \/ CloseTest(p)
          \/ file_allow_write(p) \/ AllowStore(p) \/ CloseFree(p)
          \/ \E k \in Places : file_seek(p, k)
          \/ \E op \in {"read", "write"}, s \in Sizes : Begin(p, op, s)
          \/ inode_read_at(p) \/ inode_write_at(p) \/ LoadPos(p) \/ StorePos(p)
Spec == Init /\ [][Next]_vars
-----------------------------------------------------------------------------
(* "Advances FILE's position by the number of bytes read": an open file that   *)
(* one process uses alone stands, between two calls, where the transfers and   *)
(* seeks made through it leave it, short reads included, whatever other        *)
(* processes do to the same inode through their own open files.  The unlocked  *)
(* counts claim less: an open file counts the descriptors that name it as long *)
(* as no two updates of its count overlapped, and as long as no updates of any *)
(* count did, the denials of the inode are the open files that deny and no     *)
(* assertion on them fails.                                                    *)
PositionsAdvance ==
  /\ \A p \in Procs :
       fd[p] \in live \ overlap /\ call[p].stage = "none" => next[fd[p]] \in {-1, pos[fd[p]]}
  /\ \A f \in live \ overlap :
       Counting(f) = {} =>
         ref[f] = Cardinality({p \in Procs : fd[p] = f /\ call[p].stage \notin {"allow", "allow_store", "free"}})
  /\ overlap = {} =>
       ~halted /\ (Denying = {} => denied = Cardinality({f \in live : deny[f]}))
=============================================================================
