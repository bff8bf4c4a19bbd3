---------------------------- MODULE AddressSpace ----------------------------
(***************************************************************************)
(* User memory: userprog/pagedir.c (page directories, tables and frames),  *)
(* the loader of userprog/process.c (segments and stack), vm/mem.c (sbrk), *)
(* the copy that fork makes and what exit and exec give back.  Memory is   *)
(* two pools of pages, the kernel's for directories and tables and the     *)
(* user's for frames; both may run out at any allocation.                  *)
(*                                                                         *)
(* Each call is one action; what a call leaves behind when one of its      *)
(* allocations fails is the subject.                                       *)
(***************************************************************************)
EXTENDS Integers, FiniteSets, FiniteSetsExt, SequencesExt

CONSTANTS Procs, KernelPages, UserPages,  \* sets of integers: what palloc has
          DirSize, TableSize,             \* user entries of a directory, entries of a table
          PGSIZE,                         \* bytes in a page
          Programs,                       \* sequences of segments: first and last page, and
                                          \* whether the file is too short for the last one
          Increments                      \* what programs pass to sbrk

Nil == -1
StackPage == DirSize * TableSize - 1
NoTable == [i \in 0 .. TableSize - 1 |-> Nil]
NoDir == [i \in 0 .. DirSize - 1 |-> Nil]
NoSpace == [pd |-> Nil, dir |-> NoDir, base |-> 0, heap_end |-> 0, whole |-> {}]

VARIABLES m,        \* kfree, ufree : free pages; table : kernel page -> entries;
                    \* bad : a page was freed that was not in use; panic : an
                    \* assertion that an address is the user's has failed
          space,    \* process -> directory page, directory, heap_end, the heap_end
                    \* it started with, and the pages it got by a call of exactly
                    \* one page at a page boundary that installed none
          live,     \* processes that exist
          copy_failed   \* a fork has run out of memory

vars == <<m, space, live, copy_failed>>

\* palloc_free_page fills what it frees with 0xcc: no entry of a freed table
\* is present.
Free(x, k, u) == [x EXCEPT !.kfree = @ \cup k, !.ufree = @ \cup u,
                           !.table = [t \in KernelPages |-> IF t \in k THEN NoTable ELSE @[t]],
                           !.bad = @ \/ k \cap x.kfree # {} \/ u \cap x.ufree # {}]

pagedir_get_page(x, dir, v) ==
  LET t == dir[v \div TableSize] IN IF t = Nil THEN Nil ELSE x.table[t][v % TableSize]

\* install_page, with the frame it maps: pagedir_get_page must find nothing,
\* a missing table is made first, and a frame that cannot be filled from the
\* file (page Nil) or mapped is freed again.
install_page(acc, v) ==
  LET x == acc.x
      i == v \div TableSize
      new == acc.dir[i] = Nil
      t == IF new THEN Min(x.kfree) ELSE acc.dir[i]
      f == Min(x.ufree)
      base == IF new THEN [x.table EXCEPT ![t] = NoTable] ELSE x.table
  IN IF ~acc.ok \/ v = Nil \/ x.ufree = {} \/ pagedir_get_page(x, acc.dir, v) # Nil
        \/ (new /\ x.kfree = {})
     THEN [acc EXCEPT !.ok = FALSE]
     ELSE [ok |-> TRUE, dir |-> [acc.dir EXCEPT ![i] = t],
           x |-> [x EXCEPT !.ufree = @ \ {f}, !.kfree = @ \ {t},
                           !.table = [base EXCEPT ![t][v % TableSize] = f]]]

install_pages(x, dir, pages) ==
  FoldLeft(install_page, [x |-> x, dir |-> dir, ok |-> TRUE], pages)

FramesOf(x, t) == {x.table[t][i] : i \in 0 .. TableSize - 1} \ {Nil}

pagedir_destroy(x, pd, dir) ==
  LET tables == {dir[i] : i \in 0 .. DirSize - 1} \ {Nil}
  IN IF pd = Nil THEN x
     ELSE Free(x, tables \cup {pd}, UNION {FramesOf(x, t) : t \in tables})

UpFrom(a, b) == [i \in 1 .. b - a + 1 |-> a + i - 1]

SegmentPages(seg) == IF seg.short THEN Append(UpFrom(seg.first, seg.last - 1), Nil)
                                  ELSE UpFrom(seg.first, seg.last)

\* load: a directory, the segments in order, the stack; the heap starts one
\* page past the last segment.
load(x, prog) ==
  LET pd == Min(x.kfree)
      pages == FlattenSeq([i \in DOMAIN prog |-> SegmentPages(prog[i])])
                 \o <<StackPage>>
      end == Max({seg.last : seg \in Range(prog)})
      out == install_pages([x EXCEPT !.kfree = @ \ {pd}], NoDir, pages)
      heap == (end + 2) * PGSIZE
  IN IF x.kfree = {} THEN [ok |-> FALSE, x |-> x, space |-> NoSpace]
     ELSE [ok |-> out.ok, x |-> out.x,
           space |-> [NoSpace EXCEPT !.pd = pd, !.dir = out.dir, !.base = heap,
                                     !.heap_end = heap]]

(* pagedir_copy: the directory is copied whole, then its entries are replaced *)
(* one by one by copies of the tables.                                        *)
\* Mutant: parent and child share the frame.
MutantSharesFrame(acc, j, from, to) ==
  IF ~acc.ok \/ acc.x.table[from][j] = Nil THEN acc
  ELSE [acc EXCEPT !.x.table[to][j] = acc.x.table[from][j]]

CopyFrame(acc, j, from, to) ==
  LET f == Min(acc.x.ufree)
  IN IF ~acc.ok \/ acc.x.table[from][j] = Nil THEN acc
     ELSE IF acc.x.ufree = {} THEN [acc EXCEPT !.ok = FALSE]
     ELSE [acc EXCEPT !.x.ufree = @ \ {f}, !.x.table[to][j] = f]

CopyTable(acc, i) ==
  LET from == acc.dir[i]
      to == Min(acc.x.kfree)
      made == [acc EXCEPT !.x.kfree = @ \ {to}, !.x.table[to] = NoTable, !.dir[i] = to]
  IN IF ~acc.ok \/ from = Nil THEN acc
     ELSE IF acc.x.kfree = {} THEN [acc EXCEPT !.ok = FALSE]
     ELSE FoldLeft(LAMBDA a, j : CopyFrame(a, j, from, to), made, UpFrom(0, TableSize - 1))

\* On failure what was copied is destroyed, and with it the entries of the
\* original directory that had not been replaced yet.
pagedir_copy(x, dir) ==
  LET pd == Min(x.kfree)
      out == FoldLeft(CopyTable, [x |-> [x EXCEPT !.kfree = @ \ {pd}], dir |-> dir,
                                  ok |-> TRUE], UpFrom(0, DirSize - 1))
  IN IF x.kfree = {} THEN [ok |-> FALSE, x |-> x, pd |-> Nil, dir |-> NoDir]
     ELSE IF out.ok THEN [ok |-> TRUE, x |-> out.x, pd |-> pd, dir |-> out.dir]
     ELSE [ok |-> FALSE, x |-> pagedir_destroy(out.x, pd, out.dir), pd |-> Nil, dir |-> NoDir]

\* mem_sbrk: only increments of more than a page, or whose end is not mapped,
\* ask for pages; they stay mapped when a later one of the call fails.
sbrk_pages(x, s, increment) ==
  LET top == s.heap_end + increment
      from == (s.heap_end + PGSIZE - 1) \div PGSIZE
      to == (top + PGSIZE - 1) \div PGSIZE - 1
  IN IF increment > PGSIZE \/ top \div PGSIZE > StackPage
        \/ pagedir_get_page(x, s.dir, top \div PGSIZE) = Nil
     THEN UpFrom(from, to) ELSE <<>>

Init == /\ m = [kfree |-> KernelPages, ufree |-> UserPages,
                table |-> [t \in KernelPages |-> NoTable], bad |-> FALSE, panic |-> FALSE]
        /\ space = [p \in Procs |-> NoSpace]
        /\ live = {CHOOSE p \in Procs : TRUE}
        /\ copy_failed = FALSE

\* process_start: the old space goes first; a process that cannot load exits.
Exec(p, prog) ==
  LET out == load(pagedir_destroy(m, space[p].pd, space[p].dir), prog)
  IN /\ p \in live
     /\ UNCHANGED copy_failed
     /\ IF out.ok
        THEN /\ m' = out.x /\ space' = [space EXCEPT ![p] = out.space] /\ UNCHANGED live
        ELSE /\ m' = pagedir_destroy(out.x, out.space.pd, out.space.dir)
             /\ space' = [space EXCEPT ![p] = NoSpace]
             /\ live' = live \ {p}

Spawn(p, q) == /\ p \in live /\ q \notin live   \* process_execute: a child that will load
               /\ live' = live \cup {q}
               /\ UNCHANGED <<m, space, copy_failed>>

\* process_fork with dup_process; the child's heap_end is not set.
Fork(p, q) ==
  LET out == pagedir_copy(m, space[p].dir)
  IN /\ p \in live /\ q \notin live /\ space[p].pd # Nil
     /\ m' = out.x
     /\ IF out.ok
        THEN /\ space' = [space EXCEPT ![q] = [NoSpace EXCEPT !.pd = out.pd, !.dir = out.dir]]
             /\ live' = live \cup {q}
             /\ UNCHANGED copy_failed
        ELSE /\ copy_failed' = TRUE
             /\ UNCHANGED <<space, live>>

\* Nothing keeps the heap away from the stack or from the end of user memory:
\* the stack's page counts as mapped, and an address past it is an assertion
\* of pagedir_get_page, which an increment of more than a page does not reach
\* as long as the first page it needs is the user's.
Sbrk(p, increment) ==
  LET s == space[p]
      top == s.heap_end + increment
      pages == sbrk_pages(m, s, increment)
      out == install_pages(m, s.dir, pages)
      past == IF increment > PGSIZE THEN pages # <<>> /\ Head(pages) > StackPage
              ELSE top \div PGSIZE > StackPage
      whole == increment = PGSIZE /\ s.heap_end % PGSIZE = 0 /\ pages = <<>>
  IN /\ p \in live /\ s.pd # Nil
     /\ IF past THEN m' = [m EXCEPT !.panic = TRUE] /\ UNCHANGED space
        ELSE /\ m' = out.x
             /\ space' = [space EXCEPT
                  ![p].dir = out.dir,
                  ![p].heap_end = IF out.ok THEN top ELSE @,
                  ![p].whole = IF whole THEN @ \cup {s.heap_end \div PGSIZE} ELSE @]
     /\ UNCHANGED <<live, copy_failed>>

\* process_exit, called by the process or by the fault handler on its behalf.
Exit(p) == /\ p \in live
           /\ m' = pagedir_destroy(m, space[p].pd, space[p].dir)
           /\ space' = [space EXCEPT ![p] = NoSpace]
           /\ live' = live \ {p}
           /\ UNCHANGED copy_failed

\* A fork that ran out of memory has freed pages its parent still maps; what
\* the two may do from there on is not explored.
Next == ~copy_failed /\ ~m.panic /\ \E p \in Procs :
          \/ \E prog \in Programs : Exec(p, prog)
          \/ \E q \in Procs : Spawn(p, q) \/ Fork(p, q)
          \/ \E increment \in Increments : Sbrk(p, increment)
          \/ Exit(p)

Spec == Init /\ [][Next]_vars
-----------------------------------------------------------------------------
TablesOf(p) == {space[p].dir[i] : i \in 0 .. DirSize - 1} \ {Nil}
Spaces == {p \in Procs : space[p].pd # Nil}
DirEntries == {e \in Spaces \X (0 .. DirSize - 1) : space[e[1]].dir[e[2]] # Nil}
PageEntries == {e \in (UNION {TablesOf(p) : p \in Spaces}) \X (0 .. TableSize - 1) :
                  m.table[e[1]][e[2]] # Nil}

(* Until a fork has run out of memory, whatever allocation failed in exec    *)
(* or sbrk and in whatever order processes forked and exited: no page is     *)
(* freed twice, every page taken from palloc is a directory, a table or a    *)
(* frame of exactly one place of one process, and none of those is free, so  *)
(* that no process can reach the memory of another and none is lost when     *)
(* the last one exits (pagedir_destroy frees all that load, mem_sbrk and     *)
(* pagedir_copy took).  A copy that failed half way frees too much, the      *)
(* parent's own tables among it, but loses no page.                          *)
SpacesAreApart ==
  LET tables == {space[e[1]].dir[e[2]] : e \in DirEntries}
      dirs == {space[p].pd : p \in Spaces}
      frames == {m.table[e[1]][e[2]] : e \in PageEntries}
  IN /\ KernelPages \ m.kfree \subseteq tables \cup dirs
     /\ UserPages \ m.ufree \subseteq frames
     /\ ~copy_failed =>
          /\ ~m.bad
          /\ Cardinality(tables) = Cardinality(DirEntries)
          /\ Cardinality(dirs) = Cardinality(Spaces)
          /\ Cardinality(frames) = Cardinality(PageEntries)
          /\ tables \cap dirs = {}
          /\ (tables \cup dirs) \cap m.kfree = {} /\ frames \cap m.ufree = {}

(* Every byte that mem_sbrk has handed out lies in a page that is mapped,    *)
(* whether its page was mapped by that call, by an earlier one, or by one    *)
(* that failed half way and left its pages behind.  The exception is a call  *)
(* for exactly one page at a page boundary when the page after it is mapped: *)
(* in a forked child, whose heap starts at 0, or just below the stack.       *)
HeapIsMapped ==
  copy_failed \/ \A p \in Spaces : \A b \in space[p].base .. space[p].heap_end - 1 :
                   \/ pagedir_get_page(m, space[p].dir, b \div PGSIZE) # Nil
                   \/ b \div PGSIZE \in space[p].whole
=============================================================================
