----------------------------- MODULE FileSystem -----------------------------
(***************************************************************************)
(* The file calls of userprog/syscall.c down to names and references:      *)
(* directory.c and filesys.c (paths, entries, creation and removal),       *)
(* file.c (open files shared by descriptors), and the reference counts of  *)
(* inode.c that decide when a removed file goes.  Processes fork, run      *)
(* programs whose file must not be written, and exit.                      *)
(*                                                                         *)
(* Each call is one action: calls of this model do not overlap, but for    *)
(* the removal of a directory, whose test that it is empty and whose       *)
(* erasure hold the lock of the parent only.  A path walked from the root  *)
(* leaves its last directory open for good in every call but chdir's own   *)
(* steps; such an inode is leaked, and what it leaks is counted apart from *)
(* the references somebody still holds.  The root is never removed and its *)
(* references are not counted.                                             *)
(***************************************************************************)
EXTENDS Integers, FiniteSets, SequencesExt

CONSTANTS Procs, FDs, FileIds,   \* processes, descriptors 0 .., open-file structures 1 ..
          FD_MAX,                \* the first number past the descriptors
          Sectors,               \* sectors for inodes other than the root's
          FilePaths, DirPaths,   \* paths that file calls, and mkdir and chdir, are given
          OpensDirs              \* do programs open directories as files?

ROOT == 1
Nil == 0

VARIABLE st   \* the whole state, a record: the calls are compositions of its updates
\* st.inode : sector -> kind, entries, parent (its "..", Nil elsewhere), open_cnt,
\*            leaked, removed, deny_write_cnt
\* st.file  : id -> type ("free", "REG", "DIR", "READ", "WRITE"), inode, ref_count,
\*            deny_write, dir (its struct dir is still allocated)
\* st.proc  : process -> fd_table, exec_file, cwd, cwd_ok (the structure is allocated)
\*            or Nil
\* st.lost  : pipe ends that were allocated and no descriptor ever named
\* st.rm    : process -> the directory it is removing: parent, name, sector or Nil
\* st.late  : directories that got an entry between the test that they are empty
\*            and their removal
\* st.stop  : "" or why nothing more is modelled: "panic"; "map" once sector 0, the
\*            free map's own, has been handed back; "wild" after a write past the
\*            descriptor table; "cwd" when a process uses its current directory
\*            after a walk has closed it; "freed" for any other use of a structure
\*            that was freed

NoEntries == [n \in {} |-> Nil]
Blank == [kind |-> "free", entries |-> NoEntries, parent |-> Nil, open_cnt |-> 0,
          leaked |-> FALSE, removed |-> FALSE, deny_write_cnt |-> 0]
NoFile == [type |-> "free", inode |-> Nil, ref_count |-> 0, deny_write |-> FALSE,
           dir |-> FALSE]
NoRemoval == [dir |-> Nil, name |-> "", sector |-> Nil]
NoProc == [alive |-> FALSE, fd_table |-> [d \in FDs |-> Nil], exec_file |-> Nil,
           cwd |-> Nil, cwd_ok |-> FALSE]

Init == st = [inode |-> [n \in Sectors \cup {ROOT} |->
                           IF n = ROOT THEN [Blank EXCEPT !.kind = "DIR", !.parent = ROOT]
                           ELSE Blank],
              file |-> [f \in FileIds |-> NoFile], lost |-> {},
              proc |-> [p \in Procs |-> [NoProc EXCEPT !.alive = (p = CHOOSE q \in Procs : TRUE)]],
              rm |-> [p \in Procs |-> NoRemoval], late |-> {}, stop |-> ""]

Stop(s, why) == IF s.stop = "" THEN [s EXCEPT !.stop = why] ELSE s
UseCwd(s, p) == IF s.proc[p].cwd # Nil /\ ~s.proc[p].cwd_ok THEN Stop(s, "cwd") ELSE s

(* inode.c: references *)
inode_open(s, n) ==
  IF n = ROOT THEN s ELSE [s EXCEPT !.inode[n].open_cnt = @ + 1]

inode_close(s, n) ==
  LET i == s.inode[n]
      last == i.open_cnt = 1 /\ ~i.leaked
  IN IF n \in {ROOT, Nil} THEN s
     ELSE IF i.open_cnt = 0 THEN IF i.leaked THEN s ELSE Stop(s, "freed")
     ELSE IF last /\ i.removed THEN [s EXCEPT !.inode[n] = Blank]
     ELSE [s EXCEPT !.inode[n].open_cnt = @ - 1]

\* A directory that nobody will close: its reference stays for good.
Leak(s, n) ==
  IF n = ROOT THEN s
  ELSE [s EXCEPT !.inode[n].open_cnt = @ - 1, !.inode[n].leaked = TRUE]

(* directory.c *)
dir_lookup(s, n, name) ==
  LET i == s.inode[n]
  IN IF name = "." /\ i.kind = "DIR" THEN n
     ELSE IF name = ".." /\ i.kind = "DIR" THEN i.parent
     ELSE IF name \in DOMAIN i.entries THEN i.entries[name]
     ELSE Nil

\* One component of the walk: acc.dir is where the walk is, acc.mine whether
\* it holds a reference of its own.  The walk closes what it leaves, the
\* process's own current directory included.
Enter(acc, p, next) ==
  LET left == inode_close(IF next = Nil THEN acc.s ELSE inode_open(acc.s, next), acc.dir)
  IN [dir |-> next, mine |-> TRUE,
      s |-> IF acc.mine THEN left ELSE [left EXCEPT !.proc[p].cwd_ok = FALSE]]
Step(acc, p, name) ==
  IF acc.dir = Nil THEN acc ELSE Enter(acc, p, dir_lookup(acc.s, acc.dir, name))

dir_traverse_path(s, p, path, is_dir) ==
  LET me == s.proc[p]
      last == Len(path.names) - (IF is_dir THEN 0 ELSE 1)
      start == IF path.abs \/ me.cwd = Nil
               THEN [s |-> inode_open(s, ROOT), dir |-> ROOT, mine |-> TRUE]
               ELSE [s |-> UseCwd(s, p), mine |-> FALSE,
                     dir |-> IF s.inode[me.cwd].removed THEN Nil ELSE me.cwd]
  IN FoldLeft(LAMBDA acc, name : Step(acc, p, name), start, SubSeq(path.names, 1, last))

\* The directory a file call works in, after the call has forgotten to close it.
LeakWalk(w) == [w EXCEPT !.s = IF w.dir # Nil /\ w.mine THEN Leak(@, w.dir) ELSE @]
Walk(s, p, path) == LeakWalk(dir_traverse_path(s, p, path, FALSE))

dir_add(s, n, name, sector) ==
  [s EXCEPT !.inode[n].entries =
              [x \in DOMAIN @ \cup {name} |-> IF x = name THEN sector ELSE @[x]],
            !.late = IF \E q \in Procs : s.rm[q].sector = n THEN @ \cup {n} ELSE @]

Erase(s, n, name, sector) ==
  [s EXCEPT !.inode[n].entries = [x \in DOMAIN @ \ {name} |-> @[x]],
            !.inode[sector].removed = TRUE]

\* Under the lock of directory n; an empty directory is erased in a later step.
\* For a file nothing can come between: its only lock is the parent's.
RemoveEntry(s, p, n, name, sector) ==
  IF sector = Nil THEN s
  ELSE IF s.inode[sector].kind = "REG"
       THEN inode_close(inode_open(Erase(s, n, name, sector), sector), sector)
  ELSE IF DOMAIN s.inode[sector].entries # {} THEN s
  ELSE [inode_open(s, sector) EXCEPT !.rm[p] = [dir |-> n, name |-> name, sector |-> sector]]
dir_remove(s, p, n, name) == RemoveEntry(s, p, n, name, dir_lookup(s, n, name))

FreeSector(s) == IF \A n \in Sectors : s.inode[n].kind # "free" THEN Nil
                 ELSE CHOOSE n \in Sectors : s.inode[n].kind = "free" /\
                        \A m \in Sectors : s.inode[m].kind = "free" => n <= m

(* filesys.c *)
CreateIn(w, name, n) ==
  IF w.dir = Nil \/ n = Nil THEN w.s
  ELSE IF dir_lookup(w.s, w.dir, name) # Nil THEN w.s
  ELSE dir_add([w.s EXCEPT !.inode[n] = [Blank EXCEPT !.kind = "REG"]], w.dir, name, n)
CreateAt(w, name) == CreateIn(w, name, FreeSector(w.s))
filesys_create(s, p, path) == CreateAt(Walk(s, p, path), Last(path.names))

\* Without a parent directory the second half of the call looks the name up
\* in a null directory, which is an assertion.  Without a sector for the new
\* inode it goes on as if there were one, and ends by releasing sector 0.
DirCreateIn(w, name, n) ==
  LET made == [Blank EXCEPT !.kind = "DIR", !.parent = w.dir, !.leaked = TRUE]
  IN IF w.dir = Nil THEN Stop(w.s, "panic")
     ELSE IF n = Nil THEN Stop(w.s, "map")
     ELSE IF dir_lookup(w.s, w.dir, name) # Nil THEN w.s
     ELSE dir_add([w.s EXCEPT !.inode[n] = made], w.dir, name, n)
DirCreateAt(w, name) == DirCreateIn(w, name, FreeSector(w.s))
filesys_dir_create(s, p, path) == DirCreateAt(Walk(s, p, path), Last(path.names))

RemoveAtWalk(w, p, name) == IF w.dir = Nil THEN w.s ELSE dir_remove(w.s, p, w.dir, name)
filesys_remove(s, p, path) == RemoveAtWalk(Walk(s, p, path), p, Last(path.names))

(* file.c *)
FreeFiles(s) == {f \in FileIds : s.file[f].type = "free"}
SomeFile(s) == CHOOSE f \in FreeFiles(s) : \A g \in FreeFiles(s) : f <= g

\* filesys_open: the state with the file open, and its structure or Nil.
file_open(s, n, f) ==
  LET kind == s.inode[n].kind
  IN IF n = Nil THEN [s |-> s, file |-> Nil]
     ELSE [file |-> f,
           s |-> [inode_open(s, n) EXCEPT !.file[f] =
                    [type |-> kind, inode |-> n, ref_count |-> 1,
                     deny_write |-> FALSE, dir |-> kind = "DIR"]]]
OpenAt(w, name) ==
  file_open(w.s, IF w.dir = Nil THEN Nil ELSE dir_lookup(w.s, w.dir, name), SomeFile(w.s))
filesys_open(s, p, path) == OpenAt(Walk(s, p, path), Last(path.names))


file_dup(s, f) == IF f = Nil THEN s ELSE [s EXCEPT !.file[f].ref_count = @ + 1]

file_deny_write(s, f) ==
  [s EXCEPT !.file[f].deny_write = TRUE, !.inode[s.file[f].inode].deny_write_cnt = @ + 1]

file_allow_write(s, f) ==
  IF ~s.file[f].deny_write THEN s
  ELSE [s EXCEPT !.inode[s.file[f].inode].deny_write_cnt = @ - 1]

file_close(s, f) ==
  IF f = Nil THEN s
  ELSE IF s.file[f].ref_count > 1 THEN [s EXCEPT !.file[f].ref_count = @ - 1]
  ELSE [inode_close(file_allow_write(s, f), s.file[f].inode) EXCEPT !.file[f] = NoFile]

\* dir_close (file_get_directory (file)): the structure goes with the first
\* descriptor that is closed, the reference it shares with the file goes too.
dir_close_of(s, f) ==
  IF f = Nil \/ s.file[f].type # "DIR" THEN s
  ELSE IF ~s.file[f].dir THEN Stop(s, "freed")
  ELSE inode_close([s EXCEPT !.file[f].dir = FALSE], s.file[f].inode)

(* syscall.c *)
FreeFds(s, p) == {d \in FDs : s.proc[p].fd_table[d] = Nil}

set_next_fd(s, p, f) ==
  LET d == CHOOSE x \in FreeFds(s, p) : \A y \in FreeFds(s, p) : x <= y
  IN [s EXCEPT !.proc[p].fd_table[d] = f]

close_fd(s, p, d) ==
  LET f == s.proc[p].fd_table[d]
  IN [file_close(dir_close_of(s, f), f) EXCEPT !.proc[p].fd_table[d] = Nil]

Runs(p) == st.stop = "" /\ st.proc[p].alive /\ st.rm[p] = NoRemoval

\* The directories whose lock a call on the path takes, none held by a removal.
Visited(p, path) ==
  LET start == IF path.abs \/ st.proc[p].cwd = Nil THEN ROOT ELSE st.proc[p].cwd
      At(k) == FoldLeft(LAMBDA n, x : IF n = Nil THEN Nil ELSE dir_lookup(st, n, x), start,
                        SubSeq(path.names, 1, k))
  IN {At(k) : k \in 0 .. Len(path.names) - 1}
Enters(p, path) == Runs(p) /\ \A q \in Procs : st.rm[q].dir \notin Visited(p, path) \ {Nil}

sys_create(p, path) == Enters(p, path) /\ st' = filesys_create(st, p, path)

sys_mkdir(p, path) == Enters(p, path) /\ st' = filesys_dir_create(st, p, path)

sys_remove(p, path) == Enters(p, path) /\ st' = filesys_remove(st, p, path)

RemoveDirectory(p) ==
  LET r == st.rm[p]
  IN /\ r # NoRemoval /\ st.stop = ""
     /\ st' = inode_close([Erase(st, r.dir, r.name, r.sector) EXCEPT !.rm[p] = NoRemoval], r.sector)

sys_open(p, path) ==
  /\ Enters(p, path) /\ FreeFiles(st) # {}
  /\ \E o \in {filesys_open(st, p, path)} :
       /\ (o.file # Nil /\ o.s.file[o.file].type = "DIR") => OpensDirs
       /\ st' = IF o.file = Nil THEN o.s
                ELSE IF FreeFds(st, p) = {} THEN file_close(o.s, o.file)
                ELSE set_next_fd(o.s, p, o.file)

sys_close(p, d) == Runs(p) /\ st.proc[p].fd_table[d] # Nil /\ st' = close_fd(st, p, d)

sys_dup2(p, old, new) ==
  LET f == st.proc[p].fd_table[old]
  IN /\ Runs(p) /\ f # Nil /\ old # new
     /\ st' = IF new \in FDs
              THEN [file_dup(file_close(st, st.proc[p].fd_table[new]), f)
                      EXCEPT !.proc[p].fd_table[new] = f]
              ELSE Stop(file_dup(st, f), "wild")

\* An end that finds no descriptor is not noticed: set_next_fd reports it with
\* a value the call does not test for.
PipeEnd(s, f, type) == [s EXCEPT !.file[f] = [NoFile EXCEPT !.type = type, !.ref_count = 1]]
Give(s, p, f) == IF FreeFds(s, p) = {} THEN [s EXCEPT !.lost = @ \cup {f}]
                 ELSE set_next_fd(s, p, f)
sys_pipe(p) ==
  /\ Runs(p) /\ Cardinality(FreeFiles(st)) >= 2
  /\ \E r \in {SomeFile(st)} : \E w \in {SomeFile(PipeEnd(st, r, "READ"))} :
       st' = Give(Give(PipeEnd(PipeEnd(st, r, "READ"), w, "WRITE"), p, r), p, w)

\* The reference the walk ends with is kept beside the one dir_reopen takes,
\* and the old current directory is closed only if the walk started from it.
LeakOld(s, p, old) == IF old # Nil /\ s.proc[p].cwd_ok THEN Leak(s, old) ELSE s
sys_chdir(p, path) ==
  /\ Enters(p, path)
  /\ \E w \in {dir_traverse_path(st, p, path, TRUE)} :
       st' = IF w.dir = Nil THEN w.s
             ELSE [inode_open(LeakOld(Leak(w.s, w.dir), p, st.proc[p].cwd), w.dir)
                     EXCEPT !.proc[p].cwd = w.dir, !.proc[p].cwd_ok = TRUE]

\* thread_create on behalf of process_fork or process_execute.
sys_fork(p, q) ==
  LET me == st.proc[p]
      s1 == IF me.cwd = Nil THEN st ELSE inode_open(UseCwd(st, p), me.cwd)
      s2 == FoldFunctionOnSet(LAMBDA f, s : file_dup(s, f), s1, me.fd_table, FDs)
  IN /\ Runs(p) /\ ~st.proc[q].alive
     /\ st' = [file_dup(s2, me.exec_file) EXCEPT !.proc[q] = me]

exit(s, p) ==
  LET me == s.proc[p]
      s1 == FoldSet(LAMBDA d, x : close_fd(x, p, d), s, FDs)
      s2 == file_close(s1, me.exec_file)
  IN [inode_close(UseCwd(s2, p), me.cwd) EXCEPT !.proc[p] = NoProc]

process_exit(p) == Runs(p) /\ st' = exit(st, p)

\* process_start and load: the old program's file is closed whatever happens,
\* and a process that could not load (ok is FALSE, or no such file) exits.
SetExecFile(s, p, f) ==
  [file_close(IF f = Nil THEN s ELSE file_deny_write(s, f), s.proc[p].exec_file)
     EXCEPT !.proc[p].exec_file = f]
sys_exec2(p, path, ok) ==
  /\ Enters(p, path) /\ FreeFiles(st) # {}
  /\ \E o \in {filesys_open(st, p, path)} : \E s \in {SetExecFile(o.s, p, o.file)} :
       st' = IF o.file # Nil /\ ok /\ s.file[o.file].type = "REG" THEN s ELSE exit(s, p)

Next == \E p \in Procs :
          \/ \E path \in FilePaths : sys_create(p, path) \/ sys_open(p, path)
          \/ \E path \in FilePaths \cup DirPaths : sys_remove(p, path)
          \/ RemoveDirectory(p)
          \/ \E path \in FilePaths, ok \in BOOLEAN : sys_exec2(p, path, ok)
          \/ \E path \in DirPaths : sys_mkdir(p, path) \/ sys_chdir(p, path)
          \/ \E d \in FDs : sys_close(p, d) \/ \E e \in FDs \cup {FD_MAX} : sys_dup2(p, d, e)
          \/ \E q \in Procs : sys_fork(p, q)
          \/ sys_pipe(p) \/ process_exit(p)

Spec == Init /\ [][Next]_st

Descriptors(f) == {<<p, d>> \in Procs \X FDs : st.proc[p].fd_table[d] = f}
Programs(f) == {p \in Procs : st.proc[p].exec_file = f}
FilesOn(n) == {f \in FileIds : st.file[f].type # "free" /\ st.file[f].inode = n}
CwdsOn(n) == {p \in Procs : st.proc[p].alive /\ st.proc[p].cwd = n /\ st.proc[p].cwd_ok}

Removals(n) == {p \in Procs : st.rm[p].sector = n}

\* For programs that use directories by name only.  A structure is used after
\* it was freed only where a relative path of several components had closed
\* the process's own current directory; until then, and until a write past
\* the descriptor table, an open file counts exactly the descriptors and
\* running programs that name it, through fork, dup2, exec, exit and a failed
\* open; an inode counts exactly the open files, current directories and
\* removals on it besides what was leaked; and the file of a running program
\* refuses writes until the last process running it is gone.
CountsMatchReferences ==
  /\ st.stop # "freed"
  /\ st.stop \notin {"cwd", "wild"} =>
     /\ \A f \in FileIds :
          st.file[f].ref_count = Cardinality(Descriptors(f)) + Cardinality(Programs(f))
                                   + (IF f \in st.lost THEN 1 ELSE 0)
     /\ \A n \in Sectors :
          /\ st.inode[n].open_cnt = Cardinality(FilesOn(n)) + Cardinality(CwdsOn(n))
                                      + Cardinality(Removals(n))
          /\ st.inode[n].deny_write_cnt = Cardinality({f \in FilesOn(n) : st.file[f].deny_write})
          /\ st.inode[n].open_cnt > 0 => st.inode[n].kind # "free"
     /\ \A p \in Procs : LET f == st.proc[p].exec_file IN
          (st.stop = "" /\ st.proc[p].alive /\ f # Nil) =>
             st.file[f].type = "REG" /\ st.inode[st.file[f].inode].deny_write_cnt > 0

Children(n) == {st.inode[n].entries[x] : x \in DOMAIN st.inode[n].entries}
Exists(n) == st.inode[n].kind # "free"

\* The names form a tree, as long as no entry was added to a directory between
\* the test that it is empty and its removal: an entry names an inode that
\* exists and was not removed, every such inode but the root has exactly one
\* name, the ".." of a directory is the one that names it, and a directory that
\* was removed while open or current holds no names, so nothing is created in
\* it that no path could reach.
NamesFormATree ==
  st.late = {} /\ st.stop # "cwd" =>
  \A n \in Sectors \cup {ROOT} :
    /\ \A c \in Children(n) : Exists(c) /\ ~st.inode[c].removed
    /\ st.inode[n].removed => Children(n) = {}
    /\ (n # ROOT /\ Exists(n) /\ ~st.inode[n].removed) =>
         LET names == {<<m, x>> \in (Sectors \cup {ROOT}) \X {"a", "b", "d"} :
                         x \in DOMAIN st.inode[m].entries /\ st.inode[m].entries[x] = n}
         IN /\ Cardinality(names) = 1
            /\ st.inode[n].kind = "DIR" => \A m \in names : m[1] = st.inode[n].parent
=============================================================================
