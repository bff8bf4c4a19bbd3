------------------------------ MODULE Syscall ------------------------------
(***************************************************************************)
(* The system call handler (userprog/syscall.c), the checks it makes of    *)
(* the pointers a program passes, the page it copies a string argument to, *)
(* and the ways out of it: a return, an exit, a new image (process.c), a   *)
(* fault (exception.c).  What the calls themselves do is the business of   *)
(* the other modules.  Words are one byte here, addresses wrap at 2^W.     *)
(***************************************************************************)
EXTENDS Integers, Sequences, FiniteSets

CONSTANTS Procs,
          W, PHYS_BASE, PGSIZE,   \* width of an address, end of user space, page size
          Mapped,                 \* user pages that are mapped
          Zeros,                  \* user addresses that hold a zero byte
          Stacks, Pointers, Sizes,  \* stack pointers and arguments programs pass
          Pages                   \* pages of the kernel pool

VARIABLES pc,      \* where each process is
          call,    \* its call: kind, stack pointer, pointer and size arguments
          arg,     \* thread->syscall_arg is a page
          copy,    \* string copied to that page: its first address, its length, and
                   \* the bytes written
          free,    \* pages left in the pool
          lost,    \* pages nobody refers to any more
          children \* processes made by exec that are alive: each has two pages, its
                   \* thread's and its descriptor table
vars == <<pc, call, arg, copy, free, lost, children>>

Kinds == {"none", "plain", "string", "buffer", "exec", "exec2", "exit"}
NoCall == [kind |-> "none", esp |-> 0, ptr |-> 0, size |-> 0]
NoCopy == <<0, 0, 0>>
Init ==
  /\ pc = [p \in Procs |-> "user"] /\ call = [p \in Procs |-> NoCall]
  /\ arg = [p \in Procs |-> FALSE] /\ copy = [p \in Procs |-> NoCopy]
  /\ free = Pages /\ lost = 0 /\ children = 0

Wrap(a) == a % 2^W
is_user_vaddr(a) == a < PHYS_BASE
\* A read of an unmapped address faults in the kernel; page_fault makes it -1.
page_fault_result == -1
get_user(a) == IF a \div PGSIZE \in Mapped THEN (IF a \in Zeros THEN 0 ELSE 1) ELSE page_fault_result
validate_ptr(a) == is_user_vaddr(a) /\ get_user(a) # -1
copy_from_user(user, bytes) == \A i \in 0 .. bytes - 1 : validate_ptr(Wrap(user + i))

\* The length, terminator included, of the string copied, or 0 for sys_exit (-1).
\* A second terminator is written behind the first.
str_copy_from_user(user) ==
  LET Ends(n) == \A i \in 0 .. n - 1 : /\ i < PGSIZE /\ validate_ptr(Wrap(user + i))
                                       /\ (get_user(Wrap(user + i)) = 0) <=> (i = n - 1)
  IN  IF \E n \in 1 .. PGSIZE : Ends(n) THEN CHOOSE n \in 1 .. PGSIZE : Ends(n) ELSE 0

MutantFirstBytes(buffer, size) ==
  \/ size = 0
  \/ /\ buffer <= Wrap(buffer + size)
     /\ \A k \in 0 .. size : k * PGSIZE < size => validate_ptr(buffer + k * PGSIZE)
validate_buffer(buffer, size) ==
  \/ size = 0
  \/ /\ buffer <= Wrap(buffer + size)
     /\ \A k \in 0 .. size : k * PGSIZE < size => validate_ptr(buffer + k * PGSIZE)
     /\ validate_ptr(buffer + size - 1)

\* sys_exit, thread_exit and process_exit: the page of the call goes back.
sys_exit(p) ==
  /\ pc' = [pc EXCEPT ![p] = "dead"]
  /\ free' = IF arg[p] THEN free + 1 ELSE free
  /\ arg' = [arg EXCEPT ![p] = FALSE] /\ copy' = [copy EXCEPT ![p] = NoCopy]
  /\ call' = [call EXCEPT ![p] = NoCall]

\* int $0x30: the number is fetched and the page allocated.
syscall_handler(p, c) ==
  /\ pc[p] = "user"
  /\ IF ~copy_from_user(c.esp, 1) \/ free = 0 THEN sys_exit(p)
     ELSE /\ free' = free - 1 /\ arg' = [arg EXCEPT ![p] = TRUE]
          /\ pc' = [pc EXCEPT ![p] = "args"] /\ call' = [call EXCEPT ![p] = c]
          /\ UNCHANGED copy
  /\ UNCHANGED <<lost, children>>

\* The arguments are fetched and checked.
args(p) ==
  LET c   == call[p]
      len == str_copy_from_user(c.ptr)
  IN  /\ pc[p] = "args"
      /\ IF \/ c.kind # "none" /\ ~copy_from_user(Wrap(c.esp + 1), 2)
            \/ c.kind \in {"string", "exec", "exec2"} /\ len = 0
            \/ c.kind = "buffer" /\ ~validate_buffer(c.ptr, c.size)
            \/ c.kind = "exit"
         THEN sys_exit(p)
         ELSE /\ pc' = [pc EXCEPT ![p] = "call"]
              /\ copy' = [copy EXCEPT ![p] = IF c.kind \in {"string", "exec", "exec2"}
                                             THEN <<c.ptr, len, len + 1>> ELSE NoCopy]
              /\ UNCHANGED <<free, arg, call>>
      /\ UNCHANGED <<lost, children>>

\* The call is done and the page given back.
Done(p, pages) ==
  /\ pc' = [pc EXCEPT ![p] = "user"] /\ free' = free + 1 + pages
  /\ arg' = [arg EXCEPT ![p] = FALSE] /\ copy' = [copy EXCEPT ![p] = NoCopy]
  /\ call' = [call EXCEPT ![p] = NoCall]
Return(p) ==
  /\ pc[p] = "call" /\ call[p].kind \in {"none", "plain", "string", "buffer"}
  /\ Done(p, 0) /\ UNCHANGED <<lost, children>>

\* process_execute copies the line to a page of its own, creates the process
\* and waits for its load.
process_execute(p) ==
  /\ pc[p] = "call" /\ call[p].kind = "exec"
  /\ IF free = 0 THEN Done(p, 0)
     ELSE pc' = [pc EXCEPT ![p] = "create"] /\ free' = free - 1 /\ UNCHANGED <<call, arg, copy>>
  /\ UNCHANGED <<lost, children>>
thread_create(p) ==
  /\ pc[p] = "create"
  /\ IF free < 2 THEN Done(p, 1) /\ UNCHANGED children
     ELSE /\ pc' = [pc EXCEPT ![p] = "load"] /\ free' = free - 2 /\ children' = children + 1
          /\ UNCHANGED <<call, arg, copy>>
  /\ UNCHANGED lost

\* process_start in the new process frees the line, with a second copy of it,
\* whether it loads or fails.  Without a page for that copy it exits at once:
\* nobody frees the line, and nobody ends the wait of process_execute.
start_child(p) ==
  /\ pc[p] = "load"
  /\ IF free = 0
     THEN /\ pc' = [pc EXCEPT ![p] = "stuck"] /\ lost' = lost + 1
          /\ free' = free + 2 /\ children' = children - 1 /\ UNCHANGED <<call, arg, copy>>
     ELSE /\ UNCHANGED lost
          /\ \/ Done(p, 1) /\ UNCHANGED children
             \/ Done(p, 3) /\ children' = children - 1
exit_child ==
  /\ children > Cardinality({p \in Procs : pc[p] = "load"})
  /\ children' = children - 1 /\ free' = free + 2
  /\ UNCHANGED <<pc, call, arg, copy, lost>>

\* process_start in the calling process: both pages are freed and the page of
\* the call forgotten before the new image runs or the process exits.
process_start(p) ==
  /\ pc[p] = "call" /\ call[p].kind = "exec2"
  /\ IF free = 0 THEN sys_exit(p)
     ELSE /\ pc' \in {[pc EXCEPT ![p] = s] : s \in {"user", "dead"}}
          /\ free' = free + 1 /\ arg' = [arg EXCEPT ![p] = FALSE]
          /\ copy' = [copy EXCEPT ![p] = NoCopy] /\ call' = [call EXCEPT ![p] = NoCall]
  /\ UNCHANGED <<lost, children>>

\* An exception in user mode: page_fault and the others kill the process.
kill(p) == pc[p] = "user" /\ sys_exit(p) /\ UNCHANGED <<lost, children>>

Calls == {c \in [kind : Kinds, esp : Stacks, ptr : Pointers, size : Sizes] :
            /\ c.kind # "buffer" => c.size = 0
            /\ c.kind \in {"none", "plain", "exit"} => c.ptr = 0}
Next == exit_child \/ \E p \in Procs :
          \/ \E c \in Calls : syscall_handler(p, c)
          \/ args(p) \/ Return(p) \/ process_start(p) \/ kill(p)
          \/ process_execute(p) \/ thread_create(p) \/ start_child(p)
Spec == Init /\ [][Next]_vars
-----------------------------------------------------------------------------
(* A page taken for a call, for the line of a process to be made or for that   *)
(* process is held by somebody or is back in the pool, whichever way the call  *)
(* ends and whatever the other processes do with the last pages: none is freed *)
(* twice, none kept by a dead process.  The one way to lose a page is a new    *)
(* process that finds none for its copy of the line, and then the process that *)
(* made it waits for ever.                                                     *)
ArgPagesAreReturned ==
  /\ free + lost + Cardinality({p \in Procs : arg[p]}) + 2 * children
       + Cardinality({p \in Procs : pc[p] \in {"create", "load"}}) = Pages
  /\ \A p \in Procs : arg[p] <=> pc[p] \notin {"user", "dead"}
  /\ lost = Cardinality({p \in Procs : pc[p] = "stuck"})

(* Once the checks have passed, every byte of the buffer a call works on, its  *)
(* last page and its wrap-around included, is mapped user memory, and a string *)
(* was copied up to its terminator; the copy stays inside its page unless the  *)
(* string fills the page, when one zero byte is written behind it.             *)
CheckedMemoryIsMapped ==
  \A p \in Procs : pc[p] = "call" =>
    LET c == call[p] IN
    /\ c.kind = "buffer" => \A a \in c.ptr .. c.ptr + c.size - 1 :
                              a < PHYS_BASE /\ a \div PGSIZE \in Mapped
    /\ c.kind \in {"string", "exec", "exec2"} =>
         /\ copy[p][2] >= 1 /\ copy[p][1] + copy[p][2] - 1 \in Zeros
         /\ \A a \in copy[p][1] .. copy[p][1] + copy[p][2] - 1 : a < PHYS_BASE
         /\ copy[p][3] <= PGSIZE \/ copy[p][2] = PGSIZE
=============================================================================
