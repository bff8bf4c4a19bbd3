---------------------------- MODULE ProcessBond ----------------------------
(***************************************************************************)
(* The maternal bond of userprog/process.c and threads/thread.c: the       *)
(* heap record a parent and its child share, through which fork, exec,     *)
(* wait and exit meet.  The record holds two semaphores (load and exit),   *)
(* the load_fail flag and a reference counter under a spinlock; whoever    *)
(* drops the last reference frees the record.                              *)
(*                                                                         *)
(* Every access to the record by parent or child that another process can  *)
(* see is a step of its own.  sema_down is a step enabled when the value   *)
(* is positive.  Exit statuses are left out: nothing below tells two of    *)
(* them apart.                                                             *)
(***************************************************************************)
EXTENDS Integers, Sequences, Functions

CONSTANTS
    Procs,      \* the processes that may come to exist, Main among them
    Main,       \* the initial thread: it executes a task, waits, never exits
    MaxLoad,    \* bound on how often one process loads an image
    PageFails,  \* processes whose palloc_get_page may fail at the top of process_start
    None

VARIABLES
    bond,       \* bond[c]: the record shared by c and its parent
    children,   \* children[p]: the list of bonds of p's children, by tid
    pc,         \* where each process is
    target,     \* the bond a process is working on in fork/exec/wait/exit
    reap        \* the local variable reap of process_wait and process_exit

bond_vars == <<bond, children, pc, target, reap>>

-----------------------------------------------------------------------------
(* struct maternal_bond; mem says whether the heap block is allocated.     *)
Bond == [mem : {"none", "live", "freed"}, load : 0 .. MaxLoad, exit : 0 .. 1,
         ref : -1 .. 2, load_fail : BOOLEAN]

NoBond == [mem |-> "none", load |-> 0, exit |-> 0, ref |-> 0, load_fail |-> TRUE]

NewBond == [mem |-> "live", load |-> 0, exit |-> 0, ref |-> 2, load_fail |-> TRUE]

(* The steps at which a process is blocked or working in the kernel.       *)
Waiting  == {"load_wait", "fail_wait", "exit_wait"}
Alive    == {"dup", "start", "user", "drop", "collect"} \union Waiting
Exiting  == {"kids", "kid_unlink", "kid_free", "exit_up", "self_free"}

(* What became of a process that used a freed bond: lost while it reads    *)
(* the links of its child's bond, wild at the semaphore of its own.        *)
Astray   == {"lost", "wild"}

BondTypeOK ==
    /\ bond \in [Procs -> Bond]
    /\ children \in [Procs -> Seq(Procs \ {Main})]
    /\ pc \in [Procs -> {"unborn", "dead"} \union Alive \union Exiting \union Astray]
    /\ target \in [Procs -> Procs \union {None}]
    /\ reap \in [Procs -> BOOLEAN]

BondInit ==
    /\ bond = [p \in Procs |-> NoBond]
    /\ children = [p \in Procs |-> <<>>]
    /\ pc = [p \in Procs |-> IF p = Main THEN "user" ELSE "unborn"]
    /\ target = [p \in Procs |-> None]
    /\ reap = [p \in Procs |-> FALSE]

-----------------------------------------------------------------------------
(* thread_create, called from process_fork with dup_process and from       *)
(* process_execute with process_start.  The bond is complete and on the    *)
(* parent's list before wake_up_new_thread lets the child run.  When the   *)
(* creation fails nothing has changed and the call returns TID_ERROR.      *)
thread_create(p, c, function) ==
    /\ pc[p] = "user"
    /\ pc[c] = "unborn"
    /\ bond' = [bond EXCEPT ![c] = NewBond]
    /\ children' = [children EXCEPT ![p] = <<c>> \o @]
    /\ pc' = [pc EXCEPT ![p] = "load_wait", ![c] = function]
    /\ target' = [target EXCEPT ![p] = c]
    /\ UNCHANGED reap

(* process_fork: the child starts in dup_process.                          *)
process_fork(p, c) == p # Main /\ thread_create(p, c, "dup")

(* process_execute: the child starts in process_start.                     *)
process_execute(p, c) == thread_create(p, c, "start")

(* dup_process or load succeeds: clear load_fail, then sema_up (load).     *)
LoadOk(c) ==
    /\ pc[c] \in {"dup", "start"}
    /\ bond' = [bond EXCEPT ![c].load_fail = FALSE, ![c].load = @ + 1]
    /\ pc' = [pc EXCEPT ![c] = "user"]
    /\ UNCHANGED <<children, target, reap>>

(* dup_process or load fails: sema_up (load), then sys_exit (-1).          *)
LoadFail(c) ==
    /\ pc[c] \in {"dup", "start"}
    /\ bond' = [bond EXCEPT ![c].load = @ + 1]
    /\ pc' = [pc EXCEPT ![c] = "kids"]
    /\ UNCHANGED <<children, target, reap>>

(* The first palloc_get_page of process_start fails: sys_exit (-1) before  *)
(* load is reached.                                                        *)
StartNoPage(c) ==
    /\ c \in PageFails
    /\ pc[c] = "start"
    /\ pc' = [pc EXCEPT ![c] = "kids"]
    /\ UNCHANGED <<bond, children, target, reap>>

(* sys_exec2: the running process calls process_start itself.              *)
sys_exec2(p) ==
    /\ p # Main
    /\ pc[p] = "user"
    /\ bond[p].load < MaxLoad
    /\ pc' = [pc EXCEPT ![p] = "start"]
    /\ UNCHANGED <<bond, children, target, reap>>

(* The parent's sema_down (load) and its test of load_fail.                *)
LoadWait(p) ==
    LET c == target[p] IN
    /\ pc[p] = "load_wait"
    /\ bond[c].load > 0
    /\ bond' = [bond EXCEPT ![c].load = @ - 1]
    /\ IF bond[c].load_fail
       THEN /\ pc' = [pc EXCEPT ![p] = "fail_wait"]
            /\ UNCHANGED target
       ELSE /\ pc' = [pc EXCEPT ![p] = "user"]
            /\ target' = [target EXCEPT ![p] = None]
    /\ UNCHANGED <<children, reap>>

(* list_remove: the bond of c leaves the list.                             *)
unlink(list, c) ==
    LET k == CHOOSE i \in DOMAIN list : list[i] = c
    IN [i \in 1 .. Len(list) - 1 |-> list[IF i < k THEN i ELSE i + 1]]

(* After a failed load: sema_down (exit), unlink and free the bond.  The   *)
(* reference counter is not consulted.                                     *)
FailWait(p) ==
    LET c == target[p] IN
    /\ pc[p] = "fail_wait"
    /\ bond[c].exit > 0
    /\ bond' = [bond EXCEPT ![c].exit = @ - 1, ![c].mem = "freed"]
    /\ children' = [children EXCEPT ![p] = unlink(@, c)]
    /\ pc' = [pc EXCEPT ![p] = "user"]
    /\ target' = [target EXCEPT ![p] = None]
    /\ UNCHANGED reap

-----------------------------------------------------------------------------
(* find_child: a tid that is not on the list makes process_wait return -1  *)
(* at once, which changes nothing.                                         *)
find_child(p, c) == c \in Range(children[p])

process_wait(p, c) ==
    /\ pc[p] = "user"
    /\ find_child(p, c)
    /\ pc' = [pc EXCEPT ![p] = "exit_wait"]
    /\ target' = [target EXCEPT ![p] = c]
    /\ UNCHANGED <<bond, children, reap>>

(* sema_down (exit), then unlink the bond from the list.                   *)
WaitDown(p) ==
    LET c == target[p] IN
    /\ pc[p] = "exit_wait"
    /\ bond[c].exit > 0
    /\ bond' = [bond EXCEPT ![c].exit = @ - 1]
    /\ children' = [children EXCEPT ![p] = unlink(@, c)]
    /\ pc' = [pc EXCEPT ![p] = "drop"]
    /\ UNCHANGED <<target, reap>>

(* Mutant of is_orphan_or_zombie: the counter is tested before it is       *)
(* decremented.                                                            *)
MutantTestsOldCount(p, c) ==
    /\ bond' = [bond EXCEPT ![c].ref = @ - 1]
    /\ reap' = [reap EXCEPT ![p] = bond[c].ref = 0]

(* is_orphan_or_zombie: drop one reference under the bond's spinlock;      *)
(* the caller reaps the bond when that was the last one.                   *)
is_orphan_or_zombie(p, c) ==
    /\ bond' = [bond EXCEPT ![c].ref = @ - 1]
    /\ reap' = [reap EXCEPT ![p] = bond[c].ref - 1 = 0]

WaitDrop(p) ==
    /\ pc[p] = "drop"
    /\ is_orphan_or_zombie(p, target[p])
    /\ pc' = [pc EXCEPT ![p] = "collect"]
    /\ UNCHANGED <<children, target>>

(* if (reap) free (bond).                                                  *)
FreeIfReap(p, c) ==
    bond' = IF reap[p] THEN [bond EXCEPT ![c].mem = "freed"] ELSE bond

WaitCollect(p) ==
    /\ pc[p] = "collect"
    /\ FreeIfReap(p, target[p])
    /\ pc' = [pc EXCEPT ![p] = "user"]
    /\ target' = [target EXCEPT ![p] = None]
    /\ UNCHANGED <<children, reap>>

-----------------------------------------------------------------------------
(* sys_exit, or a kill by exception.c: thread_exit and so process_exit.    *)
sys_exit(p) ==
    /\ p # Main
    /\ pc[p] = "user"
    /\ pc' = [pc EXCEPT ![p] = "kids"]
    /\ UNCHANGED <<bond, children, target, reap>>

(* One turn of the loop over the children list of an exiting process:      *)
(* drop the reference to the child's bond, ...                             *)
ExitChild(p) ==
    LET c == Head(children[p]) IN
    /\ pc[p] = "kids"
    /\ children[p] # <<>>
    /\ is_orphan_or_zombie(p, c)
    /\ target' = [target EXCEPT ![p] = c]
    /\ pc' = [pc EXCEPT ![p] = "kid_unlink"]
    /\ UNCHANGED children

(* ... take it off the list, through the links in the bond itself, ...     *)
(* (If the child has freed the bond in between the links are whatever the  *)
(* memory holds now; the process goes on if they are intact, or is lost.)  *)
ExitChildUnlink(p) ==
    /\ pc[p] = "kid_unlink"
    /\ \/ /\ children' = [children EXCEPT ![p] = Tail(@)]
          /\ pc' = [pc EXCEPT ![p] = "kid_free"]
       \/ /\ bond[target[p]].mem = "freed"
          /\ pc' = [pc EXCEPT ![p] = "lost"]
          /\ UNCHANGED children
    /\ UNCHANGED <<bond, target, reap>>

(* ... and free it if that reference was the last.                         *)
ExitChildFree(p) ==
    /\ pc[p] = "kid_free"
    /\ FreeIfReap(p, target[p])
    /\ target' = [target EXCEPT ![p] = None]
    /\ pc' = [pc EXCEPT ![p] = "kids"]
    /\ UNCHANGED <<children, reap>>

(* The exiting process drops the reference to its own bond ...             *)
ExitDrop(p) ==
    /\ pc[p] = "kids"
    /\ children[p] = <<>>
    /\ is_orphan_or_zombie(p, p)
    /\ pc' = [pc EXCEPT ![p] = "exit_up"]
    /\ UNCHANGED <<children, target>>

(* Mutant of ExitUp: the parent is not signalled.                          *)
MutantNoExitUp(p) ==
    /\ pc[p] = "exit_up"
    /\ pc' = [pc EXCEPT ![p] = "self_free"]
    /\ UNCHANGED <<bond, children, target, reap>>

(* ... and signals its parent through it.  A bond the parent has freed in  *)
(* between is memory of somebody else: the semaphore's spinlock may read   *)
(* as free, and the process goes on, or as held, and it spins for ever.    *)
ExitUp(p) ==
    /\ pc[p] = "exit_up"
    /\ \/ /\ bond[p].mem = "live"
          /\ bond' = [bond EXCEPT ![p].exit = @ + 1]
          /\ pc' = [pc EXCEPT ![p] = "self_free"]
       \/ /\ bond[p].mem = "freed"
          /\ pc' \in {[pc EXCEPT ![p] = "self_free"], [pc EXCEPT ![p] = "wild"]}
          /\ UNCHANGED bond
    /\ UNCHANGED <<children, target, reap>>

(* if (reap) free (cur->bond), and the thread is gone.                     *)
ExitFree(p) ==
    /\ pc[p] = "self_free"
    /\ FreeIfReap(p, p)
    /\ pc' = [pc EXCEPT ![p] = "dead"]
    /\ UNCHANGED <<children, target, reap>>

-----------------------------------------------------------------------------
(* The steps the kernel takes for p without waiting for p's program.       *)
Kernel(p) ==
    \/ LoadOk(p)   \/ LoadFail(p) \/ StartNoPage(p)
    \/ LoadWait(p) \/ FailWait(p)
    \/ WaitDown(p) \/ WaitDrop(p) \/ WaitCollect(p)
    \/ ExitChild(p) \/ ExitChildUnlink(p) \/ ExitChildFree(p)
    \/ ExitDrop(p) \/ ExitUp(p) \/ ExitFree(p)

(* The system calls p's program may make.                                  *)
User(p) ==
    \/ \E c \in Procs : process_fork(p, c) \/ process_execute(p, c) \/ process_wait(p, c)
    \/ sys_exec2(p)
    \/ sys_exit(p)

BondNext == \E p \in Procs : Kernel(p) \/ User(p)

BondSpec == BondInit /\ [][BondNext]_bond_vars

(* The scheduler runs every ready thread again and again, and a load or a  *)
(* copy ends one way or the other.  Programs need not make any call.       *)
BondFairSpec == BondSpec /\ \A p \in Procs : WF_bond_vars(Kernel(p))

-----------------------------------------------------------------------------
(* Who still owes the bond of c an is_orphan_or_zombie.                    *)
Unlinking(p, c) == pc[p] \in {"kid_unlink", "lost"} /\ target[p] = c

ParentHolds(c) ==
    \E p \in Procs :
        \/ find_child(p, c) /\ ~Unlinking(p, c)
        \/ pc[p] = "drop" /\ target[p] = c

ChildHolds(c) == pc[c] \notin {"exit_up", "self_free", "dead", "wild"}

(* The reference counter of a live bond is the number of its two sides     *)
(* that have not yet dropped their reference (thread.h, "2 = both parent   *)
(* and child are alive").                                                  *)
CountMatchesHolders ==
    \A c \in Procs : bond[c].mem = "live" =>
        bond[c].ref = (IF ParentHolds(c) THEN 1 ELSE 0) + (IF ChildHolds(c) THEN 1 ELSE 0)

(* Whoever has not dropped its reference to a bond, or has dropped the     *)
(* last one and is about to free it, finds the bond allocated: no          *)
(* semaphore, counter or flag of a freed bond is used (but for the two     *)
(* accesses below), and no bond is freed twice.                            *)
UsersHaveABond ==
    /\ \A c \in Procs \ {Main} :
        pc[c] \in Alive \union {"kids", "kid_unlink", "kid_free"} => bond[c].mem = "live"
    /\ \A p, c \in Procs : find_child(p, c) /\ ~Unlinking(p, c) => bond[c].mem = "live"
    /\ \A p \in Procs :
        (\/ pc[p] \in Waiting \union {"drop", "collect"}
         \/ pc[p] \in {"kid_unlink", "kid_free"} /\ reap[p]) => bond[target[p]].mem = "live"
    /\ \A c \in Procs : pc[c] \in {"exit_up", "self_free"} /\ reap[c] => bond[c].mem = "live"

(* No bond is leaked: a live bond is referenced by a side that will drop   *)
(* it, or the side that dropped the last reference is about to free it.    *)
BondsAreReaped ==
    \A c \in Procs : bond[c].mem = "live" =>
        \/ ParentHolds(c)
        \/ ChildHolds(c)
        \/ reap[c] /\ pc[c] \in {"exit_up", "self_free"}
        \/ \E p \in Procs : reap[p] /\ target[p] = c /\ pc[p] \in {"collect", "kid_unlink", "kid_free"}

(* When process_wait comes back from sema_down the child has exited and is *)
(* a zombie, as the comment in process_wait says: it has dropped its       *)
(* reference, it will not touch the bond, and the parent reaps the bond.   *)
WaitedChildIsZombie ==
    \A p \in Procs :
        /\ pc[p] \in {"drop", "collect"} =>
              pc[target[p]] \in {"self_free", "dead"} /\ ~reap[target[p]]
        /\ pc[p] = "collect" => reap[p]

(* What the kernel keeps true of the bonds of any family, however forks,   *)
(* loads, waits and exits interleave.                                      *)
FamilyIsSound ==
    /\ BondTypeOK /\ CountMatchesHolders /\ UsersHaveABond /\ BondsAreReaped
    /\ WaitedChildIsZombie

(* Nobody uses a bond after somebody freed it, since its reference counter *)
(* reaches 0 only when "both parent and the child are dead": an exiting    *)
(* child signals a bond that is still there, and an exiting parent takes a *)
(* bond that is still there off its list.                                  *)
BondOutlivesItsUsers ==
    \A p \in Procs :
        /\ pc[p] = "exit_up" => bond[p].mem = "live"
        /\ pc[p] = "kid_unlink" => bond[target[p]].mem = "live"

(* fork and exec come back to their caller: the child signals the load     *)
(* semaphore whether or not the load succeeds, unless it runs out of pages *)
(* before it comes to load.                                                *)
CreateReturns ==
    \A p \in Procs :
        (pc[p] \in {"load_wait", "fail_wait"} /\ target[p] \notin PageFails)
            ~> (pc[p] = "user")

(* A parent that waits for a child comes back once the child exits, unless *)
(* the child went astray in a freed bond on its way out.                   *)
WaitReturns ==
    \A p \in Procs :
        (\E c \in Procs : pc[p] = "exit_wait" /\ target[p] = c /\ pc[c] \in Exiting)
            ~> (pc[p] = "user" \/ \E c \in Procs : target[p] = c /\ pc[c] \in Astray)
=============================================================================
