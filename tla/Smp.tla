-------------------------------- MODULE Smp --------------------------------
(***************************************************************************)
(* Several processors: the boot processor starts the others one at a time  *)
(* (threads/init.c), a change to a page table is made known to the others  *)
(* by an interrupt each must acknowledge (userprog/pagedir.c, ipi.c,       *)
(* devices/lapic.c), and one stops the rest before it powers the machine   *)
(* off (devices/shutdown.c).                                               *)
(*                                                                         *)
(* A process has one thread, so its page directory is active on one        *)
(* processor at a time.  ver counts the changes to a directory, tlb is the *)
(* version a processor's TLB was filled from.                              *)
(***************************************************************************)
EXTENDS Integers, FiniteSets

CONSTANTS CPUs,        \* 0 is the boot processor
          Dirs,        \* page directories of user processes
          None,        \* init_page_dir, nobody
          MaxChanges   \* bound on the changes to page tables

VARIABLES cpu_pc,          \* where each processor is
          started,     \* cpu->started
          can_acquire, others,   \* cpu_can_acquire_spinlock, cpu_started_others
          cur,         \* the processor start_other_cpus is at
          pd, tlb,     \* active directory; version in the TLB, 0 if empty
          ver,         \* directory -> changes made to it
          job,         \* processor -> the directory it is invalidating
          flush,       \* tlb_flush_state: lock owner, pd, remaining
          ipi,         \* interrupts pending: <<processor, kind>>
          console,     \* holder of the console lock
          changes
smp_vars == <<cpu_pc, started, can_acquire, others, cur, pd, tlb, ver, job, flush, ipi, console, changes>>
boot_vars == <<started, can_acquire, others, cur>>
tlb_vars == <<pd, tlb, ver, job, flush, changes>>

SmpInit ==
  /\ cpu_pc = [c \in CPUs |-> IF c = 0 THEN "boot" ELSE "off"]
  /\ started = [c \in CPUs |-> FALSE] /\ can_acquire = FALSE /\ others = FALSE /\ cur = 1
  /\ pd = [c \in CPUs |-> None] /\ tlb = [c \in CPUs |-> 0] /\ ver = [d \in Dirs |-> 1]
  /\ job = pd /\ flush = [lock |-> None, pd |-> None, remaining |-> 0]
  /\ ipi = {} /\ console = None /\ changes = 0

Go(c, s) == cpu_pc' = [cpu_pc EXCEPT ![c] = s]
ncpu == Cardinality(CPUs)
-----------------------------------------------------------------------------
(* start_other_cpus and ap_main.  "alloc" is the time in palloc_get_page,     *)
(* whose pool the processors cannot lock yet.                                 *)

\* The next stack, or, when the last has started, the end of the rendezvous.
StartNext ==
  /\ cpu_pc[0] = "boot"
  /\ IF cur < ncpu THEN Go(0, "alloc") /\ UNCHANGED boot_vars
     ELSE /\ can_acquire' = TRUE /\ others' = TRUE /\ Go(0, "run")
          /\ UNCHANGED <<started, cur>>
  /\ UNCHANGED <<tlb_vars, ipi, console>>
lapic_start_ap ==
  /\ cpu_pc[0] = "alloc"
  /\ cpu_pc' = [cpu_pc EXCEPT ![0] = "await", ![cur] = "alloc"]
  /\ UNCHANGED <<boot_vars, tlb_vars, ipi, console>>
AwaitStarted ==
  /\ cpu_pc[0] = "await" /\ started[cur]
  /\ cur' = cur + 1 /\ Go(0, "boot")
  /\ UNCHANGED <<started, can_acquire, others, tlb_vars, ipi, console>>
\* The processor makes its idle thread, signals, and waits for the rest.
ap_main(c) ==
  /\ c # 0
  /\ \/ /\ cpu_pc[c] = "alloc" /\ Go(c, "rendezvous")
        /\ started' = [started EXCEPT ![c] = TRUE]
     \/ /\ cpu_pc[c] = "rendezvous" /\ others /\ Go(c, "run")
        /\ UNCHANGED started
  /\ UNCHANGED <<can_acquire, others, cur, tlb_vars, ipi, console>>
-----------------------------------------------------------------------------
(* Running: threads switch, touch memory, print, change page tables.          *)
Switch(c, d) ==
  /\ cpu_pc[c] = "run" /\ \A k \in CPUs : d = None \/ pd[k] # d
  /\ pd' = [pd EXCEPT ![c] = d] /\ tlb' = [tlb EXCEPT ![c] = 0]
  /\ UNCHANGED <<cpu_pc, boot_vars, ver, job, flush, changes, ipi, console>>
Touch(c) ==
  /\ cpu_pc[c] = "run" /\ pd[c] # None /\ tlb[c] = 0
  /\ tlb' = [tlb EXCEPT ![c] = ver[pd[c]]]
  /\ UNCHANGED <<cpu_pc, boot_vars, pd, ver, job, flush, changes, ipi, console>>
acquire_console(c) ==
  /\ cpu_pc[c] = "run" /\ console = None /\ console' = c
  /\ UNCHANGED <<cpu_pc, boot_vars, tlb_vars, ipi>>
release_console(c) ==
  /\ cpu_pc[c] = "run" /\ console = c /\ console' = None
  /\ UNCHANGED <<cpu_pc, boot_vars, tlb_vars, ipi>>

\* pagedir_set_accessed and the like, then invalidate_pagedir.
invalidate_pagedir(c, d) ==
  /\ cpu_pc[c] = "run" /\ changes < MaxChanges /\ changes' = changes + 1
  /\ ver' = [ver EXCEPT ![d] = @ + 1]
  /\ IF pd[c] = d THEN tlb' = [tlb EXCEPT ![c] = 0] /\ UNCHANGED <<cpu_pc, job>>
     ELSE Go(c, "lock") /\ job' = [job EXCEPT ![c] = d] /\ UNCHANGED tlb
  /\ UNCHANGED <<boot_vars, pd, flush, ipi, console>>

\* invalidate_pagedir_others: the lock, the request, the interrupts, the wait.
LockFlush(c) ==
  /\ cpu_pc[c] = "lock" /\ flush.lock = None
  /\ flush' = [lock |-> c, pd |-> job[c], remaining |-> ncpu - 1]
  /\ Go(c, "send")
  /\ UNCHANGED <<boot_vars, pd, tlb, ver, job, changes, ipi, console>>
lapic_send_ipi_to_all_but_self(c, kind) ==
  ipi' = IF others THEN ipi \cup {<<k, kind>> : k \in CPUs \ {c}} ELSE ipi
SendFlush(c) ==
  /\ cpu_pc[c] = "send" /\ lapic_send_ipi_to_all_but_self(c, "tlb") /\ Go(c, "wait")
  /\ UNCHANGED <<boot_vars, tlb_vars, console>>
MutantOneAnswer(c) ==
  /\ cpu_pc[c] = "wait" /\ flush.remaining < ncpu - 1
  /\ flush' = [flush EXCEPT !.lock = None]
  /\ job' = [job EXCEPT ![c] = None] /\ Go(c, "run")
  /\ UNCHANGED <<boot_vars, pd, tlb, ver, changes, ipi, console>>
EndFlush(c) ==
  /\ cpu_pc[c] = "wait" /\ flush.remaining <= 0
  /\ flush' = [flush EXCEPT !.lock = None]
  /\ job' = [job EXCEPT ![c] = None] /\ Go(c, "run")
  /\ UNCHANGED <<boot_vars, pd, tlb, ver, changes, ipi, console>>

\* The handlers, on a processor that takes interrupts.
Interruptible == {"run", "lock", "send", "wait", "print"}
MutantNeverAnswers(c) ==
  /\ <<c, "tlb">> \in ipi /\ cpu_pc[c] \in Interruptible
  /\ ipi' = ipi \ {<<c, "tlb">>}
  /\ IF pd[c] = flush.pd
     THEN tlb' = [tlb EXCEPT ![c] = 0] /\ flush' = [flush EXCEPT !.remaining = @ - 1]
     ELSE UNCHANGED <<tlb, flush>>
  /\ UNCHANGED <<cpu_pc, boot_vars, pd, ver, job, changes, console>>
pagedir_handle_tlbflush_request(c) ==
  /\ <<c, "tlb">> \in ipi /\ cpu_pc[c] \in Interruptible
  /\ ipi' = ipi \ {<<c, "tlb">>}
  /\ tlb' = IF pd[c] = flush.pd THEN [tlb EXCEPT ![c] = 0] ELSE tlb
  /\ flush' = [flush EXCEPT !.remaining = @ - 1]
  /\ UNCHANGED <<cpu_pc, boot_vars, pd, ver, job, changes, console>>
shutdown_handle_ipi(c) ==
  /\ <<c, "shutdown">> \in ipi /\ cpu_pc[c] \in Interruptible
  /\ ipi' = ipi \ {<<c, "shutdown">>}
  /\ cpu_pc' = IF c = 0 THEN cpu_pc ELSE [cpu_pc EXCEPT ![c] = "frozen"]
  /\ UNCHANGED <<boot_vars, tlb_vars, console>>

\* shutdown_power_off: the others are told to stop, the statistics printed.
shutdown_power_off(c) ==
  /\ cpu_pc[c] = "run" /\ console # c
  /\ lapic_send_ipi_to_all_but_self(c, "shutdown") /\ Go(c, "print")
  /\ UNCHANGED <<boot_vars, tlb_vars, console>>
PowerOff(c) ==
  /\ cpu_pc[c] = "print" /\ console = None
  /\ Go(c, "poweroff")
  /\ UNCHANGED <<boot_vars, tlb_vars, ipi, console>>

On == \A c \in CPUs : cpu_pc[c] # "poweroff"
Boot == StartNext \/ lapic_start_ap \/ AwaitStarted \/ \E c \in CPUs : ap_main(c)
Work(c) == \/ acquire_console(c) \/ Touch(c)
           \/ \E d \in Dirs \cup {None} : Switch(c, d)
           \/ \E d \in Dirs : invalidate_pagedir(c, d)
Handle(c) == pagedir_handle_tlbflush_request(c) \/ shutdown_handle_ipi(c)
Flush(c) == LockFlush(c) \/ SendFlush(c) \/ EndFlush(c)
SmpStep(c) == Handle(c) \/ Flush(c) \/ release_console(c) \/ PowerOff(c)
SmpNext == On /\ (Boot \/ \E c \in CPUs : Work(c) \/ SmpStep(c) \/ shutdown_power_off(c))
\* A processor that runs goes on running and takes its interrupts.
SmpFairness == \A c \in CPUs :
  /\ WF_smp_vars(On /\ ap_main(c)) /\ WF_smp_vars(On /\ Handle(c)) /\ WF_smp_vars(On /\ Flush(c))
SmpSpec == SmpInit /\ [][SmpNext]_smp_vars /\ SmpFairness
-----------------------------------------------------------------------------
(* "To avoid any races": while spinlocks cannot be used, one processor at a    *)
(* time is in the page allocator.  And once a change to a page table has been  *)
(* made known, no processor translates with an older version of it: a TLB is   *)
(* behind only while the processor that made the change is still in            *)
(* invalidate_pagedir.                                                         *)
ProcessorsAgree ==
  /\ ~can_acquire => Cardinality({c \in CPUs : cpu_pc[c] = "alloc"}) <= 1
  /\ \A c \in CPUs : pd[c] # None /\ tlb[c] # 0 /\ tlb[c] # ver[pd[c]] =>
       \E k \in CPUs : job[k] = pd[c]

(* A flush ends: every processor answers, unless the machine is going down.    *)
FlushReturns ==
  flush.lock # None ~> (flush.lock = None \/ \E k \in CPUs : cpu_pc[k] \in {"print", "poweroff", "frozen"})
=============================================================================
