------------------------------ MODULE MCKernel ------------------------------
(***************************************************************************)
(* Small instances, for TLC, of the threads of the kernel and of a family  *)
(* of processes.  A behaviour is one of one part, chosen at the start.     *)
(***************************************************************************)
EXTENDS Threads, ProcessBond

CONSTANTS t1, t2, t3, p1, p2, p3

VARIABLE part

\* A thread without calls is never created: such a scenario has two threads.
TwoThreads == {t1, t2}
ThreeThreads == {t1, t2, t3}
AnyThread == Permutations(Threads)

\* Thread t makes the calls `own', the others `calls'.
Apart(t, own, calls) == [u \in Threads |-> IF u = t THEN own ELSE calls]

\* Three threads compete for a lock, one of them for good; one thread signals
\* what another waits for; two threads sleep; two threads read from the disk.
Scenarios ==
  {Apart(t, {"thread_create", "lock_acquire"}, {"lock_acquire", "lock_release"}) :
     t \in Threads}
  \cup {[Apart(t, {"thread_create", "lock_acquire", "lock_try_acquire",
                   "lock_release", "cond_signal", "cond_broadcast"},
               {"lock_acquire", "cond_wait"}) EXCEPT ![u] = {}] :
          t \in Threads, u \in Threads}
  \cup {Apart(t, {}, {"thread_create", "thread_exit", "timer_sleep"}) :
          t \in Threads}
  \cup {Apart(t, {}, {"thread_create", "lock_acquire", "lock_release", "ide_read"}) :
          t \in Threads}

\* Thread t1 creates t2; both sleep, or both read from the disk.
LiveScenarios ==
  {Apart(t1, {"thread_create", "timer_sleep"}, {"timer_sleep"}),
   Apart(t1, {"thread_create", "lock_acquire", "lock_release", "ide_read"},
         {"lock_acquire", "lock_release", "ide_read"})}
-----------------------------------------------------------------------------
all == <<part, vars, bond_vars>>

\* Threads are interchangeable, and so are the processes other than Main: tids
\* are handed out in no order that matters.
Renamings == AnyThread \cup Permutations({p1, p2, p3})

\* When the initial thread creates two others it makes no difference which of
\* the two processors the first one gets.
MCInit ==
  /\ part \in {"threads", "family"}
  /\ program \in Programs
  /\ next_cpu \in IF \A t \in Threads : program[t] # {} THEN {1} ELSE CPUs
  /\ Init /\ BondInit
  /\ part = "family" =>
       /\ curr[0] = t1 /\ next_cpu = 0
       /\ program = Apart(t1, {}, {"thread_create", "thread_exit", "timer_sleep"})

\* The tids run out, so the family may stop; the threads never all do.
MCNext ==
  /\ \/ part = "threads" /\ Next /\ UNCHANGED bond_vars
     \/ part = "family" /\ BondNext /\ UNCHANGED vars
     \/ part = "family" /\ UNCHANGED <<vars, bond_vars>>
  /\ UNCHANGED part

MCSpec == MCInit /\ [][MCNext]_all

\* The threads alone, with the fairness of processors and interrupts.
ThreadsInit == MCInit /\ part = "threads"
ThreadsFairSpec == ThreadsInit /\ [][MCNext]_all /\ Fairness
-----------------------------------------------------------------------------
\* A thread is where its status says, who is blocked can be found and woken, no
\* wake-up is lost, and only blocked threads are woken.
ThreadsAreSound ==
  TypeOK /\ StatusMatchesPlace /\ BlockedAreFindable /\ NoLostWakeup /\ WakesOnlyBlocked
\* Interrupts come back on, an idle processor runs a ready thread, and who sleeps
\* or waits for the disk becomes ready.
ThreadsMakeProgress == InterruptsComeBack /\ IdleCpuFindsWork /\ SleepersWake
=============================================================================
